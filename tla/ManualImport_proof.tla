-------------------------- MODULE ManualImport_proof --------------------------
(***************************************************************************)
(* No upload of a file is lost between the calls that free its id and take *)
(* it again, for any set of files and uploads: WorkSurvives is an          *)
(* invariant of ManualImport.  WorkInv adds NoStaleId to make it inductive.*)
(***************************************************************************)
EXTENDS ManualImport, TLAPS

IInv == TypeOK /\ WorkInv

\* A step that writes one state of one job changes that state alone.
LEMMA SetChanges ==
  ASSUME TypeOK, NEW q \in Queue, NEW f \in File, NEW state \in TaskState,
         Set(q, f, state)
  PROVE  /\ task' \in [Queue -> [File -> TaskRecord]]
         /\ \A p \in Queue, g \in File :
              State(p, g)' = IF p = q /\ g = f THEN state ELSE State(p, g)
<1>1. task \in [Queue -> [File -> TaskRecord]]
  BY DEF TypeOK
<1>2. [task[q][f] EXCEPT !.state = state] \in TaskRecord
  BY <1>1 DEF TaskRecord
<1>3. task' = [task EXCEPT ![q][f] = [task[q][f] EXCEPT !.state = state]]
  BY <1>1 DEF Set
<1>4. task' \in [Queue -> [File -> TaskRecord]]
  BY <1>1, <1>2, <1>3
<1>5. ASSUME NEW p \in Queue, NEW g \in File
      PROVE  State(p, g)' = IF p = q /\ g = f THEN state ELSE State(p, g)
  BY <1>1, <1>3 DEF State, TaskRecord
<1> QED
  BY <1>4, <1>5

\* The row of a file stays a row, and the count of faults a number.
LEMMA TellType ==
  ASSUME TypeOK, NEW f \in File, NEW verdict \in RowState, NEW ok \in BOOLEAN,
         Tell(f, verdict, ok)
  PROVE  row' \in [File -> RowState]
<1>1. row \in [File -> RowState]
  BY DEF TypeOK
<1>2. CASE ok
  BY <1>1, <1>2 DEF Tell
<1>3. CASE ~ok
  BY <1>1, <1>3 DEF Tell
<1> QED
  BY <1>2, <1>3

LEMMA SpendType ==
  ASSUME TypeOK, NEW ok \in BOOLEAN, Spend(ok) PROVE faults' \in Nat
  BY DEF TypeOK, Spend

\* A job's record with two of its fields rewritten.
LEMMA RecordChanges ==
  ASSUME NEW t \in TaskRecord, NEW state \in TaskState,
         NEW attempts \in 0 .. MaxAttempts
  PROVE  /\ [t EXCEPT !.state = state, !.attempts = attempts] \in TaskRecord
         /\ [t EXCEPT !.state = state, !.attempts = attempts].state = state
  BY DEF TaskRecord

LEMMA StallChanges ==
  ASSUME NEW t \in TaskRecord
  PROVE  /\ Stalled(t) \in TaskRecord
         /\ Stalled(t).state = IF t.stalls < MaxStalls THEN "waiting" ELSE "failed"
<1>1. "waiting" \in TaskState /\ "failed" \in TaskState /\ t.stalls + 1 \in Nat
  BY DEF TaskRecord, TaskState, Ended
<1>2. CASE t.stalls < MaxStalls
  <2>1. Stalled(t) = [t EXCEPT !.stalls = t.stalls + 1, !.state = "waiting"]
    BY <1>2 DEF Stalled
  <2> QED
    BY <1>1, <1>2, <2>1 DEF TaskRecord
<1>3. CASE ~(t.stalls < MaxStalls)
  <2>1. Stalled(t) = [t EXCEPT !.stalls = t.stalls + 1, !.state = "failed"]
    BY <1>3 DEF Stalled
  <2> QED
    BY <1>1, <1>3, <2>1 DEF TaskRecord
<1> QED
  BY <1>2, <1>3

LEMMA InitInv == Init => IInv
<1> SUFFICES ASSUME Init PROVE IInv
  OBVIOUS
<1> USE FileAssumption, LimitAssumption
<1>1. TypeOK
  BY DEF Init, TypeOK, RequestState, TaskRecord, TaskState, Free, Running, Ended,
         RowState
<1>2. WorkInv
  BY DEF Init, WorkInv, WorkSurvives, NoStaleId
<1> QED
  BY <1>1, <1>2 DEF IInv

\* Steps of a request.
LEMMA LookInv == ASSUME IInv, NEW u \in Upload, Look(u) PROVE IInv'
<1> USE FileAssumption DEF IInv
<1>1. TypeOK'
  BY DEF TypeOK, Look, Goto, RequestState
<1>2. \A p \in Queue, g \in File : State(p, g)' = State(p, g)
  BY DEF Look, State
<1>3. \A v \in Upload : request'[v] =
        IF v = u THEN IF Finished("parse", FileOf[u]) THEN "remove" ELSE "add"
                 ELSE request[v]
  BY DEF Look, Goto, TypeOK
<1>4. owed' = owed \cup {u} /\ chained' = chained /\ request[u] = "new"
  BY DEF Look
<1>5. "parse" \in Queue /\ "crm" \in Queue
  BY DEF Queue
<1>6. WorkSurvives'
  BY <1>2, <1>3, <1>4, <1>5
     DEF WorkInv, WorkSurvives, Other, InFlight, TypeOK
<1>7. NoStaleId'
  BY <1>2, <1>3, <1>4, <1>5 DEF WorkInv, NoStaleId, Finished, TypeOK
<1> QED
  BY <1>1, <1>6, <1>7 DEF WorkInv

LEMMA RemoveInv == ASSUME IInv, NEW u \in Upload, Remove(u) PROVE IInv'
<1> USE FileAssumption DEF IInv
<1>0. "parse" \in Queue /\ "crm" \in Queue /\ Free \in TaskRecord
  BY LimitAssumption DEF Queue, Free, TaskRecord, TaskState
<1>1. TypeOK'
  BY <1>0 DEF TypeOK, Remove, Goto, RequestState
<1>2. /\ \A g \in File : State("crm", g)' = State("crm", g)
      /\ \A g \in File : State("parse", g)' =
           IF g = FileOf[u] /\ ~Active("parse", g) THEN "none"
           ELSE State("parse", g)
  BY <1>0 DEF Remove, State, TypeOK, Free
<1>3. \A v \in Upload : request'[v] = IF v = u THEN "add" ELSE request[v]
  BY DEF Remove, Goto, TypeOK
<1>4. owed' = owed /\ chained' = chained /\ request[u] = "remove"
  BY DEF Remove
<1>5. FileOf[u] \in File
  OBVIOUS
<1>6. WorkSurvives'
  BY <1>2, <1>3, <1>4, <1>5
     DEF WorkInv, WorkSurvives, Other, InFlight, Active, TypeOK, Running
<1>7. NoStaleId'
  BY <1>2, <1>3, <1>4, <1>5
     DEF WorkInv, NoStaleId, Finished, Active, TypeOK, Running, Ended
<1> QED
  BY <1>1, <1>6, <1>7 DEF WorkInv

LEMMA AddInv == ASSUME IInv, NEW u \in Upload, Add(u) PROVE IInv'
<1> USE FileAssumption DEF IInv
<1>0. "parse" \in Queue /\ "crm" \in Queue /\ Added \in TaskRecord
  BY LimitAssumption DEF Queue, Free, Added, TaskRecord, TaskState
<1>1. TypeOK'
  BY <1>0 DEF TypeOK, Add, Goto, RequestState
<1>2. /\ \A g \in File : State("crm", g)' = State("crm", g)
      /\ \A g \in File : State("parse", g)' =
           IF g = FileOf[u] /\ State("parse", g) = "none" THEN "waiting"
           ELSE State("parse", g)
  BY <1>0 DEF Add, State, TypeOK, Added, Free
<1>3. \A v \in Upload : request'[v] = IF v = u THEN "mark" ELSE request[v]
  BY DEF Add, Goto, TypeOK
<1>4. owed' = owed /\ chained' = chained /\ request[u] = "add"
  BY DEF Add
<1>5. FileOf[u] \in File
  OBVIOUS
<1>6. \A g \in File : State("parse", g) \in TaskState
  BY <1>0 DEF State, TypeOK, TaskRecord
<1>7. ASSUME NEW v \in owed', request'[v] \in {"mark", "accepted"}
      PROVE  InFlight("parse", FileOf[v])' \/ Other(FileOf[v])'
  <2> v \in Upload /\ v \in owed
    BY <1>4 DEF TypeOK
  <2>1. CASE FileOf[v] = FileOf[u]
    <3>1. ~Finished("parse", FileOf[v])
      BY <1>3, <1>4, <1>7 DEF WorkInv, NoStaleId
    <3> QED
      BY <2>1, <3>1, <1>2, <1>5, <1>6
         DEF InFlight, Finished, TaskState, Running, Ended
  <2>2. CASE FileOf[v] # FileOf[u]
    <3>1. InFlight("parse", FileOf[v]) \/ Other(FileOf[v])
      BY <2>2, <1>3, <1>7 DEF WorkInv, WorkSurvives
    <3>2. Other(FileOf[v]) => Other(FileOf[v])'
      BY <2>2, <1>3 DEF Other
    <3> QED
      BY <2>2, <3>1, <3>2, <1>2 DEF InFlight
  <2> QED
    BY <2>1, <2>2
<1>8. WorkSurvives'
  BY <1>2, <1>4, <1>7
     DEF WorkInv, WorkSurvives, InFlight, TypeOK, Running
<1>9. NoStaleId'
  BY <1>2, <1>3, <1>4, <1>5
     DEF WorkInv, NoStaleId, Finished, TypeOK, Ended
<1> QED
  BY <1>1, <1>8, <1>9 DEF WorkInv

LEMMA MarkInv ==
  ASSUME IInv, NEW u \in Upload, NEW ok \in BOOLEAN, Mark(u, ok) PROVE IInv'
<1> USE FileAssumption DEF IInv
<1>1. TypeOK'
  <2>1. row' \in [File -> RowState]
    BY TellType DEF Mark, RowState
  <2>2. faults' \in Nat
    BY SpendType DEF Mark
  <2> QED
    BY <2>1, <2>2 DEF TypeOK, Mark, Goto, RequestState
<1>2. \A p \in Queue, g \in File : State(p, g)' = State(p, g)
  BY DEF Mark, State
<1>3. \A v \in Upload : request'[v] = IF v = u THEN "accepted" ELSE request[v]
  BY DEF Mark, Goto, TypeOK
<1>4. owed' = owed /\ chained' = chained /\ request[u] = "mark"
  BY DEF Mark
<1>5. "parse" \in Queue /\ "crm" \in Queue
  BY DEF Queue
<1>6. WorkSurvives'
  BY <1>2, <1>3, <1>4, <1>5
     DEF WorkInv, WorkSurvives, Other, InFlight, TypeOK
<1>7. NoStaleId'
  BY <1>2, <1>3, <1>4, <1>5 DEF WorkInv, NoStaleId, Finished, TypeOK
<1> QED
  BY <1>1, <1>6, <1>7 DEF WorkInv

\* Steps of the parse worker before it settles a job.
LEMMA StartInv == ASSUME IInv, NEW f \in File, Start(f) PROVE IInv'
<1> USE FileAssumption DEF IInv
<1>1. "parse" \in Queue /\ "crm" \in Queue /\ "read" \in TaskState
  BY DEF Queue, TaskState, Running
<1>2. /\ task' \in [Queue -> [File -> TaskRecord]]
      /\ \A p \in Queue, g \in File :
           State(p, g)' = IF p = "parse" /\ g = f THEN "read" ELSE State(p, g)
  BY <1>1, SetChanges DEF Start
<1>3. /\ request' = request /\ row' = row /\ owed' = owed
      /\ chained' = chained /\ faults' = faults /\ crashes' = crashes
      /\ State("parse", f) = "waiting"
  BY DEF Start
<1>4. TypeOK'
  BY <1>2, <1>3 DEF TypeOK
<1>5. WorkSurvives'
  BY <1>1, <1>2, <1>3
     DEF WorkInv, WorkSurvives, Other, InFlight, TypeOK, Running
<1>6. NoStaleId'
  BY <1>1, <1>2, <1>3 DEF WorkInv, NoStaleId, Finished, TypeOK, Ended
<1> QED
  BY <1>4, <1>5, <1>6 DEF WorkInv

LEMMA ReadInv ==
  ASSUME IInv, NEW f \in File, NEW ok \in BOOLEAN, Read(f, ok) PROVE IInv'
<1> USE FileAssumption DEF IInv
<1>1. "parse" \in Queue /\ "crm" \in Queue /\ "error" \in RowState
  BY DEF Queue, RowState
<1>2. PICK state \in {"thrown", "done", "look"} : Set("parse", f, state)
  BY DEF Read
<1>3. state \in TaskState
  BY DEF TaskState, Running
<1>4. /\ task' \in [Queue -> [File -> TaskRecord]]
      /\ \A p \in Queue, g \in File :
           State(p, g)' = IF p = "parse" /\ g = f THEN state ELSE State(p, g)
  BY <1>1, <1>2, <1>3, SetChanges
<1>5. /\ request' = request /\ owed' = owed
      /\ chained' = chained /\ crashes' = crashes
      /\ State("parse", f) = "read"
  BY DEF Read
<1>6. row' \in [File -> RowState] /\ faults' \in Nat
  <2>1. CASE Spend(ok) /\ Tell(f, "error", ok)
    BY <1>1, <2>1, TellType, SpendType
  <2>2. CASE UNCHANGED <<row, faults>>
    BY <2>2 DEF TypeOK
  <2> QED
    BY <2>1, <2>2 DEF Read
<1>7. TypeOK'
  BY <1>4, <1>5, <1>6 DEF TypeOK
<1>8. WorkSurvives'
  BY <1>1, <1>4, <1>5
     DEF WorkInv, WorkSurvives, Other, InFlight, TypeOK, Running
<1>9. NoStaleId'
  BY <1>1, <1>4, <1>5 DEF WorkInv, NoStaleId, Finished, TypeOK, Ended
<1> QED
  BY <1>7, <1>8, <1>9 DEF WorkInv

LEMMA ChainLookInv == ASSUME IInv, NEW f \in File, ChainLook(f) PROVE IInv'
<1> USE FileAssumption DEF IInv
<1>1. "parse" \in Queue /\ "crm" \in Queue
  BY DEF Queue
<1> DEFINE state == IF Finished("crm", f) THEN "remove" ELSE "add"
<1>2. state \in TaskState /\ Set("parse", f, state)
  BY DEF ChainLook, TaskState, Running
<1>3. /\ task' \in [Queue -> [File -> TaskRecord]]
      /\ \A p \in Queue, g \in File :
           State(p, g)' = IF p = "parse" /\ g = f THEN state ELSE State(p, g)
  <2> HIDE DEF state
  <2> QED
    BY <1>1, <1>2, SetChanges
<1>4. /\ request' = request /\ row' = row /\ owed' = owed
      /\ chained' = chained \cup {f} /\ faults' = faults /\ crashes' = crashes
      /\ State("parse", f) = "look"
  BY DEF ChainLook
<1>5. TypeOK'
  BY <1>3, <1>4 DEF TypeOK
<1>6. WorkSurvives'
  BY <1>1, <1>3, <1>4
     DEF WorkInv, WorkSurvives, Other, InFlight, TypeOK, Running
<1>7. NoStaleId'
  BY <1>1, <1>3, <1>4 DEF WorkInv, NoStaleId, Finished, TypeOK, Ended
<1> QED
  BY <1>5, <1>6, <1>7 DEF WorkInv
LEMMA ChainRemoveInv == ASSUME IInv, NEW f \in File, ChainRemove(f) PROVE IInv'
<1> USE FileAssumption DEF IInv
<1>1. "parse" \in Queue /\ "crm" \in Queue /\ "parse" # "crm"
  BY DEF Queue
<1>2. task \in [Queue -> [File -> TaskRecord]]
  BY DEF TypeOK
<1> DEFINE parse == [task["parse"][f] EXCEPT !.state = "add"]
           crm == IF Active("crm", f) THEN task["crm"][f] ELSE Free
<1>3. parse \in TaskRecord /\ crm \in TaskRecord
  BY <1>1, <1>2, LimitAssumption DEF TaskRecord, TaskState, Running, Free, Added
<1>4. task' = [q \in Queue |-> [g \in File |->
                IF g # f THEN task[q][g] ELSE IF q = "parse" THEN parse ELSE crm]]
  BY <1>1, <1>2 DEF ChainRemove, Queue
<1>5. task' \in [Queue -> [File -> TaskRecord]]
  <2> HIDE DEF parse, crm
  <2> QED
    BY <1>2, <1>3, <1>4
<1>6. /\ \A g \in File :
           State("parse", g)' = IF g = f THEN "add" ELSE State("parse", g)
      /\ \A g \in File : State("crm", g)' =
           IF g = f /\ ~(Active("crm", f)) THEN "none" ELSE State("crm", g)
  BY <1>1, <1>2, <1>4 DEF State, TaskRecord, Free, Added
<1>7. /\ request' = request /\ row' = row /\ owed' = owed
      /\ chained' = chained /\ faults' = faults /\ crashes' = crashes
      /\ State("parse", f) = "remove"
  BY DEF ChainRemove
<1>8. TypeOK'
  BY <1>5, <1>7 DEF TypeOK
<1>9. \A g \in File : State("crm", g) \in TaskState
  BY <1>1, <1>2 DEF State, TaskRecord
<1>10. WorkSurvives'
  BY <1>1, <1>6, <1>7, <1>9
     DEF WorkInv, WorkSurvives, NoStaleId, Other, InFlight, Active, Finished,
         TypeOK, Running, Ended, TaskState
<1>11. NoStaleId'
  BY <1>1, <1>6, <1>7, <1>9
     DEF WorkInv, NoStaleId, Finished, Active, TypeOK, Running, Ended
<1> QED
  BY <1>8, <1>10, <1>11 DEF WorkInv

LEMMA ChainAddInv == ASSUME IInv, NEW f \in File, ChainAdd(f) PROVE IInv'
<1> USE FileAssumption DEF IInv
<1>1. "parse" \in Queue /\ "crm" \in Queue /\ "parse" # "crm"
  BY DEF Queue
<1>2. task \in [Queue -> [File -> TaskRecord]]
  BY DEF TypeOK
<1> DEFINE parse == [task["parse"][f] EXCEPT !.state = "done"]
           crm == IF State("crm", f) # "none" THEN task["crm"][f] ELSE Added
<1>3. parse \in TaskRecord /\ crm \in TaskRecord
  BY <1>1, <1>2, LimitAssumption DEF TaskRecord, TaskState, Running, Free, Added
<1>4. task' = [q \in Queue |-> [g \in File |->
                IF g # f THEN task[q][g] ELSE IF q = "parse" THEN parse ELSE crm]]
  BY <1>1, <1>2 DEF ChainAdd, Queue
<1>5. task' \in [Queue -> [File -> TaskRecord]]
  <2> HIDE DEF parse, crm
  <2> QED
    BY <1>2, <1>3, <1>4
<1>6. /\ \A g \in File :
           State("parse", g)' = IF g = f THEN "done" ELSE State("parse", g)
      /\ \A g \in File : State("crm", g)' =
           IF g = f /\ ~(State("crm", f) # "none") THEN "waiting" ELSE State("crm", g)
  BY <1>1, <1>2, <1>4 DEF State, TaskRecord, Free, Added
<1>7. /\ request' = request /\ row' = row /\ owed' = owed
      /\ chained' = chained /\ faults' = faults /\ crashes' = crashes
      /\ State("parse", f) = "add"
  BY DEF ChainAdd
<1>8. TypeOK'
  BY <1>5, <1>7 DEF TypeOK
<1>9. \A g \in File : State("crm", g) \in TaskState
  BY <1>1, <1>2 DEF State, TaskRecord
<1>10. WorkSurvives'
  BY <1>1, <1>6, <1>7, <1>9
     DEF WorkInv, WorkSurvives, NoStaleId, Other, InFlight, Active, Finished,
         TypeOK, Running, Ended, TaskState
<1>11. NoStaleId'
  BY <1>1, <1>6, <1>7, <1>9
     DEF WorkInv, NoStaleId, Finished, Active, TypeOK, Running, Ended
<1> QED
  BY <1>8, <1>10, <1>11 DEF WorkInv

\* Steps of the crm-sync worker before it settles a job.
LEMMA StartCrmInv ==
  ASSUME IInv, NEW f \in File, StartCrm(f) PROVE IInv'
<1> USE FileAssumption DEF IInv
<1>1. "parse" \in Queue /\ "crm" \in Queue /\ "work" \in TaskState
  BY DEF Queue, TaskState, Running
<1>2. /\ task' \in [Queue -> [File -> TaskRecord]]
      /\ \A p \in Queue, g \in File :
           State(p, g)' = IF p = "crm" /\ g = f THEN "work" ELSE State(p, g)
  BY <1>1, SetChanges DEF StartCrm
<1>3. /\ request' = request /\ owed' = owed
      /\ chained' = chained /\ crashes' = crashes
      /\ State("crm", f) = "waiting"
  BY DEF StartCrm
<1>4. row' \in [File -> RowState] /\ faults' \in Nat
  BY DEF StartCrm, TypeOK
<1>5. TypeOK'
  BY <1>2, <1>3, <1>4 DEF TypeOK
<1>6. WorkSurvives'
  BY <1>1, <1>2, <1>3
     DEF WorkInv, WorkSurvives, Other, InFlight, TypeOK, Running
<1>7. NoStaleId'
  BY <1>1, <1>2, <1>3 DEF WorkInv, NoStaleId, Finished, TypeOK, Ended
<1> QED
  BY <1>5, <1>6, <1>7 DEF WorkInv

LEMMA WorkEndsInv ==
  ASSUME IInv, NEW f \in File, NEW ok \in BOOLEAN, Work(f, ok) PROVE IInv'
<1> USE FileAssumption DEF IInv
<1>1. "parse" \in Queue /\ "crm" \in Queue /\ "done" \in TaskState
  BY DEF Queue, TaskState, Running
<1>2. /\ task' \in [Queue -> [File -> TaskRecord]]
      /\ \A p \in Queue, g \in File :
           State(p, g)' = IF p = "crm" /\ g = f THEN "done" ELSE State(p, g)
  BY <1>1, SetChanges DEF Work
<1>3. /\ request' = request /\ owed' = owed
      /\ chained' = chained /\ crashes' = crashes
      /\ State("crm", f) = "work"
  BY DEF Work
<1>4. row' \in [File -> RowState] /\ faults' \in Nat
  BY TellType, SpendType DEF Work, RowState
<1>5. TypeOK'
  BY <1>2, <1>3, <1>4 DEF TypeOK
<1>6. WorkSurvives'
  BY <1>1, <1>2, <1>3
     DEF WorkInv, WorkSurvives, Other, InFlight, TypeOK, Running
<1>7. NoStaleId'
  BY <1>1, <1>2, <1>3 DEF WorkInv, NoStaleId, Finished, TypeOK, Ended
<1> QED
  BY <1>5, <1>6, <1>7 DEF WorkInv

LEMMA WorkFailsInv ==
  ASSUME IInv, NEW f \in File, NEW ok \in BOOLEAN, WorkFails(f, ok) PROVE IInv'
<1> USE FileAssumption DEF IInv
<1>1. "parse" \in Queue /\ "crm" \in Queue /\ "thrown" \in TaskState
  BY DEF Queue, TaskState, Running
<1>2. /\ task' \in [Queue -> [File -> TaskRecord]]
      /\ \A p \in Queue, g \in File :
           State(p, g)' = IF p = "crm" /\ g = f THEN "thrown" ELSE State(p, g)
  BY <1>1, SetChanges DEF WorkFails
<1>3. /\ request' = request /\ owed' = owed
      /\ chained' = chained /\ crashes' = crashes
      /\ State("crm", f) = "work"
  BY DEF WorkFails
<1>4. row' \in [File -> RowState] /\ faults' \in Nat
  BY TellType, SpendType DEF WorkFails, RowState
<1>5. TypeOK'
  BY <1>2, <1>3, <1>4 DEF TypeOK
<1>6. WorkSurvives'
  BY <1>1, <1>2, <1>3
     DEF WorkInv, WorkSurvives, Other, InFlight, TypeOK, Running
<1>7. NoStaleId'
  BY <1>1, <1>2, <1>3 DEF WorkInv, NoStaleId, Finished, TypeOK, Ended
<1> QED
  BY <1>5, <1>6, <1>7 DEF WorkInv
\* BullMQ moves a job: to a new attempt, or to its end, which pays what is owed.
LEMMA RetryInv ==
  ASSUME IInv, NEW q \in Queue, NEW f \in File,
         Active(q, f), State(q, f) \notin {"remove", "add"},
         task' \in [Queue -> [File -> TaskRecord]],
         \A p \in Queue, g \in File :
           State(p, g)' = IF p = q /\ g = f THEN "waiting" ELSE State(p, g),
         UNCHANGED <<request, row, owed, chained, faults, crashes>>
  PROVE  IInv'
<1> USE FileAssumption DEF IInv
<1>1. "parse" \in Queue /\ "crm" \in Queue
  BY DEF Queue
<1>2. TypeOK'
  BY DEF TypeOK
<1>3. WorkSurvives'
  BY <1>1 DEF WorkInv, WorkSurvives, Other, InFlight, TypeOK, Running
<1>4. NoStaleId'
  BY <1>1 DEF WorkInv, NoStaleId, Finished, TypeOK, Ended
<1> QED
  BY <1>2, <1>3, <1>4 DEF WorkInv

LEMMA EndInv ==
  ASSUME IInv, NEW q \in Queue, NEW f \in File, NEW state \in Ended,
         Active(q, f), State(q, f) \notin {"remove", "add"},
         task' \in [Queue -> [File -> TaskRecord]],
         \A p \in Queue, g \in File :
           State(p, g)' = IF p = q /\ g = f THEN state ELSE State(p, g),
         Over(q, f), UNCHANGED <<request, row, faults, crashes>>
  PROVE  IInv'
<1> USE FileAssumption DEF IInv
<1>1. "parse" \in Queue /\ "crm" \in Queue /\ q \in {"parse", "crm"}
  BY DEF Queue
<1>2. /\ owed' \subseteq owed /\ chained' \subseteq chained
      /\ q = "parse" => \A u \in owed' : FileOf[u] # f
      /\ q = "crm" => f \notin chained'
  BY DEF Over, Of, TypeOK
<1>3. TypeOK'
  BY <1>2 DEF TypeOK
<1>4. WorkSurvives'
  BY <1>1, <1>2 DEF WorkInv, WorkSurvives, Other, InFlight, TypeOK, Running
<1>5. NoStaleId'
  BY <1>1, <1>2 DEF WorkInv, NoStaleId, Finished, TypeOK, Ended
<1> QED
  BY <1>3, <1>4, <1>5 DEF WorkInv

LEMMA SettleInv ==
  ASSUME IInv, NEW q \in Queue, NEW f \in File, Settle(q, f) PROVE IInv'
<1>1. task \in [Queue -> [File -> TaskRecord]]
  BY DEF IInv, TypeOK
<1>2. CASE /\ State(q, f) = "done"
           /\ Set(q, f, "completed")
           /\ Over(q, f)
  <2>1. /\ task' \in [Queue -> [File -> TaskRecord]]
        /\ \A p \in Queue, g \in File :
             State(p, g)' = IF p = q /\ g = f THEN "completed" ELSE State(p, g)
    BY <1>2, SetChanges DEF IInv, TaskState, Ended
  <2> QED
    BY <1>2, <2>1, EndInv DEF Settle, Active, Running, Ended
<1>3. CASE /\ State(q, f) = "thrown"
           /\ task[q][f].attempts + 1 < MaxAttempts
           /\ task' = [task EXCEPT ![q][f].state = "waiting",
                                   ![q][f].attempts = @ + 1]
           /\ UNCHANGED <<owed, chained>>
  <2> DEFINE more == task[q][f].attempts + 1
             t == [task[q][f] EXCEPT !.state = "waiting", !.attempts = more]
  <2>1. /\ task[q][f] \in TaskRecord /\ more \in 0 .. MaxAttempts
        /\ "waiting" \in TaskState
    BY <1>1, <1>3, LimitAssumption DEF TaskRecord, TaskState
  <2>2. t \in TaskRecord /\ t.state = "waiting"
    <3> HIDE DEF more
    <3> QED
      BY <2>1, RecordChanges
  <2>3. task' = [task EXCEPT ![q][f] = t]
    BY <1>1, <1>3
  <2>4. /\ task' \in [Queue -> [File -> TaskRecord]]
        /\ \A p \in Queue, g \in File :
             State(p, g)' = IF p = q /\ g = f THEN "waiting" ELSE State(p, g)
    <3> HIDE DEF t
    <3> QED
      BY <1>1, <2>2, <2>3 DEF State
  <2> QED
    BY <1>3, <2>4, RetryInv DEF Settle, Active, Running
<1>4. CASE /\ State(q, f) = "thrown"
           /\ task[q][f].attempts + 1 >= MaxAttempts
           /\ task' = [task EXCEPT ![q][f].state = "failed",
                                   ![q][f].attempts = MaxAttempts]
           /\ Over(q, f)
  <2> DEFINE t == [task[q][f] EXCEPT !.state = "failed", !.attempts = MaxAttempts]
  <2>1. /\ task[q][f] \in TaskRecord /\ MaxAttempts \in 0 .. MaxAttempts
        /\ "failed" \in TaskState
    BY <1>1, LimitAssumption DEF TaskState, Ended
  <2>2. t \in TaskRecord /\ t.state = "failed"
    BY <2>1, RecordChanges
  <2>3. task' = [task EXCEPT ![q][f] = t]
    BY <1>1, <1>4
  <2>4. /\ task' \in [Queue -> [File -> TaskRecord]]
        /\ \A p \in Queue, g \in File :
             State(p, g)' = IF p = q /\ g = f THEN "failed" ELSE State(p, g)
    <3> HIDE DEF t
    <3> QED
      BY <1>1, <2>2, <2>3 DEF State
  <2> QED
    BY <1>4, <2>4, EndInv DEF Settle, Active, Running, Ended
<1> QED
  BY <1>2, <1>3, <1>4 DEF Settle

LEMMA SweepInv ==
  ASSUME IInv, NEW q \in Queue, NEW f \in File, Sweep(q, f) PROVE IInv'
<1> USE FileAssumption DEF IInv
<1>1. "parse" \in Queue /\ "crm" \in Queue
  BY DEF Queue
<1>2. task \in [Queue -> [File -> TaskRecord]] /\ Free \in TaskRecord
  BY LimitAssumption DEF TypeOK, Free, TaskRecord, TaskState
<1>3. /\ task' \in [Queue -> [File -> TaskRecord]]
      /\ \A p \in Queue, g \in File :
           State(p, g)' = IF p = q /\ g = f THEN "none" ELSE State(p, g)
  BY <1>2 DEF Sweep, State, Free
<1>4. /\ UNCHANGED <<request, row, owed, chained, faults, crashes>>
      /\ State(q, f) \in Ended
  BY DEF Sweep, Finished
<1>5. TypeOK'
  BY <1>3, <1>4 DEF TypeOK
<1>6. \A p \in Queue, g \in File : InFlight(p, g) => InFlight(p, g)'
  BY <1>3, <1>4 DEF InFlight, Running, Ended
<1>8. \A g \in File : State("parse", g) \in {"remove", "add"}
                       => State("parse", g)' = State("parse", g)
  BY <1>1, <1>3, <1>4 DEF Ended
<1>9. \A g \in File : Other(g)' = Other(g)
  BY <1>4 DEF Other
<1>10. WorkSurvives'
  BY <1>1, <1>4, <1>6, <1>8, <1>9 DEF WorkInv, WorkSurvives, TypeOK
<1>7. NoStaleId'
  BY <1>1, <1>3, <1>4 DEF WorkInv, NoStaleId, Finished, TypeOK, Ended
<1> QED
  BY <1>5, <1>10, <1>7 DEF WorkInv

\* The death of the process: what is still owed afterwards is in flight.
LEMMA CrashInv ==
  ASSUME IInv, NEW http \in BOOLEAN, NEW worker \in BOOLEAN, Crash(http, worker)
  PROVE  IInv'
<1> USE FileAssumption DEF IInv
<1>1. "parse" \in Queue /\ "crm" \in Queue
  BY DEF Queue
<1>2. task \in [Queue -> [File -> TaskRecord]]
  BY DEF TypeOK
<1>3. ASSUME NEW q \in Queue, NEW f \in File
      PROVE  /\ Stalled(task[q][f]) \in TaskRecord
             /\ Stalled(task[q][f]).state =
                  IF task[q][f].stalls < MaxStalls THEN "waiting" ELSE "failed"
  <2>1. task[q][f] \in TaskRecord
    BY <1>2
  <2> QED
    BY <2>1, StallChanges
<1>4. task' \in [Queue -> [File -> TaskRecord]]
  <2>1. AfterDeath \in [Queue -> [File -> TaskRecord]]
    BY <1>2, <1>3 DEF AfterDeath
  <2> QED
    BY <1>2, <2>1 DEF Crash
<1>5. ASSUME NEW q \in Queue, NEW f \in File
      PROVE  State(q, f)' = IF worker /\ Lost(q, f) THEN "failed"
                            ELSE IF worker /\ Active(q, f) THEN "waiting"
                            ELSE State(q, f)
  <2>1. task'[q][f] = IF worker /\ Active(q, f) THEN Stalled(task[q][f])
                      ELSE task[q][f]
    BY DEF Crash, AfterDeath
  <2>2. task[q][f].stalls \in Nat
    BY <1>2 DEF TaskRecord
  <2> QED
    BY <2>1, <2>2, <1>3, LimitAssumption DEF State, Lost
<1>6. /\ owed' = {u \in owed : /\ http => ~InHand(u)
                               /\ worker => ~Lost("parse", FileOf[u])}
      /\ chained' = {f \in chained :
                       worker => ~Active("parse", f) /\ ~Lost("crm", f)}
      /\ row' = row /\ faults' = faults /\ crashes' \in Nat
  BY DEF Crash, TypeOK
<1>7. request' = IF ~http THEN request ELSE [u \in Upload |->
        IF request[u] = "add" THEN "cut"
        ELSE IF InHand(u) THEN "died" ELSE request[u]]
  BY DEF Crash
<1>8. request' \in [Upload -> RequestState]
  BY <1>7 DEF TypeOK, RequestState
<1>9. TypeOK'
  BY <1>4, <1>6, <1>8 DEF TypeOK
<1>10. ASSUME NEW u \in owed', request'[u] \in {"add", "mark", "accepted"}
       PROVE  /\ u \in Upload /\ u \in owed
              /\ worker => ~Lost("parse", FileOf[u])
              /\ request[u] = request'[u]
  BY <1>6, <1>7, <1>10 DEF TypeOK, InHand
<1>11. ASSUME NEW u \in owed', request'[u] \in {"mark", "accepted"}
       PROVE  InFlight("parse", FileOf[u])' \/ Other(FileOf[u])'
  <2>1. InFlight("parse", FileOf[u]) \/ Other(FileOf[u])
    BY <1>10, <1>11 DEF WorkInv, WorkSurvives
  <2>2. Other(FileOf[u]) => Other(FileOf[u])'
    BY <1>7 DEF Other, InHand
  <2> QED
    BY <1>1, <1>5, <1>10, <1>11, <2>1, <2>2 DEF InFlight, Active
<1>12. ASSUME NEW f \in chained'
       PROVE  InFlight("crm", f)' \/ State("parse", f)' \in {"remove", "add"}
  <2>1. /\ f \in File /\ f \in chained
        /\ worker => ~Active("parse", f) /\ ~Lost("crm", f)
    BY <1>6 DEF TypeOK
  <2>2. InFlight("crm", f) \/ State("parse", f) \in {"remove", "add"}
    BY <2>1 DEF WorkInv, WorkSurvives
  <2> QED
    BY <2>1, <2>2, <1>1, <1>5 DEF InFlight, Active, Running, Lost
<1>13. WorkSurvives'
  BY <1>11, <1>12 DEF WorkSurvives
<1>14. ASSUME NEW u \in owed', request'[u] \in {"add", "mark", "accepted"}
       PROVE  ~Finished("parse", FileOf[u])'
  <2>1. ~Finished("parse", FileOf[u])
    BY <1>10, <1>14 DEF WorkInv, NoStaleId
  <2> QED
    BY <2>1, <1>1, <1>5, <1>10, <1>14 DEF Finished, Ended
<1>15. ASSUME NEW f \in chained', State("parse", f)' = "add"
       PROVE  ~Finished("crm", f)'
  <2>1. /\ f \in File /\ f \in chained
        /\ worker => ~Active("parse", f) /\ ~Lost("crm", f)
    BY <1>6 DEF TypeOK
  <2>2. State("parse", f) = "add"
    BY <2>1, <1>1, <1>5, <1>15
  <2> QED
    BY <2>1, <2>2, <1>1, <1>5 DEF WorkInv, NoStaleId, Finished, Ended, Active, Running
<1>16. NoStaleId'
  BY <1>14, <1>15 DEF NoStaleId
<1> QED
  BY <1>9, <1>13, <1>16 DEF WorkInv

LEMMA StutterInv == ASSUME IInv, UNCHANGED vars PROVE IInv'
<1>1. TypeOK'
  BY DEF IInv, TypeOK, vars
<1>2. WorkSurvives'
  BY DEF IInv, WorkInv, WorkSurvives, Other, InFlight, State, vars
<1>3. NoStaleId'
  BY DEF IInv, WorkInv, NoStaleId, Finished, State, vars
<1> QED
  BY <1>1, <1>2, <1>3 DEF IInv, WorkInv

LEMMA NextInv == ASSUME IInv, [Next]_vars PROVE IInv'
<1>1. ASSUME NEW u \in Upload, RequestStep(u) PROVE IInv'
  BY <1>1, LookInv, RemoveInv, AddInv, MarkInv DEF RequestStep
<1>2. ASSUME NEW f \in File, ParseStep(f) PROVE IInv'
  BY <1>2, StartInv, ReadInv, ChainLookInv, ChainRemoveInv, ChainAddInv, SettleInv
     DEF ParseStep, Queue
<1>3. ASSUME NEW f \in File, CrmStep(f) PROVE IInv'
  BY <1>3, StartCrmInv, WorkEndsInv, WorkFailsInv, SettleInv DEF CrmStep, Queue
<1>4. ASSUME NEW q \in Queue, NEW f \in File, Sweep(q, f) PROVE IInv'
  BY <1>4, SweepInv
<1> QED
  BY <1>1, <1>2, <1>3, <1>4, CrashInv, StutterInv DEF Next

\* IInv is inductive, for every set of files and of uploads.
THEOREM Inductive == Spec => []IInv
  BY InitInv, NextInv, PTL DEF Spec

\* Type correctness.
THEOREM TypeCorrect == Spec => []TypeOK
  BY Inductive, PTL DEF IInv

\* The work of an accepted upload survives every interleaving of producers,
\* workers, evictions and deaths (producers.ts:159-168).
THEOREM WorkIsKept == Spec => []WorkSurvives
  BY Inductive, PTL DEF IInv, WorkInv

\* No producer adds under an id that an already ended job still holds.
THEOREM IdsAreFresh == Spec => []NoStaleId
  BY Inductive, PTL DEF IInv, WorkInv
===============================================================================
