---------------------------- MODULE ManualImport ----------------------------
(***************************************************************************)
(* The manual upload of a statement file.  A request frees the id of a     *)
(* finished parse job, adds the job, marks the file's row "queued" and     *)
(* answers 202.  The parse worker chains a crm-sync job under an id made   *)
(* of the same file hash; the row is what the employee's screen polls.     *)
(* A job id is stable: BullMQ's add is a no-op while any job holds it.     *)
(***************************************************************************)
EXTENDS Naturals, FiniteSets

CONSTANTS
  File,          \* files of one portal, by content hash
  Upload,        \* POST /api/import requests that pass the gates
  FileOf,        \* [Upload -> File]
  Concurrency,   \* QUEUE_CONCURRENCY, the parse jobs run at once
  MaxAttempts,   \* DEFAULT_JOB_OPTIONS.attempts
  MaxStalls,     \* maxStalledCount
  MaxFaults,     \* bound of the model: failed runs and failed row writes
  MaxCrashes     \* bound of the model: deaths of the process

ASSUME FileAssumption ==
  FileOf \in [Upload -> File]
ASSUME LimitAssumption ==
  /\ Concurrency \in Nat \ {0} /\ MaxAttempts \in Nat \ {0}
  /\ MaxStalls \in Nat /\ MaxFaults \in Nat /\ MaxCrashes \in Nat

VARIABLES
  request,   \* how far each upload request is
  task,      \* the job that holds the id of a file, in each of the two queues
  row,       \* import_batch.state of each file
  owed,      \* history: uploads since whose first look no parse job has ended
  chained,   \* history: files since whose last hand-off no crm-sync job has ended
  faults, crashes

vars == <<request, task, row, owed, chained, faults, crashes>>

Queue == {"parse", "crm"}
Running == {"read", "look", "remove", "add", "work", "done", "thrown"}
Ended == {"completed", "failed"}
TaskState == {"none", "waiting"} \cup Running \cup Ended
RequestState == {"new", "remove", "add", "mark", "accepted", "died", "cut"}
RowState == {"none", "queued", "ok", "error"}

TaskRecord == [state : TaskState, attempts : 0 .. MaxAttempts,
               stalls : Nat]
Free == [state |-> "none", attempts |-> 0, stalls |-> 0]
Added == [Free EXCEPT !.state = "waiting"]

\* Some files were imported before, and their ended jobs still hold the ids.
Init ==
  /\ request = [u \in Upload |-> "new"]
  /\ \E before \in SUBSET File :
       /\ task = [q \in Queue |-> [f \in File |->
                    IF f \in before THEN [Free EXCEPT !.state = "completed"] ELSE Free]]
       /\ row = [f \in File |-> IF f \in before THEN "ok" ELSE "none"]
  /\ owed = {}
  /\ chained = {}
  /\ faults = 0
  /\ crashes = 0

TypeOK ==
  /\ request \in [Upload -> RequestState]
  /\ task \in [Queue -> [File -> TaskRecord]]
  /\ row \in [File -> RowState]
  /\ owed \subseteq Upload
  /\ chained \subseteq File
  /\ faults \in Nat /\ crashes \in Nat

State(q, f) == task[q][f].state
Active(q, f) == State(q, f) \in Running
InFlight(q, f) == State(q, f) \in {"waiting"} \cup Running
Finished(q, f) == State(q, f) \in Ended
Of(f) == {u \in Upload : FileOf[u] = f}

Set(q, f, state) == task' = [task EXCEPT ![q][f].state = state]
Spend(ok) == /\ ~ok => faults < MaxFaults
             /\ faults' = IF ok THEN faults ELSE faults + 1
Tell(f, verdict, ok) ==      \* persistBatch...: its own error is only logged
  row' = IF ok THEN [row EXCEPT ![f] = verdict] ELSE row

(***************************************************************************)
(* The producer: unstick and add are three calls to Redis.  remove throws  *)
(* on a job a worker holds, and the throw is swallowed.                    *)
(***************************************************************************)
Goto(u, pc) == request' = [request EXCEPT ![u] = pc]

\* Mutant of Look: only the id of a failed job is freed.
LookFailedOnly(u) ==
  /\ request[u] = "new"
  /\ Goto(u, IF State("parse", FileOf[u]) = "failed" THEN "remove" ELSE "add")
  /\ owed' = owed \cup {u}
  /\ UNCHANGED <<task, row, chained, faults, crashes>>

Look(u) ==
  /\ request[u] = "new"
  /\ Goto(u, IF Finished("parse", FileOf[u]) THEN "remove" ELSE "add")
  /\ owed' = owed \cup {u}
  /\ UNCHANGED <<task, row, chained, faults, crashes>>

\* Mutant of Remove: the job is left where it is.
RemoveNothing(u) ==
  /\ request[u] = "remove"
  /\ Goto(u, "add")
  /\ UNCHANGED <<task, row, owed, chained, faults, crashes>>

Remove(u) ==
  /\ request[u] = "remove"
  /\ Goto(u, "add")
  /\ task' = IF Active("parse", FileOf[u]) THEN task
             ELSE [task EXCEPT !["parse"][FileOf[u]] = Free]
  /\ UNCHANGED <<row, owed, chained, faults, crashes>>

Add(u) ==
  /\ request[u] = "add"
  /\ Goto(u, "mark")
  /\ task' = IF State("parse", FileOf[u]) # "none" THEN task
             ELSE [task EXCEPT !["parse"][FileOf[u]] = Added]
  /\ UNCHANGED <<row, owed, chained, faults, crashes>>

Mark(u, ok) ==     \* markQueued, best effort, then 202
  /\ request[u] = "mark"
  /\ Spend(ok)
  /\ Goto(u, "accepted")
  /\ Tell(FileOf[u], "queued", ok)
  /\ UNCHANGED <<task, owed, chained, crashes>>

(***************************************************************************)
(* The workers.                                                            *)
(***************************************************************************)
Start(f) ==      \* the parse worker takes a job
  /\ State("parse", f) = "waiting"
  /\ Cardinality({g \in File : Active("parse", g)}) < Concurrency
  /\ Set("parse", f, "read")
  /\ UNCHANGED <<request, row, owed, chained, faults, crashes>>

isFinalAttempt(f) == task["parse"][f].attempts + 1 >= MaxAttempts

Read(f, ok) ==     \* parseFile, and the verdict of a file that goes no further
  /\ State("parse", f) = "read"
  /\ \/ /\ isFinalAttempt(f)                  \* it threw, for the last time
        /\ Spend(ok) /\ Tell(f, "error", ok)
        /\ Set("parse", f, "thrown")
     \/ /\ ~isFinalAttempt(f) /\ ok            \* it threw, and will be retried
        /\ Set("parse", f, "thrown")
        /\ UNCHANGED <<row, faults>>
     \/ /\ Spend(ok) /\ Tell(f, "error", ok)   \* no operation in the file
        /\ Set("parse", f, "done")
     \/ /\ ok                                  \* operations to hand on
        /\ Set("parse", f, "look")
        /\ UNCHANGED <<row, faults>>
  /\ UNCHANGED <<request, owed, chained, crashes>>

\* Mutant of ChainLook: an uploaded file is treated as a poll.
ChainLookFailedOnly(f) ==
  /\ State("parse", f) = "look"
  /\ Set("parse", f, IF State("crm", f) = "failed" THEN "remove" ELSE "add")
  /\ chained' = chained \cup {f}
  /\ UNCHANGED <<request, row, owed, faults, crashes>>

ChainLook(f) ==    \* enqueueCrmSync of an uploaded file
  /\ State("parse", f) = "look"
  /\ Set("parse", f, IF Finished("crm", f) THEN "remove" ELSE "add")
  /\ chained' = chained \cup {f}
  /\ UNCHANGED <<request, row, owed, faults, crashes>>

ChainRemove(f) ==
  /\ State("parse", f) = "remove"
  /\ task' = [task EXCEPT
       !["parse"][f].state = "add",
       !["crm"][f] = IF Active("crm", f) THEN @ ELSE Free]
  /\ UNCHANGED <<request, row, owed, chained, faults, crashes>>

ChainAdd(f) ==
  /\ State("parse", f) = "add"
  /\ task' = [task EXCEPT
       !["parse"][f].state = "done",
       !["crm"][f] = IF State("crm", f) # "none" THEN @ ELSE Added]
  /\ UNCHANGED <<request, row, owed, chained, faults, crashes>>

StartCrm(f) ==     \* concurrency 1
  /\ State("crm", f) = "waiting"
  /\ \A g \in File : ~Active("crm", g)
  /\ Set("crm", f, "work")
  /\ UNCHANGED <<request, row, owed, chained, faults, crashes>>

Work(f, ok) ==     \* the run ends well, and its result is stored
  /\ State("crm", f) = "work"
  /\ Spend(ok) /\ Tell(f, "ok", ok)
  /\ Set("crm", f, "done")
  /\ UNCHANGED <<request, owed, chained, crashes>>

WorkFails(f, ok) ==    \* the run throws: the failure is stored at every attempt
  /\ State("crm", f) = "work"
  /\ Spend(FALSE) /\ Tell(f, "error", ok)
  /\ Set("crm", f, "thrown")
  /\ UNCHANGED <<request, owed, chained, crashes>>

Over(q, f) ==      \* history: a job of this queue has come to its end
  /\ owed' = IF q = "parse" THEN owed \ Of(f) ELSE owed
  /\ chained' = IF q = "crm" THEN chained \ {f} ELSE chained

\* Mutant of Settle: one attempt too many.
SettleLate(q, f) ==
  /\ \/ /\ State(q, f) = "done"
        /\ Set(q, f, "completed")
        /\ Over(q, f)
     \/ /\ State(q, f) = "thrown"
        /\ task[q][f].attempts + 1 <= MaxAttempts
        /\ task' = [task EXCEPT ![q][f].state = "waiting",
                                ![q][f].attempts = @ + 1]
        /\ UNCHANGED <<owed, chained>>
     \/ /\ State(q, f) = "thrown"
        /\ task[q][f].attempts + 1 > MaxAttempts
        /\ task' = [task EXCEPT ![q][f].state = "failed",
                                ![q][f].attempts = @ + 1]
        /\ Over(q, f)
  /\ UNCHANGED <<request, row, faults, crashes>>

Settle(q, f) ==    \* BullMQ moves the job: completed, retried or failed
  /\ \/ /\ State(q, f) = "done"
        /\ Set(q, f, "completed")
        /\ Over(q, f)
     \/ /\ State(q, f) = "thrown"
        /\ task[q][f].attempts + 1 < MaxAttempts
        /\ task' = [task EXCEPT ![q][f].state = "waiting",
                                ![q][f].attempts = @ + 1]
        /\ UNCHANGED <<owed, chained>>
     \/ /\ State(q, f) = "thrown"
        /\ task[q][f].attempts + 1 >= MaxAttempts
        /\ task' = [task EXCEPT ![q][f].state = "failed",
                                ![q][f].attempts = MaxAttempts]
        /\ Over(q, f)
  /\ UNCHANGED <<request, row, faults, crashes>>

Sweep(q, f) ==     \* age eviction, lazy or by the statement sweep
  /\ Finished(q, f)
  /\ task' = [task EXCEPT ![q][f] = Free]
  /\ UNCHANGED <<request, row, owed, chained, faults, crashes>>

(***************************************************************************)
(* The HTTP process dies with its requests, the worker process with its    *)
(* jobs, or one process that is both.  A job is given out again once its   *)
(* lock expires, until its stalls are used up.                             *)
(***************************************************************************)
Stalled(t) == [t EXCEPT !.stalls = t.stalls + 1,
                        !.state = IF t.stalls < MaxStalls THEN "waiting" ELSE "failed"]
AfterDeath == [q \in Queue |-> [f \in File |->
                 IF Active(q, f) THEN Stalled(task[q][f]) ELSE task[q][f]]]
InHand(u) == request[u] \in {"remove", "add", "mark"}
Lost(q, f) == Active(q, f) /\ task[q][f].stalls >= MaxStalls

Crash(http, worker) ==
  /\ \/ http /\ \E u \in Upload : InHand(u)
     \/ worker /\ \E q \in Queue, f \in File : Active(q, f)
  /\ crashes < MaxCrashes
  /\ crashes' = crashes + 1
  /\ request' = IF ~http THEN request ELSE [u \in Upload |->
       IF request[u] = "add" THEN "cut"
       ELSE IF InHand(u) THEN "died" ELSE request[u]]
  /\ task' = IF worker THEN AfterDeath ELSE task
  /\ owed' = {u \in owed : /\ http => ~InHand(u)
                           /\ worker => ~Lost("parse", FileOf[u])}
  /\ chained' = {f \in chained :
                   worker => ~Active("parse", f) /\ ~Lost("crm", f)}
  /\ UNCHANGED <<row, faults>>

RequestStep(u) ==
  Look(u) \/ Remove(u) \/ Add(u) \/ (\E ok \in BOOLEAN : Mark(u, ok))
ParseStep(f) ==
  \/ Start(f) \/ (\E ok \in BOOLEAN : Read(f, ok))
  \/ ChainLook(f) \/ ChainRemove(f) \/ ChainAdd(f) \/ Settle("parse", f)
CrmStep(f) ==
  \/ StartCrm(f) \/ (\E ok \in BOOLEAN : Work(f, ok) \/ WorkFails(f, ok))
  \/ Settle("crm", f)

Next ==
  \/ \E u \in Upload : RequestStep(u)
  \/ \E f \in File : ParseStep(f) \/ CrmStep(f)
  \/ \E q \in Queue, f \in File : Sweep(q, f)
  \/ \E http, worker \in BOOLEAN : Crash(http, worker)

Spec == Init /\ [][Next]_vars
FairSpec ==
  /\ Spec
  /\ \A u \in Upload :
       WF_vars(Remove(u) \/ Add(u) \/ (\E ok \in BOOLEAN : Mark(u, ok)))
  /\ \A f \in File : SF_vars(ParseStep(f)) /\ SF_vars(CrmStep(f))

(***************************************************************************)
(* Properties.                                                             *)
(***************************************************************************)
Other(f) == \E v \in Upload : FileOf[v] = f /\ request[v] \in {"add", "cut"}

\* "Whichever job survives carries an equivalent payload, so the work still
\* happens" (producers.ts:164-168): an upload past its add, since whose first
\* look no parse job of its file has ended, has one in flight, or another
\* upload of the file that removed it is about to add it (or died before it
\* could); a parse job that has handed its file on has a crm-sync job in flight
\* until one ends.
WorkSurvives ==
  /\ \A u \in owed : request[u] \in {"mark", "accepted"} =>
       InFlight("parse", FileOf[u]) \/ Other(FileOf[u])
  /\ \A f \in chained :
       InFlight("crm", f) \/ State("parse", f) \in {"remove", "add"}

\* What makes it inductive: an id that a producer is about to add, or has added,
\* is not held by a job that ended before the producer looked.
NoStaleId ==
  /\ \A u \in owed : request[u] \in {"add", "mark", "accepted"} =>
       ~Finished("parse", FileOf[u])
  /\ \A f \in chained : State("parse", f) = "add" => ~Finished("crm", f)
WorkInv == WorkSurvives /\ NoStaleId

\* "Re-uploading the same file is not a duplicate submission - it is the REPAIR
\* action" (producers.ts:130-146): whatever an earlier job of the file left
\* behind, an upload past its first look gets a parse job that ends after it,
\* and a parse job that hands its file on a crm-sync job that ends after that.
EventuallyServed ==
  /\ \A u \in Upload :
       u \in owed ~> (u \notin owed \/ \E v \in Of(FileOf[u]) : request[v] = "cut")
  /\ \A f \in File : f \in chained ~> f \notin chained

(***************************************************************************)
(* What the repository's comments say, and the code does not keep.         *)
(***************************************************************************)
AtRest ==
  /\ \A u \in Upload : ~InHand(u)
  /\ \A q \in Queue, f \in File : ~InFlight(q, f)

\* No row "queued that nothing will ever complete" (importIngest.ts:112-113).
NoRowLeftQueued == AtRest => \A f \in File : row[f] # "queued"

\* "The very first throw is terminal" (worker.ts:926-928): a failure that was
\* shown is taken back by another upload only.
FailureIsFinal ==
  [][\A f \in File : row[f] = "error" /\ row'[f] # "error" =>
       \E u \in Of(f) : request[u] = "mark"]_vars
=============================================================================
