--------------------------- MODULE CrmSync_proof ---------------------------
(***************************************************************************)
(* The crm-sync stage keeps its types, treats every operation once, and    *)
(* implements ImportOnce, for every set of operations, jobs and settings;  *)
(* a job that is done has recorded its operations, what the marker closes  *)
(* has its registry element, and a trigger fires once.                     *)
(***************************************************************************)
EXTENDS CrmSync, SequenceTheorems, TLAPS

\* What the proofs show inductive.
IInv == TypeOK /\ OnceInv

RunOK == run \in RunRecord /\ InBatch
JobOK == job \in [Job -> JobRecord]
CrmOK == crm \in [Op -> CrmRecord]
DeferredOK == deferred \in [Kind -> [Op -> LateRecord]]

(***************************************************************************)
(* The helpers keep the types.                                             *)
(***************************************************************************)
\* While the worker is busy the operation in hand is an operation.
LEMMA CurInOp == ASSUME RunOK, run.pc # "idle"
                 PROVE  run.job \in Job /\ cur \in Op
  BY JobAssumption DEF RunOK, InBatch, cur

\* A jump inside the handler keeps the operation in hand.
LEMMA GotoOK == ASSUME RunOK, run.pc # "idle", NEW pc \in Step, Goto(pc)
                PROVE  RunOK'
  BY DEF RunOK, RunRecord, InBatch, Goto

\* A job that threw is still a job.
LEMMA RejectedJob ==
  ASSUME NEW q \in JobRecord, NEW n \in Nat
  PROVE  Rejected(q, n, "waiting") \in JobRecord
<1> DEFINE s == IF q.attempts + 1 < n THEN "waiting" ELSE "failed"
<1>1. s \in JobState /\ q.attempts + 1 \in Nat
  BY DEF JobState, JobRecord
<1> HIDE DEF s
<1>2. [q EXCEPT !.attempts = q.attempts + 1, !.state = s] \in JobRecord
  BY <1>1 DEF JobRecord
<1> QED BY <1>2 DEF Rejected, s

LEMMA RejectedLate ==
  ASSUME NEW q \in LateRecord, NEW n \in Nat
  PROVE  Rejected(q, n, "queued") \in LateRecord
<1> DEFINE s == IF q.attempts + 1 < n THEN "queued" ELSE "failed"
<1>1. s \in Late /\ q.attempts + 1 \in Nat
  BY DEF Late, LateRecord
<1> HIDE DEF s
<1>2. [q EXCEPT !.attempts = q.attempts + 1, !.state = s] \in LateRecord
  BY <1>1 DEF LateRecord
<1> QED BY <1>2 DEF Rejected, s

\* The end of an attempt leaves the worker idle and the job in the queue.
LEMMA ThrowOK == ASSUME RunOK, JobOK, run.pc # "idle", Throw
                 PROVE  RunOK' /\ JobOK' /\ run'.pc = "idle"
<1>1. run.job \in Job
  BY CurInOp
<1>2. RunOK' /\ run'.pc = "idle"
  BY DEF Throw, RunOK, RunRecord, InBatch, Idle, Step
<1>3. JobOK'
  BY <1>1, RejectedJob, BoundAssumption DEF Throw, JobOK
<1> QED BY <1>2, <1>3

\* The worker goes on to the next operation of the batch, or is done with it.
LEMMA NextOperationOK ==
  ASSUME RunOK, JobOK, run.pc # "idle", NextOperation
  PROVE  RunOK' /\ JobOK' /\ run'.pc \in {"idle", "gate"}
<1>1. run.job \in Job /\ run.idx \in 1 .. Len(Batch[run.job])
  BY DEF RunOK, InBatch
<1>2. CASE run.idx < Len(Batch[run.job])
  <2>1. Len(Batch[run.job]) \in Nat
    BY <1>1, JobAssumption
  <2>2. /\ run' = [run EXCEPT !.pc = "gate", !.idx = run.idx + 1,
                             !.element = FALSE, !.gone = FALSE]
        /\ job' = job
    BY <1>2 DEF NextOperation
  <2>3. run.idx + 1 \in Nat /\ run.idx + 1 \in 1 .. Len(Batch[run.job])
    BY <1>1, <1>2, <2>1
  <2>4. run' \in RunRecord
    BY <2>2, <2>3 DEF RunOK, RunRecord, Step
  <2>5. run'.job = run.job /\ run'.idx = run.idx + 1 /\ run'.pc = "gate"
    BY <2>2 DEF RunOK, RunRecord
  <2> QED BY <1>1, <2>2, <2>3, <2>4, <2>5 DEF RunOK, InBatch, JobOK
<1>3. CASE ~(run.idx < Len(Batch[run.job]))
  <2>1. run' = Idle /\ job' = [job EXCEPT ![run.job].state = "done"]
    BY <1>3 DEF NextOperation, Finish
  <2>2. RunOK' /\ run'.pc = "idle"
    BY <2>1 DEF RunOK, RunRecord, InBatch, Step, Idle
  <2>3. [job[run.job] EXCEPT !.state = "done"] \in JobRecord
    BY <1>1 DEF JobOK, JobRecord, JobState
  <2> QED BY <1>1, <2>1, <2>2, <2>3 DEF JobOK
<1> QED BY <1>2, <1>3

\* Filling and adding keep an operation's elements a sequence of columns.
LEMMA FillFirstType == ASSUME NEW es \in Seq(Column)
                       PROVE  FillFirst(es) \in Seq(Column)
<1>1. CASE es = <<>>
  BY <1>1 DEF FillFirst
<1>2. CASE es # <<>>
  <2>1. Len(es) \in Nat /\ 1 \in 1 .. Len(es)
    BY <1>2, EmptySeq, LenProperties
  <2>2. [es EXCEPT ![1] = "full"] \in Seq(Column)
    BY <2>1, ExceptSeq DEF Column
  <2> QED BY <1>2, <2>2 DEF FillFirst
<1> QED BY <1>1, <1>2

LEMMA FillElementOK == ASSUME CrmOK, NEW o \in Op, FillElement(o)
                       PROVE  CrmOK'
<1>1. crm[o].elements \in Seq(Column)
  BY DEF CrmOK, CrmRecord
<1>2. FillFirst(crm[o].elements) \in Seq(Column)
  BY <1>1, FillFirstType
<1> QED BY <1>2 DEF FillElement, CrmOK, CrmRecord

LEMMA AddElementOK ==
  ASSUME CrmOK, NEW o \in Op, NEW column \in Column, AddElement(o, column)
  PROVE  CrmOK'
<1>1. crm[o].elements \in Seq(Column)
  BY DEF CrmOK, CrmRecord
<1>2. Append(crm[o].elements, column) \in Seq(Column)
  BY <1>1, AppendProperties
<1> QED BY <1>2 DEF AddElement, CrmOK, CrmRecord

\* The queue of postponed writes.
LEMMA EnqueueOK ==
  ASSUME DeferredOK, NEW k \in Kind, NEW o \in Op, NEW e \in BOOLEAN,
         Enqueue(k, o, e)
  PROVE  DeferredOK'
  BY DEF Enqueue, Taken, DeferredOK, LateRecord, Absent, Late

LEMMA SetLateOK ==
  ASSUME DeferredOK, NEW k \in Kind, NEW o \in Op, NEW s \in Late,
         SetLate(k, o, s)
  PROVE  DeferredOK'
<1>1. [deferred[k][o] EXCEPT !.state = s] \in LateRecord
  BY DEF DeferredOK, LateRecord
<1> QED BY <1>1 DEF SetLate, DeferredOK

LEMMA AgainOK ==
  ASSUME DeferredOK, NEW k \in Kind, NEW o \in Op, NEW n \in Nat,
         Again(k, o, n)
  PROVE  DeferredOK'
<1>1. Rejected(deferred[k][o], n, "queued") \in LateRecord
  BY RejectedLate DEF DeferredOK
<1> QED BY <1>1 DEF Again, DeferredOK

LEMMA PostponeOK ==
  ASSUME TypeOK, run.pc # "idle", NEW k \in Kind, NEW e \in BOOLEAN,
         NEW pc \in Step, NEW queued \in BOOLEAN, Postpone(k, e, pc, queued)
  PROVE  RunOK' /\ DeferredOK' /\ dropped' \in [Kind -> SUBSET Op]
         /\ run'.pc = pc
<1>1. RunOK /\ DeferredOK /\ cur \in Op /\ dropped \in [Kind -> SUBSET Op]
  BY CurInOp DEF TypeOK, RunOK, DeferredOK
<1>2. RunOK' /\ run'.pc = pc
  <2>1. \/ run' = [run EXCEPT !.pc = pc, !.deferred = run.deferred + 1]
        \/ Goto(pc)
    BY DEF Postpone
  <2>2. CASE run' = [run EXCEPT !.pc = pc, !.deferred = run.deferred + 1]
    <3>1. run.deferred + 1 \in Nat
      BY <1>1 DEF RunOK, RunRecord
    <3> QED BY <1>1, <2>2, <3>1 DEF RunOK, RunRecord, InBatch
  <2>3. CASE Goto(pc)
    BY <1>1, <2>3, GotoOK DEF Goto, RunOK, RunRecord
  <2> QED BY <2>1, <2>2, <2>3
<1>3. DeferredOK' /\ dropped' \in [Kind -> SUBSET Op]
  BY <1>1, EnqueueOK DEF Postpone, DeferredOK
<1> QED BY <1>2, <1>3

(***************************************************************************)
(* Types.                                                                  *)
(***************************************************************************)
RestOK == dropped \in [Kind -> SUBSET Op] /\ proven \in BOOLEAN
          /\ faults \in Nat /\ crashes \in Nat
Parts == RunOK /\ JobOK /\ CrmOK /\ DeferredOK /\ RestOK

LEMMA TypeParts == TypeOK <=> Parts
  BY DEF TypeOK, Parts, RunOK, JobOK, CrmOK, DeferredOK, RestOK

LEMMA SpendOK == ASSUME faults \in Nat, NEW r, Spend(r) PROVE faults' \in Nat
  BY DEF Spend

\* A count grows, a mark is set: the portal's record keeps its type.
LEMMA CountOK ==
  ASSUME CrmOK, NEW o \in Op
  PROVE  /\ [crm EXCEPT ![o].paid = @ + 1] \in [Op -> CrmRecord]
         /\ [crm EXCEPT ![o].alerted = @ + 1] \in [Op -> CrmRecord]
         /\ [crm EXCEPT ![o].posted = @ + 1] \in [Op -> CrmRecord]
         /\ [crm EXCEPT ![o].orphans = @ + 1] \in [Op -> CrmRecord]
<1>1. /\ crm[o] \in CrmRecord
      /\ crm[o].paid + 1 \in Nat
      /\ crm[o].alerted + 1 \in Nat /\ crm[o].posted + 1 \in Nat
      /\ crm[o].orphans + 1 \in Nat
  BY DEF CrmOK, CrmRecord
<1>2. /\ [crm[o] EXCEPT !.paid = crm[o].paid + 1] \in CrmRecord
      /\ [crm[o] EXCEPT !.alerted = crm[o].alerted + 1] \in CrmRecord
      /\ [crm[o] EXCEPT !.posted = crm[o].posted + 1] \in CrmRecord
      /\ [crm[o] EXCEPT !.orphans = crm[o].orphans + 1] \in CrmRecord
  BY <1>1 DEF CrmRecord
<1> QED BY <1>2 DEF CrmOK

\* A trigger fires, with its answer or without it.
Fires(o) == \/ crm' = [crm EXCEPT ![o].fired = @ + 1]
            \/ crm' = [crm EXCEPT ![o].fired = @ + 1, ![o].unheard = @ + 1]

LEMMA FiredFires ==
  ASSUME NEW o \in Op, NEW r \in Reply, crm' = Fired(o, r)
  PROVE  /\ r = "ok" => crm' = [crm EXCEPT ![o].fired = @ + 1]
         /\ r = "lost" => crm' = [crm EXCEPT ![o].fired = @ + 1, ![o].unheard = @ + 1]
         /\ r = "refused" => UNCHANGED crm
         /\ r \in {"ok", "lost", "refused"}
<1>1. r \in {"ok", "lost", "refused"}
  BY DEF Reply
<1> QED BY <1>1 DEF Fired

LEMMA FiresOK == ASSUME CrmOK, NEW o \in Op, Fires(o) PROVE CrmOK'
<1>1. crm[o] \in CrmRecord /\ crm[o].fired + 1 \in Nat /\ crm[o].unheard + 1 \in Nat
  BY DEF CrmOK, CrmRecord
<1>2. /\ [crm[o] EXCEPT !.fired = crm[o].fired + 1] \in CrmRecord
      /\ [crm[o] EXCEPT !.fired = crm[o].fired + 1,
                        !.unheard = crm[o].unheard + 1] \in CrmRecord
  BY <1>1 DEF CrmRecord
<1> QED BY <1>2 DEF CrmOK, Fires

LEMMA FiredOK == ASSUME CrmOK, NEW o \in Op, NEW r \in Reply, crm' = Fired(o, r) PROVE CrmOK'
  BY FiredFires, FiresOK DEF Fires, CrmOK

LEMMA FlagOK ==
  ASSUME CrmOK, NEW o \in Op
  PROVE  /\ [crm EXCEPT ![o].row = TRUE] \in [Op -> CrmRecord]
         /\ [crm EXCEPT ![o].summed = TRUE] \in [Op -> CrmRecord]
         /\ [crm EXCEPT ![o].fact = TRUE] \in [Op -> CrmRecord]
         /\ [crm EXCEPT ![o].linked = TRUE] \in [Op -> CrmRecord]
<1>1. /\ [crm[o] EXCEPT !.row = TRUE] \in CrmRecord
      /\ [crm[o] EXCEPT !.summed = TRUE] \in CrmRecord
      /\ [crm[o] EXCEPT !.fact = TRUE] \in CrmRecord
      /\ [crm[o] EXCEPT !.linked = TRUE] \in CrmRecord
  BY DEF CrmOK, CrmRecord
<1> QED BY <1>1 DEF CrmOK

\* An activity gets its marker, or goes away with or without it.
LEMMA MarkOK ==
  ASSUME CrmOK, NEW o \in Op
  PROVE  /\ crm[o].orphans > 0 =>
              /\ [crm EXCEPT ![o].orphans = @ - 1, ![o].marked = @ + 1]
                   \in [Op -> CrmRecord]
              /\ [crm EXCEPT ![o].orphans = @ - 1] \in [Op -> CrmRecord]
         /\ crm[o].marked > 0 =>
              [crm EXCEPT ![o].marked = @ - 1, ![o].linked = FALSE]
                \in [Op -> CrmRecord]
<1>1. crm[o] \in CrmRecord
  BY DEF CrmOK
<1>2. ASSUME crm[o].orphans > 0
      PROVE  /\ [crm[o] EXCEPT !.orphans = crm[o].orphans - 1]
                  \in CrmRecord
             /\ [crm[o] EXCEPT !.orphans = crm[o].orphans - 1,
                               !.marked = crm[o].marked + 1] \in CrmRecord
  <2>1. crm[o].orphans - 1 \in Nat /\ crm[o].marked + 1 \in Nat
    BY <1>1, <1>2 DEF CrmRecord
  <2> QED BY <1>1, <2>1 DEF CrmRecord
<1>3. ASSUME crm[o].marked > 0
      PROVE  [crm[o] EXCEPT !.marked = crm[o].marked - 1, !.linked = FALSE]
               \in CrmRecord
  <2>1. crm[o].marked - 1 \in Nat
    BY <1>1, <1>3 DEF CrmRecord
  <2> QED BY <1>1, <2>1 DEF CrmRecord
<1> QED BY <1>2, <1>3 DEF CrmOK

\* The steps of the batch worker.
LEMMA ProcessType ==
  ASSUME Parts, OnceInv, NEW r \in Reply, Process(r)
  PROVE  Parts'
<1> USE DEF Parts
<1> SUFFICES ASSUME run.pc # "idle", cur \in Op, faults' \in Nat
             PROVE  Parts'
  BY CurInOp, SpendOK
     DEF Process, RestOK, EnsureFind, EnsureAdd, Gate, Backfill, BackfillAdd,
         RegistryFind, RegistryAdd, Bind, FireTrigger, PayRead, Pay,
         LedgerFind, LedgerAdd, LedgerRow, LedgerSum, AddActivity,
         MarkActivity, VerifyMarker, UndoActivity, Alert, TriggerGate,
         FactFind, FactAdd, FactRow, Announce
<1> DEFINE Moved == RunOK' /\ JobOK'
<1>1. CASE Gate(r)
  <2>1. \A pc \in Step : run' = [run EXCEPT !.pc = pc, !.gone = Gone(cur)] => RunOK'
    BY DEF RunOK, RunRecord, InBatch, Gone
  <2>2. "regFind" \in Step /\ "backfill" \in Step /\ AfterRegistry \in Step
    BY DEF AfterRegistry, AfterPay, Step, BeforeMark
  <2>3. RunOK' /\ JobOK'
    BY <1>1, <2>1, <2>2, GotoOK, ThrowOK, NextOperationOK DEF Gate, JobOK
  <2> QED BY <1>1, <2>3 DEF Gate, RestOK, CrmOK, DeferredOK
<1>2. CASE Backfill(r)
  <2>1. CrmOK'
    BY <1>2, FillElementOK DEF Backfill, CrmOK
  <2>2. Moved
    BY <1>2, GotoOK, NextOperationOK
       DEF Backfill, Step, BeforeMark, AfterMark, Marking, JobOK
  <2>3. UNCHANGED <<deferred, dropped, proven, crashes>>
    BY <1>2 DEF Backfill
  <2> QED BY <2>1, <2>2, <2>3 DEF RestOK, DeferredOK
<1>3. CASE BackfillAdd(r)
  <2>1. CrmOK'
    BY <1>3, AddElementOK DEF BackfillAdd, CrmOK, Column
  <2>2. Moved
    BY <1>3, NextOperationOK
       DEF BackfillAdd, Step, BeforeMark, AfterMark, Marking, JobOK
  <2>3. UNCHANGED <<deferred, dropped, proven, crashes>>
    BY <1>3 DEF BackfillAdd
  <2> QED BY <2>1, <2>2, <2>3 DEF RestOK, DeferredOK
<1>4. CASE \E queued \in BOOLEAN : RegistryFind(r, queued)
  <2> PICK queued \in BOOLEAN : RegistryFind(r, queued)
    BY <1>4
  <2>1. CrmOK'
    BY FillElementOK DEF RegistryFind, CrmOK
  <2>2. AfterRegistry \in Step
    BY DEF AfterRegistry, AfterPay, Step, BeforeMark
  <2>3. CASE r # "ok"
    <3>1. Postpone("registry", TRUE, AfterRegistry, queued)
      BY <2>3 DEF RegistryFind
    <3>2. RunOK' /\ DeferredOK' /\ dropped' \in [Kind -> SUBSET Op]
      BY <3>1, <2>2, PostponeOK, TypeParts DEF Kind
    <3> QED BY <2>1, <3>2 DEF RegistryFind, RestOK, JobOK
  <2>4. CASE r = "ok"
    <3>1. \/ Goto("regAdd")
          \/ run' = [run EXCEPT !.pc = AfterRegistry, !.element = TRUE]
      BY <2>4 DEF RegistryFind
    <3>2. RunOK'
      <4>1. CASE Goto("regAdd")
        BY <4>1, GotoOK DEF Step, BeforeMark
      <4>2. CASE run' = [run EXCEPT !.pc = AfterRegistry, !.element = TRUE]
        BY <2>2, <4>2 DEF RunOK, RunRecord, InBatch
      <4> QED BY <3>1, <4>1, <4>2
    <3> QED BY <2>1, <2>4, <3>2 DEF RegistryFind, RestOK, JobOK, DeferredOK
  <2> QED BY <2>3, <2>4
<1>5. CASE \E queued \in BOOLEAN : RegistryAdd(r, queued)
  <2> PICK queued \in BOOLEAN : RegistryAdd(r, queued)
    BY <1>5
  <2>1. CrmOK'
    BY AddElementOK DEF RegistryAdd, CrmOK, Column
  <2>2. AfterRegistry \in Step
    BY DEF AfterRegistry, AfterPay, Step, BeforeMark
  <2>3. CASE r # "ok"
    <3>1. Postpone("registry", TRUE, AfterRegistry, queued)
      BY <2>3 DEF RegistryAdd
    <3>2. RunOK' /\ DeferredOK' /\ dropped' \in [Kind -> SUBSET Op]
      BY <3>1, <2>2, PostponeOK, TypeParts DEF Kind
    <3> QED BY <2>1, <3>2 DEF RegistryAdd, RestOK, JobOK
  <2>4. CASE r = "ok"
    <3>1. run' = [run EXCEPT !.pc = AfterRegistry, !.element = TRUE]
      BY <2>4 DEF RegistryAdd
    <3>2. RunOK'
      BY <2>2, <3>1 DEF RunOK, RunRecord, InBatch
    <3> QED BY <2>1, <2>4, <3>2 DEF RegistryAdd, RestOK, JobOK, DeferredOK
  <2> QED BY <2>3, <2>4
<1>6. CASE PayRead(r)
  BY <1>6, GotoOK, ThrowOK, FlagOK
     DEF PayRead, RestOK, Step, BeforeMark, AfterMark, Marking,
         AfterPay, AfterRegistry, CrmOK, JobOK, DeferredOK
<1>7. CASE Pay(r)
  <2>1. CrmOK'
    BY <1>7, CountOK DEF Pay, CrmOK
  <2>2. Moved
    BY <1>7, GotoOK, ThrowOK
       DEF Pay, Step, BeforeMark, AfterMark, Marking, JobOK, AfterPay
  <2>3. UNCHANGED <<deferred, dropped, proven, crashes>>
    BY <1>7 DEF Pay
  <2> QED BY <2>1, <2>2, <2>3 DEF RestOK, DeferredOK
<1>8. CASE LedgerFind(r)
  BY <1>8, GotoOK, ThrowOK, FlagOK
     DEF LedgerFind, EnsureFind, RestOK, Step, BeforeMark, AfterMark, Marking,
         AfterPay, AfterRegistry, CrmOK, JobOK, DeferredOK
<1>9. CASE LedgerAdd(r)
  <2>1. CrmOK'
    BY <1>9, AddElementOK DEF LedgerAdd, EnsureAdd, CrmOK, Column
  <2>2. Moved
    BY <1>9, GotoOK, ThrowOK
       DEF LedgerAdd, EnsureAdd, Step, BeforeMark, AfterMark, Marking, JobOK
  <2>3. UNCHANGED <<deferred, dropped, proven, crashes>>
    BY <1>9 DEF LedgerAdd, EnsureAdd
  <2> QED BY <2>1, <2>2, <2>3 DEF RestOK, DeferredOK
<1>10. CASE LedgerRow(r)
  <2>1. CrmOK'
    BY <1>10, FlagOK DEF LedgerRow, CrmOK
  <2>2. Moved
    BY <1>10, GotoOK, ThrowOK
       DEF LedgerRow, Step, BeforeMark, AfterMark, Marking, JobOK
  <2>3. UNCHANGED <<deferred, dropped, proven, crashes>>
    BY <1>10 DEF LedgerRow
  <2> QED BY <2>1, <2>2, <2>3 DEF RestOK, DeferredOK
<1>11. CASE LedgerSum(r)
  <2>1. CrmOK'
    BY <1>11, FlagOK DEF LedgerSum, CrmOK
  <2>2. Moved
    BY <1>11, GotoOK, ThrowOK
       DEF LedgerSum, Step, BeforeMark, AfterMark, Marking, JobOK
  <2>3. UNCHANGED <<deferred, dropped, proven, crashes>>
    BY <1>11 DEF LedgerSum
  <2> QED BY <2>1, <2>2, <2>3 DEF RestOK, DeferredOK
<1>12. CASE AddActivity(r)
  <2>1. CrmOK'
    BY <1>12, CountOK DEF AddActivity, CrmOK
  <2>2. Moved
    BY <1>12, GotoOK, ThrowOK, NextOperationOK
       DEF AddActivity, Step, BeforeMark, AfterMark, Marking, JobOK
  <2>3. UNCHANGED <<deferred, dropped, proven, crashes>>
    BY <1>12 DEF AddActivity
  <2> QED BY <2>1, <2>2, <2>3 DEF RestOK, DeferredOK
<1>13. CASE MarkActivity(r)
  <2>1. crm[cur].orphans > 0
    BY <1>13 DEF MarkActivity, OnceInv, StepOnce
  <2>2. CrmOK'
    BY <1>13, <2>1, MarkOK DEF MarkActivity, CrmOK
  <2>3. \E pc \in {"bind", "verify", "undoOrphan", "undoMarked"} : Goto(pc)
    BY <1>13 DEF MarkActivity, Reply
  <2>4. RunOK'
    BY <2>3, GotoOK DEF Step, AfterMark, Marking
  <2> QED BY <1>13, <2>2, <2>4
     DEF MarkActivity, RestOK, JobOK, DeferredOK
<1>14. CASE VerifyMarker(r)
  BY <1>14, GotoOK, ThrowOK, FlagOK
     DEF VerifyMarker, RestOK, Step, BeforeMark, AfterMark, Marking,
         AfterPay, AfterRegistry, CrmOK, JobOK, DeferredOK
<1>15. CASE UndoActivity(r)
  <2>1. CASE run.pc = "undoOrphan"
    <3>1. crm[cur].orphans > 0
      BY <2>1 DEF OnceInv, StepOnce
    <3> QED BY <1>15, <2>1, <3>1, MarkOK, ThrowOK
       DEF UndoActivity, CrmOK, RestOK, DeferredOK
  <2>2. CASE run.pc = "undoMarked"
    <3>1. crm[cur].marked > 0
      BY <2>2 DEF OnceInv, StepOnce, Marking
    <3> QED BY <1>15, <2>2, <3>1, MarkOK, ThrowOK
       DEF UndoActivity, CrmOK, RestOK, DeferredOK
  <2> QED BY <1>15, <2>1, <2>2 DEF UndoActivity
<1>16. CASE \E queued \in BOOLEAN : Bind(r, queued)
  <2> PICK queued \in BOOLEAN : Bind(r, queued)
    BY <1>16
  <2>1. CrmOK'
    BY FlagOK DEF Bind, CrmOK
  <2>2. "alert" \in Step /\ run.element \in BOOLEAN
    BY DEF Step, AfterMark, RunOK, RunRecord
  <2>3. CASE r # "ok"
    <3>1. Postpone("binding", run.element, "alert", queued)
      BY <2>3 DEF Bind
    <3>2. RunOK' /\ DeferredOK' /\ dropped' \in [Kind -> SUBSET Op]
      BY <3>1, <2>2, PostponeOK, TypeParts DEF Kind
    <3> QED BY <2>1, <3>2 DEF Bind, RestOK, JobOK
  <2>4. CASE r = "ok"
    BY <2>1, <2>2, <2>4, GotoOK DEF Bind, RestOK, JobOK, DeferredOK
  <2> QED BY <2>3, <2>4
<1>17. CASE Alert(r)
  <2>1. CrmOK'
    BY <1>17, CountOK DEF Alert, CrmOK
  <2>2. Moved
    BY <1>17, GotoOK
       DEF Alert, Step, BeforeMark, AfterMark, Marking, JobOK, AfterAlert
  <2>3. UNCHANGED <<deferred, dropped, proven, crashes>>
    BY <1>17 DEF Alert
  <2> QED BY <2>1, <2>2, <2>3 DEF RestOK, DeferredOK
<1>18. CASE TriggerGate(r)
  BY <1>18, GotoOK, ThrowOK, FlagOK
     DEF TriggerGate, RestOK, Step, BeforeMark, AfterMark, Marking,
         AfterPay, AfterRegistry, CrmOK, JobOK, DeferredOK
<1>19. CASE \E queued \in BOOLEAN : FireTrigger(r, queued)
  <2> PICK queued \in BOOLEAN : FireTrigger(r, queued)
    BY <1>19
  <2>1. CrmOK'
    BY FiredOK DEF FireTrigger
  <2>2. RunOK'
    BY GotoOK DEF FireTrigger, Step, AfterMark
  <2>3. DeferredOK'
    BY EnqueueOK DEF FireTrigger, Kind, DeferredOK
  <2>4. dropped' \in [Kind -> SUBSET Op]
    <3>1. \/ dropped' = dropped
          \/ dropped' = [dropped EXCEPT !["trigger"] = @ \cup {cur}]
      BY DEF FireTrigger
    <3> QED BY <3>1 DEF RestOK, Kind
  <2> QED BY <2>1, <2>2, <2>3, <2>4 DEF FireTrigger, RestOK, JobOK
<1>20. CASE FactFind(r)
  BY <1>20, GotoOK, ThrowOK, FlagOK
     DEF FactFind, EnsureFind, RestOK, Step, BeforeMark, AfterMark, Marking,
         AfterPay, AfterRegistry, CrmOK, JobOK, DeferredOK
<1>21. CASE FactAdd(r)
  <2>1. CrmOK'
    BY <1>21, AddElementOK DEF FactAdd, EnsureAdd, CrmOK, Column
  <2>2. Moved
    BY <1>21, GotoOK, ThrowOK
       DEF FactAdd, EnsureAdd, Step, BeforeMark, AfterMark, Marking, JobOK
  <2>3. UNCHANGED <<deferred, dropped, proven, crashes>>
    BY <1>21 DEF FactAdd, EnsureAdd
  <2> QED BY <2>1, <2>2, <2>3 DEF RestOK, DeferredOK
<1>22. CASE FactRow(r)
  <2>1. CrmOK'
    BY <1>22, FlagOK DEF FactRow, CrmOK
  <2>2. Moved
    BY <1>22, GotoOK, ThrowOK
       DEF FactRow, Step, BeforeMark, AfterMark, Marking, JobOK
  <2>3. UNCHANGED <<deferred, dropped, proven, crashes>>
    BY <1>22 DEF FactRow
  <2> QED BY <2>1, <2>2, <2>3 DEF RestOK, DeferredOK
<1>23. CASE Announce(r)
  <2>1. CrmOK'
    BY <1>23, CountOK DEF Announce, CrmOK
  <2>2. Moved
    BY <1>23, NextOperationOK
       DEF Announce, Step, BeforeMark, AfterMark, Marking, JobOK
  <2>3. UNCHANGED <<deferred, dropped, proven, crashes>>
    BY <1>23 DEF Announce
  <2> QED BY <2>1, <2>2, <2>3 DEF RestOK, DeferredOK
<1> QED BY <1>1, <1>2, <1>3, <1>4, <1>5, <1>6, <1>7, <1>8, <1>9, <1>10, <1>11, <1>12, <1>13, <1>14, <1>15, <1>16, <1>17, <1>18, <1>19, <1>20, <1>21, <1>22, <1>23 DEF Process

\* The steps of the workers of the postponed writes.
LEMMA CatchupType ==
  ASSUME Parts, NEW o \in Op, NEW r \in Reply, Catchup(o, r)
  PROVE  Parts'
<1> USE DEF Parts
<1> SUFFICES ASSUME faults' \in Nat PROVE Parts'
  BY SpendOK DEF Catchup, RestOK, LateFind, LateAdd, LateLocate, LateLink,
                 LateBind, LateFire
<1>1. CASE LateFind(o, r)
  <2>1. CrmOK'
    BY <1>1, FillElementOK DEF LateFind, CrmOK
  <2>2. DeferredOK'
    BY <1>1, SetLateOK, AgainOK, BoundAssumption DEF LateFind, Kind, Late
  <2> QED BY <1>1, <2>1, <2>2 DEF LateFind, RunOK, InBatch, cur, JobOK, RestOK
<1>2. CASE LateAdd(o, r)
  <2>1. CrmOK'
    BY <1>2, AddElementOK DEF LateAdd, CrmOK, Column
  <2>2. DeferredOK'
    BY <1>2, SetLateOK, AgainOK, BoundAssumption DEF LateAdd, Kind, Late
  <2> QED BY <1>2, <2>1, <2>2 DEF LateAdd, RunOK, InBatch, JobOK, RestOK
<1>3. CASE LateLocate(o, r)
  <2>1. DeferredOK'
    BY <1>3, SetLateOK, AgainOK, BoundAssumption DEF LateLocate, Kind, Late
  <2> QED BY <1>3, <2>1 DEF LateLocate, RunOK, InBatch, JobOK, CrmOK, RestOK
<1>4. CASE LateLink(o, r)
  <2>1. CrmOK'
    BY <1>4, FlagOK DEF LateLink, CrmOK
  <2>2. DeferredOK'
    BY <1>4, SetLateOK, AgainOK, BoundAssumption DEF LateLink, Kind, Late
  <2> QED BY <1>4, <2>1, <2>2 DEF LateLink, RunOK, InBatch, JobOK, RestOK
<1>5. CASE LateBind(o, r)
  <2>1. CrmOK'
    BY <1>5, FlagOK DEF LateBind, CrmOK
  <2>2. DeferredOK'
    BY <1>5, SetLateOK, AgainOK, BoundAssumption DEF LateBind, Kind, Late
  <2> QED BY <1>5, <2>1, <2>2 DEF LateBind, RunOK, InBatch, JobOK, RestOK
<1>6. CASE LateFire(o, r)
  <2>1. CrmOK'
    BY <1>6, FiredOK DEF LateFire
  <2>2. DeferredOK'
    BY <1>6, SetLateOK, AgainOK, BoundAssumption DEF LateFire, Kind, Late
  <2> QED BY <1>6, <2>1, <2>2 DEF LateFire, RunOK, InBatch, JobOK, RestOK
<1> QED BY <1>1, <1>2, <1>3, <1>4, <1>5, <1>6 DEF Catchup

\* The queue's own steps: a job is claimed, comes again, or loses its worker.
LEMMA QueueType ==
  ASSUME Parts,
         \/ \E j \in Job : Claim(j) \/ Redeliver(j)
         \/ Crash
         \/ \E o \in Op : StartRegistryWrite(o)
  PROVE  Parts'
<1> USE DEF Parts
<1>1. ASSUME NEW j \in Job, Claim(j) PROVE Parts'
  <2>1. run' \in RunRecord /\ run'.job = j /\ run'.idx = 1
    BY <1>1 DEF Claim, Idle, RunRecord, Step
  <2>2. 1 \in 1 .. Len(Batch[j])
    BY JobAssumption, EmptySeq, LenProperties
  <2>3. [job[j] EXCEPT !.state = "active"] \in JobRecord
    BY DEF JobOK, JobRecord, JobState
  <2>4. JobOK'
    BY <1>1, <2>3 DEF Claim, JobOK
  <2> QED BY <1>1, <2>1, <2>2, <2>4
     DEF Claim, RunOK, InBatch, CrmOK, DeferredOK, RestOK
<1>2. ASSUME NEW j \in Job, Redeliver(j) PROVE Parts'
  <2>1. job[j].again + 1 \in Nat
    BY DEF JobOK, JobRecord
  <2>2. [Fresh EXCEPT !.again = job[j].again + 1] \in JobRecord
    BY <2>1 DEF Fresh, JobRecord, JobState
  <2>3. JobOK'
    BY <1>2, <2>2 DEF Redeliver, JobOK
  <2> QED BY <1>2, <2>3
     DEF Redeliver, RunOK, InBatch, CrmOK, DeferredOK, RestOK
<1>3. CASE Crash
  <2>1. RunOK'
    BY <1>3 DEF Crash, RunOK, RunRecord, InBatch, Idle, Step
  <2>2. ASSUME NEW j \in Job PROVE Stalled(job[j], "waiting") \in JobRecord
    <3> DEFINE s == IF job[j].stalls < MaxStalls THEN "waiting" ELSE "failed"
    <3>1. s \in JobState /\ job[j].stalls + 1 \in Nat /\ job[j] \in JobRecord
      BY DEF JobOK, JobRecord, JobState
    <3> HIDE DEF s
    <3>2. [job[j] EXCEPT !.stalls = job[j].stalls + 1, !.state = s]
            \in JobRecord
      BY <3>1 DEF JobRecord
    <3> QED BY <3>2 DEF Stalled, s
  <2>3. JobOK'
    BY <1>3, <2>2 DEF Crash, JobOK
  <2>4. ASSUME NEW o \in Op
        PROVE  Stalled(deferred["registry"][o], "queued") \in LateRecord
    <3> DEFINE q == deferred["registry"][o]
               s == IF q.stalls < MaxStalls THEN "queued" ELSE "failed"
    <3>1. q \in LateRecord
      BY DEF DeferredOK, Kind
    <3>2. s \in Late /\ q.stalls + 1 \in Nat
      BY <3>1 DEF LateRecord, Late
    <3> HIDE DEF s, q
    <3>3. [q EXCEPT !.stalls = q.stalls + 1, !.state = s] \in LateRecord
      BY <3>1, <3>2 DEF LateRecord
    <3> QED BY <3>3 DEF Stalled, s, q
  <2>5. [o \in Op |-> IF InHand(o) THEN Stalled(deferred["registry"][o], "queued")
                                   ELSE deferred["registry"][o]]
          \in [Op -> LateRecord]
    BY <2>4 DEF DeferredOK, Kind
  <2>6. DeferredOK'
    BY <1>3, <2>5 DEF Crash, DeferredOK, Kind
  <2>7. RestOK' /\ CrmOK'
    <3>1. /\ UNCHANGED <<crm, dropped, faults>>
          /\ proven' = FALSE /\ crashes' = crashes + 1
      BY <1>3 DEF Crash
    <3>2. proven' \in BOOLEAN
      BY <3>1
    <3>3. crashes' \in Nat
      BY <3>1 DEF RestOK
    <3> QED BY <3>1, <3>2, <3>3 DEF CrmOK, RestOK
  <2> QED BY <2>1, <2>3, <2>6, <2>7
<1>4. ASSUME NEW o \in Op, StartRegistryWrite(o) PROVE Parts'
  <2>1. DeferredOK'
    BY <1>4, SetLateOK DEF StartRegistryWrite, Kind, Late
  <2> QED BY <1>4, <2>1
     DEF StartRegistryWrite, RunOK, InBatch, JobOK, CrmOK, RestOK
<1> QED BY <1>1, <1>2, <1>3, <1>4

(***************************************************************************)
(* Once.  Most steps leave alone what OnceInv counts.                      *)
(***************************************************************************)
Kept(o) ==
  /\ crm'[o].marked = crm[o].marked /\ crm'[o].orphans = crm[o].orphans
  /\ crm'[o].paid = crm[o].paid
  /\ crm'[o].row = crm[o].row /\ crm'[o].summed = crm[o].summed
  /\ crm'[o].alerted = crm[o].alerted /\ crm'[o].posted = crm[o].posted
AllKept == \A o \in Op : Kept(o)
Stored == \A o \in Op : StoredOnce(o, crm[o])

LEMMA AddElementKept ==
  ASSUME CrmOK, NEW o \in Op, NEW column \in Column, AddElement(o, column)
  PROVE  AllKept
  BY DEF AddElement, AllKept, Kept, CrmOK, CrmRecord

LEMMA FillElementKept == ASSUME CrmOK, NEW o \in Op, FillElement(o)
                         PROVE  AllKept
  BY DEF FillElement, AllKept, Kept, CrmOK, CrmRecord

LEMMA SameKept == ASSUME UNCHANGED crm PROVE AllKept
  BY DEF AllKept, Kept

\* Counts that are set beside those of OnceInv.
LEMMA BesideKept ==
  ASSUME CrmOK, NEW o \in Op,
         \/ crm' = [crm EXCEPT ![o].fact = TRUE]
         \/ crm' = [crm EXCEPT ![o].linked = TRUE]
  PROVE  AllKept
<1>1. CASE crm' = [crm EXCEPT ![o].fact = TRUE]
  BY <1>1 DEF AllKept, Kept, CrmOK, CrmRecord
<1>2. CASE crm' = [crm EXCEPT ![o].linked = TRUE]
  BY <1>2 DEF AllKept, Kept, CrmOK, CrmRecord
<1> QED BY <1>1, <1>2

LEMMA FiredKept ==
  ASSUME CrmOK, NEW o \in Op, NEW r \in Reply, crm' = Fired(o, r) PROVE AllKept
<1>1. crm[o] \in CrmRecord
  BY DEF CrmOK
<1>2. ASSUME Fires(o) PROVE AllKept
  <2>1. \/ crm'[o] = [crm[o] EXCEPT !.fired = crm[o].fired + 1]
        \/ crm'[o] = [crm[o] EXCEPT !.fired = crm[o].fired + 1, !.unheard = crm[o].unheard + 1]
    BY <1>2 DEF Fires, CrmOK
  <2>2. \A p \in Op \ {o} : crm'[p] = crm[p]
    BY <1>2 DEF Fires, CrmOK
  <2>3. ASSUME crm'[o] = [crm[o] EXCEPT !.fired = crm[o].fired + 1]
        PROVE  Kept(o)
    BY <1>1, <2>3 DEF Kept, CrmRecord
  <2>4. ASSUME crm'[o] = [crm[o] EXCEPT !.fired = crm[o].fired + 1,
                                      !.unheard = crm[o].unheard + 1]
        PROVE  Kept(o)
    BY <1>1, <2>4 DEF Kept, CrmRecord
  <2> QED BY <2>1, <2>2, <2>3, <2>4 DEF AllKept, Kept
<1> QED BY <1>2, FiredFires, SameKept DEF Fires

LEMMA UnchangedStored == ASSUME Stored, UNCHANGED crm PROVE Stored'
  BY DEF Stored

LEMMA KeptStored == ASSUME Stored, AllKept PROVE Stored'
  BY DEF Stored, StoredOnce, Ready, AllKept, Kept

\* One operation's record changes, to one that fits.
LEMMA LocalStored ==
  ASSUME CrmOK, Stored, NEW o \in Op, NEW c, StoredOnce(o, c),
         crm' = [crm EXCEPT ![o] = c]
  PROVE  Stored'
  BY DEF Stored, CrmOK

LEMMA KeptStep == ASSUME AllKept, NEW o \in Op, NEW pc, StepOnce(o, pc)
                  PROVE  StepOnce(o, pc)'
  BY DEF StepOnce, Ready, AllKept, Kept

\* A step elsewhere: the batch worker stands still.
LEMMA ElsewhereOnce == ASSUME RunOK, OnceInv, AllKept, UNCHANGED run
                       PROVE  OnceInv'
<1>1. Stored'
  BY KeptStored DEF OnceInv, Stored
<1>2. ASSUME run.pc # "idle" PROVE StepOnce(cur, run.pc)'
  BY <1>2, CurInOp DEF OnceInv, StepOnce, Ready, AllKept, Kept, cur
<1> QED BY <1>1, <1>2 DEF OnceInv, Stored

\* The worker rests, or stands at the gate of an operation.
LEMMA RestingOnce == ASSUME Stored', run'.pc \in {"idle", "gate"}
                     PROVE  OnceInv'
  BY DEF OnceInv, Stored, StepOnce, BeforeMark, AfterMark, Marking, LedgerSteps

\* The worker moves on within the operation in hand.
Moves(pc) == run'.job = run.job /\ run'.idx = run.idx /\ run'.pc = pc

LEMMA MovedOnce ==
  ASSUME run.pc # "idle", Stored', NEW pc \in Step, Moves(pc), StepOnce(cur, pc)'
  PROVE  OnceInv'
  BY DEF OnceInv, Stored, Moves

LEMMA MovesCur == ASSUME NEW pc, Moves(pc) PROVE cur' = cur
  BY DEF Moves, cur

LEMMA GotoMoves == ASSUME RunOK, NEW pc, Goto(pc) PROVE Moves(pc)
  BY DEF RunOK, RunRecord, Goto, Moves

LEMMA PostponeMoves ==
  ASSUME RunOK, NEW k, NEW e, NEW pc, NEW queued, Postpone(k, e, pc, queued)
  PROVE  Moves(pc)
<1>1. \/ run' = [run EXCEPT !.pc = pc, !.deferred = run.deferred + 1]
      \/ Goto(pc)
  BY DEF Postpone
<1> QED BY <1>1, GotoMoves DEF Moves, RunOK, RunRecord

\* The worker goes on, to a step that may rely on what the portal holds now,
\* and is not in the middle of marking.
Calm == Step \ Marking
Onward == \/ run'.pc \in {"idle", "gate"}
          \/ \E pc \in Calm : Moves(pc) /\ StepOnce(cur, pc)

\* The reads of the handler and its writes beside the counts.
LEMMA BesideOnce ==
  ASSUME RunOK, OnceInv, run.pc # "idle", AllKept,
         \/ run'.pc \in {"idle", "gate"}
         \/ \E pc \in Step : Moves(pc) /\ StepOnce(cur, pc)
  PROVE  OnceInv'
<1>1. Stored'
  BY KeptStored DEF OnceInv, Stored
<1>2. ASSUME NEW pc \in Step, Moves(pc), StepOnce(cur, pc) PROVE OnceInv'
  <2>1. StepOnce(cur, pc)'
    BY <1>2, CurInOp, MovesCur DEF StepOnce, Ready, AllKept, Kept
  <2> QED BY <1>1, <1>2, <2>1, MovedOnce
<1> QED BY <1>1, <1>2, RestingOnce

\* Where the handler goes after the payment, and after the registry.
LEMMA AfterPayOnce ==
  ASSUME crm[cur].marked = 0,
         cur \in Payable /\ AutoDistribute => crm[cur].paid = 1
  PROVE  AfterPay \in Calm /\ StepOnce(cur, AfterPay)
  BY DEF Calm, AfterPay, StepOnce, Ready, Booked, Step, BeforeMark, AfterMark,
         Marking, LedgerSteps

LEMMA AfterRegistryOnce ==
  ASSUME crm[cur].marked = 0, StoredOnce(cur, crm[cur])
  PROVE  AfterRegistry \in Calm /\ StepOnce(cur, AfterRegistry)
<1>1. CASE Gone(cur)
  <2>1. crm[cur].paid = 1 /\ cur \notin Booked
    BY <1>1 DEF Gone, StoredOnce, Booked
  <2> QED BY <1>1, <2>1 DEF Calm, AfterRegistry, StepOnce, Ready, Step, BeforeMark,
                           AfterMark, Marking, LedgerSteps
<1>2. CASE ~Gone(cur) /\ cur \in Payable /\ AutoDistribute
  BY <1>2 DEF Calm, AfterRegistry, StepOnce, Step, BeforeMark, AfterMark, Marking,
              LedgerSteps
<1>3. CASE ~Gone(cur) /\ ~(cur \in Payable /\ AutoDistribute)
  BY <1>3, AfterPayOnce DEF AfterRegistry
<1> QED BY <1>1, <1>2, <1>3

\* The steps that only read.
LEMMA ReadCalm ==
  ASSUME Parts, OnceInv, run.pc # "idle", cur \in Op, Parts', NEW r \in Reply,
         Gate(r) \/ PayRead(r) \/ LedgerFind(r) \/ TriggerGate(r) \/ FactFind(r)
  PROVE  AllKept /\ Onward
<1> USE DEF Parts
<1>0. AllKept
  BY SameKept DEF Gate, PayRead, LedgerFind, TriggerGate, FactFind, EnsureFind
<1>1. StepOnce(cur, run.pc) /\ StoredOnce(cur, crm[cur])
  BY DEF OnceInv
<1> SUFFICES ASSUME run'.pc \notin {"idle", "gate"}
             PROVE  \E pc \in Calm : Moves(pc) /\ StepOnce(cur, pc)
  BY <1>0 DEF Onward
<1> USE DEF Calm, Step, BeforeMark, AfterMark, Marking, LedgerSteps
<1>2. CASE Gate(r)
  <2>1. /\ crm[cur].marked = 0
        /\ \E pc \in {"regFind", AfterRegistry} :
             run' = [run EXCEPT !.pc = pc, !.gone = Gone(cur)]
     \/ Goto("backfill")
    BY <1>2, ThrowOK, NextOperationOK DEF Gate
  <2>2. \A pc : run' = [run EXCEPT !.pc = pc, !.gone = Gone(cur)] => Moves(pc)
    BY DEF RunOK, RunRecord, Moves
  <2>3. CASE Goto("backfill")
    <3>1. StepOnce(cur, "backfill")
      BY DEF StepOnce
    <3> QED BY <2>3, <3>1, GotoMoves
  <2>4. ASSUME crm[cur].marked = 0, NEW pc \in {"regFind", AfterRegistry}, Moves(pc)
        PROVE  \E p \in Calm : Moves(p) /\ StepOnce(cur, p)
    <3>1. StepOnce(cur, "regFind")
      BY <2>4 DEF StepOnce
    <3> QED BY <1>1, <2>4, <3>1, AfterRegistryOnce
  <2> QED BY <2>1, <2>2, <2>3, <2>4
<1>3. CASE PayRead(r)
  <2>1. Goto(IF crm[cur].paid > 0 THEN AfterPay ELSE "pay")
    BY <1>3, ThrowOK DEF PayRead
  <2>2. /\ crm[cur].marked = 0 /\ cur \in Payable /\ AutoDistribute
        /\ crm[cur].paid \in {0, 1}
    BY <1>1, <1>3 DEF PayRead, StepOnce, StoredOnce
  <2> QED BY <2>1, <2>2, AfterPayOnce, GotoMoves DEF StepOnce
<1>4. CASE LedgerFind(r)
  <2>1. \E pc \in {"ledAdd", "ledRow"} : Goto(pc)
    BY <1>4, ThrowOK DEF LedgerFind, EnsureFind
  <2> QED BY <1>1, <1>4, <2>1, GotoMoves DEF LedgerFind, EnsureFind, StepOnce
<1>5. CASE TriggerGate(r)
  <2>1. \E pc \in {"chat", "trigFire"} : Goto(pc)
    BY <1>5, ThrowOK DEF TriggerGate
  <2> QED BY <1>1, <1>5, <2>1, GotoMoves DEF TriggerGate, StepOnce
<1>6. CASE FactFind(r)
  <2>1. \E pc \in {"factAdd", "factRow"} : Goto(pc)
    BY <1>6, ThrowOK DEF FactFind, EnsureFind
  <2> QED BY <1>1, <1>6, <2>1, GotoMoves DEF FactFind, EnsureFind, StepOnce
<1> QED BY <1>2, <1>3, <1>4, <1>5, <1>6

\* Reading the marker back changes nothing in the portal.
LEMMA VerifyOnce ==
  ASSUME Parts, OnceInv, run.pc # "idle", cur \in Op, NEW r \in Reply,
         VerifyMarker(r)
  PROVE  OnceInv'
<1>1. StepOnce(cur, run.pc) /\ run.pc = "verify" /\ AllKept
  BY SameKept DEF OnceInv, VerifyMarker
<1>2. \E pc \in {"bind", "undoMarked"} : Goto(pc)
  BY DEF VerifyMarker
<1>3. \E pc \in Step : Moves(pc) /\ StepOnce(cur, pc)
  BY <1>1, <1>2, GotoMoves
     DEF Parts, StepOnce, Step, BeforeMark, AfterMark, Marking, LedgerSteps
<1> QED BY <1>1, <1>3, BesideOnce DEF Parts

\* The writes beside the counts: elements, bindings, the trigger and its fact.
LEMMA WriteCalm ==
  ASSUME Parts, OnceInv, run.pc # "idle", cur \in Op, Parts', NEW r \in Reply,
         \/ Backfill(r) \/ BackfillAdd(r) \/ LedgerAdd(r) \/ FactAdd(r)
         \/ FactRow(r)
         \/ \E queued \in BOOLEAN :
              \/ RegistryFind(r, queued) \/ RegistryAdd(r, queued)
              \/ Bind(r, queued) \/ FireTrigger(r, queued)
  PROVE  AllKept /\ Onward
<1> USE DEF Parts
<1>1. StepOnce(cur, run.pc) /\ StoredOnce(cur, crm[cur])
  BY DEF OnceInv
<1> USE DEF Onward, Calm, Step, BeforeMark, AfterMark, Marking, LedgerSteps
<1>2. CASE Backfill(r)
  <2>1. AllKept
    BY <1>2, SameKept, FillElementKept DEF Backfill
  <2>2. Onward
    <3>1. CASE Goto("backfillAdd")
      BY <3>1, GotoMoves DEF StepOnce
    <3> QED BY <1>2, <3>1, NextOperationOK DEF Backfill
  <2> QED BY <2>1, <2>2
<1>3. CASE BackfillAdd(r)
  <2>1. AllKept
    BY <1>3, SameKept, AddElementKept DEF BackfillAdd, Column
  <2> QED BY <1>3, <2>1, NextOperationOK DEF BackfillAdd
<1>4. CASE LedgerAdd(r)
  <2>1. AllKept
    BY <1>4, SameKept, AddElementKept DEF LedgerAdd, EnsureAdd, Column
  <2>2. CASE Goto("ledRow")
    BY <1>1, <1>4, <2>1, <2>2, GotoMoves DEF LedgerAdd, EnsureAdd, StepOnce
  <2> QED BY <1>4, <2>1, <2>2, ThrowOK DEF LedgerAdd, EnsureAdd
<1>5. CASE FactAdd(r)
  <2>1. AllKept
    BY <1>5, SameKept, AddElementKept DEF FactAdd, EnsureAdd, Column
  <2>2. CASE Goto("factRow")
    BY <1>1, <1>5, <2>1, <2>2, GotoMoves DEF FactAdd, EnsureAdd, StepOnce
  <2> QED BY <1>5, <2>1, <2>2, ThrowOK DEF FactAdd, EnsureAdd
<1>6. CASE FactRow(r)
  <2>1. AllKept
    BY <1>6, SameKept, BesideKept DEF FactRow
  <2>2. CASE Goto("chat")
    BY <1>1, <1>6, <2>1, <2>2, GotoMoves DEF FactRow, StepOnce
  <2> QED BY <1>6, <2>1, <2>2, ThrowOK DEF FactRow
<1>7. ASSUME NEW queued \in BOOLEAN, RegistryFind(r, queued)
      PROVE  AllKept /\ Onward
  <2>1. AllKept
    BY <1>7, SameKept, FillElementKept DEF RegistryFind
  <2>2. crm[cur].marked = 0
    BY <1>1, <1>7 DEF RegistryFind, StepOnce
  <2>3. \/ Postpone("registry", TRUE, AfterRegistry, queued)
        \/ Goto("regAdd")
        \/ run' = [run EXCEPT !.pc = AfterRegistry, !.element = TRUE]
    BY <1>7 DEF RegistryFind
  <2>4. Moves(AfterRegistry) \/ Moves("regAdd")
    BY <2>3, PostponeMoves, GotoMoves DEF Moves, RunOK, RunRecord
  <2> QED BY <1>1, <2>1, <2>2, <2>4, AfterRegistryOnce DEF StepOnce
<1>8. ASSUME NEW queued \in BOOLEAN, RegistryAdd(r, queued)
      PROVE  AllKept /\ Onward
  <2>1. AllKept
    BY <1>8, SameKept, AddElementKept DEF RegistryAdd, Column
  <2>2. crm[cur].marked = 0
    BY <1>1, <1>8 DEF RegistryAdd, StepOnce
  <2>3. \/ Postpone("registry", TRUE, AfterRegistry, queued)
        \/ run' = [run EXCEPT !.pc = AfterRegistry, !.element = TRUE]
    BY <1>8 DEF RegistryAdd
  <2>4. Moves(AfterRegistry)
    BY <2>3, PostponeMoves DEF Moves, RunOK, RunRecord
  <2> QED BY <1>1, <2>1, <2>2, <2>4, AfterRegistryOnce
<1>9. ASSUME NEW queued \in BOOLEAN, Bind(r, queued)
      PROVE  AllKept /\ Onward
  <2>1. AllKept
    BY <1>9, SameKept, BesideKept DEF Bind
  <2>2. Postpone("binding", run.element, "alert", queued) \/ Goto("alert")
    BY <1>9 DEF Bind
  <2>3. Moves("alert")
    BY <2>2, PostponeMoves, GotoMoves
  <2> QED BY <1>1, <1>9, <2>1, <2>3 DEF Bind, StepOnce
<1>10. ASSUME NEW queued \in BOOLEAN, FireTrigger(r, queued)
       PROVE  AllKept /\ Onward
  <2>1. AllKept
    BY <1>10, FiredKept DEF FireTrigger
  <2>2. Moves("factFind") \/ Moves("chat")
    BY <1>10, GotoMoves DEF FireTrigger
  <2> QED BY <1>1, <1>10, <2>1, <2>2 DEF FireTrigger, StepOnce
<1> QED BY <1>2, <1>3, <1>4, <1>5, <1>6, <1>7, <1>8, <1>9, <1>10

\* The steps that count.
LEMMA CountOnce ==
  ASSUME Parts, OnceInv, run.pc # "idle", cur \in Op, Parts', NEW r \in Reply,
         \/ Pay(r) \/ LedgerRow(r) \/ LedgerSum(r) \/ AddActivity(r)
         \/ MarkActivity(r) \/ UndoActivity(r) \/ Alert(r) \/ Announce(r)
  PROVE  OnceInv'
<1> USE DEF Parts
<1>1. StepOnce(cur, run.pc) /\ Stored
  BY DEF OnceInv, Stored
<1> DEFINE Counted ==
      \/ run'.pc \in {"idle", "gate"}
      \/ \E pc \in Step : Moves(pc) /\ cur' = cur /\ StepOnce(cur, pc)'
<1> SUFFICES Stored' /\ Counted
  BY MovedOnce, RestingOnce
<1> USE DEF Step, BeforeMark, AfterMark, Marking, LedgerSteps
<1>2. CASE Pay(r)
  <2>1. crm[cur].marked = 0 /\ crm[cur].paid = 0
    BY <1>1, <1>2 DEF Pay, StepOnce
  <2>2. \/ UNCHANGED crm
        \/ crm' = [crm EXCEPT ![cur].paid = @ + 1]
    BY <1>2 DEF Pay
  <2>3. Stored'
    <3> DEFINE c == [crm[cur] EXCEPT !.paid = @ + 1]
    <3>1. StoredOnce(cur, c)
      BY <1>1, <2>1 DEF Stored, StoredOnce, CrmOK, CrmRecord
    <3> QED BY <1>1, <2>2, <3>1, LocalStored, UnchangedStored
  <2>4. CASE r = "ok"
    <3>1. Moves(AfterPay) /\ cur' = cur
      BY <1>2, <2>4, GotoMoves, MovesCur DEF Pay
    <3>2. crm'[cur].paid = 1 /\ crm'[cur].marked = 0
      BY <1>2, <2>1, <2>4 DEF Pay, Landed, CrmOK, CrmRecord
    <3>3. AfterPay \in Step /\ StepOnce(cur, AfterPay)'
      BY <3>1, <3>2 DEF AfterPay, StepOnce, Ready, Booked
    <3> QED BY <2>3, <3>1, <3>3 DEF AfterPay
  <2>5. CASE r # "ok"
    BY <1>2, <2>3, <2>5, ThrowOK DEF Pay
  <2> QED BY <2>4, <2>5
<1>3. CASE LedgerRow(r)
  <2>1. \/ UNCHANGED crm
        \/ crm' = [crm EXCEPT ![cur].row = TRUE]
    BY <1>3 DEF LedgerRow
  <2>2. Stored'
    <3> DEFINE c == [crm[cur] EXCEPT !.row = TRUE]
    <3>1. StoredOnce(cur, c)
      BY <1>1 DEF Stored, StoredOnce, Ready, CrmOK, CrmRecord
    <3> QED BY <1>1, <2>1, <3>1, LocalStored, UnchangedStored
  <2>3. CASE r = "ok"
    <3>1. Moves("ledSum") /\ cur' = cur
      BY <1>3, <2>3, GotoMoves, MovesCur DEF LedgerRow
    <3>2. crm' = [crm EXCEPT ![cur].row = TRUE]
      BY <1>3, <2>3 DEF LedgerRow, Landed
    <3>3. StepOnce(cur, "ledSum")'
      BY <1>1, <1>3, <3>1, <3>2 DEF LedgerRow, StepOnce, CrmOK, CrmRecord
    <3> QED BY <2>2, <3>1, <3>3
  <2>4. CASE r # "ok"
    BY <1>3, <2>2, <2>4, ThrowOK DEF LedgerRow
  <2> QED BY <2>3, <2>4
<1>4. CASE LedgerSum(r)
  <2>1. \/ UNCHANGED crm
        \/ crm' = [crm EXCEPT ![cur].summed = TRUE]
    BY <1>4 DEF LedgerSum
  <2>2. crm[cur].row /\ crm[cur].marked = 0
    BY <1>1, <1>4 DEF LedgerSum, StepOnce
  <2>3. Stored'
    <3> DEFINE c == [crm[cur] EXCEPT !.summed = TRUE]
    <3>1. StoredOnce(cur, c)
      BY <1>1, <2>2 DEF Stored, StoredOnce, Ready, CrmOK, CrmRecord
    <3> QED BY <1>1, <2>1, <3>1, LocalStored, UnchangedStored
  <2>4. CASE r = "ok"
    <3>1. Moves("activity") /\ cur' = cur
      BY <1>4, <2>4, GotoMoves, MovesCur DEF LedgerSum
    <3>2. crm' = [crm EXCEPT ![cur].summed = TRUE]
      BY <1>4, <2>4 DEF LedgerSum, Landed
    <3>3. StepOnce(cur, "activity")'
      BY <1>1, <1>4, <2>2, <3>1, <3>2
         DEF LedgerSum, StepOnce, Ready, CrmOK, CrmRecord
    <3> QED BY <2>3, <3>1, <3>3
  <2>5. CASE r # "ok"
    BY <1>4, <2>3, <2>5, ThrowOK DEF LedgerSum
  <2> QED BY <2>4, <2>5
<1>5. CASE AddActivity(r)
  <2>1. \/ UNCHANGED crm
        \/ crm' = [crm EXCEPT ![cur].orphans = @ + 1]
    BY <1>5 DEF AddActivity
  <2>2. Stored'
    <3> DEFINE c == [crm[cur] EXCEPT !.orphans = @ + 1]
    <3>1. StoredOnce(cur, c)
      BY <1>1 DEF Stored, StoredOnce, Ready, CrmOK, CrmRecord
    <3> QED BY <1>1, <2>1, <3>1, LocalStored, UnchangedStored
  <2>3. CASE cur \in Owned /\ r = "ok"
    <3>1. Moves("mark") /\ cur' = cur
      BY <1>5, <2>3, GotoMoves, MovesCur DEF AddActivity
    <3>2. crm' = [crm EXCEPT ![cur].orphans = @ + 1]
      BY <1>5, <2>3 DEF AddActivity, Landed
    <3>3. crm'[cur].orphans > 0
      BY <3>2 DEF CrmOK, CrmRecord
    <3>4. StepOnce(cur, "mark")'
      BY <1>1, <1>5, <3>1, <3>2, <3>3
         DEF AddActivity, StepOnce, Ready, CrmOK, CrmRecord
    <3> QED BY <2>2, <3>1, <3>4
  <2>4. CASE ~(cur \in Owned /\ r = "ok")
    BY <1>5, <2>2, <2>4, ThrowOK, NextOperationOK DEF AddActivity
  <2> QED BY <2>3, <2>4
<1>6. CASE MarkActivity(r)
  <2>1. /\ crm[cur].marked = 0 /\ crm[cur].orphans > 0 /\ Ready(cur, crm[cur])
        /\ crm[cur].posted = 0 /\ crm[cur].alerted = 0
    BY <1>1, <1>6 DEF MarkActivity, StepOnce, Stored, StoredOnce
  <2>2. CASE r = "refused"
    <3>1. UNCHANGED crm /\ Goto("undoOrphan")
      BY <1>6, <2>2 DEF MarkActivity, Landed
    <3>2. Moves("undoOrphan") /\ cur' = cur
      BY <3>1, GotoMoves, MovesCur
    <3>3. Stored' /\ StepOnce(cur, "undoOrphan")'
      BY <1>1, <2>1, <3>1, <3>2 DEF StepOnce, Stored, StoredOnce, Ready
    <3> QED BY <3>2, <3>3
  <2>3. CASE r # "refused"
    <3>1. crm' = [crm EXCEPT ![cur].orphans = @ - 1, ![cur].marked = @ + 1]
      BY <1>6, <2>3 DEF MarkActivity, Landed
    <3>2. /\ crm'[cur].marked = 1 /\ crm'[cur].posted = 0
          /\ crm'[cur].alerted = 0
      BY <2>1, <3>1 DEF CrmOK, CrmRecord
    <3>3. Stored'
      <4> DEFINE c == [crm[cur] EXCEPT !.orphans = @ - 1, !.marked = @ + 1]
      <4>1. c.marked = 1 /\ c.paid = crm[cur].paid /\ c.row = crm[cur].row
            /\ c.summed = crm[cur].summed /\ c.posted = crm[cur].posted
            /\ c.alerted = crm[cur].alerted
        BY <2>1 DEF CrmOK, CrmRecord
      <4>2. StoredOnce(cur, c)
        BY <1>1, <2>1, <4>1 DEF Stored, StoredOnce, Ready
      <4>3. crm' = [crm EXCEPT ![cur] = c]
        BY <3>1
      <4> QED BY <1>1, <4>2, <4>3, LocalStored
    <3>4. \E pc \in {"bind", "verify", "undoMarked"} : Goto(pc)
      BY <1>6, <2>3 DEF MarkActivity, Reply
    <3>5. PICK pc \in {"bind", "verify", "undoMarked"} :
            Moves(pc) /\ cur' = cur
      BY <3>4, GotoMoves, MovesCur
    <3>6. StepOnce(cur, pc)'
      BY <3>2, <3>5 DEF StepOnce
    <3> QED BY <3>3, <3>5, <3>6
  <2> QED BY <2>2, <2>3
<1>7. CASE UndoActivity(r)
  <2>1. run.pc = "undoMarked" =>
          /\ crm[cur].marked = 1 /\ crm[cur].posted = 0
          /\ crm[cur].alerted = 0
    BY <1>1 DEF StepOnce
  <2>2. \/ UNCHANGED crm
        \/ crm' = [crm EXCEPT ![cur].orphans = @ - 1]
        \/ /\ run.pc = "undoMarked"
           /\ crm' = [crm EXCEPT ![cur].marked = @ - 1, ![cur].linked = FALSE]
    BY <1>7 DEF UndoActivity
  <2>3. Stored'
    <3>1. ASSUME crm' = [crm EXCEPT ![cur].orphans = @ - 1] PROVE Stored'
      <4> DEFINE c == [crm[cur] EXCEPT !.orphans = @ - 1]
      <4>1. StoredOnce(cur, c)
        BY <1>1 DEF Stored, StoredOnce, Ready, CrmOK, CrmRecord
      <4> QED BY <1>1, <3>1, <4>1, LocalStored
    <3>2. ASSUME run.pc = "undoMarked",
                 crm' = [crm EXCEPT ![cur].marked = @ - 1, ![cur].linked = FALSE]
          PROVE  Stored'
      <4> DEFINE c == [crm[cur] EXCEPT !.marked = @ - 1, !.linked = FALSE]
      <4>1. c.marked = 0 /\ c.paid = crm[cur].paid /\ c.row = crm[cur].row
            /\ c.summed = crm[cur].summed /\ c.posted = 0 /\ c.alerted = 0
        BY <2>1, <3>2 DEF CrmOK, CrmRecord
      <4>2. StoredOnce(cur, c)
        BY <1>1, <4>1 DEF Stored, StoredOnce
      <4>3. crm' = [crm EXCEPT ![cur] = c]
        BY <3>2
      <4> QED BY <1>1, <4>2, <4>3, LocalStored
    <3> QED BY <1>1, <2>2, <3>1, <3>2, UnchangedStored
  <2> QED BY <1>7, <2>3, ThrowOK DEF UndoActivity
<1>8. CASE Alert(r)
  <2>1. /\ crm[cur].marked = 1 /\ crm[cur].posted = 0
        /\ crm[cur].alerted = 0
    BY <1>1, <1>8 DEF Alert, StepOnce
  <2>2. \/ UNCHANGED crm
        \/ crm' = [crm EXCEPT ![cur].alerted = @ + 1]
    BY <1>8 DEF Alert
  <2>3. Stored'
    <3> DEFINE c == [crm[cur] EXCEPT !.alerted = @ + 1]
    <3>1. StoredOnce(cur, c)
      BY <1>1, <2>1 DEF Stored, StoredOnce, Ready, CrmOK, CrmRecord
    <3> QED BY <1>1, <2>2, <3>1, LocalStored, UnchangedStored
  <2>4. crm'[cur].marked = 1 /\ crm'[cur].posted = 0
    BY <2>1, <2>2 DEF CrmOK, CrmRecord
  <2>5. \E pc \in {"trigGate", "trigFire", "chat"} : Goto(pc)
    BY <1>8 DEF Alert, AfterAlert
  <2>6. PICK pc \in {"trigGate", "trigFire", "chat"} : Moves(pc) /\ cur' = cur
    BY <2>5, GotoMoves, MovesCur
  <2>7. StepOnce(cur, pc)'
    BY <2>4, <2>6 DEF StepOnce
  <2> QED BY <2>3, <2>6, <2>7
<1>9. CASE Announce(r)
  <2>1. crm[cur].marked = 1 /\ crm[cur].posted = 0
    BY <1>1, <1>9 DEF Announce, StepOnce
  <2>2. \/ UNCHANGED crm
        \/ crm' = [crm EXCEPT ![cur].posted = @ + 1]
    BY <1>9 DEF Announce
  <2>3. Stored'
    <3> DEFINE c == [crm[cur] EXCEPT !.posted = @ + 1]
    <3>1. StoredOnce(cur, c)
      BY <1>1, <2>1 DEF Stored, StoredOnce, Ready, CrmOK, CrmRecord
    <3> QED BY <1>1, <2>2, <3>1, LocalStored, UnchangedStored
  <2> QED BY <1>9, <2>3, NextOperationOK DEF Announce
<1> QED BY <1>2, <1>3, <1>4, <1>5, <1>6, <1>7, <1>8, <1>9

\* The other workers do not touch what the batch worker counts.
LEMMA ElsewhereKept ==
  ASSUME Parts, NEW o \in Op, LateStep(o)
  PROVE  AllKept /\ UNCHANGED run
<1>1. ASSUME NEW r \in Reply, Catchup(o, r) PROVE AllKept /\ UNCHANGED run
  BY <1>1, SameKept, AddElementKept, FillElementKept, BesideKept, FiredKept
     DEF Parts, Catchup, LateFind, LateAdd, LateLocate, LateLink, LateBind,
         LateFire, Column
<1>2. CASE StartRegistryWrite(o)
  BY <1>2, SameKept DEF StartRegistryWrite
<1> QED BY <1>1, <1>2 DEF LateStep

LEMMA ProcessBusy ==
  ASSUME Parts, NEW r \in Reply, Process(r) PROVE run.pc # "idle" /\ cur \in Op
  BY CurInOp
     DEF Parts, Process, EnsureFind, EnsureAdd, Gate, Backfill, BackfillAdd,
         RegistryFind, RegistryAdd, Bind, FireTrigger, PayRead, Pay,
         LedgerFind, LedgerAdd, LedgerRow, LedgerSum, AddActivity,
         MarkActivity, VerifyMarker, UndoActivity, Alert, TriggerGate,
         FactFind, FactAdd, FactRow, Announce

(***************************************************************************)
(* The theorems.                                                           *)
(***************************************************************************)
LEMMA InitIInv == Init => IInv
<1> SUFFICES ASSUME Init PROVE IInv
  OBVIOUS
<1>1. TypeOK
  <2>1. Blank \in CrmRecord
    BY EmptySeq DEF Blank, CrmRecord, Column
  <2> QED BY <2>1 DEF Init, TypeOK, InBatch, JobRecord, JobState, Fresh,
                      RunRecord, Idle, Step, LateRecord, Late, Absent
<1>2. OnceInv
  BY DEF Init, OnceInv, StoredOnce, Ready, Blank, Idle
<1> QED BY <1>1, <1>2 DEF IInv

LEMMA NextIInv == IInv /\ [Next]_vars => IInv'
<1> SUFFICES ASSUME IInv, [Next]_vars PROVE IInv'
  OBVIOUS
<1>1. Parts /\ OnceInv
  BY TypeParts DEF IInv
<1>2. ASSUME Parts', OnceInv' PROVE IInv'
  BY <1>2, TypeParts DEF IInv, TypeOK, Parts, RunOK, InBatch, JobOK, CrmOK,
                         DeferredOK, RestOK
<1>3. CASE UNCHANGED vars
  <2>1. TypeOK'
    BY <1>3 DEF vars, IInv, TypeOK, InBatch
  <2>2. cur' = cur
    BY <1>3 DEF vars, cur
  <2>3. OnceInv'
    BY <1>3, <2>2 DEF vars, IInv, OnceInv, StepOnce, StoredOnce, Ready
  <2> QED
    BY <2>1, <2>3 DEF IInv
<1>4. ASSUME NEW r \in Reply, Process(r) PROVE IInv'
  <2>1. Parts' /\ run.pc # "idle" /\ cur \in Op
    BY <1>1, <1>4, ProcessType, ProcessBusy
  <2>2. OnceInv'
    <3>1. CASE AllKept /\ Onward
      BY <1>1, <2>1, <3>1, BesideOnce DEF Onward, Calm, Parts
    <3> QED BY <1>1, <1>4, <2>1, <3>1, ReadCalm, VerifyOnce, WriteCalm,
               CountOnce DEF Process
  <2> QED BY <1>2, <2>1, <2>2
<1>5. ASSUME NEW o \in Op, LateStep(o) PROVE IInv'
  <2>1. Parts'
    BY <1>1, <1>5, CatchupType, QueueType DEF LateStep
  <2>2. OnceInv'
    BY <1>1, <1>5, ElsewhereKept, ElsewhereOnce DEF Parts
  <2> QED BY <1>2, <2>1, <2>2
<1>6. ASSUME NEW j \in Job, Claim(j) \/ Redeliver(j) PROVE IInv'
  <2>1. Parts'
    BY <1>1, <1>6, QueueType
  <2>2. CASE Claim(j)
    <3>1. Stored' /\ run'.pc = "gate"
      BY <1>1, <2>2, UnchangedStored DEF Claim, Idle, OnceInv, Stored
    <3> QED BY <1>2, <2>1, <3>1, RestingOnce
  <2>3. CASE Redeliver(j)
    <3>1. AllKept /\ UNCHANGED run
      BY <2>3, SameKept DEF Redeliver
    <3> QED BY <1>1, <1>2, <2>1, <3>1, ElsewhereOnce DEF Parts
  <2> QED BY <1>6, <2>2, <2>3
<1>7. CASE Crash
  <2>1. Parts'
    BY <1>1, <1>7, QueueType
  <2>2. Stored' /\ run'.pc = "idle"
    BY <1>1, <1>7, UnchangedStored DEF Crash, Idle, OnceInv, Stored
  <2> QED BY <1>2, <2>1, <2>2, RestingOnce
<1> QED BY <1>3, <1>4, <1>5, <1>6, <1>7 DEF Next, BatchStep

\* Every reachable state is well typed and keeps the worker's bookkeeping in
\* step with what the portal holds.
THEOREM Inductive == Spec => []IInv
  BY InitIInv, NextIInv, PTL DEF Spec

\* The types of the crm-sync stage.
THEOREM TypeCorrect == Spec => []TypeOK
  BY Inductive, PTL DEF IInv

\* The strengthened invariant that a run checks on two operations.
THEOREM OnceInvHolds == Spec => []OnceInv
  BY Inductive, PTL DEF IInv

\* One marked activity, one payment, one message per chat for each operation.
THEOREM Once == Spec => []OncePerOperation
<1>1. IInv => OncePerOperation
  <2> SUFFICES ASSUME IInv, NEW o \in Op
               PROVE  /\ crm[o].marked <= 1 /\ crm[o].paid <= 1
                      /\ crm[o].alerted <= 1 /\ crm[o].posted <= 1
    BY DEF OncePerOperation
  <2> QED BY DEF IInv, OnceInv, StoredOnce
<1> QED BY <1>1, Inductive, PTL
-----------------------------------------------------------------------------
(***************************************************************************)
(* The crm-sync stage implements ImportOnce: every step of its workers is  *)
(* a step of the promise, or changes nothing of what was promised.         *)
(***************************************************************************)
\* Nothing an operation's promise speaks of has changed.
SameTold(o) ==
  /\ crm'[o].paid = crm[o].paid /\ crm'[o].alerted = crm[o].alerted
  /\ crm'[o].posted = crm[o].posted
  /\ crm'[o].row = crm[o].row /\ crm'[o].summed = crm[o].summed
  /\ Recorded(o)' <=> Recorded(o)

LEMMA Stutter == ASSUME \A o \in Op : SameTold(o) PROVE UNCHANGED Promise!vars
  BY DEF SameTold, Promise!vars

\* A step outside the marking of an activity records nothing.
LEMMA CalmStutter ==
  ASSUME AllKept, run.pc \notin Marking, run'.pc \notin Marking
  PROVE  UNCHANGED Promise!vars
<1>1. ASSUME NEW o \in Op PROVE SameTold(o)
  BY DEF SameTold, AllKept, Kept, Recorded
<1> QED BY <1>1, Stutter

\* A step of another worker changes nothing that was promised.
LEMMA ElsewhereStutter ==
  ASSUME AllKept, UNCHANGED run PROVE UNCHANGED Promise!vars
<1>1. ASSUME NEW o \in Op PROVE SameTold(o)
  BY DEF SameTold, AllKept, Kept, Recorded, cur
<1> QED BY <1>1, Stutter

\* The end of a marking, with the activity left in place, records it.
LEMMA MarkingEnds ==
  ASSUME Parts, OnceInv, run.pc \in Marking, NEW c \in Op, c = cur,
         UNCHANGED crm, run'.pc \notin Marking
  PROVE  Promise!Record(c)
<1>1. crm[c].marked = 1 /\ Ready(c, crm[c])
  BY DEF OnceInv, StepOnce, StoredOnce, Marking
<1>2. ~Recorded(c) /\ Recorded(c)'
  BY <1>1 DEF Recorded
<1>3. ASSUME NEW o \in Op, o # c PROVE Recorded(o)' <=> Recorded(o)
  BY <1>3 DEF Recorded
<1>4. {o \in Op : Recorded(o)'} = {o \in Op : Recorded(o)} \cup {c}
  BY <1>2, <1>3
<1> QED BY <1>1, <1>2, <1>4 DEF Promise!Record, Ready

\* Activities without a marker come and go unseen.
LEMMA OrphansStutter ==
  ASSUME CrmOK, run.pc \notin Marking, run'.pc \notin Marking,
         NEW c \in Op, NEW n,
         crm' = crm \/ crm' = [crm EXCEPT ![c].orphans = n]
  PROVE  UNCHANGED Promise!vars
<1>1. ASSUME NEW o \in Op
      PROVE  /\ crm'[o].paid = crm[o].paid /\ crm'[o].alerted = crm[o].alerted
             /\ crm'[o].posted = crm[o].posted
             /\ crm'[o].row = crm[o].row /\ crm'[o].summed = crm[o].summed
             /\ crm'[o].marked = crm[o].marked
  <2>1. CASE UNCHANGED crm
    BY <2>1
  <2>2. CASE crm' = [crm EXCEPT ![c].orphans = n]
    BY <2>2 DEF CrmOK, CrmRecord
  <2> QED BY <2>1, <2>2
<1>2. ASSUME NEW o \in Op PROVE Recorded(o)' <=> Recorded(o)
  <2>1. Recorded(o) <=> crm[o].marked > 0
    BY DEF Recorded
  <2>2. Recorded(o)' <=> crm'[o].marked > 0
    BY DEF Recorded
  <2> QED BY <1>1, <2>1, <2>2
<1> QED BY <1>1, <1>2, Stutter DEF SameTold

LEMMA CalmStep ==
  ASSUME run.pc \notin Marking, AllKept, Onward
  PROVE  UNCHANGED Promise!vars
<1>1. run'.pc \notin Marking
  BY DEF Onward, Calm, Moves, Marking
<1> QED BY <1>1, CalmStutter

\* The activity gets its marker, and counts as recorded when that is sure.
LEMMA MarkStep ==
  ASSUME Parts, OnceInv, NEW c \in Op, c = cur, NEW r \in Reply,
         MarkActivity(r)
  PROVE  [Promise!Next]_Promise!vars
<1>1. /\ run.pc = "mark" /\ crm[c].marked = 0 /\ crm[c].orphans > 0
      /\ Ready(c, crm[c]) /\ ~Recorded(c)
  BY DEF MarkActivity, OnceInv, StepOnce, BeforeMark, Recorded
<1>2. CASE r = "ok" /\ proven
  <2>1. /\ Moves("bind") /\ cur' = c
        /\ crm' = [crm EXCEPT ![c].orphans = @ - 1, ![c].marked = @ + 1]
    BY <1>2, GotoMoves, MovesCur DEF MarkActivity, Landed, Parts
  <2>2. /\ crm'[c].marked = 1 /\ crm'[c].paid = crm[c].paid
        /\ crm'[c].row = crm[c].row /\ crm'[c].summed = crm[c].summed
        /\ crm'[c].posted = crm[c].posted
        /\ crm'[c].alerted = crm[c].alerted
        /\ \A o \in Op \ {c} : crm'[o] = crm[o]
    BY <1>1, <2>1 DEF Parts, CrmOK, CrmRecord
  <2>3. Recorded(c)'
    BY <2>1, <2>2 DEF Recorded, Moves, Marking
  <2>4. ASSUME NEW o \in Op, o # c PROVE Recorded(o)' <=> Recorded(o)
    BY <1>1, <2>1, <2>2, <2>4 DEF Recorded, Moves, Marking
  <2>5. {o \in Op : Recorded(o)'} = {o \in Op : Recorded(o)} \cup {c}
    BY <2>3, <2>4
  <2>6. Promise!Record(c)
    BY <1>1, <2>2, <2>5 DEF Promise!Record, Ready
  <2> QED BY <2>6 DEF Promise!Next
<1>3. CASE ~(r = "ok" /\ proven)
  <2>1. \E pc \in {"verify", "undoOrphan", "undoMarked"} : Goto(pc)
    BY <1>3 DEF MarkActivity, Reply
  <2>2. PICK pc \in {"verify", "undoOrphan", "undoMarked"} :
          Moves(pc) /\ cur' = c
    BY <2>1, GotoMoves, MovesCur DEF Parts
  <2>3. \/ UNCHANGED crm
        \/ crm' = [crm EXCEPT ![c].orphans = @ - 1, ![c].marked = @ + 1]
    BY DEF MarkActivity
  <2>4. pc = "undoOrphan" => UNCHANGED crm
    <3>1. r = "refused" \/ \E q \in {"verify", "undoMarked"} : Goto(q)
      BY <1>3 DEF MarkActivity, Reply
    <3>2. r = "refused" \/ \E q \in {"verify", "undoMarked"} : Moves(q)
      BY <3>1, GotoMoves DEF Parts
    <3> QED BY <2>2, <3>2 DEF MarkActivity, Landed, Moves
  <2>5. ~Recorded(c)'
    BY <1>1, <2>2, <2>4 DEF Recorded, Moves, Marking
  <2>6. ASSUME NEW o \in Op PROVE SameTold(o)
    <3>1. crm'[o].paid = crm[o].paid /\ crm'[o].alerted = crm[o].alerted
          /\ crm'[o].posted = crm[o].posted /\ crm'[o].row = crm[o].row
          /\ crm'[o].summed = crm[o].summed
          /\ (o # c => crm'[o].marked = crm[o].marked)
      <4>1. CASE UNCHANGED crm
        BY <4>1
      <4>2. CASE crm' = [crm EXCEPT ![c].orphans = @ - 1, ![c].marked = @ + 1]
        <5>1. o \in DOMAIN crm /\ crm[o] \in CrmRecord
          BY DEF Parts, CrmOK
        <5>2. CASE o = c
          BY <4>2, <5>1, <5>2 DEF CrmRecord
        <5>3. CASE o # c
          BY <4>2, <5>1, <5>3
        <5> QED
          BY <5>2, <5>3
      <4> QED
        BY <2>3, <4>1, <4>2
    <3>2. CASE o = c
      BY <1>1, <2>5, <3>1, <3>2 DEF SameTold
    <3>3. CASE o # c
      <4>1. Recorded(o) <=> crm[o].marked > 0
        BY <3>3 DEF Recorded
      <4>2. Recorded(o)' <=> crm'[o].marked > 0
        BY <2>2, <3>3 DEF Recorded
      <4> QED BY <3>1, <3>3, <4>1, <4>2 DEF SameTold
    <3> QED BY <3>2, <3>3
  <2> QED BY <2>6, Stutter
<1> QED BY <1>2, <1>3

\* The steps that count are the steps of the promise.
LEMMA CountStep ==
  ASSUME Parts, OnceInv, Parts', OnceInv', run.pc # "idle", NEW c \in Op,
         c = cur, NEW r \in Reply,
         \/ Pay(r) \/ LedgerRow(r) \/ LedgerSum(r) \/ AddActivity(r)
         \/ UndoActivity(r) \/ Alert(r) \/ Announce(r)
  PROVE  [Promise!Next]_Promise!vars
<1> USE DEF Parts
<1>1. StepOnce(c, run.pc) /\ StoredOnce(c, crm[c])
  BY DEF OnceInv
<1>2. ASSUME run.pc \notin Marking, run'.pc \notin Marking,
             \A o \in Op : crm'[o].marked = crm[o].marked
      PROVE  {o \in Op : Recorded(o)'} = {o \in Op : Recorded(o)}
  BY <1>2 DEF Recorded
<1>3. CASE Pay(r)
  <2>1. run.pc \notin Marking /\ run'.pc \notin Marking
    BY <1>3, GotoMoves, ThrowOK
       DEF Pay, Marking, Moves, AfterPay
  <2>2. CASE UNCHANGED crm
    BY <2>1, <2>2, SameKept, CalmStutter
  <2>3. CASE crm' = [crm EXCEPT ![c].paid = @ + 1]
    <3>1. /\ crm[c].paid = 0 /\ crm[c].marked = 0
          /\ c \in Payable /\ AutoDistribute
      BY <1>1, <1>3 DEF Pay, StepOnce, BeforeMark
    <3>2. crm' = [crm EXCEPT ![c] = [crm[c] EXCEPT !.paid = 1]]
      BY <2>3, <3>1
    <3>3. ASSUME NEW o \in Op
          PROVE  /\ crm'[o].paid = IF o = c THEN 1 ELSE crm[o].paid
                 /\ crm'[o].marked = crm[o].marked
                 /\ crm'[o].row = crm[o].row /\ crm'[o].summed = crm[o].summed
                 /\ crm'[o].alerted = crm[o].alerted
                 /\ crm'[o].posted = crm[o].posted
      BY <3>2 DEF CrmOK, CrmRecord
    <3>4. {o \in Op : Recorded(o)'} = {o \in Op : Recorded(o)}
      BY <1>2, <2>1, <3>3
    <3>5. [o \in Op |-> crm'[o].paid]
            = [[o \in Op |-> crm[o].paid] EXCEPT ![c] = 1]
      BY <3>3
    <3>6. ~Recorded(c)
      BY <3>1 DEF Recorded
    <3>7. Promise!Pay(c)
      BY <3>1, <3>3, <3>4, <3>5, <3>6 DEF Promise!Pay
    <3> QED BY <3>7 DEF Promise!Next
  <2> QED BY <1>3, <2>2, <2>3 DEF Pay
<1>4. CASE LedgerRow(r)
  <2>1. run.pc \notin Marking /\ run'.pc \notin Marking
    BY <1>4, GotoMoves, ThrowOK DEF LedgerRow, Marking, Moves
  <2>2. CASE UNCHANGED crm
    BY <2>1, <2>2, SameKept, CalmStutter
  <2>3. CASE crm' = [crm EXCEPT ![c].row = TRUE]
    <3>1. ASSUME NEW o \in Op
          PROVE  /\ crm'[o].row /\ crm'[o].summed <=> crm[o].row /\ crm[o].summed
                 /\ crm'[o].marked = crm[o].marked
                 /\ crm'[o].paid = crm[o].paid
                 /\ crm'[o].alerted = crm[o].alerted
                 /\ crm'[o].posted = crm[o].posted
      <4>1. crm[c].summed => crm[c].row
        BY <1>1 DEF StoredOnce
      <4> QED BY <2>3, <4>1 DEF CrmOK, CrmRecord
    <3>2. {o \in Op : Recorded(o)'} = {o \in Op : Recorded(o)}
      BY <1>2, <2>1, <3>1
    <3> QED BY <3>1, <3>2 DEF Promise!vars
  <2> QED BY <1>4, <2>2, <2>3 DEF LedgerRow
<1>5. CASE LedgerSum(r)
  <2>1. run.pc \notin Marking /\ run'.pc \notin Marking
    BY <1>5, GotoMoves, ThrowOK DEF LedgerSum, Marking, Moves
  <2>2. CASE UNCHANGED crm
    BY <2>1, <2>2, SameKept, CalmStutter
  <2>3. CASE crm' = [crm EXCEPT ![c].summed = TRUE]
    <3>1. /\ crm[c].row /\ crm[c].marked = 0 /\ c \in Payable /\ Ledger
          /\ AutoDistribute => crm[c].paid = 1
      BY <1>1, <1>5 DEF LedgerSum, StepOnce, BeforeMark, LedgerSteps
    <3>2. ASSUME NEW o \in Op
          PROVE  /\ crm'[o].row = crm[o].row
                 /\ (o # c => crm'[o].summed = crm[o].summed)
                 /\ crm'[o].marked = crm[o].marked
                 /\ crm'[o].paid = crm[o].paid
                 /\ crm'[o].alerted = crm[o].alerted
                 /\ crm'[o].posted = crm[o].posted
      BY <2>3 DEF CrmOK, CrmRecord
    <3>3. crm'[c].summed
      BY <2>3 DEF CrmOK, CrmRecord
    <3>4. {o \in Op : Recorded(o)'} = {o \in Op : Recorded(o)}
      BY <1>2, <2>1, <3>2
    <3>5. {o \in Op : crm'[o].row /\ crm'[o].summed}
            = {o \in Op : crm[o].row /\ crm[o].summed} \cup {c}
      BY <3>1, <3>2, <3>3
    <3>6. ~Recorded(c)
      BY <3>1 DEF Recorded
    <3>7. Promise!Enter(c)
      BY <3>1, <3>2, <3>4, <3>5, <3>6 DEF Promise!Enter
    <3> QED BY <3>7 DEF Promise!Next
  <2> QED BY <1>5, <2>2, <2>3 DEF LedgerSum
<1>6. CASE AddActivity(r)
  <2>1. run.pc \notin Marking /\ run'.pc \notin Marking
    BY <1>6, GotoMoves, ThrowOK, NextOperationOK
       DEF AddActivity, Marking, Moves
  <2>2. crm' = crm \/ crm' = [crm EXCEPT ![c].orphans = crm[c].orphans + 1]
    BY <1>6 DEF AddActivity
  <2> QED BY <2>1, <2>2, OrphansStutter
<1>7. CASE UndoActivity(r)
  <2>1. run'.pc = "idle"
    BY <1>7, ThrowOK DEF UndoActivity
  <2>2. CASE run.pc = "undoOrphan"
    <3>1. crm' = crm \/ crm' = [crm EXCEPT ![c].orphans = crm[c].orphans - 1]
      BY <1>7, <2>2 DEF UndoActivity
    <3>2. run.pc \notin Marking /\ run'.pc \notin Marking
      BY <2>1, <2>2 DEF Marking
    <3> QED BY <3>1, <3>2, OrphansStutter
  <2>3. CASE run.pc = "undoMarked" /\ UNCHANGED crm
    <3>1. Promise!Record(c)
      BY <2>1, <2>3, MarkingEnds DEF Marking
    <3> QED BY <3>1 DEF Promise!Next
  <2>4. CASE /\ run.pc = "undoMarked"
             /\ crm' = [crm EXCEPT ![c].marked = @ - 1, ![c].linked = FALSE]
    <3>1. crm[c].marked = 1
      BY <1>1, <2>4 DEF StepOnce, Marking
    <3>2. ASSUME NEW o \in Op
          PROVE  /\ crm'[o].paid = crm[o].paid
                 /\ crm'[o].alerted = crm[o].alerted
                 /\ crm'[o].posted = crm[o].posted
                 /\ crm'[o].row = crm[o].row /\ crm'[o].summed = crm[o].summed
                 /\ crm'[o].marked = IF o = c THEN 0 ELSE crm[o].marked
      <4> DEFINE unmarked == [crm[c] EXCEPT !.marked = @ - 1, !.linked = FALSE]
      <4>1. crm' = [crm EXCEPT ![c] = unmarked]
        BY <2>4
      <4>2. /\ unmarked.paid = crm[c].paid
            /\ unmarked.alerted = crm[c].alerted
            /\ unmarked.posted = crm[c].posted
            /\ unmarked.row = crm[c].row /\ unmarked.summed = crm[c].summed
            /\ unmarked.marked = 0
        BY <3>1 DEF CrmOK, CrmRecord
      <4> HIDE DEF unmarked
      <4>3. CASE o = c
        BY <4>1, <4>2, <4>3 DEF CrmOK
      <4>4. CASE o # c
        BY <4>1, <4>4 DEF CrmOK
      <4> QED BY <4>3, <4>4
    <3>3. ASSUME NEW o \in Op PROVE Recorded(o)' <=> Recorded(o)
      <4>1. CASE o = c
        <5>1. ~Recorded(o)
          BY <2>4, <4>1 DEF Recorded, Marking
        <5>2. ~Recorded(o)'
          BY <3>2, <4>1 DEF Recorded
        <5> QED BY <5>1, <5>2
      <4>2. CASE o # c
        <5>1. Recorded(o) <=> crm[o].marked > 0
          BY <4>2 DEF Recorded
        <5>2. Recorded(o)' <=> crm'[o].marked > 0
          BY <2>1 DEF Recorded, Marking
        <5> QED BY <3>2, <4>2, <5>1, <5>2
      <4> QED BY <4>1, <4>2
    <3> QED BY <3>2, <3>3, Stutter DEF SameTold
  <2> QED BY <1>7, <2>2, <2>3, <2>4 DEF UndoActivity
<1>8. CASE Alert(r)
  <2>1. run.pc \notin Marking /\ run'.pc \notin Marking
    BY <1>8, GotoMoves, NextOperationOK
       DEF Alert, Marking, Moves, AfterAlert
  <2>2. CASE UNCHANGED crm
    BY <2>1, <2>2, SameKept, CalmStutter
  <2>3. CASE crm' = [crm EXCEPT ![c].alerted = @ + 1]
    <3>1. crm[c].alerted = 0 /\ crm[c].marked = 1
      BY <1>1, <1>8 DEF Alert, StepOnce, AfterMark
    <3>2. crm' = [crm EXCEPT ![c] = [crm[c] EXCEPT !.alerted = 1]]
      BY <2>3, <3>1
    <3>3. ASSUME NEW o \in Op
          PROVE  /\ crm'[o].alerted = IF o = c THEN 1 ELSE crm[o].alerted
                 /\ crm'[o].marked = crm[o].marked
                 /\ crm'[o].row = crm[o].row /\ crm'[o].summed = crm[o].summed
                 /\ crm'[o].paid = crm[o].paid
                 /\ crm'[o].posted = crm[o].posted
      BY <3>2 DEF CrmOK, CrmRecord
    <3>4. {o \in Op : Recorded(o)'} = {o \in Op : Recorded(o)}
      BY <1>2, <2>1, <3>3
    <3>5. [o \in Op |-> crm'[o].alerted]
            = [[o \in Op |-> crm[o].alerted] EXCEPT ![c] = 1]
      BY <3>3
    <3>6. Recorded(c)
      BY <2>1, <3>1 DEF Recorded
    <3>7. Promise!Alert(c)
      BY <3>1, <3>3, <3>4, <3>5, <3>6 DEF Promise!Alert
    <3> QED BY <3>7 DEF Promise!Next
  <2> QED BY <1>8, <2>2, <2>3 DEF Alert
<1>9. CASE Announce(r)
  <2>1. run.pc \notin Marking /\ run'.pc \notin Marking
    BY <1>9, GotoMoves, NextOperationOK
       DEF Announce, Marking, Moves, AfterAlert
  <2>2. CASE UNCHANGED crm
    BY <2>1, <2>2, SameKept, CalmStutter
  <2>3. CASE crm' = [crm EXCEPT ![c].posted = @ + 1]
    <3>1. crm[c].posted = 0 /\ crm[c].marked = 1
      BY <1>1, <1>9 DEF Announce, StepOnce, AfterMark
    <3>2. crm' = [crm EXCEPT ![c] = [crm[c] EXCEPT !.posted = 1]]
      BY <2>3, <3>1
    <3>3. ASSUME NEW o \in Op
          PROVE  /\ crm'[o].posted = IF o = c THEN 1 ELSE crm[o].posted
                 /\ crm'[o].marked = crm[o].marked
                 /\ crm'[o].row = crm[o].row /\ crm'[o].summed = crm[o].summed
                 /\ crm'[o].paid = crm[o].paid
                 /\ crm'[o].alerted = crm[o].alerted
      BY <3>2 DEF CrmOK, CrmRecord
    <3>4. {o \in Op : Recorded(o)'} = {o \in Op : Recorded(o)}
      BY <1>2, <2>1, <3>3
    <3>5. [o \in Op |-> crm'[o].posted]
            = [[o \in Op |-> crm[o].posted] EXCEPT ![c] = 1]
      BY <3>3
    <3>6. Recorded(c)
      BY <2>1, <3>1 DEF Recorded
    <3>7. Promise!Post(c)
      BY <3>1, <3>3, <3>4, <3>5, <3>6 DEF Promise!Post
    <3> QED BY <3>7 DEF Promise!Next
  <2> QED BY <1>9, <2>2, <2>3 DEF Announce
<1> QED BY <1>3, <1>4, <1>5, <1>6, <1>7, <1>8, <1>9

LEMMA VerifyStep ==
  ASSUME Parts, OnceInv, NEW c \in Op, c = cur, NEW r \in Reply,
         VerifyMarker(r)
  PROVE  [Promise!Next]_Promise!vars
<1>1. run.pc = "verify" /\ UNCHANGED crm
  BY DEF VerifyMarker
<1>2. CASE r = "ok"
  <2>1. run'.pc = "bind"
    BY <1>2, GotoMoves DEF VerifyMarker, Parts, Moves
  <2>2. Promise!Record(c)
    BY <1>1, <2>1, MarkingEnds DEF Marking
  <2> QED BY <2>2 DEF Promise!Next
<1>3. CASE r # "ok"
  <2>1. Moves("undoMarked") /\ cur' = cur
    BY <1>3, GotoMoves, MovesCur DEF VerifyMarker, Parts
  <2>2. ASSUME NEW o \in Op PROVE SameTold(o)
    BY <1>1, <2>1 DEF SameTold, Recorded, Moves, Marking
  <2> QED BY <2>2, Stutter
<1> QED BY <1>2, <1>3

LEMMA CrashStep ==
  ASSUME Parts, OnceInv, Crash PROVE [Promise!Next]_Promise!vars
<1>1. run'.pc = "idle" /\ UNCHANGED crm
  BY DEF Crash, Idle
<1>2. CASE run.pc \in Marking
  <2>1. cur \in Op
    BY <1>2, CurInOp DEF Parts, Marking
  <2>2. Promise!Record(cur)
    BY <1>1, <1>2, <2>1, MarkingEnds DEF Marking
  <2> QED BY <2>1, <2>2 DEF Promise!Next
<1>3. CASE run.pc \notin Marking
  BY <1>1, <1>3, SameKept, CalmStutter DEF Marking
<1> QED BY <1>2, <1>3

LEMMA StepMaps == IInv /\ IInv' /\ [Next]_vars => [Promise!Next]_Promise!vars
<1> SUFFICES ASSUME IInv, IInv', [Next]_vars
             PROVE  [Promise!Next]_Promise!vars
  OBVIOUS
<1>1. Parts /\ OnceInv
  BY TypeParts DEF IInv
<1>2. Parts' /\ OnceInv'
  BY DEF IInv, TypeOK, Parts, RunOK, InBatch, JobOK, CrmOK, DeferredOK, RestOK
<1>3. CASE UNCHANGED vars
  BY <1>3, SameKept, ElsewhereStutter DEF vars
<1>4. ASSUME NEW r \in Reply, Process(r) PROVE [Promise!Next]_Promise!vars
  <2>1. PICK c \in Op : c = cur
    BY <1>1, <1>4, ProcessBusy
  <2>2. run.pc # "idle"
    BY <1>1, <1>4, ProcessBusy
  <2>3. ASSUME run.pc \notin Marking, AllKept /\ Onward
        PROVE  UNCHANGED Promise!vars
    BY <2>3, CalmStep
  <2>4. CASE \/ Gate(r) \/ PayRead(r) \/ LedgerFind(r) \/ TriggerGate(r)
             \/ FactFind(r)
    <3>1. run.pc \notin Marking
      BY <2>4 DEF Gate, PayRead, LedgerFind, TriggerGate, FactFind, EnsureFind,
                  Marking
    <3> QED BY <1>1, <1>2, <2>1, <2>2, <2>3, <2>4, <3>1, ReadCalm
  <2>5. CASE \/ Backfill(r) \/ BackfillAdd(r) \/ LedgerAdd(r) \/ FactAdd(r)
             \/ FactRow(r)
             \/ \E queued \in BOOLEAN :
                  \/ RegistryFind(r, queued) \/ RegistryAdd(r, queued)
                  \/ Bind(r, queued) \/ FireTrigger(r, queued)
    <3>1. run.pc \notin Marking
      BY <2>5 DEF Backfill, BackfillAdd, LedgerAdd, FactAdd, EnsureAdd, FactRow,
                  RegistryFind, RegistryAdd, Bind, FireTrigger, Marking
    <3> QED BY <1>1, <1>2, <2>1, <2>2, <2>3, <2>5, <3>1, WriteCalm
  <2>6. CASE MarkActivity(r)
    BY <1>1, <2>1, <2>6, MarkStep
  <2>7. CASE VerifyMarker(r)
    BY <1>1, <2>1, <2>7, VerifyStep
  <2>8. CASE \/ Pay(r) \/ LedgerRow(r) \/ LedgerSum(r) \/ AddActivity(r)
             \/ UndoActivity(r) \/ Alert(r) \/ Announce(r)
    BY <1>1, <1>2, <2>1, <2>2, <2>8, CountStep
  <2> QED BY <1>4, <2>4, <2>5, <2>6, <2>7, <2>8 DEF Process
<1>5. ASSUME NEW o \in Op, LateStep(o) PROVE [Promise!Next]_Promise!vars
  BY <1>1, <1>5, ElsewhereKept, ElsewhereStutter
<1>6. ASSUME NEW j \in Job, Claim(j) \/ Redeliver(j)
      PROVE  [Promise!Next]_Promise!vars
  <2>1. CASE Claim(j)
    <3>1. AllKept /\ run.pc \notin Marking /\ run'.pc \notin Marking
      BY <2>1, SameKept DEF Claim, Marking, Idle
    <3> QED BY <3>1, CalmStutter
  <2>2. CASE Redeliver(j)
    BY <2>2, SameKept, ElsewhereStutter DEF Redeliver
  <2> QED BY <1>6, <2>1, <2>2
<1>7. CASE Crash
  BY <1>1, <1>7, CrashStep
<1> QED BY <1>3, <1>4, <1>5, <1>6, <1>7 DEF Next, BatchStep

LEMMA InitMaps == Init => Promise!Init
  BY DEF Init, Promise!Init, Blank, Recorded

\* The crm-sync stage, with its retries, its crashes and the workers beside it,
\* keeps the promise of ImportOnce for every instance.
THEOREM Implements == Spec => ImplementsImportOnce
  BY InitMaps, StepMaps, Inductive, PTL
     DEF Spec, ImplementsImportOnce, Promise!Spec

(***************************************************************************)
(* A job that is done has recorded its operations.                         *)
(***************************************************************************)
Filling == {"backfill", "backfillAdd"}
\* A job that is done has its owned operations recorded, and a job in hand those
\* it has passed; a re-uploaded operation is one that has its marker.
Past(o) == \E i \in 1 .. Len(Batch[run.job]) : i < run.idx /\ Batch[run.job][i] = o
DoneInv ==
  /\ \A j \in Job : \A i \in 1 .. Len(Batch[j]) :
       job[j].state = "done" /\ Batch[j][i] \in Owned => Recorded(Batch[j][i])
  /\ run.pc # "idle" =>
       \A o \in Op : Past(o) /\ o \in Owned => Recorded(o)
  /\ run.pc \in Filling => crm[cur].marked > 0


\* What a step of the handler does to its job: it goes on with the operation in
\* hand, gives the attempt up, or passes to the next operation, which it does
\* only for one with a marker, or without an owner.
GoesOn ==
  /\ UNCHANGED job
  /\ \E pc \in Step : Moves(pc) /\ (pc \in Filling =>
       UNCHANGED crm /\ (crm[cur].marked > 0 \/ run.pc \in Filling))
Passes ==
  /\ NextOperation /\ run.pc \notin Marking
  /\ run.pc \in {"backfill", "backfillAdd", "chat"} \/ crm[cur].marked > 0
       \/ cur \notin Owned

LEMMA ProcessPaths ==
  ASSUME Parts, NEW r \in Reply, Process(r)
  PROVE  GoesOn \/ Throw \/ Passes
<1> USE DEF Parts
<1>0. run.pc # "idle"
  BY ProcessBusy
<1> DEFINE Far == Step \ Filling
<1>1. ASSUME NEW pc \in Far, Goto(pc) \/ Moves(pc), UNCHANGED job PROVE GoesOn
  BY <1>1, GotoMoves DEF GoesOn
<1>2. AfterPay \in Far /\ AfterRegistry \in Far /\ AfterAlert \in Far
  BY DEF AfterPay, AfterRegistry, AfterAlert, Step, Filling, BeforeMark, AfterMark
<1>3. CASE Gate(r)
  <2>1. ASSUME NEW pc \in {"regFind", AfterRegistry},
               run' = [run EXCEPT !.pc = pc, !.gone = Gone(cur)], UNCHANGED job
        PROVE  GoesOn
    <3>1. Moves(pc)
      BY <2>1 DEF RunOK, RunRecord, Moves
    <3>2. "regFind" \in Far
      BY DEF Step, BeforeMark, Filling
    <3> QED
      BY <1>1, <1>2, <2>1, <3>1, <3>2
  <2>2. \/ Throw
        \/ crm[cur].marked > 0 /\ ((Goto("backfill") /\ UNCHANGED job) \/ NextOperation)
        \/ /\ UNCHANGED job
           /\ \E pc \in {"regFind", AfterRegistry} :
                run' = [run EXCEPT !.pc = pc, !.gone = Gone(cur)]
    BY <1>3 DEF Gate
  <2>3. run.pc \notin Marking /\ UNCHANGED crm /\ "backfill" \in Step
    BY <1>3 DEF Gate, Marking, Step
  <2> QED
    BY <2>1, <2>2, <2>3, GotoMoves DEF Passes, GoesOn
<1>4. CASE Backfill(r) \/ BackfillAdd(r)
  <2>1. run.pc \in Filling /\ run.pc \notin Marking /\ "backfillAdd" \in Step
    BY <1>4 DEF Backfill, BackfillAdd, Filling, Marking, Step
  <2>2. NextOperation \/ (Goto("backfillAdd") /\ UNCHANGED <<job, crm>>)
    BY <1>4 DEF Backfill, BackfillAdd
  <2> QED
    BY <2>1, <2>2, GotoMoves DEF Passes, GoesOn, Filling
<1>5. ASSUME NEW queued \in BOOLEAN, RegistryFind(r, queued) \/ RegistryAdd(r, queued)
      PROVE  GoesOn
  <2>1. ASSUME run' = [run EXCEPT !.pc = AfterRegistry, !.element = TRUE] PROVE Moves(AfterRegistry)
    BY <2>1 DEF RunOK, RunRecord, Moves
  <2>2. \/ Postpone("registry", TRUE, AfterRegistry, queued) \/ Goto("regAdd")
        \/ run' = [run EXCEPT !.pc = AfterRegistry, !.element = TRUE]
    BY <1>5 DEF RegistryFind, RegistryAdd
  <2>3. UNCHANGED job /\ "regAdd" \in Far
    BY <1>5 DEF RegistryFind, RegistryAdd, Step, Filling, BeforeMark
  <2> QED
    BY <1>1, <1>2, <2>1, <2>2, <2>3, PostponeMoves
<1>6. ASSUME NEW queued \in BOOLEAN, Bind(r, queued) PROVE GoesOn
  <2>1. Postpone("binding", run.element, "alert", queued) \/ Goto("alert")
    BY <1>6 DEF Bind
  <2>2. UNCHANGED job /\ "alert" \in Far
    BY <1>6 DEF Bind, Step, Filling, AfterMark
  <2> QED
    BY <1>1, <2>1, <2>2, PostponeMoves
<1>7. ASSUME NEW queued \in BOOLEAN, FireTrigger(r, queued) PROVE GoesOn
  BY <1>1, <1>7 DEF FireTrigger, Step, Filling, AfterMark
<1>8. CASE PayRead(r) \/ Pay(r)
  <2>1. "pay" \in Far
    BY DEF Step, Filling, BeforeMark
  <2> QED
    BY <1>1, <1>2, <1>8, <2>1 DEF PayRead, Pay
<1>9. CASE LedgerFind(r) \/ LedgerAdd(r) \/ FactFind(r) \/ FactAdd(r)
  <2>1. {"ledAdd", "ledRow", "factAdd", "factRow"} \subseteq Far
    BY DEF Step, Filling, BeforeMark, AfterMark
  <2> QED
    BY <1>1, <1>9, <2>1 DEF LedgerFind, LedgerAdd, FactFind, FactAdd, EnsureFind, EnsureAdd
<1>10. CASE LedgerRow(r) \/ LedgerSum(r) \/ FactRow(r) \/ TriggerGate(r)
  <2>1. {"ledSum", "activity", "chat", "trigFire"} \subseteq Far
    BY DEF Step, Filling, BeforeMark, AfterMark
  <2> QED
    BY <1>1, <1>10, <2>1 DEF LedgerRow, LedgerSum, FactRow, TriggerGate
<1>11. CASE AddActivity(r)
  BY <1>1, <1>11 DEF AddActivity, Passes, Marking, Step, Filling, BeforeMark
<1>12. CASE MarkActivity(r)
  <2>1. \E pc \in {"bind", "verify", "undoOrphan", "undoMarked"} : Goto(pc)
    BY <1>12 DEF MarkActivity, Reply
  <2>2. {"bind", "verify", "undoOrphan", "undoMarked"} \subseteq Far /\ UNCHANGED job
    BY <1>12 DEF Step, Filling, AfterMark, Marking, MarkActivity
  <2> QED
    BY <1>1, <2>1, <2>2
<1>13. CASE VerifyMarker(r)
  BY <1>1, <1>13 DEF VerifyMarker, Step, Filling, AfterMark, Marking
<1>14. CASE UndoActivity(r)
  BY <1>14 DEF UndoActivity
<1>15. CASE Alert(r)
  BY <1>1, <1>2, <1>15 DEF Alert
<1>16. CASE Announce(r)
  BY <1>16 DEF Announce, Passes, Marking
<1> QED
  BY <1>3, <1>4, <1>5, <1>6, <1>7, <1>8, <1>9, <1>10, <1>11, <1>12, <1>13, <1>14,
     <1>15, <1>16 DEF Process

\* What is recorded stays so: the refinement shows it.
LEMMA RecordedStays ==
  ASSUME IInv, IInv', [Next]_vars, NEW o \in Op, Recorded(o) PROVE Recorded(o)'
<1>1. [Promise!Next]_Promise!vars
  BY StepMaps
<1>2. {p \in Op : Recorded(p)} \subseteq {p \in Op : Recorded(p)'}
  BY <1>1 DEF Promise!Next, Promise!vars, Promise!Pay, Promise!Enter, Promise!Record,
              Promise!Alert, Promise!Post
<1> QED
  BY <1>2

\* A step that ends no job well and keeps the place of the worker, or leaves it idle
\* or at the beginning of a job.
LEMMA DoneByStay ==
  ASSUME IInv, IInv', [Next]_vars, DoneInv,
         \A j \in Job : job'[j].state = "done" => job[j].state = "done",
         \/ run'.pc = "idle"
         \/ run'.idx = 1 /\ run'.pc \notin Filling
         \/ /\ run'.job = run.job /\ run'.idx = run.idx /\ run.pc # "idle"
            /\ run'.pc \in Filling => crm'[cur].marked > 0
  PROVE  DoneInv'
<1>1. ASSUME NEW j \in Job, NEW i \in 1 .. Len(Batch[j]) PROVE Batch[j][i] \in Op
  BY <1>1, JobAssumption
<1>2. ASSUME NEW j \in Job, NEW i \in 1 .. Len(Batch[j]),
             job'[j].state = "done", Batch[j][i] \in Owned
      PROVE  Recorded(Batch[j][i])'
  <2>1. Recorded(Batch[j][i])
    BY <1>2 DEF DoneInv
  <2> QED
    BY <1>1, <2>1, RecordedStays
<1>3. ASSUME run'.pc # "idle", NEW o \in Op, Past(o)', o \in Owned
      PROVE  Recorded(o)'
  <2>1. run'.idx # 1
    BY <1>3 DEF Past
  <2>2. run'.job = run.job /\ run'.idx = run.idx /\ run.pc # "idle"
    BY <1>3, <2>1
  <2>3. Past(o)
    BY <1>3, <2>2 DEF Past
  <2>4. Recorded(o)
    BY <1>3, <2>2, <2>3 DEF DoneInv
  <2> QED
    BY <2>4, RecordedStays
<1>4. ASSUME run'.pc \in Filling PROVE (crm[cur].marked > 0)'
  <2>1. run'.job = run.job /\ run'.idx = run.idx /\ crm'[cur].marked > 0
    BY <1>4 DEF Filling
  <2> QED
    BY <2>1 DEF cur
<1> QED
  BY <1>2, <1>3, <1>4 DEF DoneInv

\* The worker passes to the next operation, or ends the job with this one.
LEMMA DoneByPass ==
  ASSUME IInv, IInv', [Next]_vars, DoneInv, Passes, run.pc # "idle"
  PROVE  DoneInv'
<1>0. Parts /\ OnceInv /\ run.job \in Job /\ cur \in Op
  BY TypeParts, CurInOp DEF IInv, Parts
<1>1. run.idx \in 1 .. Len(Batch[run.job]) /\ Len(Batch[run.job]) \in Nat
  BY <1>0, JobAssumption DEF Parts, RunOK, InBatch
<1>2. PICK c \in Op : c = cur
  BY <1>0
<1>3. c \in Owned => Recorded(c)
  <2>1. run.pc \notin Marking /\ crm[cur] \in CrmRecord
    BY <1>0 DEF Passes, Parts, CrmOK
  <2>2. c \in Owned => crm[cur].marked > 0
    BY <1>0, <1>2, <2>1 DEF Passes, DoneInv, OnceInv, StepOnce, AfterMark, Filling
  <2> QED
    BY <1>2, <2>1, <2>2 DEF Recorded
<1>4. ASSUME NEW j \in Job, NEW i \in 1 .. Len(Batch[j]) PROVE Batch[j][i] \in Op
  BY <1>4, JobAssumption
<1>5. \A i \in 1 .. Len(Batch[run.job]) : \A o \in Op :
        i <= run.idx /\ o = Batch[run.job][i] /\ o \in Owned => Recorded(o)'
  <2> SUFFICES ASSUME NEW i \in 1 .. Len(Batch[run.job]), NEW o \in Op,
                      i <= run.idx, o = Batch[run.job][i], o \in Owned
               PROVE  Recorded(o)'
    OBVIOUS
  <2>1. CASE i = run.idx
    BY <1>2, <1>3, <2>1, RecordedStays DEF cur
  <2>2. CASE i # run.idx
    <3>1. i < run.idx
      BY <1>1, <2>2
    <3>2. Recorded(o)
      BY <3>1 DEF DoneInv, Past
    <3> QED
      BY <3>2, RecordedStays
  <2> QED
    BY <2>1, <2>2
<1>6. CASE run.idx < Len(Batch[run.job])
  <2>1. /\ run'.job = run.job /\ run'.idx = run.idx + 1 /\ run'.pc = "gate"
        /\ UNCHANGED job
    BY <1>0, <1>6 DEF Passes, NextOperation, Parts, RunOK, RunRecord
  <2>2. ASSUME NEW j \in Job, NEW i \in 1 .. Len(Batch[j]),
               job'[j].state = "done", Batch[j][i] \in Owned
        PROVE  Recorded(Batch[j][i])'
    BY <1>4, <2>1, <2>2, RecordedStays DEF DoneInv
  <2>3. ASSUME NEW o \in Op, Past(o)', o \in Owned PROVE Recorded(o)'
    <3>1. PICK i \in 1 .. Len(Batch[run.job]) : i < run.idx + 1 /\ Batch[run.job][i] = o
      BY <2>1, <2>3 DEF Past
    <3>2. i <= run.idx
      BY <1>1, <3>1
    <3> QED
      BY <1>5, <2>3, <3>1, <3>2
  <2>4. run'.pc \notin Filling
    BY <2>1 DEF Filling
  <2> QED
    BY <2>2, <2>3, <2>4 DEF DoneInv
<1>7. CASE ~(run.idx < Len(Batch[run.job]))
  <2>1. run' = Idle /\ job' = [job EXCEPT ![run.job].state = "done"]
    BY <1>7 DEF Passes, NextOperation, Finish
  <2>2. ASSUME NEW j \in Job, NEW i \in 1 .. Len(Batch[j]),
               job'[j].state = "done", Batch[j][i] \in Owned
        PROVE  Recorded(Batch[j][i])'
    <3>1. PICK o \in Op : o = Batch[j][i]
      BY <1>4, <2>2
    <3>2. CASE j = run.job
      <4>1. i <= run.idx
        BY <1>1, <1>7, <2>2, <3>2
      <4> QED
        BY <1>5, <2>2, <3>1, <3>2, <4>1
    <3>3. CASE j # run.job
      <4>1. job[j].state = "done"
        BY <1>0, <2>1, <2>2, <3>3 DEF Parts, JobOK
      <4> QED
        BY <2>2, <3>1, <4>1, RecordedStays DEF DoneInv
    <3> QED
      BY <3>2, <3>3
  <2> QED
    BY <2>1, <2>2 DEF DoneInv, Filling, Idle
<1> QED
  BY <1>6, <1>7

LEMMA StepDone == ASSUME IInv, IInv', [Next]_vars, DoneInv PROVE DoneInv'
<1>0. Parts /\ OnceInv
  BY TypeParts DEF IInv
<1>1. CASE UNCHANGED vars
  BY <1>1 DEF vars, DoneInv, Past, Recorded, cur
<1>2. ASSUME NEW r \in Reply, Process(r) PROVE DoneInv'
  <2>0. run.pc # "idle" /\ cur \in Op /\ run.job \in Job
    BY <1>0, <1>2, ProcessBusy, CurInOp DEF Parts
  <2>1. CASE GoesOn
    BY <2>0, <2>1, DoneByStay DEF GoesOn, Moves, DoneInv
  <2>2. CASE Throw
    <3>1. run'.pc = "idle"
      BY <1>0, <2>0, <2>2, ThrowOK DEF Parts
    <3>2. \A j \in Job : job'[j].state = "done" => job[j].state = "done"
      BY <1>0, <2>0, <2>2 DEF Throw, Rejected, Parts, JobOK, JobRecord
    <3> QED
      BY <3>1, <3>2, DoneByStay
  <2>3. CASE Passes
    BY <1>0, <2>0, <2>3, DoneByPass
  <2> QED
    BY <1>0, <1>2, <2>1, <2>2, <2>3, ProcessPaths
<1>3. ASSUME NEW o \in Op, LateStep(o) PROVE DoneInv'
  <2>1. /\ UNCHANGED <<run, job>> /\ AllKept
    BY <1>0, <1>3, ElsewhereKept
       DEF LateStep, Catchup, StartRegistryWrite, LateFind, LateAdd, LateLocate,
           LateLink, LateBind, LateFire
  <2>2. run.pc \in Filling => crm'[cur].marked > 0
    BY <1>0, <2>1, CurInOp DEF DoneInv, AllKept, Kept, Parts, Filling
  <2> QED
    BY <2>1, <2>2, DoneByStay
<1>4. ASSUME NEW j \in Job, Claim(j) \/ Redeliver(j) PROVE DoneInv'
  <2>1. CASE Claim(j)
    <3>1. run'.idx = 1 /\ run'.pc = "gate"
      BY <2>1 DEF Claim, Idle
    <3>2. \A k \in Job : job'[k].state = "done" => job[k].state = "done"
      BY <1>0, <2>1 DEF Claim, Parts, JobOK, JobRecord
    <3> QED
      BY <3>1, <3>2, DoneByStay DEF Filling
  <2>2. CASE Redeliver(j)
    <3>1. UNCHANGED <<run, crm>>
      BY <2>2 DEF Redeliver
    <3>2. \A k \in Job : job'[k].state = "done" => job[k].state = "done"
      BY <1>0, <2>2 DEF Redeliver, Fresh, Parts, JobOK, JobRecord
    <3> QED
      BY <3>1, <3>2, DoneByStay DEF DoneInv, Filling
  <2> QED
    BY <1>4, <2>1, <2>2
<1>5. CASE Crash
  <2>1. run'.pc = "idle"
    BY <1>5 DEF Crash, Idle
  <2>2. \A k \in Job : job'[k].state = "done" => job[k].state = "done"
    BY <1>0, <1>5 DEF Crash, Stalled, Parts, JobOK, JobRecord
  <2> QED
    BY <2>1, <2>2, DoneByStay
<1> QED
  BY <1>1, <1>2, <1>3, <1>4, <1>5 DEF Next, BatchStep

\* A job that ends well leaves none of its operations behind, however many
\* batches, retries, crashes and re-uploads there are.
THEOREM DoneIsRecorded == Spec => []DoneMeansRecorded
<1>1. Init => DoneInv
  BY DEF Init, DoneInv, Past, Fresh, Idle, Filling
<1>2. IInv /\ IInv' /\ DoneInv /\ [Next]_vars => DoneInv'
  BY StepDone
<1>3. DoneInv => DoneMeansRecorded
  BY DEF DoneInv, DoneMeansRecorded, Recorded
<1> QED
  BY <1>1, <1>2, <1>3, Inductive, PTL DEF Spec

(***************************************************************************)
(* The registry: what the marker closes has its element.                   *)
(***************************************************************************)
\* The element of an operation has its columns, or they are on their way.
Filled(o) == \E i \in 1 .. Len(crm[o].elements) : crm[o].elements[i] = "full"
Secured(o) == Filled(o) \/ Pursued(o)
Writing(o) == deferred["registry"][o].state
\* No registry-write job lets go of an operation before its columns are there,
\* and from the steps of the registry on the operation in hand is secured.
JobFills == \A o \in Op : Writing(o) \in {"locate", "link", "done"} => Filled(o)
Inside == BeforeMark \ {"regFind", "regAdd"}
RegistryInv ==
  /\ \A o \in Op : PaymentSp /\ crm[o].marked > 0 => Secured(o)
  /\ JobFills
  /\ PaymentSp /\ run.pc \in Inside => Secured(cur)

\* What every step does to the elements and to the writes that are under way.
ElementsKept == \A o \in Op : crm'[o].elements = crm[o].elements
FilledStays == \A o \in Op : Filled(o) => Filled(o)'
PursuitStays ==
  /\ dropped["registry"] \subseteq dropped'["registry"]
  /\ \A o \in Op : Writing(o) # "none" => Writing(o)' # "none"

LEMMA FillFirstFills ==
  ASSUME NEW es \in Seq(Column), es # <<>>
  PROVE  /\ Len(FillFirst(es)) = Len(es)
         /\ 1 \in 1 .. Len(es)
         /\ FillFirst(es)[1] = "full"
         /\ \A i \in 2 .. Len(es) : FillFirst(es)[i] = es[i]
<1>1. Len(es) \in Nat /\ 1 \in 1 .. Len(es)
  BY EmptySeq, LenProperties
<1>2. FillFirst(es) = [es EXCEPT ![1] = "full"] /\ "full" \in Column
  BY DEF FillFirst, Column
<1> QED
  BY <1>1, <1>2, ExceptSeq

LEMMA FillFilled == ASSUME CrmOK, NEW p \in Op, FillElement(p)
                    PROVE  FilledStays /\ (crm[p].elements # <<>> => Filled(p)')
<1>1. crm[p].elements \in Seq(Column)
  BY DEF CrmOK, CrmRecord
<1>2. crm'[p].elements = FillFirst(crm[p].elements)
      /\ \A o \in Op \ {p} : crm'[o].elements = crm[o].elements
  BY DEF FillElement, CrmOK, CrmRecord
<1>3. ASSUME crm[p].elements # <<>> PROVE Filled(p)'
  BY <1>1, <1>2, <1>3, FillFirstFills DEF Filled
<1>4. ASSUME NEW o \in Op, Filled(o) PROVE Filled(o)'
  <2>1. CASE o = p
    <3>1. crm[p].elements # <<>>
      BY <1>4, <2>1, EmptySeq DEF Filled
    <3> QED
      BY <1>3, <2>1, <3>1 DEF Filled
  <2>2. CASE o # p
    BY <1>2, <1>4, <2>2 DEF Filled
  <2> QED
    BY <2>1, <2>2
<1> QED
  BY <1>3, <1>4 DEF FilledStays

LEMMA AddFilled ==
  ASSUME CrmOK, NEW p \in Op, NEW column \in Column, AddElement(p, column)
  PROVE  FilledStays /\ (column = "full" => Filled(p)')
<1>1. crm[p].elements \in Seq(Column)
  BY DEF CrmOK, CrmRecord
<1>2. crm'[p].elements = Append(crm[p].elements, column)
      /\ \A o \in Op \ {p} : crm'[o].elements = crm[o].elements
  BY DEF AddElement, CrmOK, CrmRecord
<1>3. /\ Len(crm[p].elements) \in Nat
      /\ Len(crm'[p].elements) = Len(crm[p].elements) + 1
      /\ \A i \in 1 .. Len(crm[p].elements) : crm'[p].elements[i] = crm[p].elements[i]
      /\ crm'[p].elements[Len(crm[p].elements) + 1] = column
  BY <1>1, <1>2, AppendProperties, LenProperties
<1>4. ASSUME column = "full" PROVE Filled(p)'
  BY <1>3, <1>4 DEF Filled
<1>5. ASSUME NEW o \in Op, Filled(o) PROVE Filled(o)'
  BY <1>2, <1>3, <1>5 DEF Filled
<1> QED
  BY <1>4, <1>5 DEF FilledStays

LEMMA SameFilled == ASSUME ElementsKept PROVE FilledStays
  BY DEF ElementsKept, FilledStays, Filled

\* What a step of the handler does to the portal: the elements, the marker and the
\* trigger of every operation are left alone, but by the steps that are about them.
Beside(o) == /\ crm'[o].elements = crm[o].elements /\ crm'[o].marked = crm[o].marked
             /\ crm'[o].fired = crm[o].fired /\ crm'[o].unheard = crm[o].unheard
AllBeside == \A o \in Op : Beside(o)

LEMMA CountBeside ==
  ASSUME CrmOK, NEW p \in Op,
         \/ crm' = [crm EXCEPT ![p].paid = @ + 1]
         \/ crm' = [crm EXCEPT ![p].alerted = @ + 1]
         \/ crm' = [crm EXCEPT ![p].posted = @ + 1]
         \/ crm' = [crm EXCEPT ![p].orphans = @ + 1]
         \/ crm' = [crm EXCEPT ![p].orphans = @ - 1]
  PROVE  AllBeside
<1> DEFINE c == crm[p]
<1>1. c \in CrmRecord
  BY DEF CrmOK
<1> HIDE DEF c
<1>2. PICK n : \/ crm' = [crm EXCEPT ![p] = [c EXCEPT !.paid = n]]
               \/ crm' = [crm EXCEPT ![p] = [c EXCEPT !.alerted = n]]
               \/ crm' = [crm EXCEPT ![p] = [c EXCEPT !.posted = n]]
               \/ crm' = [crm EXCEPT ![p] = [c EXCEPT !.orphans = n]]
  BY DEF c
<1>3. \/ crm'[p] = [c EXCEPT !.paid = n] \/ crm'[p] = [c EXCEPT !.alerted = n]
      \/ crm'[p] = [c EXCEPT !.posted = n] \/ crm'[p] = [c EXCEPT !.orphans = n]
  BY <1>2 DEF CrmOK
<1>4. /\ crm'[p].elements = c.elements /\ crm'[p].marked = c.marked
      /\ crm'[p].fired = c.fired /\ crm'[p].unheard = c.unheard
  BY <1>1, <1>3 DEF CrmRecord
<1>5. \A o \in Op \ {p} : crm'[o] = crm[o]
  BY <1>2 DEF CrmOK
<1> QED
  BY <1>4, <1>5 DEF AllBeside, Beside, c

LEMMA FlagBeside ==
  ASSUME CrmOK, NEW p \in Op,
         \/ crm' = [crm EXCEPT ![p].linked = TRUE]
         \/ crm' = [crm EXCEPT ![p].row = TRUE]
         \/ crm' = [crm EXCEPT ![p].summed = TRUE]
         \/ crm' = [crm EXCEPT ![p].fact = TRUE]
  PROVE  AllBeside
<1>1. crm[p] \in CrmRecord
  BY DEF CrmOK
<1>2. \/ crm'[p] = [crm[p] EXCEPT !.linked = TRUE] \/ crm'[p] = [crm[p] EXCEPT !.row = TRUE]
      \/ crm'[p] = [crm[p] EXCEPT !.summed = TRUE] \/ crm'[p] = [crm[p] EXCEPT !.fact = TRUE]
  BY DEF CrmOK
<1>3. Beside(p)
  BY <1>1, <1>2 DEF CrmRecord, Beside
<1>4. \A o \in Op \ {p} : crm'[o] = crm[o]
  BY DEF CrmOK
<1> QED
  BY <1>3, <1>4 DEF AllBeside, Beside

LEMMA FiresBeside ==
  ASSUME CrmOK, NEW p \in Op, Fires(p)
  PROVE  /\ ElementsKept /\ crm'[p].marked = crm[p].marked
         /\ \A o \in Op \ {p} : Beside(o)
<1>1. crm[p] \in CrmRecord
  BY DEF CrmOK
<1>2. \/ crm'[p] = [crm[p] EXCEPT !.fired = crm[p].fired + 1]
      \/ crm'[p] = [crm[p] EXCEPT !.fired = crm[p].fired + 1, !.unheard = crm[p].unheard + 1]
  BY DEF CrmOK, Fires
<1>3. \A o \in Op \ {p} : crm'[o] = crm[o]
  BY DEF CrmOK, Fires
<1>4. crm'[p].marked = crm[p].marked /\ crm'[p].elements = crm[p].elements
  BY <1>1, <1>2 DEF CrmRecord
<1> QED
  BY <1>3, <1>4 DEF ElementsKept, Beside

\* What each answer says of how often the trigger has fired, and fired unheard.
LEMMA FiredCounts ==
  ASSUME CrmOK, NEW p \in Op, NEW r \in Reply, crm' = Fired(p, r)
  PROVE  /\ crm'[p].marked = crm[p].marked
         /\ \A o \in Op \ {p} : Beside(o)
         /\ crm'[p].fired = IF r = "refused" THEN crm[p].fired ELSE crm[p].fired + 1
         /\ crm'[p].unheard = IF r = "lost" THEN crm[p].unheard + 1 ELSE crm[p].unheard
<1>1. crm[p] \in CrmRecord
  BY DEF CrmOK
<1>2. /\ r = "ok" => crm'[p] = [crm[p] EXCEPT !.fired = crm[p].fired + 1]
      /\ r = "lost" => crm'[p] = [crm[p] EXCEPT !.fired = crm[p].fired + 1,
                                               !.unheard = crm[p].unheard + 1]
      /\ r = "refused" => crm'[p] = crm[p]
      /\ r \in {"ok", "lost", "refused"}
  BY FiredFires DEF CrmOK
<1>3. crm'[p].marked = crm[p].marked /\ \A o \in Op \ {p} : Beside(o)
  BY FiredFires, FiresBeside DEF Fires, Beside
<1>4. CASE r = "ok"
  BY <1>1, <1>2, <1>3, <1>4 DEF CrmRecord
<1>5. CASE r = "lost"
  BY <1>1, <1>2, <1>3, <1>5 DEF CrmRecord
<1>6. CASE r = "refused"
  BY <1>2, <1>3, <1>6
<1> QED
  BY <1>2, <1>4, <1>5, <1>6

LEMMA MarkBeside ==
  ASSUME CrmOK, NEW p \in Op,
         \/ crm' = [crm EXCEPT ![p].orphans = @ - 1, ![p].marked = @ + 1]
         \/ crm' = [crm EXCEPT ![p].marked = @ - 1, ![p].linked = FALSE]
  PROVE  /\ ElementsKept
         /\ \A o \in Op \ {p} : Beside(o)
         /\ crm'[p].fired = crm[p].fired /\ crm'[p].unheard = crm[p].unheard
         /\ crm'[p].marked \in {crm[p].marked + 1, crm[p].marked - 1}
<1>1. crm[p] \in CrmRecord
  BY DEF CrmOK
<1>2. \/ crm'[p] = [crm[p] EXCEPT !.orphans = crm[p].orphans - 1, !.marked = crm[p].marked + 1]
      \/ crm'[p] = [crm[p] EXCEPT !.marked = crm[p].marked - 1, !.linked = FALSE]
  BY DEF CrmOK
<1>3. \A o \in Op \ {p} : crm'[o] = crm[o]
  BY DEF CrmOK
<1>4. /\ crm'[p].elements = crm[p].elements
      /\ crm'[p].fired = crm[p].fired /\ crm'[p].unheard = crm[p].unheard
      /\ crm'[p].marked \in {crm[p].marked + 1, crm[p].marked - 1}
  BY <1>1, <1>2 DEF CrmRecord
<1> QED
  BY <1>3, <1>4 DEF ElementsKept, Beside

LEMMA ProcessPortal ==
  ASSUME Parts, NEW r \in Reply, Process(r)
  PROVE  \/ AllBeside \/ FillElement(cur)
         \/ \E column \in Column : AddElement(cur, column)
         \/ run.pc = "trigFire" /\ Fires(cur)
         \/ MarkActivity(r) \/ UndoActivity(r)
<1>1. cur \in Op /\ CrmOK
  BY ProcessBusy DEF Parts
<1>2. CASE UNCHANGED crm
  BY <1>2 DEF AllBeside, Beside
<1>3. CASE \/ Gate(r) \/ Backfill(r) \/ BackfillAdd(r)
           \/ LedgerFind(r) \/ LedgerAdd(r) \/ FactFind(r) \/ FactAdd(r)
           \/ \E queued \in BOOLEAN : RegistryFind(r, queued) \/ RegistryAdd(r, queued)
  BY <1>2, <1>3 DEF Gate, Backfill, BackfillAdd, LedgerFind, LedgerAdd, FactFind,
     FactAdd, EnsureFind, EnsureAdd, RegistryFind, RegistryAdd, Column
<1>4. CASE \/ PayRead(r) \/ LedgerRow(r) \/ LedgerSum(r) \/ FactRow(r) \/ TriggerGate(r)
           \/ \E queued \in BOOLEAN : Bind(r, queued)
  BY <1>1, <1>2, <1>4, FlagBeside
     DEF PayRead, LedgerRow, LedgerSum, FactRow, TriggerGate, Bind
<1>5. CASE Pay(r) \/ Alert(r) \/ Announce(r) \/ AddActivity(r) \/ VerifyMarker(r)
  BY <1>1, <1>2, <1>5, CountBeside DEF Pay, Alert, Announce, AddActivity, VerifyMarker
<1>6. ASSUME NEW queued \in BOOLEAN, FireTrigger(r, queued)
      PROVE  UNCHANGED crm \/ (run.pc = "trigFire" /\ Fires(cur))
  BY <1>1, <1>6, FiredFires DEF FireTrigger, Fires
<1> QED
  BY <1>2, <1>3, <1>4, <1>5, <1>6 DEF Process

LEMMA ProcessFilled ==
  ASSUME Parts, NEW r \in Reply, Process(r) PROVE FilledStays
<1>1. cur \in Op /\ CrmOK
  BY ProcessBusy DEF Parts
<1>2. ASSUME MarkActivity(r) \/ UndoActivity(r) PROVE ElementsKept
  <2>1. ASSUME UNCHANGED crm \/ crm' = [crm EXCEPT ![cur].orphans = @ - 1] PROVE ElementsKept
    BY <1>1, <2>1, CountBeside DEF AllBeside, Beside, ElementsKept
  <2> QED
    BY <1>1, <1>2, <2>1, MarkBeside DEF MarkActivity, UndoActivity
<1>3. AllBeside => ElementsKept
  BY DEF AllBeside, Beside, ElementsKept
<1> QED
  BY <1>1, <1>2, <1>3, SameFilled, FillFilled, AddFilled, FiresBeside, ProcessPortal

\* The batch worker queues writes and counts them, and takes none back.
Queues(k) ==
  /\ \A o \in Op : \/ deferred'[k][o] = deferred[k][o]
                   \/ deferred[k][o].state = "none" /\ deferred'[k][o].state = "queued"
  /\ dropped[k] \subseteq dropped'[k]

LEMMA EnqueueQueues ==
  ASSUME DeferredOK, NEW k \in Kind, NEW p \in Op, NEW e \in BOOLEAN, Enqueue(k, p, e)
  PROVE  /\ \A l \in Kind : \A o \in Op :
              \/ deferred'[l][o] = deferred[l][o]
              \/ deferred[l][o].state = "none" /\ deferred'[l][o].state = "queued"
         /\ deferred'[k][p].state # "none"
         /\ \A l \in Kind \ {k} : deferred'[l] = deferred[l]
<1>1. CASE Taken(k, p)
  BY <1>1 DEF Enqueue, Taken
<1>2. CASE ~Taken(k, p)
  BY <1>2 DEF Enqueue, Taken, DeferredOK, Absent
<1> QED
  BY <1>1, <1>2

LEMMA PostponeQueues ==
  ASSUME Parts, NEW k \in Kind, cur \in Op, NEW e \in BOOLEAN, NEW pc,
         NEW queued \in BOOLEAN, Postpone(k, e, pc, queued)
  PROVE  /\ \A l \in Kind : Queues(l)
         /\ cur \in dropped'[k] \/ deferred'[k][cur].state # "none"
         /\ \A l \in Kind \ {k} : deferred'[l] = deferred[l]
<1>1. dropped \in [Kind -> SUBSET Op] /\ DeferredOK
  BY DEF Parts, RestOK
<1>2. \/ Enqueue(k, cur, e) /\ UNCHANGED dropped
      \/ dropped' = [dropped EXCEPT ![k] = @ \cup {cur}] /\ UNCHANGED deferred
  BY DEF Postpone
<1>3. PICK p \in Op : p = cur
  OBVIOUS
<1>4. CASE Enqueue(k, cur, e) /\ UNCHANGED dropped
  BY <1>1, <1>3, <1>4, EnqueueQueues DEF Queues
<1>5. CASE dropped' = [dropped EXCEPT ![k] = @ \cup {cur}] /\ UNCHANGED deferred
  BY <1>1, <1>5 DEF Queues
<1> QED
  BY <1>2, <1>4, <1>5

LEMMA ProcessQueues ==
  ASSUME Parts, NEW r \in Reply, Process(r) PROVE \A k \in Kind : Queues(k)
<1>1. cur \in Op /\ run.element \in BOOLEAN
  BY ProcessBusy DEF Parts, RunOK, RunRecord
<1>2. CASE UNCHANGED <<deferred, dropped>>
  BY <1>2 DEF Queues
<1>3. ASSUME NEW k \in Kind, NEW e \in BOOLEAN, NEW pc \in Step \cup {AfterRegistry},
             NEW queued \in BOOLEAN, Postpone(k, e, pc, queued)
      PROVE  \A l \in Kind : Queues(l)
  BY <1>1, <1>3, PostponeQueues
<1>4. ASSUME NEW queued \in BOOLEAN, RegistryFind(r, queued) \/ RegistryAdd(r, queued)
      PROVE  \A l \in Kind : Queues(l)
  BY <1>2, <1>3, <1>4 DEF RegistryFind, RegistryAdd, Kind
<1>5. ASSUME NEW queued \in BOOLEAN, Bind(r, queued)
      PROVE  \A l \in Kind : Queues(l)
  BY <1>1, <1>2, <1>3, <1>5 DEF Bind, Kind, Step, AfterMark
<1>6. ASSUME NEW queued \in BOOLEAN, FireTrigger(r, queued)
      PROVE  \A l \in Kind : Queues(l)
  <2>1. dropped \in [Kind -> SUBSET Op] /\ DeferredOK
    BY DEF Parts, RestOK
  <2>2. \/ UNCHANGED <<deferred, dropped>>
        \/ Enqueue("trigger", cur, FALSE) /\ UNCHANGED dropped
        \/ dropped' = [dropped EXCEPT !["trigger"] = @ \cup {cur}] /\ UNCHANGED deferred
    BY <1>6 DEF FireTrigger
  <2>3. CASE Enqueue("trigger", cur, FALSE) /\ UNCHANGED dropped
    BY <1>1, <2>1, <2>3, EnqueueQueues DEF Queues, Kind
  <2>4. CASE dropped' = [dropped EXCEPT !["trigger"] = @ \cup {cur}] /\ UNCHANGED deferred
    BY <2>1, <2>4 DEF Queues
  <2> QED
    BY <1>2, <2>2, <2>3, <2>4
<1> QED
  BY <1>2, <1>4, <1>5, <1>6
     DEF Process, EnsureFind, EnsureAdd, Gate, Backfill, BackfillAdd,
         PayRead, Pay, LedgerFind, LedgerAdd, LedgerRow, LedgerSum, AddActivity,
         MarkActivity, VerifyMarker, UndoActivity, Alert, TriggerGate, FactFind,
         FactAdd, FactRow, Announce

\* A registry-write job leaves with the columns written, however it is interrupted.
LEMMA LateFills ==
  ASSUME Parts, JobFills, NEW p \in Op, LateStep(p)
  PROVE  FilledStays /\ PursuitStays /\ JobFills'
<1>0. CrmOK /\ DeferredOK /\ "registry" \in Kind /\ "full" \in Column
  BY DEF Parts, Kind, Column
<1>1. ASSUME NEW s \in Late, NEW o \in Op, SetLate("registry", o, s)
      PROVE  Writing(o)' = s /\ \A q \in Op \ {o} : Writing(q)' = Writing(q)
  BY <1>0, <1>1 DEF SetLate, DeferredOK, LateRecord, Writing
<1>2. ASSUME NEW n \in Nat, NEW o \in Op, Again("registry", o, n)
      PROVE  /\ Writing(o)' \in {"queued", "failed"}
             /\ \A q \in Op \ {o} : Writing(q)' = Writing(q)
  BY <1>0, <1>2 DEF Again, Rejected, DeferredOK, LateRecord, Writing
<1>3. ASSUME FilledStays, UNCHANGED dropped,
             \A q \in Op \ {p} : Writing(q)' = Writing(q),
             Writing(p)' # "none",
             Writing(p)' \in {"locate", "link", "done"} => Filled(p)'
      PROVE  FilledStays /\ PursuitStays /\ JobFills'
  <2>1. ASSUME NEW o \in Op, Writing(o)' \in {"locate", "link", "done"} PROVE Filled(o)'
    BY <1>3, <2>1 DEF JobFills, FilledStays
  <2> QED
    BY <1>3, <2>1 DEF PursuitStays, JobFills
<1>4. CASE StartRegistryWrite(p)
  <2>1. FilledStays /\ UNCHANGED dropped /\ "find" \in Late /\ SetLate("registry", p, "find")
    BY <1>4, SameFilled DEF StartRegistryWrite, ElementsKept, Late
  <2> QED
    BY <1>1, <1>3, <2>1
<1>5. ASSUME NEW r \in Reply, LateFind(p, r) PROVE FilledStays /\ PursuitStays /\ JobFills'
  <2>1. FilledStays /\ UNCHANGED dropped
    BY <1>0, <1>5, FillFilled, SameFilled DEF LateFind, ElementsKept
  <2>2. CASE r # "ok"
    BY <1>2, <1>3, <1>5, <2>1, <2>2, BoundAssumption DEF LateFind
  <2>3. CASE r = "ok" /\ crm[p].elements = <<>>
    BY <1>1, <1>3, <1>5, <2>1, <2>3 DEF LateFind, Late
  <2>4. CASE r = "ok" /\ crm[p].elements # <<>>
    <3>1. Filled(p)' /\ SetLate("registry", p, "locate") /\ "locate" \in Late
      BY <1>0, <1>5, <2>4, FillFilled DEF LateFind, Late
    <3> QED
      BY <1>1, <1>3, <2>1, <3>1
  <2> QED
    BY <2>2, <2>3, <2>4
<1>6. ASSUME NEW r \in Reply, LateAdd(p, r) PROVE FilledStays /\ PursuitStays /\ JobFills'
  <2>1. FilledStays /\ UNCHANGED dropped
    BY <1>0, <1>6, AddFilled, SameFilled DEF LateAdd, ElementsKept
  <2>2. CASE r # "ok"
    BY <1>2, <1>3, <1>6, <2>1, <2>2, BoundAssumption DEF LateAdd
  <2>3. CASE r = "ok"
    <3>1. Filled(p)' /\ SetLate("registry", p, "locate") /\ "locate" \in Late
      BY <1>0, <1>6, <2>3, AddFilled DEF LateAdd, Late, Landed
    <3> QED
      BY <1>1, <1>3, <2>1, <3>1
  <2> QED
    BY <2>2, <2>3
<1>7. ASSUME NEW r \in Reply, LateLocate(p, r) \/ LateLink(p, r)
      PROVE  FilledStays /\ PursuitStays /\ JobFills'
  <2>1. FilledStays /\ UNCHANGED dropped
    <3>1. UNCHANGED crm \/ crm' = [crm EXCEPT ![p].linked = TRUE]
      BY <1>7 DEF LateLocate, LateLink
    <3>2. ElementsKept
      BY <1>0, <3>1, FlagBeside DEF ElementsKept, AllBeside, Beside
    <3> QED
      BY <1>7, <3>2, SameFilled DEF LateLocate, LateLink
  <2>2. Filled(p)'
    BY <1>7, <2>1 DEF LateLocate, LateLink, JobFills, Writing, FilledStays
  <2>3. Again("registry", p, DeferredAttempts) \/ \E s \in {"link", "done"} : SetLate("registry", p, s)
    BY <1>7 DEF LateLocate, LateLink
  <2>4. {"link", "done"} \subseteq Late
    BY DEF Late
  <2>5. Writing(p)' # "none" /\ \A q \in Op \ {p} : Writing(q)' = Writing(q)
    BY <1>1, <1>2, <2>3, <2>4, BoundAssumption
  <2> QED
    BY <1>3, <2>1, <2>2, <2>5
<1>8. ASSUME NEW r \in Reply, LateBind(p, r) \/ LateFire(p, r)
      PROVE  FilledStays /\ PursuitStays /\ JobFills'
  <2>1. FilledStays /\ UNCHANGED dropped
    <3>1. UNCHANGED crm \/ Fires(p) \/ crm' = [crm EXCEPT ![p].linked = TRUE]
      BY <1>8, FiredFires DEF LateBind, LateFire, Fires
    <3>2. ElementsKept
      BY <1>0, <3>1, FlagBeside, FiresBeside DEF ElementsKept, AllBeside, Beside
    <3> QED
      BY <1>8, <3>2, SameFilled DEF LateBind, LateFire
  <2>2. \A o \in Op : Writing(o)' = Writing(o)
    BY <1>0, <1>8 DEF LateBind, LateFire, SetLate, Again, Writing, DeferredOK
  <2> QED
    BY <2>1, <2>2 DEF PursuitStays, JobFills, FilledStays
<1> QED
  BY <1>4, <1>5, <1>6, <1>7, <1>8 DEF LateStep, Catchup

\* No step of anybody lets go of a write.
LEMMA RegistryStays ==
  ASSUME Parts, JobFills, [Next]_vars PROVE FilledStays /\ PursuitStays /\ JobFills'
<1>1. CASE UNCHANGED vars
  BY <1>1 DEF vars, FilledStays, PursuitStays, JobFills, Filled, Writing
<1>2. ASSUME NEW r \in Reply, Process(r) PROVE FilledStays /\ PursuitStays /\ JobFills'
  <2>1. FilledStays /\ Queues("registry")
    BY <1>2, ProcessFilled, ProcessQueues DEF Kind
  <2> QED
    BY <2>1 DEF PursuitStays, Queues, JobFills, FilledStays, Writing
<1>3. ASSUME NEW o \in Op, LateStep(o) PROVE FilledStays /\ PursuitStays /\ JobFills'
  BY <1>3, LateFills
<1>4. ASSUME NEW j \in Job, Claim(j) \/ Redeliver(j)
      PROVE  FilledStays /\ PursuitStays /\ JobFills'
  BY <1>4 DEF Claim, Redeliver, FilledStays, PursuitStays, JobFills, Filled, Writing
<1>5. CASE Crash
  <2>1. UNCHANGED <<crm, dropped>> /\ DeferredOK
    BY <1>5 DEF Crash, Parts
  <2>2. \A o \in Op : \/ Writing(o)' = Writing(o)
                      \/ Writing(o)' \in {"queued", "failed"}
    <3> SUFFICES ASSUME NEW o \in Op
                 PROVE  Writing(o)' = Writing(o) \/ Writing(o)' \in {"queued", "failed"}
      OBVIOUS
    <3>1. deferred'["registry"][o] = IF InHand(o) THEN Stalled(deferred["registry"][o], "queued")
                                                  ELSE deferred["registry"][o]
      BY <1>5, <2>1 DEF Crash, DeferredOK, Kind
    <3>2. deferred["registry"][o] \in LateRecord
      BY <2>1 DEF DeferredOK, Kind
    <3>3. Stalled(deferred["registry"][o], "queued").state \in {"queued", "failed"}
      BY <3>2 DEF Stalled, LateRecord
    <3> QED
      BY <3>1, <3>3 DEF Writing
  <2> QED
    BY <2>1, <2>2 DEF FilledStays, PursuitStays, JobFills, Filled
<1> QED
  BY <1>1, <1>2, <1>3, <1>4, <1>5 DEF Next, BatchStep

LEMMA SecuredStays ==
  ASSUME FilledStays, PursuitStays, JobFills', NEW o \in Op, Secured(o)
  PROVE  Secured(o)'
<1>1. CASE Filled(o)
  BY <1>1 DEF FilledStays, Secured
<1>2. CASE o \in dropped["registry"]
  BY <1>2 DEF PursuitStays, Secured, Pursued
<1>3. CASE Writing(o) \notin {"none", "done"}
  BY <1>3 DEF PursuitStays, JobFills, Secured, Pursued, Writing
<1> QED
  BY <1>1, <1>2, <1>3 DEF Secured, Pursued, Writing

\* A write that fails in the run is secured by being postponed.
LEMMA PostponeSecures ==
  ASSUME Parts, JobFills', cur \in Op, NEW pc, NEW queued \in BOOLEAN,
         Postpone("registry", TRUE, pc, queued), NEW o \in Op, o = cur
  PROVE  Secured(o)'
<1>1. o \in dropped'["registry"] \/ deferred'["registry"][o].state # "none"
  BY PostponeQueues DEF Kind
<1> QED
  BY <1>1 DEF Secured, Pursued, JobFills, Writing

\* The worker comes to the steps behind the registry's from the registry's, with
\* the element written or the write postponed, or from one of themselves.
LEMMA ProcessInside ==
  ASSUME Parts, NEW r \in Reply, Process(r), PaymentSp, run'.pc \in Inside
  PROVE  /\ run'.job = run.job /\ run'.idx = run.idx
         /\ \/ run.pc \in Inside
            \/ \E queued \in BOOLEAN : RegistryFind(r, queued) \/ RegistryAdd(r, queued)
<1>0. run.pc # "idle" /\ RunOK /\ JobOK
  BY ProcessBusy DEF Parts
<1>1. ASSUME Throw \/ NextOperation PROVE FALSE
  <2>1. run'.pc \in {"idle", "gate"}
    BY <1>0, <1>1, ThrowOK, NextOperationOK
  <2> QED
    BY <2>1 DEF Inside, BeforeMark
<1>2. ASSUME NEW pc \in Step, Goto(pc)
      PROVE  run'.job = run.job /\ run'.idx = run.idx /\ run'.pc = pc
  BY <1>0, <1>2, GotoMoves DEF Moves
<1>3. CASE Gate(r)
  <2>1. Goto("backfill") \/ run' = [run EXCEPT !.pc = "regFind", !.gone = Gone(cur)]
    BY <1>1, <1>3 DEF Gate
  <2>2. run'.pc \notin Inside
    BY <1>0, <2>1 DEF Goto, Inside, BeforeMark, RunOK, RunRecord
  <2> QED
    BY <2>2
<1>4. CASE Backfill(r) \/ BackfillAdd(r) \/ Announce(r)
  <2>1. Goto("backfillAdd")
    BY <1>1, <1>4 DEF Backfill, BackfillAdd, Announce
  <2> QED
    BY <1>2, <2>1 DEF Inside, BeforeMark, Step
<1>5. ASSUME NEW queued \in BOOLEAN, RegistryFind(r, queued) \/ RegistryAdd(r, queued)
      PROVE  run'.job = run.job /\ run'.idx = run.idx
  <2>1. \/ Postpone("registry", TRUE, AfterRegistry, queued) \/ Goto("regAdd")
        \/ run' = [run EXCEPT !.pc = AfterRegistry, !.element = TRUE]
    BY <1>5 DEF RegistryFind, RegistryAdd
  <2> QED
    BY <1>0, <2>1, PostponeMoves, GotoMoves DEF Moves, RunOK, RunRecord
<1>6. ASSUME NEW queued \in BOOLEAN, Bind(r, queued) \/ FireTrigger(r, queued) PROVE FALSE
  <2>1. Postpone("binding", run.element, "alert", queued)
        \/ \E pc \in {"alert", "factFind", "chat"} : Goto(pc)
    BY <1>6 DEF Bind, FireTrigger
  <2>2. run'.pc \in {"alert", "factFind", "chat"}
    BY <1>0, <2>1, PostponeMoves, GotoMoves DEF Moves
  <2> QED
    BY <2>2 DEF Inside, BeforeMark
<1>7. CASE \/ VerifyMarker(r) \/ UndoActivity(r) \/ Alert(r) \/ TriggerGate(r)
           \/ FactFind(r) \/ FactAdd(r) \/ FactRow(r)
  <2>1. \E pc \in {"bind", "undoMarked", "chat", "trigFire", "trigGate", "factAdd", "factRow"} :
          Goto(pc)
    BY <1>1, <1>7 DEF VerifyMarker, UndoActivity, Alert, AfterAlert, TriggerGate, FactFind,
       FactAdd, FactRow, EnsureFind, EnsureAdd
  <2> QED
    BY <1>2, <2>1 DEF Inside, BeforeMark, Step, AfterMark, Marking
<1>8. CASE \/ PayRead(r) \/ Pay(r) \/ LedgerFind(r) \/ LedgerAdd(r) \/ LedgerRow(r)
           \/ LedgerSum(r) \/ AddActivity(r) \/ MarkActivity(r)
  <2>1. run.pc \in Inside
    BY <1>8 DEF PayRead, Pay, LedgerFind, LedgerAdd, LedgerRow, LedgerSum, AddActivity,
       MarkActivity, EnsureFind, EnsureAdd, Inside, BeforeMark
  <2>2. Throw \/ NextOperation \/ \E pc \in Step : Goto(pc)
    BY <1>8 DEF PayRead, Pay, LedgerFind, LedgerAdd, LedgerRow, LedgerSum, AddActivity,
       MarkActivity, EnsureFind, EnsureAdd, AfterPay, Step, BeforeMark, AfterMark, Marking, Reply
  <2> QED
    BY <1>1, <1>2, <2>1, <2>2
<1> QED
  BY <1>3, <1>4, <1>5, <1>6, <1>7, <1>8 DEF Process

\* The step of the registry that lets the worker on secures the operation.
LEMMA RegistrySecures ==
  ASSUME Parts, JobFills', NEW r \in Reply, NEW queued \in BOOLEAN,
         RegistryFind(r, queued) \/ RegistryAdd(r, queued), cur \in Op,
         run'.pc \in Inside, NEW o \in Op, o = cur
  PROVE  Secured(o)'
<1>1. CASE r # "ok"
  BY <1>1, PostponeSecures DEF RegistryFind, RegistryAdd
<1>2. CASE r = "ok" /\ RegistryFind(r, queued)
  <2>1. ~Goto("regAdd")
    BY GotoMoves DEF Moves, Inside, Parts
  <2>2. FillElement(o) /\ crm[o].elements # <<>>
    BY <1>2, <2>1 DEF RegistryFind
  <2> QED
    BY <2>2, FillFilled DEF Secured, Parts
<1>3. CASE r = "ok" /\ RegistryAdd(r, queued)
  <2>1. AddElement(o, "full") /\ "full" \in Column
    BY <1>3 DEF RegistryAdd, Landed, Column
  <2> QED
    BY <2>1, AddFilled DEF Secured, Parts
<1> QED
  BY <1>1, <1>2, <1>3

\* The one step that gives an operation its marker.
LEMMA MarkedBy ==
  ASSUME IInv, [Next]_vars, NEW o \in Op, crm'[o].marked > 0
  PROVE  crm[o].marked > 0 \/ (run.pc = "mark" /\ o = cur)
<1>0. Parts /\ CrmOK /\ crm[o] \in CrmRecord
  BY TypeParts DEF IInv, Parts, CrmOK
<1>1. CASE UNCHANGED vars
  BY <1>1 DEF vars
<1>2. ASSUME NEW r \in Reply, Process(r)
      PROVE  crm[o].marked > 0 \/ (run.pc = "mark" /\ o = cur)
  <2>1. cur \in Op
    BY <1>0, <1>2, ProcessBusy
  <2>2. CASE MarkActivity(r)
    BY <1>0, <2>1, <2>2, MarkBeside DEF MarkActivity, Beside
  <2>3. CASE UndoActivity(r)
    <3>1. ASSUME crm' = [crm EXCEPT ![cur].marked = @ - 1, ![cur].linked = FALSE]
          PROVE  crm[o].marked > 0
      BY <1>0, <2>1, <3>1 DEF CrmOK, CrmRecord
    <3>2. ASSUME UNCHANGED crm \/ crm' = [crm EXCEPT ![cur].orphans = @ - 1]
          PROVE  crm[o].marked > 0
      BY <1>0, <2>1, <3>2, CountBeside DEF AllBeside, Beside
    <3> QED
      BY <2>3, <3>1, <3>2 DEF UndoActivity
  <2>4. CASE FillElement(cur) \/ \E column \in Column : AddElement(cur, column)
    BY <1>0, <2>1, <2>4, FillElementKept, AddElementKept DEF AllKept, Kept
  <2>5. CASE AllBeside \/ Fires(cur)
    BY <1>0, <2>1, <2>5, FiresBeside DEF AllBeside, Beside
  <2> QED
    BY <1>0, <1>2, <2>2, <2>3, <2>4, <2>5, ProcessPortal
<1>3. ASSUME NEW p \in Op, LateStep(p) PROVE crm[o].marked > 0
  BY <1>0, <1>3, ElsewhereKept DEF AllKept, Kept
<1>4. ASSUME Crash \/ \E j \in Job : Claim(j) \/ Redeliver(j) PROVE crm[o].marked > 0
  BY <1>4 DEF Crash, Claim, Redeliver
<1> QED
  BY <1>1, <1>2, <1>3, <1>4 DEF Next, BatchStep

LEMMA StepRegistry == ASSUME IInv, [Next]_vars, RegistryInv PROVE RegistryInv'
<1>0. Parts /\ FilledStays /\ PursuitStays /\ JobFills'
  BY TypeParts, RegistryStays DEF IInv, RegistryInv
<1>1. ASSUME NEW o \in Op, PaymentSp, crm'[o].marked > 0 PROVE Secured(o)'
  <2>1. crm[o].marked > 0 \/ (run.pc = "mark" /\ o = cur)
    BY <1>1, MarkedBy
  <2>2. Secured(o)
    BY <1>1, <2>1 DEF RegistryInv, Inside, BeforeMark
  <2> QED
    BY <1>0, <2>2, SecuredStays
<1>2. ASSUME PaymentSp, run'.pc \in Inside, NEW o \in Op, run'.pc # "idle" => o = cur'
      PROVE  Secured(o)'
  <2>0. o = cur'
    BY <1>2 DEF Inside, BeforeMark
  <2>1. ASSUME run'.job = run.job, run'.idx = run.idx, run.pc \in Inside PROVE Secured(o)'
    <3>1. o = cur
      BY <2>0, <2>1 DEF cur
    <3>2. Secured(o)
      BY <1>2, <2>1, <3>1 DEF RegistryInv
    <3> QED
      BY <1>0, <3>2, SecuredStays
  <2>2. ASSUME NEW r \in Reply, Process(r) PROVE Secured(o)'
    <3>1. run'.job = run.job /\ run'.idx = run.idx
      BY <1>0, <1>2, <2>2, ProcessInside
    <3>2. o = cur /\ cur \in Op
      BY <1>0, <2>0, <2>2, <3>1, ProcessBusy DEF cur
    <3>3. CASE run.pc \in Inside
      BY <2>1, <3>1, <3>3
    <3>4. CASE \E queued \in BOOLEAN : RegistryFind(r, queued) \/ RegistryAdd(r, queued)
      BY <1>0, <1>2, <3>2, <3>4, RegistrySecures
    <3> QED
      BY <1>0, <1>2, <2>2, <3>3, <3>4, ProcessInside
  <2>3. CASE UNCHANGED vars
    BY <1>2, <2>1, <2>3 DEF vars
  <2>4. ASSUME NEW p \in Op, LateStep(p) PROVE Secured(o)'
    BY <1>0, <1>2, <2>1, <2>4, ElsewhereKept
  <2>5. CASE Crash \/ \E j \in Job : Claim(j)
    <3>1. run' = Idle \/ \E j \in Job : run' = [Idle EXCEPT !.job = j, !.idx = 1, !.pc = "gate"]
      BY <2>5 DEF Crash, Claim
    <3>2. ASSUME NEW j \in Job, run' = [Idle EXCEPT !.job = j, !.idx = 1, !.pc = "gate"]
          PROVE  run'.pc = "gate"
      BY <3>2 DEF Idle
    <3>3. run' = Idle => run'.pc = "idle"
      BY DEF Idle
    <3> QED
      BY <1>2, <3>1, <3>2, <3>3 DEF Inside, BeforeMark
  <2>6. ASSUME NEW j \in Job, Redeliver(j) PROVE Secured(o)'
    BY <1>2, <2>1, <2>6 DEF Redeliver
  <2> QED
    BY <2>2, <2>3, <2>4, <2>5, <2>6 DEF Next, BatchStep
<1>3. ASSUME PaymentSp, run'.pc \in Inside, IInv' PROVE Secured(cur)'
  <2>1. TypeOK' /\ run'.pc # "idle"
    BY <1>3 DEF IInv, Inside, BeforeMark
  <2>2. cur' \in Op
    BY <2>1, JobAssumption DEF TypeOK, InBatch, cur
  <2>3. PICK o \in Op : o = cur'
    BY <2>2
  <2>4. Secured(o)'
    BY <1>2, <1>3, <2>3
  <2> QED
    BY <2>3, <2>4 DEF Secured, Filled, Pursued
<1>4. IInv'
  BY NextIInv
<1> QED
  BY <1>0, <1>1, <1>3, <1>4 DEF RegistryInv

\* What the registry promises of a recorded operation holds, whoever writes its
\* element, in whatever order, and however often they are interrupted.
THEOREM RegistryIsKept == Spec => []RegistryNotLost
<1>1. Init => RegistryInv
  BY DEF Init, RegistryInv, JobFills, Writing, Inside, BeforeMark, Blank, Absent, Kind, Idle
<1>2. IInv /\ RegistryInv /\ [Next]_vars => RegistryInv'
  BY StepRegistry
<1>3. RegistryInv => RegistryNotLost
  BY DEF RegistryInv, RegistryNotLost, Secured, Filled
<1> QED
  BY <1>1, <1>2, <1>3, Inductive, PTL DEF Spec

(***************************************************************************)
(* The trigger fires once.                                                 *)
(***************************************************************************)
\* Nobody has fired the trigger of the operation or undertaken to.
Unfired(o) == crm[o].fired = 0 /\ ~Taken("trigger", o)
\* The run comes to the trigger of an operation once, and hands the retry queue
\* a firing only when its own has failed or its answer is lost.
Firing == {"bind", "alert", "trigGate", "trigFire"}
FireInv ==
  /\ FiredOnce
  /\ \A o \in Op : deferred["trigger"][o].state = "queued" => crm[o].fired <= crm[o].unheard
  /\ \A o \in Op : crm[o].marked = 0 => Unfired(o)
  /\ run.pc \in Marking \cup Firing => Unfired(cur)

\* The firing of one operation is left as it is.
FiringKept(o) == /\ crm'[o].fired = crm[o].fired /\ crm'[o].unheard = crm[o].unheard
                 /\ deferred'["trigger"][o] = deferred["trigger"][o]

\* The steps of the handler that are not about the trigger.
LEMMA ProcessFiring ==
  ASSUME Parts, NEW r \in Reply, Process(r),
         ~\E queued \in BOOLEAN : FireTrigger(r, queued)
  PROVE  \A o \in Op : FiringKept(o)
<1>1. cur \in Op /\ CrmOK /\ run.element \in BOOLEAN /\ DeferredOK
  BY ProcessBusy DEF Parts, RunOK, RunRecord
<1>2. \A o \in Op : crm'[o].fired = crm[o].fired /\ crm'[o].unheard = crm[o].unheard
  <2>1. CASE MarkActivity(r) \/ UndoActivity(r)
    <3>1. ASSUME UNCHANGED crm \/ crm' = [crm EXCEPT ![cur].orphans = @ - 1]
          PROVE  \A o \in Op : crm'[o].fired = crm[o].fired /\ crm'[o].unheard = crm[o].unheard
      BY <1>1, <3>1, CountBeside DEF AllBeside, Beside
    <3> QED
      BY <1>1, <2>1, <3>1, MarkBeside DEF MarkActivity, UndoActivity, Beside
  <2>2. CASE FillElement(cur) \/ \E column \in Column : AddElement(cur, column)
    <3>1. ASSUME NEW n, crm' = [crm EXCEPT ![cur].elements = n]
          PROVE  \A o \in Op : crm'[o].fired = crm[o].fired /\ crm'[o].unheard = crm[o].unheard
      BY <1>1, <3>1 DEF CrmOK, CrmRecord
    <3> QED
      BY <2>2, <3>1 DEF FillElement, AddElement
  <2>3. run.pc # "trigFire"
    BY DEF Process, EnsureFind, EnsureAdd, Gate, Backfill, BackfillAdd, RegistryFind,
       RegistryAdd, Bind, PayRead, Pay, LedgerFind, LedgerAdd, LedgerRow,
       LedgerSum, AddActivity, MarkActivity, VerifyMarker, UndoActivity, Alert, TriggerGate,
       FactFind, FactAdd, FactRow, Announce
  <2> QED
    BY <2>1, <2>2, <2>3, ProcessPortal DEF AllBeside, Beside
<1>3. \A o \in Op : deferred'["trigger"][o] = deferred["trigger"][o]
  <2>1. ASSUME NEW k \in {"registry", "binding"}, NEW e \in BOOLEAN, NEW pc,
               NEW queued \in BOOLEAN, Postpone(k, e, pc, queued)
        PROVE  deferred'["trigger"] = deferred["trigger"]
    BY <1>1, <2>1, PostponeQueues DEF Kind
  <2>2. CASE \E queued \in BOOLEAN : RegistryFind(r, queued) \/ RegistryAdd(r, queued)
    BY <2>1, <2>2 DEF RegistryFind, RegistryAdd
  <2>3. CASE \E queued \in BOOLEAN : Bind(r, queued)
    BY <1>1, <2>1, <2>3 DEF Bind
  <2> QED
    BY <2>2, <2>3
       DEF Process, EnsureFind, EnsureAdd, Gate, Backfill, BackfillAdd,
         PayRead, Pay, LedgerFind, LedgerAdd, LedgerRow, LedgerSum, AddActivity,
         MarkActivity, VerifyMarker, UndoActivity, Alert, TriggerGate, FactFind,
         FactAdd, FactRow, Announce
<1> QED
  BY <1>2, <1>3 DEF FiringKept

\* The worker comes to the trigger of an operation by giving it its marker.
LEMMA ProcessToFiring ==
  ASSUME Parts, NEW r \in Reply, Process(r), run'.pc \in Marking \cup Firing
  PROVE  /\ run'.job = run.job /\ run'.idx = run.idx
         /\ run.pc \in {"mark"} \cup Marking \cup Firing
<1>0. run.pc # "idle" /\ RunOK /\ JobOK
  BY ProcessBusy DEF Parts
<1>1. ASSUME Throw \/ NextOperation PROVE FALSE
  <2>1. run'.pc \in {"idle", "gate"}
    BY <1>0, <1>1, ThrowOK, NextOperationOK
  <2> QED
    BY <2>1 DEF Marking, Firing
<1>2. ASSUME NEW pc \in Step, Goto(pc)
      PROVE  run'.job = run.job /\ run'.idx = run.idx /\ run'.pc = pc
  BY <1>0, <1>2, GotoMoves DEF Moves
<1> DEFINE Before == {"backfill", "backfillAdd", "regFind", "regAdd", "payRead", "pay",
                      "ledFind", "ledAdd", "ledRow", "ledSum", "activity", "mark",
                      "factFind", "factAdd", "factRow", "chat"}
<1>3. ASSUME NEW pc \in Before, Goto(pc) \/ Moves(pc) PROVE FALSE
  <2>1. run'.pc = pc
    BY <1>0, <1>3, GotoMoves DEF Moves
  <2> QED
    BY <1>3, <2>1 DEF Marking, Firing
<1>4. AfterRegistry \in Before /\ AfterPay \in Before
  BY DEF AfterRegistry, AfterPay
<1>5. CASE Gate(r)
  <2>1. Goto("backfill") \/ \E pc \in {"regFind", AfterRegistry} :
                               run' = [run EXCEPT !.pc = pc, !.gone = Gone(cur)]
    BY <1>1, <1>5 DEF Gate
  <2>2. Goto("backfill") \/ \E pc \in {"regFind", AfterRegistry} : Moves(pc)
    BY <1>0, <2>1 DEF RunOK, RunRecord, Moves
  <2> QED
    BY <1>3, <1>4, <2>2
<1>6. ASSUME NEW queued \in BOOLEAN, RegistryFind(r, queued) \/ RegistryAdd(r, queued)
      PROVE  FALSE
  <2>1. \/ Postpone("registry", TRUE, AfterRegistry, queued) \/ Goto("regAdd")
        \/ run' = [run EXCEPT !.pc = AfterRegistry, !.element = TRUE]
    BY <1>6 DEF RegistryFind, RegistryAdd
  <2>2. Moves(AfterRegistry) \/ Moves("regAdd")
    BY <1>0, <2>1, PostponeMoves, GotoMoves DEF Moves, RunOK, RunRecord
  <2> QED
    BY <1>3, <1>4, <2>2
<1>7. CASE \/ Backfill(r) \/ BackfillAdd(r) \/ PayRead(r) \/ Pay(r) \/ LedgerRow(r)
           \/ LedgerSum(r) \/ AddActivity(r)
  BY <1>1, <1>3, <1>4, <1>7
     DEF Backfill, BackfillAdd, PayRead, Pay, LedgerRow, LedgerSum, AddActivity
<1>8. CASE \/ LedgerFind(r) \/ LedgerAdd(r) \/ FactFind(r) \/ FactAdd(r) \/ FactRow(r)
           \/ Announce(r)
  BY <1>1, <1>3, <1>8
     DEF LedgerFind, LedgerAdd, FactFind, FactAdd, FactRow, Announce, EnsureFind, EnsureAdd
<1>9. CASE \/ MarkActivity(r) \/ VerifyMarker(r) \/ UndoActivity(r) \/ Alert(r)
           \/ TriggerGate(r)
  <2>1. run.pc \in {"mark"} \cup Marking \cup Firing \/ UndoActivity(r)
    BY <1>9 DEF MarkActivity, VerifyMarker, Alert, TriggerGate, Marking, Firing
  <2>2. \E pc \in Step : Goto(pc)
    BY <1>1, <1>9 DEF MarkActivity, VerifyMarker, UndoActivity, Alert, AfterAlert, TriggerGate,
       Step, AfterMark, Marking, Reply
  <2> QED
    BY <1>1, <1>2, <2>1, <2>2 DEF UndoActivity
<1>10. ASSUME NEW queued \in BOOLEAN, Bind(r, queued) \/ FireTrigger(r, queued)
       PROVE  run'.job = run.job /\ run'.idx = run.idx /\ run.pc \in Firing
  <2>1. \/ Postpone("binding", run.element, "alert", queued)
        \/ \E pc \in {"alert", "factFind", "chat"} : Goto(pc)
    BY <1>10 DEF Bind, FireTrigger
  <2>2. run'.job = run.job /\ run'.idx = run.idx
    BY <1>0, <2>1, PostponeMoves, GotoMoves DEF Moves
  <2> QED
    BY <1>10, <2>2 DEF Bind, FireTrigger, Firing
<1> QED
  BY <1>5, <1>6, <1>7, <1>8, <1>9, <1>10 DEF Process

\* A step that fires nothing keeps the bounds; where the worker comes to a trigger,
\* it is one that nobody has fired.
LEMMA FireByRest ==
  ASSUME IInv, IInv', [Next]_vars, FireInv, \A o \in Op : FiringKept(o),
         run'.pc \in Marking \cup Firing =>
           /\ run'.job = run.job /\ run'.idx = run.idx
           /\ run.pc \in {"mark"} \cup Marking \cup Firing
  PROVE  FireInv'
<1>0. Parts
  BY TypeParts DEF IInv
<1>1. ASSUME NEW o \in Op
      PROVE  /\ crm'[o].fired \in Nat /\ crm[o].marked \in Nat /\ crm'[o].marked \in Nat
             /\ crm'[o].fired = crm[o].fired /\ crm'[o].unheard = crm[o].unheard
             /\ deferred'["trigger"][o] = deferred["trigger"][o]
  BY TypeParts DEF IInv, TypeOK, CrmRecord, FiringKept
<1>2. ASSUME NEW o \in Op, Unfired(o) PROVE Unfired(o)'
  BY <1>1, <1>2 DEF Unfired, Taken
<1>3. ASSUME NEW o \in Op, crm'[o].marked = 0 PROVE Unfired(o)'
  <2>1. crm[o].marked = 0 \/ (run.pc \in Marking /\ cur = o)
    <3>1. ~Recorded(o)'
      BY <1>3 DEF Recorded
    <3> QED
      BY <1>1, <3>1, RecordedStays DEF Recorded
  <2>2. Unfired(o)
    BY <2>1 DEF FireInv
  <2> QED
    BY <1>2, <2>2
<1>4. ASSUME run'.pc \in Marking \cup Firing PROVE Unfired(cur)'
  <2>1. run.pc # "idle" /\ cur' = cur
    BY <1>4 DEF Marking, Firing, cur
  <2>2. PICK o \in Op : o = cur
    BY <1>0, <2>1, CurInOp DEF Parts
  <2>3. Unfired(o)
    <3>1. CASE run.pc = "mark"
      BY <2>1, <2>2, <3>1 DEF IInv, OnceInv, StepOnce, BeforeMark, FireInv
    <3>2. CASE run.pc \in Marking \cup Firing
      BY <2>2, <3>2 DEF FireInv, Unfired, Taken
    <3> QED
      BY <1>4, <3>1, <3>2
  <2> QED
    BY <1>2, <2>1, <2>2, <2>3 DEF Unfired, Taken
<1>5. ASSUME NEW o \in Op
      PROVE  /\ crm'[o].fired <= 1 + crm'[o].unheard
             /\ deferred'["trigger"][o].state = "queued" => crm'[o].fired <= crm'[o].unheard
  BY <1>0, <1>1 DEF FireInv, FiredOnce
<1> QED
  BY <1>3, <1>4, <1>5 DEF FireInv, FiredOnce

\* The run fires the trigger of the operation in hand.
LEMMA FireByRun ==
  ASSUME IInv, IInv', [Next]_vars, FireInv, NEW r \in Reply, NEW queued \in BOOLEAN,
         FireTrigger(r, queued)
  PROVE  FireInv'
<1>0. Parts /\ CrmOK /\ DeferredOK /\ run.pc = "trigFire"
  BY TypeParts DEF IInv, Parts, FireTrigger
<1>1. PICK c \in Op : c = cur
  BY <1>0, CurInOp DEF Parts
<1>2. Unfired(c) /\ crm[c].marked = 1 /\ crm[c].unheard \in Nat
  BY <1>0, <1>1 DEF FireInv, Firing, Unfired, Taken, IInv, OnceInv, StepOnce, AfterMark,
     CrmOK, CrmRecord
<1>3. /\ \A o \in Op \ {c} : Beside(o)
      /\ crm'[c].marked = 1
      /\ crm'[c].fired = IF r = "refused" THEN 0 ELSE 1
      /\ crm'[c].unheard = IF r = "lost" THEN crm[c].unheard + 1 ELSE crm[c].unheard
  <2>1. crm' = Fired(c, r)
    BY <1>1 DEF FireTrigger
  <2> QED
    BY <1>0, <1>2, <2>1, FiredCounts DEF Unfired
<1>4. \A o \in Op \ {c} : deferred'["trigger"][o] = deferred["trigger"][o]
  BY <1>0, <1>1 DEF FireTrigger, Enqueue, DeferredOK, Kind
<1>5. r = "ok" => deferred'["trigger"][c].state = "none"
  BY <1>2 DEF FireTrigger, Unfired, Taken
<1>6. r \in {"ok", "lost", "refused"}
  BY DEF Reply
<1>7. run'.pc \notin Marking \cup Firing
  <2>1. \E pc \in {"factFind", "chat"} : Goto(pc)
    BY DEF FireTrigger
  <2>2. run'.pc \in {"factFind", "chat"}
    BY <1>0, <2>1, GotoMoves DEF Moves, Parts
  <2> QED
    BY <2>2 DEF Marking, Firing
<1>8. ASSUME NEW o \in Op, o # c
      PROVE  /\ crm'[o].fired <= 1 + crm'[o].unheard
             /\ deferred'["trigger"][o].state = "queued" => crm'[o].fired <= crm'[o].unheard
             /\ crm'[o].marked = 0 => Unfired(o)'
  BY <1>3, <1>4, <1>8 DEF FireInv, FiredOnce, Unfired, Taken, Beside
<1>9. /\ crm'[c].fired <= 1 + crm'[c].unheard
      /\ deferred'["trigger"][c].state = "queued" => crm'[c].fired <= crm'[c].unheard
      /\ crm'[c].marked # 0
  BY <1>2, <1>3, <1>5, <1>6
<1> QED
  BY <1>7, <1>8, <1>9 DEF FireInv, FiredOnce

\* The retry queue fires it.
LEMMA FireByRetry ==
  ASSUME IInv, IInv', [Next]_vars, FireInv, NEW p \in Op, NEW r \in Reply, LateFire(p, r)
  PROVE  FireInv'
<1>0. /\ Parts /\ CrmOK /\ DeferredOK /\ UNCHANGED run
      /\ deferred["trigger"][p].state = "queued"
      /\ crm[p].fired \in Nat /\ crm[p].unheard \in Nat
  BY TypeParts DEF IInv, Parts, LateFire, CrmOK, CrmRecord
<1>1. crm[p].marked # 0 /\ crm[p].fired <= crm[p].unheard
  BY <1>0 DEF FireInv, Unfired, Taken
<1>2. /\ \A o \in Op \ {p} : Beside(o)
      /\ crm'[p].marked = crm[p].marked
      /\ crm'[p].fired = IF r = "refused" THEN crm[p].fired ELSE crm[p].fired + 1
      /\ crm'[p].unheard = IF r = "lost" THEN crm[p].unheard + 1 ELSE crm[p].unheard
  BY <1>0, FiredCounts DEF LateFire
<1>3. /\ \A o \in Op \ {p} : deferred'["trigger"][o] = deferred["trigger"][o]
      /\ r = "ok" => deferred'["trigger"][p].state = "done"
  BY <1>0 DEF LateFire, SetLate, Again, DeferredOK, Kind, LateRecord
<1>4. r \in {"ok", "lost", "refused"}
  BY DEF Reply
<1>5. ASSUME NEW o \in Op, o # p
      PROVE  /\ crm'[o].fired <= 1 + crm'[o].unheard
             /\ deferred'["trigger"][o].state = "queued" => crm'[o].fired <= crm'[o].unheard
             /\ crm'[o].marked = 0 => Unfired(o)'
             /\ Unfired(o) => Unfired(o)'
  BY <1>2, <1>3, <1>5 DEF FireInv, FiredOnce, Unfired, Taken, Beside
<1>6. /\ crm'[p].fired <= 1 + crm'[p].unheard
      /\ deferred'["trigger"][p].state = "queued" => crm'[p].fired <= crm'[p].unheard
      /\ crm'[p].marked # 0
  BY <1>0, <1>1, <1>2, <1>3, <1>4
<1>7. ASSUME run'.pc \in Marking \cup Firing PROVE Unfired(cur)'
  <2>1. run.pc # "idle" /\ cur' = cur /\ Unfired(cur)
    BY <1>0, <1>7 DEF Marking, Firing, cur, FireInv
  <2>2. PICK o \in Op : o = cur
    BY <1>0, <2>1, CurInOp DEF Parts
  <2>3. Unfired(o) /\ o # p
    BY <1>0, <2>1, <2>2 DEF Unfired, Taken
  <2> QED
    BY <1>5, <2>1, <2>2, <2>3 DEF Unfired, Taken
<1> QED
  BY <1>5, <1>6, <1>7 DEF FireInv, FiredOnce

LEMMA StepFire == ASSUME IInv, IInv', [Next]_vars, FireInv PROVE FireInv'
<1>0. Parts /\ CrmOK /\ DeferredOK
  BY TypeParts DEF IInv, Parts
<1>1. ASSUME UNCHANGED <<crm, run>>,
             \A o \in Op : deferred'["trigger"][o] = deferred["trigger"][o]
      PROVE  FireInv'
  BY <1>1, FireByRest DEF FiringKept
<1>2. CASE UNCHANGED vars
  BY <1>1, <1>2 DEF vars
<1>3. ASSUME NEW r \in Reply, Process(r) PROVE FireInv'
  <2>1. CASE \E queued \in BOOLEAN : FireTrigger(r, queued)
    BY <2>1, FireByRun
  <2>2. CASE ~\E queued \in BOOLEAN : FireTrigger(r, queued)
    BY <1>0, <1>3, <2>2, ProcessFiring, ProcessToFiring, FireByRest
  <2> QED
    BY <2>1, <2>2
<1>4. ASSUME NEW j \in Job, Claim(j) \/ Redeliver(j) PROVE FireInv'
  <2>1. CASE Redeliver(j)
    BY <1>1, <2>1 DEF Redeliver
  <2>2. CASE Claim(j)
    <3>1. run'.pc = "gate"
      BY <2>2 DEF Claim, Idle
    <3>2. \A o \in Op : FiringKept(o)
      BY <2>2 DEF Claim, FiringKept
    <3> QED
      BY <3>1, <3>2, FireByRest DEF Marking, Firing
  <2> QED
    BY <1>4, <2>1, <2>2
<1>5. CASE Crash
  <2>1. run'.pc = "idle"
    BY <1>5 DEF Crash, Idle
  <2>2. \A o \in Op : FiringKept(o)
    BY <1>0, <1>5 DEF Crash, FiringKept, DeferredOK, Kind
  <2> QED
    BY <2>1, <2>2, FireByRest DEF Marking, Firing
<1>6. ASSUME NEW p \in Op, LateStep(p) PROVE FireInv'
  <2>1. CASE \E r \in Reply : LateFire(p, r)
    BY <2>1, FireByRetry
  <2>2. CASE ~\E r \in Reply : LateFire(p, r)
    <3>1. \A o \in Op : deferred'["trigger"][o] = deferred["trigger"][o]
      BY <1>0, <1>6, <2>2 DEF LateStep, Catchup, StartRegistryWrite, LateFind, LateAdd,
         LateLocate, LateLink, LateBind, SetLate, Again, DeferredOK, Kind
    <3>2. \/ UNCHANGED crm \/ FillElement(p) \/ AddElement(p, "full")
          \/ crm' = [crm EXCEPT ![p].linked = TRUE]
      BY <1>6, <2>2 DEF LateStep, Catchup, StartRegistryWrite, LateFind, LateAdd,
         LateLocate, LateLink, LateBind
    <3>3. \A o \in Op : crm'[o].fired = crm[o].fired /\ crm'[o].unheard = crm[o].unheard
      <4>1. CASE FillElement(p) \/ AddElement(p, "full")
        <5>1. ASSUME NEW n, crm' = [crm EXCEPT ![p].elements = n]
              PROVE  \A o \in Op : crm'[o].fired = crm[o].fired /\ crm'[o].unheard = crm[o].unheard
          BY <1>0, <5>1 DEF CrmOK, CrmRecord
        <5> QED
          BY <4>1, <5>1 DEF FillElement, AddElement
      <4> QED
        BY <1>0, <3>2, <4>1, FlagBeside DEF AllBeside, Beside
    <3>4. UNCHANGED run
      BY <1>0, <1>6, ElsewhereKept
    <3> QED
      BY <3>1, <3>3, <3>4, FireByRest DEF FiringKept
  <2> QED
    BY <2>1, <2>2
<1> QED
  BY <1>2, <1>3, <1>4, <1>5, <1>6 DEF Next, BatchStep

\* The trigger of an operation fires at most once beside its own firings whose answer
\* was lost, whatever the run, its retries and the retry queue do.
THEOREM FiresOnce == Spec => []FiredOnce
<1>1. Init => FireInv
  BY DEF Init, FireInv, Unfired, Taken, FiredOnce, Blank, Absent, Kind, Idle, Marking, Firing
<1>2. IInv /\ IInv' /\ FireInv /\ [Next]_vars => FireInv'
  BY StepFire
<1>3. FireInv => FiredOnce
  BY DEF FireInv
<1> QED
  BY <1>1, <1>2, <1>3, Inductive, PTL DEF Spec
=============================================================================
