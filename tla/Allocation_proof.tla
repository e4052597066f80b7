-------------------------- MODULE Allocation_proof --------------------------
(***************************************************************************)
(* Proofs about Allocation: types, no document is paid twice, the ledger   *)
(* tells the truth, an operation settles one document, a person hears.     *)
(***************************************************************************)
EXTENDS Allocation, FiniteSetTheorems, WellFoundedInduction, TLAPS

USE OpAssumption, TargetAssumption, NameAssumption, SettingAssumption,
    BoundAssumption

----------------------------------------------------------------------------
(***************************************************************************)
(* The decision returns one of the exact matches, or nothing.              *)
(***************************************************************************)
LEMMA Least ==
  ASSUME NEW S, S \subseteq Nat, S # {}
  PROVE  \E x \in S : \A y \in S : x <= y
<1> DEFINE R == OpToRel(<, Nat)
<1>1. IsWellFoundedOn(R, Nat)
  BY NatLessThanWellFounded
<1>2. \A i, j \in Nat : <<i, j>> \in R <=> i < j
  BY DEF OpToRel
<1> HIDE DEF R
<1>3. PICK x \in S : \A y \in S : ~(<<y, x>> \in R)
  BY <1>1, WFMin
<1>4. ASSUME NEW y \in S PROVE x <= y
  <2>1. x \in Nat /\ y \in Nat /\ ~(<<y, x>> \in R)
    BY <1>3
  <2>2. ~(y < x)
    BY <1>2, <2>1
  <2> QED
    BY <2>1, <2>2
<1> QED
  BY <1>4

LEMMA SmallestIsIn ==
  ASSUME NEW e, e \subseteq Target, e # {}
  PROVE  Smallest(e) \in e
<1> DEFINE S == {t.id : t \in e}
<1>1. S \subseteq Nat /\ S # {}
  OBVIOUS
<1>2. PICK x \in S : \A y \in S : x <= y
  BY <1>1, Least
<1>3. PICK t \in e : t.id = x
  BY <1>2
<1>4. \A u \in e : t.id <= u.id
  BY <1>2, <1>3
<1> QED
  BY <1>3, <1>4 DEF Smallest

LEMMA ChoiceIsEligible ==
  ASSUME NEW o \in Op, NEW found, found \subseteq Target
  PROVE  /\ Eligible(o, found) = {} => Choice(o, found) = NoTarget
         /\ Eligible(o, found) # {} => Choice(o, found) \in Eligible(o, found)
         /\ Choice(o, found) # NoTarget => Eligible(o, found) # {}
<1> DEFINE e == Eligible(o, found)
<1>1. e \subseteq Target
  BY DEF Eligible
<1>2. ASSUME e # {} PROVE Choice(o, found) \in e
  <2>1. Distinct(e) \subseteq e
    BY DEF Distinct
  <2>2. Distinct(e) # {}
    <3>1. PICK t \in e : TRUE
      BY <1>2
    <3>2. CASE t \in Distinct(e)
      BY <3>2
    <3>3. CASE t \notin Distinct(e)
      <4>1. PICK i \in e : i.kind = "invoice"
        BY <3>1, <3>3 DEF Distinct
      <4>2. i \in Distinct(e)
        BY <4>1 DEF Distinct
      <4> QED
        BY <4>2
    <3> QED
      BY <3>2, <3>3
  <2>3. Smallest(Distinct(e)) \in Distinct(e)
    BY <1>1, <2>1, <2>2, SmallestIsIn
  <2> QED
    BY <1>2, <2>1, <2>3 DEF Choice
<1>3. e = {} => Choice(o, found) = NoTarget
  BY DEF Choice
<1> QED
  BY <1>1, <1>2, <1>3

LEMMA NoticeTyped ==
  ASSUME NEW o \in Op, NEW found, NEW room
  PROVE  NoticeOf(o, found, room) \in SUBSET Notice
  BY DEF NoticeOf, Notice

----------------------------------------------------------------------------
(***************************************************************************)
(* Types.                                                                  *)
(***************************************************************************)
Job == [state : {"waiting", "active", "done", "failed"}, attempts : Nat, again : Nat]
Runs == [op : Op \cup {NoOp}, pc : Step, found : SUBSET Target,
         target : Target \cup {NoTarget}, notice : SUBSET Notice]

Busy == run.pc # "idle"

LEMMA IdleTyped == Idle \in Runs /\ Idle.pc = "idle" /\ Idle.op = NoOp
  BY DEF Idle, Runs, Step

LEMMA BusyOp ==
  ASSUME TypeOK, Busy
  PROVE  cur \in Op /\ run \in Runs /\ cur # NoOp
  BY DEF TypeOK, Busy, Runs, cur

LEMMA ThrowTyped ==
  ASSUME TypeOK, Busy, Throw
  PROVE  run' = Idle /\ queue' \in [Op -> Job]
<1>1. queue[cur] \in Job
  BY BusyOp DEF TypeOK, Job
<1>2. Rejected(queue[cur]) \in Job
  <2> DEFINE q == queue[cur]
             state == IF q.attempts + 1 < MaxAttempts THEN "waiting" ELSE "failed"
  <2>1. q.attempts + 1 \in Nat /\ state \in {"waiting", "active", "done", "failed"}
    BY <1>1 DEF Job
  <2>2. Rejected(q) = [q EXCEPT !.attempts = q.attempts + 1, !.state = state]
    BY <1>1 DEF Rejected, Job
  <2> HIDE DEF state
  <2> QED
    BY <1>1, <2>1, <2>2 DEF Job
<1> QED
  BY <1>2, BusyOp DEF Throw, TypeOK, Job

LEMMA ProceedTyped ==
  ASSUME TypeOK, Busy, NEW pc \in Step \ {"idle"}, NEW ok \in BOOLEAN, Proceed(pc, ok)
  PROVE  /\ queue' \in [Op -> Job]
         /\ run' \in Runs
         /\ \/ run' = Idle /\ ~ok
            \/ ok /\ run'.pc = pc /\ run'.op = run.op /\ run'.found = run.found
                /\ run'.target = run.target /\ run'.notice = run.notice
<1>1. CASE ok
  BY <1>1, BusyOp DEF Proceed, Goto, Runs, TypeOK, Job
<1>2. CASE ~ok
  BY <1>2, ThrowTyped, IdleTyped DEF Proceed
<1> QED
  BY <1>1, <1>2

LEMMA SpendTyped ==
  ASSUME TypeOK, NEW r, Spend(r)
  PROVE  faults' \in Nat
  BY DEF Spend, TypeOK

LEMMA TypeInit == Init => TypeOK
<1> SUFFICES ASSUME Init PROVE TypeOK
  OBVIOUS
<1>1. Fresh \in Job
  BY DEF Fresh, Job
<1> QED
  BY <1>1, IdleTyped DEF Init, TypeOK, Job, Runs, Stage

\* After a step of the worker: idle, or at the next place with its operation.
RunTyped ==
  /\ run \in Runs
  /\ (run.pc = "idle") = (run.op = NoOp)
  /\ run.pc \in {"check", "pay", "row"} => run.target \in Target

LEMMA TypeParts ==
  TypeOK <=>
    /\ setting \in Setting
    /\ crm \in [Target -> Stage]
    /\ queue \in [Op -> Job]
    /\ RunTyped
    /\ row \in [Op -> SUBSET Target] /\ paidFor \in [Op -> SUBSET Target]
    /\ told \in [Op -> SUBSET Notice]
    /\ seen \in [Op -> SUBSET Target]
    /\ marked \subseteq Op /\ blind \subseteq Op
    /\ silenced \subseteq Op /\ hushed \subseteq Op
    /\ twice \subseteq Target /\ opened \subseteq Target /\ closed \subseteq Target
    /\ faults \in Nat /\ edits \in Nat
  BY DEF TypeOK, Job, Runs, RunTyped

LEMMA LookedTyped ==
  ASSUME TypeOK, NEW o \in Op
  PROVE  Pool(o) \subseteq Names[o] /\ Looked(o) \subseteq Names[o] /\ Names[o] \subseteq Target
  BY DEF Pool, Payments, Looked, Invoices, Items

LEMMA ProcessTyped ==
  ASSUME TypeOK, NEW r \in Reply, Process(r)
  PROVE  /\ Busy
         /\ queue' \in [Op -> Job] /\ RunTyped' /\ faults' \in Nat
         /\ crm' \in [Target -> Stage]
         /\ row' \in [Op -> SUBSET Target] /\ paidFor' \in [Op -> SUBSET Target]
         /\ told' \in [Op -> SUBSET Notice]
         /\ seen' \in [Op -> SUBSET Target]
         /\ marked' \subseteq Op /\ blind' \subseteq Op
         /\ silenced' \subseteq Op /\ hushed' \subseteq Op
         /\ twice' \subseteq Target
         /\ UNCHANGED <<setting, opened, closed, edits>>
<1>1. Busy /\ UNCHANGED <<setting, opened, closed, edits>>
  BY DEF Process, Gate, FetchPool, LookUp, CheckApplied, Pay, WriteRow, Mark, Tell, Busy, Kept
<1>2. /\ cur \in Op /\ cur # NoOp /\ run \in Runs
      /\ run.pc \in {"check", "pay", "row"} => run.target \in Target
      /\ queue \in [Op -> Job]
      /\ crm \in [Target -> Stage]
      /\ row \in [Op -> SUBSET Target] /\ paidFor \in [Op -> SUBSET Target]
      /\ told \in [Op -> SUBSET Notice]
      /\ seen \in [Op -> SUBSET Target]
      /\ marked \subseteq Op /\ blind \subseteq Op
      /\ silenced \subseteq Op /\ hushed \subseteq Op
      /\ twice \subseteq Target
      /\ faults \in Nat
  BY <1>1, BusyOp, TypeParts DEF RunTyped
<1>3. AfterPay \in {"row", "mark"}
  BY DEF AfterPay
<1>4. RunTyped' <=> /\ run' \in Runs
                    /\ (run'.pc = "idle") = (run'.op = NoOp)
                    /\ run'.pc \in {"check", "pay", "row"} => run'.target \in Target
  BY DEF RunTyped
<1>5. run' = Idle => RunTyped'
  BY <1>4, IdleTyped
<1>6. ASSUME NEW pc \in Step \ {"idle"}, NEW ok \in BOOLEAN, Proceed(pc, ok),
             pc \in {"check", "pay", "row"} => run.target \in Target
      PROVE  queue' \in [Op -> Job] /\ RunTyped'
  <2>1. /\ queue' \in [Op -> Job] /\ run' \in Runs
        /\ \/ run' = Idle
           \/ run'.pc = pc /\ run'.op = run.op /\ run'.target = run.target
    BY <1>1, <1>6, ProceedTyped
  <2> QED
    BY <1>2, <1>4, <1>5, <1>6, <2>1 DEF cur
<1>7. Throw => queue' \in [Op -> Job] /\ RunTyped'
  BY <1>1, <1>5, ThrowTyped
<1>8. ASSUME queue' = [queue EXCEPT ![cur].state = "done"] PROVE queue' \in [Op -> Job]
  <2>1. queue[cur] \in Job
    BY <1>2
  <2>2. [queue[cur] EXCEPT !.state = "done"] \in Job
    BY <2>1 DEF Job
  <2> QED
    BY <1>2, <1>8, <2>2
<1>9. Spend(r) => faults' \in Nat
  BY SpendTyped
<1>10. \A b : (b = "ok") \in BOOLEAN
  OBVIOUS
<1>11. CASE Gate(r)
  <2>1. queue' \in [Op -> Job] /\ RunTyped'
    <3>1. CASE run' = Idle /\ queue' = [queue EXCEPT ![cur].state = "done"]
      BY <1>5, <1>8, <3>1
    <3>2. CASE Proceed("pool", r = "ok")
      BY <1>6, <3>2 DEF Step
    <3> QED
      BY <1>11, <3>1, <3>2 DEF Gate
  <2> QED
    BY <1>1, <1>2, <1>9, <1>11, <2>1 DEF Gate, Kept
<1>12. CASE FetchPool(r)
  <2>1. queue' \in [Op -> Job] /\ RunTyped'
    <3>1. CASE run' = [run EXCEPT !.pc = "look", !.found = Pool(cur)] /\ UNCHANGED queue
      <4>1. Pool(cur) \subseteq Target
        BY <1>2, LookedTyped
      <4>2. run' \in Runs /\ run'.pc = "look" /\ run'.op = run.op
        BY <1>2, <3>1, <4>1 DEF Runs, Step
      <4> QED
        BY <1>2, <1>4, <3>1, <4>2 DEF cur
    <3>2. CASE Throw
      BY <1>7, <3>2
    <3> QED
      BY <1>12, <3>1, <3>2 DEF FetchPool
  <2> QED
    BY <1>1, <1>2, <1>9, <1>12, <2>1 DEF FetchPool, Kept
<1>13. CASE LookUp(r)
  <2> DEFINE found == run.found \cup Looked(cur)
             t == Choice(cur, found)
  <2>1. found \subseteq Target
    BY <1>2, LookedTyped DEF Runs
  <2>2. t \in Target \cup {NoTarget} /\ \A room : NoticeOf(cur, found, room) \in SUBSET Notice
    BY <1>2, <2>1, ChoiceIsEligible, NoticeTyped DEF Eligible
  <2>3. AfterLook(t) \in {"mark", "check", "row"} /\ (t = NoTarget => AfterLook(t) = "mark")
    BY <1>3 DEF AfterLook
  <2>4. queue' \in [Op -> Job] /\ RunTyped' /\ blind' \subseteq Op /\ hushed' \subseteq Op
    <3>1. CASE r = "ok"
      <4>1. PICK room \in BOOLEAN :
              /\ run' = [run EXCEPT !.pc = AfterLook(t), !.found = found, !.target = t,
                                    !.notice = NoticeOf(cur, found, room)]
              /\ hushed' \in {hushed \cup {cur}, hushed \ {cur}}
              /\ blind' \in {blind, blind \cup {cur}} /\ UNCHANGED queue
        BY <1>13, <3>1 DEF LookUp
      <4>2. /\ run' \in Runs /\ run'.pc = AfterLook(t) /\ run'.op = run.op
            /\ run'.target = t
        BY <1>2, <2>1, <2>2, <2>3, <4>1 DEF Runs, Step
      <4> QED
        BY <1>2, <1>4, <2>2, <2>3, <4>1, <4>2 DEF cur
    <3>2. CASE r # "ok"
      BY <1>2, <1>7, <1>13, <3>2 DEF LookUp
    <3> QED
      BY <3>1, <3>2
  <2> QED
    BY <1>1, <1>2, <1>9, <1>13, <2>4 DEF LookUp
<1>14. CASE CheckApplied(r)
  <2>1. queue' \in [Op -> Job] /\ RunTyped'
    <3>1. PICK pc \in {"row", "mark", "pay"} : Proceed(pc, r = "ok")
      BY <1>3, <1>14 DEF CheckApplied
    <3> QED
      BY <1>2, <1>6, <1>14, <3>1 DEF CheckApplied, Step
  <2> QED
    BY <1>1, <1>2, <1>9, <1>14, <2>1 DEF CheckApplied, Kept
<1>15. CASE Pay(r)
  <2>0. run.target \in Target
    BY <1>2, <1>15 DEF Pay
  <2>1. CASE ~Movable(run.target)
    <3>1. Goto(AfterPay) /\ UNCHANGED <<queue, crm, paidFor, twice, seen, faults>>
      BY <1>15, <2>1 DEF Pay
    <3>2. run' \in Runs /\ run'.pc = AfterPay /\ run'.op = run.op /\ run'.target = run.target
      BY <1>2, <1>3, <3>1 DEF Goto, Runs, Step
    <3>3. RunTyped'
      BY <1>2, <1>3, <1>4, <2>0, <3>2 DEF cur
    <3> QED
      BY <1>1, <1>2, <1>15, <3>1, <3>3 DEF Pay, Kept
  <2>2. CASE Movable(run.target)
    <3>1. Spend(r) /\ Proceed(AfterPay, Confirmed(r))
      BY <1>15, <2>2 DEF Pay
    <3>2. queue' \in [Op -> Job] /\ RunTyped'
      BY <1>2, <1>3, <1>6, <2>0, <3>1 DEF Confirmed, Step
    <3>3. /\ crm' \in {crm, [crm EXCEPT ![run.target] = "paid"]}
          /\ paidFor' \in {paidFor, [paidFor EXCEPT ![cur] = @ \cup {run.target}]}
          /\ twice' \in {twice, twice \cup {run.target}}
          /\ seen' \in {seen, [seen EXCEPT ![cur] = run.found]}
      BY <1>15, <2>2 DEF Pay, Noted
    <3>4. /\ crm' \in [Target -> Stage] /\ paidFor' \in [Op -> SUBSET Target]
          /\ twice' \subseteq Target /\ seen' \in [Op -> SUBSET Target]
      <4>1. "paid" \in Stage /\ run.found \in SUBSET Target
        BY <1>2 DEF Stage, Runs
      <4>2. crm' \in [Target -> Stage]
        BY <1>2, <3>3, <4>1
      <4>3. paidFor' \in [Op -> SUBSET Target]
        BY <1>2, <2>0, <3>3
      <4>4. twice' \subseteq Target
        BY <1>2, <2>0, <3>3
      <4>5. seen' \in [Op -> SUBSET Target]
        BY <1>2, <3>3, <4>1
      <4> QED
        BY <4>2, <4>3, <4>4, <4>5
    <3> QED
      BY <1>1, <1>2, <1>9, <1>15, <3>1, <3>2, <3>4 DEF Pay, Kept
  <2> QED
    BY <2>1, <2>2
<1>16. CASE WriteRow(r)
  <2>0. run.target \in Target
    BY <1>2, <1>16 DEF WriteRow
  <2>1. queue' \in [Op -> Job] /\ RunTyped'
    BY <1>6, <1>16 DEF WriteRow, Step
  <2>2. /\ row' \in {row, [row EXCEPT ![cur] = @ \cup {run.target}]}
        /\ seen' \in {seen, [seen EXCEPT ![cur] = run.found]}
    BY <1>16 DEF WriteRow, Noted
  <2>3. row' \in [Op -> SUBSET Target]
    BY <1>2, <2>0, <2>2
  <2>4. seen' \in [Op -> SUBSET Target]
    BY <1>2, <2>2 DEF Runs
  <2> QED
    BY <1>1, <1>2, <1>9, <1>16, <2>1, <2>3, <2>4 DEF WriteRow, Kept
<1>17. CASE Mark(r)
  <2>1. queue' \in [Op -> Job] /\ RunTyped'
    BY <1>6, <1>17 DEF Mark, Step
  <2>2. marked' \subseteq Op /\ silenced' \subseteq Op
    BY <1>2, <1>17 DEF Mark
  <2> QED
    BY <1>1, <1>2, <1>9, <1>17, <2>1, <2>2 DEF Mark, Kept
<1>18. CASE Tell(r)
  <2>1. queue' \in [Op -> Job] /\ RunTyped'
    BY <1>5, <1>8, <1>18 DEF Tell
  <2>2. /\ told' \in {told, [told EXCEPT ![cur] = @ \cup run.notice]}
        /\ silenced' \in {silenced, silenced \cup {cur}}
    BY <1>18 DEF Tell
  <2>3. told' \in [Op -> SUBSET Notice] /\ silenced' \subseteq Op
    <3>1. run.notice \in SUBSET Notice
      BY <1>2 DEF Runs
    <3>2. told' \in [Op -> SUBSET Notice]
      BY <1>2, <2>2, <3>1
    <3> QED
      BY <1>2, <2>2, <3>2
  <2>4. faults' \in Nat
    BY <1>2, <1>9, <1>18 DEF Tell
  <2> QED
    BY <1>1, <1>2, <1>18, <2>1, <2>3, <2>4 DEF Tell, Kept
<1> QED
  BY <1>11, <1>12, <1>13, <1>14, <1>15, <1>16, <1>17, <1>18 DEF Process

LEMMA TypeStep == TypeOK /\ [Next]_vars => TypeOK'
<1> SUFFICES ASSUME TypeOK, [Next]_vars PROVE TypeOK'
  OBVIOUS
<1>0. TypeOK' <=>
    /\ setting' \in Setting
    /\ crm' \in [Target -> Stage]
    /\ queue' \in [Op -> Job]
    /\ RunTyped'
    /\ row' \in [Op -> SUBSET Target] /\ paidFor' \in [Op -> SUBSET Target]
    /\ told' \in [Op -> SUBSET Notice]
    /\ seen' \in [Op -> SUBSET Target]
    /\ marked' \subseteq Op /\ blind' \subseteq Op
    /\ silenced' \subseteq Op /\ hushed' \subseteq Op
    /\ twice' \subseteq Target /\ opened' \subseteq Target /\ closed' \subseteq Target
    /\ faults' \in Nat /\ edits' \in Nat
  BY DEF TypeOK, Job, Runs, RunTyped
<1>1. ASSUME NEW o \in Op, Claim(o) PROVE TypeOK'
  <2>1. queue' \in [Op -> Job]
    BY <1>1, TypeParts DEF Claim, Job
  <2>2. run' = [Idle EXCEPT !.op = o, !.pc = "gate"]
    BY <1>1 DEF Claim
  <2>3. RunTyped'
    BY <2>2, IdleTyped DEF RunTyped, Runs, Step
  <2> QED
    BY <1>0, <1>1, <2>1, <2>3, TypeParts DEF Claim, Kept
<1>2. ASSUME NEW o \in Op, Redeliver(o) PROVE TypeOK'
  <2>1. queue' \in [Op -> Job]
    BY <1>2, TypeParts DEF Redeliver, Job, Fresh
  <2>2. RunTyped'
    BY <1>2, TypeParts DEF Redeliver, RunTyped
  <2> QED
    BY <1>0, <1>2, <2>1, <2>2, TypeParts DEF Redeliver, Kept
<1>3. ASSUME NEW r \in Reply, Process(r) PROVE TypeOK'
  BY <1>0, <1>3, ProcessTyped, TypeParts
<1>4. CASE Die
  <2>1. cur \in Op
    BY <1>4, BusyOp DEF Die, Busy
  <2>2. queue' \in [Op -> Job]
    BY <1>4, <2>1, TypeParts DEF Die, Job
  <2>3. RunTyped'
    BY <1>4, IdleTyped DEF Die, RunTyped
  <2>4. silenced' \subseteq Op /\ faults' \in Nat
    BY <1>4, <2>1, TypeParts DEF Die
  <2> QED
    BY <1>0, <1>4, <2>2, <2>3, <2>4, TypeParts DEF Die, Kept
<1>5. ASSUME NEW t \in Target, NEW stage \in Stage, Edit(t, stage) PROVE TypeOK'
  <2>1. RunTyped'
    BY <1>5, TypeParts DEF Edit, RunTyped
  <2>2. /\ crm' \in [Target -> Stage] /\ edits' \in Nat
        /\ opened' \subseteq Target /\ closed' \subseteq Target
    BY <1>5, TypeParts DEF Edit
  <2> QED
    BY <1>0, <1>5, <2>1, <2>2, TypeParts DEF Edit
<1>6. CASE UNCHANGED vars
  <2>1. RunTyped'
    BY <1>6, TypeParts DEF vars, RunTyped
  <2> QED
    BY <1>0, <1>6, <2>1, TypeParts DEF vars
<1> QED
  BY <1>1, <1>2, <1>3, <1>4, <1>5, <1>6 DEF Next

----------------------------------------------------------------------------
(***************************************************************************)
(* PaidOnce and LedgerTells.  What was paid or booked is paid still, or an *)
(* employee has opened it; and what the worker has in its hand was no      *)
(* candidate when another operation had booked it.                         *)
(***************************************************************************)
Settled == \A o \in Op : \A t \in paidFor[o] : crm[t] = "paid" \/ t \in opened

Paying ==
  run.pc = "pay" /\ Movable(run.target) =>
    run.target \in opened \/ \A o \in Op : run.target \notin paidFor[o]

Booked ==
  \A o \in Op : \A t \in row[o] : Movable(t) => crm[t] = "paid" \/ t \in opened

Booking ==
  run.pc = "row" /\ Movable(run.target) =>
    crm[run.target] = "paid" \/ run.target \in opened

Sole(t, o) ==
  Movable(t) /\ Fades(t) /\ t \notin opened => \A p \in Op \ {o} : t \notin row[p]

Single == \A o \in Op : \A t \in row[o] : Sole(t, o)
Found == \A t \in run.found : Sole(t, run.op)
Targeted == run.pc \in {"check", "pay", "row"} => run.target \in run.found

SafeInv ==
  /\ twice \subseteq opened
  /\ Settled /\ Paying /\ Targeted
  /\ setting.auto => Booked /\ Booking /\ Single /\ Found

\* Between its steps the worker keeps what it has found.
Carried ==
  \/ run' = Idle
  \/ run'.op = run.op /\ run'.found = run.found /\ run'.target = run.target

LEMMA IdleFields == Idle.found = {} /\ Idle.pc = "idle" /\ Idle.op = NoOp
  BY DEF Idle

LEMMA SafeInit == Init => SafeInv
  BY IdleFields DEF Init, SafeInv, Settled, Paying, Booked, Booking, Single, Found, Targeted

\* A step that settles nothing and does not begin to pay or to book.
LEMMA SafeQuiet ==
  ASSUME SafeInv, Carried, UNCHANGED <<setting, crm, row, paidFor, twice, opened>>,
         run'.pc \notin {"check", "pay", "row"}
  PROVE  SafeInv'
<1>1. Paying' /\ Booking' /\ Targeted'
  BY DEF Paying, Booking, Targeted
<1>2. Settled' /\ (setting.auto => Booked' /\ Single')
  BY DEF SafeInv, Settled, Booked, Single, Movable, Fades, Sole
<1>3. setting.auto => Found'
  BY IdleFields DEF SafeInv, Carried, Found, Sole, Movable, Fades
<1> QED
  BY <1>1, <1>2, <1>3 DEF SafeInv

LEMMA SafeCheck ==
  ASSUME TypeOK, SafeInv, NEW r \in Reply, CheckApplied(r)
  PROVE  SafeInv'
<1>1. /\ UNCHANGED <<setting, crm, row, paidFor, twice, opened>>
      /\ run.pc = "check" /\ Busy
  BY DEF CheckApplied, Kept, Busy
<1>2. Proceed(IF Applied(run.target) THEN AfterPay ELSE "pay", r = "ok")
  BY DEF CheckApplied
<1>3. (IF Applied(run.target) THEN AfterPay ELSE "pay") \in Step \ {"idle"}
  BY DEF AfterPay, Step
<1>4. \/ run' = Idle
      \/ /\ run'.pc = IF Applied(run.target) THEN AfterPay ELSE "pay"
         /\ run'.op = run.op /\ run'.found = run.found /\ run'.target = run.target
  BY <1>1, <1>2, <1>3, ProceedTyped
<1>5. CASE run' = Idle
  BY <1>1, <1>5, IdleFields, SafeQuiet DEF Carried
<1>6. CASE /\ run'.pc = IF Applied(run.target) THEN AfterPay ELSE "pay"
           /\ run'.op = run.op /\ run'.found = run.found /\ run'.target = run.target
  <2>1. Targeted'
    BY <1>1, <1>6 DEF SafeInv, Targeted
  <2>2. Settled' /\ (setting.auto => Booked' /\ Single')
    BY <1>1 DEF SafeInv, Settled, Booked, Single, Movable, Fades, Sole
  <2>3. setting.auto => Found'
    BY <1>1, <1>6 DEF SafeInv, Found, Sole, Movable, Fades
  <2>4. Paying'
    BY <1>1, <1>6 DEF SafeInv, Settled, Paying, Applied, Movable, AfterPay
  <2>5. Booking'
    BY <1>1, <1>6 DEF Booking, Applied, Movable, AfterPay
  <2> QED
    BY <1>1, <2>1, <2>2, <2>3, <2>4, <2>5 DEF SafeInv
<1> QED
  BY <1>4, <1>5, <1>6

\* Whatever is no longer excluded has not been booked, or was opened again.
LEMMA CandidateIsSole ==
  ASSUME TypeOK, SafeInv, setting.auto, NEW t \in Target, ~Excluded(t), NEW o
  PROVE  Sole(t, o)
  BY DEF SafeInv, Booked, Sole, Excluded

LEMMA SafeFetch ==
  ASSUME TypeOK, SafeInv, NEW r \in Reply, FetchPool(r)
  PROVE  SafeInv'
<1>1. /\ UNCHANGED <<setting, crm, row, paidFor, twice, opened>>
      /\ run.pc = "pool" /\ Busy
  BY DEF FetchPool, Kept, Busy
<1>2. CASE Throw
  BY <1>1, <1>2, IdleFields, SafeQuiet DEF Throw, Carried
<1>3. CASE run' = [run EXCEPT !.pc = "look", !.found = Pool(cur)]
  <2>1. run'.pc = "look" /\ run'.found = Pool(cur) /\ run'.op = run.op
    BY <1>1, <1>3, BusyOp DEF Runs
  <2>2. Targeted' /\ Paying' /\ Booking'
    BY <2>1 DEF Targeted, Paying, Booking
  <2>3. Settled' /\ (setting.auto => Booked' /\ Single')
    BY <1>1 DEF SafeInv, Settled, Booked, Single, Movable, Fades, Sole
  <2>4. setting.auto => \A t \in Pool(cur) : Sole(t, run.op)
    BY CandidateIsSole DEF Pool, Payments
  <2>5. setting.auto => Found'
    BY <1>1, <2>1, <2>4 DEF Found, Sole, Movable, Fades
  <2> QED
    BY <1>1, <2>2, <2>3, <2>5 DEF SafeInv
<1> QED
  BY <1>2, <1>3 DEF FetchPool

LEMMA SafeLook ==
  ASSUME TypeOK, SafeInv, NEW r \in Reply, LookUp(r)
  PROVE  SafeInv'
<1>1. /\ UNCHANGED <<setting, crm, row, paidFor, twice, opened>>
      /\ run.pc = "look" /\ Busy
  BY DEF LookUp, Kept, Busy
<1>2. CASE r # "ok"
  BY <1>1, <1>2, IdleFields, SafeQuiet DEF LookUp, Throw, Carried
<1>3. CASE r = "ok"
  <2> DEFINE found == run.found \cup Looked(cur)
             t == Choice(cur, found)
  <2>0. cur \in Op /\ run \in Runs
    BY <1>1, BusyOp
  <2>1. PICK room \in BOOLEAN :
          run' = [run EXCEPT !.pc = AfterLook(t), !.found = found, !.target = t,
                             !.notice = NoticeOf(cur, found, room)]
    BY <1>3 DEF LookUp
  <2>2. run'.pc = AfterLook(t) /\ run'.found = found /\ run'.op = run.op /\ run'.target = t
    BY <2>0, <2>1 DEF Runs
  <2>3. found \subseteq Target
    BY <2>0, LookedTyped DEF Runs
  <2>4. t = NoTarget \/ t \in found
    BY <2>0, <2>3, ChoiceIsEligible DEF Eligible
  <2>5. Targeted'
    BY <2>2, <2>4 DEF Targeted, AfterLook
  <2>6. run'.pc # "pay" /\ (setting.auto => run'.pc # "row")
    BY <2>2 DEF AfterLook, AfterPay
  <2>7. Paying' /\ (setting.auto => Booking')
    BY <2>6 DEF Paying, Booking
  <2>8. Settled' /\ (setting.auto => Booked' /\ Single')
    BY <1>1 DEF SafeInv, Settled, Booked, Single, Movable, Fades, Sole
  <2>9. setting.auto => \A u \in Looked(cur) : Sole(u, run.op)
    BY <2>0, CandidateIsSole DEF Looked, Invoices, Items
  <2>10. setting.auto => \A u \in found : Sole(u, run.op)
    BY <2>9 DEF SafeInv, Found
  <2> HIDE DEF found
  <2>11. setting.auto => Found'
    BY <1>1, <2>2, <2>10 DEF Found, Sole, Movable, Fades
  <2> QED
    BY <1>1, <2>5, <2>7, <2>8, <2>11 DEF SafeInv
<1> QED
  BY <1>2, <1>3

LEMMA SafePay ==
  ASSUME TypeOK, SafeInv, NEW r \in Reply, Pay(r)
  PROVE  SafeInv'
<1>0. /\ UNCHANGED <<setting, row, opened>> /\ run.pc = "pay" /\ Busy
      /\ cur \in Op /\ run \in Runs
  BY BusyOp DEF Pay, Kept, Busy
<1>1. /\ run.target \in Target /\ run.target \in run.found
      /\ crm \in [Target -> Stage] /\ paidFor \in [Op -> SUBSET Target]
  BY <1>0 DEF TypeOK, SafeInv, Targeted
<1>2. AfterPay \in {"row", "mark"} /\ AfterPay \in Step \ {"idle"}
  BY DEF AfterPay, Step
<1>3. CASE ~Movable(run.target)
  <2>1. /\ UNCHANGED <<crm, paidFor, twice>>
        /\ run' = [run EXCEPT !.pc = AfterPay]
    BY <1>3 DEF Pay, Goto
  <2>2. /\ run'.pc \in {"row", "mark"} /\ run'.op = run.op
        /\ run'.found = run.found /\ run'.target = run.target
    BY <1>0, <1>2, <2>1 DEF Runs
  <2>3. Targeted' /\ Paying' /\ Booking'
    BY <1>0, <1>1, <1>3, <2>2 DEF Targeted, Paying, Booking, Movable
  <2>4. Settled' /\ (setting.auto => Booked' /\ Single' /\ Found')
    BY <1>0, <2>1, <2>2 DEF SafeInv, Settled, Booked, Single, Found, Movable, Fades, Sole
  <2> QED
    BY <1>0, <2>1, <2>3, <2>4 DEF SafeInv
<1>4. CASE Movable(run.target)
  <2>1. Proceed(AfterPay, r = "ok")
    BY <1>4 DEF Pay, Confirmed
  <2>2. \/ run' = Idle /\ r # "ok"
        \/ /\ r = "ok" /\ run'.pc \in {"row", "mark"} /\ run'.op = run.op
           /\ run'.found = run.found /\ run'.target = run.target
    BY <1>0, <1>2, <2>1, ProceedTyped
  <2>3. Targeted' /\ Paying'
    BY <1>1, <2>2, IdleFields DEF Targeted, Paying
  <2>4. setting.auto => Single' /\ Found'
    BY <1>0, <2>2, IdleFields DEF SafeInv, Single, Found, Movable, Fades, Sole
  <2>5. CASE r # "refused"
    <3>1. /\ crm' = [crm EXCEPT ![run.target] = "paid"]
          /\ paidFor' = [paidFor EXCEPT ![cur] = @ \cup {run.target}]
          /\ twice' = IF \E o \in Op : run.target \in paidFor[o]
                      THEN twice \cup {run.target} ELSE twice
      BY <1>4, <2>5 DEF Pay, Landed
    <3>2. crm'[run.target] = "paid" /\ \A t \in Target : crm[t] = "paid" => crm'[t] = "paid"
      BY <1>1, <3>1
    <3>3. twice' \subseteq opened'
      BY <1>0, <1>4, <3>1 DEF SafeInv, Paying
    <3>4. Settled'
      <4> SUFFICES ASSUME NEW o \in Op, NEW t \in paidFor'[o]
                   PROVE  crm'[t] = "paid" \/ t \in opened
        BY <1>0 DEF Settled
      <4>1. t \in paidFor[o] \/ t = run.target
        BY <1>0, <1>1, <3>1
      <4> QED
        BY <1>1, <3>2, <4>1 DEF SafeInv, Settled
    <3>5. setting.auto => Booked'
      BY <1>0, <3>2 DEF SafeInv, Booked, Movable, TypeOK
    <3>6. Booking'
      BY <2>2, <3>2, IdleFields DEF Booking
    <3> QED
      BY <1>0, <2>3, <2>4, <3>3, <3>4, <3>5, <3>6 DEF SafeInv
  <2>6. CASE r = "refused"
    <3>1. UNCHANGED <<crm, paidFor, twice>>
      BY <1>4, <2>6 DEF Pay, Landed
    <3> QED
      BY <1>0, <2>2, <2>6, <3>1, IdleFields, SafeQuiet DEF Carried
  <2> QED
    BY <2>5, <2>6
<1> QED
  BY <1>3, <1>4

LEMMA SafeRow ==
  ASSUME TypeOK, SafeInv, NEW r \in Reply, WriteRow(r)
  PROVE  SafeInv'
<1>0. /\ UNCHANGED <<setting, crm, paidFor, twice, opened>> /\ run.pc = "row" /\ Busy
      /\ cur \in Op /\ run \in Runs /\ row \in [Op -> SUBSET Target]
  BY BusyOp DEF WriteRow, Kept, Busy, TypeOK
<1>1. run.target \in run.found
  BY <1>0 DEF SafeInv, Targeted
<1>2. Proceed("mark", r = "ok") /\ "mark" \in Step \ {"idle"}
  BY DEF WriteRow, Step
<1>3. \/ run' = Idle
      \/ run'.pc = "mark" /\ run'.op = run.op /\ run'.found = run.found /\ run'.target = run.target
  BY <1>0, <1>2, ProceedTyped
<1>4. Targeted' /\ Paying' /\ Booking' /\ Settled'
  BY <1>0, <1>3, IdleFields DEF Targeted, Paying, Booking, SafeInv, Settled
<1>5. \A o \in Op, t \in Target :
        t \in row'[o] => t \in row[o] \/ (o = cur /\ t = run.target)
  BY <1>0 DEF WriteRow
<1>6. ASSUME setting.auto PROVE Booked'
  <2> SUFFICES ASSUME NEW o \in Op, NEW t \in row'[o], Movable(t)
               PROVE  crm[t] = "paid" \/ t \in opened
    BY <1>0 DEF Booked, Movable
  <2>1. t \in row[o] \/ t = run.target
    BY <1>0 DEF WriteRow
  <2> QED
    BY <1>0, <1>6, <2>1 DEF SafeInv, Booked, Booking
<1>7. ASSUME setting.auto, NEW t, NEW o \in Op, Sole(t, o), o = cur
      PROVE  Sole(t, o)'
  BY <1>0, <1>7 DEF WriteRow, Sole, Movable, Fades
<1>8. ASSUME setting.auto PROVE Found'
  BY <1>0, <1>3, <1>7, <1>8, IdleFields DEF SafeInv, Found, cur
<1>9. ASSUME setting.auto PROVE Single'
  <2> SUFFICES ASSUME NEW o \in Op, NEW t \in row'[o] PROVE Sole(t, o)'
    BY DEF Single
  <2>1. CASE o = cur
    <3>1. t \in row[o] \/ t = run.target
      BY <1>0 DEF WriteRow
    <3>2. Sole(t, o)
      BY <1>1, <1>9, <2>1, <3>1 DEF SafeInv, Single, Found, cur
    <3> QED
      BY <1>7, <1>9, <2>1, <3>2
  <2>2. CASE o # cur
    <3>1. t \in row[o]
      BY <1>0, <2>2 DEF WriteRow
    <3>2. SUFFICES ASSUME Movable(t), Fades(t), t \notin opened, NEW p \in Op \ {o}
                   PROVE  t \notin row'[p]
      BY <1>0 DEF Sole, Movable, Fades
    <3>3. t \notin row[p]
      BY <1>9, <3>1, <3>2 DEF SafeInv, Single, Sole
    <3>4. t # run.target
      BY <1>1, <1>9, <2>2, <3>1, <3>2 DEF SafeInv, Found, Sole, cur
    <3> QED
      BY <1>0, <3>3, <3>4 DEF WriteRow
  <2> QED
    BY <2>1, <2>2
<1> QED
  BY <1>0, <1>4, <1>6, <1>8, <1>9 DEF SafeInv

LEMMA SafeStep == TypeOK /\ SafeInv /\ [Next]_vars => SafeInv'
<1> SUFFICES ASSUME TypeOK, SafeInv, [Next]_vars PROVE SafeInv'
  OBVIOUS
<1>1. ASSUME NEW o \in Op, Claim(o) PROVE SafeInv'
  <2>1. /\ UNCHANGED <<setting, crm, row, paidFor, twice, opened>>
        /\ run'.pc = "gate" /\ run'.found = {}
    BY <1>1 DEF Claim, Kept, Idle
  <2>2. Paying' /\ Booking' /\ Targeted' /\ Found'
    BY <2>1 DEF Paying, Booking, Targeted, Found
  <2>3. Settled' /\ (setting.auto => Booked' /\ Single')
    BY <2>1 DEF SafeInv, Settled, Booked, Single, Movable, Fades, Sole
  <2> QED
    BY <2>1, <2>2, <2>3 DEF SafeInv
<1>2. ASSUME NEW r \in Reply, Gate(r) \/ Mark(r) \/ Tell(r) PROVE SafeInv'
  <2>1. /\ UNCHANGED <<setting, crm, row, paidFor, twice, opened>> /\ Busy
    BY <1>2 DEF Gate, Mark, Tell, Kept, Busy
  <2>2. \/ run' = Idle
        \/ Proceed("pool", r = "ok") \/ Proceed("tell", r = "ok")
    BY <1>2 DEF Gate, Mark, Tell
  <2>3. {"pool", "tell"} \subseteq Step \ {"idle"}
    BY DEF Step
  <2>4. Carried /\ run'.pc \in {"idle", "pool", "tell"}
    BY <2>1, <2>2, <2>3, ProceedTyped, IdleFields DEF Carried
  <2> QED
    BY <2>1, <2>4, SafeQuiet
<1>3. CASE Die
  BY <1>3, SafeQuiet, IdleFields DEF Die, Kept, Carried
<1>4. ASSUME NEW o \in Op, Redeliver(o) PROVE SafeInv'
  BY <1>4 DEF Redeliver, Kept, SafeInv, Settled, Paying, Booked, Booking, Single, Found,
              Targeted, Movable, Fades, Sole
<1>5. ASSUME NEW t \in Target, NEW stage \in Stage, Edit(t, stage) PROVE SafeInv'
  <2>1. /\ UNCHANGED <<setting, run, row, paidFor, twice>>
        /\ opened \subseteq opened'
    BY <1>5 DEF Edit
  <2>2. \A u \in Target : crm[u] = "paid" => crm'[u] = "paid" \/ u \in opened'
    BY <1>5 DEF Edit, TypeOK
  <2>3. Paying' /\ Targeted' /\ twice' \subseteq opened'
    BY <2>1 DEF SafeInv, Paying, Targeted, Movable
  <2>4. Settled'
    BY <2>1, <2>2 DEF SafeInv, Settled, TypeOK
  <2>5. setting.auto => Booked' /\ Single' /\ Found'
    <3>1. setting.auto => Booked'
      BY <2>1, <2>2 DEF SafeInv, Booked, Movable, TypeOK
    <3>2. setting.auto => Single' /\ Found'
      BY <2>1 DEF SafeInv, Single, Found, Sole, Movable, Fades
    <3> QED
      BY <3>1, <3>2
  <2>6. setting.auto => Booking'
    <3>1. run.pc = "row" => run.target \in Target
      BY DEF TypeOK
    <3> QED
      BY <2>1, <2>2, <3>1 DEF SafeInv, Booking, Movable
  <2> QED
    BY <2>1, <2>3, <2>4, <2>5, <2>6 DEF SafeInv
<1>6. CASE UNCHANGED vars
  BY <1>6 DEF vars, SafeInv, Settled, Paying, Booked, Booking, Single, Found,
              Targeted, Movable, Fades, Sole
<1> QED
  BY <1>1, <1>2, <1>3, <1>4, <1>5, <1>6, SafeCheck, SafeFetch, SafeLook, SafePay, SafeRow
     DEF Next, Process

----------------------------------------------------------------------------
\* Every variable keeps its type, whatever the calls answer and whatever the
\* employees do.
THEOREM TypeCorrect == Spec => []TypeOK
<1>1. Init => TypeOK
  BY TypeInit
<1>2. TypeOK /\ [Next]_vars => TypeOK'
  BY TypeStep
<1> QED
  BY <1>1, <1>2, PTL DEF Spec

LEMMA SafeAlways == Spec => [](TypeOK /\ SafeInv)
<1>1. Init => TypeOK /\ SafeInv
  BY TypeInit, SafeInit
<1>2. TypeOK /\ SafeInv /\ [Next]_vars => (TypeOK /\ SafeInv)'
  BY TypeStep, SafeStep
<1> QED
  BY <1>1, <1>2, PTL DEF Spec

\* For any operations, documents and matches: this stage pays a document a
\* second time only after an employee made it payable again; the read of
\* isTargetApplied before the write is what it rests on.
THEOREM PaysOnce == Spec => []PaidOnce
<1>1. TypeOK /\ SafeInv => PaidOnce
  BY DEF SafeInv, PaidOnce
<1> QED
  BY <1>1, SafeAlways, PTL

\* For any operations, documents and matches, with distribution on: a row of
\* the ledger stands for a document that was paid, and no second operation
\* books it unless an employee made it payable again.
THEOREM LedgerIsTrue == Spec => []LedgerTells
<1>1. TypeOK /\ SafeInv => LedgerTells
  BY DEF SafeInv, LedgerTells, Booked, Single, Sole
<1> QED
  BY <1>1, SafeAlways, PTL

----------------------------------------------------------------------------
(***************************************************************************)
(* OneTargetIfSeen.  Without an employee's help no candidate comes back:   *)
(* what an attempt finds now, the attempt that settled had found; so an    *)
(* attempt that sees all of it sees the same set and makes the same choice.*)
(***************************************************************************)
Cand(p) == {t \in Names[p] : ~Excluded(t)}

Remembered ==
  \A p \in Op : seen[p] # {} /\ ~Reopened(p) =>
    Cand(p) \subseteq seen[p] /\ run.found \cap Names[p] \subseteq seen[p]

Deciding == {"check", "pay", "row"}
InHand ==
  /\ Busy => run.found \subseteq Names[cur]
  /\ run.pc = "look" /\ ~Reopened(cur) => Pool(cur) \subseteq run.found
  /\ run.pc \in Deciding =>
       /\ run.target = Choice(cur, run.found)
       /\ ~Reopened(cur) => Cand(cur) \subseteq run.found
       /\ cur \in blind \/ seen[cur] \subseteq run.found

Chosen ==
  \A o \in Op :
    /\ Touched(o) # {} => seen[o] # {}
    /\ o \in blind \/ Reopened(o) \/ Touched(o) \subseteq {Choice(o, seen[o])}

OneInv == Remembered /\ InHand /\ Chosen

LEMMA CandIsLooked ==
  ASSUME NEW o \in Op
  PROVE  Cand(o) = Pool(o) \cup Looked(o)
<1>1. Names[o] \subseteq Target
  OBVIOUS
<1>2. \A t \in Names[o] : t.kind \in {"invoice", "deal-payment", "deal"}
  BY <1>1 DEF Kind, Amount
<1> HIDE NameAssumption, TargetAssumption
<1> QED
  BY <1>1, <1>2 DEF Cand, Pool, Payments, Looked, Invoices, Items

LEMMA OneInit == Init => OneInv
  BY IdleFields DEF Init, OneInv, Remembered, InHand, Chosen, Touched, Deciding, Busy

\* A step of the worker that neither finds nor settles anything.
LEMMA OneQuiet ==
  ASSUME OneInv, Carried, Busy, run'.pc # "look",
         UNCHANGED <<setting, crm, row, paidFor, seen, opened, blind>>,
         run'.pc \in Deciding => run.pc \in Deciding
  PROVE  OneInv'
<1>1. Remembered'
  <2> SUFFICES ASSUME NEW p \in Op, seen[p] # {}, ~Reopened(p)
               PROVE  Cand(p)' \subseteq seen[p] /\ run'.found \cap Names[p] \subseteq seen[p]
    BY DEF Remembered, Reopened
  <2>1. Cand(p)' = Cand(p)
    BY DEF Cand, Excluded, Lost, LostDeal, Fades
  <2> QED
    BY <2>1, IdleFields DEF OneInv, Remembered, Carried
<1>2. InHand'
  <2>1. CASE run' = Idle
    BY <2>1, IdleFields DEF InHand, Busy, Deciding
  <2>2. CASE run'.op = run.op /\ run'.found = run.found /\ run'.target = run.target
    <3>1. Cand(cur)' = Cand(cur) /\ cur' = cur /\ (Reopened(cur)' <=> Reopened(cur))
      BY <2>2 DEF Cand, Excluded, Lost, LostDeal, Fades, cur, Reopened
    <3> QED
      BY <2>2, <3>1 DEF OneInv, InHand, Busy, cur
  <2> QED
    BY <2>1, <2>2 DEF Carried
<1>3. Chosen'
  BY DEF OneInv, Chosen, Touched, Reopened
<1> QED
  BY <1>1, <1>2, <1>3 DEF OneInv

LEMMA OneFetch ==
  ASSUME TypeOK, OneInv, NEW r \in Reply, FetchPool(r)
  PROVE  OneInv'
<1>1. /\ UNCHANGED <<setting, crm, row, paidFor, seen, opened, blind>>
      /\ run.pc = "pool" /\ Busy
  BY DEF FetchPool, Kept, Busy
<1>2. CASE Throw
  BY <1>1, <1>2, IdleFields, OneQuiet DEF Throw, Carried, Deciding
<1>3. CASE run' = [run EXCEPT !.pc = "look", !.found = Pool(cur)]
  <2>1. /\ run'.pc = "look" /\ run'.found = Pool(cur) /\ run'.op = run.op
        /\ cur \in Op /\ cur' = cur
    BY <1>1, <1>3, BusyOp DEF Runs, cur
  <2>2. \A p \in Op : Cand(p)' = Cand(p) /\ Pool(p)' = Pool(p)
    BY <1>1 DEF Cand, Pool, Payments, Excluded, Lost, LostDeal, Fades
  <2>3. Remembered'
    <3> SUFFICES ASSUME NEW p \in Op, seen[p] # {}, ~Reopened(p)
                 PROVE  Cand(p)' \subseteq seen[p] /\ run'.found \cap Names[p] \subseteq seen[p]
      BY <1>1 DEF Remembered, Reopened
    <3>1. Pool(cur) \cap Names[p] \subseteq Cand(p)
      BY DEF Pool, Payments, Cand
    <3> QED
      BY <2>1, <2>2, <3>1 DEF OneInv, Remembered
  <2>4. InHand'
    <3>1. Pool(cur) \subseteq Names[cur]
      BY <2>1, LookedTyped
    <3> QED
      BY <2>1, <2>2, <3>1 DEF InHand, Deciding
  <2>5. Chosen'
    BY <1>1 DEF OneInv, Chosen, Touched, Reopened
  <2> QED
    BY <2>3, <2>4, <2>5 DEF OneInv
<1> QED
  BY <1>2, <1>3 DEF FetchPool

LEMMA OneLook ==
  ASSUME TypeOK, OneInv, NEW r \in Reply, LookUp(r)
  PROVE  OneInv'
<1>1. /\ UNCHANGED <<setting, crm, row, paidFor, seen, opened>>
      /\ run.pc = "look" /\ Busy
  BY DEF LookUp, Kept, Busy
<1>2. CASE r # "ok"
  BY <1>1, <1>2, IdleFields, OneQuiet DEF LookUp, Throw, Carried, Deciding
<1>3. CASE r = "ok"
  <2> DEFINE found == run.found \cup Looked(cur)
             t == Choice(cur, found)
  <2>0. cur \in Op /\ run \in Runs
    BY <1>1, BusyOp
  <2>1. PICK room \in BOOLEAN :
        /\ run' = [run EXCEPT !.pc = AfterLook(t), !.found = found, !.target = t,
                              !.notice = NoticeOf(cur, found, room)]
        /\ blind' = IF seen[cur] \subseteq found THEN blind ELSE blind \cup {cur}
    BY <1>3 DEF LookUp
  <2>2. /\ run'.pc = AfterLook(t) /\ run'.found = found /\ run'.op = run.op /\ run'.target = t
        /\ cur' = cur /\ run'.pc # "look"
    BY <2>0, <2>1 DEF Runs, cur, AfterLook, AfterPay
  <2>3. \A p \in Op : Cand(p)' = Cand(p)
    BY <1>1 DEF Cand, Excluded, Lost, LostDeal, Fades
  <2>4. found \subseteq Names[cur] /\ (~Reopened(cur) => Cand(cur) \subseteq found)
    BY <1>1, <2>0, CandIsLooked, LookedTyped DEF OneInv, InHand
  <2>5. Remembered'
    <3> SUFFICES ASSUME NEW p \in Op, seen[p] # {}, ~Reopened(p)
                 PROVE  Cand(p)' \subseteq seen[p] /\ run'.found \cap Names[p] \subseteq seen[p]
      BY <1>1 DEF Remembered, Reopened
    <3>1. Looked(cur) \cap Names[p] \subseteq Cand(p)
      BY DEF Looked, Invoices, Items, Cand
    <3> QED
      BY <2>2, <2>3, <3>1 DEF OneInv, Remembered
  <2>6. cur \in blind' \/ seen[cur] \subseteq found
    BY <2>1
  <2> HIDE DEF found, t
  <2>7. InHand'
    <3>1. Reopened(cur)' <=> Reopened(cur)
      BY <1>1, <2>2 DEF Reopened
    <3> QED
      BY <1>1, <2>0, <2>2, <2>3, <2>4, <2>6, <3>1 DEF InHand, t
  <2>8. blind \subseteq blind'
    BY <2>1
  <2>9. Chosen'
    BY <1>1, <2>8 DEF OneInv, Chosen, Touched, Reopened
  <2> QED
    BY <2>5, <2>7, <2>9 DEF OneInv
<1> QED
  BY <1>2, <1>3

\* Paying and booking add the target, and only the target.
LEMMA OneSettle ==
  ASSUME TypeOK, OneInv, SafeInv, run.pc \in {"pay", "row"}, cur \in Op,
         UNCHANGED <<setting, opened, blind>>, seen' = Noted,
         \A o \in Op : Touched(o)' \subseteq
           Touched(o) \cup IF o = cur THEN {run.target} ELSE {},
         \A u \in Target : Excluded(u) => Excluded(u)' \/ u = run.target,
         Carried, run'.pc \in {"idle", "row", "mark"}
  PROVE  OneInv'
<1>1. /\ Busy /\ run.pc \in Deciding /\ run.target \in run.found
      /\ run.found \subseteq Names[cur] /\ run.target = Choice(cur, run.found)
      /\ seen \in [Op -> SUBSET Target]
  BY DEF OneInv, InHand, SafeInv, Targeted, Busy, Deciding, TypeOK
<1>2. \A o \in Op : seen'[o] = IF o = cur /\ seen[o] = {} THEN run.found ELSE seen[o]
  BY <1>1 DEF Noted
<1>3. \A p \in Op : Cand(p)' \subseteq Cand(p) \cup ({run.target} \cap Names[p])
  BY DEF Cand
<1>4. \A o : Reopened(o)' <=> Reopened(o)
  BY DEF Reopened
<1>5. run'.found \subseteq run.found
  BY IdleFields DEF Carried
<1>6. Remembered'
  <2> SUFFICES ASSUME NEW p \in Op, seen'[p] # {}, ~Reopened(p)
               PROVE  Cand(p)' \subseteq seen'[p] /\ run'.found \cap Names[p] \subseteq seen'[p]
    BY <1>4 DEF Remembered
  <2>1. CASE p = cur /\ seen[p] = {}
    <3>1. Cand(p) \subseteq run.found /\ seen'[p] = run.found
      BY <1>1, <1>2, <2>1 DEF OneInv, InHand
    <3> QED
      BY <1>1, <1>3, <1>5, <3>1
  <2>2. CASE ~(p = cur /\ seen[p] = {})
    <3>1. Cand(p) \subseteq seen[p] /\ run.found \cap Names[p] \subseteq seen[p]
          /\ seen'[p] = seen[p]
      BY <1>2, <2>2 DEF OneInv, Remembered
    <3> QED
      BY <1>1, <1>3, <1>5, <3>1
  <2> QED
    BY <2>1, <2>2
<1>7. InHand'
  <2>1. CASE run' = Idle
    BY <2>1, IdleFields DEF InHand, Busy, Deciding
  <2>2. CASE run'.op = run.op /\ run'.found = run.found /\ run'.target = run.target
    <3>1. cur' = cur
      BY <2>2 DEF cur
    <3>2. ~Reopened(cur) => Cand(cur)' \subseteq run.found
      BY <1>1, <1>3, <3>1 DEF OneInv, InHand
    <3>3. cur \in blind \/ seen'[cur] \subseteq run.found
      BY <1>1, <1>2 DEF OneInv, InHand
    <3> QED
      BY <1>1, <1>4, <2>2, <3>1, <3>2, <3>3 DEF InHand
  <2> QED
    BY <2>1, <2>2 DEF Carried
<1>8. Chosen'
  <2> SUFFICES ASSUME NEW o \in Op
               PROVE  /\ Touched(o)' # {} => seen'[o] # {}
                      /\ \/ o \in blind \/ Reopened(o)
                         \/ Touched(o)' \subseteq {Choice(o, seen'[o])}
    BY <1>4 DEF Chosen
  <2>1. CASE o # cur
    <3>1. Touched(o)' \subseteq Touched(o) /\ seen'[o] = seen[o]
      BY <1>2, <2>1
    <3> QED
      BY <3>1 DEF OneInv, Chosen
  <2>2. CASE o = cur
    <3>1. seen'[cur] # {}
      BY <1>1, <1>2
    <3>2. ASSUME cur \notin blind, ~Reopened(cur) PROVE seen'[cur] = run.found
      BY <1>1, <1>2, <3>2 DEF OneInv, InHand, Remembered
    <3>3. ASSUME cur \notin blind, ~Reopened(cur)
          PROVE  Touched(cur) \subseteq {run.target}
      <4>1. CASE seen[cur] = {}
        BY <4>1 DEF OneInv, Chosen
      <4>2. CASE seen[cur] # {}
        BY <1>1, <1>2, <3>2, <3>3, <4>2 DEF OneInv, Chosen
      <4> QED
        BY <4>1, <4>2
    <3>4. Touched(o)' \subseteq Touched(cur) \cup {run.target}
      BY <2>2
    <3> QED
      BY <1>1, <2>2, <3>1, <3>2, <3>3, <3>4
  <2> QED
    BY <2>1, <2>2
<1> QED
  BY <1>6, <1>7, <1>8 DEF OneInv

LEMMA OnePay ==
  ASSUME TypeOK, OneInv, SafeInv, NEW r \in Reply, Pay(r)
  PROVE  OneInv'
<1>0. /\ UNCHANGED <<setting, row, opened, blind>> /\ run.pc = "pay" /\ Busy
      /\ cur \in Op /\ run \in Runs /\ run.target \in Target
      /\ crm \in [Target -> Stage] /\ paidFor \in [Op -> SUBSET Target]
  BY BusyOp DEF Pay, Kept, Busy, TypeOK
<1>2. AfterPay \in {"row", "mark"} /\ AfterPay \in Step \ {"idle"}
  BY DEF AfterPay, Step
<1>3. CASE ~Movable(run.target)
  <2>1. /\ UNCHANGED <<crm, paidFor, seen>>
        /\ run' = [run EXCEPT !.pc = AfterPay]
    BY <1>3 DEF Pay, Goto
  <2>2. run'.pc \in {"row", "mark"} /\ Carried
    BY <1>0, <1>2, <2>1 DEF Runs, Carried
  <2> QED
    BY <1>0, <2>1, <2>2, OneQuiet DEF Deciding
<1>4. CASE Movable(run.target)
  <2>1. Proceed(AfterPay, r = "ok")
    BY <1>4 DEF Pay, Confirmed
  <2>2. Carried /\ run'.pc \in {"idle", "row", "mark"}
    BY <1>0, <1>2, <2>1, ProceedTyped, IdleFields DEF Carried
  <2>3. CASE Landed(r)
    <3>1. /\ crm' = [crm EXCEPT ![run.target] = "paid"]
          /\ paidFor' = [paidFor EXCEPT ![cur] = @ \cup {run.target}]
          /\ seen' = Noted
      BY <1>4, <2>3 DEF Pay
    <3>2. \A u \in Target : u # run.target => crm'[u] = crm[u]
      BY <1>0, <3>1
    <3>3. run.target.kind # "deal"
      BY <1>4 DEF Movable
    <3>4. \A u \in Target : u # run.target => (Lost(u)' <=> Lost(u))
      BY <3>2 DEF Lost
    <3>5. \A d : LostDeal(d)' <=> LostDeal(d)
      BY <3>3, <3>4 DEF LostDeal
    <3>6. \A u \in Target : Excluded(u) => Excluded(u)' \/ u = run.target
      BY <1>0, <3>2, <3>4, <3>5 DEF Excluded, Fades
    <3>7. \A o \in Op : Touched(o)' \subseteq
            Touched(o) \cup IF o = cur THEN {run.target} ELSE {}
      BY <1>0, <3>1 DEF Touched
    <3> QED
      BY <1>0, <2>2, <3>1, <3>6, <3>7, OneSettle
  <2>4. CASE ~Landed(r)
    <3>1. UNCHANGED <<crm, paidFor, seen>>
      BY <1>4, <2>4 DEF Pay
    <3> QED
      BY <1>0, <2>2, <3>1, OneQuiet DEF Deciding
  <2> QED
    BY <2>3, <2>4
<1> QED
  BY <1>3, <1>4

LEMMA OneRow ==
  ASSUME TypeOK, OneInv, SafeInv, NEW r \in Reply, WriteRow(r)
  PROVE  OneInv'
<1>0. /\ UNCHANGED <<setting, crm, paidFor, opened, blind>> /\ run.pc = "row" /\ Busy
      /\ cur \in Op /\ run \in Runs /\ row \in [Op -> SUBSET Target]
  BY BusyOp DEF WriteRow, Kept, Busy, TypeOK
<1>1. Proceed("mark", r = "ok") /\ "mark" \in Step \ {"idle"}
  BY DEF WriteRow, Step
<1>2. Carried /\ run'.pc \in {"idle", "mark"}
  BY <1>0, <1>1, ProceedTyped, IdleFields DEF Carried
<1>3. CASE Landed(r)
  <2>1. row' = [row EXCEPT ![cur] = @ \cup {run.target}] /\ seen' = Noted
    BY <1>3 DEF WriteRow
  <2>2. \A u \in Target : Excluded(u) => Excluded(u)'
    BY <1>0 DEF Excluded, Lost, LostDeal, Fades
  <2>3. \A o \in Op : Touched(o)' \subseteq
            Touched(o) \cup IF o = cur THEN {run.target} ELSE {}
    BY <1>0, <2>1 DEF Touched
  <2> QED
    BY <1>0, <1>2, <2>1, <2>2, <2>3, OneSettle
<1>4. CASE ~Landed(r)
  <2>1. UNCHANGED <<row, seen>>
    BY <1>4 DEF WriteRow
  <2> QED
    BY <1>0, <1>2, <2>1, OneQuiet DEF Deciding
<1> QED
  BY <1>3, <1>4

LEMMA OneEdit ==
  ASSUME TypeOK, OneInv, NEW t \in Target, NEW stage \in Stage, Edit(t, stage)
  PROVE  OneInv'
<1>1. /\ UNCHANGED <<setting, run, row, paidFor, seen, blind>> /\ opened \subseteq opened'
      /\ crm' = [crm EXCEPT ![t] = stage] /\ stage # crm[t]
      /\ crm \in [Target -> Stage]
  BY DEF Edit, TypeOK
<1>2. \A o : Reopened(o) => Reopened(o)'
  BY <1>1 DEF Reopened
<1>3. \A u \in Target : Excluded(u) => Excluded(u)' \/ u \in opened'
  <2> SUFFICES ASSUME NEW u \in Target, Excluded(u), u \notin opened' PROVE Excluded(u)'
    OBVIOUS
  <2>1. crm[t] \in {"paid", "lost"} =>
          u # t /\ ~(t.kind = "deal" /\ u.deal = t.id)
    BY DEF Edit
  <2>2. \A v \in Target : crm'[v] = IF v = t THEN stage ELSE crm[v]
    BY <1>1
  <2>3. CASE Lost(u)
    BY <2>1, <2>2, <2>3 DEF Excluded, Lost
  <2>4. CASE crm[u] = "paid" /\ Fades(u)
    BY <1>1, <2>1, <2>2, <2>4 DEF Excluded, Fades
  <2>5. CASE u.kind = "deal-payment" /\ LostDeal(u.deal)
    <3>1. PICK v \in Target : v.kind = "deal" /\ v.id = u.deal /\ Lost(v)
      BY <2>5 DEF LostDeal
    <3>2. v # t
      BY <2>1, <3>1 DEF Lost
    <3> QED
      BY <2>2, <2>5, <3>1, <3>2 DEF Excluded, LostDeal, Lost
  <2> QED
    BY <2>3, <2>4, <2>5 DEF Excluded
<1>4. \A p \in Op : ~Reopened(p)' => Cand(p)' \subseteq Cand(p)
  BY <1>3 DEF Cand, Reopened
<1>5. \A p \in Op : ~Reopened(p)' => Pool(p)' \subseteq Pool(p)
  <2> SUFFICES ASSUME NEW p \in Op, ~Reopened(p)', NEW u \in Pool(p)' PROVE u \in Pool(p)
    OBVIOUS
  <2>1. u \in Cand(p)' /\ u.kind = "deal-payment" /\ u \in Target
    BY DEF Pool, Payments, Cand
  <2> QED
    BY <1>4, <2>1 DEF Pool, Payments, Cand
<1>6. Remembered'
  BY <1>1, <1>2, <1>4 DEF OneInv, Remembered
<1>7. InHand'
  <2>1. cur' = cur /\ (Busy' <=> Busy) /\ (Busy => cur \in Op)
    BY <1>1, BusyOp DEF cur, Busy
  <2>2. run.pc \in Deciding \cup {"look"} => Busy
    BY DEF Deciding, Busy
  <2> QED
    BY <1>1, <1>2, <1>4, <1>5, <2>1, <2>2 DEF OneInv, InHand
<1>8. Chosen'
  BY <1>1, <1>2 DEF OneInv, Chosen, Touched
<1> QED
  BY <1>6, <1>7, <1>8 DEF OneInv

LEMMA OneStep == TypeOK /\ SafeInv /\ OneInv /\ [Next]_vars => OneInv'
<1> SUFFICES ASSUME TypeOK, SafeInv, OneInv, [Next]_vars PROVE OneInv'
  OBVIOUS
<1>0. ASSUME UNCHANGED <<setting, crm>>
      PROVE  \A p : Cand(p)' = Cand(p) /\ Pool(p)' = Pool(p)
  BY <1>0 DEF Cand, Pool, Payments, Excluded, Lost, LostDeal, Fades
<1>1. ASSUME NEW o \in Op, Claim(o) PROVE OneInv'
  <2>1. /\ UNCHANGED <<setting, crm, row, paidFor, seen, opened, blind>>
        /\ run'.pc = "gate" /\ run'.found = {}
    BY <1>1 DEF Claim, Kept, Idle
  <2>2. InHand'
    BY <2>1 DEF InHand, Deciding
  <2>3. Remembered' /\ Chosen'
    BY <1>0, <2>1 DEF OneInv, Remembered, Chosen, Touched, Reopened
  <2> QED
    BY <2>2, <2>3 DEF OneInv
<1>2. ASSUME NEW r \in Reply, Gate(r) \/ CheckApplied(r) \/ Mark(r) \/ Tell(r)
      PROVE  OneInv'
  <2>1. /\ UNCHANGED <<setting, crm, row, paidFor, seen, opened, blind>> /\ Busy
    BY <1>2 DEF Gate, CheckApplied, Mark, Tell, Kept, Busy
  <2>2. AfterPay \in {"row", "mark"}
    BY DEF AfterPay
  <2>3. \/ run' = Idle
        \/ Proceed("pool", r = "ok") \/ Proceed("tell", r = "ok")
        \/ /\ run.pc = "check"
           /\ \E pc \in {"row", "mark", "pay"} : Proceed(pc, r = "ok")
    BY <1>2, <2>2 DEF Gate, CheckApplied, Mark, Tell
  <2>4. {"pool", "tell", "row", "mark", "pay"} \subseteq Step \ {"idle"}
    BY DEF Step
  <2>5. /\ Carried /\ run'.pc # "look"
        /\ run'.pc \in Deciding => run.pc \in Deciding
    <3>1. CASE run' = Idle
      BY <3>1, IdleFields DEF Carried, Deciding
    <3>2. CASE Proceed("pool", r = "ok") \/ Proceed("tell", r = "ok")
      BY <2>1, <2>4, <3>2, ProceedTyped, IdleFields DEF Carried, Deciding
    <3>3. CASE /\ run.pc = "check"
               /\ \E pc \in {"row", "mark", "pay"} : Proceed(pc, r = "ok")
      BY <2>1, <2>4, <3>3, ProceedTyped, IdleFields DEF Carried, Deciding
    <3> QED
      BY <2>3, <3>1, <3>2, <3>3
  <2> QED
    BY <2>1, <2>5, OneQuiet
<1>3. CASE Die
  BY <1>3, OneQuiet, IdleFields DEF Die, Kept, Carried, Busy, Deciding
<1>4. ASSUME NEW o \in Op, Redeliver(o) PROVE OneInv'
  <2>1. UNCHANGED <<setting, crm, run, row, paidFor, seen, opened, blind>>
    BY <1>4 DEF Redeliver, Kept
  <2> QED
    BY <1>0, <2>1 DEF OneInv, Remembered, InHand, Chosen, Touched, Reopened, Busy, cur
<1>5. CASE UNCHANGED vars
  <2>1. UNCHANGED <<setting, crm, run, row, paidFor, seen, opened, blind>>
    BY <1>5 DEF vars
  <2> QED
    BY <1>0, <2>1 DEF OneInv, Remembered, InHand, Chosen, Touched, Reopened, Busy, cur
<1> QED
  BY <1>1, <1>2, <1>3, <1>4, <1>5, OneFetch, OneLook, OnePay, OneRow, OneEdit
     DEF Next, Process

\* For any operations, documents and matches: the attempts of an operation,
\* and its later deliveries, settle one document; a second one only when the
\* first was gone from the candidates of a later attempt, or employees made a
\* document payable again.
THEOREM SettlesOne == Spec => []OneTargetIfSeen
<1>1. Init => OneInv
  BY OneInit
<1>2. TypeOK /\ SafeInv /\ OneInv /\ [Next]_vars => OneInv'
  BY OneStep
<1>3. OneInv => OneTargetIfSeen
  <2> SUFFICES ASSUME OneInv, NEW o \in Op, o \notin blind, ~Reopened(o)
               PROVE  Cardinality(Touched(o)) <= 1
    BY DEF OneTargetIfSeen
  <2> DEFINE one == {Choice(o, seen[o])}
  <2>1. Touched(o) \subseteq one
    BY DEF OneInv, Chosen
  <2>2. IsFiniteSet(one) /\ Cardinality(one) = 1
    BY FS_Singleton
  <2> HIDE DEF one
  <2>3. Cardinality(Touched(o)) <= Cardinality(one)
    BY <2>1, <2>2, FS_Subset
  <2> QED
    BY <2>2, <2>3
<1> QED
  BY <1>1, <1>2, <1>3, SafeAlways, PTL DEF Spec

----------------------------------------------------------------------------
(***************************************************************************)
(* PersonKnows.  The marker closes an operation to every later attempt, so *)
(* the attempt that sets it is the one that tells; and it saw what earlier *)
(* ones had settled, or the operation is blind.                            *)
(***************************************************************************)
Telling == {"mark", "tell"}

Minding ==
  /\ run.pc \in Deciding \cup Telling =>
       /\ run.target = Choice(cur, run.found)
       /\ run.notice = NoticeOf(cur, run.found, cur \notin hushed)
       /\ cur \in blind \/ seen[cur] \subseteq run.found
  /\ run.pc \in Telling /\ setting.ledger /\ run.target # NoTarget => run.target \in row[cur]

Ordered ==
  /\ Busy /\ cur \in marked => run.pc \in {"gate", "tell"}
  /\ run.pc = "tell" => cur \in marked /\ told[cur] = {}

Untold == \A o \in Op \ marked : told[o] = {}
Earned == \A o \in Op : seen[o] # {} => Eligible(o, seen[o]) # {}

Heard(o) ==
  /\ Cardinality(Distinct(Eligible(o, seen[o]))) > 1
       => told[o] = {"ambiguous"} \/ Reopened(o)
  /\ Touched(o) # {} => told[o] \subseteq {"ambiguous"}
  /\ Touched(o) = {} =>
       \/ told[o] # {} \/ o \in hushed \/ ~setting.ledger
       \/ \E t \in Names[o] : t.kind = "deal"

Knows ==
  \A o \in marked : o \notin silenced \cup blind /\ ~(run.op = o /\ run.pc = "tell") => Heard(o)

KnowInv == Minding /\ Ordered /\ Untold /\ Earned /\ Knows

LEMMA KnowInit == Init => KnowInv
  BY IdleFields DEF Init, KnowInv, Minding, Ordered, Untold, Earned, Knows, Deciding, Telling, Busy

LEMMA HeardStays ==
  ASSUME NEW o, Heard(o), UNCHANGED setting, seen'[o] = seen[o], told'[o] = told[o],
         Touched(o)' = Touched(o), opened \subseteq opened', o \in hushed => o \in hushed'
  PROVE  Heard(o)'
<1>1. Reopened(o) => Reopened(o)'
  BY DEF Reopened
<1> QED
  BY <1>1 DEF Heard

\* What was heard and earned does not change while nothing is settled or told.
LEMMA KnowKeep ==
  ASSUME TypeOK, KnowInv, UNCHANGED <<setting, row, paidFor, seen, marked, told>>,
         opened \subseteq opened', silenced \subseteq silenced', blind \subseteq blind',
         hushed \cap marked \subseteq hushed',
         run.pc = "tell" => (run'.op = run.op /\ run'.pc = run.pc) \/ cur \in silenced'
  PROVE  Untold' /\ Earned' /\ Knows'
<1>1. Untold' /\ Earned'
  BY DEF KnowInv, Untold, Earned
<1>2. ASSUME NEW o \in marked, o \notin silenced' \cup blind', ~(run'.op = o /\ run'.pc = "tell")
      PROVE  Heard(o)'
  <2>1. Heard(o)
    BY <1>2 DEF KnowInv, Knows, cur
  <2>2. Touched(o)' = Touched(o)
    BY DEF Touched
  <2> QED
    BY <2>1, <2>2, HeardStays
<1> QED
  BY <1>1, <1>2 DEF Knows

\* What the notice says of what was found.
LEMMA NoticeSays ==
  ASSUME NEW o \in Op, NEW found, NEW room \in BOOLEAN
  PROVE  /\ Eligible(o, found) # {} => NoticeOf(o, found, room) \subseteq {"ambiguous"}
         /\ Cardinality(Distinct(Eligible(o, found))) > 1 => NoticeOf(o, found, room) = {"ambiguous"}
         /\ Eligible(o, found) = {} /\ NoticeOf(o, found, room) = {} =>
              ~room \/ \E t \in found : t.kind \notin Amount
<1> DEFINE e == Eligible(o, found)
<1>1. e # {} => found # {}
  BY DEF Eligible
<1>2. e = {} => Cardinality(Distinct(e)) = 0
  <2>1. e = {} => Distinct(e) = {}
    BY DEF Distinct
  <2> QED
    BY <2>1, FS_EmptySet
<1>3. Cardinality(Distinct(e)) > 1 => e # {}
  BY <1>2
<1>4. NoticeOf(o, found, room) =
        CASE found = {} -> IF room THEN {"unresolved"} ELSE {}
          [] e # {} -> IF Cardinality(Distinct(e)) > 1 THEN {"ambiguous"} ELSE {}
          [] OTHER -> IF {t \in found : t.kind \in Amount} = found THEN {"manual"} ELSE {}
  BY DEF NoticeOf
<1> HIDE DEF e
<1>5. /\ e # {} => NoticeOf(o, found, room) \subseteq {"ambiguous"}
      /\ Cardinality(Distinct(e)) > 1 => NoticeOf(o, found, room) = {"ambiguous"}
  BY <1>1, <1>3, <1>4
<1>6. e = {} /\ NoticeOf(o, found, room) = {} =>
        ~room \/ \E t \in found : t.kind \notin Amount
  BY <1>4
<1> QED
  BY <1>5, <1>6 DEF e

LEMMA KnowClaim ==
  ASSUME TypeOK, KnowInv, NEW o \in Op, Claim(o)
  PROVE  KnowInv'
<1>1. /\ UNCHANGED <<setting, row, paidFor, seen, marked, told, opened, silenced, blind, hushed>>
      /\ run.pc = "idle" /\ run'.pc = "gate"
  BY DEF Claim, Kept, Idle
<1>2. Untold' /\ Earned' /\ Knows'
  BY <1>1, KnowKeep
<1>3. Minding' /\ Ordered'
  BY <1>1 DEF Minding, Ordered, Deciding, Telling
<1> QED
  BY <1>2, <1>3 DEF KnowInv

LEMMA KnowEarly ==
  ASSUME TypeOK, KnowInv, NEW r \in Reply, Gate(r) \/ FetchPool(r) \/ LookUp(r)
  PROVE  KnowInv'
<1>1. /\ UNCHANGED <<setting, row, paidFor, seen, marked, told, opened, silenced>>
      /\ run.pc \in {"gate", "pool", "look"} /\ Busy /\ blind \subseteq blind'
      /\ hushed \ {cur} \subseteq hushed' /\ (run.pc # "look" => hushed' = hushed)
  BY DEF Gate, FetchPool, LookUp, Kept, Busy
<1>2. Untold' /\ Earned' /\ Knows'
  <2>1. hushed \cap marked \subseteq hushed'
    BY <1>1 DEF KnowInv, Ordered
  <2> QED
    BY <1>1, <2>1, KnowKeep
<1>3. run \in Runs /\ cur \in Op
  BY <1>1, BusyOp
<1>4. run' = Idle => Minding' /\ Ordered'
  BY IdleFields DEF Minding, Ordered, Deciding, Telling, Busy
<1>5. CASE Gate(r)
  <2>1. run' = Idle \/ (cur \notin marked /\ Proceed("pool", r = "ok"))
    <3>1. Proceed("pool", r = "ok") /\ r # "ok" => run' = Idle
      BY DEF Proceed, Throw
    <3> QED
      BY <1>5, <3>1 DEF Gate
  <2>2. "pool" \in Step \ {"idle"}
    BY DEF Step
  <2>3. run' = Idle \/ (cur \notin marked /\ run'.pc = "pool" /\ run'.op = run.op)
    BY <1>1, <2>1, <2>2, ProceedTyped
  <2> QED
    BY <1>1, <1>2, <1>4, <2>3 DEF KnowInv, Minding, Ordered, Deciding, Telling, cur
<1>6. CASE FetchPool(r)
  <2>1. run' = Idle \/ (run.pc = "pool" /\ run'.pc = "look" /\ run'.op = run.op)
    BY <1>3, <1>6 DEF FetchPool, Throw, Runs
  <2> QED
    BY <1>1, <1>2, <1>4, <2>1 DEF KnowInv, Minding, Ordered, Deciding, Telling, cur
<1>7. CASE LookUp(r)
  <2>1. CASE r # "ok"
    BY <1>2, <1>4, <1>7, <2>1 DEF LookUp, Throw, KnowInv
  <2>2. CASE r = "ok"
    <3> DEFINE found == run.found \cup Looked(cur)
               t == Choice(cur, found)
    <3>1. PICK room \in BOOLEAN :
          /\ run' = [run EXCEPT !.pc = AfterLook(t), !.found = found, !.target = t,
                                !.notice = NoticeOf(cur, found, room)]
          /\ hushed' = IF found = {} /\ ~room THEN hushed \cup {cur} ELSE hushed \ {cur}
          /\ blind' = IF seen[cur] \subseteq found THEN blind ELSE blind \cup {cur}
      BY <1>7, <2>2 DEF LookUp
    <3>2. /\ run'.pc = AfterLook(t) /\ run'.found = found /\ run'.op = run.op
          /\ run'.target = t /\ run'.notice = NoticeOf(cur, found, room) /\ cur' = cur
      BY <1>3, <3>1 DEF Runs, cur
    <3>3. cur \in blind' \/ seen[cur] \subseteq found
      BY <3>1
    <3>4. cur \notin marked
      BY <1>1, <1>7 DEF LookUp, KnowInv, Ordered
    <3>5. run'.pc # "tell" /\ (run'.pc = "mark" /\ setting.ledger => t = NoTarget)
      BY <3>2 DEF AfterLook, AfterPay
    <3> HIDE DEF found
    <3>8. NoticeOf(cur, found, room) = NoticeOf(cur, found, cur \notin hushed')
      BY <3>1 DEF NoticeOf
    <3>6. Minding'
      BY <1>1, <3>2, <3>3, <3>5, <3>8 DEF Minding, Telling
    <3>7. Ordered'
      BY <1>1, <3>2, <3>4, <3>5 DEF Ordered
    <3> QED
      BY <1>2, <3>6, <3>7 DEF KnowInv
  <2> QED
    BY <2>1, <2>2
<1> QED
  BY <1>5, <1>6, <1>7

\* Between the decision and the marker.
LEMMA KnowSettle ==
  ASSUME TypeOK, KnowInv, SafeInv, run.pc \in Deciding, cur \in Op,
         UNCHANGED <<setting, marked, told, opened, silenced, blind, hushed>>,
         seen' \in {seen, Noted},
         \A o \in Op : o # cur => Touched(o)' = Touched(o),
         \/ run' = Idle
         \/ /\ run'.pc \in Deciding \cup {"mark"} /\ run'.op = run.op /\ run'.found = run.found
            /\ run'.target = run.target /\ run'.notice = run.notice
            /\ run'.pc = "mark" /\ setting.ledger => run.target \in row'[cur]
  PROVE  KnowInv'
<1>1. /\ Busy /\ cur \notin marked /\ run.target \in run.found
      /\ run.target = Choice(cur, run.found)
      /\ seen \in [Op -> SUBSET Target] /\ run \in Runs /\ marked \subseteq Op
      /\ run.pc # "tell"
  BY BusyOp DEF KnowInv, Minding, Ordered, SafeInv, Targeted, Busy, Deciding, TypeOK
<1>2. \A o \in Op : seen'[o] = seen[o] \/ (o = cur /\ seen'[o] = run.found)
  BY <1>1 DEF Noted
<1>3. Eligible(cur, run.found) # {}
  <2>1. run.found \subseteq Target
    BY <1>1 DEF Runs
  <2>2. Choice(cur, run.found) # NoTarget
    BY <1>1, <2>1
  <2> QED
    BY <2>1, <2>2, ChoiceIsEligible
<1>4. Earned'
  BY <1>2, <1>3 DEF KnowInv, Earned, Eligible
<1>5. Knows'
  <2> SUFFICES ASSUME NEW o \in marked, o \notin silenced \cup blind
               PROVE  Heard(o)'
    BY DEF Knows
  <2>1. o # cur /\ o \in Op
    BY <1>1
  <2>2. Heard(o)
    BY <1>1 DEF KnowInv, Knows
  <2> QED
    BY <1>2, <2>1, <2>2, HeardStays
<1>6. Untold'
  BY DEF KnowInv, Untold
<1>7. CASE run' = Idle
  BY <1>4, <1>5, <1>6, <1>7, IdleFields DEF KnowInv, Minding, Ordered, Deciding, Telling, Busy
<1>8. CASE /\ run'.pc \in Deciding \cup {"mark"} /\ run'.op = run.op /\ run'.found = run.found
           /\ run'.target = run.target /\ run'.notice = run.notice
           /\ run'.pc = "mark" /\ setting.ledger => run.target \in row'[cur]
  <2>1. cur' = cur
    BY <1>8 DEF cur
  <2>2. Ordered'
    BY <1>1, <1>8, <2>1 DEF Ordered, Deciding
  <2>3. run.notice = NoticeOf(cur, run.found, cur \notin hushed) /\ (cur \in blind \/ seen[cur] \subseteq run.found)
    BY DEF KnowInv, Minding
  <2>4. cur \in blind \/ seen'[cur] \subseteq run.found
    BY <1>2, <2>3
  <2>5. run'.pc # "tell"
    BY <1>8 DEF Deciding
  <2>6. Minding'
    BY <1>1, <1>8, <2>1, <2>3, <2>4, <2>5 DEF Minding, Telling
  <2> QED
    BY <1>4, <1>5, <1>6, <2>2, <2>6 DEF KnowInv
<1> QED
  BY <1>7, <1>8

LEMMA KnowDeciding ==
  ASSUME TypeOK, KnowInv, SafeInv, NEW r \in Reply,
         CheckApplied(r) \/ Pay(r) \/ WriteRow(r)
  PROVE  KnowInv'
<1>1. /\ UNCHANGED <<setting, marked, told, opened, silenced, blind, hushed>>
      /\ run.pc \in Deciding /\ Busy
  BY DEF CheckApplied, Pay, WriteRow, Kept, Busy, Deciding
<1>2. cur \in Op /\ run \in Runs /\ row \in [Op -> SUBSET Target]
      /\ paidFor \in [Op -> SUBSET Target]
  BY <1>1, BusyOp DEF TypeOK
<1>3. AfterPay \in {"row", "mark"} /\ (AfterPay = "mark" => ~setting.ledger)
  BY DEF AfterPay
<1>4. {"row", "mark", "pay"} \subseteq Step \ {"idle"}
  BY DEF Step
<1>5. seen' \in {seen, Noted}
  BY DEF CheckApplied, Pay, WriteRow
<1>6. \A o \in Op : o # cur => Touched(o)' = Touched(o)
  <2>1. /\ row' \in {row, [row EXCEPT ![cur] = @ \cup {run.target}]}
        /\ paidFor' \in {paidFor, [paidFor EXCEPT ![cur] = @ \cup {run.target}]}
    BY DEF CheckApplied, Pay, WriteRow
  <2> QED
    BY <1>2, <2>1 DEF Touched
<1>7. \/ run' = Idle
      \/ /\ run'.pc \in Deciding \cup {"mark"} /\ run'.op = run.op /\ run'.found = run.found
         /\ run'.target = run.target /\ run'.notice = run.notice
         /\ run'.pc = "mark" /\ setting.ledger => run.target \in row'[cur]
  <2>1. CASE CheckApplied(r)
    <3>1. PICK pc \in {"row", "mark", "pay"} :
            Proceed(pc, r = "ok") /\ (pc = "mark" => ~setting.ledger)
      BY <1>3, <2>1 DEF CheckApplied
    <3> QED
      BY <1>1, <1>4, <3>1, ProceedTyped DEF Deciding
  <2>2. CASE Pay(r)
    <3>1. CASE ~Movable(run.target)
      <4>1. run' = [run EXCEPT !.pc = AfterPay]
        BY <2>2, <3>1 DEF Pay, Goto
      <4> QED
        BY <1>2, <1>3, <4>1 DEF Runs, Deciding
    <3>2. CASE Movable(run.target)
      <4>1. Proceed(AfterPay, r = "ok")
        BY <2>2, <3>2 DEF Pay, Confirmed
      <4> QED
        BY <1>1, <1>3, <1>4, <4>1, ProceedTyped DEF Deciding
    <3> QED
      BY <3>1, <3>2
  <2>3. CASE WriteRow(r)
    <3>1. Proceed("mark", r = "ok")
      BY <2>3 DEF WriteRow
    <3>2. r = "ok" => run.target \in row'[cur]
      BY <1>2, <2>3 DEF WriteRow, Landed
    <3> QED
      BY <1>1, <1>4, <3>1, <3>2, ProceedTyped
  <2> QED
    BY <2>1, <2>2, <2>3
<1> QED
  BY <1>1, <1>2, <1>5, <1>6, <1>7, KnowSettle

LEMMA KnowMark ==
  ASSUME TypeOK, KnowInv, NEW r \in Reply, Mark(r)
  PROVE  KnowInv'
<1>1. /\ UNCHANGED <<setting, row, paidFor, seen, told, opened, blind, hushed>>
      /\ run.pc = "mark" /\ Busy
  BY DEF Mark, Kept, Busy
<1>2. /\ cur \in Op /\ cur \notin marked /\ told[cur] = {}
      /\ marked \subseteq Op
  BY <1>1, BusyOp DEF KnowInv, Ordered, Untold, TypeOK
<1>3. /\ marked' = IF Landed(r) THEN marked \cup {cur} ELSE marked
      /\ silenced' = IF r = "lost" THEN silenced \cup {cur} ELSE silenced
      /\ Proceed("tell", r = "ok") /\ "tell" \in Step \ {"idle"}
  BY DEF Mark, Step
<1>4. \/ run' = Idle /\ r # "ok"
      \/ /\ r = "ok" /\ run'.pc = "tell" /\ run'.op = run.op /\ run'.found = run.found
         /\ run'.target = run.target /\ run'.notice = run.notice
  BY <1>1, <1>3, ProceedTyped
<1>5. Untold' /\ Earned'
  BY <1>1, <1>3 DEF KnowInv, Untold, Earned
<1>6. Knows'
  <2> SUFFICES ASSUME NEW o \in marked', o \notin silenced' \cup blind,
                      ~(run'.op = o /\ run'.pc = "tell")
               PROVE  Heard(o)'
    BY <1>1 DEF Knows
  <2>1. o # cur
    BY <1>2, <1>3, <1>4 DEF Reply, Landed, cur
  <2>2. o \in marked /\ o \notin silenced
    BY <1>3, <2>1
  <2>3. Heard(o)
    BY <1>1, <2>2 DEF KnowInv, Knows
  <2>4. Touched(o)' = Touched(o)
    BY <1>1 DEF Touched
  <2> QED
    BY <1>1, <2>3, <2>4, HeardStays
<1>7. CASE run' = Idle
  BY <1>5, <1>6, <1>7, IdleFields DEF KnowInv, Minding, Ordered, Deciding, Telling, Busy
<1>8. CASE /\ r = "ok" /\ run'.pc = "tell" /\ run'.op = run.op /\ run'.found = run.found
           /\ run'.target = run.target /\ run'.notice = run.notice
  <2>1. cur' = cur /\ cur \in marked'
    BY <1>3, <1>8 DEF cur, Landed
  <2>2. Ordered'
    BY <1>1, <1>2, <1>8, <2>1 DEF Ordered
  <2>3. Minding'
    BY <1>1, <1>8, <2>1 DEF KnowInv, Minding, Telling
  <2> QED
    BY <1>5, <1>6, <2>2, <2>3 DEF KnowInv
<1> QED
  BY <1>4, <1>7, <1>8

LEMMA KnowTell ==
  ASSUME TypeOK, KnowInv, OneInv, NEW r \in Reply, Tell(r)
  PROVE  KnowInv'
<1>1. /\ UNCHANGED <<setting, row, paidFor, seen, marked, opened, blind, hushed>>
      /\ run.pc = "tell" /\ run' = Idle /\ Busy
  BY DEF Tell, Kept, Busy
<1>2. /\ cur \in Op /\ cur \in marked /\ told[cur] = {} /\ told \in [Op -> SUBSET Notice]
      /\ marked \subseteq Op
  BY <1>1, BusyOp DEF KnowInv, Ordered, TypeOK
<1>3. /\ told' \in {told, [told EXCEPT ![cur] = @ \cup run.notice]}
      /\ silenced' \in {silenced, silenced \cup {cur}}
  BY DEF Tell
<1>4. Minding' /\ Ordered'
  BY <1>1, IdleFields DEF Minding, Ordered, Deciding, Telling, Busy
<1>5. Untold' /\ Earned'
  BY <1>1, <1>2, <1>3 DEF KnowInv, Untold, Earned
<1>6. ASSUME NEW o \in marked, o # cur, o \notin silenced' \cup blind PROVE Heard(o)'
  <2>1. Heard(o)
    BY <1>3, <1>6 DEF KnowInv, Knows, cur
  <2>2. Touched(o)' = Touched(o) /\ told'[o] = told[o]
    BY <1>1, <1>2, <1>3, <1>6 DEF Touched
  <2> QED
    BY <1>1, <2>1, <2>2, HeardStays
<1>7. ASSUME cur \notin silenced' \cup blind
      PROVE  \A o : o = cur => Heard(o)'
  <2> SUFFICES ASSUME NEW o, o = cur PROVE Heard(o)'
    OBVIOUS
  <2>1. told'[o] = run.notice
    <3>1. CASE run.notice = {}
      BY <1>2, <3>1 DEF Tell
    <3>2. CASE run.notice # {}
      <4>1. r = "ok"
        BY <1>7, <3>2 DEF Tell
      <4>2. told' = [told EXCEPT ![cur] = @ \cup run.notice]
        BY <3>2, <4>1 DEF Tell, Landed
      <4> QED
        BY <1>2, <4>2
    <3> QED
      BY <3>1, <3>2
  <2>2. /\ run.target = Choice(o, run.found) /\ run.notice = NoticeOf(o, run.found, o \notin hushed)
        /\ (o \notin hushed) \in BOOLEAN
        /\ seen[o] \subseteq run.found /\ run.found \subseteq Names[o] /\ run.found \subseteq Target
        /\ setting.ledger /\ run.target # NoTarget => run.target \in row[o]
    BY <1>1, <1>2, <1>7, LookedTyped DEF KnowInv, Minding, OneInv, InHand, Telling
  <2>3. Touched(o)' = Touched(o)
    BY <1>1 DEF Touched
  <2>4. ASSUME Cardinality(Distinct(Eligible(o, seen[o]))) > 1, ~Reopened(o)
        PROVE  run.notice = {"ambiguous"}
    <3>1. seen[o] # {}
      <4> DEFINE d == Distinct(Eligible(o, seen[o]))
      <4>1. Cardinality(d) > 1
        BY <2>4
      <4>2. seen[o] = {} => d = {}
        BY DEF Distinct, Eligible
      <4> HIDE DEF d
      <4>3. d = {} => Cardinality(d) = 0
        BY FS_EmptySet
      <4> QED
        BY <4>1, <4>2, <4>3
    <3>2. run.found \cap Names[o] \subseteq seen[o]
      BY <1>2, <2>4, <3>1 DEF OneInv, Remembered
    <3>3. seen[o] = run.found
      BY <2>2, <3>2
    <3> QED
      BY <1>2, <2>2, <2>4, <3>3, NoticeSays
  <2>5. ASSUME Touched(o) # {} PROVE run.notice \subseteq {"ambiguous"}
    <3>1. Eligible(o, seen[o]) # {}
      BY <1>2, <2>5 DEF KnowInv, Earned, OneInv, Chosen
    <3>2. Eligible(o, run.found) # {}
      BY <2>2, <3>1 DEF Eligible
    <3>3. ASSUME NEW room \in BOOLEAN PROVE NoticeOf(o, run.found, room) \subseteq {"ambiguous"}
      BY <1>2, <3>2, NoticeSays
    <3>4. NoticeOf(o, run.found, o \notin hushed) \subseteq {"ambiguous"}
      BY <2>2, <3>3
    <3> QED
      BY <2>2, <3>4
  <2>6. ASSUME Touched(o) = {}, run.notice = {}, setting.ledger, o \notin hushed
        PROVE  \E t \in Names[o] : t.kind = "deal"
    <3>1. run.target = NoTarget
      BY <2>2, <2>6 DEF Touched
    <3>2. Eligible(o, run.found) = {}
      <4>1. Eligible(o, run.found) \subseteq Target
        BY <2>2 DEF Eligible
      <4> QED
        BY <1>2, <2>2, <3>1, <4>1, ChoiceIsEligible
    <3>3. PICK t \in run.found : t.kind \notin Amount
      BY <1>2, <2>2, <2>6, <3>2, NoticeSays
    <3>4. t \in Target /\ t \in Names[o]
      BY <2>2
    <3>5. t.kind = "deal"
      BY <3>3, <3>4 DEF Kind
    <3> QED
      BY <3>4, <3>5
  <2>7. Reopened(o)' <=> Reopened(o)
    BY <1>1 DEF Reopened
  <2> QED
    BY <1>1, <2>1, <2>3, <2>4, <2>5, <2>6, <2>7 DEF Heard
<1>8. Knows'
  BY <1>1, <1>6, <1>7 DEF Knows
<1> QED
  BY <1>4, <1>5, <1>8 DEF KnowInv

LEMMA KnowStep == TypeOK /\ SafeInv /\ OneInv /\ KnowInv /\ [Next]_vars => KnowInv'
<1> SUFFICES ASSUME TypeOK, SafeInv, OneInv, KnowInv, [Next]_vars PROVE KnowInv'
  OBVIOUS
<1>1. CASE Die
  <2>1. /\ UNCHANGED <<setting, row, paidFor, seen, marked, told, opened, blind, hushed>>
        /\ run' = Idle /\ silenced \subseteq silenced'
        /\ run.pc = "tell" => cur \in silenced'
    BY <1>1 DEF Die, Kept
  <2>2. Untold' /\ Earned' /\ Knows'
    BY <2>1, KnowKeep
  <2> QED
    BY <2>1, <2>2, IdleFields DEF KnowInv, Minding, Ordered, Deciding, Telling, Busy
<1>2. ASSUME \/ \E o \in Op : Redeliver(o)
             \/ \E t \in Target, stage \in Stage : Edit(t, stage)
             \/ UNCHANGED vars
      PROVE  KnowInv'
  <2>1. /\ UNCHANGED <<setting, run, row, paidFor, seen, marked, told, blind, silenced, hushed>>
        /\ opened \subseteq opened'
    BY <1>2 DEF Redeliver, Edit, Kept, vars
  <2>2. Untold' /\ Earned' /\ Knows'
    BY <2>1, KnowKeep
  <2>3. cur' = cur
    BY <2>1 DEF cur
  <2> QED
    BY <2>1, <2>2, <2>3 DEF KnowInv, Minding, Ordered, Busy
<1> QED
  BY <1>1, <1>2, KnowClaim, KnowEarly, KnowDeciding, KnowMark, KnowTell DEF Next, Process

\* For any operations, documents and matches: of a closed operation a person
\* has heard when several documents matched, or when nothing was settled, and
\* hears of nothing left over when something was, unless a message was lost or
\* the run had told of five that found nothing (handlers.ts:56, :826-842).
THEOREM NobodyIsLeftUntold == Spec => []PersonKnows
<1>1. Init => OneInv /\ KnowInv
  BY OneInit, KnowInit
<1>2. TypeOK /\ SafeInv /\ OneInv /\ KnowInv /\ [Next]_vars => OneInv' /\ KnowInv'
  BY OneStep, KnowStep
<1>3. TypeOK /\ KnowInv => PersonKnows
  BY DEF TypeOK, KnowInv, Knows, Heard, PersonKnows, Ended
<1> QED
  BY <1>1, <1>2, <1>3, SafeAlways, PTL DEF Spec

=============================================================================
