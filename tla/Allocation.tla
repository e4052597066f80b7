----------------------------- MODULE Allocation -----------------------------
(***************************************************************************)
(* How crm-sync decides which invoice or deal payment an operation closes, *)
(* across the attempts of its job.  Every attempt looks the candidates up  *)
(* anew, and what was paid or lost since is no candidate any more; the     *)
(* decision is paid and booked before the activity's marker ends the       *)
(* attempts.  Employees pay, reopen, lose and revive the same documents.   *)
(***************************************************************************)
EXTENDS Naturals, FiniteSets

CONSTANTS
  Op,        \* operations of one client, numbers recognized in each purpose
  NoOp,      \* the worker is idle
  Target,    \* the client's documents: [kind, id, deal]
  NoTarget,  \* no target was chosen
  NoDeal,    \* an invoice that belongs to no deal
  Names,     \* [Op -> SUBSET Target]: what the recognized numbers lead to
  Exact,     \* [Op -> SUBSET Target]: same amount and currency
  Setting,   \* the settings considered: [auto, ledger, paidStage]
  MaxAttempts,     \* attempts of a crm-sync job
  MaxRedeliveries, \* bound of the model: later polls and uploads of a job
  MaxFaults,       \* bound of the model: failed calls and deaths
  MaxEdits         \* bound of the model: steps of employees

Amount == {"invoice", "deal-payment"}     \* decided by amount; a deal is not
Kind == Amount \cup {"deal"}
PaidStage == {"none", "plain", "success"} \* invoicePaidStageId: not set, a
                                          \* stage in work, a success stage
ASSUME OpAssumption == NoOp \notin Op
ASSUME TargetAssumption ==
  /\ NoTarget \notin Target
  /\ \A t \in Target : t.kind \in Kind /\ t.id \in Nat
ASSUME NameAssumption ==
  /\ Names \in [Op -> SUBSET Target]
  /\ Exact \in [Op -> SUBSET Target]
ASSUME SettingAssumption ==
  Setting \subseteq [auto : BOOLEAN, ledger : BOOLEAN, paidStage : PaidStage]
ASSUME BoundAssumption ==
  /\ MaxAttempts \in Nat /\ MaxRedeliveries \in Nat
  /\ MaxFaults \in Nat /\ MaxEdits \in Nat

VARIABLES
  setting,  \* the portal's settings
  crm,      \* stage of each document
  queue,    \* the job of each operation
  run,      \* the one crm-sync worker
  row,      \* [Op -> SUBSET Target]: rows of the distribution ledger
  marked,   \* operations whose activity carries the marker
  told,     \* [Op -> SUBSET Notice]: messages in the error chat
  paidFor,  \* history: targets this stage paid for an operation
  twice,    \* history: targets this stage paid a second time
  seen,     \* history: the candidates of the attempt that first settled one
  blind,    \* history: a later attempt no longer saw all of these
  silenced, \* history: the last message was never sent, or failed
  hushed,   \* history: the last attempt found nothing, with no notice left
  opened,   \* history: documents an employee made payable again
  closed,   \* history: documents an employee paid or lost
  faults, edits

vars == <<setting, crm, queue, run, row, marked, told, paidFor, twice, seen,
          blind, silenced, hushed, opened, closed, faults, edits>>

Stage == {"open", "paid", "lost"}
Notice == {"ambiguous", "manual", "unresolved"}
Step == {"idle", "gate", "pool", "look", "check", "pay", "row", "mark", "tell"}
Idle == [op |-> NoOp, pc |-> "idle", found |-> {}, target |-> NoTarget,
         notice |-> {}]
Fresh == [state |-> "waiting", attempts |-> 0, again |-> 0]

Init ==
  /\ setting \in Setting
  /\ crm = [t \in Target |-> "open"]
  /\ queue = [o \in Op |-> Fresh]
  /\ run = Idle
  /\ row = [o \in Op |-> {}] /\ paidFor = [o \in Op |-> {}]
  /\ told = [o \in Op |-> {}]
  /\ seen = [o \in Op |-> {}]
  /\ marked = {} /\ twice = {} /\ blind = {}
  /\ silenced = {} /\ hushed = {} /\ opened = {} /\ closed = {}
  /\ faults = 0 /\ edits = 0

TypeOK ==
  /\ setting \in Setting
  /\ crm \in [Target -> Stage]
  /\ queue \in [Op -> [state : {"waiting", "active", "done", "failed"},
                       attempts : Nat, again : Nat]]
  /\ run \in [op : Op \cup {NoOp}, pc : Step, found : SUBSET Target,
              target : Target \cup {NoTarget}, notice : SUBSET Notice]
  /\ (run.pc = "idle") = (run.op = NoOp)
  /\ run.pc \in {"check", "pay", "row"} => run.target \in Target
  /\ row \in [Op -> SUBSET Target] /\ paidFor \in [Op -> SUBSET Target]
  /\ told \in [Op -> SUBSET Notice]
  /\ seen \in [Op -> SUBSET Target]
  /\ marked \subseteq Op /\ blind \subseteq Op
  /\ silenced \subseteq Op /\ hushed \subseteq Op
  /\ twice \subseteq Target /\ opened \subseteq Target /\ closed \subseteq Target
  /\ faults \in Nat /\ edits \in Nat

(***************************************************************************)
(* What a look-up returns: the documents the numbers name, less those that *)
(* are lost, paid, or on a stage the portal counts as a success.           *)
(***************************************************************************)
Touched(o) == paidFor[o] \cup row[o]
Movable(t) ==     \* buildAllocationMutation knows how to pay it
  t.kind = "deal-payment" \/ (t.kind = "invoice" /\ setting.paidStage # "none")
Fades(t) ==       \* once paid it is not a candidate
  t.kind = "invoice" => setting.paidStage # "plain"
Lost(t) == crm[t] = "lost"
LostDeal(d) == \E u \in Target : u.kind = "deal" /\ u.id = d /\ Lost(u)
\* Mutant of Excluded: a settled document is found again.
ExcludedOnlyLost(t) ==
  Lost(t) \/ (t.kind = "deal-payment" /\ LostDeal(t.deal))
Excluded(t) ==
  \/ Lost(t)
  \/ crm[t] = "paid" /\ Fades(t)
  \/ t.kind = "deal-payment" /\ LostDeal(t.deal)
Payments == {t \in Target : t.kind = "deal-payment" /\ ~Excluded(t)}
Pool(o) == Names[o] \cap Payments
Invoices(o) == {t \in Names[o] : t.kind = "invoice" /\ ~Excluded(t)}
Items(o) == {t \in Names[o] : t.kind = "deal" /\ ~Excluded(t)}
Looked(o) == Invoices(o) \cup Items(o)

(***************************************************************************)
(* The decision (summarizeAllocation): of the exact matches the one with   *)
(* the smallest id, an invoice standing for the payments of its deal.      *)
(***************************************************************************)
Eligible(o, found) == {t \in found : t.kind \in Amount} \cap Exact[o]
Distinct(e) ==
  {t \in e : t.kind = "deal-payment" =>
     ~\E i \in e : i.kind = "invoice" /\ i.deal # NoDeal /\ i.deal = t.deal}
\* Mutant of Smallest: a document that is paid already is passed over.
SmallestUnpaid(e) ==
  LET unpaid == {t \in e : crm[t] # "paid"}
      left == IF unpaid = {} THEN e ELSE unpaid
  IN  CHOOSE t \in left : \A u \in left : t.id <= u.id
Smallest(e) == CHOOSE t \in e : \A u \in e : t.id <= u.id
Choice(o, found) ==
  LET e == Eligible(o, found)
  IN  IF e = {} THEN NoTarget ELSE Smallest(Distinct(e))
\* One run tells of five operations that found nothing (MAX_UNRESOLVED_NOTICES),
\* whichever clients they are of: there is room for this one, or there is not.
NoticeOf(o, found, room) ==
  LET e == Eligible(o, found)
      amounts == {t \in found : t.kind \in Amount}
  IN  CASE found = {} -> IF room THEN {"unresolved"} ELSE {}
        [] e # {} -> IF Cardinality(Distinct(e)) > 1 THEN {"ambiguous"} ELSE {}
        [] OTHER -> IF amounts = found THEN {"manual"} ELSE {}

(***************************************************************************)
(* A call is carried out, refused, or carried out with its answer lost.    *)
(* An error before the marker makes the job try again.                     *)
(***************************************************************************)
Reply == {"ok", "refused", "lost"}
Landed(r) == r # "refused"
Spend(r) == /\ r # "ok" => faults < MaxFaults
            /\ faults' = IF r = "ok" THEN faults ELSE faults + 1
Goto(pc) == run' = [run EXCEPT !.pc = pc]
cur == run.op
Kept == UNCHANGED <<setting, hushed, opened, closed, edits>>

Rejected(q) ==
  [q EXCEPT !.attempts = @ + 1,
            !.state = IF q.attempts + 1 < MaxAttempts THEN "waiting" ELSE "failed"]
Throw == run' = Idle /\ queue' = [queue EXCEPT ![cur] = Rejected(@)]
Proceed(pc, ok) == IF ok THEN Goto(pc) /\ UNCHANGED queue ELSE Throw

Claim(o) ==
  /\ run.pc = "idle"
  /\ queue[o].state = "waiting"
  /\ queue' = [queue EXCEPT ![o].state = "active"]
  /\ run' = [Idle EXCEPT !.op = o, !.pc = "gate"]
  /\ UNCHANGED <<crm, row, marked, told, paidFor, twice, seen, blind,
                 silenced, faults>>
  /\ Kept

Gate(r) ==          \* getActivityId, findCompany
  /\ run.pc = "gate"
  /\ Spend(r)
  /\ IF r = "ok" /\ cur \in marked
     THEN run' = Idle /\ queue' = [queue EXCEPT ![cur].state = "done"]
     ELSE Proceed("pool", r = "ok")
  /\ UNCHANGED <<crm, row, marked, told, paidFor, twice, seen, blind, silenced>>
  /\ Kept

FetchPool(r) ==     \* findCompanyDealPayments, once for all numbers
  /\ run.pc = "pool"
  /\ Spend(r)
  /\ IF r = "ok" THEN /\ run' = [run EXCEPT !.pc = "look", !.found = Pool(cur)]
                      /\ UNCHANGED queue
     ELSE Throw
  /\ UNCHANGED <<crm, row, marked, told, paidFor, twice, seen, blind, silenced>>
  /\ Kept

AfterPay == IF setting.ledger THEN "row" ELSE "mark"
AfterLook(t) ==
  IF t = NoTarget THEN "mark" ELSE IF setting.auto THEN "check" ELSE AfterPay
LookUp(r) ==        \* the other look-ups, then the decision
  /\ run.pc = "look"
  /\ Spend(r)
  /\ LET found == run.found \cup Looked(cur)
         t == Choice(cur, found)
     IN  IF r = "ok"
         THEN /\ \E room \in BOOLEAN :
                   /\ run' = [run EXCEPT !.pc = AfterLook(t), !.found = found, !.target = t,
                                         !.notice = NoticeOf(cur, found, room)]
                   /\ hushed' = IF found = {} /\ ~room THEN hushed \cup {cur}
                                ELSE hushed \ {cur}
              /\ blind' = IF seen[cur] \subseteq found THEN blind
                          ELSE blind \cup {cur}
              /\ UNCHANGED queue
         ELSE Throw /\ UNCHANGED <<blind, hushed>>
  /\ UNCHANGED <<setting, crm, row, marked, told, paidFor, twice, seen,
                 silenced, opened, closed, edits>>

Noted == IF seen[cur] = {} THEN [seen EXCEPT ![cur] = run.found] ELSE seen

\* Mutant of Applied: the read proves nothing.
AppliedNever(t) == FALSE
Applied(t) == crm[t] = "paid" /\ Movable(t)
CheckApplied(r) ==  \* isTargetApplied
  /\ run.pc = "check"
  /\ Spend(r)
  /\ Proceed(IF Applied(run.target) THEN AfterPay ELSE "pay", r = "ok")
  /\ UNCHANGED <<crm, row, marked, told, paidFor, twice, seen, blind, silenced>>
  /\ Kept

\* Mutant of Confirmed: a refusal is passed over.
ConfirmedAnyway(r) == TRUE
Confirmed(r) == r = "ok"
Pay(r) ==           \* applyAllocation
  /\ run.pc = "pay"
  /\ IF ~Movable(run.target)
     THEN Goto(AfterPay) /\ UNCHANGED <<queue, crm, paidFor, twice, seen, faults>>
     ELSE /\ Spend(r)
          /\ Proceed(AfterPay, Confirmed(r))
          /\ IF Landed(r)
             THEN /\ crm' = [crm EXCEPT ![run.target] = "paid"]
                  /\ paidFor' = [paidFor EXCEPT ![cur] = @ \cup {run.target}]
                  /\ twice' = IF \E o \in Op : run.target \in paidFor[o]
                              THEN twice \cup {run.target} ELSE twice
                  /\ seen' = Noted
             ELSE UNCHANGED <<crm, paidFor, twice, seen>>
  /\ UNCHANGED <<row, marked, told, blind, silenced>>
  /\ Kept

WriteRow(r) ==      \* writeLedger: found or added by its marker
  /\ run.pc = "row"
  /\ Spend(r)
  /\ Proceed("mark", r = "ok")
  /\ IF Landed(r)
     THEN /\ row' = [row EXCEPT ![cur] = @ \cup {run.target}]
          /\ seen' = Noted
     ELSE UNCHANGED <<row, seen>>
  /\ UNCHANGED <<crm, marked, told, paidFor, twice, blind, silenced>>
  /\ Kept

Mark(r) ==          \* writeActivity: the marker ends the attempts
  /\ run.pc = "mark"
  /\ Spend(r)
  /\ Proceed("tell", r = "ok")
  /\ marked' = IF Landed(r) THEN marked \cup {cur} ELSE marked
  /\ silenced' = IF r = "lost" THEN silenced \cup {cur} ELSE silenced
  /\ UNCHANGED <<crm, row, told, paidFor, twice, seen, blind>>
  /\ Kept

\* Mutant of Tell: only an ambiguity is told.
TellAmbiguity(r) ==
  /\ run.pc = "tell"
  /\ run' = Idle
  /\ queue' = [queue EXCEPT ![cur].state = "done"]
  /\ Spend(r)
  /\ told' = IF Landed(r) THEN [told EXCEPT ![cur] = @ \cup (run.notice \cap {"ambiguous"})]
             ELSE told
  /\ silenced' = IF r = "ok" THEN silenced ELSE silenced \cup {cur}
  /\ UNCHANGED <<crm, row, marked, paidFor, twice, seen, blind>>
  /\ Kept
Tell(r) ==          \* notifyError, notifyUnresolved: errors are swallowed
  /\ run.pc = "tell"
  /\ run' = Idle
  /\ queue' = [queue EXCEPT ![cur].state = "done"]
  /\ IF run.notice = {} THEN UNCHANGED <<told, silenced, faults>>
     ELSE /\ Spend(r)
          /\ told' = IF Landed(r) THEN [told EXCEPT ![cur] = @ \cup run.notice]
                     ELSE told
          /\ silenced' = IF r = "ok" THEN silenced ELSE silenced \cup {cur}
  /\ UNCHANGED <<crm, row, marked, paidFor, twice, seen, blind>>
  /\ Kept

Die ==              \* the worker dies; the stalled job is given out again
  /\ run.pc # "idle"
  /\ faults < MaxFaults /\ faults' = faults + 1
  /\ run' = Idle
  /\ queue' = [queue EXCEPT ![cur].state = "waiting"]
  /\ silenced' = IF run.pc = "tell" THEN silenced \cup {cur} ELSE silenced
  /\ UNCHANGED <<crm, row, marked, told, paidFor, twice, seen, blind>>
  /\ Kept

Redeliver(o) ==     \* the next poll, or the file once more
  /\ queue[o].state \in {"done", "failed"}
  /\ queue[o].again < MaxRedeliveries
  /\ queue' = [queue EXCEPT ![o] = [Fresh EXCEPT !.again = queue[o].again + 1]]
  /\ UNCHANGED <<crm, run, row, marked, told, paidFor, twice, seen, blind,
                 silenced, faults>>
  /\ Kept

(***************************************************************************)
(* Employees move the same documents at any moment.                        *)
(***************************************************************************)
Moves(t) ==
  CASE t.kind = "invoice" -> Stage
    [] t.kind = "deal-payment" -> {"open", "paid"}
    [] t.kind = "deal" -> {"open", "lost"}
Edit(t, stage) ==
  /\ edits < MaxEdits /\ edits' = edits + 1
  /\ stage \in Moves(t) \ {crm[t]}
  /\ crm' = [crm EXCEPT ![t] = stage]
  /\ opened' = IF crm[t] \in {"paid", "lost"}
               THEN opened \cup {u \in Target : u = t \/ (t.kind = "deal" /\ u.deal = t.id)}
               ELSE opened
  /\ closed' = IF stage \in {"paid", "lost"} THEN closed \cup {t} ELSE closed
  /\ UNCHANGED <<setting, queue, run, row, marked, told, paidFor, twice, seen,
                 blind, silenced, hushed, faults>>

Process(r) ==
  \/ Gate(r) \/ FetchPool(r) \/ LookUp(r) \/ CheckApplied(r) \/ Pay(r)
  \/ WriteRow(r) \/ Mark(r) \/ Tell(r)
Next ==
  \/ \E o \in Op : Claim(o) \/ Redeliver(o)
  \/ \E r \in Reply : Process(r)
  \/ Die
  \/ \E t \in Target, stage \in Stage : Edit(t, stage)
Spec == Init /\ [][Next]_vars

(***************************************************************************)
(* Properties.                                                             *)
(***************************************************************************)
\* A document is paid by this stage once, however many operations name it and
\* however often they come back, until an employee makes it payable again
\* (handlers.ts:880-888, allocationApplied.ts:1-20).
PaidOnce == twice \subseteq opened

Reopened(o) == Names[o] \cap opened # {}
\* An operation settles one document, not an instalment more with each attempt:
\* a second one only when the first was gone from the candidates of a later
\* attempt, or employees changed them (allocation.ts, "smallest id").
OneTargetIfSeen ==
  \A o \in Op : \/ Cardinality(Touched(o)) <= 1
                \/ o \in blind \/ Reopened(o)

\* With distribution on, a ledger row stands for money that was booked on the
\* document (worker.ts:476-507), and two operations do not book one document
\* as long as paying it takes it out of the candidates.
LedgerTells ==
  setting.auto =>
    \A o \in Op : \A t \in row[o] :
      /\ Movable(t) => crm[t] = "paid" \/ t \in opened \cup closed
      /\ Movable(t) /\ Fades(t) /\ t \notin opened
           => \A p \in Op \ {o} : t \notin row[p]

Ended(o) == o \in marked /\ run.op # o
\* When an operation is closed a person has heard of it if several documents
\* matched, if none matched exactly, or if none was found, and is not told so
\* of one that was settled: unless the message itself was lost, or a later
\* attempt no longer saw what the first had done (handlers.ts:946-952, :1116-1124).
\* Nobody hears of one that found nothing in a run that has told of five already
\* (handlers.ts:56, :564-569).
PersonKnows ==
  \A o \in Op : Ended(o) /\ o \notin silenced \cup blind =>
    /\ Cardinality(Distinct(Eligible(o, seen[o]))) > 1
         => told[o] = {"ambiguous"} \/ Reopened(o)
    /\ Touched(o) # {} => told[o] \subseteq {"ambiguous"}
    /\ Touched(o) = {} =>
         \/ told[o] # {} \/ o \in hushed \/ ~setting.ledger
         \/ \E t \in Names[o] : t.kind = "deal"

(***************************************************************************)
(* What the repository says, and the code does not keep.                   *)
(***************************************************************************)
\* "A redelivery reads the true state and skips" (allocationApplied.ts:9-10):
\* one operation never pays two documents, whatever fails in between.
OneTarget == \A o \in Op : Cardinality(paidFor[o]) <= 1

\* "It covers the pay-then-crash window" (handlers.ts:882): what was paid for a
\* closed operation is in the ledger.
PaidIsBooked ==
  \A o \in Op : Ended(o) /\ setting.ledger => paidFor[o] \subseteq row[o]
=============================================================================
