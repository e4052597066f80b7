------------------------------ MODULE CrmSync ------------------------------
(***************************************************************************)
(* The crm-sync stage: one worker (its concurrency is pinned to 1) takes   *)
(* batches of statement operations and records each operation in the      *)
(* client's Bitrix24 portal (registry element, payment of the target,      *)
(* ledger row, activity with a dedup marker, bindings, automation trigger, *)
(* chat notices).  Three more workers drain the writes the batch had to    *)
(* postpone.  Every REST call may be refused, or be carried out with its   *)
(* answer lost; the worker may die between any two calls.                  *)
(***************************************************************************)
EXTENDS Naturals, Sequences, FiniteSets

CONSTANTS
  Op,               \* operations of a statement, one per dedupKey
  Job,              \* crm-sync jobs
  NoJob,            \* no job is running
  Batch,            \* [Job -> Seq(Op)], the items of a job
  Parsed,           \* jobs with source = "parse": an uploaded file
  Owned,            \* operations whose client, or else my company, is found
  Payable,          \* decision "allocate": the amount names one target
  Fading,           \* of these, targets that are no candidate once paid
  Triggering,       \* a deal or smart-process candidate was recognized
  Ambiguous,        \* ambiguous, manual or unresolved: the error chat is told
  Announced,        \* client found and the chat rules allow a message
  PaymentSp,        \* the payment registry is provisioned
  DistributionSp,   \* the distribution ledger is provisioned
  AutoDistribute,   \* the portal allows payments and triggers
  LostReplies,      \* may a call take effect and still report an error
  MaxAttempts,      \* attempts of a crm-sync job
  MaxStalls,        \* redeliveries of a job whose worker died
  MaxDeferred,      \* MAX_DEFERRED_WRITES_PER_RUN
  DeferredAttempts, \* attempts of a registry-write or activity-bind job
  TriggerAttempts,  \* attempts of a trigger-fire job
  MaxRedeliveries,  \* bound of the model: re-uploads and later polls per job
  MaxFaults,        \* bound of the model: calls that fail
  MaxCrashes        \* bound of the model: workers that die

ASSUME JobAssumption ==
  /\ NoJob \notin Job
  /\ Batch \in [Job -> Seq(Op)]
  /\ \A j \in Job : Batch[j] # <<>>
ASSUME RoleAssumption ==
  /\ Parsed \subseteq Job
  /\ Payable \cup Triggering \cup Ambiguous \cup Announced \subseteq Owned
  /\ Payable \cap Ambiguous = {}
  /\ Fading \subseteq Payable
  /\ Owned \subseteq Op
ASSUME SettingAssumption ==
  /\ PaymentSp \in BOOLEAN /\ DistributionSp \in BOOLEAN
  /\ AutoDistribute \in BOOLEAN /\ LostReplies \in BOOLEAN
ASSUME BoundAssumption ==
  /\ MaxAttempts \in Nat /\ MaxStalls \in Nat /\ MaxDeferred \in Nat
  /\ DeferredAttempts \in Nat /\ TriggerAttempts \in Nat
  /\ MaxRedeliveries \in Nat /\ MaxFaults \in Nat /\ MaxCrashes \in Nat

VARIABLES
  job,       \* queue state of each crm-sync job
  run,       \* the one crm-sync worker: what it is doing, and its locals
  crm,       \* what the portal holds about each operation
  deferred,  \* jobs of registry-write, activity-bind, trigger-fire
  dropped,   \* failed writes counted but not queued: the run's counters
  proven,    \* markerProven: this process has seen a marker read back
  faults, crashes

vars == <<job, run, crm, deferred, dropped, proven, faults, crashes>>

Ledger == PaymentSp /\ DistributionSp

(***************************************************************************)
(* The state.  A registry element is "full" when it was written with the   *)
(* registry's columns, "bare" when the ledger created it; the first of     *)
(* several elements with one marker is the one every search returns.       *)
(***************************************************************************)
Kind == {"registry", "binding", "trigger"}
Column == {"full", "bare"}
JobState == {"waiting", "active", "done", "failed"}
Late == {"none", "queued", "find", "add", "locate", "link", "done", "failed"}
BeforeMark == {"regFind", "regAdd", "payRead", "pay", "ledFind", "ledAdd",
               "ledRow", "ledSum", "activity", "mark"}
AfterMark == {"bind", "alert", "trigGate", "trigFire", "factFind", "factAdd",
              "factRow", "chat"}
Marking == {"verify", "undoMarked"}
Step == {"idle", "gate", "backfill", "backfillAdd", "undoOrphan"}
          \cup Marking \cup BeforeMark \cup AfterMark

Blank == [elements |-> <<>>, orphans |-> 0, marked |-> 0, linked |-> FALSE,
          paid |-> 0, row |-> FALSE, summed |-> FALSE, fired |-> 0, unheard |-> 0,
          fact |-> FALSE, alerted |-> 0, posted |-> 0]
Idle == [job |-> NoJob, idx |-> 0, pc |-> "idle", element |-> FALSE,
         gone |-> FALSE, deferred |-> 0]
Fresh == [state |-> "waiting", attempts |-> 0, stalls |-> 0, again |-> 0]
Absent == [state |-> "none", attempts |-> 0, stalls |-> 0, element |-> FALSE]

Init ==
  /\ job = [j \in Job |-> Fresh]
  /\ run = Idle
  /\ crm = [o \in Op |-> Blank]
  /\ deferred = [k \in Kind |-> [o \in Op |-> Absent]]
  /\ dropped = [k \in Kind |-> {}]
  /\ proven = FALSE
  /\ faults = 0
  /\ crashes = 0

JobRecord == [state : JobState, attempts : Nat, stalls : Nat, again : Nat]
RunRecord == [job : Job \cup {NoJob}, idx : Nat, pc : Step, element : BOOLEAN,
              gone : BOOLEAN, deferred : Nat]
CrmRecord == [elements : Seq(Column), orphans : Nat, marked : Nat,
              linked : BOOLEAN, paid : Nat, row : BOOLEAN, summed : BOOLEAN,
              fired : Nat, unheard : Nat, fact : BOOLEAN, alerted : Nat,
              posted : Nat]
LateRecord == [state : Late, attempts : Nat, stalls : Nat, element : BOOLEAN]

InBatch ==
  run.pc # "idle" => run.job \in Job /\ run.idx \in 1 .. Len(Batch[run.job])

TypeOK ==
  /\ job \in [Job -> JobRecord]
  /\ run \in RunRecord /\ InBatch
  /\ crm \in [Op -> CrmRecord]
  /\ deferred \in [Kind -> [Op -> LateRecord]]
  /\ dropped \in [Kind -> SUBSET Op]
  /\ proven \in BOOLEAN /\ faults \in Nat /\ crashes \in Nat

(***************************************************************************)
(* A call to the portal: carried out and confirmed, refused, or carried    *)
(* out while its answer is lost (a timeout after the portal committed).    *)
(***************************************************************************)
Reply == {"ok", "refused"} \cup (IF LostReplies THEN {"lost"} ELSE {})
Landed(r) == r # "refused"
Spend(r) == /\ r # "ok" => faults < MaxFaults
            /\ faults' = IF r = "ok" THEN faults ELSE faults + 1

cur == Batch[run.job][run.idx]     \* the operation in hand
Goto(pc) == run' = [run EXCEPT !.pc = pc]

Finish(state) ==
  /\ run' = Idle
  /\ job' = [job EXCEPT ![run.job].state = state]

NextOperation ==
  IF run.idx < Len(Batch[run.job])
  THEN /\ run' = [run EXCEPT !.pc = "gate", !.idx = @ + 1, !.element = FALSE,
                           !.gone = FALSE]
       /\ UNCHANGED job
  ELSE Finish("done")

Rejected(q, attempts, retry) ==    \* BullMQ: try again, or give it up
  [q EXCEPT !.attempts = q.attempts + 1,
            !.state = IF q.attempts + 1 < attempts THEN retry ELSE "failed"]
\* Mutant of Throw: the first error of a batch is its last.
ThrowForGood ==
  /\ run' = Idle
  /\ job' = [job EXCEPT ![run.job].state = "failed"]
Throw ==
  /\ run' = Idle
  /\ job' = [job EXCEPT ![run.job] = Rejected(@, MaxAttempts, "waiting")]

Taken(k, o) == deferred[k][o].state # "none"
Enqueue(k, o, element) ==     \* add is a no-op while the id is retained
  deferred' = IF Taken(k, o) THEN deferred
              ELSE [deferred EXCEPT ![k][o] =
                      [Absent EXCEPT !.state = "queued", !.element = element]]
(***************************************************************************)
(* The batch worker.                                                       *)
(***************************************************************************)
Claim(j) ==    \* the worker takes a job and reads the portal's settings
  /\ run.pc = "idle"
  /\ job[j].state = "waiting"
  /\ job' = [job EXCEPT ![j].state = "active"]
  /\ run' = [Idle EXCEPT !.job = j, !.idx = 1, !.pc = "gate"]
  /\ UNCHANGED <<crm, deferred, dropped, proven, faults, crashes>>

Redeliver(j) ==   \* the same batch again: its id was unstuck, or had expired
  /\ job[j].state \in {"done", "failed"}
  /\ job[j].again < MaxRedeliveries
  /\ job' = [job EXCEPT ![j] = [Fresh EXCEPT !.again = job[j].again + 1]]
  /\ UNCHANGED <<run, crm, deferred, dropped, proven, faults, crashes>>

AfterPay == IF cur \in Payable /\ Ledger THEN "ledFind" ELSE "activity"
\* An earlier attempt paid the target, and the look-up finds it no more
\* (negativeStages.ts:205-207, paymentLookup.ts:104).
Gone(o) == AutoDistribute /\ o \in Fading /\ crm[o].paid > 0
AfterRegistry ==
  IF Gone(cur) THEN "activity"
  ELSE IF cur \in Payable /\ AutoDistribute THEN "payRead" ELSE AfterPay

\* Mutant of Gate: the marker is not looked up.
GateBlind(r) ==
  /\ run.pc = "gate"
  /\ Spend(r)
  /\ IF r = "ok" THEN /\ Goto(IF PaymentSp THEN "regFind" ELSE AfterRegistry)
                      /\ UNCHANGED job
     ELSE Throw
  /\ UNCHANGED <<crm, deferred, dropped, proven, crashes>>

Gate(r) ==     \* getActivityId, then the reads that precede every write
  /\ run.pc = "gate"
  /\ Spend(r)
  /\ \/ r # "ok" /\ Throw
     \/ /\ r = "ok" /\ crm[cur].marked > 0
        /\ IF run.job \in Parsed /\ PaymentSp
           THEN Goto("backfill") /\ UNCHANGED job
           ELSE NextOperation
     \/ /\ r = "ok" /\ crm[cur].marked = 0
        /\ run' = [run EXCEPT !.pc = IF PaymentSp THEN "regFind" ELSE AfterRegistry,
                              !.gone = Gone(cur)]
        /\ UNCHANGED job
  /\ UNCHANGED <<crm, deferred, dropped, proven, crashes>>

FillFirst(es) == IF es = <<>> THEN es ELSE [es EXCEPT ![1] = "full"]
AddElement(o, column) ==
  crm' = [crm EXCEPT ![o].elements = Append(@, column)]
FillElement(o) == crm' = [crm EXCEPT ![o].elements = FillFirst(@)]

Backfill(r) ==    \* a re-uploaded operation: its errors are swallowed
  /\ run.pc = "backfill"
  /\ Spend(r)
  /\ IF r # "ok"
     THEN NextOperation /\ IF Landed(r) THEN FillElement(cur) ELSE UNCHANGED crm
     ELSE IF crm[cur].elements = <<>>
          THEN Goto("backfillAdd") /\ UNCHANGED <<job, crm>>
          ELSE FillElement(cur) /\ NextOperation
  /\ UNCHANGED <<deferred, dropped, proven, crashes>>

BackfillAdd(r) ==
  /\ run.pc = "backfillAdd"
  /\ Spend(r)
  /\ IF Landed(r) THEN AddElement(cur, "full") ELSE UNCHANGED crm
  /\ NextOperation
  /\ UNCHANGED <<deferred, dropped, proven, crashes>>

\* Mutant of Postpone: a write over the cap is not counted.
PostponeSilently(k, element, pc, queued) ==
  IF run.deferred < MaxDeferred
  THEN /\ run' = [run EXCEPT !.pc = pc, !.deferred = @ + 1]
       /\ IF queued THEN Enqueue(k, cur, element) /\ UNCHANGED dropped
                    ELSE /\ dropped' = [dropped EXCEPT ![k] = @ \cup {cur}]
                         /\ UNCHANGED deferred
  ELSE Goto(pc) /\ UNCHANGED <<deferred, dropped>>

Postpone(k, element, pc, queued) ==   \* queueDeferredWrite, under its cap
  IF run.deferred < MaxDeferred
  THEN /\ run' = [run EXCEPT !.pc = pc, !.deferred = @ + 1]
       /\ IF queued THEN Enqueue(k, cur, element) /\ UNCHANGED dropped
                    ELSE /\ dropped' = [dropped EXCEPT ![k] = @ \cup {cur}]
                         /\ UNCHANGED deferred
  ELSE /\ Goto(pc)
       /\ dropped' = [dropped EXCEPT ![k] = @ \cup {cur}]
       /\ UNCHANGED deferred

RegistryFind(r, queued) ==   \* the element exists: fill its columns
  /\ run.pc = "regFind"
  /\ Spend(r)
  /\ IF r # "ok"
     THEN /\ Postpone("registry", TRUE, AfterRegistry, queued)
          /\ IF Landed(r) THEN FillElement(cur) ELSE UNCHANGED crm
     ELSE /\ IF crm[cur].elements = <<>>
             THEN Goto("regAdd") /\ UNCHANGED crm
             ELSE /\ FillElement(cur)
                  /\ run' = [run EXCEPT !.pc = AfterRegistry,
                                        !.element = TRUE]
          /\ UNCHANGED <<deferred, dropped>>
  /\ UNCHANGED <<job, proven, crashes>>

RegistryAdd(r, queued) ==
  /\ run.pc = "regAdd"
  /\ Spend(r)
  /\ IF Landed(r) THEN AddElement(cur, "full") ELSE UNCHANGED crm
  /\ IF r # "ok"
     THEN Postpone("registry", TRUE, AfterRegistry, queued)
     ELSE /\ run' = [run EXCEPT !.pc = AfterRegistry, !.element = TRUE]
          /\ UNCHANGED <<deferred, dropped>>
  /\ UNCHANGED <<job, proven, crashes>>

(***************************************************************************)
(* The allocation: the target is paid unless it already is, then the       *)
(* ledger row is written; any error makes the whole job retry.             *)
(***************************************************************************)
\* Mutant of PayRead: the target's state is read and ignored.
PayReadIgnored(r) ==
  /\ run.pc = "payRead"
  /\ Spend(r)
  /\ IF r # "ok" THEN Throw ELSE Goto("pay") /\ UNCHANGED job
  /\ UNCHANGED <<crm, deferred, dropped, proven, crashes>>

PayRead(r) ==  \* isTargetApplied
  /\ run.pc = "payRead"
  /\ Spend(r)
  /\ IF r # "ok" THEN Throw
     ELSE /\ Goto(IF crm[cur].paid > 0 THEN AfterPay ELSE "pay")
          /\ UNCHANGED job
  /\ UNCHANGED <<crm, deferred, dropped, proven, crashes>>

Pay(r) ==      \* applyAllocation
  /\ run.pc = "pay"
  /\ Spend(r)
  /\ crm' = IF Landed(r) THEN [crm EXCEPT ![cur].paid = @ + 1] ELSE crm
  /\ IF r # "ok" THEN Throw ELSE Goto(AfterPay) /\ UNCHANGED job
  /\ UNCHANGED <<deferred, dropped, proven, crashes>>

\* ensurePaymentElement, which the ledger calls without the registry's columns
EnsureFind(r, find, add, row) ==
  /\ run.pc = find
  /\ Spend(r)
  /\ IF r # "ok" THEN Throw
     ELSE /\ Goto(IF crm[cur].elements = <<>> THEN add ELSE row)
          /\ UNCHANGED job
  /\ UNCHANGED <<crm, deferred, dropped, proven, crashes>>

EnsureAdd(r, add, row) ==
  /\ run.pc = add
  /\ Spend(r)
  /\ IF Landed(r) THEN AddElement(cur, "bare") ELSE UNCHANGED crm
  /\ IF r # "ok" THEN Throw ELSE Goto(row) /\ UNCHANGED job
  /\ UNCHANGED <<deferred, dropped, proven, crashes>>

LedgerFind(r) == EnsureFind(r, "ledFind", "ledAdd", "ledRow")
LedgerAdd(r) == EnsureAdd(r, "ledAdd", "ledRow")

LedgerRow(r) ==   \* writeDistributionRow, found or added by its marker
  /\ run.pc = "ledRow"
  /\ Spend(r)
  /\ crm' = IF Landed(r) THEN [crm EXCEPT ![cur].row = TRUE] ELSE crm
  /\ IF r # "ok" THEN Throw ELSE Goto("ledSum") /\ UNCHANGED job
  /\ UNCHANGED <<deferred, dropped, proven, crashes>>

\* Mutant of LedgerSum: its error is swallowed.
LedgerSumSwallowed(r) ==
  /\ run.pc = "ledSum"
  /\ Spend(r)
  /\ crm' = IF Landed(r) THEN [crm EXCEPT ![cur].summed = TRUE] ELSE crm
  /\ Goto("activity")
  /\ UNCHANGED <<job, deferred, dropped, proven, crashes>>

LedgerSum(r) ==   \* recomputeNeedDistribution
  /\ run.pc = "ledSum"
  /\ Spend(r)
  /\ crm' = IF Landed(r) THEN [crm EXCEPT ![cur].summed = TRUE] ELSE crm
  /\ IF r # "ok" THEN Throw ELSE Goto("activity") /\ UNCHANGED job
  /\ UNCHANGED <<deferred, dropped, proven, crashes>>

(***************************************************************************)
(* The activity is created by one call and marked by the next; an error of *)
(* the second, or of the read that verifies the marker, deletes it again.  *)
(***************************************************************************)
\* Mutant of AddActivity: an error skips to the next operation.
AddActivitySkips(r) ==
  /\ run.pc = "activity"
  /\ IF cur \notin Owned
     THEN NextOperation /\ UNCHANGED <<crm, faults>>
     ELSE /\ Spend(r)
          /\ crm' = IF Landed(r) THEN [crm EXCEPT ![cur].orphans = @ + 1]
                                 ELSE crm
          /\ IF r # "ok" THEN NextOperation ELSE Goto("mark") /\ UNCHANGED job
  /\ UNCHANGED <<deferred, dropped, proven, crashes>>

AddActivity(r) ==
  /\ run.pc = "activity"
  /\ IF cur \notin Owned
     THEN NextOperation /\ UNCHANGED <<crm, faults>>
     ELSE /\ Spend(r)
          /\ crm' = IF Landed(r) THEN [crm EXCEPT ![cur].orphans = @ + 1]
                                 ELSE crm
          /\ IF r # "ok" THEN Throw ELSE Goto("mark") /\ UNCHANGED job
  /\ UNCHANGED <<deferred, dropped, proven, crashes>>

MarkActivity(r) ==
  /\ run.pc = "mark"
  /\ Spend(r)
  /\ crm' = IF Landed(r)
            THEN [crm EXCEPT ![cur].orphans = @ - 1, ![cur].marked = @ + 1]
            ELSE crm
  /\ Goto(CASE r = "ok" -> IF proven THEN "bind" ELSE "verify"
            [] r = "refused" -> "undoOrphan"
            [] r = "lost" -> "undoMarked")
  /\ UNCHANGED <<job, deferred, dropped, proven, crashes>>

VerifyMarker(r) ==   \* verifyMarkerOnce: the first marker of a process
  /\ run.pc = "verify"
  /\ Spend(r)
  /\ Goto(IF r = "ok" THEN "bind" ELSE "undoMarked")
  /\ proven' = (r = "ok")
  /\ UNCHANGED <<job, crm, deferred, dropped, crashes>>

\* Mutant of UndoActivity: it takes the marked activity for an unmarked one.
UndoUnmarked(r) ==
  /\ run.pc \in {"undoOrphan", "undoMarked"}
  /\ Spend(r)
  /\ crm' = IF ~Landed(r) THEN crm ELSE [crm EXCEPT ![cur].orphans = @ - 1]
  /\ Throw
  /\ UNCHANGED <<deferred, dropped, proven, crashes>>

UndoActivity(r) ==   \* deleteOrphan: its own error is only logged
  /\ run.pc \in {"undoOrphan", "undoMarked"}
  /\ Spend(r)
  /\ crm' = IF ~Landed(r) THEN crm
            ELSE IF run.pc = "undoOrphan"
            THEN [crm EXCEPT ![cur].orphans = @ - 1]
            ELSE [crm EXCEPT ![cur].marked = @ - 1, ![cur].linked = FALSE]
  /\ Throw
  /\ UNCHANGED <<deferred, dropped, proven, crashes>>

(***************************************************************************)
(* After the marker: a retry of the job never comes back here.             *)
(***************************************************************************)
AfterAlert ==
  IF cur \in Triggering /\ AutoDistribute
  THEN IF Ledger THEN "trigGate" ELSE "trigFire"
  ELSE "chat"

Bind(r, queued) ==    \* bindActivity to the element, if its id is known
  /\ run.pc = "bind"
  /\ Spend(r)
  /\ crm' = IF Landed(r) /\ run.element
            THEN [crm EXCEPT ![cur].linked = TRUE] ELSE crm
  /\ IF r # "ok" THEN Postpone("binding", run.element, "alert", queued)
                 ELSE Goto("alert") /\ UNCHANGED <<deferred, dropped>>
  /\ UNCHANGED <<job, proven, crashes>>

\* A message to the error chat: the decision needs a person, or the target was
\* gone and nothing else was found.
Alerted == cur \in Ambiguous \/ (run.gone /\ cur \notin Triggering)
Alert(r) ==    \* notifyError, notifyUnresolved: errors are logged only
  /\ run.pc = "alert"
  /\ IF Alerted
     THEN /\ Spend(r)
          /\ crm' = IF Landed(r) THEN [crm EXCEPT ![cur].alerted = @ + 1]
                                 ELSE crm
     ELSE UNCHANGED <<crm, faults>>
  /\ Goto(AfterAlert)
  /\ UNCHANGED <<job, deferred, dropped, proven, crashes>>

TriggerGate(r) ==   \* hasTriggerFact
  /\ run.pc = "trigGate"
  /\ Spend(r)
  /\ IF r # "ok" THEN Throw
     ELSE Goto(IF crm[cur].fact THEN "chat" ELSE "trigFire") /\ UNCHANGED job
  /\ UNCHANGED <<crm, deferred, dropped, proven, crashes>>

\* The trigger's automations run; unheard (history) counts the lost answers of it.
Fired(o, r) ==
  CASE r = "ok" -> [crm EXCEPT ![o].fired = @ + 1]
    [] r = "lost" -> [crm EXCEPT ![o].fired = @ + 1, ![o].unheard = @ + 1]
    [] r = "refused" -> crm

\* Mutant of FireTrigger: the retry is queued before the call, not after it.
FireAndQueue(r, queued) ==
  /\ run.pc = "trigFire"
  /\ Spend(r)
  /\ crm' = Fired(cur, r)
  /\ Goto(IF r = "ok" /\ Ledger THEN "factFind" ELSE "chat")
  /\ IF queued THEN Enqueue("trigger", cur, FALSE) /\ UNCHANGED dropped
     ELSE /\ dropped' = [dropped EXCEPT !["trigger"] = @ \cup {cur}]
          /\ UNCHANGED deferred
  /\ UNCHANGED <<job, proven, crashes>>

FireTrigger(r, queued) ==   \* applyTrigger, enqueueTriggerRetry
  /\ run.pc = "trigFire"
  /\ Spend(r)
  /\ crm' = Fired(cur, r)
  /\ IF r = "ok"
     THEN /\ Goto(IF Ledger THEN "factFind" ELSE "chat")
          /\ UNCHANGED <<deferred, dropped>>
     ELSE /\ Goto("chat")
          /\ IF queued THEN Enqueue("trigger", cur, FALSE) /\ UNCHANGED dropped
             ELSE /\ dropped' = [dropped EXCEPT !["trigger"] = @ \cup {cur}]
                  /\ UNCHANGED deferred
  /\ UNCHANGED <<job, proven, crashes>>

FactFind(r) == EnsureFind(r, "factFind", "factAdd", "factRow")
FactAdd(r) == EnsureAdd(r, "factAdd", "factRow")

FactRow(r) ==  \* writeTriggerFact: a zero-amount row
  /\ run.pc = "factRow"
  /\ Spend(r)
  /\ crm' = IF Landed(r) THEN [crm EXCEPT ![cur].fact = TRUE] ELSE crm
  /\ IF r # "ok" THEN Throw ELSE Goto("chat") /\ UNCHANGED job
  /\ UNCHANGED <<deferred, dropped, proven, crashes>>

Announce(r) ==   \* notifyChat: errors are logged only
  /\ run.pc = "chat"
  /\ IF cur \in Announced
     THEN /\ Spend(r)
          /\ crm' = IF Landed(r) THEN [crm EXCEPT ![cur].posted = @ + 1]
                                 ELSE crm
     ELSE UNCHANGED <<crm, faults>>
  /\ NextOperation
  /\ UNCHANGED <<deferred, dropped, proven, crashes>>

(***************************************************************************)
(* The workers of the postponed writes run beside the batch worker.        *)
(***************************************************************************)
SetLate(k, o, state) ==
  deferred' = [deferred EXCEPT ![k][o].state = state]
Again(k, o, attempts) ==   \* the job threw
  deferred' = [deferred EXCEPT ![k][o] = Rejected(@, attempts, "queued")]

StartRegistryWrite(o) ==
  /\ deferred["registry"][o].state = "queued"
  /\ SetLate("registry", o, "find")
  /\ UNCHANGED <<job, run, crm, dropped, proven, faults, crashes>>

LateFind(o, r) ==
  /\ deferred["registry"][o].state = "find"
  /\ Spend(r)
  /\ IF r # "ok"
     THEN /\ Again("registry", o, DeferredAttempts)
          /\ IF Landed(r) THEN FillElement(o) ELSE UNCHANGED crm
     ELSE IF crm[o].elements = <<>>
          THEN SetLate("registry", o, "add") /\ UNCHANGED crm
          ELSE FillElement(o) /\ SetLate("registry", o, "locate")
  /\ UNCHANGED <<job, run, dropped, proven, crashes>>

LateAdd(o, r) ==
  /\ deferred["registry"][o].state = "add"
  /\ Spend(r)
  /\ IF Landed(r) THEN AddElement(o, "full") ELSE UNCHANGED crm
  /\ IF r = "ok" THEN SetLate("registry", o, "locate")
                 ELSE Again("registry", o, DeferredAttempts)
  /\ UNCHANGED <<job, run, dropped, proven, crashes>>

LateLocate(o, r) ==    \* findActivityId: no activity yet, nothing to bind
  /\ deferred["registry"][o].state = "locate"
  /\ Spend(r)
  /\ IF r # "ok" THEN Again("registry", o, DeferredAttempts)
     ELSE SetLate("registry", o, IF crm[o].marked > 0 THEN "link" ELSE "done")
  /\ UNCHANGED <<job, run, crm, dropped, proven, crashes>>

LateLink(o, r) ==
  /\ deferred["registry"][o].state = "link"
  /\ Spend(r)
  /\ crm' = IF Landed(r) /\ crm[o].marked > 0
            THEN [crm EXCEPT ![o].linked = TRUE] ELSE crm
  /\ IF r = "ok" /\ crm[o].marked > 0
     THEN SetLate("registry", o, "done")
     ELSE Again("registry", o, DeferredAttempts)
  /\ UNCHANGED <<job, run, dropped, proven, crashes>>

LateBind(o, r) ==   \* handleActivityBindJob
  /\ deferred["binding"][o].state = "queued"
  /\ Spend(r)
  /\ crm' = IF Landed(r) /\ deferred["binding"][o].element
            THEN [crm EXCEPT ![o].linked = TRUE] ELSE crm
  /\ IF r = "ok" THEN SetLate("binding", o, "done")
                 ELSE Again("binding", o, DeferredAttempts)
  /\ UNCHANGED <<job, run, dropped, proven, crashes>>

LateFire(o, r) ==   \* handleTriggerFireJob
  /\ deferred["trigger"][o].state = "queued"
  /\ Spend(r)
  /\ crm' = Fired(o, r)
  /\ IF r = "ok" THEN SetLate("trigger", o, "done")
                 ELSE Again("trigger", o, TriggerAttempts)
  /\ UNCHANGED <<job, run, dropped, proven, crashes>>

(***************************************************************************)
(* One process runs these workers: when it dies every job in hand stalls   *)
(* and is redelivered.  A death inside LateBind or LateFire is a lost      *)
(* answer, and so is one between the call and the move of the job.         *)
(***************************************************************************)
InHand(o) == deferred["registry"][o].state \in {"find", "add", "locate", "link"}
\* Mutant of Stalled: a job whose worker died is not given out again.
StalledForGood(q, redelivered) == [q EXCEPT !.stalls = q.stalls + 1]

Stalled(q, redelivered) ==
  [q EXCEPT !.stalls = q.stalls + 1,
            !.state = IF q.stalls < MaxStalls THEN redelivered ELSE "failed"]

Crash ==
  /\ run.pc # "idle" \/ \E o \in Op : InHand(o)
  /\ crashes < MaxCrashes
  /\ crashes' = crashes + 1
  /\ proven' = FALSE
  /\ run' = Idle
  /\ job' = [j \in Job |-> IF j = run.job THEN Stalled(job[j], "waiting")
                                        ELSE job[j]]
  /\ deferred' = [deferred EXCEPT !["registry"] = [o \in Op |->
       IF InHand(o) THEN Stalled(deferred["registry"][o], "queued")
                    ELSE deferred["registry"][o]]]
  /\ UNCHANGED <<crm, dropped, faults>>

(***************************************************************************)
(* The specification.  A worker that is up keeps calling; a death is never *)
(* forced.                                                                 *)
(***************************************************************************)
Process(r) ==
  \/ Gate(r) \/ Backfill(r) \/ BackfillAdd(r)
  \/ \E queued \in BOOLEAN :
       \/ RegistryFind(r, queued) \/ RegistryAdd(r, queued)
       \/ Bind(r, queued) \/ FireTrigger(r, queued)
  \/ PayRead(r) \/ Pay(r) \/ LedgerFind(r) \/ LedgerAdd(r) \/ LedgerRow(r)
  \/ LedgerSum(r)
  \/ AddActivity(r) \/ MarkActivity(r) \/ VerifyMarker(r) \/ UndoActivity(r)
  \/ Alert(r) \/ TriggerGate(r) \/ FactFind(r) \/ FactAdd(r) \/ FactRow(r)
  \/ Announce(r)
Catchup(o, r) ==
  \/ LateFind(o, r) \/ LateAdd(o, r) \/ LateLocate(o, r) \/ LateLink(o, r)
  \/ LateBind(o, r) \/ LateFire(o, r)
BatchStep == (\E j \in Job : Claim(j)) \/ (\E r \in Reply : Process(r))
LateStep(o) == StartRegistryWrite(o) \/ (\E r \in Reply : Catchup(o, r))

Next ==
  \/ BatchStep \/ Crash
  \/ \E j \in Job : Redeliver(j)
  \/ \E o \in Op : LateStep(o)

Spec == Init /\ [][Next]_vars
FairSpec == Spec /\ WF_vars(BatchStep) /\ \A o \in Op : WF_vars(LateStep(o))

(***************************************************************************)
(* Properties.                                                             *)
(***************************************************************************)
\* However often an operation arrives (a retry, a crash, a second batch that
\* holds it, a re-upload), the portal gets one marked activity, its target is
\* paid once, and each chat hears of it once (handlers.ts:659-701, :876-888).
OncePerOperation ==
  \A o \in Op : /\ crm[o].marked <= 1 /\ crm[o].paid <= 1
                /\ crm[o].alerted <= 1 /\ crm[o].posted <= 1

\* The strengthening of the above that every step preserves: what each place of
\* the handler may rely on about the operation in hand.
Booked == IF AutoDistribute THEN Payable \ Fading ELSE Payable
Ready(o, c) ==
  /\ o \in Payable /\ AutoDistribute => c.paid = 1
  /\ o \in Booked /\ Ledger => c.row /\ c.summed
LedgerSteps == {"ledFind", "ledAdd", "ledRow", "ledSum"}
StoredOnce(o, c) ==
  /\ c.marked \in {0, 1} /\ c.paid \in {0, 1}
  /\ c.alerted \in {0, 1} /\ c.posted \in {0, 1}
  /\ c.marked = 0 => c.alerted = 0 /\ c.posted = 0
  /\ c.marked = 1 => Ready(o, c)
  /\ c.summed => c.row
StepOnce(o, pc) ==
  /\ pc \in BeforeMark => crm[o].marked = 0
  /\ pc \in Marking \cup AfterMark => crm[o].marked = 1 /\ crm[o].posted = 0
  /\ pc \in Marking \cup {"bind", "alert"} => crm[o].alerted = 0
  /\ pc \in {"mark", "undoOrphan"} => crm[o].orphans > 0
  /\ pc \in {"payRead", "pay"} => o \in Payable /\ AutoDistribute
  /\ pc = "pay" => crm[o].paid = 0
  /\ pc \in LedgerSteps => o \in Payable /\ Ledger
  /\ pc \in LedgerSteps /\ AutoDistribute => crm[o].paid = 1
  /\ pc = "ledSum" => crm[o].row
  /\ pc \in {"activity", "mark"} => Ready(o, crm[o])
OnceInv ==
  /\ \A o \in Op : StoredOnce(o, crm[o])
  /\ run.pc # "idle" => StepOnce(cur, run.pc)

\* A job that ends well has recorded each of its operations that has an owner:
\* no error of a step before the marker is swallowed (handlers.ts:970-983).
DoneMeansRecorded ==
  \A j \in Job : \A i \in 1 .. Len(Batch[j]) :
    job[j].state = "done" /\ Batch[j][i] \in Owned
      => crm[Batch[j][i]].marked > 0

Pursued(o) == \* the write of the registry is still under way, or given up openly
  \/ o \in dropped["registry"]
  \/ deferred["registry"][o].state \notin {"none", "done"}

\* The marker closes an operation for every later run, so by then its registry
\* element exists with the columns of the registry, or a registry-write job
\* that will write them does, or the failure was counted (handlers.ts:743-758).
RegistryNotLost ==
  \A o \in Op : PaymentSp /\ crm[o].marked > 0 =>
    \/ \E i \in 1 .. Len(crm[o].elements) : crm[o].elements[i] = "full"
    \/ Pursued(o)

\* The automation trigger of an operation fires once, and once more only for each
\* firing of it whose own answer was lost: no refusal and no error of another call
\* makes it fire again.  Either the run fires it or the retry queue does, and a
\* second run is stopped by the marker or by the fact (handlers.ts:1130-1155).
FiredOnce == \A o \in Op : crm[o].fired <= 1 + crm[o].unheard

\* The import keeps the promise of ImportOnce.  An activity whose marker is
\* still being verified, or that is being deleted, does not count as recorded.
Recorded(o) == crm[o].marked > 0 /\ ~(run.pc \in Marking /\ cur = o)
Promise == INSTANCE ImportOnce WITH
  MustPay <- IF AutoDistribute THEN Payable ELSE {},
  MayEnter <- IF Ledger THEN Payable ELSE {},
  MustEnter <- IF Ledger THEN Booked ELSE {},
  paid <- [o \in Op |-> crm[o].paid],
  entered <- {o \in Op : crm[o].row /\ crm[o].summed},
  recorded <- {o \in Op : Recorded(o)},
  alerted <- [o \in Op |-> crm[o].alerted],
  posted <- [o \in Op |-> crm[o].posted]
ImplementsImportOnce == Promise!Spec

\* Nothing is left hanging: every job, postponed writes included, comes to an
\* end of its attempts (worker.ts:961-971, producers.ts:217-306).
EventuallySettled ==
  /\ \A j \in Job : <>[](job[j].state \in {"done", "failed"})
  /\ \A k \in Kind, o \in Op :
       <>[](deferred[k][o].state \in {"none", "done", "failed"})

\* Fewer errors than attempts and no more deaths than redeliveries lose no
\* operation: every one with an owner is recorded in the end, for good.
EventuallyRecorded ==
  \A j \in Job : \A i \in 1 .. Len(Batch[j]) :
    Batch[j][i] \in Owned => <>[](crm[Batch[j][i]].marked > 0)

(***************************************************************************)
(* What the repository's own comments say of this stage, and the code does *)
(* not keep.                                                               *)
(***************************************************************************)
\* "No write->remember gap to lose" (handlers.ts:1113-1115): an operation has
\* at most one activity, marked or not.
AtMostOneActivity == \A o \in Op : crm[o].marked + crm[o].orphans <= 1

\* "One operation, one registry element ... the write itself is idempotent by
\* the marker" (topology.ts:297-298).
OneRegistryElement == \A o \in Op : Len(crm[o].elements) <= 1

Quiet ==
  /\ \A j \in Job : job[j].state \in {"done", "failed"}
  /\ \A k \in Kind, o \in Op : deferred[k][o].state \in {"none", "done", "failed"}
GivenUp(o) ==
  \E k \in Kind : o \in dropped[k] \/ deferred[k][o].state = "failed"

\* An element that a registry-write job writes gets bound to the activity, by
\* that job or by "the next run" (deferredWriteJobs.ts:82-88).
ElementLinkedInTheEnd ==
  \A o \in Op : Quiet /\ crm[o].marked > 0 /\ crm[o].elements # <<>>
                /\ ~GivenUp(o) => crm[o].linked

\* "A REST error propagates (fail the job -> clean retry)" (handlers.ts:229):
\* the trigger of a recorded operation fires in the end.
TriggerFiredInTheEnd ==
  \A o \in Op : Quiet /\ crm[o].marked > 0 /\ o \in Triggering
                /\ AutoDistribute /\ ~GivenUp(o) => crm[o].fired > 0
=============================================================================
