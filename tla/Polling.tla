------------------------------ MODULE Polling ------------------------------
(***************************************************************************)
(* The poller and the automatic erasure, and the window of days that ties  *)
(* them together.  On every tick the cron asks the bank for the last days  *)
(* of every account; the statement becomes a batch of crm-sync, which      *)
(* writes the activities that Bitrix24 does not hold yet.  Once a day the  *)
(* activities the application created long enough ago are deleted, and     *)
(* with them their markers: what keeps an erased operation from being      *)
(* imported again is only that the bank is no longer asked about its day.  *)
(*                                                                         *)
(* Days are numbered from 1.  The window is counted in UTC, the age of an  *)
(* activity in the portal's zone: for the last three hours of a UTC day it *)
(* is already tomorrow in Minsk.  Each portal has one account.             *)
(***************************************************************************)
EXTENDS Naturals, FiniteSets, FiniteSetsExt

CONSTANTS
    Portals,      \* the portals are 1..Portals, in the order of member_id
    Op,           \* operations of the bank
    Of,           \* the portal whose account each operation is on
    Lookback,     \* CRON_LOOKBACK_DAYS
    MinDays,      \* AUTO_ERASE_MIN_DAYS
    Grace,        \* AUTO_ERASE_GRACE_DAYS
    MaxTerm,      \* AUTO_ERASE_MAX_DAYS
    MaxPortals,   \* MAX_AUTO_ERASE_PORTALS
    Attempts,     \* attempts of a job
    MaxDays,      \* bound: days that pass
    MaxFaults,    \* bound: calls that fail
    MaxAsks       \* bound: statements asked for by hand

ASSUME PollingAssumption ==
    /\ {Portals, Attempts, MaxDays, MaxPortals} \subseteq Nat \ {0}
    /\ {Lookback, MinDays, Grace, MaxTerm, MaxFaults, MaxAsks} \subseteq Nat
    /\ Of \in [Op -> 1..Portals]

VARIABLES
    day,        \* today in UTC
    evening,    \* the portals are already in the next day
    bank,       \* the day of each operation the bank shows; 0: not yet
    paused,     \* the connections whose polling is paused
    fetch,      \* the fetch jobs Redis holds
    crm,        \* the batches of crm-sync Redis holds
    created,    \* the day an activity was created, for those in Bitrix24
    trace,      \* the portals with a row in import_result
    eraser,     \* the portals a run of the erasure has still to visit
    cutoff,     \* the first day that run keeps
    erased,     \* the operations whose activity was erased
    asked,      \* the days asked for by hand, for each portal
    faults, asks

world == <<day, evening, bank, paused>>
queues == <<fetch, crm>>
history == <<erased, asked>>
pollVars == <<world, queues, created, trace, eraser, cutoff, history,
              faults, asks>>

Portal == 1..Portals
Day == 1..MaxDays
Window == [portal : Portal, from : 0..MaxDays, to : Day]
Status == {"waiting", "done", "failed"}
FetchJob == [window : Window, epoch : 0..MaxAsks,
             status : Status \ {"done"}, tries : 0..Attempts]
Batch == [window : Window, items : (SUBSET Op) \ {{}},
          status : Status, tries : 0..Attempts]

PortalDay == IF evening THEN day + 1 ELSE day

Waiting(jobs) == {j \in jobs : j.status = "waiting"}
FetchId(j) == <<j.window, j.epoch>>
BatchId(j) == <<j.window, j.items>>
FetchIds == {FetchId(j) : j \in fetch}

(***************************************************************************)
(* The type of the state, and that no two jobs of a queue share an id.     *)
(***************************************************************************)
PollTypeOK ==
    /\ day \in Day
    /\ evening \in BOOLEAN
    /\ bank \in [Op -> 0..MaxDays]
    /\ paused \subseteq Portal
    /\ fetch \subseteq FetchJob
    /\ \A i, j \in fetch : FetchId(i) = FetchId(j) => i = j
    /\ crm \subseteq Batch
    /\ \A i, j \in crm : BatchId(i) = BatchId(j) => i = j
    /\ created \in [Op -> 0..MaxDays + 1]
    /\ trace \subseteq Portal
    /\ eraser \subseteq Portal
    /\ cutoff \in 0..MaxDays + 1
    /\ erased \subseteq Op
    /\ asked \in [Portal -> SUBSET Day]
    /\ faults \in 0..MaxFaults
    /\ asks \in 0..MaxAsks

PollInit ==
    /\ day = 1
    /\ evening = FALSE
    /\ bank = [o \in Op |-> 0]
    /\ paused = {}
    /\ fetch = {}
    /\ crm = {}
    /\ created = [o \in Op |-> 0]
    /\ trace = {}
    /\ eraser = {}
    /\ cutoff = 0
    /\ erased = {}
    /\ asked = [p \in Portal |-> {}]
    /\ faults = 0
    /\ asks = 0

----------------------------------------------------------------------------
(***************************************************************************)
(* The world.  A bank shows an operation on its day or later, for good;    *)
(* the operator pauses and resumes a connection; time passes.              *)
(***************************************************************************)
Post(o) ==
    /\ bank[o] = 0
    /\ \E d \in 1..day : bank' = [bank EXCEPT ![o] = d]
    /\ UNCHANGED <<day, evening, paused, queues, created, trace, eraser,
                   cutoff, history, faults, asks>>

Pause(p) ==
    /\ p \notin paused
    /\ paused' = paused \union {p}
    /\ UNCHANGED <<day, evening, bank, queues, created, trace, eraser,
                   cutoff, history, faults, asks>>

Resume(p) ==
    /\ p \in paused
    /\ paused' = paused \ {p}
    /\ UNCHANGED <<day, evening, bank, queues, created, trace, eraser,
                   cutoff, history, faults, asks>>

Evening ==
    /\ ~evening
    /\ evening' = TRUE
    /\ UNCHANGED <<day, bank, paused, queues, created, trace, eraser, cutoff,
                   history, faults, asks>>

Midnight ==
    /\ evening
    /\ day < MaxDays
    /\ day' = day + 1
    /\ evening' = FALSE
    /\ UNCHANGED <<bank, paused, queues, created, trace, eraser, cutoff,
                   history, faults, asks>>

----------------------------------------------------------------------------
(***************************************************************************)
(* The producers.  Redis ignores a job whose id it still holds; the id of  *)
(* a fetch is its window (and the moment of a request by hand), the id of  *)
(* a batch its window and its content.                                     *)
(***************************************************************************)
PollWindow(p) ==
    [portal |-> p,
     from |-> IF day > Lookback THEN day - Lookback ELSE 0,
     to |-> day]

FetchFor(window, epoch) ==
    [window |-> window, epoch |-> epoch, status |-> "waiting", tries |-> 0]

\* Mutant: a second job is added beside the one that holds the id.
MutantOfEnqueueFetch(job) == fetch \union {job}

EnqueueFetch(job) ==
    IF FetchId(job) \in FetchIds THEN fetch ELSE fetch \union {job}

UnstickFailedOnly(job) ==
    {b \in crm : ~(BatchId(b) = BatchId(job) /\ b.status = "failed")}

EnqueueCrmSync(job) ==
    IF \E b \in UnstickFailedOnly(job) : BatchId(b) = BatchId(job)
    THEN crm
    ELSE UnstickFailedOnly(job) \union {job}

\* The tick of the cron, as it reaches one account.
Poll(p) ==
    /\ p \notin paused
    /\ fetch' = EnqueueFetch(FetchFor(PollWindow(p), 0))
    /\ UNCHANGED <<world, crm, created, trace, eraser, cutoff, history,
                   faults, asks>>

\* "Poll now": the usual window, or one day of the past.
PollNow(p) ==
    /\ p \notin paused
    /\ asks < MaxAsks
    /\ asks' = asks + 1
    /\ \/ /\ fetch' = EnqueueFetch(FetchFor(PollWindow(p), asks'))
          /\ asked' = asked
       \/ \E d \in 1..day :
            /\ fetch' = EnqueueFetch(
                  FetchFor([portal |-> p, from |-> d, to |-> d], asks'))
            /\ asked' = [asked EXCEPT ![p] = @ \union {d}]
    /\ UNCHANGED <<world, crm, created, trace, eraser, cutoff, erased, faults>>

----------------------------------------------------------------------------
(***************************************************************************)
(* The workers.  A fetch reads the statement of its window, leaves its     *)
(* trace in import_result, hands the operations on when there are any, and *)
(* frees its id by leaving Redis; one that fails, in the call to the bank, *)
(* keeps its id.  A batch writes what has no activity yet; one that fails  *)
(* has written a part of it.                                               *)
(***************************************************************************)
Shown(window) ==
    {o \in Op : /\ Of[o] = window.portal
                /\ bank[o] \in Max({1, window.from})..window.to}

BatchOf(window) ==
    [window |-> window, items |-> Shown(window),
     status |-> "waiting", tries |-> 0]

Missed(job) ==
    [job EXCEPT !.tries = @ + 1,
                !.status = IF job.tries + 1 = Attempts
                           THEN "failed" ELSE "waiting"]

HandleFetch(job) ==
    /\ job \in Waiting(fetch)
    /\ fetch' = fetch \ {job}
    /\ crm' = IF Shown(job.window) = {}
              THEN crm ELSE EnqueueCrmSync(BatchOf(job.window))
    /\ trace' = trace \union {job.window.portal}
    /\ UNCHANGED <<world, created, eraser, cutoff, history, faults, asks>>

FetchFails(job) ==
    /\ job \in Waiting(fetch)
    /\ faults < MaxFaults
    /\ faults' = faults + 1
    /\ fetch' = (fetch \ {job}) \union {Missed(job)}
    /\ UNCHANGED <<world, crm, created, trace, eraser, cutoff, history, asks>>

Written(items) ==
    [o \in Op |-> IF o \in items /\ created[o] = 0
                  THEN PortalDay ELSE created[o]]

HandleCrmSync(job) ==
    /\ job \in Waiting(crm)
    /\ created' = Written(job.items)
    /\ trace' = trace \union {job.window.portal}
    /\ crm' = (crm \ {job}) \union {[job EXCEPT !.status = "done"]}
    /\ UNCHANGED <<world, fetch, eraser, cutoff, history, faults, asks>>

CrmSyncFails(job) ==
    /\ job \in Waiting(crm)
    /\ faults < MaxFaults
    /\ faults' = faults + 1
    /\ \E items \in SUBSET job.items : created' = Written(items)
    /\ crm' = (crm \ {job}) \union {Missed(job)}
    /\ UNCHANGED <<world, fetch, trace, eraser, cutoff, history, asks>>

(***************************************************************************)
(* Age frees the ids of finished jobs.  Redis looks at the age only when   *)
(* another job of the queue ends, so what is certain to go is what the     *)
(* sweep cleans.                                                           *)
(***************************************************************************)
\* Mutant: the fetch queue is not swept.
MutantOfSwept == {"crm-sync"}

Swept == {"bank-fetch", "crm-sync"}

SweepFetch ==
    /\ "bank-fetch" \in Swept
    /\ \E j \in fetch \ Waiting(fetch) : fetch' = fetch \ {j}
    /\ UNCHANGED <<world, crm, created, trace, eraser, cutoff, history,
                   faults, asks>>

SweepCrm ==
    /\ "crm-sync" \in Swept
    /\ \E b \in crm \ Waiting(crm) : crm' = crm \ {b}
    /\ UNCHANGED <<world, fetch, created, trace, eraser, cutoff, history,
                   faults, asks>>

----------------------------------------------------------------------------
(***************************************************************************)
(* The automatic erasure, switched on in every portal.  A run keeps the    *)
(* cutoff it began with and visits the first MaxPortals portals with a     *)
(* trace of an import.  A run on the very first days is left out: nothing  *)
(* can be older than day 1.                                                *)
(***************************************************************************)
\* Mutant: the threshold forgets the window.
MutantOfThresholdDays == Min({MaxTerm, Max({MinDays, Grace})})

ThresholdDays == Min({MaxTerm, Max({MinDays, Lookback + Grace})})

Cutoff == IF PortalDay > ThresholdDays THEN PortalDay - ThresholdDays ELSE 0

Candidates == {p \in trace : Cardinality({q \in trace : q < p}) < MaxPortals}

StartErase ==
    /\ eraser = {}
    /\ Candidates # {}
    /\ Cutoff > 1
    /\ eraser' = Candidates
    /\ cutoff' = Cutoff
    /\ UNCHANGED <<world, queues, created, trace, history, faults, asks>>

Erasable(p) ==
    {o \in Op : Of[o] = p /\ created[o] # 0 /\ created[o] < cutoff}

Without(ops) == [o \in Op |-> IF o \in ops THEN 0 ELSE created[o]]

ErasePortal ==
    /\ eraser # {}
    /\ created' = Without(Erasable(Min(eraser)))
    /\ erased' = erased \union Erasable(Min(eraser))
    /\ eraser' = eraser \ {Min(eraser)}
    /\ cutoff' = IF eraser' = {} THEN 0 ELSE cutoff
    /\ UNCHANGED <<world, queues, trace, asked, faults, asks>>

\* The portal does not say whether it wants this, or a call fails half-way:
\* the run goes on with the next portal.
EraseFails ==
    /\ eraser # {}
    /\ faults < MaxFaults
    /\ faults' = faults + 1
    /\ \E ops \in SUBSET Erasable(Min(eraser)) :
         /\ created' = Without(ops)
         /\ erased' = erased \union ops
    /\ eraser' = eraser \ {Min(eraser)}
    /\ cutoff' = IF eraser' = {} THEN 0 ELSE cutoff
    /\ UNCHANGED <<world, queues, trace, asked, asks>>

----------------------------------------------------------------------------
PollNext ==
    \/ \E o \in Op : Post(o)
    \/ \E p \in Portal : Pause(p) \/ Resume(p) \/ Poll(p) \/ PollNow(p)
    \/ Evening \/ Midnight
    \/ \E j \in fetch : HandleFetch(j) \/ FetchFails(j)
    \/ \E b \in crm : HandleCrmSync(b) \/ CrmSyncFails(b)
    \/ SweepFetch \/ SweepCrm
    \/ StartErase \/ ErasePortal \/ EraseFails

PollSpec == PollInit /\ [][PollNext]_pollVars

(***************************************************************************)
(* The cron ticks for ever, the workers take what waits (of a portal's     *)
(* jobs at least the ones of today's window), the sweep and the daily run  *)
(* of the erasure come round.  Nothing makes the clock move, the bank post *)
(* or the operator resume.                                                 *)
(***************************************************************************)
Today(jobs, p) == {j \in jobs : j.window = PollWindow(p)}

PollFairness ==
    /\ \A p \in Portal :
         /\ WF_pollVars(Poll(p))
         /\ WF_pollVars(\E j \in Today(fetch, p) : HandleFetch(j))
         /\ WF_pollVars(\E b \in Today(crm, p) : HandleCrmSync(b))
    /\ WF_pollVars(SweepFetch)

EraseFairness == WF_pollVars(StartErase) /\ WF_pollVars(ErasePortal)

FairPollSpec == PollSpec /\ PollFairness
FairEraseSpec == FairPollSpec /\ EraseFairness

----------------------------------------------------------------------------
(***************************************************************************)
(* An erased activity does not come back by itself: while the term is not  *)
(* capped, it lies beyond every window the cron asks for and beyond those  *)
(* of the jobs still waiting, with the two calendars three hours apart.    *)
(* Two ways back are left: a person asks for that day, or a batch is       *)
(* written so late that the grace, counted from the end of its window, has *)
(* run out.                                                                *)
(***************************************************************************)
AskedFor(o) == bank[o] \in asked[Of[o]]

\* This step writes the operation from a batch that is Grace days late.
TooLate(o) ==
    \E b \in Waiting(crm) :
        b \notin crm' /\ o \in b.items /\ b.window.to + Grace <= day

ErasedStaysErased ==
    [][\A o \in erased :
          created[o] = 0 /\ created'[o] # 0
             => AskedFor(o) \/ TooLate(o)]_pollVars

(***************************************************************************)
(* What the bank shows of a day the poller still asks about reaches the    *)
(* CRM: neither the ids of jobs that failed, nor those of finished batches *)
(* that are kept to save work, shut it out.                                *)
(***************************************************************************)
Wanted(o) ==
    /\ bank[o] # 0
    /\ Of[o] \notin paused
    /\ bank[o] + Lookback >= day

Delivered ==
    \A o \in Op : <>[]Wanted(o) => <>(created[o] # 0)

(***************************************************************************)
(* What a run of the erasure leaves, a later run takes: no activity stays  *)
(* past its term for ever (importResultStore.ts:174-175).                  *)
(***************************************************************************)
Overdue(o) == created[o] # 0 /\ created[o] < Cutoff

ErasedInTheEnd == \A o \in Op : ~<>[]Overdue(o)
=============================================================================
