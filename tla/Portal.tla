------------------------------- MODULE Portal -------------------------------
(***************************************************************************)
(* What the server keeps of one portal: the OAuth pair of its installation *)
(* (portal_tokens), the tombstone of its removal (portal_tombstone) and the*)
(* bank connections, from the events of Bitrix24 to the reaper             *)
(* (src/server/utils/b24EventsHandler.ts, tokenStore.ts, portalPurge.ts,   *)
(* ensureAccessToken.ts, portalReaperRun.ts, the events worker).           *)
(*                                                                         *)
(* The portal installs and removes the app in turn, so its event number n  *)
(* is an installation when n is odd.  The number is the event's timestamp, *)
(* and that of an installation names the grant it brings.  Bitrix24 does   *)
(* not send an event twice.                                                *)
(***************************************************************************)
EXTENDS Integers, Sequences, FiniteSets

CONSTANTS
  MaxTime,      \* bound on the portal's events
  MaxAttempts,  \* attempts of an event job
  MaxRot,       \* bound on the refreshes of one grant
  MaxFaults,    \* bound on failed statements and deaths
  Refresher,    \* ensureAccessToken, which holds the portal's lock and so is one at a
                \* time, and SDK clients, which refresh without the lock
  Caller,       \* the SDK clients of crm-sync, which work while a bank is polled
  InOrder,      \* whether a portal's events arrive, and are queued, in their order
  Outage,       \* whether Redis may refuse a job
  Reaps         \* PORTAL_REAP_ENABLED

ASSUME PortalAssumption ==
  /\ MaxTime \in Nat /\ MaxAttempts \in Nat \ {0} /\ MaxRot \in Nat /\ MaxFaults \in Nat
  /\ Caller \subseteq Refresher
  /\ InOrder \in BOOLEAN /\ Outage \in BOOLEAN /\ Reaps \in BOOLEAN

VARIABLES
  clock,        \* events of the portal so far
  auth,         \* the pair that Bitrix24 would refresh
  ev, tries,    \* what became of each event, and failed attempts of its job
  queue,        \* jobs of b24-events that are due, oldest first
  row,          \* the row of portal_tokens: pair and grant_revoked_at
  tomb,         \* deleted_ts of the tombstone, 0 without one
  bank,         \* whether bank_tokens holds a connection of the portal
  connect,      \* whether an administrator is at the bank to connect it
  proc,         \* the processes inside saveToken or purgePortalStorage
  ref,          \* the refreshers of the pair
  stored,       \* history: newest installation whose pair was ever written
  excuse,       \* history: what has happened of the things that spoil the order
  misjudged,    \* history: pairs that were marked for the refusal of another pair
  late,         \* history: the connection came after the purge looked
  faults

vars == <<clock, auth, ev, tries, queue, row, tomb, bank, connect, proc, ref,
          stored, excuse, misjudged, late, faults>>
-----------------------------------------------------------------------------
Time == 1..MaxTime
Installs == {t \in Time : t % 2 = 1}
Pair == [grant: 0..MaxTime, rot: Nat]
NoPair == [grant |-> 0, rot |-> 0]
Row == [live: BOOLEAN, pair: Pair, mark: {"none", "fresh", "old"}]
NoRow == [live |-> FALSE, pair |-> NoPair, mark |-> "none"]

\* The events worker (one, one job at a time), the HTTP process that writes by
\* itself when Redis is down, and the reaper.
Proc == {"worker", "http", "reaper"}
Free == [at |-> "idle", ts |-> 0, step |-> 1, seen |-> NoPair]
Asleep == [at |-> "idle", seen |-> NoPair]

Init ==
  /\ clock = 0 /\ auth = NoPair
  /\ ev = [t \in Time |-> "none"] /\ tries = [t \in Time |-> 0] /\ queue = <<>>
  /\ row = NoRow /\ tomb = 0 /\ bank = FALSE /\ connect = FALSE
  /\ proc = [p \in Proc |-> Free] /\ ref = [r \in Refresher |-> Asleep]
  /\ stored = 0 /\ excuse = {} /\ misjudged = {} /\ late = FALSE /\ faults = 0

Larger(a, b) == IF a < b THEN b ELSE a
Works(pair) == pair.grant # 0 /\ pair = auth
-----------------------------------------------------------------------------
(* The portal, and its events on the way: handleEventRequest.  An event that  *)
(* is never received is lost.                                                *)

PortalActs ==
  /\ clock < MaxTime
  /\ clock' = clock + 1
  /\ ev' = [ev EXCEPT ![clock + 1] = "sent"]
  /\ auth' = IF clock + 1 \in Installs THEN [grant |-> clock + 1, rot |-> 0] ELSE NoPair
  /\ UNCHANGED <<tries, queue, row, tomb, bank, connect, proc, ref, stored,
                 excuse, misjudged, late, faults>>

Arrives(t) ==
  /\ ev[t] = "sent"
  /\ InOrder => \A s \in Time : /\ ev[s] # "verified"
                                /\ s > t => ev[s] \in {"none", "sent"}

\* The grant is refreshed to see whose it is (bindInstallMember); the refreshed
\* pair is what will be stored.  A dead grant is answered 403.
ReceiveInstall(t) ==
  /\ Arrives(t) /\ t \in Installs
  /\ IF auth.grant = t
     THEN /\ auth' = [auth EXCEPT !.rot = 1]
          /\ ev' = [ev EXCEPT ![t] = "verified"]
     ELSE /\ ev' = [ev EXCEPT ![t] = "lost"]
          /\ UNCHANGED auth
  /\ UNCHANGED <<clock, tries, queue, row, tomb, bank, connect, proc, ref,
                 stored, excuse, misjudged, late, faults>>

\* A removal is verified by the stored application token: without a row, 503.
ReceiveUninstall(t) ==
  /\ Arrives(t) /\ t \notin Installs
  /\ ev' = [ev EXCEPT ![t] = IF row.live THEN "verified" ELSE "lost"]
  /\ UNCHANGED <<clock, auth, tries, queue, row, tomb, bank, connect, proc, ref,
                 stored, excuse, misjudged, late, faults>>

Enqueue(t) ==
  /\ ev[t] = "verified"
  /\ ev' = [ev EXCEPT ![t] = "queued"]
  /\ queue' = Append(queue, t)
  /\ UNCHANGED <<clock, auth, tries, row, tomb, bank, connect, proc, ref,
                 stored, excuse, misjudged, late, faults>>

Started(t) == [Free EXCEPT !.at = IF t \in Installs THEN "check" ELSE "purge", !.ts = t]

\* Redis is down: the route applies the event itself.
FallBack(t) ==
  /\ Outage /\ ev[t] = "verified" /\ proc["http"].at = "idle"
  /\ ev' = [ev EXCEPT ![t] = "active"]
  /\ proc' = [proc EXCEPT !["http"] = Started(t)]
  /\ UNCHANGED <<clock, auth, tries, queue, row, tomb, bank, connect, ref,
                 stored, excuse, misjudged, late, faults>>

Take ==
  /\ proc["worker"].at = "idle" /\ queue # <<>>
  /\ ev' = [ev EXCEPT ![Head(queue)] = "active"]
  /\ queue' = Tail(queue)
  /\ proc' = [proc EXCEPT !["worker"] = Started(Head(queue))]
  /\ UNCHANGED <<clock, auth, tries, row, tomb, bank, connect, ref, stored,
                 excuse, misjudged, late, faults>>

\* The backoff of a failed attempt is over.
Due(t) ==
  /\ ev[t] = "delayed"
  /\ ev' = [ev EXCEPT ![t] = "queued"]
  /\ queue' = Append(queue, t)
  /\ UNCHANGED <<clock, auth, tries, row, tomb, bank, connect, proc, ref,
                 stored, excuse, misjudged, late, faults>>

\* The process is through with what it does; the reaper's run is no event.
Finish(p) ==
  /\ proc' = [proc EXCEPT ![p] = Free]
  /\ ev' = IF p = "reaper" THEN ev ELSE [ev EXCEPT ![proc[p].ts] = "done"]

-----------------------------------------------------------------------------
(* saveToken: three statements                                              *)

\* Mutant of Blocked: the tombstone is not looked up.
MutantOfBlocked(t) == FALSE
Blocked(t) == tomb # 0 /\ tomb >= t

CheckTomb(p) ==
  /\ proc[p].at = "check"
  /\ IF Blocked(proc[p].ts)
     THEN Finish(p)
     ELSE /\ proc' = [proc EXCEPT ![p].at = "write"]
          /\ UNCHANGED ev
  /\ UNCHANGED <<clock, auth, tries, queue, row, tomb, bank, connect, ref,
                 stored, excuse, misjudged, late, faults>>

\* Mutant of Saved: a stored pair leaves the mark of a dead grant.
MutantOfSaved(pair) == [live |-> TRUE, pair |-> pair, mark |-> row.mark]
Saved(pair) == [live |-> TRUE, pair |-> pair, mark |-> "none"]

WriteRow(p) ==
  /\ proc[p].at = "write"
  /\ row' = Saved([grant |-> proc[p].ts, rot |-> 1])
  /\ excuse' = excuse \cup (IF stored > proc[p].ts THEN {"overtaken"} ELSE {})
  /\ stored' = Larger(stored, proc[p].ts)
  /\ proc' = [proc EXCEPT ![p].at = "clear"]
  /\ UNCHANGED <<clock, auth, ev, tries, queue, tomb, bank, connect, ref,
                 misjudged, late, faults>>

ClearTomb(p) ==
  /\ proc[p].at = "clear"
  /\ tomb' = IF tomb < proc[p].ts THEN 0 ELSE tomb
  /\ Finish(p)
  /\ UNCHANGED <<clock, auth, tries, queue, row, bank, connect, ref, stored,
                 excuse, misjudged, late, faults>>

-----------------------------------------------------------------------------
(* purgePortalStorage: statement after statement, no transaction            *)

\* Mutant of PurgeOrder: the portal's own row first.
MutantOfPurgeOrder == <<"token", "bank">>
PurgeOrder == <<"bank", "token">>
Erasing(p, what) == proc[p].at = "purge" /\ PurgeOrder[proc[p].step] = what

StepDone(p) ==
  IF proc[p].step < Len(PurgeOrder)
  THEN proc' = [proc EXCEPT ![p].step = @ + 1] /\ UNCHANGED ev
  ELSE Finish(p)

EraseBank(p) ==
  /\ Erasing(p, "bank")
  /\ bank' = FALSE /\ late' = FALSE
  /\ StepDone(p)
  /\ UNCHANGED <<clock, auth, tries, queue, row, tomb, connect, ref, stored,
                 excuse, misjudged, faults>>

Tombstone(t) == Larger(tomb, t)

\* deleteToken: one statement, whatever row stands there.
EraseToken(p) ==
  /\ Erasing(p, "token")
  /\ row' = NoRow
  /\ tomb' = Tombstone(proc[p].ts)
  /\ excuse' = excuse
       \cup (IF p = "reaper" THEN {"reaped"} ELSE {})
       \cup (IF p # "reaper" /\ stored > proc[p].ts THEN {"overtaken"} ELSE {})
       \cup (IF \E q \in Proc \ {p} : proc[q].at = "write" /\ proc[q].ts < proc[p].ts
             THEN {"overlap"} ELSE {})
  /\ StepDone(p)
  /\ UNCHANGED <<clock, auth, tries, queue, bank, connect, ref, stored,
                 misjudged, late, faults>>

\* A statement fails, or the process dies: the worker's job comes back after a
\* pause; what the route was doing nobody does again; the reaper has its next run.
ProcFails(p) ==
  /\ proc[p].at # "idle" /\ faults < MaxFaults /\ faults' = faults + 1
  /\ LET t == proc[p].ts IN
       CASE p = "worker" ->
              /\ tries' = [tries EXCEPT ![t] = @ + 1]
              /\ ev' = [ev EXCEPT ![t] =
                   IF tries[t] + 1 < MaxAttempts THEN "delayed" ELSE "failed"]
         [] p = "http" -> ev' = [ev EXCEPT ![t] = "failed"] /\ UNCHANGED tries
         [] p = "reaper" -> UNCHANGED <<ev, tries>>
  /\ proc' = [proc EXCEPT ![p] = Free]
  /\ UNCHANGED <<clock, auth, queue, row, tomb, bank, connect, ref, stored,
                 excuse, misjudged, late>>

-----------------------------------------------------------------------------
(* The reaper: runPortalReaper                                              *)

\* A month has passed since the mark; nobody has stored a pair in it.
Age ==
  /\ row.mark = "fresh"
  /\ row' = [row EXCEPT !.mark = "old"]
  /\ UNCHANGED <<clock, auth, ev, tries, queue, tomb, bank, connect, proc, ref,
                 stored, excuse, misjudged, late, faults>>

\* Mutant of RunTime: the clock in milliseconds, as it comes from Date.now.
MutantOfRunTime == 1000 * clock
\* The tombstone will carry the time of the run, in seconds as the events do.
RunTime == clock

Select ==
  /\ Reaps /\ proc["reaper"].at = "idle"
  /\ row.live /\ row.mark = "old"
  /\ proc' = [proc EXCEPT !["reaper"] =
       [Free EXCEPT !.at = "purge", !.ts = RunTime, !.seen = row.pair]]
  /\ UNCHANGED <<clock, auth, ev, tries, queue, row, tomb, bank, connect, ref,
                 stored, excuse, misjudged, late, faults>>

-----------------------------------------------------------------------------
(* Refreshing the pair: ensureAccessToken, and the SDK                      *)

Load(r) ==
  /\ ref[r].at = "idle" /\ row.live
  /\ ref' = [ref EXCEPT ![r] = [at |-> "post", seen |-> row.pair]]
  /\ UNCHANGED <<clock, auth, ev, tries, queue, row, tomb, bank, connect, proc,
                 stored, excuse, misjudged, late, faults>>

\* A refresh token serves once; a second use of it is answered invalid_grant.
Post(r) ==
  /\ ref[r].at = "post"
  /\ IF Works(ref[r].seen)
     THEN /\ auth.rot < MaxRot
          /\ auth' = [auth EXCEPT !.rot = @ + 1]
          /\ ref' = [ref EXCEPT ![r] = [at |-> "save", seen |-> auth']]
     ELSE /\ ref' = [ref EXCEPT ![r].at = "mark"]
          /\ UNCHANGED auth
  /\ UNCHANGED <<clock, ev, tries, queue, row, tomb, bank, connect, proc,
                 stored, excuse, misjudged, late, faults>>

\* updatePortalTokenSecrets: an update, of whatever row stands there.
Refreshed(pair) == IF row.live THEN Saved(pair) ELSE row

SavePair(r) ==
  /\ ref[r].at = "save"
  /\ row' = Refreshed(ref[r].seen)
  /\ excuse' = excuse \cup
       (IF row.live /\ row.pair.grant # ref[r].seen.grant THEN {"clobbered"} ELSE {})
  /\ ref' = [ref EXCEPT ![r] = Asleep]
  /\ UNCHANGED <<clock, auth, ev, tries, queue, tomb, bank, connect, proc,
                 stored, misjudged, late, faults>>

\* Mutant of Marked: the mark is rolled back with the refresh that failed.
MutantOfMarked == row.mark
Marked == IF row.live /\ row.mark = "none" THEN "fresh" ELSE row.mark

\* markGrantRevoked counts from the first refusal.
MarkDead(r) ==
  /\ ref[r].at = "mark"
  /\ row' = [row EXCEPT !.mark = Marked]
  /\ misjudged' = misjudged \cup
       (IF row.live /\ row.mark = "none" /\ row.pair # ref[r].seen THEN {row.pair} ELSE {})
  /\ ref' = [ref EXCEPT ![r] = Asleep]
  /\ UNCHANGED <<clock, auth, ev, tries, queue, tomb, bank, connect, proc,
                 stored, excuse, late, faults>>

\* A death between the answer and the store loses the pair.
RefresherDies(r) ==
  /\ ref[r].at # "idle" /\ faults < MaxFaults /\ faults' = faults + 1
  /\ ref' = [ref EXCEPT ![r] = Asleep]
  /\ UNCHANGED <<clock, auth, ev, tries, queue, row, tomb, bank, connect, proc,
                 stored, excuse, misjudged, late>>

-----------------------------------------------------------------------------
(* A bank is connected: the callback has only the signed state to go by     *)

GoToBank ==
  /\ ~connect /\ row.live
  /\ connect' = TRUE
  /\ UNCHANGED <<clock, auth, ev, tries, queue, row, tomb, bank, proc, ref,
                 stored, excuse, misjudged, late, faults>>

Callback ==
  /\ connect /\ connect' = FALSE
  /\ bank' = TRUE
  /\ late' = (late \/ ~row.live \/ \E p \in Proc : Erasing(p, "token"))
  /\ UNCHANGED <<clock, auth, ev, tries, queue, row, tomb, proc, ref, stored,
                 excuse, misjudged, faults>>

-----------------------------------------------------------------------------
Receive(t) == ReceiveInstall(t) \/ ReceiveUninstall(t) \/ Enqueue(t) \/ FallBack(t)
ProcStep(p) ==
  CheckTomb(p) \/ WriteRow(p) \/ ClearTomb(p) \/ EraseBank(p) \/ EraseToken(p)
RefStep(r) == Load(r) \/ Post(r) \/ SavePair(r) \/ MarkDead(r)

Next ==
  \/ PortalActs
  \/ \E t \in Time : Receive(t) \/ Due(t)
  \/ Take
  \/ \E p \in Proc : ProcStep(p) \/ ProcFails(p)
  \/ Age \/ Select
  \/ \E r \in Refresher : RefStep(r) \/ RefresherDies(r)
  \/ GoToBank \/ Callback

Spec == Init /\ [][Next]_vars

\* The route answers what it has received, the worker takes its jobs, the reaper
\* has its timer, a call goes on.  No event has to arrive.  A bank that is polled goes
\* on yielding operations, and crm-sync calls the portal for each.  Nobody has to look
\* at a portal without a bank: the keep-alive does in three days of 180
\* (tokenKeepAlive.ts), and makes no promise here.
FairSpec ==
  /\ Spec
  /\ \A t \in Time : WF_vars(Enqueue(t) \/ FallBack(t)) /\ WF_vars(Due(t))
  /\ WF_vars(Take)
  /\ \A p \in Proc : WF_vars(ProcStep(p))
  /\ WF_vars(Age) /\ WF_vars(Select)
  /\ \A r \in Refresher : WF_vars(Post(r) \/ SavePair(r) \/ MarkDead(r))
  /\ \A r \in Caller : WF_vars(bank /\ Load(r))
-----------------------------------------------------------------------------
TypeOK ==
  /\ clock \in 0..MaxTime /\ auth \in Pair
  /\ ev \in [Time -> {"none", "sent", "lost", "verified", "queued", "active",
                      "delayed", "done", "failed"}]
  /\ tries \in [Time -> Nat] /\ queue \in Seq(Time)
  /\ row \in Row /\ tomb \in 0..MaxTime
  /\ bank \in BOOLEAN /\ connect \in BOOLEAN
  /\ proc \in [Proc -> [at: {"idle", "check", "write", "clear", "purge"},
                        ts: 0..MaxTime, step: {1, 2}, seen: Pair]]
  /\ \A p \in Proc : proc[p].at # "idle" => proc[p].ts \in Time
  /\ \A p \in Proc : proc[p].at \in {"check", "write", "clear"} => p # "reaper"
  /\ ref \in [Refresher -> [at: {"idle", "post", "save", "mark"}, seen: Pair]]
  /\ stored \in 0..MaxTime
  /\ excuse \in SUBSET {"overtaken", "overlap", "clobbered", "reaped"}
  /\ misjudged \in SUBSET Pair /\ late \in BOOLEAN /\ faults \in Nat

\* No credentials of a bank outlive the portal's own row: the purge erases them
\* first, and stops where it fails.  A connection is left behind only when its
\* callback came after the purge had looked, or to a portal already gone.
BankGoesFirst == bank => row.live \/ late

Applied == {t \in Time : ev[t] = "done"}
Newest == CHOOSE t \in Applied : \A s \in Applied : s <= t
Quiet ==
  /\ \A t \in Time : ev[t] \notin {"verified", "queued", "active", "delayed", "failed"}
  /\ proc["reaper"].at = "idle"
\* docs/QUEUES.md, docs/B24_EVENTS.md: the order of a portal's events is kept.
\* When every accepted event has been applied, the newest one has decided:
\* removed means no row, installed means the row with that grant.
NewestDecides ==
  Quiet /\ Applied # {} =>
    /\ row.live <=> Newest \in Installs
    /\ row.live => row.pair.grant = Newest

\* It does, unless one of four things has happened: a job was applied after a
\* newer installation was stored, a removal by one process came between the
\* look-up and the write of a registration by another, a refresh begun before a
\* reinstallation was saved after it, or the reaper has erased the portal.
NewestDecidesElse == NewestDecides \/ excuse # {}

Reaped ==
  /\ row.live /\ ~row'.live
  /\ Erasing("reaper", "token") /\ proc' # proc /\ proc'["reaper"].at = "idle"

\* portalReaperRun.ts:4-5: the point is not to touch a live portal.  The reaper erases
\* one only if its stored pair is dead, or was replaced while the run was on.
ReapedOnlyDead ==
  [][Reaped => row.pair # proc["reaper"].seen \/ ~Works(row.pair)]_vars

\* So it does, however long the portal is silent, but for a pair that was marked
\* because another one, read before a refresh or a reinstallation, was refused.
ErasedOnlyDead ==
  [][Reaped => \/ row.pair # proc["reaper"].seen \/ ~Works(row.pair)
               \/ row.pair \in misjudged]_vars

\* A portal that removed the app for good leaves no credentials of a bank, even if
\* its event was lost or refused: the calls for the polled bank meet the dead grant,
\* the reaper does the rest.  A connection made behind the purge stays.
RemovedIsErased ==
  <>[](clock % 2 = 0) => <>[](bank => late /\ ~row.live)
=============================================================================
