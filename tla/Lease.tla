------------------------------- MODULE Lease -------------------------------
(***************************************************************************)
(* The single-flight lease of a portal (singleFlightLease.ts): a row of    *)
(* Postgres with the token of its holder and the time it runs out.  The    *)
(* button that provisions the smart processes, the one that recomputes     *)
(* the ledger and the one that erases activities each run under a lease,   *)
(* because their work is a long chain of REST calls during which no        *)
(* connection of the pool may be held.  While a run works, a timer renews  *)
(* its lease every third of the term; a process that dies renews nothing,  *)
(* and the portal is free again when the term has passed.                  *)
(*                                                                         *)
(* A run is one request, and its number is the token it draws.  Time is    *)
(* the clock of the database, in ticks of one renewal period: the row      *)
(* holds how many ticks it has left, and between two ticks every timer     *)
(* that is on fires once - its renewal is answered or fails.               *)
(***************************************************************************)
EXTENDS Integers

CONSTANTS
    Ttl,          \* the term of the lease, in renewal periods
    MaxRuns,      \* bound: requests that are made
    MaxMishaps    \* bound: what goes wrong - a statement or a call that fails,
                  \* a process that dies, an uninstall

ASSUME LeaseAssumption ==
    /\ Ttl \in Nat \ {0}
    /\ MaxRuns \in Nat \ {0}
    /\ MaxMishaps \in Nat

VARIABLES
    row,      \* the lease of the portal: whose it is, and the ticks left
    stage,    \* where each request is
    timers,   \* the runs whose renewal timer is on
    due,      \* those of them that have not fired since the last tick
    missed,   \* the renewals in a row that failed for each run
    purged,   \* the application has been uninstalled under the lease
    mishaps   \* what has gone wrong so far

leaseCore == <<row, stage, timers, due, missed, purged>>
leaseVars == <<leaseCore, mishaps>>

Run == 1..MaxRuns
NoRow == [token |-> 0, left |-> 0]
Stage == {"new", "in", "busy", "refused", "done", "dead"}

Inside == {r \in Run : stage[r] = "in"}

LeaseTypeOK ==
    /\ row \in [token : 0..MaxRuns, left : 0..Ttl]
    /\ stage \in [Run -> Stage]
    /\ timers \subseteq Run
    /\ due \subseteq timers
    /\ missed \in [Run -> 0..MaxMishaps]
    /\ purged \in BOOLEAN
    /\ mishaps \in 0..MaxMishaps

LeaseInit ==
    /\ row = NoRow
    /\ stage = [r \in Run |-> "new"]
    /\ timers = {}
    /\ due = {}
    /\ missed = [r \in Run |-> 0]
    /\ purged = FALSE
    /\ mishaps = 0

Mishap == mishaps < MaxMishaps /\ mishaps' = mishaps + 1

(***************************************************************************)
(* The three statements on the row.  Acquiring inserts it, or takes it     *)
(* over when its term is over; renewing and releasing name the token.      *)
(***************************************************************************)
Free == row.token = 0 \/ row.left = 0
Acquired(r) == [token |-> r, left |-> Ttl]
Renewed(r) == IF row.token = r THEN Acquired(r) ELSE row
MutantOfReleased(r) == NoRow   \* released by the key alone
Released(r) == IF row.token = r THEN NoRow ELSE row

\* The timer is cleared before the release is sent, whatever fn did.
MutantOfCleared(r) == timers   \* the timer outlives the run
Cleared(r) == timers \ {r}

\* Requests come in the order of their numbers.
Comes(r) == stage[r] = "new" /\ \A s \in 1..(r - 1) : stage[s] # "new"

Enter(r) ==
    /\ Comes(r)
    /\ Free
    /\ row' = Acquired(r)
    /\ stage' = [stage EXCEPT ![r] = "in"]
    /\ timers' = timers \union {r}
    /\ UNCHANGED <<due, missed, purged, mishaps>>

\* SingleFlightBusyError: the caller answers 503 and waits for nothing.
TurnedAway(r) ==
    /\ Comes(r)
    /\ ~Free
    /\ stage' = [stage EXCEPT ![r] = "busy"]
    /\ UNCHANGED <<row, timers, due, missed, purged, mishaps>>

(***************************************************************************)
(* The database fails the acquisition (SingleFlightUnavailableError).  The *)
(* statement may have been committed before the connection was lost: then  *)
(* the row belongs to a run that never began.                              *)
(***************************************************************************)
Refused(r) ==
    /\ Comes(r)
    /\ Mishap
    /\ row' \in IF Free THEN {row, Acquired(r)} ELSE {row}
    /\ stage' = [stage EXCEPT ![r] = "refused"]
    /\ UNCHANGED <<timers, due, missed, purged>>

\* The timer fires.  A row that is not ours any more only stops the timer.
Renew(r) ==
    /\ r \in due
    /\ row' = Renewed(r)
    /\ timers' = IF row.token = r THEN timers ELSE timers \ {r}
    /\ due' = due \ {r}
    /\ missed' = [missed EXCEPT ![r] = IF row.token = r THEN 0 ELSE @]
    /\ UNCHANGED <<stage, purged, mishaps>>

\* The renewal fails, or the process was too busy to send it.
Miss(r) ==
    /\ r \in due
    /\ Mishap
    /\ due' = due \ {r}
    /\ missed' = [missed EXCEPT ![r] = @ + 1]
    /\ UNCHANGED <<row, stage, timers, purged>>

Tick ==
    /\ due = {}
    /\ row' = [row EXCEPT !.left = IF @ > 0 THEN @ - 1 ELSE @]
    /\ due' = timers
    /\ UNCHANGED <<stage, timers, missed, purged, mishaps>>

(***************************************************************************)
(* fn has returned or thrown: the timer is cleared and the row released.   *)
(* A release that fails is swallowed, and the row stays until it is over.  *)
(***************************************************************************)
Leave(r) ==
    /\ stage[r] = "in"
    /\ stage' = [stage EXCEPT ![r] = "done"]
    /\ timers' = Cleared(r)
    /\ due' = due \intersect timers'
    /\ \/ row' = Released(r) /\ UNCHANGED mishaps
       \/ Mishap /\ UNCHANGED row
    /\ missed' = [missed EXCEPT ![r] = 0]
    /\ UNCHANGED purged

Crash(r) ==
    /\ stage[r] = "in"
    /\ Mishap
    /\ stage' = [stage EXCEPT ![r] = "dead"]
    /\ timers' = timers \ {r}
    /\ due' = due \ {r}
    /\ missed' = [missed EXCEPT ![r] = 0]
    /\ UNCHANGED <<row, purged>>

\* deleteLeasesForPortal: an uninstall leaves no row of the portal behind.
Purge ==
    /\ Mishap
    /\ row' = NoRow
    /\ purged' = TRUE
    /\ UNCHANGED <<stage, timers, due, missed>>

LeaseNext ==
    \/ \E r \in Run :
          \/ Enter(r) \/ TurnedAway(r) \/ Refused(r)
          \/ Renew(r) \/ Miss(r) \/ Leave(r) \/ Crash(r)
    \/ Tick
    \/ Purge

LeaseSpec == LeaseInit /\ [][LeaseNext]_leaseVars

-----------------------------------------------------------------------------
(***************************************************************************)
(* What the lease is for: a run that renews in time owns the row until it  *)
(* leaves, so two such runs are never inside together.  Neither a second   *)
(* request, nor the late release of a run that lost its lease, nor the     *)
(* renewal of one takes it away.  It is lost when the renewals fail until  *)
(* the term is over, and when the application is uninstalled.              *)
(***************************************************************************)
Lapsed(r) == missed[r] >= Ttl - 1

OwnsLease == \A r \in Inside : purged \/ Lapsed(r) \/ row.token = r

(***************************************************************************)
(* A lease whose run is over - it died, its release failed, or it never    *)
(* began - does not keep the portal busy for good.                         *)
(***************************************************************************)
PortalFreed ==
    \A r \in Run :
        (row.token = r /\ r \notin Inside) ~> Free
=============================================================================
