------------------------------ MODULE BankToken ------------------------------
(***************************************************************************)
(* The tokens of a connected bank (src/server/utils/ensureBankToken.ts,    *)
(* bankTokenStore.ts, dbLock.ts).  A bank gives a connection, a "grant",   *)
(* one pair of tokens; every account of the connection is a row of         *)
(* bank_tokens with its own copy of the pair.  The bank accepts a refresh  *)
(* token once and answers with the next pair, so the polls of the accounts *)
(* and the hourly keep-alive must present it one at a time and leave the   *)
(* answer in every row, while an administrator disconnects accounts, adds  *)
(* them and chooses their numbers, and an answer or a process may be lost. *)
(*                                                                         *)
(* A caller takes a Postgres advisory lock, reads its row again, goes to   *)
(* the bank and updates the rows, all in one transaction, the lock with    *)
(* it; a row under an uncommitted update holds back a delete of it.        *)
(***************************************************************************)
EXTENDS Naturals

CONSTANTS
  Grant,        \* connections, each with the nonce it was made with
  Number,       \* account numbers
  Caller,       \* polls, keep-alive and account checks that need a token
  NoGrant,      \* the grant of a row that is not there
  Keyed,        \* grants made with the client's API key (Alfa)
  Legacy,       \* grants older than grant_id: their only row has an empty one
  Patient,      \* a number is not given away while a caller works on it
  MaxPairs,     \* bound on the pairs issued to connections in good order
  MaxFaults,    \* bound on lost answers, refusals, failed commits, revocations
  MaxCrashes    \* bound on deaths of a process

\* A row is addressed by its account_key: a number, or until one is chosen
\* "~pending:" with the nonce of its connection, written here as the grant.
Key == Number \cup Grant

ASSUME BankAssumption ==
  /\ Keyed \subseteq Grant /\ Legacy \subseteq Grant
  /\ Grant \cap Number = {}
  /\ NoGrant \notin Key
  /\ Patient \in BOOLEAN
  /\ MaxPairs \in Nat /\ MaxFaults \in Nat /\ MaxCrashes \in Nat

VARIABLES
  rows,       \* bank_tokens
  calls,      \* ensureBankToken, one run per caller
  issued,     \* tokens the banks have given out, numbered from 1
  head,       \* per grant, the refresh token the bank accepts
  opened,     \* grants that have been connected
  ahead,      \* history: grants whose latest pair the store has missed
  faults, crashes

vars == <<rows, calls, issued, head, opened, ahead, faults, crashes>>
-----------------------------------------------------------------------------
NoToken == 0
NoRow == [grant |-> NoGrant, access |-> NoToken, refresh |-> NoToken,
          fresh |-> FALSE, apiKey |-> FALSE, rejected |-> FALSE]
\* A row that is not there is NoRow: a disconnected account keeps no secret.
Account == [grant: Grant, access: Nat, refresh: Nat,
            fresh: BOOLEAN, apiKey: BOOLEAN, rejected: BOOLEAN]
Row == {NoRow} \cup Account
Stored == [grant: Grant \cup {NoGrant}, refresh: Nat, apiKey: BOOLEAN]
Pair == [access: Nat, refresh: Nat]
Call == [pc: {"idle", "wait", "refresh", "reissue", "write", "commit"},
         key: Key \cup {NoGrant}, grant: Grant \cup {NoGrant},
         access: Nat, force: BOOLEAN,    \* the caller's token and option
         stored: Stored, new: Pair, touched: SUBSET Key]

Idle == [pc |-> "idle", key |-> NoGrant, grant |-> NoGrant,
         access |-> NoToken, force |-> FALSE,
         stored |-> [grant |-> NoGrant, refresh |-> NoToken, apiKey |-> FALSE],
         new |-> [access |-> NoToken, refresh |-> NoToken], touched |-> {}]

Init ==
  /\ rows = [k \in Key |-> NoRow]
  /\ calls = [c \in Caller |-> Idle]
  /\ issued = 0 /\ head = [g \in Grant |-> NoToken]
  /\ opened = {} /\ ahead = {}
  /\ faults = 0 /\ crashes = 0

Connected == {k \in Key : rows[k].grant # NoGrant}
RowsOf(g) == {k \in Key : rows[k].grant = g}
\* Mutants of Addressed: the pair goes to one account of the grant; the rows of
\* the grant are found by way of the account the refresh was asked for.
AddressedByAccount(k, g) == {k} \cap Connected
AddressedFromRow(k, g) == IF k \in Connected THEN RowsOf(g) ELSE {}
\* WHERE grant_id = $7, or account_key = $3 when the row has no grant_id
Addressed(k, g) == IF g \in Legacy THEN {k} \cap Connected ELSE RowsOf(g)

NewToken == issued + 1
Issue(g, refresh) ==    \* a new access token, and the refresh token from now on
  issued' = NewToken /\ head' = [head EXCEPT ![g] = refresh]

\* Mutant of LockKey: every account has a lock of its own.
LockKeyByAccount(k, g) == <<"account", k>>
\* bankRefreshLockKey: by grant, or by account when there is no grant_id.
LockKey(k, g) == IF g \in Legacy THEN <<"account", k>> ELSE <<"grant", g>>
Locking(c) == calls[c].pc \in {"refresh", "reissue", "write", "commit"}
LockFree(l) ==
  \A c \in Caller : Locking(c) => LockKey(calls[c].key, calls[c].grant) # l
Untouched(ks) == \A c \in Caller : calls[c].touched \cap ks = {}
Unattended(n) == Patient => \A c \in Caller : calls[c].key # n

Fault == faults < MaxFaults /\ faults' = faults + 1
Done(c) == calls' = [calls EXCEPT ![c] = Idle]
-----------------------------------------------------------------------------
(***************************************************************************)
(* What people do.                                                         *)
(***************************************************************************)
Connect(g, bare) ==    \* saveBankToken under "~pending:", a new row each time
  /\ g \notin opened
  /\ bare => g \notin Keyed
  /\ issued < MaxPairs
  /\ LET refresh == IF bare THEN NoToken ELSE NewToken
     IN /\ Issue(g, refresh)
        /\ rows' = [rows EXCEPT ![g] =
                      [grant |-> g, access |-> NewToken, refresh |-> refresh,
                       fresh |-> TRUE, apiKey |-> g \in Keyed,
                       rejected |-> FALSE]]
  /\ opened' = opened \cup {g}
  /\ UNCHANGED <<calls, ahead, faults, crashes>>

ChooseAccount(g, n) ==    \* makeLockedRename
  /\ g \in Connected /\ n \notin Connected
  /\ LockFree(LockKey(g, rows[g].grant)) /\ Untouched({g})
  /\ Unattended(n)
  /\ rows' = [rows EXCEPT ![g] = NoRow, ![n] = rows[g]]
  /\ UNCHANGED <<calls, issued, head, opened, ahead, faults, crashes>>

AddAccount(k, n) ==    \* makeLockedAddAccount: INSERT ... SELECT, no api_key_enc
  /\ k \in Connected \cap Number /\ n \notin Connected
  /\ rows[k].grant \notin Legacy
  /\ LockFree(LockKey(k, rows[k].grant))
  /\ Unattended(n)
  /\ rows' = [rows EXCEPT ![n] =
                [rows[k] EXCEPT !.apiKey = FALSE, !.rejected = FALSE]]
  /\ UNCHANGED <<calls, issued, head, opened, ahead, faults, crashes>>

Disconnect(k) ==    \* deleteBankTokenById, from a button or the reaper
  /\ k \in Connected /\ Untouched({k})
  /\ rows' = [rows EXCEPT ![k] = NoRow]
  /\ UNCHANGED <<calls, issued, head, opened, ahead, faults, crashes>>

RemoveApp ==    \* deleteBankTokensForPortal
  /\ Connected # {} /\ Untouched(Connected)
  /\ rows' = [k \in Key |-> NoRow]
  /\ UNCHANGED <<calls, issued, head, opened, ahead, faults, crashes>>

Revoke(g) ==    \* the client withdraws the consent, or the bank drops it
  /\ head[g] # NoToken
  /\ Fault
  /\ head' = [head EXCEPT ![g] = NoToken]
  /\ UNCHANGED <<rows, calls, issued, opened, ahead, crashes>>

Expire(g) ==    \* the access token of a grant comes within the skew of expiry
  /\ \E k \in RowsOf(g) : rows[k].fresh
  /\ rows' = [k \in Key |-> IF rows[k].grant = g
                            THEN [rows[k] EXCEPT !.fresh = FALSE] ELSE rows[k]]
  /\ UNCHANGED <<calls, issued, head, opened, ahead, faults, crashes>>
-----------------------------------------------------------------------------
(***************************************************************************)
(* ensureBankToken.                                                        *)
(***************************************************************************)
\* The store cannot renew the pair of this grant with its refresh token.
Dead(g) == head[g] = NoToken \/ g \in ahead

Ensure(c, k, force) ==    \* the caller's row, read before the lock
  /\ calls[c].pc = "idle"
  /\ k \in Connected
  /\ force \/ ~rows[k].fresh
  /\ issued < MaxPairs \/ Dead(rows[k].grant)
  /\ calls' = [calls EXCEPT ![c] =
                 [Idle EXCEPT !.pc = "wait", !.key = k,
                              !.grant = rows[k].grant,
                              !.access = rows[k].access, !.force = force]]
  /\ UNCHANGED <<rows, issued, head, opened, ahead, faults, crashes>>

GiveUp(c) ==    \* lock_timeout
  /\ calls[c].pc = "wait"
  /\ ~LockFree(LockKey(calls[c].key, calls[c].grant))
  /\ Done(c)
  /\ UNCHANGED <<rows, issued, head, opened, ahead, faults, crashes>>

shouldRefresh(c, row) ==
  /\ row.grant # NoGrant
  /\ IF calls[c].force THEN row.access = calls[c].access ELSE ~row.fresh

Take(c) ==    \* the lock, and the row as it is now
  /\ calls[c].pc = "wait"
  /\ LockFree(LockKey(calls[c].key, calls[c].grant))
  /\ LET row == rows[calls[c].key]
         next == IF row.refresh # NoToken THEN "refresh" ELSE "reissue"
     IN IF shouldRefresh(c, row) /\ (next = "reissue" => row.apiKey)
        THEN calls' = [calls EXCEPT ![c] =
                         [Idle EXCEPT
                            !.pc = next, !.key = calls[c].key,
                            !.grant = calls[c].grant,
                            !.stored = [grant |-> row.grant, apiKey |-> row.apiKey,
                                        refresh |-> row.refresh]]]
        ELSE Done(c)
  /\ UNCHANGED <<rows, issued, head, opened, ahead, faults, crashes>>

Answer(c, access, refresh) ==
  calls' = [calls EXCEPT ![c].pc = "write",
                         ![c].new = [access |-> access, refresh |-> refresh]]
\* Mutant of RefreshFails: the API key is not tried.
RefreshFailsForGood(c) == Done(c)
\* After a failed refresh the API key of the row, if it has one, is tried.
RefreshFails(c) ==
  IF calls[c].stored.apiKey
  THEN calls' = [calls EXCEPT ![c].pc = "reissue"]
  ELSE Done(c)
Valid(c) == calls[c].stored.refresh = head[calls[c].stored.grant]

Refresh(c, bare) ==    \* answered; a bank may leave the refresh token as it is
  /\ calls[c].pc = "refresh" /\ Valid(c)
  /\ bare => calls[c].stored.grant \notin Keyed
  /\ LET refresh == IF bare THEN calls[c].stored.refresh ELSE NewToken
     IN /\ Issue(calls[c].stored.grant, refresh)
        /\ Answer(c, NewToken, refresh)
  /\ UNCHANGED <<rows, opened, ahead, faults, crashes>>

RefreshLost(c) ==    \* the bank has turned the pair, its answer is lost
  /\ calls[c].pc = "refresh" /\ Valid(c)
  /\ Fault
  /\ RefreshFails(c)
  /\ Issue(calls[c].stored.grant, NewToken)
  /\ ahead' = ahead \cup {calls[c].stored.grant}
  /\ UNCHANGED <<rows, opened, crashes>>

RefreshDown(c) ==    \* no answer, and nothing happened
  /\ calls[c].pc = "refresh"
  /\ Fault
  /\ RefreshFails(c)
  /\ UNCHANGED <<rows, issued, head, opened, ahead, crashes>>

Marked(c) ==    \* markBankRefreshRejected
  [k \in Key |-> IF k \in Addressed(calls[c].key, calls[c].stored.grant)
                 THEN [rows[k] EXCEPT !.rejected = TRUE] ELSE rows[k]]
Refused(c) ==    \* a spent token: the bank drops the grant; the mark may fail
  /\ calls[c].pc = "refresh" /\ ~Valid(c)
  /\ RefreshFails(c)
  /\ head' = [head EXCEPT ![calls[c].stored.grant] = NoToken]
  /\ \/ rows' = rows
     \/ rows' = Marked(c) /\ Untouched({k \in Key : rows'[k] # rows[k]})
  /\ UNCHANGED <<issued, opened, ahead, faults, crashes>>

Reissue(c) ==    \* grant_type=password with the API key
  /\ calls[c].pc = "reissue"
  /\ Issue(calls[c].stored.grant, NewToken)
  /\ Answer(c, NewToken, NewToken)
  /\ UNCHANGED <<rows, opened, ahead, faults, crashes>>

ReissueFails(c, lost) ==    \* refused or unanswered, or the answer is lost
  /\ calls[c].pc = "reissue"
  /\ Fault
  /\ Done(c)
  /\ IF lost THEN /\ Issue(calls[c].stored.grant, NewToken)
                  /\ ahead' = ahead \cup {calls[c].stored.grant}
     ELSE UNCHANGED <<issued, head, ahead>>
  /\ UNCHANGED <<rows, opened, crashes>>

\* Mutants of Write: a grant without rows gets its row back; the account of the
\* call is written, there or not.
WriteUpsert(c) ==
  /\ calls[c].pc = "write"
  /\ LET hit == Addressed(calls[c].key, calls[c].stored.grant)
     IN /\ Untouched(hit)
        /\ IF hit = {}
           THEN /\ rows' = [rows EXCEPT ![calls[c].key] =
                             [grant |-> calls[c].stored.grant,
                              access |-> calls[c].new.access,
                              refresh |-> calls[c].new.refresh, fresh |-> TRUE,
                              apiKey |-> calls[c].stored.apiKey, rejected |-> FALSE]]
                /\ Done(c)
           ELSE /\ rows' = rows
                /\ calls' = [calls EXCEPT ![c].pc = "commit", ![c].touched = hit]
  /\ UNCHANGED <<issued, head, opened, ahead, faults, crashes>>
WriteAnyway(c) ==
  /\ calls[c].pc = "write"
  /\ LET hit == Addressed(calls[c].key, calls[c].stored.grant) \cup {calls[c].key}
     IN Untouched(hit) /\ calls' = [calls EXCEPT ![c].pc = "commit", ![c].touched = hit]
  /\ UNCHANGED <<rows, issued, head, opened, ahead, faults, crashes>>

Write(c) ==    \* updateBankTokenSecrets: no row is ever inserted
  /\ calls[c].pc = "write"
  /\ LET hit == Addressed(calls[c].key, calls[c].stored.grant)
     IN /\ Untouched(hit)
        /\ IF hit = {} THEN Done(c)
           ELSE calls' = [calls EXCEPT ![c].pc = "commit", ![c].touched = hit]
  /\ UNCHANGED <<rows, issued, head, opened, ahead, faults, crashes>>

\* Mutant of Renewed: the mark of a refusal stays.
RenewedMarked(c, row) ==
  [row EXCEPT !.access = calls[c].new.access, !.refresh = calls[c].new.refresh,
              !.fresh = TRUE]
Renewed(c, row) ==
  [row EXCEPT !.access = calls[c].new.access, !.refresh = calls[c].new.refresh,
              !.fresh = TRUE, !.rejected = FALSE]

Commit(c) ==
  /\ calls[c].pc = "commit"
  /\ rows' = [k \in Key |->
                IF k \in calls[c].touched THEN Renewed(c, rows[k]) ELSE rows[k]]
  /\ ahead' = ahead \ {calls[c].stored.grant}
  /\ Done(c)
  /\ UNCHANGED <<issued, head, opened, faults, crashes>>

Rollback(c) ==    \* the update or the commit throws
  /\ calls[c].pc \in {"write", "commit"}
  /\ Fault
  /\ Done(c)
  /\ ahead' = ahead \cup {calls[c].stored.grant}
  /\ UNCHANGED <<rows, issued, head, opened, crashes>>

Crash(c) ==    \* the process of a caller dies, its transaction with it
  /\ calls[c].pc # "idle"
  /\ crashes < MaxCrashes /\ crashes' = crashes + 1
  /\ Done(c)
  /\ ahead' = IF calls[c].pc \in {"write", "commit"}
              THEN ahead \cup {calls[c].stored.grant} ELSE ahead
  /\ UNCHANGED <<rows, issued, head, opened, faults>>
-----------------------------------------------------------------------------
People ==
  \/ \E g \in Grant : \/ \E bare \in BOOLEAN : Connect(g, bare)
                      \/ \E n \in Number : ChooseAccount(g, n)
                      \/ Revoke(g) \/ Expire(g)
  \/ \E k \in Key : Disconnect(k) \/ \E n \in Number : AddAccount(k, n)
  \/ RemoveApp

\* The steps of a call that has the lock.
Step(c) ==
  \/ \E bare \in BOOLEAN : Refresh(c, bare)
  \/ RefreshLost(c) \/ RefreshDown(c) \/ Refused(c)
  \/ Reissue(c) \/ \E lost \in BOOLEAN : ReissueFails(c, lost)
  \/ Write(c) \/ Commit(c) \/ Rollback(c)

Next ==
  \/ People
  \/ \E c \in Caller :
       \/ \E k \in Key, force \in BOOLEAN : Ensure(c, k, force)
       \/ GiveUp(c) \/ Take(c) \/ Step(c) \/ Crash(c)

Spec == Init /\ [][Next]_vars

(***************************************************************************)
(* The keep-alive comes every hour and forces a refresh of one row of a    *)
(* grant: of rows equally old the one with the lowest id, which is the one *)
(* with the API key as long as it is there; it leaves a refused connection *)
(* without an account alone.  Postgres queues the waiters of a lock, and   *)
(* the steps under it are bounded by timeouts.                             *)
(***************************************************************************)
KeepAlive(k) ==
  /\ rows[k].apiKey /\ (k \in Number \/ ~rows[k].rejected)
  /\ \E c \in Caller : Ensure(c, k, TRUE)
TakeFor(k) == \E c \in Caller : calls[c].key = k /\ Take(c)
Fairness ==
  /\ \A c \in Caller : WF_vars(Step(c))
  /\ \A k \in Key : SF_vars(KeepAlive(k)) /\ SF_vars(TakeFor(k))
FairSpec == Spec /\ Fairness
-----------------------------------------------------------------------------
(***************************************************************************)
(* Properties.                                                             *)
(***************************************************************************)
\* Every variable has its type.
TypeOK ==
  /\ rows \in [Key -> Row]
  /\ calls \in [Caller -> Call]
  /\ issued \in Nat /\ head \in [Grant -> Nat]
  /\ opened \subseteq Grant /\ ahead \subseteq Grant
  /\ faults \in 0..MaxFaults /\ crashes \in 0..MaxCrashes

\* Some caller has the answer of the bank and has not committed it.
InFlight(g) ==
  \E c \in Caller : calls[c].pc \in {"write", "commit"} /\ calls[c].stored.grant = g

\* No caller sets out to the bank with a refresh token that another call has
\* spent (ensureBankToken.ts:4-7): it holds the one the bank accepts, unless
\* the bank's latest answer was lost or the grant is dead at the bank.
SpendsCurrentToken ==
  \A c \in Caller :
    calls[c].pc = "refresh" =>
      LET g == calls[c].stored.grant
      IN head[g] \in {NoToken, calls[c].stored.refresh} \/ g \in ahead

\* The accounts of one grant hold one pair, at every commit, whichever of them
\* was refreshed, added, renamed or disconnected meanwhile
\* (bankTokenStore.ts, updateBankTokenSecrets and addBankAccountToGrant).
OnePairPerGrant ==
  \A k, m \in Connected :
    rows[k].grant = rows[m].grant =>
      rows[k].access = rows[m].access /\ rows[k].refresh = rows[m].refresh

\* What a connection holds is what the bank accepts: losing one account of the
\* grant during a refresh must not cost the others the new pair.
StoredPairIsLive ==
  \A k \in Connected :
    LET g == rows[k].grant
    IN \/ rows[k].refresh = head[g] \/ head[g] = NoToken
       \/ g \in ahead \/ InFlight(g)

\* An account marked as refused by the bank is dead there: renewing the pair
\* takes the mark away from all accounts of the grant, and no refusal is noted
\* over a pair that works (bankTokenStore.ts, refresh_rejected_at).
RejectedIsDead ==
  \A k \in Connected : rows[k].rejected =>
    LET g == rows[k].grant
    IN rows[k].refresh # head[g] \/ head[g] = NoToken

\* A connection whose last account was disconnected, or whose portal removed
\* the application, does not come back with the answer of a refresh that was
\* under way (bankTokenStore.ts, updateBankTokenSecrets).
NotRevived ==
  [][\A g \in opened : RowsOf(g) = {} => RowsOf(g)' = {}]_vars

\* A connection that keeps its API key with an account is healed without people:
\* whatever was lost, its accounts come to hold a pair the bank accepts again
\* and again, unless the keep-alive finds the lock taken by polls for ever.
HealsByKey ==
  \A g \in Keyed :
    \/ []<>((\E k \in RowsOf(g) \cap Number : rows[k].apiKey) =>
              \A k \in RowsOf(g) : rows[k].refresh = head[g] /\ head[g] # NoToken)
    \/ []<><<\E c \in Caller : calls[c].force /\ calls[c].grant = g /\ GiveUp(c)>>_vars

\* As long as a connection made with an API key has accounts, the key is there
\* to reissue a dead pair with (docs/ALFA_API.md:607, bankTokenStore.ts:107).
ReissuePossible ==
  \A g \in Keyed : RowsOf(g) # {} => \E k \in RowsOf(g) : rows[k].apiKey
=============================================================================
