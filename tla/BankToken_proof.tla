--------------------------- MODULE BankToken_proof ---------------------------
(***************************************************************************)
(* Theorems about BankToken, for all grants, numbers, callers and bounds.  *)
(***************************************************************************)
EXTENDS BankToken, TLAPS

\* Rows stand under the pending key of their own grant or under a number.
Placed ==
  \A k \in Connected :
    rows[k].grant \in opened /\ (k \in Grant => rows[k].grant = k)

\* A connection without a grant_id has one account.
Single ==
  \A g \in Legacy : \A k, m \in RowsOf(g) : k = m

\* The account of a call does not pass to another grant under its hands.
Held ==
  \A c \in Caller : calls[c].pc # "idle" =>
    /\ calls[c].key \in Key /\ calls[c].grant \in opened
    /\ calls[c].key \in Grant => calls[c].grant = calls[c].key
    /\ rows[calls[c].key].grant \in {NoGrant, calls[c].grant}

\* A call with a lock works on the grant it has locked, one call per grant.
Locked ==
  \A c \in Caller : Locking(c) =>
    /\ calls[c].stored.grant = calls[c].grant
    /\ calls[c].grant \in Legacy => RowsOf(calls[c].grant) \subseteq {calls[c].key}
    /\ \A d \in Caller : Locking(d) /\ calls[d].grant = calls[c].grant => d = c

\* An update in progress covers the rows of its grant; its pair is the bank's.
Covered ==
  \A c \in Caller :
    /\ calls[c].pc = "commit" => calls[c].touched = RowsOf(calls[c].grant)
    /\ calls[c].pc \in {"write", "commit"} =>
         head[calls[c].grant] \in {NoToken, calls[c].new.refresh}

TokenInv ==
  /\ Placed /\ Single /\ Held /\ Locked /\ Covered
  /\ SpendsCurrentToken /\ OnePairPerGrant /\ StoredPairIsLive

\* A row under an update is there, a call has an account, and with a lock it
\* has a grant too.
Grounded ==
  \A c \in Caller : /\ calls[c].touched \subseteq Connected
                    /\ calls[c].pc # "idle" => calls[c].key \in Key
                    /\ Locking(c) => calls[c].stored.grant \in Grant

TypeInv == TypeOK /\ Grounded
-----------------------------------------------------------------------------
(***************************************************************************)
(* Types.                                                                  *)
(***************************************************************************)
LEMMA RowFacts ==
  ASSUME NEW r \in Row
  PROVE  /\ r.grant \in Grant \cup {NoGrant} /\ r.access \in Nat /\ r.refresh \in Nat
         /\ r.fresh \in BOOLEAN /\ r.apiKey \in BOOLEAN /\ r.rejected \in BOOLEAN
         /\ r.grant # NoGrant <=> r \in Account
<1> USE BankAssumption DEF Row, Account, NoRow, NoToken, Key
<1>1. CASE r = NoRow
  BY <1>1
<1>2. CASE r \in Account
  BY <1>2
<1> QED
  BY <1>1, <1>2

LEMMA IdleFacts ==
  /\ Idle \in Call /\ Idle.pc = "idle" /\ Idle.touched = {} /\ Idle.key = NoGrant
  BY DEF Idle, Call, Stored, Pair, NoToken

\* An action that only ends a call, or leaves the calls alone, keeps their types.
LEMMA DoneType ==
  ASSUME TypeInv, NEW c \in Caller, Done(c)
  PROVE  /\ calls' \in [Caller -> Call]
         /\ \A d \in Caller : calls'[d] = IF d = c THEN Idle ELSE calls[d]
  BY IdleFacts DEF TypeInv, TypeOK, Done

\* What a call changes when its step connects and disconnects nothing.
LEMMA GroundedByCall ==
  ASSUME TypeInv, NEW c \in Caller, NEW r \in Call,
         calls' = [calls EXCEPT ![c] = r], Connected' = Connected,
         r.touched \subseteq Connected, r.pc # "idle" => r.key \in Key,
         r.pc \notin {"idle", "wait"} => r.stored.grant \in Grant
  PROVE  Grounded' /\ calls' \in [Caller -> Call]
<1>1. calls' \in [Caller -> Call]
  BY DEF TypeInv, TypeOK
<1>2. \A d \in Caller : calls'[d] = IF d = c THEN r ELSE calls[d]
  BY DEF TypeInv, TypeOK
<1> QED
  BY <1>1, <1>2 DEF TypeInv, Grounded, Locking

\* What the rows may become while the calls stay.
LEMMA GroundedByRows ==
  ASSUME TypeInv, calls' = calls,
         \A c \in Caller : \A k \in calls[c].touched : rows'[k].grant # NoGrant
  PROVE  Grounded'
  BY DEF TypeInv, Grounded, Locking, Connected

LEMMA InitType == Init => TypeInv
<1> SUFFICES ASSUME Init PROVE TypeInv
  OBVIOUS
<1>1. NoRow \in Row
  BY DEF Row
<1>2. TypeOK
  BY <1>1, IdleFacts, BankAssumption DEF Init, TypeOK, NoToken
<1>3. Grounded
  BY IdleFacts DEF Init, Grounded, Locking
<1> QED
  BY <1>2, <1>3 DEF TypeInv

LEMMA ConnectType ==
  ASSUME TypeInv, NEW g \in Grant, NEW bare \in BOOLEAN, Connect(g, bare)
  PROVE  TypeInv'
<1> DEFINE refresh == IF bare THEN NoToken ELSE NewToken
           r == [grant |-> g, access |-> NewToken, refresh |-> refresh,
                 fresh |-> TRUE, apiKey |-> g \in Keyed, rejected |-> FALSE]
<1>1. r \in Row /\ refresh \in Nat /\ NewToken \in Nat /\ r.grant = g /\ g # NoGrant
  BY BankAssumption DEF TypeInv, TypeOK, Row, Account, NewToken, NoToken, Key
<1>2. rows' = [rows EXCEPT ![g] = r] /\ Issue(g, refresh)
  BY DEF Connect
<1>3. rows' \in [Key -> Row] /\ \A k \in Key : rows'[k] = IF k = g THEN r ELSE rows[k]
  BY <1>1, <1>2 DEF TypeInv, TypeOK, Key
<1>4. TypeOK'
  BY <1>1, <1>2, <1>3 DEF TypeInv, TypeOK, Connect, Issue
<1>5. Grounded'
  BY <1>1, <1>3, GroundedByRows DEF Connect, TypeInv, Grounded, Connected
<1> QED
  BY <1>4, <1>5 DEF TypeInv

LEMMA ChooseType ==
  ASSUME TypeInv, NEW g \in Grant, NEW n \in Number, ChooseAccount(g, n)
  PROVE  TypeInv'
<1>1. NoRow \in Row /\ g \in Key /\ n \in Key /\ g # n
  BY BankAssumption DEF Row, Key
<1>2. /\ rows' \in [Key -> Row]
      /\ \A k \in Key : rows'[k] = IF k = n THEN rows[g] ELSE IF k = g THEN NoRow ELSE rows[k]
  BY <1>1 DEF TypeInv, TypeOK, ChooseAccount
<1>3. TypeOK'
  BY <1>2 DEF TypeInv, TypeOK, ChooseAccount
<1>4. Grounded'
  BY <1>1, <1>2, GroundedByRows
     DEF ChooseAccount, TypeInv, Grounded, Connected, Untouched
<1> QED
  BY <1>3, <1>4 DEF TypeInv

LEMMA AddType ==
  ASSUME TypeInv, NEW k \in Key, NEW n \in Number, AddAccount(k, n)
  PROVE  TypeInv'
<1> DEFINE r == [rows[k] EXCEPT !.apiKey = FALSE, !.rejected = FALSE]
<1>1. rows[k] \in Account /\ n \in Key
  BY RowFacts DEF TypeInv, TypeOK, AddAccount, Connected, Key
<1>2. r \in Row /\ r.grant = rows[k].grant /\ r.grant # NoGrant
  BY <1>1, BankAssumption DEF Row, Account, Key
<1>3. rows' = [rows EXCEPT ![n] = r]
  BY DEF AddAccount
<1>4. rows' \in [Key -> Row] /\ \A m \in Key : rows'[m] = IF m = n THEN r ELSE rows[m]
  BY <1>1, <1>2, <1>3 DEF TypeInv, TypeOK
<1>5. TypeOK'
  BY <1>4 DEF TypeInv, TypeOK, AddAccount
<1>6. Grounded'
  BY <1>2, <1>4, GroundedByRows DEF AddAccount, TypeInv, Grounded, Connected
<1> QED
  BY <1>5, <1>6 DEF TypeInv

LEMMA DisconnectType ==
  ASSUME TypeInv, NEW k \in Key, Disconnect(k) PROVE TypeInv'
<1>1. NoRow \in Row
  BY DEF Row
<1>2. rows' \in [Key -> Row] /\ \A m \in Key : rows'[m] = IF m = k THEN NoRow ELSE rows[m]
  BY <1>1 DEF TypeInv, TypeOK, Disconnect
<1>3. TypeOK'
  BY <1>2 DEF TypeInv, TypeOK, Disconnect
<1>4. Grounded'
  BY <1>2, GroundedByRows DEF Disconnect, TypeInv, Grounded, Connected, Untouched
<1> QED
  BY <1>3, <1>4 DEF TypeInv

LEMMA RemoveAppType == ASSUME TypeInv, RemoveApp PROVE TypeInv'
<1>1. NoRow \in Row
  BY DEF Row
<1>2. TypeOK'
  BY <1>1 DEF TypeInv, TypeOK, RemoveApp
<1>3. Grounded'
  BY GroundedByRows DEF RemoveApp, TypeInv, Grounded, Untouched
<1> QED
  BY <1>2, <1>3 DEF TypeInv

LEMMA RevokeType == ASSUME TypeInv, NEW g \in Grant, Revoke(g) PROVE TypeInv'
<1>1. TypeOK'
  BY BankAssumption DEF TypeInv, TypeOK, Revoke, Fault, NoToken
<1>2. Grounded'
  BY DEF TypeInv, Grounded, Revoke, Connected, Locking
<1> QED
  BY <1>1, <1>2 DEF TypeInv

LEMMA ExpireType == ASSUME TypeInv, NEW g \in Grant, Expire(g) PROVE TypeInv'
<1>1. \A k \in Key : rows[k].grant = g =>
        /\ [rows[k] EXCEPT !.fresh = FALSE] \in Row
        /\ [rows[k] EXCEPT !.fresh = FALSE].grant = g
  <2> SUFFICES ASSUME NEW k \in Key, rows[k].grant = g
               PROVE  /\ [rows[k] EXCEPT !.fresh = FALSE] \in Row
                      /\ [rows[k] EXCEPT !.fresh = FALSE].grant = g
    OBVIOUS
  <2>1. rows[k] \in Account
    BY RowFacts, BankAssumption DEF TypeInv, TypeOK, Key
  <2> QED
    BY <2>1 DEF Account, Row
<1>2. /\ rows' \in [Key -> Row]
      /\ \A k \in Key : rows'[k] = IF rows[k].grant = g
                                   THEN [rows[k] EXCEPT !.fresh = FALSE] ELSE rows[k]
  BY <1>1 DEF TypeInv, TypeOK, Expire
<1>3. TypeOK'
  BY <1>2 DEF TypeInv, TypeOK, Expire
<1>4. g # NoGrant
  BY BankAssumption DEF Key
<1>5. Grounded'
  BY <1>1, <1>2, <1>4, GroundedByRows DEF Expire, TypeInv, Grounded, Connected
<1> QED
  BY <1>3, <1>5 DEF TypeInv

\* The two ways a call goes on: with a new record, or at an end.
LEMMA CallStep ==
  ASSUME TypeInv, NEW c \in Caller, NEW r \in Call, r.touched = {},
         r.pc # "idle" => r.key \in Key,
         r.pc \notin {"idle", "wait"} => r.stored.grant \in Grant,
         calls' = [calls EXCEPT ![c] = r], Connected' = Connected
  PROVE  Grounded' /\ calls' \in [Caller -> Call]
  BY GroundedByCall

LEMMA CallEnds ==
  ASSUME TypeInv, NEW c \in Caller, Done(c), Connected' = Connected
  PROVE  Grounded' /\ calls' \in [Caller -> Call]
  BY IdleFacts, CallStep DEF Done

LEMMA EnsureType ==
  ASSUME TypeInv, NEW c \in Caller, NEW k \in Key, NEW force \in BOOLEAN,
         Ensure(c, k, force)
  PROVE  TypeInv'
<1> DEFINE r == [Idle EXCEPT !.pc = "wait", !.key = k, !.grant = rows[k].grant,
                             !.access = rows[k].access, !.force = force]
<1>1. rows[k].grant \in Grant \cup {NoGrant} /\ rows[k].access \in Nat
  BY RowFacts DEF TypeInv, TypeOK
<1>2. r \in Call /\ r.touched = {} /\ r.pc = "wait" /\ r.key = k
  BY <1>1 DEF Idle, Call, Stored, Pair, NoToken
<1>3. calls' = [calls EXCEPT ![c] = r] /\ Connected' = Connected
  BY DEF Ensure, Connected
<1>4. Grounded' /\ calls' \in [Caller -> Call]
  BY <1>2, <1>3, CallStep
<1> QED
  BY <1>4 DEF TypeInv, TypeOK, Ensure

LEMMA GiveUpType ==
  ASSUME TypeInv, NEW c \in Caller, GiveUp(c) PROVE TypeInv'
<1>1. Grounded' /\ calls' \in [Caller -> Call]
  BY CallEnds DEF GiveUp, Connected
<1> QED
  BY <1>1 DEF TypeInv, TypeOK, GiveUp

\* What a caller that goes to the bank has read under the lock.
Going(c, row, next) ==
  [Idle EXCEPT !.pc = next, !.key = calls[c].key, !.grant = calls[c].grant,
               !.stored = [grant |-> row.grant, apiKey |-> row.apiKey,
                           refresh |-> row.refresh]]

\* A lock taken is followed by an end, or by a way to the bank.
LEMMA TakeCases ==
  ASSUME TypeInv, NEW c \in Caller, Take(c), calls[c].key \in Key
  PROVE  \/ Done(c)
         \/ LET row == rows[calls[c].key]
                next == IF row.refresh # NoToken THEN "refresh" ELSE "reissue"
            IN /\ row.grant \in Grant
               /\ calls' = [calls EXCEPT ![c] = Going(c, row, next)]
<1> DEFINE row == rows[calls[c].key]
           next == IF row.refresh # NoToken THEN "refresh" ELSE "reissue"
<1>1. row.grant \in Grant \cup {NoGrant}
  BY RowFacts DEF TypeInv, TypeOK
<1>2. CASE shouldRefresh(c, row) /\ (next = "reissue" => row.apiKey)
  <2>1. calls' = [calls EXCEPT ![c] = Going(c, row, next)]
    BY <1>2 DEF Take, Going
  <2> QED
    BY <1>1, <1>2, <2>1 DEF shouldRefresh
<1>3. CASE ~(shouldRefresh(c, row) /\ (next = "reissue" => row.apiKey))
  BY <1>3 DEF Take
<1> QED
  BY <1>2, <1>3

LEMMA GoingFacts ==
  ASSUME TypeInv, NEW c \in Caller, calls[c].key \in Key, NEW next \in {"refresh", "reissue"},
         rows[calls[c].key].grant \in Grant
  PROVE  LET r == Going(c, rows[calls[c].key], next)
         IN /\ r \in Call /\ r.touched = {} /\ r.pc = next
            /\ r.key = calls[c].key /\ r.grant = calls[c].grant
            /\ r.stored.grant = rows[calls[c].key].grant
            /\ r.stored.refresh = rows[calls[c].key].refresh
<1>1. /\ rows[calls[c].key].grant \in Grant \cup {NoGrant}
      /\ rows[calls[c].key].refresh \in Nat /\ rows[calls[c].key].apiKey \in BOOLEAN
  BY RowFacts DEF TypeInv, TypeOK
<1>2. calls[c] \in Call
  BY DEF TypeInv, TypeOK
<1> QED
  BY <1>1, <1>2 DEF Going, Idle, Call, Stored, Pair, NoToken

LEMMA TakeType ==
  ASSUME TypeInv, NEW c \in Caller, Take(c) PROVE TypeInv'
<1>0. calls[c].key \in Key
  BY DEF Take, TypeInv, Grounded
<1>1. Connected' = Connected
  BY DEF Take, Connected
<1>2. Grounded' /\ calls' \in [Caller -> Call]
  <2>1. CASE Done(c)
    BY <1>1, <2>1, CallEnds
  <2>2. CASE ~Done(c)
    <3> DEFINE row == rows[calls[c].key]
               next == IF row.refresh # NoToken THEN "refresh" ELSE "reissue"
    <3>1. row.grant \in Grant /\ calls' = [calls EXCEPT ![c] = Going(c, row, next)]
      BY <1>0, <2>2, TakeCases
    <3>2. /\ Going(c, row, next) \in Call /\ Going(c, row, next).touched = {}
          /\ Going(c, row, next).stored.grant \in Grant
          /\ Going(c, row, next).key \in Key
      BY <1>0, <3>1, GoingFacts
    <3> QED
      BY <1>1, <3>1, <3>2, CallStep
  <2> QED
    BY <2>1, <2>2
<1> QED
  BY <1>2 DEF TypeInv, TypeOK, Take

\* A call with a lock that goes from one place to the next.
LEMMA MoveType ==
  ASSUME TypeInv, NEW c \in Caller, Locking(c),
         NEW pc \in {"refresh", "reissue", "write", "commit"},
         NEW new \in Pair, NEW touched \in SUBSET Connected, Connected' = Connected,
         calls' = [calls EXCEPT ![c] = [calls[c] EXCEPT !.pc = pc, !.new = new,
                                                        !.touched = touched]]
  PROVE  /\ Grounded' /\ calls' \in [Caller -> Call]
         /\ \A d \in Caller : d # c => calls'[d] = calls[d]
         /\ calls'[c].pc = pc /\ calls'[c].new = new /\ calls'[c].touched = touched
         /\ calls'[c].key = calls[c].key /\ calls'[c].grant = calls[c].grant
         /\ calls'[c].stored = calls[c].stored
<1> DEFINE r == [calls[c] EXCEPT !.pc = pc, !.new = new, !.touched = touched]
<1>1. calls[c] \in Call /\ calls \in [Caller -> Call] /\ touched \in SUBSET Key
  BY DEF TypeInv, TypeOK, Connected
<1>2. /\ r \in Call /\ r.pc = pc /\ r.new = new /\ r.touched = touched
      /\ r.key = calls[c].key /\ r.grant = calls[c].grant /\ r.stored = calls[c].stored
  BY <1>1 DEF Call
<1>3. calls[c].key \in Key /\ calls[c].stored.grant \in Grant
  BY DEF TypeInv, Grounded, Locking
<1>4. Grounded' /\ calls' \in [Caller -> Call]
  BY <1>2, <1>3, GroundedByCall
<1> QED
  BY <1>1, <1>2, <1>4

\* The moves of the module, written as MoveType has them.
LEMMA AnswerMoves ==
  ASSUME TypeInv, NEW c \in Caller, NEW access \in Nat, NEW refresh \in Nat,
         Answer(c, access, refresh)
  PROVE  calls' = [calls EXCEPT ![c] =
           [calls[c] EXCEPT !.pc = "write",
                            !.new = [access |-> access, refresh |-> refresh],
                            !.touched = calls[c].touched]]
<1>1. calls[c] \in Call /\ calls \in [Caller -> Call]
  BY DEF TypeInv, TypeOK
<1>2. [[calls[c] EXCEPT !.pc = "write"]
         EXCEPT !.new = [access |-> access, refresh |-> refresh]] =
      [calls[c] EXCEPT !.pc = "write",
                       !.new = [access |-> access, refresh |-> refresh],
                       !.touched = calls[c].touched]
  BY <1>1 DEF Call
<1> QED
  BY <1>1, <1>2 DEF Answer

LEMMA RefreshFailsMoves ==
  ASSUME TypeInv, NEW c \in Caller, RefreshFails(c)
  PROVE  \/ Done(c)
         \/ calls' = [calls EXCEPT ![c] =
              [calls[c] EXCEPT !.pc = "reissue", !.new = calls[c].new,
                               !.touched = calls[c].touched]]
<1>1. calls[c] \in Call /\ calls \in [Caller -> Call]
  BY DEF TypeInv, TypeOK
<1>2. [calls[c] EXCEPT !.pc = "reissue"] =
      [calls[c] EXCEPT !.pc = "reissue", !.new = calls[c].new,
                       !.touched = calls[c].touched]
  BY <1>1 DEF Call
<1> QED
  BY <1>1, <1>2 DEF RefreshFails

LEMMA CallFacts ==
  ASSUME TypeInv, NEW c \in Caller
  PROVE  /\ calls[c] \in Call /\ calls[c].new \in Pair
         /\ calls[c].touched \in SUBSET Connected
         /\ calls[c].stored.refresh \in Nat
         /\ Locking(c) => calls[c].stored.grant \in Grant /\ calls[c].key \in Key
         /\ NewToken \in Nat
  BY DEF TypeInv, TypeOK, Grounded, Call, Stored, Locking, NewToken

\* A refresh that fails leaves a sound call behind.
LEMMA FailsType ==
  ASSUME TypeInv, NEW c \in Caller, Locking(c), RefreshFails(c), Connected' = Connected
  PROVE  Grounded' /\ calls' \in [Caller -> Call]
<1>1. CASE Done(c)
  BY <1>1, CallEnds
<1>2. CASE ~Done(c)
  <2>1. calls' = [calls EXCEPT ![c] =
          [calls[c] EXCEPT !.pc = "reissue", !.new = calls[c].new,
                           !.touched = calls[c].touched]]
    BY <1>2, RefreshFailsMoves
  <2>2. calls[c].new \in Pair /\ calls[c].touched \in SUBSET Connected
    BY CallFacts
  <2> QED
    BY <2>1, <2>2, MoveType
<1> QED
  BY <1>1, <1>2

LEMMA RefreshType ==
  ASSUME TypeInv, NEW c \in Caller, NEW bare \in BOOLEAN, Refresh(c, bare)
  PROVE  TypeInv'
<1> DEFINE refresh == IF bare THEN calls[c].stored.refresh ELSE NewToken
<1>1. Locking(c) /\ Connected' = Connected
  BY DEF Refresh, Locking, Connected
<1>2. refresh \in Nat /\ NewToken \in Nat
  BY CallFacts
<1>3. Answer(c, NewToken, refresh) /\ Issue(calls[c].stored.grant, refresh)
  BY DEF Refresh
<1>4. [access |-> NewToken, refresh |-> refresh] \in Pair
  BY <1>2 DEF Pair
<1>5. Grounded' /\ calls' \in [Caller -> Call]
  <2>1. calls' = [calls EXCEPT ![c] =
          [calls[c] EXCEPT !.pc = "write",
                           !.new = [access |-> NewToken, refresh |-> refresh],
                           !.touched = calls[c].touched]]
    BY <1>2, <1>3, AnswerMoves
  <2>2. calls[c].touched \in SUBSET Connected
    BY CallFacts
  <2> QED
    BY <1>1, <1>4, <2>1, <2>2, MoveType
<1> QED
  BY <1>2, <1>3, <1>5 DEF TypeInv, TypeOK, Issue, Refresh

LEMMA RefreshLostType ==
  ASSUME TypeInv, NEW c \in Caller, RefreshLost(c) PROVE TypeInv'
<1>1. Locking(c) /\ Connected' = Connected
  BY DEF RefreshLost, Locking, Connected
<1>2. Grounded' /\ calls' \in [Caller -> Call]
  BY <1>1, FailsType DEF RefreshLost
<1> QED
  BY <1>1, <1>2, CallFacts, BankAssumption DEF TypeInv, TypeOK, RefreshLost, Issue, Fault

LEMMA RefreshDownType ==
  ASSUME TypeInv, NEW c \in Caller, RefreshDown(c) PROVE TypeInv'
<1>1. Locking(c) /\ Connected' = Connected
  BY DEF RefreshDown, Locking, Connected
<1>2. Grounded' /\ calls' \in [Caller -> Call]
  BY <1>1, FailsType DEF RefreshDown
<1> QED
  BY <1>2, BankAssumption DEF TypeInv, TypeOK, RefreshDown, Fault

LEMMA RefusedType ==
  ASSUME TypeInv, NEW c \in Caller, Refused(c) PROVE TypeInv'
<1> DEFINE hit == Addressed(calls[c].key, calls[c].stored.grant)
<1>1. Locking(c) /\ calls[c].stored.grant \in Grant
  BY CallFacts DEF Refused, Locking
<1>2. hit \subseteq Connected
  BY <1>1, BankAssumption DEF Addressed, RowsOf, Connected, Key
<1>3. \A k \in Connected : /\ [rows[k] EXCEPT !.rejected = TRUE] \in Row
                           /\ [rows[k] EXCEPT !.rejected = TRUE].grant # NoGrant
  <2> SUFFICES ASSUME NEW k \in Connected
               PROVE  /\ [rows[k] EXCEPT !.rejected = TRUE] \in Row
                      /\ [rows[k] EXCEPT !.rejected = TRUE].grant # NoGrant
    OBVIOUS
  <2>1. rows[k] \in Account /\ rows[k].grant # NoGrant
    BY RowFacts DEF TypeInv, TypeOK, Connected
  <2> QED
    BY <2>1 DEF Account, Row
<1>4. rows' \in [Key -> Row] /\ Connected' = Connected
  <2>1. CASE rows' = rows
    BY <2>1 DEF TypeInv, TypeOK, Connected
  <2>2. CASE rows' = Marked(c)
    <3>1. \A k \in Key : rows'[k] = IF k \in hit THEN [rows[k] EXCEPT !.rejected = TRUE]
                                    ELSE rows[k]
      BY <2>2 DEF Marked
    <3>2. rows' \in [Key -> Row]
      BY <1>2, <1>3, <2>2, <3>1 DEF Marked, TypeInv, TypeOK
    <3> QED
      BY <1>2, <1>3, <3>1, <3>2 DEF Connected
  <2> QED
    BY <2>1, <2>2 DEF Refused
<1>5. Grounded' /\ calls' \in [Caller -> Call]
  BY <1>1, <1>4, FailsType DEF Refused
<1> QED
  BY <1>1, <1>4, <1>5 DEF TypeInv, TypeOK, Refused, NoToken

LEMMA ReissueType ==
  ASSUME TypeInv, NEW c \in Caller, Reissue(c) PROVE TypeInv'
<1> DEFINE new == [access |-> NewToken, refresh |-> NewToken]
<1>1. Locking(c) /\ Connected' = Connected
  BY DEF Reissue, Locking, Connected
<1>2. NewToken \in Nat /\ new \in Pair /\ calls[c].touched \in SUBSET Connected
  BY CallFacts DEF Pair
<1>3. calls' = [calls EXCEPT ![c] = [calls[c] EXCEPT !.pc = "write", !.new = new,
                                                    !.touched = calls[c].touched]]
  BY <1>2, AnswerMoves DEF Reissue
<1>4. Grounded' /\ calls' \in [Caller -> Call]
  BY <1>1, <1>2, <1>3, MoveType
<1> QED
  BY <1>2, <1>4 DEF TypeInv, TypeOK, Reissue, Issue

LEMMA ReissueFailsType ==
  ASSUME TypeInv, NEW c \in Caller, NEW lost \in BOOLEAN, ReissueFails(c, lost)
  PROVE  TypeInv'
<1>1. Locking(c) /\ Connected' = Connected
  BY DEF ReissueFails, Locking, Connected
<1>2. Grounded' /\ calls' \in [Caller -> Call]
  BY <1>1, CallEnds DEF ReissueFails
<1>3. issued' \in Nat /\ head' \in [Grant -> Nat] /\ ahead' \subseteq Grant
  BY <1>1, CallFacts DEF ReissueFails, TypeInv, TypeOK, Issue
<1> QED
  BY <1>2, <1>3, BankAssumption DEF TypeInv, TypeOK, ReissueFails, Fault

LEMMA WriteMoves ==
  ASSUME TypeInv, NEW c \in Caller, Write(c)
  PROVE  LET hit == Addressed(calls[c].key, calls[c].stored.grant)
         IN /\ Locking(c) /\ hit \in SUBSET Connected
            /\ IF hit = {} THEN Done(c)
               ELSE calls' = [calls EXCEPT ![c] =
                      [calls[c] EXCEPT !.pc = "commit", !.new = calls[c].new,
                                       !.touched = hit]]
<1> DEFINE hit == Addressed(calls[c].key, calls[c].stored.grant)
<1>1. Locking(c) /\ calls[c].stored.grant \in Grant
  BY CallFacts DEF Write, Locking
<1>2. hit \in SUBSET Connected
  BY <1>1, BankAssumption DEF Addressed, RowsOf, Connected, Key
<1>3. calls[c] \in Call /\ calls \in [Caller -> Call]
  BY DEF TypeInv, TypeOK
<1>4. [[calls[c] EXCEPT !.pc = "commit"] EXCEPT !.touched = hit] =
      [calls[c] EXCEPT !.pc = "commit", !.new = calls[c].new, !.touched = hit]
  BY <1>3 DEF Call
<1> QED
  BY <1>1, <1>2, <1>3, <1>4 DEF Write

LEMMA WriteType == ASSUME TypeInv, NEW c \in Caller, Write(c) PROVE TypeInv'
<1> DEFINE hit == Addressed(calls[c].key, calls[c].stored.grant)
<1>1. Connected' = Connected
  BY DEF Write, Connected
<1>2. Grounded' /\ calls' \in [Caller -> Call]
  <2>1. CASE hit = {}
    BY <1>1, <2>1, WriteMoves, CallEnds
  <2>2. CASE hit # {}
    <3>1. /\ Locking(c) /\ hit \in SUBSET Connected
          /\ calls' = [calls EXCEPT ![c] =
               [calls[c] EXCEPT !.pc = "commit", !.new = calls[c].new,
                                !.touched = hit]]
      BY <2>2, WriteMoves
    <3>2. calls[c].new \in Pair
      BY CallFacts
    <3> QED
      BY <1>1, <3>1, <3>2, MoveType
  <2> QED
    BY <2>1, <2>2
<1> QED
  BY <1>2 DEF TypeInv, TypeOK, Write

\* What a commit makes of the rows.
LEMMA CommitRows ==
  ASSUME TypeInv, NEW c \in Caller, Commit(c)
  PROVE  /\ rows' \in [Key -> Row] /\ Connected' = Connected
         /\ \A k \in Key : rows'[k].grant = rows[k].grant
         /\ \A k \in calls[c].touched : /\ rows'[k].access = calls[c].new.access
                                        /\ rows'[k].refresh = calls[c].new.refresh
                                        /\ ~rows'[k].rejected
         /\ \A k \in Key \ calls[c].touched : rows'[k] = rows[k]
<1>1. calls[c].touched \subseteq Connected /\ calls[c].new \in Pair
  BY CallFacts
<1>2. \A k \in calls[c].touched :
        /\ Renewed(c, rows[k]) \in Row
        /\ Renewed(c, rows[k]).grant = rows[k].grant
        /\ Renewed(c, rows[k]).access = calls[c].new.access
        /\ Renewed(c, rows[k]).refresh = calls[c].new.refresh
        /\ ~Renewed(c, rows[k]).rejected
  <2> SUFFICES ASSUME NEW k \in calls[c].touched
               PROVE  /\ Renewed(c, rows[k]) \in Row
                      /\ Renewed(c, rows[k]).grant = rows[k].grant
                      /\ Renewed(c, rows[k]).access = calls[c].new.access
                      /\ Renewed(c, rows[k]).refresh = calls[c].new.refresh
                      /\ ~Renewed(c, rows[k]).rejected
        /\ ~Renewed(c, rows[k]).rejected
    OBVIOUS
  <2>1. rows[k] \in Account
    BY <1>1, RowFacts DEF TypeInv, TypeOK, Connected
  <2> QED
    BY <1>1, <2>1 DEF Renewed, Account, Row, Pair
<1>3. \A k \in Key : rows'[k] = IF k \in calls[c].touched THEN Renewed(c, rows[k])
                                ELSE rows[k]
  BY DEF Commit
<1>4. rows' \in [Key -> Row]
  BY <1>2, <1>3 DEF Commit, TypeInv, TypeOK
<1>5. \A k \in Key : rows'[k].grant = rows[k].grant
  BY <1>2, <1>3
<1>6. Connected' = Connected
  BY <1>5 DEF Connected
<1> QED
  BY <1>1, <1>2, <1>3, <1>4, <1>5, <1>6 DEF Connected

LEMMA CommitType == ASSUME TypeInv, NEW c \in Caller, Commit(c) PROVE TypeInv'
<1>1. Grounded' /\ calls' \in [Caller -> Call]
  BY CommitRows, CallEnds DEF Commit
<1> QED
  BY <1>1, CommitRows DEF TypeInv, TypeOK, Commit

LEMMA RollbackType == ASSUME TypeInv, NEW c \in Caller, Rollback(c) PROVE TypeInv'
<1>1. Locking(c) /\ Connected' = Connected
  BY DEF Rollback, Locking, Connected
<1>2. Grounded' /\ calls' \in [Caller -> Call]
  BY <1>1, CallEnds DEF Rollback
<1> QED
  BY <1>1, <1>2, CallFacts, BankAssumption DEF TypeInv, TypeOK, Rollback, Fault

LEMMA CrashType == ASSUME TypeInv, NEW c \in Caller, Crash(c) PROVE TypeInv'
<1>1. Connected' = Connected
  BY DEF Crash, Connected
<1>2. Grounded' /\ calls' \in [Caller -> Call]
  BY <1>1, CallEnds DEF Crash
<1>3. ahead' \subseteq Grant
  BY CallFacts DEF Crash, TypeInv, TypeOK, Locking
<1> QED
  BY <1>2, <1>3, BankAssumption DEF TypeInv, TypeOK, Crash

LEMMA StepType == ASSUME TypeInv, [Next]_vars PROVE TypeInv'
<1>1. CASE People
  BY <1>1, ConnectType, ChooseType, RevokeType, ExpireType, DisconnectType, AddType,
     RemoveAppType DEF People
<1>2. ASSUME NEW c \in Caller, Step(c) PROVE TypeInv'
  BY <1>2, RefreshType, RefreshLostType, RefreshDownType, RefusedType, ReissueType,
     ReissueFailsType, WriteType, CommitType, RollbackType DEF Step
<1>3. ASSUME NEW c \in Caller,
             \/ \E k \in Key, force \in BOOLEAN : Ensure(c, k, force)
             \/ GiveUp(c) \/ Take(c) \/ Crash(c)
      PROVE  TypeInv'
  BY <1>3, EnsureType, GiveUpType, TakeType, CrashType
<1>4. CASE UNCHANGED vars
  BY <1>4 DEF vars, TypeInv, TypeOK, Grounded, Connected, Locking
<1> QED
  BY <1>1, <1>2, <1>3, <1>4 DEF Next

\* Every reachable state is well typed: in particular nothing is ever written to
\* the address of a disconnected account, whatever was under way for it.
THEOREM TypeCorrect == Spec => []TypeOK
<1>1. TypeInv => TypeOK
  BY DEF TypeInv
<1> QED
  BY <1>1, InitType, StepType, PTL DEF Spec
-----------------------------------------------------------------------------
(***************************************************************************)
(* The pair of a grant, when a number is not given away under a call.      *)
(***************************************************************************)
\* A step that touches nothing of a row but its marks.
RowsKept ==
  \A k \in Key : /\ rows'[k].grant = rows[k].grant
                 /\ rows'[k].access = rows[k].access
                 /\ rows'[k].refresh = rows[k].refresh
\* A step that concerns the bank side of one grant at most.
OthersKept(g) ==
  /\ opened' = opened
  /\ \A h \in Grant \ {g} : head'[h] = head[h] /\ (h \in ahead' <=> h \in ahead)

LEMMA SameRows ==
  ASSUME RowsKept
  PROVE  Connected' = Connected /\ \A g \in Grant : RowsOf(g)' = RowsOf(g)
  BY DEF RowsKept, Connected, RowsOf

\* StoredPairIsLive after a step that keeps the rows, one grant at a time.
LEMMA LiveByGrant ==
  ASSUME rows' \in [Key -> Row], RowsKept,
         \A g \in Grant : \A k \in RowsOf(g) :
           \/ rows[k].refresh = head'[g] \/ head'[g] = NoToken
           \/ g \in ahead' \/ InFlight(g)'
  PROVE  StoredPairIsLive'
<1> SUFFICES ASSUME NEW k \in Connected', NEW g, g = rows'[k].grant
             PROVE  \/ rows'[k].refresh = head'[g] \/ head'[g] = NoToken
                    \/ g \in ahead' \/ InFlight(g)'
  BY DEF StoredPairIsLive
<1>1. k \in Key /\ rows'[k].grant # NoGrant
  BY DEF Connected
<1>2. g \in Grant
  BY <1>1, RowFacts
<1>3. k \in RowsOf(g) /\ rows'[k].refresh = rows[k].refresh
  BY <1>1 DEF RowsOf, RowsKept
<1> QED
  BY <1>2, <1>3

\* What a call with a lock stands for.
LEMMA LockedFacts ==
  ASSUME TypeInv, TokenInv, NEW c \in Caller, Locking(c)
  PROVE  /\ calls[c].grant \in Grant /\ calls[c].stored.grant = calls[c].grant
         /\ \A d \in Caller : Locking(d) /\ calls[d].grant = calls[c].grant => d = c
         /\ \A d \in Caller : Locking(d) => calls[d].stored.grant = calls[d].grant
  BY DEF TypeInv, TypeOK, TokenInv, Held, Locked, Locking

\* Whoever can take the lock of a row finds no call at work on its grant.
LEMMA NobodyHolds ==
  ASSUME TypeInv, TokenInv, NEW k \in Connected, LockFree(LockKey(k, rows[k].grant))
  PROVE  \A c \in Caller : Locking(c) => calls[c].grant # rows[k].grant
<1> SUFFICES ASSUME NEW c \in Caller, Locking(c), calls[c].grant = rows[k].grant
             PROVE  FALSE
  OBVIOUS
<1>1. LockKey(calls[c].key, calls[c].grant) # LockKey(k, rows[k].grant)
  BY DEF LockFree
<1>2. CASE rows[k].grant \in Legacy
  <2>1. k \in RowsOf(calls[c].grant)
    BY DEF RowsOf, Connected
  <2>2. calls[c].key = k
    BY <1>2, <2>1 DEF TokenInv, Locked
  <2> QED
    BY <1>1, <2>2
<1>3. CASE rows[k].grant \notin Legacy
  BY <1>1, <1>3 DEF LockKey
<1> QED
  BY <1>2, <1>3

LEMMA InitToken == Init => TokenInv
<1> SUFFICES ASSUME Init PROVE TokenInv
  OBVIOUS
<1>1. Connected = {}
  BY DEF Init, Connected, NoRow
<1>2. \A c \in Caller : calls[c].pc = "idle"
  BY IdleFacts DEF Init
<1>3. \A g \in Legacy : RowsOf(g) = {}
  BY BankAssumption DEF Init, RowsOf, NoRow, Key
<1> QED
  BY <1>1, <1>2, <1>3
     DEF TokenInv, Placed, Single, Held, Locked, Covered, Locking,
         SpendsCurrentToken, OnePairPerGrant, StoredPairIsLive

\* A call ends.  If it had an answer, the bank is ahead of the store from now
\* on, or refuses the grant, or nothing is left to store it in.
LEMMA EndsInv ==
  ASSUME TypeInv, TypeInv', TokenInv, NEW c \in Caller, Done(c), RowsKept,
         OthersKept(calls[c].grant),
         Locking(c) \/ (head' = head /\ ahead' = ahead),
         Locking(c) =>
           LET g == calls[c].grant
           IN \/ head'[g] = NoToken \/ g \in ahead' \/ RowsOf(g) = {}
              \/ /\ calls[c].pc \notin {"write", "commit"}
                 /\ head'[g] = head[g] /\ (g \in ahead => g \in ahead')
  PROVE  TokenInv'
<1>0. rows' \in [Key -> Row] /\ RowsKept
  BY DEF TypeInv, TypeOK
<1>1. Connected' = Connected /\ \A g \in Grant : RowsOf(g)' = RowsOf(g)
  BY SameRows
<1>2. \A d \in Caller : calls'[d] = IF d = c THEN Idle ELSE calls[d]
  BY DoneType
<1>3. \A d \in Caller : Locking(d)' <=> d # c /\ Locking(d)
  BY <1>2, IdleFacts DEF Locking
<1>4. \A d \in Caller : d # c /\ Locking(d) =>
        /\ head'[calls[d].grant] = head[calls[d].grant]
        /\ calls[d].grant \in ahead' <=> calls[d].grant \in ahead
  BY LockedFacts DEF OthersKept
<1>5. Placed' /\ Single' /\ OnePairPerGrant'
  BY <1>1, BankAssumption DEF TokenInv, Placed, Single, OnePairPerGrant, RowsKept, OthersKept, Connected
<1>6. Held'
  BY <1>2, IdleFacts DEF TokenInv, Held, RowsKept, OthersKept
<1>7. Locked'
  BY <1>1, <1>2, <1>3, LockedFacts DEF TokenInv, Locked
<1>8. Covered'
  BY <1>1, <1>2, <1>3, <1>4, LockedFacts, IdleFacts DEF TokenInv, Covered, Locking
<1>9. SpendsCurrentToken'
  BY <1>2, <1>3, <1>4, LockedFacts, IdleFacts DEF TokenInv, SpendsCurrentToken, Locking
<1>10. StoredPairIsLive'
  <2> SUFFICES ASSUME NEW g \in Grant, NEW k \in RowsOf(g)
               PROVE  \/ rows[k].refresh = head'[g] \/ head'[g] = NoToken
                      \/ g \in ahead' \/ InFlight(g)'
    BY <1>0, LiveByGrant
  <2>1. k \in Connected /\ rows[k].grant = g
    BY BankAssumption DEF Connected, RowsOf, Key
  <2>2. rows[k].refresh = head[g] \/ head[g] = NoToken \/ g \in ahead \/ InFlight(g)
    BY <2>1 DEF TokenInv, StoredPairIsLive
  <2>3. CASE Locking(c) /\ calls[c].grant = g
    <3>1. ~InFlight(g) \/ calls[c].pc \in {"write", "commit"}
      BY <2>3, LockedFacts DEF InFlight, Locking
    <3> QED
      BY <2>1, <2>2, <2>3, <3>1
  <2>4. CASE ~(Locking(c) /\ calls[c].grant = g)
    <3>1. head'[g] = head[g] /\ (g \in ahead => g \in ahead')
      BY <2>4 DEF OthersKept
    <3>2. InFlight(g) => InFlight(g)'
      BY <1>2, <2>4, LockedFacts DEF InFlight, Locking
    <3> QED
      BY <2>2, <3>1, <3>2
  <2> QED
    BY <2>3, <2>4
<1> QED
  BY <1>5, <1>6, <1>7, <1>8, <1>9, <1>10 DEF TokenInv

\* A call with a lock goes on to another place than the first one.
LEMMA MovesInv ==
  ASSUME TypeInv, TypeInv', TokenInv, NEW c \in Caller, Locking(c), RowsKept,
         OthersKept(calls[c].grant),
         \A d \in Caller : d # c => calls'[d] = calls[d],
         calls'[c].key = calls[c].key, calls'[c].grant = calls[c].grant,
         calls'[c].stored = calls[c].stored,
         calls'[c].pc \in {"reissue", "write", "commit"},
         calls'[c].pc = "commit" => calls'[c].touched = RowsOf(calls[c].grant),
         calls'[c].pc # "reissue" =>
           head'[calls[c].grant] \in {NoToken, calls'[c].new.refresh},
         calls'[c].pc = "reissue" =>
           LET g == calls[c].grant
           IN \/ head'[g] = NoToken \/ g \in ahead'
              \/ /\ calls[c].pc \notin {"write", "commit"}
                 /\ head'[g] = head[g] /\ (g \in ahead => g \in ahead')
  PROVE  TokenInv'
<1>0. rows' \in [Key -> Row] /\ RowsKept
  BY DEF TypeInv, TypeOK
<1>1. Connected' = Connected /\ \A g \in Grant : RowsOf(g)' = RowsOf(g)
  BY SameRows
<1>2. \A d \in Caller : /\ Locking(d)' <=> Locking(d)
                        /\ calls'[d].key = calls[d].key
                        /\ calls'[d].grant = calls[d].grant
                        /\ calls'[d].stored = calls[d].stored
                        /\ calls[d].pc = "idle" => calls'[d].pc = "idle"
  BY DEF Locking
<1>3. \A d \in Caller : d # c /\ Locking(d) =>
        /\ head'[calls[d].grant] = head[calls[d].grant]
        /\ calls[d].grant \in ahead' <=> calls[d].grant \in ahead
  BY LockedFacts DEF OthersKept
<1>4. Placed' /\ Single' /\ OnePairPerGrant'
  BY <1>1, BankAssumption DEF TokenInv, Placed, Single, OnePairPerGrant, RowsKept, OthersKept, Connected
<1>5. Held'
  BY <1>2 DEF TokenInv, Held, RowsKept, OthersKept
<1>6. Locked'
  BY <1>1, <1>2, LockedFacts DEF TokenInv, Locked
<1>7. Covered'
  BY <1>1, <1>2, <1>3, LockedFacts DEF TokenInv, Covered, Locking
<1>8. SpendsCurrentToken'
  BY <1>2, <1>3, LockedFacts DEF TokenInv, SpendsCurrentToken, Locking
<1>9. StoredPairIsLive'
  <2> SUFFICES ASSUME NEW g \in Grant, NEW k \in RowsOf(g)
               PROVE  \/ rows[k].refresh = head'[g] \/ head'[g] = NoToken
                      \/ g \in ahead' \/ InFlight(g)'
    BY <1>0, LiveByGrant
  <2>1. k \in Connected /\ rows[k].grant = g
    BY BankAssumption DEF Connected, RowsOf, Key
  <2>2. rows[k].refresh = head[g] \/ head[g] = NoToken \/ g \in ahead \/ InFlight(g)
    BY <2>1 DEF TokenInv, StoredPairIsLive
  <2>3. CASE calls[c].grant = g
    <3>1. CASE calls'[c].pc # "reissue"
      BY <1>2, <2>3, <3>1, LockedFacts DEF InFlight
    <3>2. CASE calls'[c].pc = "reissue"
      <4>1. ~InFlight(g) \/ calls[c].pc \in {"write", "commit"}
        BY <2>3, LockedFacts DEF InFlight, Locking
      <4> QED
        BY <2>1, <2>2, <2>3, <3>2, <4>1
    <3> QED
      BY <3>1, <3>2
  <2>4. CASE calls[c].grant # g
    <3>1. head'[g] = head[g] /\ (g \in ahead => g \in ahead')
      BY <2>4 DEF OthersKept
    <3>2. InFlight(g) => InFlight(g)'
      BY <1>2, <2>4, LockedFacts DEF InFlight, Locking
    <3> QED
      BY <2>2, <3>1, <3>2
  <2> QED
    BY <2>3, <2>4
<1> QED
  BY <1>4, <1>5, <1>6, <1>7, <1>8, <1>9 DEF TokenInv

\* Steps of a call.
LEMMA GiveUpInv ==
  ASSUME TypeInv, TypeInv', TokenInv, NEW c \in Caller, GiveUp(c) PROVE TokenInv'
<1>1. ~Locking(c) /\ RowsKept /\ OthersKept(calls[c].grant)
  BY DEF GiveUp, Locking, RowsKept, OthersKept
<1> QED
  BY <1>1, EndsInv DEF GiveUp

LEMMA CrashInv ==
  ASSUME TypeInv, TypeInv', TokenInv, NEW c \in Caller, Crash(c) PROVE TokenInv'
<1>1. RowsKept /\ Done(c)
  BY DEF Crash, RowsKept
<1>2. OthersKept(calls[c].grant)
  BY LockedFacts DEF Crash, OthersKept, Locking
<1>3. Locking(c) =>
        LET g == calls[c].grant
        IN \/ g \in ahead'
           \/ /\ calls[c].pc \notin {"write", "commit"}
              /\ head'[g] = head[g] /\ (g \in ahead => g \in ahead')
  BY LockedFacts DEF Crash
<1>4. Locking(c) \/ (head' = head /\ ahead' = ahead)
  BY DEF Crash, Locking
<1> QED
  BY <1>1, <1>2, <1>3, <1>4, EndsInv

LEMMA RollbackInv ==
  ASSUME TypeInv, TypeInv', TokenInv, NEW c \in Caller, Rollback(c) PROVE TokenInv'
<1>1. RowsKept /\ Done(c) /\ Locking(c)
  BY DEF Rollback, RowsKept, Locking
<1>2. OthersKept(calls[c].grant) /\ calls[c].grant \in ahead'
  BY <1>1, LockedFacts DEF Rollback, OthersKept
<1> QED
  BY <1>1, <1>2, EndsInv

LEMMA ReissueFailsInv ==
  ASSUME TypeInv, TypeInv', TokenInv, NEW c \in Caller, NEW lost \in BOOLEAN,
         ReissueFails(c, lost)
  PROVE  TokenInv'
<1>1. RowsKept /\ Done(c) /\ Locking(c) /\ calls[c].pc = "reissue"
  BY DEF ReissueFails, RowsKept, Locking
<1>2. OthersKept(calls[c].grant)
  BY <1>1, LockedFacts DEF ReissueFails, OthersKept, Issue, TypeInv, TypeOK
<1>3. \/ calls[c].grant \in ahead'
      \/ /\ head'[calls[c].grant] = head[calls[c].grant]
         /\ calls[c].grant \in ahead => calls[c].grant \in ahead'
  BY <1>1, LockedFacts DEF ReissueFails
<1> QED
  BY <1>1, <1>2, <1>3, EndsInv

\* A failed refresh ends the call or turns it to the API key.
LEMMA FailsInv ==
  ASSUME TypeInv, TypeInv', TokenInv, NEW c \in Caller, calls[c].pc = "refresh",
         RefreshFails(c), RowsKept, OthersKept(calls[c].grant),
         LET g == calls[c].grant
         IN \/ head'[g] = NoToken \/ g \in ahead'
            \/ head'[g] = head[g] /\ (g \in ahead => g \in ahead')
  PROVE  TokenInv'
<1>1. Locking(c)
  BY DEF Locking
<1>2. CASE Done(c)
  BY <1>1, <1>2, EndsInv
<1>3. CASE ~Done(c)
  <2>1. calls' = [calls EXCEPT ![c] =
          [calls[c] EXCEPT !.pc = "reissue", !.new = calls[c].new,
                           !.touched = calls[c].touched]]
    BY <1>3, RefreshFailsMoves
  <2>2. calls[c] \in Call /\ calls \in [Caller -> Call]
    BY DEF TypeInv, TypeOK
  <2>3. /\ \A d \in Caller : d # c => calls'[d] = calls[d]
        /\ calls'[c].key = calls[c].key /\ calls'[c].grant = calls[c].grant
        /\ calls'[c].stored = calls[c].stored /\ calls'[c].pc = "reissue"
    BY <2>1, <2>2 DEF Call
  <2> QED
    BY <1>1, <2>3, MovesInv
<1> QED
  BY <1>2, <1>3

LEMMA RefreshLostInv ==
  ASSUME TypeInv, TypeInv', TokenInv, NEW c \in Caller, RefreshLost(c) PROVE TokenInv'
<1>1. Locking(c) /\ RowsKept /\ calls[c].pc = "refresh"
  BY DEF RefreshLost, Locking, RowsKept
<1>2. OthersKept(calls[c].grant) /\ calls[c].grant \in ahead'
  BY <1>1, LockedFacts DEF RefreshLost, OthersKept, Issue, TypeInv, TypeOK
<1> QED
  BY <1>1, <1>2, FailsInv DEF RefreshLost

LEMMA RefreshDownInv ==
  ASSUME TypeInv, TypeInv', TokenInv, NEW c \in Caller, RefreshDown(c) PROVE TokenInv'
<1>1. RowsKept /\ calls[c].pc = "refresh" /\ OthersKept(calls[c].grant)
  BY DEF RefreshDown, RowsKept, OthersKept
<1> QED
  BY <1>1, FailsInv DEF RefreshDown

LEMMA RefusedInv ==
  ASSUME TypeInv, TypeInv', TokenInv, NEW c \in Caller, Refused(c) PROVE TokenInv'
<1>1. Locking(c) /\ calls[c].pc = "refresh"
  BY DEF Refused, Locking
<1>2. RowsKept
  <2> DEFINE hit == Addressed(calls[c].key, calls[c].stored.grant)
  <2>1. calls[c].stored.grant \in Grant
    BY <1>1, CallFacts
  <2>2. hit \subseteq Connected
    BY <2>1, BankAssumption DEF Addressed, RowsOf, Connected, Key
  <2>3. \A k \in Connected : LET r == [rows[k] EXCEPT !.rejected = TRUE]
          IN /\ r.grant = rows[k].grant /\ r.access = rows[k].access
             /\ r.refresh = rows[k].refresh
    <3> SUFFICES ASSUME NEW k \in Connected
                 PROVE  LET r == [rows[k] EXCEPT !.rejected = TRUE]
                        IN /\ r.grant = rows[k].grant /\ r.access = rows[k].access
                           /\ r.refresh = rows[k].refresh
      OBVIOUS
    <3>1. rows[k] \in Account
      BY RowFacts DEF TypeInv, TypeOK, Connected
    <3> QED
      BY <3>1 DEF Account
  <2>4. CASE rows' = Marked(c)
    <3>1. \A k \in Key : rows'[k] = IF k \in hit THEN [rows[k] EXCEPT !.rejected = TRUE]
                                    ELSE rows[k]
      BY <2>4 DEF Marked
    <3> QED
      BY <2>2, <2>3, <3>1 DEF RowsKept
  <2>5. CASE rows' = rows
    BY <2>5 DEF RowsKept
  <2> QED
    BY <2>4, <2>5 DEF Refused
<1>3. OthersKept(calls[c].grant) /\ head'[calls[c].grant] = NoToken
  BY <1>1, LockedFacts DEF Refused, OthersKept, TypeInv, TypeOK
<1> QED
  BY <1>1, <1>2, <1>3, FailsInv DEF Refused

LEMMA AnswerInv ==
  ASSUME TypeInv, TypeInv', TokenInv, NEW c \in Caller,
         calls[c].pc \in {"refresh", "reissue"},
         NEW refresh \in Nat, Answer(c, NewToken, refresh),
         Issue(calls[c].stored.grant, refresh), rows' = rows, opened' = opened,
         ahead' = ahead
  PROVE  TokenInv'
<1>1. Locking(c) /\ RowsKept
  BY DEF Locking, RowsKept
<1>2. calls' = [calls EXCEPT ![c] =
        [calls[c] EXCEPT !.pc = "write",
                         !.new = [access |-> NewToken, refresh |-> refresh],
                         !.touched = calls[c].touched]]
  BY AnswerMoves, CallFacts
<1>3. calls[c] \in Call /\ calls \in [Caller -> Call]
  BY DEF TypeInv, TypeOK
<1>4. /\ \A d \in Caller : d # c => calls'[d] = calls[d]
      /\ calls'[c].key = calls[c].key /\ calls'[c].grant = calls[c].grant
      /\ calls'[c].stored = calls[c].stored /\ calls'[c].pc = "write"
      /\ calls'[c].new.refresh = refresh
  BY <1>2, <1>3 DEF Call
<1>5. OthersKept(calls[c].grant) /\ head'[calls[c].grant] = refresh
  BY <1>1, LockedFacts DEF Issue, OthersKept, TypeInv, TypeOK
<1> QED
  BY <1>1, <1>4, <1>5, MovesInv

LEMMA RefreshInv ==
  ASSUME TypeInv, TypeInv', TokenInv, NEW c \in Caller, NEW bare \in BOOLEAN,
         Refresh(c, bare)
  PROVE  TokenInv'
<1> DEFINE refresh == IF bare THEN calls[c].stored.refresh ELSE NewToken
<1>1. refresh \in Nat
  BY CallFacts
<1>2. Answer(c, NewToken, refresh) /\ Issue(calls[c].stored.grant, refresh)
  BY DEF Refresh
<1> QED
  BY <1>1, <1>2, AnswerInv DEF Refresh

LEMMA ReissueInv ==
  ASSUME TypeInv, TypeInv', TokenInv, NEW c \in Caller, Reissue(c) PROVE TokenInv'
<1>1. NewToken \in Nat
  BY CallFacts
<1> QED
  BY <1>1, AnswerInv DEF Reissue

\* What the update of a call covers: all rows of its grant.
LEMMA HitIsGrant ==
  ASSUME TypeInv, TokenInv, NEW c \in Caller, Locking(c)
  PROVE  Addressed(calls[c].key, calls[c].stored.grant) = RowsOf(calls[c].grant)
<1>1. calls[c].grant \in Grant /\ calls[c].stored.grant = calls[c].grant
  BY LockedFacts
<1>2. rows[calls[c].key].grant \in {NoGrant, calls[c].grant} /\ calls[c].key \in Key
  BY DEF TokenInv, Held, Locking
<1>3. calls[c].grant # NoGrant
  BY <1>1, BankAssumption DEF Key
<1>4. CASE calls[c].grant \in Legacy
  <2>1. RowsOf(calls[c].grant) \subseteq {calls[c].key}
    BY <1>4 DEF TokenInv, Locked
  <2> QED
    BY <1>1, <1>2, <1>3, <1>4, <2>1 DEF Addressed, RowsOf, Connected
<1>5. CASE calls[c].grant \notin Legacy
  BY <1>1, <1>5 DEF Addressed
<1> QED
  BY <1>4, <1>5

LEMMA WriteInv ==
  ASSUME TypeInv, TypeInv', TokenInv, NEW c \in Caller, Write(c) PROVE TokenInv'
<1> DEFINE hit == Addressed(calls[c].key, calls[c].stored.grant)
<1>1. Locking(c) /\ RowsKept /\ OthersKept(calls[c].grant) /\ head' = head
  BY DEF Write, Locking, RowsKept, OthersKept
<1>2. hit = RowsOf(calls[c].grant)
  BY <1>1, HitIsGrant
<1>3. CASE hit = {}
  <2>1. Done(c)
    BY <1>3, WriteMoves
  <2> QED
    BY <1>1, <1>2, <1>3, <2>1, EndsInv
<1>4. CASE hit # {}
  <2>1. calls' = [calls EXCEPT ![c] =
          [calls[c] EXCEPT !.pc = "commit", !.new = calls[c].new, !.touched = hit]]
    BY <1>4, WriteMoves
  <2>2. calls[c] \in Call /\ calls \in [Caller -> Call]
    BY DEF TypeInv, TypeOK
  <2>3. /\ \A d \in Caller : d # c => calls'[d] = calls[d]
        /\ calls'[c].key = calls[c].key /\ calls'[c].grant = calls[c].grant
        /\ calls'[c].stored = calls[c].stored /\ calls'[c].pc = "commit"
        /\ calls'[c].new = calls[c].new /\ calls'[c].touched = hit
    BY <2>1, <2>2, WriteMoves DEF Call, Connected
  <2>4. head'[calls[c].grant] \in {NoToken, calls'[c].new.refresh}
    BY <1>1, <2>3 DEF Write, TokenInv, Covered
  <2> QED
    BY <1>1, <1>2, <2>3, <2>4, MovesInv
<1> QED
  BY <1>3, <1>4

LEMMA EnsureInv ==
  ASSUME TypeInv, TypeInv', TokenInv, NEW c \in Caller, NEW k \in Key,
         NEW force \in BOOLEAN, Ensure(c, k, force)
  PROVE  TokenInv'
<1>1. /\ rows' = rows /\ head' = head /\ opened' = opened /\ ahead' = ahead
      /\ k \in Connected /\ calls[c].pc = "idle"
  BY DEF Ensure
<1>2. /\ \A d \in Caller : d # c => calls'[d] = calls[d]
      /\ calls'[c].pc = "wait" /\ calls'[c].key = k /\ calls'[c].grant = rows[k].grant
  <2> DEFINE r == [Idle EXCEPT !.pc = "wait", !.key = k, !.grant = rows[k].grant,
                               !.access = rows[k].access, !.force = force]
  <2>1. r.pc = "wait" /\ r.key = k /\ r.grant = rows[k].grant
    BY DEF Idle
  <2> QED
    BY <2>1 DEF Ensure, TypeInv, TypeOK
<1>3. \A d \in Caller : /\ Locking(d)' <=> Locking(d)
                        /\ Locking(d) => calls'[d] = calls[d] /\ d # c
  BY <1>1, <1>2 DEF Locking
<1>4. Placed' /\ Single' /\ OnePairPerGrant'
  BY <1>1 DEF TokenInv, Placed, Single, OnePairPerGrant, Connected, RowsOf
<1>5. Held'
  BY <1>1, <1>2 DEF TokenInv, Held, Placed
<1>6. Locked'
  BY <1>1, <1>3 DEF TokenInv, Locked, RowsOf
<1>7. Covered' /\ SpendsCurrentToken'
  BY <1>1, <1>2, <1>3 DEF TokenInv, Covered, SpendsCurrentToken, RowsOf, Locking
<1>8. \A g \in Grant : InFlight(g) => InFlight(g)'
  BY <1>3 DEF InFlight, Locking
<1>9. StoredPairIsLive'
  <2> SUFFICES ASSUME NEW g \in Grant, NEW m \in RowsOf(g)
               PROVE  \/ rows[m].refresh = head'[g] \/ head'[g] = NoToken
                      \/ g \in ahead' \/ InFlight(g)'
    BY <1>1, LiveByGrant DEF RowsKept, TypeInv, TypeOK
  <2>1. m \in Connected /\ rows[m].grant = g
    BY BankAssumption DEF Connected, RowsOf, Key
  <2> QED
    BY <1>1, <1>8, <2>1 DEF TokenInv, StoredPairIsLive
<1> QED
  BY <1>4, <1>5, <1>6, <1>7, <1>9 DEF TokenInv

LEMMA TakeInv ==
  ASSUME TypeInv, TypeInv', TokenInv, NEW c \in Caller, Take(c) PROVE TokenInv'
<1>0. calls[c].key \in Key /\ calls[c].pc = "wait" /\ ~Locking(c)
  BY DEF Take, TypeInv, Grounded, Locking
<1>1. /\ rows' = rows /\ head' = head /\ opened' = opened /\ ahead' = ahead
      /\ RowsKept /\ OthersKept(calls[c].grant)
  BY DEF Take, RowsKept, OthersKept
<1>2. CASE Done(c)
  BY <1>0, <1>1, <1>2, EndsInv
<1>3. CASE ~Done(c)
  <2> DEFINE k == calls[c].key
             next == IF rows[k].refresh # NoToken THEN "refresh" ELSE "reissue"
             r == Going(c, rows[k], next)
  <2>1. rows[k].grant \in Grant /\ calls' = [calls EXCEPT ![c] = r]
    BY <1>0, <1>3, TakeCases
  <2>2. /\ r.touched = {} /\ r.pc = next /\ r.key = k /\ r.grant = calls[c].grant
        /\ r.stored.grant = rows[k].grant /\ r.stored.refresh = rows[k].refresh
    BY <1>0, <2>1, GoingFacts
  <2>3. \A d \in Caller : calls'[d] = IF d = c THEN r ELSE calls[d]
    BY <2>1 DEF TypeInv, TypeOK
  <2>4. rows[k].grant = calls[c].grant /\ k \in Connected
    BY <1>0, <2>1, BankAssumption DEF TokenInv, Held, Connected, Key
  <2>5. \A d \in Caller : Locking(d) => calls[d].grant # calls[c].grant
    BY <1>0, <2>4, NobodyHolds DEF Take
  <2>6. /\ \A d \in Caller : d # c => (Locking(d)' <=> Locking(d))
        /\ Locking(c)'
    BY <2>2, <2>3 DEF Locking
  <2>7. Placed' /\ Single' /\ OnePairPerGrant'
    BY <1>1 DEF TokenInv, Placed, Single, OnePairPerGrant, Connected, RowsOf
  <2>8. Held'
    <3>1. \A d \in Caller : calls'[d].key = calls[d].key /\ calls'[d].grant = calls[d].grant
      BY <2>2, <2>3
    <3>2. \A d \in Caller : calls'[d].pc # "idle" => calls[d].pc # "idle"
      BY <1>0, <2>3
    <3> QED
      BY <1>1, <3>1, <3>2 DEF TokenInv, Held
  <2>9. Locked'
    <3>1. calls[c].grant \in Legacy => RowsOf(calls[c].grant) \subseteq {k}
      BY <2>4 DEF TokenInv, Single, RowsOf, Connected
    <3>2. \A h : RowsOf(h)' = RowsOf(h)
      BY <1>1 DEF RowsOf
    <3>3. \A d \in Caller : d # c => calls'[d] = calls[d]
      BY <2>3
    <3>4. /\ calls'[c].key = k /\ calls'[c].grant = calls[c].grant
          /\ calls'[c].stored.grant = calls[c].grant
      BY <2>2, <2>3, <2>4
    <3>5. Locked
      BY DEF TokenInv
    <3> QED
      BY <2>5, <2>6, <3>1, <3>2, <3>3, <3>4, <3>5 DEF Locked
  <2>10. Covered'
    <3>1. \A d \in Caller : calls'[d].pc \in {"write", "commit"} =>
                            d # c /\ calls'[d] = calls[d]
      BY <2>2, <2>3
    <3>2. \A h : RowsOf(h)' = RowsOf(h)
      BY <1>1 DEF RowsOf
    <3> QED
      BY <1>1, <3>1, <3>2 DEF TokenInv, Covered
  <2>11. SpendsCurrentToken'
    <3>1. ~InFlight(calls[c].grant)
      BY <2>5, LockedFacts DEF InFlight, Locking
    <3>2. \/ rows[k].refresh = head[calls[c].grant] \/ head[calls[c].grant] = NoToken
          \/ calls[c].grant \in ahead
      BY <2>4, <3>1 DEF TokenInv, StoredPairIsLive
    <3> QED
      BY <1>1, <2>2, <2>3, <2>4, <3>2 DEF TokenInv, SpendsCurrentToken
  <2>12. \A g \in Grant : InFlight(g) => InFlight(g)'
    BY <1>0, <2>3 DEF InFlight
  <2>13. StoredPairIsLive'
    <3> SUFFICES ASSUME NEW g \in Grant, NEW m \in RowsOf(g)
                 PROVE  \/ rows[m].refresh = head'[g] \/ head'[g] = NoToken
                        \/ g \in ahead' \/ InFlight(g)'
      BY <1>1, LiveByGrant DEF TypeInv, TypeOK
    <3>1. m \in Connected /\ rows[m].grant = g
      BY BankAssumption DEF Connected, RowsOf, Key
    <3> QED
      BY <1>1, <2>12, <3>1 DEF TokenInv, StoredPairIsLive
  <2> QED
    BY <2>7, <2>8, <2>9, <2>10, <2>11, <2>13 DEF TokenInv
<1> QED
  BY <1>2, <1>3

LEMMA CommitInv ==
  ASSUME TypeInv, TypeInv', TokenInv, NEW c \in Caller, Commit(c) PROVE TokenInv'
<1> DEFINE g == calls[c].grant
           pair == calls[c].new
<1>1. /\ Locking(c) /\ calls[c].pc = "commit" /\ opened' = opened /\ head' = head
      /\ ahead' = ahead \ {calls[c].stored.grant} /\ Done(c)
  BY DEF Commit, Locking
<1>2. /\ g \in Grant /\ calls[c].stored.grant = g
      /\ \A d \in Caller : Locking(d) /\ calls[d].grant = g => d = c
      /\ \A d \in Caller : Locking(d) => calls[d].stored.grant = calls[d].grant
  BY <1>1, LockedFacts
<1>3. calls[c].touched = RowsOf(g) /\ head[g] \in {NoToken, pair.refresh}
  BY <1>1 DEF TokenInv, Covered
<1>4. /\ Connected' = Connected /\ \A k \in Key : rows'[k].grant = rows[k].grant
      /\ \A k \in RowsOf(g) : rows'[k].access = pair.access /\ rows'[k].refresh = pair.refresh
      /\ \A k \in Key \ RowsOf(g) : rows'[k] = rows[k]
      /\ \A h : RowsOf(h)' = RowsOf(h)
  BY <1>3, CommitRows DEF RowsOf
<1>5. \A d \in Caller : calls'[d] = IF d = c THEN Idle ELSE calls[d]
  BY <1>1, DoneType
<1>6. \A d \in Caller : Locking(d)' <=> d # c /\ Locking(d)
  BY <1>5, IdleFacts DEF Locking
<1>7. Placed' /\ Single'
  BY <1>1, <1>4 DEF TokenInv, Placed, Single, Connected
<1>8. OnePairPerGrant'
  BY <1>4 DEF TokenInv, OnePairPerGrant, RowsOf, Connected
<1>9. Held'
  BY <1>1, <1>4, <1>5, IdleFacts DEF TokenInv, Held
<1>10. Locked'
  BY <1>2, <1>4, <1>5, <1>6 DEF TokenInv, Locked
<1>11. Covered'
  BY <1>1, <1>4, <1>5, IdleFacts DEF TokenInv, Covered
<1>12. SpendsCurrentToken'
  BY <1>1, <1>2, <1>5, IdleFacts DEF TokenInv, SpendsCurrentToken, Locking
<1>13. StoredPairIsLive'
  <2> SUFFICES ASSUME NEW k \in Connected
               PROVE  LET h == rows[k].grant
                      IN \/ rows'[k].refresh = head[h] \/ head[h] = NoToken
                         \/ h \in ahead'
                         \/ \E d \in Caller : /\ calls'[d].pc \in {"write", "commit"}
                                              /\ calls'[d].stored.grant = h
    BY <1>1, <1>4 DEF StoredPairIsLive, InFlight, Connected
  <2>1. CASE rows[k].grant = g
    BY <1>3, <1>4, <2>1 DEF RowsOf, Connected
  <2>2. CASE rows[k].grant # g
    <3>1. rows'[k] = rows[k]
      BY <1>4, <2>2 DEF RowsOf, Connected
    <3>2. \/ rows[k].refresh = head[rows[k].grant] \/ head[rows[k].grant] = NoToken
          \/ rows[k].grant \in ahead \/ InFlight(rows[k].grant)
      BY DEF TokenInv, StoredPairIsLive
    <3> QED
      BY <1>1, <1>2, <1>5, <2>2, <3>1, <3>2 DEF InFlight
  <2> QED
    BY <2>1, <2>2
<1> QED
  BY <1>7, <1>8, <1>9, <1>10, <1>11, <1>12, <1>13 DEF TokenInv

\* Steps of people and of the bank: no call moves.
LEMMA CopiesKeepPairs ==
  ASSUME TokenInv, UNCHANGED <<calls, head, ahead>>,
         \A k \in Connected' : \E m \in Connected :
           /\ rows'[k].grant = rows[m].grant
           /\ rows'[k].access = rows[m].access
           /\ rows'[k].refresh = rows[m].refresh
  PROVE  OnePairPerGrant' /\ StoredPairIsLive'
<1>1. OnePairPerGrant'
  <2> SUFFICES ASSUME NEW k \in Connected', NEW m \in Connected',
                      rows'[k].grant = rows'[m].grant
               PROVE  rows'[k].access = rows'[m].access /\ rows'[k].refresh = rows'[m].refresh
    BY DEF OnePairPerGrant
  <2>1. PICK a \in Connected : /\ rows'[k].grant = rows[a].grant
                               /\ rows'[k].access = rows[a].access
                               /\ rows'[k].refresh = rows[a].refresh
    OBVIOUS
  <2>2. PICK b \in Connected : /\ rows'[m].grant = rows[b].grant
                               /\ rows'[m].access = rows[b].access
                               /\ rows'[m].refresh = rows[b].refresh
    OBVIOUS
  <2>3. OnePairPerGrant /\ rows[a].grant = rows[b].grant
    BY <2>1, <2>2 DEF TokenInv
  <2>4. rows[a].access = rows[b].access /\ rows[a].refresh = rows[b].refresh
    BY ONLY <2>3 DEF OnePairPerGrant
  <2> QED
    BY ONLY <2>1, <2>2, <2>4
<1>2. StoredPairIsLive'
  <2> SUFFICES ASSUME NEW k \in Connected'
               PROVE  \/ rows'[k].refresh = head[rows'[k].grant]
                      \/ head[rows'[k].grant] = NoToken \/ rows'[k].grant \in ahead
                      \/ \E c \in Caller : /\ calls[c].pc \in {"write", "commit"}
                                           /\ calls[c].stored.grant = rows'[k].grant
    BY DEF StoredPairIsLive, InFlight
  <2>1. PICK a \in Connected : rows'[k].grant = rows[a].grant /\ rows'[k].refresh = rows[a].refresh
    OBVIOUS
  <2> QED
    BY <2>1 DEF TokenInv, StoredPairIsLive, InFlight
<1> QED
  BY <1>1, <1>2

LEMMA ConnectInv ==
  ASSUME TypeInv, TypeInv', TokenInv, NEW g \in Grant, NEW bare \in BOOLEAN,
         Connect(g, bare)
  PROVE  TokenInv'
<1> DEFINE refresh == IF bare THEN NoToken ELSE NewToken
           r == [grant |-> g, access |-> NewToken, refresh |-> refresh,
                 fresh |-> TRUE, apiKey |-> g \in Keyed, rejected |-> FALSE]
<1>1. /\ calls' = calls /\ ahead' = ahead /\ opened' = opened \cup {g} /\ g \notin opened
      /\ head' = [head EXCEPT ![g] = refresh] /\ rows' = [rows EXCEPT ![g] = r]
  BY DEF Connect, Issue
<1>2. g \in Key /\ g # NoGrant
  BY BankAssumption DEF Key
<1>3. /\ \A k \in Key : rows'[k] = IF k = g THEN r ELSE rows[k]
      /\ \A h \in Grant : head'[h] = IF h = g THEN refresh ELSE head[h]
  BY <1>1, <1>2 DEF TypeInv, TypeOK
<1>4. g \notin Connected /\ RowsOf(g) = {}
  BY <1>1, <1>2 DEF TokenInv, Placed, Connected, RowsOf
<1>5. \A d \in Caller : calls[d].pc # "idle" => calls[d].grant # g /\ calls[d].key # g
  BY <1>1 DEF TokenInv, Held
<1>6. /\ Connected' = Connected \cup {g} /\ RowsOf(g)' = {g}
      /\ \A h \in Grant : h # g => RowsOf(h)' = RowsOf(h)
  <2>1. r.grant = g
    OBVIOUS
  <2>2. \A k \in Key : rows'[k].grant = IF k = g THEN g ELSE rows[k].grant
    BY <1>3, <2>1
  <2>3. Connected' = Connected \cup {g}
    BY <1>2, <2>2 DEF Connected
  <2>4. RowsOf(g)' = {g}
    BY <1>2, <1>4, <2>2 DEF RowsOf
  <2>5. \A h \in Grant : h # g => RowsOf(h)' = RowsOf(h)
    BY <1>2, <1>4, <2>2, BankAssumption DEF Connected, RowsOf, Key
  <2> QED
    BY <2>3, <2>4, <2>5
<1>7. Placed' /\ OnePairPerGrant'
  BY <1>1, <1>3, <1>4, <1>6 DEF TokenInv, Placed, OnePairPerGrant, Connected, RowsOf
<1>8. Single'
  BY <1>6, BankAssumption DEF TokenInv, Single
<1>9. Held'
  BY <1>1, <1>3, <1>5 DEF TokenInv, Held
<1>10. \A d \in Caller : Locking(d) =>
         calls[d].grant \in Grant \ {g} /\ calls[d].stored.grant = calls[d].grant
  BY <1>5, LockedFacts DEF Locking
<1>11. Locked'
  BY <1>1, <1>6, <1>10 DEF TokenInv, Locked, Locking
<1>12. Covered'
  BY <1>1, <1>3, <1>6, <1>10 DEF TokenInv, Covered, Locking
<1>13. SpendsCurrentToken'
  BY <1>1, <1>3, <1>10 DEF TokenInv, SpendsCurrentToken, Locking
<1>14. StoredPairIsLive'
  <2>1. \A k \in Connected : rows[k].grant \in Grant \ {g}
    BY <1>4, RowFacts DEF RowsOf, Connected, TypeInv, TypeOK
  <2> SUFFICES ASSUME NEW k \in Connected \cup {g}
               PROVE  LET h == rows'[k].grant
                      IN \/ rows'[k].refresh = head'[h] \/ head'[h] = NoToken \/ h \in ahead
                         \/ \E c \in Caller : /\ calls[c].pc \in {"write", "commit"}
                                              /\ calls[c].stored.grant = h
    BY <1>1, <1>6 DEF StoredPairIsLive, InFlight
  <2>2. CASE k = g
    BY <1>2, <1>3, <2>2
  <2>3. CASE k # g
    <3>1. rows'[k] = rows[k] /\ head'[rows[k].grant] = head[rows[k].grant] /\ k \in Connected
      BY <1>3, <2>1, <2>3 DEF Connected
    <3> QED
      BY <3>1 DEF TokenInv, StoredPairIsLive, InFlight
  <2> QED
    BY <2>2, <2>3
<1> QED
  BY <1>7, <1>8, <1>9, <1>11, <1>12, <1>13, <1>14 DEF TokenInv

LEMMA ChooseInv ==
  ASSUME Patient, TypeInv, TypeInv', TokenInv, NEW g \in Grant, NEW n \in Number,
         ChooseAccount(g, n)
  PROVE  TokenInv'
<1>1. /\ calls' = calls /\ ahead' = ahead /\ opened' = opened /\ head' = head
      /\ g \in Connected /\ n \notin Connected /\ g # n /\ g \in Key /\ n \in Key
  BY BankAssumption DEF ChooseAccount, Key
<1>2. \A k \in Key : rows'[k] = IF k = n THEN rows[g] ELSE IF k = g THEN NoRow ELSE rows[k]
  BY <1>1 DEF ChooseAccount, TypeInv, TypeOK
<1>3. rows[g].grant = g /\ g \in opened
  BY <1>1 DEF TokenInv, Placed
<1>4. \A d \in Caller : Locking(d) => calls[d].grant \in Grant \ {g}
  BY <1>1, <1>3, NobodyHolds, LockedFacts DEF ChooseAccount
<1>5. \A d \in Caller : calls[d].key # n
  BY DEF ChooseAccount, Unattended
<1>6. NoRow.grant = NoGrant /\ g # NoGrant
  BY BankAssumption DEF NoRow, Key
<1>7. /\ Connected' = (Connected \ {g}) \cup {n}
      /\ \A h \in Grant : h # g => RowsOf(h)' = RowsOf(h)
      /\ RowsOf(g)' = (RowsOf(g) \ {g}) \cup {n}
  BY <1>1, <1>2, <1>3, <1>6, BankAssumption DEF Connected, RowsOf, Key
<1>8. Placed'
  <2> SUFFICES ASSUME NEW k \in (Connected \ {g}) \cup {n}
               PROVE  rows'[k].grant \in opened /\ (k \in Grant => rows'[k].grant = k)
    BY <1>1, <1>7 DEF Placed
  <2>1. CASE k = n
    BY <1>1, <1>2, <1>3, <2>1, BankAssumption
  <2>2. CASE k # n
    BY <1>2, <2>2 DEF TokenInv, Placed, Connected
  <2> QED
    BY <2>1, <2>2
<1>9. Single'
  <2>1. g \in Legacy => RowsOf(g) = {g}
    BY <1>1, <1>3 DEF TokenInv, Single, RowsOf
  <2> QED
    BY <1>7, <2>1, BankAssumption DEF TokenInv, Single
<1>10. OnePairPerGrant' /\ StoredPairIsLive'
  <2> SUFFICES ASSUME NEW k \in Connected'
               PROVE  \E m \in Connected : rows'[k] = rows[m]
    BY <1>1, CopiesKeepPairs
  <2>1. CASE k = n
    BY <1>1, <1>2, <2>1
  <2>2. CASE k # n
    BY <1>2, <1>7, <2>2 DEF Connected
  <2> QED
    BY <2>1, <2>2
<1>11. Held'
  BY <1>1, <1>2, <1>5, <1>6 DEF TokenInv, Held
<1>12. Locked'
  BY <1>1, <1>4, <1>7 DEF TokenInv, Locked, Locking
<1>13. Covered' /\ SpendsCurrentToken'
  BY <1>1, <1>4, <1>7 DEF TokenInv, Covered, SpendsCurrentToken, Locking
<1> QED
  BY <1>8, <1>9, <1>10, <1>11, <1>12, <1>13 DEF TokenInv

LEMMA AddInv ==
  ASSUME Patient, TypeInv, TypeInv', TokenInv, NEW k \in Key, NEW n \in Number,
         AddAccount(k, n)
  PROVE  TokenInv'
<1> DEFINE r == [rows[k] EXCEPT !.apiKey = FALSE, !.rejected = FALSE]
           g == rows[k].grant
<1>1. /\ calls' = calls /\ ahead' = ahead /\ opened' = opened /\ head' = head
      /\ k \in Connected /\ n \notin Connected /\ n \in Key /\ g \notin Legacy
      /\ n \notin Grant
  BY BankAssumption DEF AddAccount, Key
<1>2. rows[k] \in Account /\ g \in Grant /\ g # NoGrant /\ g \in opened
  BY <1>1, RowFacts DEF TypeInv, TypeOK, Connected, TokenInv, Placed
<1>3. r.grant = g /\ r.access = rows[k].access /\ r.refresh = rows[k].refresh
  BY <1>2 DEF Account
<1>4. \A m \in Key : rows'[m] = IF m = n THEN r ELSE rows[m]
  BY <1>1 DEF AddAccount, TypeInv, TypeOK
<1>5. \A d \in Caller : Locking(d) => calls[d].grant \in Grant \ {g}
  BY <1>1, NobodyHolds, LockedFacts DEF AddAccount
<1>6. \A d \in Caller : calls[d].key # n
  BY DEF AddAccount, Unattended
<1>7. /\ Connected' = Connected \cup {n}
      /\ \A h \in Grant : h # g => RowsOf(h)' = RowsOf(h)
  <2>1. \A m \in Key : rows'[m].grant = IF m = n THEN g ELSE rows[m].grant
    BY <1>3, <1>4
  <2>2. Connected' = Connected \cup {n}
    BY <1>1, <1>2, <2>1 DEF Connected
  <2>3. rows[n].grant = NoGrant
    BY <1>1 DEF Connected
  <2> QED
    BY <1>1, <2>1, <2>2, <2>3, BankAssumption DEF RowsOf, Key
<1>8. Placed'
  <2> SUFFICES ASSUME NEW m \in Connected \cup {n}
               PROVE  rows'[m].grant \in opened /\ (m \in Grant => rows'[m].grant = m)
    BY <1>1, <1>7 DEF Placed
  <2>1. CASE m = n
    BY <1>1, <1>2, <1>3, <1>4, <2>1
  <2>2. CASE m # n
    BY <1>4, <2>2 DEF TokenInv, Placed, Connected
  <2> QED
    BY <2>1, <2>2
<1>9. Single'
  BY <1>1, <1>7, BankAssumption DEF TokenInv, Single
<1>10. OnePairPerGrant' /\ StoredPairIsLive'
  <2> SUFFICES ASSUME NEW m \in Connected'
               PROVE  \E a \in Connected : /\ rows'[m].grant = rows[a].grant
                                           /\ rows'[m].access = rows[a].access
                                           /\ rows'[m].refresh = rows[a].refresh
    BY <1>1, CopiesKeepPairs
  <2>1. CASE m = n
    BY <1>1, <1>3, <1>4, <2>1
  <2>2. CASE m # n
    BY <1>4, <1>7, <2>2 DEF Connected
  <2> QED
    BY <2>1, <2>2
<1>11. Held'
  BY <1>1, <1>4, <1>6 DEF TokenInv, Held
<1>12. Locked'
  BY <1>1, <1>5, <1>7 DEF TokenInv, Locked, Locking
<1>13. Covered' /\ SpendsCurrentToken'
  BY <1>1, <1>5, <1>7 DEF TokenInv, Covered, SpendsCurrentToken, Locking
<1> QED
  BY <1>8, <1>9, <1>10, <1>11, <1>12, <1>13 DEF TokenInv

\* Rows go away, none under an uncommitted update.
LEMMA RowsGo ==
  ASSUME TypeInv, TypeInv', TokenInv, NEW gone \in SUBSET Connected, Untouched(gone),
         rows' = [k \in Key |-> IF k \in gone THEN NoRow ELSE rows[k]],
         UNCHANGED <<calls, ahead, opened, head>>
  PROVE  TokenInv'
<1>1. NoRow.grant = NoGrant
  BY DEF NoRow
<1>2. /\ Connected' = Connected \ gone
      /\ \A h \in Grant : RowsOf(h)' = RowsOf(h) \ gone
  BY <1>1, BankAssumption DEF Connected, RowsOf, Key
<1>3. Placed' /\ Single' /\ OnePairPerGrant'
  <2>1. \A k \in Connected' : k \in Connected /\ rows'[k] = rows[k]
    BY <1>2 DEF Connected
  <2>2. Placed'
    BY <2>1 DEF TokenInv, Placed
  <2>3. Single'
    BY <1>2, BankAssumption DEF TokenInv, Single
  <2>4. OnePairPerGrant'
    BY <2>1 DEF TokenInv, OnePairPerGrant
  <2> QED
    BY <2>2, <2>3, <2>4
<1>4. Held'
  BY <1>1 DEF TokenInv, Held
<1>5. Locked'
  BY <1>2, LockedFacts DEF TokenInv, Locked, Locking
<1>6. Covered'
  <2> SUFFICES ASSUME NEW c \in Caller, Locking(c)
               PROVE  /\ calls[c].pc = "commit" =>
                           calls[c].touched = RowsOf(calls[c].grant) \ gone
                      /\ calls[c].pc \in {"write", "commit"} =>
                           head[calls[c].grant] \in {NoToken, calls[c].new.refresh}
    BY <1>2, LockedFacts DEF Covered, Locking
  <2> QED
    BY DEF TokenInv, Covered, Untouched
<1>7. SpendsCurrentToken'
  BY DEF TokenInv, SpendsCurrentToken
<1>8. StoredPairIsLive'
  BY <1>2 DEF TokenInv, StoredPairIsLive, InFlight, Connected
<1> QED
  BY <1>3, <1>4, <1>5, <1>6, <1>7, <1>8 DEF TokenInv

LEMMA DisconnectInv ==
  ASSUME TypeInv, TypeInv', TokenInv, NEW k \in Key, Disconnect(k) PROVE TokenInv'
<1>1. {k} \in SUBSET Connected /\ Untouched({k})
  BY DEF Disconnect
<1>2. rows' = [m \in Key |-> IF m \in {k} THEN NoRow ELSE rows[m]]
  BY DEF Disconnect, TypeInv, TypeOK
<1> QED
  BY <1>1, <1>2, RowsGo DEF Disconnect

LEMMA RemoveAppInv == ASSUME TypeInv, TypeInv', TokenInv, RemoveApp PROVE TokenInv'
<1>1. NoRow \in Row /\ \A k \in Key \ Connected : rows[k] = NoRow
  <2> SUFFICES ASSUME NEW k \in Key, rows[k].grant = NoGrant PROVE rows[k] = NoRow
    BY DEF Connected, Row
  <2>1. rows[k] \in Row /\ rows[k] \notin Account
    BY RowFacts DEF TypeInv, TypeOK
  <2> QED
    BY <2>1 DEF Row
<1>2. rows' = [k \in Key |-> IF k \in Connected THEN NoRow ELSE rows[k]]
  BY <1>1 DEF RemoveApp
<1>3. Connected \in SUBSET Connected /\ Untouched(Connected)
  BY DEF RemoveApp
<1> QED
  BY <1>2, <1>3, RowsGo DEF RemoveApp

LEMMA RevokeInv ==
  ASSUME TypeInv, TypeInv', TokenInv, NEW g \in Grant, Revoke(g) PROVE TokenInv'
<1>1. /\ UNCHANGED <<rows, calls, opened, ahead>>
      /\ \A h \in Grant : head'[h] = IF h = g THEN NoToken ELSE head[h]
  BY DEF Revoke, TypeInv, TypeOK
<1>2. Placed' /\ Single' /\ OnePairPerGrant' /\ Held' /\ Locked'
  BY <1>1 DEF TokenInv, Placed, Single, OnePairPerGrant, Held, Locked, Locking,
              Connected, RowsOf
<1>3. Covered' /\ SpendsCurrentToken'
  BY <1>1, LockedFacts DEF TokenInv, Covered, SpendsCurrentToken, Locking, RowsOf
<1>4. \A k \in Connected : rows[k].grant \in Grant
  BY RowFacts DEF Connected, TypeInv, TypeOK
<1>5. StoredPairIsLive'
  BY <1>1, <1>4 DEF TokenInv, StoredPairIsLive, InFlight, Connected
<1> QED
  BY <1>2, <1>3, <1>5 DEF TokenInv

LEMMA ExpireInv ==
  ASSUME TypeInv, TypeInv', TokenInv, NEW g \in Grant, Expire(g) PROVE TokenInv'
<1>1. UNCHANGED <<calls, opened, ahead, head>>
  BY DEF Expire
<1>2. \A k \in Key : LET r == [rows[k] EXCEPT !.fresh = FALSE]
        IN rows[k].grant = g => /\ r.grant = rows[k].grant /\ r.access = rows[k].access
                                /\ r.refresh = rows[k].refresh
  <2> SUFFICES ASSUME NEW k \in Key, rows[k].grant = g
               PROVE  LET r == [rows[k] EXCEPT !.fresh = FALSE]
                      IN /\ r.grant = rows[k].grant /\ r.access = rows[k].access
                         /\ r.refresh = rows[k].refresh
    OBVIOUS
  <2>1. rows[k] \in Account
    BY RowFacts, BankAssumption DEF TypeInv, TypeOK, Key
  <2> QED
    BY <2>1 DEF Account
<1>3. RowsKept
  BY <1>2 DEF RowsKept, Expire
<1>4. Connected' = Connected /\ \A h \in Grant : RowsOf(h)' = RowsOf(h)
  BY <1>3, SameRows
<1>5. Placed' /\ Single' /\ OnePairPerGrant'
  BY <1>1, <1>3, <1>4, BankAssumption
     DEF TokenInv, Placed, Single, OnePairPerGrant, RowsKept, Connected
<1>6. Held'
  BY <1>1, <1>3 DEF TokenInv, Held, RowsKept
<1>7. Locked' /\ Covered' /\ SpendsCurrentToken'
  BY <1>1, <1>4, LockedFacts
     DEF TokenInv, Locked, Covered, SpendsCurrentToken, Locking
<1>8. StoredPairIsLive'
  BY <1>1, <1>3, <1>4 DEF TokenInv, StoredPairIsLive, InFlight, RowsKept, Connected
<1> QED
  BY <1>5, <1>6, <1>7, <1>8 DEF TokenInv

LEMMA StepToken ==
  ASSUME Patient, TypeInv, TypeInv', TokenInv, [Next]_vars PROVE TokenInv'
<1>1. CASE People
  BY <1>1, ConnectInv, ChooseInv, RevokeInv, ExpireInv, DisconnectInv, AddInv,
     RemoveAppInv DEF People
<1>2. ASSUME NEW c \in Caller, Step(c) PROVE TokenInv'
  BY <1>2, RefreshInv, RefreshLostInv, RefreshDownInv, RefusedInv, ReissueInv,
     ReissueFailsInv, WriteInv, CommitInv, RollbackInv DEF Step
<1>3. ASSUME NEW c \in Caller,
             \/ \E k \in Key, force \in BOOLEAN : Ensure(c, k, force)
             \/ GiveUp(c) \/ Take(c) \/ Crash(c)
      PROVE  TokenInv'
  BY <1>3, EnsureInv, GiveUpInv, TakeInv, CrashInv
<1>4. CASE UNCHANGED vars
  BY <1>4 DEF vars, TokenInv, Placed, Single, Held, Locked, Covered, Locking, InFlight,
     SpendsCurrentToken, OnePairPerGrant, StoredPairIsLive, Connected, RowsOf
<1> QED
  BY <1>1, <1>2, <1>3, <1>4 DEF Next

LEMMA TokenInvHolds == ASSUME Patient PROVE Spec => []TokenInv
<1>1. Init => TypeInv /\ TokenInv
  BY InitType, InitToken
<1>2. TypeInv /\ TokenInv /\ [Next]_vars => (TypeInv /\ TokenInv)'
  BY StepType, StepToken
<1> QED
  BY <1>1, <1>2, PTL DEF Spec

\* However many accounts, callers and connections there are, nobody sets out to
\* the bank with a token another call has spent (ensureBankToken.ts:4-7), as long
\* as a number is not given to another connection while a caller works on it.
THEOREM SpentOnce == ASSUME Patient PROVE Spec => []SpendsCurrentToken
<1>1. TokenInv => SpendsCurrentToken
  BY DEF TokenInv
<1> QED
  BY <1>1, TokenInvHolds, PTL

\* The accounts of a connection never hold different pairs.
THEOREM OnePair == ASSUME Patient PROVE Spec => []OnePairPerGrant
<1>1. TokenInv => OnePairPerGrant
  BY DEF TokenInv
<1> QED
  BY <1>1, TokenInvHolds, PTL

\* No interleaving of refreshes with disconnections, additions and renames costs a
\* connection its pair: only a lost answer, a failed commit or the bank does.
THEOREM PairIsLive == ASSUME Patient PROVE Spec => []StoredPairIsLive
<1>1. TokenInv => StoredPairIsLive
  BY DEF TokenInv
<1> QED
  BY <1>1, TokenInvHolds, PTL

-----------------------------------------------------------------------------
(***************************************************************************)
(* Marks of refusal.                                                       *)
(***************************************************************************)
\* No token is held anywhere that the banks have not given out yet.
Minted ==
  /\ \A k \in Key : rows[k].refresh <= issued
  /\ \A c \in Caller : /\ calls[c].stored.refresh <= issued
                       /\ calls[c].new.refresh <= issued
\* What a step may do to the marks and to the bank's side of a connection: an
\* account marked after it copies one marked before, or its grant is dead; the
\* bank accepts for it what it accepted, nothing, or a token never seen before.
MarksKept ==
  \A k \in Key : rows'[k].grant # NoGrant /\ rows'[k].rejected =>
    \/ head'[rows'[k].grant] = NoToken
    \/ \E m \in Connected : /\ rows[m].rejected /\ rows[m].grant = rows'[k].grant
                            /\ rows[m].refresh = rows'[k].refresh
HeadsKept ==
  \A k \in Connected :
    head'[rows[k].grant] \in {head[rows[k].grant], NoToken, NewToken}

LEMMA RejectedStays ==
  ASSUME TypeInv, Minted, RejectedIsDead, MarksKept, HeadsKept PROVE RejectedIsDead'
<1> SUFFICES ASSUME NEW k \in Key, rows'[k].grant # NoGrant, rows'[k].rejected,
                    head'[rows'[k].grant] # NoToken
             PROVE  rows'[k].refresh # head'[rows'[k].grant]
  BY DEF RejectedIsDead, Connected
<1>1. PICK m \in Connected : /\ rows[m].rejected /\ rows[m].grant = rows'[k].grant
                             /\ rows[m].refresh = rows'[k].refresh
  BY DEF MarksKept
<1>2. rows[m].refresh \in Nat /\ issued \in Nat /\ rows[m].refresh <= issued
  BY RowFacts DEF TypeInv, TypeOK, Minted, Connected
<1>3. rows[m].refresh # NewToken
  BY <1>2 DEF NewToken
<1>4. rows[m].refresh # head[rows[m].grant] \/ head[rows[m].grant] = NoToken
  BY <1>1 DEF RejectedIsDead
<1> QED
  BY <1>1, <1>3, <1>4 DEF HeadsKept

\* A step that leaves the calls alone and writes no token into a row that was in
\* none.
LEMMA MintedByRows ==
  ASSUME TypeInv, Minted, issued' = issued, calls' = calls,
         \A k \in Key : \/ rows'[k].refresh = NoToken
                        \/ \E m \in Key : rows'[k].refresh = rows[m].refresh
  PROVE  Minted'
  BY DEF Minted, TypeInv, TypeOK, NoToken

\* A step of one call that leaves the refresh tokens of the rows alone.
LEMMA MintedByCall ==
  ASSUME TypeInv, Minted, NEW c \in Caller, issued' \in {issued, NewToken},
         \A k \in Key : rows'[k].refresh = rows[k].refresh,
         \A d \in Caller : d # c => calls'[d] = calls[d],
         calls'[c].stored.refresh <= issued, calls'[c].new.refresh <= issued',
         calls'[c].stored.refresh \in Nat, calls'[c].new.refresh \in Nat
  PROVE  Minted'
<1>1. issued \in Nat /\ issued <= issued' /\ issued' \in Nat
  BY DEF TypeInv, TypeOK, NewToken
<1>2. \A k \in Key : rows[k].refresh \in Nat
  BY RowFacts DEF TypeInv, TypeOK
<1>3. \A d \in Caller : calls[d].stored.refresh \in Nat /\ calls[d].new.refresh \in Nat
  BY CallFacts DEF Pair
<1> QED
  BY <1>1, <1>2, <1>3 DEF Minted

LEMMA MintedAtEnd ==
  ASSUME TypeInv, Minted, NEW c \in Caller, Done(c), issued' \in {issued, NewToken},
         \A k \in Key : rows'[k].refresh = rows[k].refresh
  PROVE  Minted'
<1>1. \A d \in Caller : calls'[d] = IF d = c THEN Idle ELSE calls[d]
  BY DoneType
<1>2. Idle.stored.refresh = 0 /\ Idle.new.refresh = 0
  BY DEF Idle, NoToken
<1>3. 0 <= issued /\ 0 <= issued'
  BY DEF TypeInv, TypeOK, NewToken
<1> QED
  BY <1>1, <1>2, <1>3, MintedByCall

LEMMA MintedByMove ==
  ASSUME TypeInv, Minted, NEW c \in Caller,
         NEW pc \in {"reissue", "write", "commit"}, NEW new \in Pair,
         NEW touched \in SUBSET Connected, issued' \in {issued, NewToken},
         new.refresh <= issued',
         calls' = [calls EXCEPT ![c] = [calls[c] EXCEPT !.pc = pc, !.new = new,
                                                        !.touched = touched]],
         \A k \in Key : rows'[k].refresh = rows[k].refresh
  PROVE  Minted'
<1>1. calls[c] \in Call /\ calls \in [Caller -> Call] /\ calls[c].stored.refresh \in Nat
  BY CallFacts DEF TypeInv, TypeOK
<1>2. /\ \A d \in Caller : d # c => calls'[d] = calls[d]
      /\ calls'[c].stored = calls[c].stored /\ calls'[c].new = new
  BY <1>1 DEF Call
<1>3. calls[c].stored.refresh <= issued /\ new.refresh \in Nat
  BY DEF Minted, Pair
<1> QED
  BY <1>1, <1>2, <1>3, MintedByCall

LEMMA MintedByFail ==
  ASSUME TypeInv, Minted, NEW c \in Caller, RefreshFails(c), issued' \in {issued, NewToken},
         \A k \in Key : rows'[k].refresh = rows[k].refresh
  PROVE  Minted'
<1>1. CASE Done(c)
  BY <1>1, MintedAtEnd
<1>2. CASE ~Done(c)
  <2>1. calls' = [calls EXCEPT ![c] =
          [calls[c] EXCEPT !.pc = "reissue", !.new = calls[c].new,
                           !.touched = calls[c].touched]]
    BY <1>2, RefreshFailsMoves
  <2>2. /\ calls[c].new \in Pair /\ calls[c].new.refresh <= issued
        /\ calls[c].touched \in SUBSET Connected
    BY CallFacts DEF Minted
  <2>3. calls[c].new.refresh <= issued'
    BY <2>2 DEF Pair, NewToken, TypeInv, TypeOK
  <2> QED
    BY <2>1, <2>2, <2>3, MintedByMove
<1> QED
  BY <1>1, <1>2

LEMMA MintedByAnswer ==
  ASSUME TypeInv, Minted, NEW c \in Caller, NEW refresh \in Nat,
         refresh <= NewToken, issued' = NewToken, rows' = rows,
         Answer(c, NewToken, refresh)
  PROVE  Minted'
<1>3. calls[c].touched \in SUBSET Connected
  BY CallFacts
<1>1. NewToken \in Nat /\ [access |-> NewToken, refresh |-> refresh] \in Pair
  BY CallFacts DEF Pair
<1>2. calls' = [calls EXCEPT ![c] =
        [calls[c] EXCEPT !.pc = "write",
                         !.new = [access |-> NewToken, refresh |-> refresh],
                         !.touched = calls[c].touched]]
  BY <1>1, AnswerMoves
<1> QED
  BY <1>1, <1>2, <1>3, MintedByMove

\* The mark of a row that is still there, with its pair.
LEMMA MarksByRows ==
  ASSUME \A k \in Key : rows'[k].grant # NoGrant /\ rows'[k].rejected =>
           \E m \in Key : /\ rows[m].rejected /\ rows[m].grant = rows'[k].grant
                          /\ rows[m].refresh = rows'[k].refresh
  PROVE  MarksKept
  BY DEF MarksKept, Connected

DeadNext == Minted' /\ MarksKept /\ HeadsKept

LEMMA ConnectDead ==
  ASSUME TypeInv, TypeInv', TokenInv, Minted, NEW g \in Grant, NEW bare \in BOOLEAN, Connect(g, bare)
  PROVE  DeadNext
<1> DEFINE refresh == IF bare THEN NoToken ELSE NewToken
<1>1. /\ calls' = calls /\ issued' = NewToken /\ g \notin opened /\ g \in Key
      /\ \A k \in Key : k # g => rows'[k] = rows[k]
      /\ rows'[g].refresh = refresh /\ ~rows'[g].rejected
      /\ \A h \in Grant : h # g => head'[h] = head[h]
  BY DEF Connect, Issue, TypeInv, TypeOK, Key
<1>2. issued \in Nat /\ issued <= issued' /\ refresh <= issued'
  BY <1>1 DEF TypeInv, TypeOK, NewToken, NoToken
<1>3. \A k \in Key : rows[k].refresh \in Nat
  BY RowFacts DEF TypeInv, TypeOK
<1>4. \A d \in Caller : calls[d].stored.refresh \in Nat /\ calls[d].new.refresh \in Nat
  BY CallFacts DEF Pair
<1>5. Minted'
  BY <1>1, <1>2, <1>3, <1>4 DEF Minted, NewToken
<1>6. HeadsKept
  <2>1. \A k \in Connected : rows[k].grant \in Grant /\ rows[k].grant # g
    BY <1>1, RowFacts DEF TokenInv, Placed, Connected, TypeInv, TypeOK
  <2> QED
    BY <1>1, <2>1 DEF HeadsKept
<1>7. MarksKept
  BY <1>1, MarksByRows
<1> QED
  BY <1>5, <1>6, <1>7 DEF DeadNext

LEMMA ChooseDead ==
  ASSUME TypeInv, Minted, NEW g \in Grant, NEW n \in Number, ChooseAccount(g, n)
  PROVE  DeadNext
<1>1. /\ g \in Key /\ n \in Key /\ NoRow.grant = NoGrant /\ NoRow.refresh = NoToken
      /\ issued' = issued /\ calls' = calls /\ head' = head
      /\ \A k \in Key : rows'[k] \in {rows[k], rows[g], NoRow}
  BY DEF ChooseAccount, TypeInv, TypeOK, Key, NoRow
<1>2. Minted'
  BY <1>1, MintedByRows
<1>3. MarksKept
  BY <1>1, MarksByRows
<1> QED
  BY <1>1, <1>2, <1>3 DEF DeadNext, HeadsKept

LEMMA AddDead ==
  ASSUME TypeInv, Minted, NEW k \in Key, NEW n \in Number, AddAccount(k, n)
  PROVE  DeadNext
<1> DEFINE r == [rows[k] EXCEPT !.apiKey = FALSE, !.rejected = FALSE]
<1>1. rows[k] \in Account /\ n \in Key
  BY RowFacts DEF TypeInv, TypeOK, AddAccount, Connected, Key
<1>2. r.refresh = rows[k].refresh /\ ~r.rejected
  BY <1>1 DEF Account
<1>3. /\ issued' = issued /\ calls' = calls /\ head' = head
      /\ \A m \in Key : rows'[m] = IF m = n THEN r ELSE rows[m]
  BY <1>1 DEF AddAccount, TypeInv, TypeOK
<1>4. Minted'
  BY <1>2, <1>3, MintedByRows
<1>5. MarksKept
  BY <1>2, <1>3, MarksByRows
<1> QED
  BY <1>3, <1>4, <1>5 DEF DeadNext, HeadsKept

LEMMA GoneDead ==
  ASSUME TypeInv, Minted, UNCHANGED <<calls, issued, head>>,
         \A k \in Key : rows'[k] \in {rows[k], NoRow}
  PROVE  DeadNext
<1>1. NoRow.grant = NoGrant /\ NoRow.refresh = NoToken
  BY DEF NoRow
<1>2. Minted'
  BY <1>1, MintedByRows
<1>3. MarksKept
  BY <1>1, MarksByRows
<1> QED
  BY <1>2, <1>3 DEF DeadNext, HeadsKept

LEMMA ExpireDead ==
  ASSUME TypeInv, Minted, NEW g \in Grant, Expire(g) PROVE DeadNext
<1>1. \A k \in Key : LET r == [rows[k] EXCEPT !.fresh = FALSE]
        IN rows[k].grant = g => /\ r.grant = rows[k].grant /\ r.rejected = rows[k].rejected
                                /\ r.refresh = rows[k].refresh
  <2> SUFFICES ASSUME NEW k \in Key, rows[k].grant = g
               PROVE  LET r == [rows[k] EXCEPT !.fresh = FALSE]
                      IN /\ r.grant = rows[k].grant /\ r.rejected = rows[k].rejected
                         /\ r.refresh = rows[k].refresh
    OBVIOUS
  <2>1. rows[k] \in Account
    BY RowFacts, BankAssumption DEF TypeInv, TypeOK, Key
  <2> QED
    BY <2>1 DEF Account
<1>2. /\ issued' = issued /\ calls' = calls /\ head' = head
      /\ \A k \in Key : /\ rows'[k].grant = rows[k].grant
                         /\ rows'[k].rejected = rows[k].rejected
                         /\ rows'[k].refresh = rows[k].refresh
  BY <1>1 DEF Expire
<1>3. Minted'
  BY <1>2, MintedByRows
<1>4. MarksKept
  BY <1>2, MarksByRows
<1> QED
  BY <1>2, <1>3, <1>4 DEF DeadNext, HeadsKept

\* Steps that leave the rows alone.
LEMMA RowsStayDead ==
  ASSUME Minted', rows' = rows,
         \A g \in Grant : head'[g] \in {head[g], NoToken, NewToken}, TypeInv
  PROVE  DeadNext
<1>1. HeadsKept
  BY RowFacts DEF HeadsKept, Connected, TypeInv, TypeOK
<1>2. MarksKept
  BY MarksByRows
<1> QED
  BY <1>1, <1>2 DEF DeadNext

LEMMA RevokeDead ==
  ASSUME TypeInv, Minted, NEW g \in Grant, Revoke(g) PROVE DeadNext
<1>1. Minted' /\ rows' = rows
  BY DEF Revoke, Minted
<1>2. \A h \in Grant : head'[h] \in {head[h], NoToken}
  BY DEF Revoke, TypeInv, TypeOK
<1> QED
  BY <1>1, <1>2, RowsStayDead

\* A call begins, goes to the bank, or ends.
LEMMA EnsureDead ==
  ASSUME TypeInv, Minted, NEW c \in Caller, NEW k \in Key, NEW force \in BOOLEAN,
         Ensure(c, k, force)
  PROVE  DeadNext
<1> DEFINE r == [Idle EXCEPT !.pc = "wait", !.key = k, !.grant = rows[k].grant,
                             !.access = rows[k].access, !.force = force]
<1>1. r.stored.refresh = 0 /\ r.new.refresh = 0
  BY DEF Idle, NoToken
<1>2. \A d \in Caller : calls'[d] = IF d = c THEN r ELSE calls[d]
  BY DEF Ensure, TypeInv, TypeOK
<1>3. issued' = issued /\ rows' = rows /\ head' = head /\ 0 <= issued
  BY DEF Ensure, TypeInv, TypeOK
<1>4. Minted'
  <2>1. calls'[c].stored.refresh = 0 /\ calls'[c].new.refresh = 0
    BY <1>1, <1>2
  <2>2. \A d \in Caller : d # c => calls'[d] = calls[d]
    BY <1>2
  <2> QED
    BY <1>3, <2>1, <2>2, MintedByCall
<1> QED
  BY <1>3, <1>4, RowsStayDead

LEMMA TakeDead ==
  ASSUME TypeInv, Minted, NEW c \in Caller, Take(c) PROVE DeadNext
<1>1. issued' = issued /\ rows' = rows /\ head' = head /\ calls[c].key \in Key
  BY DEF Take, TypeInv, Grounded
<1>2. Minted'
  <2>1. CASE Done(c)
    BY <1>1, <2>1, MintedAtEnd
  <2>2. CASE ~Done(c)
    <3> DEFINE row == rows[calls[c].key]
               next == IF row.refresh # NoToken THEN "refresh" ELSE "reissue"
               r == Going(c, row, next)
    <3>1. row.grant \in Grant /\ calls' = [calls EXCEPT ![c] = r]
      BY <1>1, <2>2, TakeCases
    <3>2. \A d \in Caller : calls'[d] = IF d = c THEN r ELSE calls[d]
      BY <3>1 DEF TypeInv, TypeOK
    <3>3. r.stored.refresh = row.refresh /\ row.refresh \in Nat /\ row.refresh <= issued
      BY <1>1, <3>1, GoingFacts, RowFacts DEF Minted, TypeInv, TypeOK
    <3>4. r.new.refresh = 0 /\ 0 <= issued
      BY DEF Going, Idle, NoToken, TypeInv, TypeOK
    <3> QED
      BY <1>1, <3>2, <3>3, <3>4, MintedByCall
  <2> QED
    BY <2>1, <2>2
<1> QED
  BY <1>1, <1>2, RowsStayDead

LEMMA EndDead ==
  ASSUME TypeInv, Minted, NEW c \in Caller, Done(c), rows' = rows,
         issued' \in {issued, NewToken},
         \A g \in Grant : head'[g] \in {head[g], NoToken, NewToken}
  PROVE  DeadNext
<1>1. Minted'
  BY MintedAtEnd
<1> QED
  BY <1>1, RowsStayDead

LEMMA FailDead ==
  ASSUME TypeInv, Minted, NEW c \in Caller, RefreshFails(c), rows' = rows,
         issued' \in {issued, NewToken},
         \A g \in Grant : head'[g] \in {head[g], NoToken, NewToken}
  PROVE  DeadNext
<1>1. Minted'
  BY MintedByFail
<1> QED
  BY <1>1, RowsStayDead

LEMMA AnswerDead ==
  ASSUME TypeInv, Minted, NEW c \in Caller, NEW refresh \in Nat,
         refresh = NewToken \/ (refresh = calls[c].stored.refresh /\ Valid(c)),
         Issue(calls[c].stored.grant, refresh), rows' = rows,
         Answer(c, NewToken, refresh)
  PROVE  DeadNext
<1>1. refresh <= NewToken
  BY DEF Minted, TypeInv, TypeOK, NewToken
<1>2. Minted'
  BY <1>1, MintedByAnswer DEF Issue
<1>3. \A g \in Grant : head'[g] \in {head[g], NoToken, NewToken}
  BY DEF Issue, Valid, TypeInv, TypeOK
<1> QED
  BY <1>2, <1>3, RowsStayDead

LEMMA RefusedDead ==
  ASSUME TypeInv, TokenInv, Minted, NEW c \in Caller, Refused(c) PROVE DeadNext
<1> DEFINE g == calls[c].grant
           hit == Addressed(calls[c].key, calls[c].stored.grant)
<1>1. Locking(c) /\ issued' = issued
  BY DEF Refused, Locking
<1>2. g \in Grant /\ calls[c].stored.grant = g /\ hit = RowsOf(g)
  BY <1>1, LockedFacts, HitIsGrant
<1>3. head' = [head EXCEPT ![g] = NoToken]
  BY <1>2 DEF Refused
<1>4. \A h \in Grant : head'[h] \in {head[h], NoToken}
  BY <1>3 DEF TypeInv, TypeOK
<1>5. CASE rows' = rows
  BY <1>1, <1>4, <1>5, FailDead DEF Refused
<1>6. CASE rows' = Marked(c)
  <2>1. \A k \in Key : rows'[k] = IF k \in RowsOf(g) THEN [rows[k] EXCEPT !.rejected = TRUE]
                                  ELSE rows[k]
    BY <1>2, <1>6 DEF Marked
  <2>2. \A k \in RowsOf(g) : LET r == [rows[k] EXCEPT !.rejected = TRUE]
                             IN r.grant = g /\ r.refresh = rows[k].refresh
    <3> SUFFICES ASSUME NEW k \in RowsOf(g)
                 PROVE  LET r == [rows[k] EXCEPT !.rejected = TRUE]
                        IN r.grant = g /\ r.refresh = rows[k].refresh
      OBVIOUS
    <3>1. rows[k] \in Account /\ rows[k].grant = g
      BY <1>2, RowFacts, BankAssumption DEF RowsOf, Key, TypeInv, TypeOK
    <3> QED
      BY <3>1 DEF Account
  <2>3. Minted'
    <3>1. \A k \in Key : rows'[k].refresh = rows[k].refresh
      BY <2>1, <2>2
    <3> QED
      BY <1>1, <3>1, MintedByFail DEF Refused
  <2>4. head'[g] = NoToken
    BY <1>2, <1>3 DEF TypeInv, TypeOK
  <2>5. MarksKept
    BY <2>1, <2>2, <2>4 DEF MarksKept, Connected
  <2>6. HeadsKept
    BY <1>4, RowFacts DEF HeadsKept, Connected, TypeInv, TypeOK
  <2> QED
    BY <2>3, <2>5, <2>6 DEF DeadNext
<1> QED
  BY <1>5, <1>6 DEF Refused

LEMMA WriteDead ==
  ASSUME TypeInv, Minted, NEW c \in Caller, Write(c) PROVE DeadNext
<1> DEFINE hit == Addressed(calls[c].key, calls[c].stored.grant)
<1>1. issued' = issued /\ rows' = rows /\ head' = head
  BY DEF Write
<1>2. CASE hit = {}
  BY <1>1, <1>2, WriteMoves, EndDead
<1>3. CASE hit # {}
  <2>1. /\ hit \in SUBSET Connected
        /\ calls' = [calls EXCEPT ![c] =
             [calls[c] EXCEPT !.pc = "commit", !.new = calls[c].new, !.touched = hit]]
    BY <1>3, WriteMoves
  <2>2. calls[c].new \in Pair /\ calls[c].new.refresh <= issued
    BY CallFacts DEF Minted
  <2>3. Minted'
    BY <1>1, <2>1, <2>2, MintedByMove
  <2> QED
    BY <1>1, <2>3, RowsStayDead
<1> QED
  BY <1>2, <1>3

LEMMA CommitDead ==
  ASSUME TypeInv, TokenInv, Minted, NEW c \in Caller, Commit(c) PROVE DeadNext
<1>1. issued' = issued /\ head' = head /\ Done(c)
  BY DEF Commit
<1>2. \A k \in Key : IF k \in calls[c].touched
                    THEN rows'[k].refresh = calls[c].new.refresh /\ ~rows'[k].rejected
                    ELSE rows'[k] = rows[k]
  BY CommitRows
<1>3. \A d \in Caller : calls'[d] = IF d = c THEN Idle ELSE calls[d]
  BY <1>1, DoneType
<1>4. Idle.stored.refresh = 0 /\ Idle.new.refresh = 0 /\ 0 <= issued
  BY DEF Idle, NoToken, TypeInv, TypeOK
<1>5. Minted'
  BY <1>1, <1>2, <1>3, <1>4 DEF Minted
<1>6. MarksKept
  BY <1>2, MarksByRows
<1> QED
  BY <1>1, <1>5, <1>6 DEF DeadNext, HeadsKept

LEMMA StepDead ==
  ASSUME TypeInv, TypeInv', TokenInv, Minted, [Next]_vars PROVE DeadNext
<1>1. CASE People
  <2>1. ASSUME NEW k \in Key, Disconnect(k) PROVE DeadNext
    BY <2>1, GoneDead DEF Disconnect, TypeInv, TypeOK
  <2>2. CASE RemoveApp
    BY <2>2, GoneDead DEF RemoveApp
  <2> QED
    BY <1>1, <2>1, <2>2, ConnectDead, ChooseDead, RevokeDead, ExpireDead, AddDead DEF People
<1>2. ASSUME NEW c \in Caller, Step(c) PROVE DeadNext
  <2>0. calls[c].stored.refresh \in Nat /\ NewToken \in Nat
    BY CallFacts
  <2>1. ASSUME NEW bare \in BOOLEAN, Refresh(c, bare) PROVE DeadNext
    <3> DEFINE refresh == IF bare THEN calls[c].stored.refresh ELSE NewToken
    <3>1. /\ refresh \in Nat
          /\ refresh = NewToken \/ (refresh = calls[c].stored.refresh /\ Valid(c))
          /\ Answer(c, NewToken, refresh) /\ Issue(calls[c].stored.grant, refresh)
      BY <2>0, <2>1 DEF Refresh
    <3> QED
      BY <2>1, <3>1, AnswerDead DEF Refresh
  <2>2. CASE RefreshLost(c)
    BY <2>2, FailDead DEF RefreshLost, Issue, TypeInv, TypeOK
  <2>3. CASE RefreshDown(c)
    BY <2>3, FailDead DEF RefreshDown
  <2>4. CASE Reissue(c)
    BY <2>0, <2>4, AnswerDead DEF Reissue
  <2>5. ASSUME NEW lost \in BOOLEAN, ReissueFails(c, lost) PROVE DeadNext
    BY <2>5, EndDead DEF ReissueFails, Issue, TypeInv, TypeOK
  <2>6. CASE Rollback(c)
    BY <2>6, EndDead DEF Rollback
  <2> QED
    BY <1>2, <2>1, <2>2, <2>3, <2>4, <2>5, <2>6, RefusedDead, WriteDead, CommitDead DEF Step
<1>3. ASSUME NEW c \in Caller,
             \/ \E k \in Key, force \in BOOLEAN : Ensure(c, k, force)
             \/ GiveUp(c) \/ Take(c) \/ Crash(c)
      PROVE  DeadNext
  <2>1. CASE GiveUp(c)
    BY <2>1, EndDead DEF GiveUp
  <2>2. CASE Crash(c)
    BY <2>2, EndDead DEF Crash
  <2> QED
    BY <1>3, <2>1, <2>2, EnsureDead, TakeDead
<1>4. CASE UNCHANGED vars
  <2>1. Minted'
    BY <1>4 DEF vars, Minted
  <2> QED
    BY <1>4, <2>1, RowsStayDead DEF vars
<1> QED
  BY <1>1, <1>2, <1>3, <1>4 DEF Next

\* An account is never shown as refused while the bank accepts its pair: nobody
\* who reads the mark is sent to renew a connection that works.
THEOREM RefusedIsDead == ASSUME Patient PROVE Spec => []RejectedIsDead
<1>1. Init => Minted /\ RejectedIsDead
  <2>1. Idle.stored.refresh = 0 /\ Idle.new.refresh = 0 /\ NoRow.refresh = 0
    BY DEF Idle, NoRow, NoToken
  <2> QED
    BY <2>1 DEF Init, Minted, RejectedIsDead, Connected, NoRow
<1>2. TypeInv /\ TypeInv' /\ TokenInv /\ Minted /\ RejectedIsDead /\ [Next]_vars
      => Minted' /\ RejectedIsDead'
  BY StepDead, RejectedStays DEF DeadNext
<1> QED
  BY <1>1, <1>2, InitType, StepType, TokenInvHolds, PTL DEF Spec
-----------------------------------------------------------------------------
(***************************************************************************)
(* Connections that are gone.                                              *)
(***************************************************************************)
\* After any step, an account belongs to a connection that had one before, or to
\* one made by that step.
OfTheConnected ==
  \A k \in Key : rows'[k].grant \in opened => \E m \in Key : rows[m].grant = rows'[k].grant

LEMMA OnlyConnect == ASSUME TypeInv, [Next]_vars PROVE OfTheConnected
<1> USE DEF OfTheConnected
<1>0. NoRow.grant = NoGrant /\ NoGrant \notin opened
  BY BankAssumption DEF NoRow, Key, TypeInv, TypeOK
<1>1. ASSUME NEW g \in Grant, NEW bare \in BOOLEAN, Connect(g, bare) PROVE OfTheConnected
  <2>1. \A k \in Key : k # g => rows'[k] = rows[k]
    BY <1>1 DEF Connect, TypeInv, TypeOK
  <2>2. rows'[g].grant = g /\ g \notin opened
    BY <1>1 DEF Connect, TypeInv, TypeOK, Key
  <2> QED
    BY <2>1, <2>2
<1>2. ASSUME NEW g \in Grant, NEW n \in Number, ChooseAccount(g, n) PROVE OfTheConnected
  <2>1. \A k \in Key : rows'[k] \in {NoRow, rows[g], rows[k]} /\ g \in Key
    BY <1>2 DEF ChooseAccount, TypeInv, TypeOK, Key
  <2> QED
    BY <1>0, <2>1
<1>3. ASSUME NEW k \in Key, NEW n \in Number, AddAccount(k, n) PROVE OfTheConnected
  <2>1. rows[k] \in Account
    BY <1>3, RowFacts DEF AddAccount, Connected, TypeInv, TypeOK
  <2>2. \A m \in Key : rows'[m].grant \in {rows[k].grant, rows[m].grant}
    BY <1>3, <2>1 DEF AddAccount, Account, TypeInv, TypeOK
  <2> QED
    BY <2>2
<1>4. ASSUME NEW k \in Key, Disconnect(k) PROVE OfTheConnected
  BY <1>0, <1>4 DEF Disconnect, TypeInv, TypeOK
<1>5. CASE RemoveApp
  BY <1>0, <1>5 DEF RemoveApp
<1>6. ASSUME NEW g \in Grant, Expire(g) PROVE OfTheConnected
  <2>1. \A k \in Key : rows[k].grant = g => rows[k] \in Account
    BY RowFacts, BankAssumption DEF TypeInv, TypeOK, Key
  <2>2. \A k \in Key : rows'[k].grant = rows[k].grant
    BY <1>6, <2>1 DEF Expire, Account
  <2> QED
    BY <2>2
<1>7. ASSUME NEW c \in Caller, Refused(c) PROVE OfTheConnected
  <2>1. \A k \in Key : rows[k].grant # NoGrant =>
          [rows[k] EXCEPT !.rejected = TRUE].grant = rows[k].grant
    <3> SUFFICES ASSUME NEW k \in Key, rows[k].grant # NoGrant
                 PROVE  [rows[k] EXCEPT !.rejected = TRUE].grant = rows[k].grant
      OBVIOUS
    <3>1. rows[k] \in Account
      BY RowFacts DEF TypeInv, TypeOK
    <3> QED
      BY <3>1 DEF Account
  <2>2. Addressed(calls[c].key, calls[c].stored.grant) \subseteq Connected
    BY <1>7, CallFacts, BankAssumption
       DEF Refused, Locking, Addressed, RowsOf, Connected, Key
  <2>3. \A k \in Key : rows'[k].grant = rows[k].grant
    BY <1>7, <2>1, <2>2 DEF Refused, Marked, Connected
  <2> QED
    BY <2>3
<1>8. ASSUME NEW c \in Caller, Commit(c) PROVE OfTheConnected
  BY <1>8, CommitRows
<1>9. CASE rows' = rows
  BY <1>9
<1>10. ASSUME NEW c \in Caller, Step(c) PROVE OfTheConnected
  BY <1>7, <1>8, <1>9, <1>10
     DEF Step, Refresh, RefreshLost, RefreshDown, Reissue, ReissueFails, Write, Rollback
<1>11. CASE People
  BY <1>1, <1>2, <1>3, <1>4, <1>5, <1>6, <1>9, <1>11 DEF People, Revoke
<1>12. ASSUME NEW c \in Caller,
              \/ \E k \in Key, force \in BOOLEAN : Ensure(c, k, force)
              \/ GiveUp(c) \/ Take(c) \/ Crash(c)
       PROVE  OfTheConnected
  BY <1>9, <1>12 DEF Ensure, GiveUp, Take, Crash
<1> QED
  BY <1>9, <1>10, <1>11, <1>12 DEF Next, vars

\* A connection without accounts never gets one back, whatever was under way.
THEOREM StaysGone == Spec => NotRevived
<1>1. TypeInv /\ [Next]_vars =>
        [\A g \in opened : RowsOf(g) = {} => RowsOf(g)' = {}]_vars
  BY OnlyConnect DEF OfTheConnected, RowsOf
<1> QED
  BY <1>1, InitType, StepType, PTL DEF Spec, NotRevived
=============================================================================
