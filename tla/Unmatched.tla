------------------------------ MODULE Unmatched ------------------------------
(***************************************************************************)
(* What is said in the error chat of the payments whose payer is unknown.  *)
(* Such an operation is recorded on our own company when that is found;    *)
(* when it is not, nothing is written, no marker stops the operation and   *)
(* it comes back with every poll until somebody enters the company.        *)
(*                                                                         *)
(* Who is silenced by what: a recorded operation by the marker of its      *)
(* activity, an unrecorded one by a slot in Redis that a run claims before *)
(* it speaks.  The first MAX_UNMATCHED_NOTICES messages of a run name one  *)
(* operation each; the others are kept in the memory of the run and go     *)
(* out as one summary behind the last operation.                           *)
(*                                                                         *)
(* The error chat is configured.  What the crm-sync stage does besides is  *)
(* in CrmSync; a second activity of an overlapping run counts as the first.*)
(***************************************************************************)
EXTENDS Naturals, FiniteSets

CONSTANTS
    Op,          \* operations of one account in the poll window, numbered in
                 \* the order of its statement
    Job,         \* jobs that may be running at one time
    MaxNotices,  \* MAX_UNMATCHED_NOTICES
    MaxAttempts, \* attempts of a job
    MaxFaults,   \* bound: failed calls, lost messages, crashes, Redis down
    MaxEdits     \* bound: deletions by the administrator, expired slots

ASSUME UnmatchedAssumption ==
    /\ Op \subseteq Nat \ {0}
    /\ IsFiniteSet(Job)
    /\ {MaxNotices, MaxAttempts} \subseteq Nat \ {0}
    /\ {MaxFaults, MaxEdits} \subseteq Nat

\* No operation.
None == 0

VARIABLES
    known,     \* operations whose payer's company is in the CRM
    mine,      \* my company is found by our account
    act,       \* the owner of the activity that carries the marker
    slot,      \* claims in Redis
    run,       \* the attempt of each job that is being made
    heard,     \* a message has gone out: <<what silences, operation>>
    dropped,   \* an accident between the silencer and the message
    stranded,  \* recorded, kept for the summary, and the attempt failed
    spoken,    \* messages of an unrecorded operation in the life of its slot
    blind,     \* those of them that Redis let through without a slot
    faults, edits

crm == <<known, mine, act>>
history == <<heard, dropped, stranded, spoken, blind>>
vars == <<crm, slot, run, history, faults, edits>>

Owner == {"none", "mine", "client"}
Stage == {"idle", "ops", "write", "send", "summary"}

Marker(o) == <<"marker", o>>
Slot(o) == <<"slot", o>>
Silencer == {Marker(o) : o \in Op} \union {Slot(o) : o \in Op}

(***************************************************************************)
(* The type of the state.                                                  *)
(***************************************************************************)
Attempt == [at : Stage, tries : 0..MaxAttempts, left : SUBSET Op,
            op : Op \union {None}, owner : Owner, sent : 0..MaxNotices,
            kept : SUBSET Op, asked : SUBSET Op, named : SUBSET Op]

TypeOK ==
    /\ known \subseteq Op
    /\ mine \in BOOLEAN
    /\ act \in [Op -> Owner]
    /\ slot \subseteq Op
    /\ run \in [Job -> Attempt]
    /\ \A set \in {heard, dropped, stranded} : set \subseteq Silencer
    /\ spoken \in [Op -> Nat]
    /\ blind \in [Op -> Nat]
    /\ faults \in 0..MaxFaults
    /\ edits \in 0..MaxEdits

\* What an attempt begins with: nothing said, nothing kept.
Blank(at, tries) ==
    [at |-> at, tries |-> tries, left |-> IF at = "ops" THEN Op ELSE {},
     op |-> None, owner |-> "none", sent |-> 0,
     kept |-> {}, asked |-> {}, named |-> {}]

Init ==
    /\ known = {}
    /\ mine \in BOOLEAN
    /\ act = [o \in Op |-> "none"]
    /\ slot = {}
    /\ run = [j \in Job |-> Blank("idle", 0)]
    /\ heard = {} /\ dropped = {} /\ stranded = {}
    /\ spoken = [o \in Op |-> 0]
    /\ blind = [o \in Op |-> 0]
    /\ faults = 0
    /\ edits = 0

At(j, stage) == run[j].at = stage
Put(j, attempt) == run' = [run EXCEPT ![j] = attempt]
Fault == faults < MaxFaults /\ faults' = faults + 1

----------------------------------------------------------------------------
(***************************************************************************)
(* The administrator enters a company, or deletes the activity on our own  *)
(* company so that the operation is written anew.                          *)
(***************************************************************************)
Enter(o) ==
    /\ known' = known \union {o}
    /\ UNCHANGED <<mine, act, slot, run, history, faults, edits>>

EnterMine ==
    /\ mine' = TRUE
    /\ UNCHANGED <<known, act, slot, run, history, faults, edits>>

Delete(o) ==
    /\ act[o] = "mine" /\ edits < MaxEdits
    /\ act' = [act EXCEPT ![o] = "none"]
    /\ edits' = edits + 1
    /\ heard' = heard \ {Marker(o)}
    /\ dropped' = dropped \ {Marker(o)}
    /\ stranded' = stranded \ {Marker(o)}
    /\ UNCHANGED <<known, mine, slot, run, spoken, blind, faults>>

(***************************************************************************)
(* A slot runs out after three days, the length of the poll window: no run *)
(* is still between the slot and its message.                              *)
(***************************************************************************)
Claimed(j) ==
    run[j].named \union
    IF At(j, "send") /\ run[j].owner = "none" THEN {run[j].op} ELSE {}

Expire(o) ==
    /\ o \in slot /\ edits < MaxEdits
    /\ \A j \in Job : o \notin Claimed(j)
    /\ slot' = slot \ {o}
    /\ edits' = edits + 1
    /\ heard' = heard \ {Slot(o)}
    /\ dropped' = dropped \ {Slot(o)}
    /\ spoken' = [spoken EXCEPT ![o] = 0]
    /\ blind' = [blind EXCEPT ![o] = 0]
    /\ UNCHANGED <<crm, run, stranded, faults>>

----------------------------------------------------------------------------
(***************************************************************************)
(* A poll brings the operations of the window again; each is looked up by  *)
(* its marker, then its payer, then our company, and is written.           *)
(***************************************************************************)
Poll(j) ==
    /\ At(j, "idle")
    /\ Put(j, Blank("ops", 1))
    /\ UNCHANGED <<crm, slot, history, faults, edits>>

WriteTo(o) ==
    IF o \in known THEN "client" ELSE IF mine THEN "mine" ELSE "none"

Look(j) ==
    /\ At(j, "ops")
    /\ \E o \in run[j].left :
         /\ \A p \in run[j].left : o <= p
         /\ Put(j, IF act[o] # "none"
                   THEN [run[j] EXCEPT !.left = @ \ {o}]
                   ELSE [run[j] EXCEPT !.left = @ \ {o}, !.at = "write",
                                       !.op = o, !.owner = WriteTo(o)])
    /\ UNCHANGED <<crm, slot, history, faults, edits>>

\* Mutant. A marker "just in case" for what could not be recorded.
WrittenAnyway(o, owner) ==
    IF owner = "none" THEN "closed" ELSE owner

\* writeActivity: the owner's activity, or nothing for want of an owner.
Written(o, owner) == IF owner = "none" THEN act[o] ELSE owner

(***************************************************************************)
(* claimUnmatchedNotice: SET NX in Redis.  A Redis that fails, or whose    *)
(* answer is lost, lets the message through: one too many is better than   *)
(* one lost.                                                               *)
(***************************************************************************)
\* Mutant. The slot is looked at and not kept.
FreeUnkept(o) ==
    /\ o \notin slot
    /\ UNCHANGED <<slot, blind, faults>>

Free(o) ==
    /\ o \notin slot
    /\ slot' = slot \union {o}
    /\ UNCHANGED <<blind, faults>>

Blindly(o) ==
    /\ Fault
    /\ blind' = [blind EXCEPT ![o] = @ + 1]
    /\ slot' \in {slot, slot \union {o}}

Taken(o) ==
    /\ o \in slot
    /\ UNCHANGED <<slot, blind, faults>>

ClaimSlot(o, yes, no) ==
    \/ (Free(o) \/ Blindly(o)) /\ yes
    \/ Taken(o) /\ no

Onwards(attempt) == [attempt EXCEPT !.at = "ops", !.op = None, !.owner = "none"]

(***************************************************************************)
(* Behind the write an operation of an unknown payer is told at once or,   *)
(* when the run has said enough, kept for the summary.                     *)
(***************************************************************************)
Pass(j) ==
    /\ run[j].owner = "client"
    /\ Put(j, Onwards(run[j]))
    /\ UNCHANGED <<slot, blind, faults>>

\* Only what has not been recorded needs a slot to be spoken of.
Speak(j) ==
    /\ run[j].owner # "client" /\ run[j].sent < MaxNotices
    /\ IF run[j].owner = "mine"
       THEN Put(j, [run[j] EXCEPT !.at = "send"])
            /\ UNCHANGED <<slot, blind, faults>>
       ELSE ClaimSlot(run[j].op, Put(j, [run[j] EXCEPT !.at = "send"]),
                      Put(j, Onwards(run[j])))

\* Mutant. The slot of an operation kept for the summary is claimed in the loop.
KeepClaimed(j) ==
    /\ run[j].owner # "client" /\ run[j].sent = MaxNotices
    /\ Put(j, IF run[j].owner = "mine"
              THEN [Onwards(run[j]) EXCEPT !.kept = @ \union {run[j].op}]
              ELSE [Onwards(run[j]) EXCEPT !.named = @ \union {run[j].op}])
    /\ slot' = slot \union IF run[j].owner = "mine" THEN {} ELSE {run[j].op}
    /\ UNCHANGED <<blind, faults>>

\* The slot is not claimed here: the attempt may still fail.
Keep(j) ==
    /\ run[j].owner # "client" /\ run[j].sent = MaxNotices
    /\ Put(j, IF run[j].owner = "mine"
              THEN [Onwards(run[j]) EXCEPT !.kept = @ \union {run[j].op}]
              ELSE [Onwards(run[j]) EXCEPT !.asked = @ \union {run[j].op}])
    /\ UNCHANGED <<slot, blind, faults>>

Write(j) ==
    /\ At(j, "write")
    /\ act' = [act EXCEPT ![run[j].op] = Written(run[j].op, run[j].owner)]
    /\ Pass(j) \/ Speak(j) \/ Keep(j)
    /\ UNCHANGED <<known, mine, heard, dropped, stranded, spoken, edits>>

(***************************************************************************)
(* The message goes out or is lost; the run counts it in both cases.       *)
(***************************************************************************)
Message(silencers) ==
    \/ /\ heard' = heard \union silencers
       /\ spoken' = [o \in Op |-> IF Slot(o) \in silencers THEN spoken[o] + 1
                                  ELSE spoken[o]]
       /\ UNCHANGED <<dropped, faults>>
    \/ /\ Fault
       /\ dropped' = dropped \union silencers
       /\ UNCHANGED <<heard, spoken>>

Current(j) ==
    IF ~At(j, "send") THEN {}
    ELSE IF run[j].owner = "mine" THEN {Marker(run[j].op)}
    ELSE {Slot(run[j].op)}

Send(j) ==
    /\ At(j, "send")
    /\ Message(Current(j))
    /\ Put(j, [Onwards(run[j]) EXCEPT !.sent = @ + 1])
    /\ UNCHANGED <<crm, slot, stranded, blind, edits>>

(***************************************************************************)
(* Behind the last operation: the slots of the unrecorded ones are claimed *)
(* next to the summary that names them, and what is left is told.          *)
(***************************************************************************)
Close(j) ==
    /\ At(j, "ops") /\ run[j].left = {}
    /\ Put(j, IF run[j].kept \union run[j].asked = {} THEN Blank("idle", 0)
              ELSE [run[j] EXCEPT !.at = "summary"])
    /\ UNCHANGED <<crm, slot, history, faults, edits>>

ClaimKept(j, o) ==
    /\ At(j, "summary") /\ o \in run[j].asked
    /\ ClaimSlot(o, Put(j, [run[j] EXCEPT !.asked = @ \ {o},
                                          !.named = @ \union {o}]),
                 Put(j, [run[j] EXCEPT !.asked = @ \ {o}]))
    /\ UNCHANGED <<crm, heard, dropped, stranded, spoken, edits>>

Markers(j) == {Marker(o) : o \in run[j].kept}
Slots(set) == {Slot(o) : o \in set}
Hidden(j) == Markers(j) \union Slots(run[j].named)

SendSummary(j) ==
    /\ At(j, "summary") /\ run[j].asked = {}
    /\ IF Hidden(j) = {} THEN UNCHANGED <<heard, dropped, spoken, faults>>
       ELSE Message(Hidden(j))
    /\ Put(j, Blank("idle", 0))
    /\ UNCHANGED <<crm, slot, stranded, blind, edits>>

----------------------------------------------------------------------------
(***************************************************************************)
(* A call of the portal fails: the attempt is lost with all it kept, and   *)
(* the queue makes another.  A write may have landed before its answer was *)
(* lost.                                                                   *)
(***************************************************************************)
Retried(j) ==
    Put(j, IF run[j].tries < MaxAttempts THEN Blank("ops", run[j].tries + 1)
           ELSE Blank("idle", 0))

Fail(j) ==
    /\ At(j, "ops") \/ At(j, "write")
    /\ Fault
    /\ stranded' = stranded \union Markers(j)
    /\ Retried(j)
    /\ UNCHANGED <<crm, slot, heard, dropped, spoken, blind, edits>>

LoseAnswer(j) ==
    /\ At(j, "write") /\ run[j].owner # "none"
    /\ Fault
    /\ act' = [act EXCEPT ![run[j].op] = Written(run[j].op, run[j].owner)]
    /\ dropped' = dropped \union {Marker(run[j].op)}
    /\ stranded' = stranded \union Markers(j)
    /\ Retried(j)
    /\ UNCHANGED <<known, mine, slot, heard, spoken, blind, edits>>

(***************************************************************************)
(* The connection breaks behind a claim that was made.  It repeats its     *)
(* command for as long as it takes (maxRetriesPerRequest: null), and the   *)
(* second SET NX finds the slot of the first: the run holds the operation  *)
(* for told.                                                               *)
(***************************************************************************)
ClaimTwice(j, o) ==
    /\ o \notin slot
    /\ \/ /\ At(j, "write") /\ o = run[j].op
          /\ run[j].owner = "none" /\ run[j].sent < MaxNotices
          /\ Put(j, Onwards(run[j]))
       \/ /\ At(j, "summary") /\ o \in run[j].asked
          /\ Put(j, [run[j] EXCEPT !.asked = @ \ {o}])
    /\ Fault
    /\ slot' = slot \union {o}
    /\ dropped' = dropped \union {Slot(o)}
    /\ UNCHANGED <<crm, heard, stranded, spoken, blind, edits>>

(***************************************************************************)
(* The worker dies and the job is given out again as the same attempt.     *)
(***************************************************************************)
Die(j) ==
    /\ ~At(j, "idle")
    /\ Fault
    /\ dropped' = dropped \union Current(j) \union Hidden(j)
    /\ Put(j, Blank("ops", run[j].tries))
    /\ UNCHANGED <<crm, slot, heard, stranded, spoken, blind, edits>>

----------------------------------------------------------------------------
Step(j) ==
    \/ Poll(j)
    \/ Look(j)
    \/ Write(j)
    \/ Send(j)
    \/ Close(j)
    \/ \E o \in Op : ClaimKept(j, o)
    \/ SendSummary(j)

Next ==
    \/ \E o \in Op : Enter(o) \/ Delete(o) \/ Expire(o)
    \/ EnterMine
    \/ \E j \in Job : Step(j) \/ Fail(j) \/ LoseAnswer(j) \/ Die(j)
    \/ \E j \in Job, o \in Op : ClaimTwice(j, o)

(***************************************************************************)
(* The cron polls and the queue gives its jobs out.                        *)
(***************************************************************************)
Spec == Init /\ [][Next]_vars /\ \A j \in Job : WF_vars(Step(j))

----------------------------------------------------------------------------
(***************************************************************************)
(* What the properties rest on.  Shape: what an attempt holds at each      *)
(* stage.  Counted: each message said, and each claim whose message is     *)
(* still to come, has its slot or was let through blindly.                 *)
(***************************************************************************)
Shape ==
    \A j \in Job :
      /\ At(j, "idle") => run[j].kept = {} /\ run[j].asked = {}
      /\ ~At(j, "summary") => run[j].named = {}
      /\ At(j, "write") \/ At(j, "send") => run[j].op \in Op
      /\ At(j, "send") => run[j].sent < MaxNotices /\ run[j].owner # "client"
      /\ run[j].asked \intersect run[j].named = {}

Holders(o) == {j \in Job : o \in Claimed(j)}

Counted ==
    \A o \in Op :
      spoken[o] + Cardinality(Holders(o))
        <= blind[o] + IF o \in slot THEN 1 ELSE 0

(***************************************************************************)
(* Within the life of its slot an operation nobody could record is told    *)
(* once, by whatever job and in whatever way, single or in a summary; the  *)
(* messages that a failing Redis let through come on top (handlers.ts:1008,*)
(* worker.ts:653).                                                         *)
(***************************************************************************)
ToldOnce == \A o \in Op : spoken[o] <= 1 + blind[o]

(***************************************************************************)
(* Nobody is silenced unheard.  An operation held back by a marker on our  *)
(* own company or by a slot has been told, or a run in progress is going   *)
(* to tell it, or an accident came between the silencer and the message,   *)
(* or it waited for a summary when its attempt failed (handlers.ts:1168).  *)
(***************************************************************************)
Silenced ==
    {Marker(o) : o \in {p \in Op : act[p] = "mine"}} \union Slots(slot)

InHand == UNION {Current(j) \union Hidden(j) : j \in Job}

NobodyUnheard == Silenced \subseteq heard \union InHand \union dropped \union stranded

(***************************************************************************)
(* What the comment at handlers.ts:1168 says besides: an attempt that      *)
(* fails burns nothing and the retry announces its operations again.       *)
(***************************************************************************)
RetryTellsAgain == Silenced \subseteq heard \union InHand \union dropped

(***************************************************************************)
(* No marker is set without an activity: an operation that could not be    *)
(* recorded is recorded by itself once its company is entered              *)
(* (unmatchedNoticeClaim.ts, handlers.ts:1034).                            *)
(***************************************************************************)
RecordedByItself ==
    \A o \in Op : (o \in known) ~> (act[o] \in {"client", "mine"})

=============================================================================
