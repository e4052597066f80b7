------------------------------- MODULE Alerts -------------------------------
(***************************************************************************)
(* The health check that knocks by itself.  Every five minutes it reads    *)
(* the queues, the bank connections and the pulse of the workers, and says *)
(* in a chat what has broken and what has come back: one message for an    *)
(* episode, not one for a check.  What has been said is kept in the memory *)
(* of the process.                                                         *)
(*                                                                         *)
(* Two kinds of sources are watched.  A queue that cannot be read is an    *)
(* episode of its own; of any other source that cannot be read the check   *)
(* says nothing.  How a trouble is recognised (the age of the oldest job,  *)
(* three failures in an hour, a grant the bank refuses, no live worker) is *)
(* abstracted to whether it is there.  A unit of time is a period.         *)
(***************************************************************************)
EXTENDS Naturals

CONSTANTS
    Queue,       \* the queues
    Watch,       \* the banks, the workers: read apart, each in its own try
    Graced,      \* those of Watch that are silent in the first check
    Floor,       \* MIN_REANNOUNCE_MS, in periods
    MaxLost,     \* bound: messages that fail or whose answer is lost
    MaxRestarts  \* bound: restarts of the process

ASSUME AlertsAssumption ==
    /\ Queue \intersect Watch = {}
    /\ Graced \subseteq Watch
    /\ Floor \in Nat \ {0}
    /\ {MaxLost, MaxRestarts} \subseteq Nat

VARIABLES
    broken,     \* the troubles there are
    dark,       \* the sources that cannot be read
    due,        \* a check has to begin
    fresh,      \* the process has just started
    announced,  \* announcedAtMs, as periods ago
    awaiting,   \* awaitingRecovery
    opened,     \* breakages the check in progress has still to say
    recovered,  \* recoveries it has still to say
    doubt,      \* those of them that check could not judge
    word,       \* the last word said of each episode
    quiet,      \* periods since the last breakage said, Floor for long ago
    blurred,    \* episodes of which the process does not know the last word
    lost, restarts

world == <<broken, dark>>
memory == <<announced, awaiting>>
said == <<word, quiet, blurred>>
alertVars == <<world, due, fresh, memory, opened, recovered, doubt, said, lost,
               restarts>>

Source == Queue \union Watch
Trouble(s) == <<"trouble", s>>
Unreadable(q) == <<"unreadable", q>>
Episode == {Trouble(s) : s \in Source} \union {Unreadable(q) : q \in Queue}

Word == {"none", "down", "up"}

\* An episode that has no entry in announcedAtMs.
Never == Floor + 1

(***************************************************************************)
(* The type of the state; and what is awaited has been announced.          *)
(***************************************************************************)
AlertTypeOK ==
    /\ broken \subseteq Source
    /\ dark \subseteq Source
    /\ {due, fresh} \subseteq BOOLEAN
    /\ announced \in [Episode -> 0..Never]
    /\ awaiting \subseteq {e \in Episode : word[e] = "down" \/ e \in blurred}
    /\ opened \subseteq Episode
    /\ recovered \subseteq awaiting
    /\ doubt \subseteq recovered
    /\ word \in [Episode -> Word]
    /\ quiet \in [Episode -> 0..Floor]
    /\ blurred \subseteq Episode
    /\ lost \in 0..MaxLost
    /\ restarts \in 0..MaxRestarts

\* plugins/queue.ts runs the first check at once.
AlertInit ==
    /\ broken = {}
    /\ dark = {}
    /\ due = TRUE
    /\ fresh = TRUE
    /\ announced = [e \in Episode |-> Never]
    /\ awaiting = {}
    /\ opened = {}
    /\ recovered = {}
    /\ doubt = {}
    /\ word = [e \in Episode |-> "none"]
    /\ quiet = [e \in Episode |-> Floor]
    /\ blurred = {}
    /\ lost = 0
    /\ restarts = 0

----------------------------------------------------------------------------
(***************************************************************************)
(* The world: troubles come and go, sources go dark and come back.         *)
(***************************************************************************)
Toggled(set, s) == IF s \in set THEN set \ {s} ELSE set \union {s}

Change(s) ==
    /\ broken' = Toggled(broken, s)
    /\ UNCHANGED <<dark, due, fresh, memory, opened, recovered, doubt, said,
                   lost, restarts>>

Darken(s) ==
    /\ dark' = Toggled(dark, s)
    /\ UNCHANGED <<broken, due, fresh, memory, opened, recovered, doubt, said,
                   lost, restarts>>

(***************************************************************************)
(* A period passes.  The timer finds the last check ended and begins a new *)
(* one, or finds it still sending and does nothing.                        *)
(***************************************************************************)
Sending == opened \union recovered # {}

Older(age) == IF age < Floor THEN age + 1 ELSE age

Clock ==
    /\ ~due
    /\ due' = ~Sending
    /\ fresh' = FALSE
    /\ announced' = [e \in Episode |-> Older(announced[e])]
    /\ quiet' = [e \in Episode |-> Older(quiet[e])]
    /\ UNCHANGED <<world, awaiting, opened, recovered, doubt, word, blurred,
                   lost, restarts>>

----------------------------------------------------------------------------
(***************************************************************************)
(* The check: what it sees, and planAlertDelivery.                         *)
(***************************************************************************)
Silent(s) == s \in dark \/ (fresh /\ s \in Graced)

Alerting ==
    {Trouble(s) : s \in {t \in broken : ~Silent(t)}}
        \union {Unreadable(q) : q \in Queue \intersect dark}

\* Mutant: what was announced once is taken for told as long as it is seen.
MutantOfOpens(e) == e \notin awaiting /\ announced[e] = Never

\* Announced and not closed: the reader knows.  Closed: past the floor.
Opens(e) ==
    /\ e \notin awaiting
    /\ announced[e] >= Floor

\* Mutant: the entry of an episode that is over is dropped at once.
MutantOfPruned(e) == IF e \in Alerting THEN announced[e] ELSE Never

Pruned(e) ==
    IF e \in Alerting \/ announced[e] < Floor THEN announced[e] ELSE Never

Check ==
    /\ due
    /\ due' = FALSE
    /\ opened' = {e \in Alerting : Opens(e)}
    /\ recovered' = awaiting \ Alerting
    /\ announced' = [e \in Episode |-> Pruned(e)]
    /\ doubt' = recovered' \intersect
                {Trouble(s) : s \in {t \in Source : Silent(t)}}
    /\ UNCHANGED <<world, fresh, awaiting, said, lost, restarts>>

(***************************************************************************)
(* The messages of a check go out one by one, the breakages first.  A      *)
(* message is marked as said only when the channel has confirmed it; one   *)
(* that fails is left to the next check.                                   *)
(***************************************************************************)
QuietAfter(e, w) == IF w = "down" THEN [quiet EXCEPT ![e] = 0] ELSE quiet

\* Mutant: the breakage is marked as said before the channel answers.
MutantOfUnconfirmed(e, w) ==
    /\ lost < MaxLost
    /\ lost' = lost + 1
    /\ announced' = IF w = "down" THEN [announced EXCEPT ![e] = 0] ELSE announced
    /\ awaiting' = IF w = "down" THEN awaiting \union {e} ELSE awaiting
    /\ UNCHANGED said

\* The channel did not get the message, or got it and the answer was lost.
Unconfirmed(e, w) ==
    /\ lost < MaxLost
    /\ lost' = lost + 1
    /\ \/ UNCHANGED said
       \/ /\ word' = [word EXCEPT ![e] = w]
          /\ quiet' = QuietAfter(e, w)
          /\ blurred' = blurred \union {e}
    /\ UNCHANGED memory

Confirmed(e, w) ==
    /\ word' = [word EXCEPT ![e] = w]
    /\ quiet' = QuietAfter(e, w)
    /\ blurred' = blurred \ {e}
    /\ lost' = lost

Announce(e) ==
    /\ e \in opened
    /\ opened' = opened \ {e}
    /\ \/ /\ Confirmed(e, "down")
          /\ announced' = [announced EXCEPT ![e] = 0]
          /\ awaiting' = awaiting \union {e}
       \/ Unconfirmed(e, "down")
    /\ UNCHANGED <<world, due, fresh, recovered, doubt, restarts>>

Recover(e) ==
    /\ opened = {}
    /\ e \in recovered
    /\ recovered' = recovered \ {e}
    /\ doubt' = doubt \ {e}
    /\ \/ /\ Confirmed(e, "up")
          /\ awaiting' = awaiting \ {e}
          /\ announced' = announced
       \/ Unconfirmed(e, "up")
    /\ UNCHANGED <<world, due, fresh, opened, restarts>>

(***************************************************************************)
(* The process starts anew and has forgotten what it said.                 *)
(***************************************************************************)
Restart ==
    /\ restarts < MaxRestarts
    /\ restarts' = restarts + 1
    /\ due' = TRUE
    /\ fresh' = TRUE
    /\ announced' = [e \in Episode |-> Never]
    /\ awaiting' = {}
    /\ opened' = {}
    /\ recovered' = {}
    /\ doubt' = {}
    /\ blurred' = blurred \union
          {e \in Episode : word[e] = "down" \/ quiet[e] < Floor}
    /\ UNCHANGED <<world, word, quiet, lost>>

----------------------------------------------------------------------------
AlertNext ==
    \/ \E s \in Source : Change(s) \/ Darken(s)
    \/ Clock \/ Check
    \/ \E e \in Episode : Announce(e) \/ Recover(e)
    \/ Restart

AlertSpec == AlertInit /\ [][AlertNext]_alertVars

(***************************************************************************)
(* The timer ticks, a check begins and its messages are tried to the end.  *)
(***************************************************************************)
FairAlertSpec ==
    /\ AlertSpec
    /\ WF_alertVars(Clock)
    /\ WF_alertVars(Check)
    /\ WF_alertVars(\E e \in Episode : Announce(e) \/ Recover(e))

----------------------------------------------------------------------------
(***************************************************************************)
(* The channel is worth reading (queueAlertDeliver.ts:20-23, 68-81): of an *)
(* episode it hears a breakage, then a recovery, then a breakage again,    *)
(* never two breakages within the floor and never a recovery of what it    *)
(* was not told is broken.  Only an episode whose last word the process    *)
(* does not know, for a restart or a lost answer, may be said twice.       *)
(***************************************************************************)
SaidOnce ==
    [][\A e \in Episode :
          /\ word'[e] = "up" => word[e] # "none"
          /\ quiet'[e] < quiet[e] =>
                e \in blurred \/ (word[e] # "down" /\ quiet[e] = Floor)]_alertVars

(***************************************************************************)
(* The last word is the truth: a trouble that stays, and can be read, is   *)
(* announced in the end, however it flapped before, whatever failed to be  *)
(* sent; one that is over is reported over - unless the process does not   *)
(* know what it said last: it forgot in a restart, or an answer was lost.  *)
(***************************************************************************)
Stays(s) == s \in broken /\ s \notin dark
Over(s) == s \notin broken /\ s \notin dark

LastWordIsTrue ==
    \A s \in Source :
        LET e == Trouble(s) IN
        /\ <>[]Stays(s) => <>[](word[e] = "down" \/ e \in blurred)
        /\ <>[]Over(s) => <>[](word[e] # "down" \/ e \in blurred)

(***************************************************************************)
(* "Problems whose breakage WAS announced and which are now gone": a check *)
(* that could not judge a trouble does not report it over                  *)
(* (queueAlertDeliver.ts:69, queueHealthTick.ts:101-102).                  *)
(***************************************************************************)
NoFalseRecovery ==
    [][\A e \in doubt : word'[e] = "up" => word[e] = "up"]_alertVars
=============================================================================
