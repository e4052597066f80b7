--------------------------- MODULE Unmatched_proof ---------------------------
(***************************************************************************)
(* Proofs about what people are told.  First the notices about operations  *)
(* nothing recognises (Unmatched): type correctness, nobody is told twice  *)
(* in the life of a slot, nobody is held back unheard.  Then the messages  *)
(* of the health check (Alerts): type correctness, an episode is said once.*)
(***************************************************************************)
EXTENDS Unmatched, Alerts, FiniteSetTheorems, TLAPS

USE UnmatchedAssumption

----------------------------------------------------------------------------
\* The attempts the steps make are attempts.
LEMMA BlankTyped ==
  ASSUME NEW at \in Stage, NEW tries \in 0..MaxAttempts
  PROVE  Blank(at, tries) \in Attempt
  BY DEF Blank, Attempt, Owner, None

LEMMA OnwardsTyped ==
  ASSUME NEW a \in Attempt
  PROVE  Onwards(a) \in Attempt
  BY DEF Onwards, Attempt, Stage, Owner, None

LEMMA PutTyped ==
  ASSUME run \in [Job -> Attempt], NEW j \in Job, NEW a \in Attempt, Put(j, a)
  PROVE  /\ run' \in [Job -> Attempt]
         /\ run'[j] = a
         /\ \A k \in Job \ {j} : run'[k] = run[k]
  BY DEF Put

LEMMA RetriedTyped ==
  ASSUME run \in [Job -> Attempt], NEW j \in Job, Retried(j)
  PROVE  \E a \in Attempt : Put(j, a)
<1>1. run[j] \in Attempt
  OBVIOUS
<1>2. CASE run[j].tries < MaxAttempts
  <2>1. run[j].tries + 1 \in 0..MaxAttempts
    BY <1>1, <1>2 DEF Attempt
  <2>2. Blank("ops", run[j].tries + 1) \in Attempt
    BY <2>1, BlankTyped DEF Stage
  <2> QED
    BY <1>2, <2>2 DEF Retried
<1>3. CASE ~(run[j].tries < MaxAttempts)
  <2>1. Blank("idle", 0) \in Attempt
    BY BlankTyped DEF Stage
  <2> QED
    BY <1>3, <2>1 DEF Retried
<1> QED
  BY <1>2, <1>3

\* Each step of a job puts an attempt in the place of its own.
LEMMA StepTyped ==
  ASSUME TypeOK, Shape, NEW j \in Job,
         Step(j) \/ Fail(j) \/ LoseAnswer(j) \/ Die(j) \/ (\E o \in Op : ClaimTwice(j, o))
  PROVE  \E a \in Attempt : Put(j, a)
<1>1. run \in [Job -> Attempt] /\ run[j] \in Attempt
  BY DEF TypeOK
<1>2. CASE Poll(j)
  <2>1. Blank("ops", 1) \in Attempt
    BY BlankTyped DEF Stage
  <2> QED
    BY <1>2, <2>1 DEF Poll
<1>3. CASE Look(j)
  <2>1. PICK o \in run[j].left :
          Put(j, IF act[o] # "none"
                 THEN [run[j] EXCEPT !.left = @ \ {o}]
                 ELSE [run[j] EXCEPT !.left = @ \ {o}, !.at = "write",
                                     !.op = o, !.owner = WriteTo(o)])
    BY <1>3 DEF Look
  <2>2. [run[j] EXCEPT !.left = @ \ {o}] \in Attempt
    BY <1>1 DEF Attempt
  <2>3. [run[j] EXCEPT !.left = @ \ {o}, !.at = "write", !.op = o,
                       !.owner = WriteTo(o)] \in Attempt
    BY <1>1 DEF Attempt, WriteTo, Stage, Owner
  <2> QED
    BY <2>1, <2>2, <2>3
<1>4. CASE Write(j)
  <2>1. Onwards(run[j]) \in Attempt
    BY <1>1, OnwardsTyped
  <2>2. CASE Pass(j)
    BY <2>1, <2>2 DEF Pass
  <2>3. CASE Speak(j)
    <3>1. [run[j] EXCEPT !.at = "send"] \in Attempt
      BY <1>1 DEF Attempt, Stage
    <3> QED
      BY <2>1, <2>3, <3>1 DEF Speak, ClaimSlot
  <2>4. CASE Keep(j)
    <3>1. run[j].op \in Op
      BY <1>4 DEF Write, Shape
    <3>2. [Onwards(run[j]) EXCEPT !.kept = @ \union {run[j].op}] \in Attempt
      BY <2>1, <3>1 DEF Attempt
    <3>3. [Onwards(run[j]) EXCEPT !.asked = @ \union {run[j].op}] \in Attempt
      BY <2>1, <3>1 DEF Attempt
    <3> QED
      BY <2>4, <3>2, <3>3 DEF Keep
  <2> QED
    BY <1>4, <2>2, <2>3, <2>4 DEF Write
<1>5. CASE Send(j)
  <2>1. Onwards(run[j]) \in Attempt /\ Onwards(run[j]).sent = run[j].sent
    BY <1>1, OnwardsTyped DEF Onwards, Attempt
  <2>2. run[j].sent + 1 \in 0..MaxNotices
    BY <1>1, <1>5 DEF Send, Shape, Attempt
  <2>3. [Onwards(run[j]) EXCEPT !.sent = @ + 1] \in Attempt
    BY <2>1, <2>2 DEF Attempt
  <2> QED
    BY <1>5, <2>3 DEF Send
<1>6. CASE Close(j)
  <2>1. Blank("idle", 0) \in Attempt
    BY BlankTyped DEF Stage
  <2>2. [run[j] EXCEPT !.at = "summary"] \in Attempt
    BY <1>1 DEF Attempt, Stage
  <2> QED
    BY <1>6, <2>1, <2>2 DEF Close
<1>7. ASSUME NEW o \in Op, ClaimKept(j, o) PROVE \E a \in Attempt : Put(j, a)
  <2>1. [run[j] EXCEPT !.asked = @ \ {o}, !.named = @ \union {o}] \in Attempt
    BY <1>1 DEF Attempt
  <2>2. [run[j] EXCEPT !.asked = @ \ {o}] \in Attempt
    BY <1>1 DEF Attempt
  <2> QED
    BY <1>7, <2>1, <2>2 DEF ClaimKept, ClaimSlot
<1>8. CASE SendSummary(j)
  <2>1. Blank("idle", 0) \in Attempt
    BY BlankTyped DEF Stage
  <2> QED
    BY <1>8, <2>1 DEF SendSummary
<1>9. CASE Fail(j)
  BY <1>1, <1>9, RetriedTyped DEF Fail
<1>10. CASE LoseAnswer(j)
  BY <1>1, <1>10, RetriedTyped DEF LoseAnswer
<1>11. CASE Die(j)
  <2>1. Blank("ops", run[j].tries) \in Attempt
    BY <1>1, BlankTyped DEF Attempt, Stage
  <2> QED
    BY <1>11, <2>1 DEF Die
<1>12. ASSUME NEW o \in Op, ClaimTwice(j, o) PROVE \E a \in Attempt : Put(j, a)
  <2>1. Onwards(run[j]) \in Attempt /\ [run[j] EXCEPT !.asked = @ \ {o}] \in Attempt
    BY <1>1, OnwardsTyped DEF Attempt
  <2> QED
    BY <1>12, <2>1 DEF ClaimTwice
<1> QED
  BY <1>2, <1>3, <1>4, <1>5, <1>6, <1>7, <1>8, <1>9, <1>10, <1>11, <1>12 DEF Step

----------------------------------------------------------------------------
(***************************************************************************)
(* Type correctness.                                                       *)
(***************************************************************************)
JobStep(j) ==
  Step(j) \/ Fail(j) \/ LoseAnswer(j) \/ Die(j) \/ (\E o \in Op : ClaimTwice(j, o))

\* Silencers are silencers.
LEMMA HandTyped ==
  ASSUME TypeOK, Shape, NEW j \in Job
  PROVE  /\ Markers(j) \subseteq Silencer
         /\ Current(j) \subseteq Silencer
         /\ Hidden(j) \subseteq Silencer
<1>1. run[j] \in Attempt
  BY DEF TypeOK
<1>2. run[j].kept \subseteq Op /\ run[j].named \subseteq Op
  BY <1>1 DEF Attempt
<1>3. Markers(j) \subseteq Silencer /\ Slots(run[j].named) \subseteq Silencer
  BY <1>2 DEF Markers, Slots, Silencer
<1>4. Current(j) \subseteq Silencer
  BY DEF Current, Shape, Silencer
<1> QED
  BY <1>3, <1>4 DEF Hidden

\* A claim, a message, a counted fault.
LEMMA ClaimTyped ==
  ASSUME TypeOK, NEW o \in Op, Free(o) \/ Blindly(o) \/ Taken(o)
  PROVE  /\ slot' \subseteq Op
         /\ blind' \in [Op -> Nat]
         /\ faults' \in 0..MaxFaults
<1>1. CASE Free(o)
  BY <1>1 DEF Free, TypeOK
<1>2. CASE Blindly(o)
  BY <1>2 DEF Blindly, Fault, TypeOK
<1>3. CASE Taken(o)
  BY <1>3 DEF Taken, TypeOK
<1> QED
  BY <1>1, <1>2, <1>3

LEMMA MessageTyped ==
  ASSUME TypeOK, NEW M \in SUBSET Silencer, Message(M)
  PROVE  /\ heard' \subseteq Silencer
         /\ dropped' \subseteq Silencer
         /\ spoken' \in [Op -> Nat]
         /\ faults' \in 0..MaxFaults
<1>1. CASE /\ heard' = heard \union M
           /\ spoken' = [o \in Op |-> IF Slot(o) \in M THEN spoken[o] + 1
                                      ELSE spoken[o]]
           /\ UNCHANGED <<dropped, faults>>
  BY <1>1 DEF TypeOK
<1>2. CASE Fault /\ dropped' = dropped \union M /\ UNCHANGED <<heard, spoken>>
  BY <1>2 DEF TypeOK, Fault
<1> QED
  BY <1>1, <1>2 DEF Message

LEMMA TypeInit == Init => TypeOK
<1> SUFFICES ASSUME Init PROVE TypeOK
  OBVIOUS
<1>1. Blank("idle", 0) \in Attempt
  BY BlankTyped DEF Stage
<1> QED
  BY <1>1 DEF Init, TypeOK, Owner

LEMMA TypeStep == TypeOK /\ Shape /\ [Next]_vars => TypeOK'
<1> SUFFICES ASSUME TypeOK, Shape, [Next]_vars PROVE TypeOK'
  OBVIOUS
<1>1. ASSUME NEW o \in Op, Enter(o) PROVE TypeOK'
  BY <1>1 DEF Enter, TypeOK, history
<1>2. CASE EnterMine
  BY <1>2 DEF EnterMine, TypeOK, history
<1>3. ASSUME NEW o \in Op, Delete(o) PROVE TypeOK'
  BY <1>3 DEF Delete, TypeOK, Owner
<1>4. ASSUME NEW o \in Op, Expire(o) PROVE TypeOK'
  BY <1>4 DEF Expire, TypeOK, crm
<1>5. ASSUME NEW j \in Job, JobStep(j) PROVE TypeOK'
  <2>1. run' \in [Job -> Attempt]
    BY <1>5, StepTyped, PutTyped DEF JobStep, TypeOK
  <2>2. run[j] \in Attempt
    BY <1>5 DEF TypeOK
  <2>3. CASE Poll(j) \/ Look(j) \/ Close(j)
    BY <2>1, <2>3 DEF Poll, Look, Close, TypeOK, crm, history
  <2>4. CASE Write(j)
    <3>1. run[j].op \in Op /\ run[j].owner \in Owner
      BY <2>2, <2>4 DEF Write, Shape, Attempt
    <3>2. act' \in [Op -> Owner]
      BY <2>4, <3>1 DEF Write, Written, TypeOK
    <3>3. slot' \subseteq Op /\ blind' \in [Op -> Nat] /\ faults' \in 0..MaxFaults
      <4>1. CASE Pass(j) \/ Keep(j)
        BY <4>1 DEF Pass, Keep, TypeOK
      <4>2. CASE Speak(j)
        <5>1. CASE run[j].owner = "mine"
          BY <4>2, <5>1 DEF Speak, TypeOK
        <5>2. CASE run[j].owner # "mine"
          <6>1. run[j].op \in Op
            BY <3>1
          <6>2. Free(run[j].op) \/ Blindly(run[j].op) \/ Taken(run[j].op)
            BY <4>2, <5>2 DEF Speak, ClaimSlot
          <6> QED
            BY <6>1, <6>2, <1>5, ClaimTyped
        <5> QED
          BY <5>1, <5>2
      <4> QED
        BY <2>4, <4>1, <4>2 DEF Write
    <3> QED
      BY <2>1, <2>4, <3>2, <3>3 DEF Write, TypeOK
  <2>5. CASE Send(j)
    <3>1. Message(Current(j)) /\ Current(j) \in SUBSET Silencer
      BY <1>5, <2>5, HandTyped DEF Send
    <3> QED
      BY <2>1, <2>5, <3>1, MessageTyped DEF Send, TypeOK, crm
  <2>6. ASSUME NEW o \in Op, ClaimKept(j, o) PROVE TypeOK'
    <3>1. slot' \subseteq Op /\ blind' \in [Op -> Nat] /\ faults' \in 0..MaxFaults
      BY <2>6, ClaimTyped DEF ClaimKept, ClaimSlot
    <3> QED
      BY <2>1, <2>6, <3>1 DEF ClaimKept, TypeOK, crm
  <2>7. CASE SendSummary(j)
    <3>1. CASE Hidden(j) = {}
      BY <2>1, <2>7, <3>1 DEF SendSummary, TypeOK, crm
    <3>2. CASE Hidden(j) # {}
      <4>1. Message(Hidden(j)) /\ Hidden(j) \in SUBSET Silencer
        BY <1>5, <2>7, <3>2, HandTyped DEF SendSummary
      <4> QED
        BY <2>1, <2>7, <4>1, MessageTyped DEF SendSummary, TypeOK, crm
    <3> QED
      BY <3>1, <3>2
  <2>8. CASE Fail(j)
    <3>1. Markers(j) \subseteq Silencer
      BY <1>5, HandTyped
    <3> QED
      BY <2>1, <2>8, <3>1 DEF Fail, Fault, TypeOK, crm
  <2>9. CASE LoseAnswer(j)
    <3>1. Markers(j) \subseteq Silencer
      BY <1>5, HandTyped
    <3>2. run[j].op \in Op /\ run[j].owner \in Owner
      BY <2>2, <2>9, <1>5 DEF LoseAnswer, Shape, Attempt
    <3>3. act' \in [Op -> Owner] /\ Marker(run[j].op) \in Silencer
      BY <2>9, <3>2 DEF LoseAnswer, Written, TypeOK, Silencer
    <3> QED
      BY <2>1, <2>9, <3>1, <3>3 DEF LoseAnswer, Fault, TypeOK
  <2>10. CASE Die(j)
    <3>1. Current(j) \subseteq Silencer /\ Hidden(j) \subseteq Silencer
      BY <1>5, HandTyped
    <3> QED
      BY <2>1, <2>10, <3>1 DEF Die, Fault, TypeOK, crm
  <2>11. ASSUME NEW o \in Op, ClaimTwice(j, o) PROVE TypeOK'
    <3>1. Slot(o) \in Silencer
      BY DEF Silencer
    <3> QED
      BY <2>1, <2>11, <3>1 DEF ClaimTwice, Fault, TypeOK, crm
  <2> QED
    BY <1>5, <2>3, <2>4, <2>5, <2>6, <2>7, <2>8, <2>9, <2>10, <2>11 DEF JobStep, Step
<1>6. CASE UNCHANGED vars
  BY <1>6 DEF vars, crm, history, TypeOK
<1> QED
  BY <1>1, <1>2, <1>3, <1>4, <1>5, <1>6 DEF Next, JobStep

----------------------------------------------------------------------------
(***************************************************************************)
(* What an attempt holds at each stage.                                    *)
(***************************************************************************)
ShapeOf(a) ==
  /\ a.at = "idle" => a.kept = {} /\ a.asked = {}
  /\ a.at # "summary" => a.named = {}
  /\ a.at = "write" \/ a.at = "send" => a.op \in Op
  /\ a.at = "send" => a.sent < MaxNotices /\ a.owner # "client"
  /\ a.asked \intersect a.named = {}

LEMMA ShapeOfAll == Shape <=> \A j \in Job : ShapeOf(run[j])
  BY DEF Shape, ShapeOf, At

LEMMA BlankShape ==
  ASSUME NEW at \in {"idle", "ops"}, NEW tries \in 0..MaxAttempts
  PROVE  ShapeOf(Blank(at, tries))
  BY DEF Blank, ShapeOf

LEMMA OnwardsFields ==
  ASSUME NEW a \in Attempt
  PROVE  /\ Onwards(a).at = "ops"
         /\ Onwards(a).kept = a.kept
         /\ Onwards(a).asked = a.asked
         /\ Onwards(a).named = a.named
         /\ Onwards(a).sent = a.sent
  BY DEF Onwards, Attempt

LEMMA ShapeInit == Init => Shape
  BY DEF Init, Shape, At, Blank

LEMMA RetriedShape ==
  ASSUME run \in [Job -> Attempt], NEW j \in Job, Retried(j)
  PROVE  /\ ShapeOf(run'[j])
         /\ run'[j].at \in {"idle", "ops"}
         /\ run'[j].named = {}
         /\ \A k \in Job \ {j} : run'[k] = run[k]
<1>1. run[j] \in Attempt
  OBVIOUS
<1>2. CASE run[j].tries < MaxAttempts
  <2>1. run'[j] = Blank("ops", run[j].tries + 1)
        /\ \A k \in Job \ {j} : run'[k] = run[k]
    BY <1>2 DEF Retried, Put
  <2>2. run[j].tries + 1 \in 0..MaxAttempts
    BY <1>1, <1>2 DEF Attempt
  <2>3. ShapeOf(run'[j])
    BY <2>1, <2>2, BlankShape
  <2> QED
    BY <2>1, <2>3 DEF Blank
<1>3. CASE ~(run[j].tries < MaxAttempts)
  <2>1. run'[j] = Blank("idle", 0)
        /\ \A k \in Job \ {j} : run'[k] = run[k]
    BY <1>3 DEF Retried, Put
  <2>2. ShapeOf(run'[j])
    BY <2>1, BlankShape
  <2> QED
    BY <2>1, <2>2 DEF Blank
<1> QED
  BY <1>2, <1>3

\* A step of a job leaves the attempts of the others alone, and its own in shape.
LEMMA ShapeJob ==
  ASSUME TypeOK, Shape, NEW j \in Job, JobStep(j)
  PROVE  /\ ShapeOf(run'[j])
         /\ \A k \in Job \ {j} : run'[k] = run[k]
<1>1. run \in [Job -> Attempt] /\ run[j] \in Attempt /\ ShapeOf(run[j])
  BY ShapeOfAll DEF TypeOK
<1>2. \A k \in Job \ {j} : run'[k] = run[k]
  BY <1>1, StepTyped, PutTyped DEF JobStep
<1> SUFFICES ShapeOf(run'[j])
  BY <1>2
<1>3. \A a : Put(j, a) => run'[j] = a
  BY <1>1 DEF Put
<1>4. CASE Poll(j)
  BY <1>3, <1>4, BlankShape DEF Poll
<1>5. CASE Look(j)
  <2>1. PICK o \in run[j].left :
          Put(j, IF act[o] # "none"
                 THEN [run[j] EXCEPT !.left = @ \ {o}]
                 ELSE [run[j] EXCEPT !.left = @ \ {o}, !.at = "write",
                                     !.op = o, !.owner = WriteTo(o)])
    BY <1>5 DEF Look
  <2>2. run[j].at = "ops" /\ o \in Op
    BY <1>1, <1>5, <2>1 DEF Look, At, Attempt
  <2>3. ShapeOf([run[j] EXCEPT !.left = @ \ {o}])
    BY <1>1, <2>2 DEF ShapeOf, Attempt
  <2>4. ShapeOf([run[j] EXCEPT !.left = @ \ {o}, !.at = "write",
                               !.op = o, !.owner = WriteTo(o)])
    BY <1>1, <2>2 DEF ShapeOf, Attempt
  <2> QED
    BY <1>3, <2>1, <2>3, <2>4
<1>6. CASE Write(j)
  <2>1. /\ Onwards(run[j]) \in Attempt
        /\ Onwards(run[j]).at = "ops"
        /\ Onwards(run[j]).named = {}
    BY <1>1, <1>6, OnwardsTyped, OnwardsFields DEF Write, At, ShapeOf
  <2>2. CASE Pass(j)
    BY <1>3, <2>1, <2>2 DEF Pass, ShapeOf
  <2>3. CASE Speak(j)
    <3>1. ShapeOf([run[j] EXCEPT !.at = "send"])
      BY <1>1, <1>6, <2>3 DEF Write, Speak, At, ShapeOf, Attempt
    <3>2. ShapeOf(Onwards(run[j]))
      BY <2>1 DEF ShapeOf
    <3> QED
      BY <1>3, <2>3, <3>1, <3>2 DEF Speak, ClaimSlot
  <2>4. CASE Keep(j)
    BY <1>3, <2>1, <2>4 DEF Keep, ShapeOf, Attempt
  <2> QED
    BY <1>6, <2>2, <2>3, <2>4 DEF Write
<1>7. CASE Send(j)
  <2>1. /\ Onwards(run[j]) \in Attempt
        /\ Onwards(run[j]).at = "ops"
        /\ Onwards(run[j]).named = {}
    BY <1>1, <1>7, OnwardsTyped, OnwardsFields DEF Send, At, ShapeOf
  <2> QED
    BY <1>3, <1>7, <2>1 DEF Send, ShapeOf, Attempt
<1>8. CASE Close(j)
  <2>1. ShapeOf([run[j] EXCEPT !.at = "summary"])
    BY <1>1, <1>8 DEF Close, At, ShapeOf, Attempt
  <2> QED
    BY <1>3, <1>8, <2>1, BlankShape DEF Close
<1>9. ASSUME NEW o \in Op, ClaimKept(j, o) PROVE ShapeOf(run'[j])
  <2>1. ShapeOf([run[j] EXCEPT !.asked = @ \ {o}, !.named = @ \union {o}])
    BY <1>1, <1>9 DEF ClaimKept, At, ShapeOf, Attempt
  <2>2. ShapeOf([run[j] EXCEPT !.asked = @ \ {o}])
    BY <1>1, <1>9 DEF ClaimKept, At, ShapeOf, Attempt
  <2> QED
    BY <1>3, <1>9, <2>1, <2>2 DEF ClaimKept, ClaimSlot
<1>10. CASE SendSummary(j)
  BY <1>3, <1>10, BlankShape DEF SendSummary
<1>11. CASE Fail(j)
  BY <1>1, <1>11, RetriedShape DEF Fail
<1>12. CASE LoseAnswer(j)
  BY <1>1, <1>12, RetriedShape DEF LoseAnswer
<1>13. CASE Die(j)
  <2>1. run[j].tries \in 0..MaxAttempts
    BY <1>1 DEF Attempt
  <2> QED
    BY <1>3, <1>13, <2>1, BlankShape DEF Die
<1>14. ASSUME NEW o \in Op, ClaimTwice(j, o) PROVE ShapeOf(run'[j])
  <2>1. run[j].at = "summary" => ShapeOf([run[j] EXCEPT !.asked = @ \ {o}])
    BY <1>1 DEF ShapeOf, Attempt
  <2>2. run[j].at = "write" => ShapeOf(Onwards(run[j]))
    BY <1>1, OnwardsFields DEF ShapeOf
  <2> QED
    BY <1>3, <1>14, <2>1, <2>2 DEF ClaimTwice, At
<1> QED
  BY <1>4, <1>5, <1>6, <1>7, <1>8, <1>9, <1>10, <1>11, <1>12, <1>13, <1>14
     DEF JobStep, Step

LEMMA ShapeStep == TypeOK /\ Shape /\ [Next]_vars => Shape'
<1> SUFFICES ASSUME TypeOK, Shape, [Next]_vars PROVE \A j \in Job : ShapeOf(run'[j])
  BY DEF Shape, ShapeOf, At
<1>1. CASE \E j \in Job : JobStep(j)
  <2>1. PICK j \in Job : JobStep(j)
    BY <1>1
  <2>2. ShapeOf(run'[j]) /\ \A k \in Job \ {j} : run'[k] = run[k]
    BY <2>1, ShapeJob
  <2> QED
    BY <2>2, ShapeOfAll
<1>2. CASE UNCHANGED run
  BY <1>2, ShapeOfAll
<1> QED
  BY <1>1, <1>2 DEF Next, JobStep, Enter, Delete, Expire, EnterMine, vars

----------------------------------------------------------------------------
(***************************************************************************)
(* Counted.  What a step of one job does to the number of claims whose     *)
(* message is still to come.                                               *)
(***************************************************************************)
Credit(o) == blind[o] + IF o \in slot THEN 1 ELSE 0
Pending(o) == Cardinality(Holders(o))

LEMMA CountedAll == Counted <=> \A o \in Op : spoken[o] + Pending(o) <= Credit(o)
  BY DEF Counted, Pending, Credit

LEMMA PendingStep ==
  ASSUME NEW j \in Job, NEW o \in Op,
         \A k \in Job \ {j} : run'[k] = run[k]
  PROVE  /\ Pending(o) \in Nat /\ Pending(o)' \in Nat
         /\ Pending(o)' <= Pending(o) + 1
         /\ o \notin Claimed(j)' => Pending(o)' <= Pending(o)
         /\ o \in Claimed(j) => Pending(o)' <= Pending(o)
         /\ o \in Claimed(j) /\ o \notin Claimed(j)' => Pending(o)' + 1 <= Pending(o)
<1> DEFINE H == Holders(o)
           G == Holders(o)'
<1>1. IsFiniteSet(H) /\ IsFiniteSet(G)
  <2>1. H \subseteq Job /\ G \subseteq Job
    BY DEF Holders
  <2> QED
    BY <2>1, FS_Subset
<1>2. \A k \in Job \ {j} : Claimed(k)' = Claimed(k)
  BY DEF Claimed, At
<1>3. \A k \in Job \ {j} : k \in G <=> k \in H
  BY <1>2 DEF Holders
<1>4. (j \in G <=> o \in Claimed(j)') /\ (j \in H <=> o \in Claimed(j))
  BY DEF Holders
<1>5. H \subseteq Job /\ G \subseteq Job
  BY DEF Holders
<1>6. Pending(o) = Cardinality(H) /\ Pending(o)' = Cardinality(G)
  BY DEF Pending
<1>7. Cardinality(H) \in Nat /\ Cardinality(G) \in Nat
  BY <1>1, FS_CardinalityType
<1> HIDE DEF H, G
<1>8. CASE j \in G /\ j \notin H
  <2>1. G = H \union {j}
    BY <1>3, <1>5, <1>8
  <2>2. Cardinality(G) = Cardinality(H) + 1
    BY <1>1, <1>8, <2>1, FS_AddElement
  <2> QED
    BY <1>4, <1>6, <1>7, <1>8, <2>2
<1>9. CASE j \notin G /\ j \in H
  <2>1. G = H \ {j}
    BY <1>3, <1>5, <1>9
  <2>2. Cardinality(G) = Cardinality(H) - 1
    BY <1>1, <1>9, <2>1, FS_RemoveElement
  <2> QED
    BY <1>4, <1>6, <1>7, <1>9, <2>2
<1>10. CASE j \in G <=> j \in H
  <2>1. G = H
    BY <1>3, <1>5, <1>10
  <2> QED
    BY <1>4, <1>6, <1>7, <1>10, <2>1
<1> QED
  BY <1>8, <1>9, <1>10

\* A claim that lets through pays for one more, and a taken slot for none.
LEMMA ClaimPays ==
  ASSUME TypeOK, NEW o \in Op
  PROVE  /\ Free(o) \/ Blindly(o) =>
              /\ Credit(o)' >= Credit(o) + 1
              /\ \A p \in Op : Credit(p)' >= Credit(p)
         /\ Taken(o) => \A p \in Op : Credit(p)' = Credit(p)
<1>1. ASSUME Free(o)
      PROVE  Credit(o)' >= Credit(o) + 1 /\ \A p \in Op : Credit(p)' >= Credit(p)
  BY <1>1 DEF Free, Credit, TypeOK
<1>2. ASSUME Blindly(o)
      PROVE  Credit(o)' >= Credit(o) + 1 /\ \A p \in Op : Credit(p)' >= Credit(p)
  <2>1. blind'[o] = blind[o] + 1 /\ \A p \in Op : blind'[p] >= blind[p] /\ blind[p] \in Nat /\ blind'[p] \in Nat
    BY <1>2 DEF Blindly, TypeOK
  <2>2. \A p \in Op : p \in slot => p \in slot'
    BY <1>2 DEF Blindly
  <2> QED
    BY <2>1, <2>2 DEF Credit
<1>3. ASSUME Taken(o) PROVE \A p \in Op : Credit(p)' = Credit(p)
  BY <1>3 DEF Taken, Credit
<1> QED
  BY <1>1, <1>2, <1>3

\* A step that says nothing and claims at most one operation it has paid for.
LEMMA CountedQuiet ==
  ASSUME TypeOK, TypeOK', Counted, NEW j \in Job,
         \A k \in Job \ {j} : run'[k] = run[k],
         UNCHANGED spoken,
         \A o \in Op : /\ Credit(o)' >= Credit(o)
                       /\ o \in Claimed(j)' /\ o \notin Claimed(j)
                            => Credit(o)' >= Credit(o) + 1
  PROVE  Counted'
<1> SUFFICES ASSUME NEW o \in Op PROVE spoken'[o] + Pending(o)' <= Credit(o)'
  BY DEF Counted, Pending, Credit
<1>1. spoken[o] + Pending(o) <= Credit(o)
  BY CountedAll
<1>2. spoken'[o] = spoken[o] /\ spoken[o] \in Nat
  BY DEF TypeOK
<1>3. Credit(o) \in Nat /\ Credit(o)' \in Nat
  BY DEF Credit, TypeOK
<1>4. /\ Pending(o) \in Nat /\ Pending(o)' \in Nat
      /\ Pending(o)' <= Pending(o) + 1
      /\ o \notin Claimed(j)' => Pending(o)' <= Pending(o)
      /\ o \in Claimed(j) => Pending(o)' <= Pending(o)
  BY PendingStep
<1> QED
  BY <1>1, <1>2, <1>3, <1>4

\* A message says what was claimed for it, and nothing is claimed besides.
LEMMA CountedMessage ==
  ASSUME TypeOK, TypeOK', Counted, NEW j \in Job,
         \A k \in Job \ {j} : run'[k] = run[k],
         UNCHANGED <<slot, blind>>,
         Claimed(j)' = {},
         NEW M, Message(M), \A o \in Op : Slot(o) \in M => o \in Claimed(j)
  PROVE  Counted'
<1> SUFFICES ASSUME NEW o \in Op PROVE spoken'[o] + Pending(o)' <= Credit(o)'
  BY DEF Counted, Pending, Credit
<1>1. spoken[o] + Pending(o) <= Credit(o)
  BY CountedAll
<1>2. spoken[o] \in Nat
  BY DEF TypeOK
<1>3. Credit(o) \in Nat /\ Credit(o)' = Credit(o)
  BY DEF Credit, TypeOK
<1>4. /\ Pending(o) \in Nat /\ Pending(o)' \in Nat
      /\ Pending(o)' <= Pending(o)
      /\ o \in Claimed(j) => Pending(o)' + 1 <= Pending(o)
  BY PendingStep
<1>5. spoken'[o] = spoken[o] \/ (spoken'[o] = spoken[o] + 1 /\ Slot(o) \in M)
  BY DEF Message
<1> QED
  BY <1>1, <1>2, <1>3, <1>4, <1>5

LEMMA CountedInit == Init => Counted
<1> SUFFICES ASSUME Init, NEW o \in Op PROVE spoken[o] + Pending(o) <= Credit(o)
  BY CountedAll
<1>1. \A j \in Job : Claimed(j) = {}
  BY DEF Init, Claimed, At, Blank
<1>2. Holders(o) = {}
  BY <1>1 DEF Holders
<1>3. Pending(o) = 0
  BY <1>2, FS_EmptySet DEF Pending
<1> QED
  BY <1>3 DEF Init, Credit

\* The claim of a job between two operations, and of one that sends.
LEMMA ClaimedAt ==
  ASSUME NEW j \in Job, ShapeOf(run[j])
  PROVE  /\ run[j].at \notin {"send", "summary"} => Claimed(j) = {}
         /\ run[j].at = "send" =>
              Claimed(j) = IF run[j].owner = "none" THEN {run[j].op} ELSE {}
         /\ run[j].at = "summary" => Claimed(j) = run[j].named
  BY DEF Claimed, At, ShapeOf

LEMMA CountedJob ==
  ASSUME TypeOK, TypeOK', Shape, Counted, NEW j \in Job, JobStep(j)
  PROVE  Counted'
<1>1. run \in [Job -> Attempt] /\ run[j] \in Attempt /\ ShapeOf(run[j])
  BY ShapeOfAll DEF TypeOK
<1>2. ShapeOf(run'[j]) /\ \A k \in Job \ {j} : run'[k] = run[k]
  BY ShapeJob
<1>3. run' \in [Job -> Attempt]
  BY DEF TypeOK
<1>4. \A a : Put(j, a) => run'[j] = a
  BY <1>1 DEF Put
<1>5. /\ run'[j].at \notin {"send", "summary"} => Claimed(j)' = {}
      /\ run'[j].at = "send" =>
           Claimed(j)' = IF run'[j].owner = "none" THEN {run'[j].op} ELSE {}
      /\ run'[j].at = "summary" => Claimed(j)' = run'[j].named
  BY <1>2 DEF Claimed, At, ShapeOf
<1>6. \A o \in Op : Credit(o) \in Nat
  BY DEF Credit, TypeOK
<1>7. ASSUME UNCHANGED <<slot, blind, spoken>>, Claimed(j)' \subseteq Claimed(j)
      PROVE  Counted'
  <2>1. \A o \in Op : Credit(o)' = Credit(o)
    BY <1>7 DEF Credit
  <2> QED
    BY <1>2, <1>6, <1>7, <2>1, CountedQuiet
<1>8. CASE Poll(j)
  <2>1. Claimed(j)' = {}
    BY <1>4, <1>5, <1>8 DEF Poll, Blank
  <2> QED
    BY <1>7, <1>8, <2>1 DEF Poll, history
<1>9. CASE Look(j)
  <2>1. run'[j].at \in {"ops", "write"}
    BY <1>1, <1>4, <1>9 DEF Look, At, Attempt
  <2>2. Claimed(j)' = {}
    BY <1>5, <2>1
  <2> QED
    BY <1>7, <1>9, <2>2 DEF Look, history
<1>10. CASE Write(j)
  <2>1. /\ Onwards(run[j]) \in Attempt
        /\ Onwards(run[j]).at = "ops"
    BY <1>1, OnwardsTyped, OnwardsFields
  <2>2. CASE Pass(j)
    <3>1. Claimed(j)' = {}
      BY <1>4, <1>5, <2>1, <2>2 DEF Pass
    <3> QED
      BY <1>7, <1>10, <2>2, <3>1 DEF Write, Pass
  <2>3. CASE Keep(j)
    <3>1. run'[j].at = "ops"
      BY <1>4, <2>1, <2>3 DEF Keep, Attempt
    <3>2. Claimed(j)' = {}
      BY <1>5, <3>1
    <3> QED
      BY <1>7, <1>10, <2>3, <3>2 DEF Write, Keep
  <2>4. CASE Speak(j) /\ run[j].owner = "mine"
    <3>1. run'[j].at = "send" /\ run'[j].owner = "mine"
      BY <1>1, <1>4, <2>4 DEF Speak, Attempt
    <3>2. Claimed(j)' = {}
      BY <1>5, <3>1
    <3> QED
      BY <1>7, <1>10, <2>4, <3>2 DEF Write, Speak
  <2>5. CASE Speak(j) /\ run[j].owner # "mine"
    <3>1. PICK o \in Op : o = run[j].op
      BY <1>1, <1>10 DEF Write, At, ShapeOf
    <3>2. CASE (Free(o) \/ Blindly(o)) /\ Put(j, [run[j] EXCEPT !.at = "send"])
      <4>1. run'[j].at = "send" /\ run'[j].op = o
        BY <1>1, <1>4, <3>1, <3>2 DEF Attempt
      <4>2. Claimed(j)' \subseteq {o}
        BY <1>5, <4>1
      <4>3. /\ Credit(o)' >= Credit(o) + 1
            /\ \A p \in Op : Credit(p)' >= Credit(p)
        BY <3>2, ClaimPays
      <4> QED
        BY <1>2, <1>10, <4>2, <4>3, CountedQuiet DEF Write
    <3>3. CASE Taken(o) /\ Put(j, Onwards(run[j]))
      <4>1. Claimed(j)' = {}
        BY <1>4, <1>5, <2>1, <3>3
      <4> QED
        BY <1>7, <1>10, <3>3, <4>1 DEF Write, Taken
    <3> QED
      BY <2>5, <3>1, <3>2, <3>3 DEF Speak, ClaimSlot
  <2> QED
    BY <1>10, <2>2, <2>3, <2>4, <2>5 DEF Write
<1>11. CASE Send(j)
  <2>1. run'[j].at = "ops"
    BY <1>1, <1>4, <1>11, OnwardsTyped, OnwardsFields DEF Send, Attempt
  <2>2. Claimed(j)' = {}
    BY <1>5, <2>1
  <2>3. \A o \in Op : Slot(o) \in Current(j) => o \in Claimed(j)
    <3>1. run[j].at = "send" /\ run[j].owner \in {"none", "mine"}
      BY <1>1, <1>11 DEF Send, At, ShapeOf, Attempt, Owner
    <3> QED
      BY <3>1, <1>11 DEF Current, Claimed, Slot, Marker, At
  <2>4. Message(Current(j)) /\ UNCHANGED <<slot, blind>>
    BY <1>11 DEF Send
  <2> QED
    BY <1>2, <2>2, <2>3, <2>4, CountedMessage
<1>12. CASE Close(j)
  <2>1. Claimed(j)' = {}
    <3>1. CASE run'[j] = Blank("idle", 0)
      BY <1>5, <3>1 DEF Blank
    <3>2. CASE run'[j] = [run[j] EXCEPT !.at = "summary"]
      <4>1. run'[j].at = "summary" /\ run'[j].named = run[j].named
        BY <1>1, <3>2 DEF Attempt
      <4>2. run[j].named = {}
        BY <1>1, <1>12 DEF Close, At, ShapeOf
      <4> QED
        BY <1>5, <4>1, <4>2
    <3> QED
      BY <1>4, <1>12, <3>1, <3>2 DEF Close
  <2> QED
    BY <1>7, <1>12, <2>1 DEF Close, history
<1>13. ASSUME NEW o \in Op, ClaimKept(j, o) PROVE Counted'
  <2>1. Claimed(j) = run[j].named
    BY <1>1, <1>13, ClaimedAt DEF ClaimKept, At
  <2>2. CASE /\ Free(o) \/ Blindly(o)
             /\ Put(j, [run[j] EXCEPT !.asked = @ \ {o}, !.named = @ \union {o}])
    <3>1. run'[j].at = "summary" /\ run'[j].named = run[j].named \union {o}
      BY <1>1, <1>4, <1>13, <2>2 DEF ClaimKept, At, Attempt
    <3>2. Claimed(j)' = Claimed(j) \union {o}
      BY <1>5, <2>1, <3>1
    <3>3. /\ Credit(o)' >= Credit(o) + 1
          /\ \A p \in Op : Credit(p)' >= Credit(p)
      BY <2>2, ClaimPays
    <3> QED
      BY <1>2, <1>13, <3>2, <3>3, CountedQuiet DEF ClaimKept
  <2>3. CASE Taken(o) /\ Put(j, [run[j] EXCEPT !.asked = @ \ {o}])
    <3>1. run'[j].at = "summary" /\ run'[j].named = run[j].named
      BY <1>1, <1>4, <1>13, <2>3 DEF ClaimKept, At, Attempt
    <3>2. Claimed(j)' = Claimed(j)
      BY <1>5, <2>1, <3>1
    <3> QED
      BY <1>7, <1>13, <2>3, <3>2 DEF ClaimKept, Taken
  <2> QED
    BY <1>13, <2>2, <2>3 DEF ClaimKept, ClaimSlot
<1>14. CASE SendSummary(j)
  <2>1. Claimed(j)' = {}
    BY <1>4, <1>5, <1>14 DEF SendSummary, Blank
  <2>2. CASE Hidden(j) = {}
    BY <1>7, <1>14, <2>1, <2>2 DEF SendSummary
  <2>3. CASE Hidden(j) # {}
    <3>1. Message(Hidden(j)) /\ UNCHANGED <<slot, blind>>
      BY <1>14, <2>3 DEF SendSummary
    <3>2. \A o \in Op : Slot(o) \in Hidden(j) => o \in Claimed(j)
      BY DEF Hidden, Markers, Slots, Slot, Marker, Claimed
    <3> QED
      BY <1>2, <2>1, <3>1, <3>2, CountedMessage
  <2> QED
    BY <2>2, <2>3
<1>15. CASE Fail(j)
  <2>1. Claimed(j)' = {}
    BY <1>1, <1>5, <1>15, RetriedShape DEF Fail
  <2> QED
    BY <1>7, <1>15, <2>1 DEF Fail
<1>16. CASE LoseAnswer(j)
  <2>1. Claimed(j)' = {}
    BY <1>1, <1>5, <1>16, RetriedShape DEF LoseAnswer
  <2> QED
    BY <1>7, <1>16, <2>1 DEF LoseAnswer
<1>17. CASE Die(j)
  <2>1. Claimed(j)' = {}
    BY <1>4, <1>5, <1>17 DEF Die, Blank
  <2> QED
    BY <1>7, <1>17, <2>1 DEF Die
<1>18. ASSUME NEW o \in Op, ClaimTwice(j, o) PROVE Counted'
  <2>1. Claimed(j)' \subseteq Claimed(j)
    <3>1. CASE run[j].at = "write"
      BY <1>4, <1>5, <1>18, <3>1, <1>1, OnwardsTyped, OnwardsFields DEF ClaimTwice, At
    <3>2. CASE run[j].at = "summary"
      <4>1. run'[j].at = "summary" /\ run'[j].named = run[j].named
        BY <1>1, <1>4, <1>18, <3>2 DEF ClaimTwice, At, Attempt
      <4> QED
        BY <1>5, <4>1 DEF Claimed
    <3> QED
      BY <1>18, <3>1, <3>2 DEF ClaimTwice, At
  <2>2. \A p \in Op : Credit(p)' >= Credit(p)
    BY <1>6, <1>18 DEF ClaimTwice, Credit, TypeOK
  <2> QED
    BY <1>2, <1>18, <2>1, <2>2, CountedQuiet DEF ClaimTwice
<1> QED
  BY <1>8, <1>9, <1>10, <1>11, <1>12, <1>13, <1>14, <1>15, <1>16, <1>17, <1>18
     DEF JobStep, Step

LEMMA CountedStep == TypeOK /\ TypeOK' /\ Shape /\ Counted /\ [Next]_vars => Counted'
<1> SUFFICES ASSUME TypeOK, TypeOK', Shape, Counted, [Next]_vars PROVE Counted'
  OBVIOUS
<1>1. CASE \E j \in Job : JobStep(j)
  BY <1>1, CountedJob
<1>2. UNCHANGED run => \A o : Pending(o)' = Pending(o)
  BY DEF Pending, Holders, Claimed, At
<1>3. CASE UNCHANGED <<run, slot, spoken, blind>>
  BY <1>2, <1>3 DEF Counted, Pending
<1>4. ASSUME NEW o \in Op, Expire(o) PROVE Counted'
  <2> SUFFICES ASSUME NEW p \in Op PROVE spoken'[p] + Pending(p)' <= Credit(p)'
    BY DEF Counted, Pending, Credit
  <2>1. Pending(p)' = Pending(p) /\ spoken[p] + Pending(p) <= Credit(p)
    BY <1>2, <1>4, CountedAll DEF Expire
  <2>2. CASE p = o
    <3>1. Holders(o) = {}
      BY <1>4 DEF Expire, Holders
    <3>2. Pending(p) = 0
      BY <2>2, <3>1, FS_EmptySet DEF Pending
    <3>3. spoken'[p] = 0 /\ blind'[p] = 0
      BY <1>4, <2>2 DEF Expire, TypeOK
    <3> QED
      BY <2>1, <3>2, <3>3 DEF Credit
  <2>3. CASE p # o
    BY <1>4, <2>1, <2>3 DEF Expire, Credit, TypeOK
  <2> QED
    BY <2>2, <2>3
<1> QED
  BY <1>1, <1>3, <1>4
     DEF Next, JobStep, Enter, EnterMine, Delete, vars, history

----------------------------------------------------------------------------
(***************************************************************************)
(* NobodyUnheard.  What a job holds it still has after its step, or has    *)
(* told, or has lost.                                                      *)
(***************************************************************************)
Hand(j) == Current(j) \union Hidden(j)
Told == heard \union dropped \union stranded

LEMMA HandStays ==
  ASSUME NEW j \in Job,
         \A k \in Job \ {j} : run'[k] = run[k],
         NobodyUnheard,
         Silenced' \subseteq Silenced \union Hand(j)' \union Told',
         Hand(j) \subseteq Hand(j)' \union Told',
         Told \subseteq Told'
  PROVE  NobodyUnheard'
<1>1. \A k \in Job \ {j} : Hand(k)' = Hand(k)
  BY DEF Hand, Current, Hidden, Markers, At
<1>2. InHand = UNION {Hand(k) : k \in Job}
  BY DEF InHand, Hand
<1>3. InHand' = UNION {Hand(k)' : k \in Job}
  BY DEF InHand, Hand
<1>4. InHand \subseteq Hand(j) \union InHand'
  BY <1>1, <1>2, <1>3
<1>5. Hand(j)' \subseteq InHand'
  BY <1>3
<1>6. Silenced \subseteq Told \union InHand
  BY DEF NobodyUnheard, Told
<1>7. Silenced' \subseteq Told' \union InHand'
  BY <1>4, <1>5, <1>6
<1> QED
  BY <1>7 DEF NobodyUnheard, Told

LEMMA UnheardInit == Init => NobodyUnheard
  BY DEF Init, NobodyUnheard, Silenced, Slots

\* What is silenced besides when one activity is written, or one slot claimed.
LEMMA SilencedSame ==
  ASSUME UNCHANGED <<act, slot>> PROVE Silenced' = Silenced
  BY DEF Silenced, Slots

LEMMA SilencedWritten ==
  ASSUME TypeOK, NEW o \in Op, NEW owner \in Owner,
         act' = [act EXCEPT ![o] = Written(o, owner)]
  PROVE  \A s \in Silenced' :
           \/ s \in Silenced
           \/ owner = "mine" /\ s = Marker(o)
           \/ \E p \in slot' : s = Slot(p) /\ p \notin slot
  BY DEF Silenced, Slots, Written, TypeOK, Owner

LEMMA ClaimAdds ==
  ASSUME NEW o \in Op, Free(o) \/ Blindly(o) \/ Taken(o)
  PROVE  /\ slot' \subseteq slot \union {o}
         /\ Taken(o) => slot' = slot
  BY DEF Free, Blindly, Taken

LEMMA UnheardJob ==
  ASSUME TypeOK, Shape, NobodyUnheard, NEW j \in Job, JobStep(j)
  PROVE  NobodyUnheard'
<1>1. run \in [Job -> Attempt] /\ run[j] \in Attempt /\ ShapeOf(run[j])
  BY ShapeOfAll DEF TypeOK
<1>2. ShapeOf(run'[j]) /\ \A k \in Job \ {j} : run'[k] = run[k]
  BY ShapeJob
<1>3. \A a : Put(j, a) => run'[j] = a
  BY <1>1 DEF Put
<1> SUFFICES /\ Silenced' \subseteq Silenced \union Hand(j)' \union Told'
             /\ Hand(j) \subseteq Hand(j)' \union Told'
             /\ Told \subseteq Told'
  BY <1>2, HandStays
<1>4. run[j].at # "send" => Current(j) = {}
  BY DEF Current, At
<1>5. run[j].at # "summary" => Hidden(j) = Markers(j)
  BY <1>1 DEF ShapeOf, Hidden, Slots
<1>6. run[j].kept \subseteq run'[j].kept => Markers(j) \subseteq Hand(j)'
  BY DEF Markers, Hand, Hidden
<1>7. CASE Poll(j)
  <2>1. Hand(j) = {}
    BY <1>1, <1>4, <1>5, <1>7 DEF Poll, At, ShapeOf, Hand, Markers
  <2>2. Silenced' = Silenced
    BY <1>7, SilencedSame DEF Poll, crm
  <2> QED
    BY <1>7, <2>1, <2>2 DEF Poll, history, Told
<1>8. CASE Look(j)
  <2>1. Hand(j) = Markers(j)
    BY <1>4, <1>5, <1>8 DEF Look, At, Hand
  <2>2. run'[j].kept = run[j].kept
    BY <1>1, <1>3, <1>8 DEF Look, Attempt
  <2>3. Silenced' = Silenced
    BY <1>8, SilencedSame DEF Look, crm
  <2> QED
    BY <1>6, <1>8, <2>1, <2>2, <2>3 DEF Look, history, Told
<1>9. CASE Write(j)
  <2>1. Hand(j) = Markers(j)
    BY <1>4, <1>5, <1>9 DEF Write, At, Hand
  <2>2. PICK o \in Op : o = run[j].op
    BY <1>1, <1>9 DEF Write, At, ShapeOf
  <2>3. run[j].owner \in Owner
    BY <1>1 DEF Attempt
  <2>4. act' = [act EXCEPT ![o] = Written(o, run[j].owner)]
    BY <1>9, <2>2 DEF Write
  <2>5. \A s \in Silenced' :
          \/ s \in Silenced
          \/ run[j].owner = "mine" /\ s = Marker(o)
          \/ \E p \in slot' : s = Slot(p) /\ p \notin slot
    BY <2>3, <2>4, SilencedWritten
  <2>6. Told' = Told
    BY <1>9 DEF Write, Told
  <2>7. /\ Onwards(run[j]) \in Attempt
        /\ Onwards(run[j]).kept = run[j].kept
    BY <1>1, OnwardsTyped, OnwardsFields
  <2>8. CASE Pass(j)
    <3>1. run[j].kept = run'[j].kept /\ slot' = slot /\ run[j].owner # "mine"
      BY <1>3, <2>7, <2>8 DEF Pass
    <3> QED
      BY <1>6, <2>1, <2>5, <2>6, <3>1
  <2>9. CASE Keep(j)
    <3>1. slot' = slot /\ run[j].kept \subseteq run'[j].kept
      BY <1>3, <2>7, <2>9 DEF Keep, Attempt
    <3>2. run[j].owner = "mine" => Marker(o) \in Hand(j)'
      <4>1. run[j].owner = "mine" => o \in run'[j].kept
        BY <1>3, <2>2, <2>7, <2>9 DEF Keep, Attempt
      <4> QED
        BY <4>1 DEF Hand, Hidden, Markers
    <3> QED
      BY <1>6, <2>1, <2>5, <2>6, <3>1, <3>2
  <2>10. CASE Speak(j) /\ run[j].owner = "mine"
    <3>1. /\ slot' = slot /\ run[j].kept = run'[j].kept
          /\ run'[j].at = "send" /\ run'[j].owner = "mine" /\ run'[j].op = o
      BY <1>1, <1>3, <2>2, <2>10 DEF Speak, Attempt
    <3>2. Marker(o) \in Hand(j)'
      BY <3>1 DEF Hand, Current, At
    <3> QED
      BY <1>6, <2>1, <2>5, <2>6, <3>1, <3>2
  <2>11. CASE Speak(j) /\ run[j].owner # "mine"
    <3>1. CASE /\ Free(o) \/ Blindly(o)
               /\ Put(j, [run[j] EXCEPT !.at = "send"])
      <4>1. /\ run[j].kept = run'[j].kept /\ run'[j].at = "send"
            /\ run'[j].owner # "mine" /\ run'[j].op = o
        BY <1>1, <1>3, <2>2, <2>11, <3>1 DEF Attempt
      <4>2. Slot(o) \in Hand(j)'
        BY <4>1 DEF Hand, Current, At
      <4>3. slot' \subseteq slot \union {o}
        BY <3>1, ClaimAdds
      <4> QED
        BY <1>6, <2>1, <2>5, <2>6, <2>11, <4>1, <4>2, <4>3
    <3>2. CASE Taken(o) /\ Put(j, Onwards(run[j]))
      <4>1. run[j].kept = run'[j].kept /\ slot' = slot
        BY <1>3, <2>7, <3>2 DEF Taken
      <4> QED
        BY <1>6, <2>1, <2>5, <2>6, <2>11, <4>1
    <3> QED
      BY <2>2, <2>11, <3>1, <3>2 DEF Speak, ClaimSlot
  <2> QED
    BY <1>9, <2>8, <2>9, <2>10, <2>11 DEF Write
<1>10. CASE Send(j)
  <2>1. run'[j].kept = run[j].kept
    BY <1>1, <1>3, <1>10, OnwardsTyped, OnwardsFields DEF Send, Attempt
  <2>2. Hidden(j) \subseteq Hand(j)'
    BY <1>5, <1>6, <1>10, <2>1 DEF Send, At
  <2>3. Current(j) \subseteq Told' /\ Told \subseteq Told'
    BY <1>10 DEF Send, Message, Told
  <2>4. Silenced' = Silenced
    BY <1>10, SilencedSame DEF Send, crm
  <2> QED
    BY <2>2, <2>3, <2>4 DEF Hand
<1>11. CASE Close(j)
  <2>1. Hand(j) = Markers(j)
    BY <1>4, <1>5, <1>11 DEF Close, At, Hand
  <2>2. Markers(j) = {} \/ run'[j].kept = run[j].kept
    BY <1>1, <1>3, <1>11 DEF Close, Markers, Attempt
  <2>3. Silenced' = Silenced
    BY <1>11, SilencedSame DEF Close, crm
  <2> QED
    BY <1>6, <1>11, <2>1, <2>2, <2>3 DEF Close, history, Told
<1>12. ASSUME NEW o \in Op, ClaimKept(j, o)
       PROVE  /\ Silenced' \subseteq Silenced \union Hand(j)' \union Told'
              /\ Hand(j) \subseteq Hand(j)' \union Told'
              /\ Told \subseteq Told'
  <2>1. Told' = Told /\ act' = act
    BY <1>12 DEF ClaimKept, Told, crm
  <2>2. Current(j) = {}
    BY <1>4, <1>12 DEF ClaimKept, At
  <2>3. run'[j].kept = run[j].kept /\ run[j].named \subseteq run'[j].named
    <3>1. CASE Put(j, [run[j] EXCEPT !.asked = @ \ {o}, !.named = @ \union {o}])
      BY <1>1, <3>1 DEF Put, Attempt
    <3>2. CASE Put(j, [run[j] EXCEPT !.asked = @ \ {o}])
      BY <1>1, <3>2 DEF Put, Attempt
    <3> QED
      BY <1>12, <3>1, <3>2 DEF ClaimKept, ClaimSlot
  <2>4. Hand(j) \subseteq Hand(j)'
    BY <2>2, <2>3 DEF Hand, Hidden, Markers, Slots
  <2>5. \/ slot' = slot
        \/ slot' \subseteq slot \union {o} /\ o \in run'[j].named
    <3>1. CASE /\ Free(o) \/ Blindly(o)
               /\ Put(j, [run[j] EXCEPT !.asked = @ \ {o}, !.named = @ \union {o}])
      <4>1. o \in run'[j].named
        BY <1>1, <3>1 DEF Put, Attempt
      <4>2. slot' \subseteq slot \union {o}
        BY <3>1, ClaimAdds
      <4> QED
        BY <4>1, <4>2
    <3>2. CASE Taken(o)
      BY <3>2, ClaimAdds
    <3> QED
      BY <1>12, <3>1, <3>2 DEF ClaimKept, ClaimSlot
  <2>6. Slots(run'[j].named) \subseteq Hand(j)'
    BY DEF Hand, Hidden, Slots
  <2>7. Silenced' \subseteq Silenced \union Slots(run'[j].named)
    BY <2>1, <2>5 DEF Silenced, Slots
  <2> QED
    BY <2>1, <2>4, <2>6, <2>7
<1>13. CASE SendSummary(j)
  <2>1. Current(j) = {}
    BY <1>4, <1>13 DEF SendSummary, At
  <2>2. Hidden(j) \subseteq Told' /\ Told \subseteq Told'
    BY <1>13 DEF SendSummary, Message, Told
  <2>3. Silenced' = Silenced
    BY <1>13, SilencedSame DEF SendSummary, crm
  <2> QED
    BY <2>1, <2>2, <2>3 DEF Hand
<1>14. CASE Fail(j)
  <2>1. Hand(j) = Markers(j)
    BY <1>4, <1>5, <1>14 DEF Fail, At, Hand
  <2>2. Markers(j) \subseteq Told' /\ Told \subseteq Told'
    BY <1>14 DEF Fail, Told
  <2>3. Silenced' = Silenced
    BY <1>14, SilencedSame DEF Fail, crm
  <2> QED
    BY <2>1, <2>2, <2>3
<1>15. CASE LoseAnswer(j)
  <2>1. Hand(j) = Markers(j)
    BY <1>4, <1>5, <1>15 DEF LoseAnswer, At, Hand
  <2>2. PICK o \in Op : o = run[j].op
    BY <1>1, <1>15 DEF LoseAnswer, At, ShapeOf
  <2>3. Markers(j) \subseteq Told' /\ Told \subseteq Told' /\ Marker(o) \in Told'
    BY <1>15, <2>2 DEF LoseAnswer, Told
  <2>4. run[j].owner \in Owner
    BY <1>1 DEF Attempt
  <2>5. act' = [act EXCEPT ![o] = Written(o, run[j].owner)] /\ slot' = slot
    BY <1>15, <2>2 DEF LoseAnswer
  <2>6. Silenced' \subseteq Silenced \union {Marker(o)}
    BY <2>4, <2>5, SilencedWritten
  <2> QED
    BY <2>1, <2>3, <2>6
<1>16. CASE Die(j)
  <2>1. Hand(j) \subseteq Told' /\ Told \subseteq Told'
    BY <1>16 DEF Die, Told, Hand
  <2>2. Silenced' = Silenced
    BY <1>16, SilencedSame DEF Die, crm
  <2> QED
    BY <2>1, <2>2
<1>17. ASSUME NEW o \in Op, ClaimTwice(j, o)
       PROVE  /\ Silenced' \subseteq Silenced \union Hand(j)' \union Told'
              /\ Hand(j) \subseteq Hand(j)' \union Told'
              /\ Told \subseteq Told'
  <2>1. run[j].kept = run'[j].kept /\ run[j].named = run'[j].named
    BY <1>1, <1>3, <1>17, OnwardsFields DEF ClaimTwice, Attempt
  <2>2. run[j].at # "send"
    BY <1>17 DEF ClaimTwice, At
  <2>3. Hand(j) \subseteq Hand(j)'
    BY <2>1, <2>2 DEF Hand, Current, Hidden, Markers, At
  <2>4. /\ Silenced' \subseteq Silenced \union {Slot(o)}
        /\ Slot(o) \in Told' /\ Told \subseteq Told'
    BY <1>17 DEF ClaimTwice, Silenced, Slots, Told, crm
  <2> QED
    BY <2>3, <2>4
<1> QED
  BY <1>7, <1>8, <1>9, <1>10, <1>11, <1>12, <1>13, <1>14, <1>15, <1>16, <1>17
     DEF JobStep, Step

LEMMA UnheardStep == TypeOK /\ Shape /\ NobodyUnheard /\ [Next]_vars => NobodyUnheard'
<1> SUFFICES ASSUME TypeOK, Shape, NobodyUnheard, [Next]_vars PROVE NobodyUnheard'
  OBVIOUS
<1>1. CASE \E j \in Job : JobStep(j)
  BY <1>1, UnheardJob
<1>2. UNCHANGED run => InHand' = InHand
  BY DEF InHand, Current, Hidden, Markers, At
<1>3. CASE UNCHANGED <<act, slot, run, heard, dropped, stranded>>
  BY <1>2, <1>3, SilencedSame DEF NobodyUnheard
<1>4. ASSUME NEW o \in Op, Delete(o) PROVE NobodyUnheard'
  <2>1. Silenced' \subseteq Silenced \ {Marker(o)}
    BY <1>4 DEF Delete, Silenced, Slots, Slot, Marker, TypeOK
  <2> QED
    BY <1>2, <1>4, <2>1 DEF Delete, NobodyUnheard
<1>5. ASSUME NEW o \in Op, Expire(o) PROVE NobodyUnheard'
  <2>1. Silenced' \subseteq Silenced \ {Slot(o)}
    BY <1>5 DEF Expire, Silenced, Slots, Slot, Marker, crm
  <2> QED
    BY <1>2, <1>5, <2>1 DEF Expire, NobodyUnheard
<1> QED
  BY <1>1, <1>3, <1>4, <1>5 DEF Next, JobStep, Enter, EnterMine, vars, crm, history

----------------------------------------------------------------------------
(***************************************************************************)
(* The inductive invariant and the theorems.                               *)
(***************************************************************************)
IInv == TypeOK /\ Shape /\ Counted /\ NobodyUnheard

LEMMA InvariantHolds == Spec => []IInv
<1>1. Init => IInv
  BY TypeInit, ShapeInit, CountedInit, UnheardInit DEF IInv
<1>2. IInv /\ [Next]_vars => IInv'
  BY TypeStep, ShapeStep, CountedStep, UnheardStep DEF IInv
<1> QED
  BY <1>1, <1>2, PTL DEF Spec

\* Every state is of its type, whatever the number of operations, jobs,
\* attempts and notices (the state of handlers.ts:886 and of the slots).
THEOREM TypeCorrect == Spec => []TypeOK
  BY InvariantHolds, PTL DEF IInv

\* In the life of its slot an unrecorded operation is told once, whatever runs
\* overlap, fail or die; only a Redis that let a message through adds to it
\* (claimUnmatchedNotice, handlers.ts:1008).
THEOREM TellsOnce == Spec => []ToldOnce
<1>1. IInv => ToldOnce
  <2> SUFFICES ASSUME IInv, NEW o \in Op PROVE spoken[o] <= 1 + blind[o]
    BY DEF ToldOnce
  <2>1. Pending(o) \in Nat
    <3>1. Holders(o) \subseteq Job
      BY DEF Holders
    <3> QED
      BY <3>1, FS_Subset, FS_CardinalityType DEF Pending
  <2>2. spoken[o] + Pending(o) <= Credit(o)
    BY CountedAll DEF IInv
  <2> QED
    BY <2>1, <2>2 DEF IInv, TypeOK, Credit
<1> QED
  BY <1>1, InvariantHolds, PTL

\* Whoever a marker or a slot silences was told, is about to be, lost the
\* message to an accident, or waited for a summary that never came
\* (handlers.ts:1168).
THEOREM NobodyIsUnheard == Spec => []NobodyUnheard
  BY InvariantHolds, PTL DEF IInv

----------------------------------------------------------------------------
(***************************************************************************)
(* The health check.  The two modules share no constant and no variable:   *)
(* AlertSpec says nothing of the state of Unmatched, nor the other way.    *)
(***************************************************************************)
HIDE UnmatchedAssumption
USE AlertsAssumption

\* The world and the flags of the timer are of their types.
WorldTyped ==
  /\ broken \subseteq Source /\ dark \subseteq Source
  /\ due \in BOOLEAN /\ fresh \in BOOLEAN
  /\ doubt \subseteq recovered
  /\ lost \in 0..MaxLost /\ restarts \in 0..MaxRestarts

\* So are what the process remembers and what the channel has heard.
Typed ==
  /\ announced \in [Episode -> 0..Never]
  /\ awaiting \subseteq Episode
  /\ opened \subseteq Episode /\ recovered \subseteq Episode
  /\ word \in [Episode -> Word]
  /\ quiet \in [Episode -> 0..Floor]
  /\ blurred \subseteq Episode

\* What the process remembers of an episode, and what the channel has heard.
Age(e) == IF announced[e] < Floor THEN announced[e] ELSE Floor
Heard(e) == word[e] # "none"

(***************************************************************************)
(* The memory of the process and the channel agree: what is awaited, or is *)
(* not in doubt, was said as long ago as announcedAtMs tells; an episode   *)
(* is down in the channel exactly when its recovery is awaited; and the    *)
(* messages a check has still to send fit what was said before them.       *)
(***************************************************************************)
EpisodeInv(e) ==
  /\ quiet[e] < Floor \/ e \in blurred \/ e \in awaiting => Heard(e)
  /\ e \in awaiting \/ e \notin blurred => quiet[e] = Age(e)
  /\ e \notin blurred => (word[e] = "down" <=> e \in awaiting)
  /\ e \in opened => e \notin awaiting /\ announced[e] >= Floor
  /\ e \in recovered => e \in awaiting
MemoryInv == Typed /\ \A e \in Episode : EpisodeInv(e)

LEMMA WorldStart == AlertInit => WorldTyped
  BY DEF AlertInit, WorldTyped

LEMMA WorldStep == WorldTyped /\ [AlertNext]_alertVars => WorldTyped'
<1> SUFFICES ASSUME WorldTyped, [AlertNext]_alertVars PROVE WorldTyped'
  OBVIOUS
<1>1. ASSUME NEW s \in Source, Change(s) \/ Darken(s) PROVE WorldTyped'
  BY <1>1 DEF Change, Darken, Toggled, WorldTyped
<1>2. CASE Clock
  BY <1>2 DEF Clock, world, WorldTyped
<1>3. CASE Check
  BY <1>3 DEF Check, world, WorldTyped
<1>4. ASSUME NEW e \in Episode, Announce(e) \/ Recover(e) PROVE WorldTyped'
  <2>1. lost' \in {lost, lost + 1} /\ lost' \in 0..MaxLost
    BY <1>4 DEF Announce, Recover, Confirmed, Unconfirmed, WorldTyped
  <2>2. UNCHANGED <<world, due, fresh, restarts>> /\ doubt' \subseteq recovered'
    BY <1>4 DEF Announce, Recover, WorldTyped
  <2> QED
    BY <2>1, <2>2 DEF world, WorldTyped
<1>5. CASE Restart
  BY <1>5 DEF Restart, world, WorldTyped
<1>6. CASE UNCHANGED alertVars
  BY <1>6 DEF alertVars, world, WorldTyped
<1> QED
  BY <1>1, <1>2, <1>3, <1>4, <1>5, <1>6 DEF AlertNext

LEMMA MemoryStart == AlertInit => MemoryInv
<1> SUFFICES ASSUME AlertInit PROVE MemoryInv
  OBVIOUS
<1>1. Typed
  BY DEF AlertInit, Typed, Never, Word
<1>2. \A e \in Episode : EpisodeInv(e)
  BY DEF AlertInit, EpisodeInv, Heard, Age, Never
<1> QED
  BY <1>1, <1>2 DEF MemoryInv

LEMMA MemoryAside ==
  ASSUME MemoryInv, UNCHANGED <<memory, opened, recovered, said>> PROVE MemoryInv'
  BY DEF MemoryInv, Typed, EpisodeInv, Heard, Age, memory, said

\* One episode is told something, the others are let be.
LEMMA OneTold ==
  ASSUME MemoryInv, NEW e \in Episode,
         announced' \in [Episode -> 0..Never], word' \in [Episode -> Word],
         quiet' \in [Episode -> 0..Floor],
         \A f \in Episode \ {e} :
           /\ announced'[f] = announced[f] /\ word'[f] = word[f] /\ quiet'[f] = quiet[f]
           /\ f \in awaiting' <=> f \in awaiting
           /\ f \in blurred' <=> f \in blurred,
         awaiting' \subseteq Episode, blurred' \subseteq Episode,
         opened' \subseteq opened, recovered' \subseteq recovered,
         EpisodeInv(e)'
  PROVE  MemoryInv'
<1>1. Typed'
  BY DEF MemoryInv, Typed
<1>2. ASSUME NEW f \in Episode \ {e} PROVE EpisodeInv(f)'
  BY <1>2 DEF MemoryInv, EpisodeInv, Heard, Age
<1> QED
  BY <1>1, <1>2 DEF MemoryInv

LEMMA MemoryStep == WorldTyped /\ MemoryInv /\ [AlertNext]_alertVars => MemoryInv'
<1> SUFFICES ASSUME WorldTyped, MemoryInv, [AlertNext]_alertVars PROVE MemoryInv'
  OBVIOUS
<1>0. Typed /\ \A e \in Episode : EpisodeInv(e)
  BY DEF MemoryInv
<1>1. ASSUME NEW s \in Source, Change(s) \/ Darken(s) PROVE MemoryInv'
  BY <1>1, MemoryAside DEF Change, Darken
<1>2. CASE Clock
  <2>1. /\ \A e \in Episode : announced'[e] = Older(announced[e]) /\ quiet'[e] = Older(quiet[e])
        /\ UNCHANGED <<awaiting, opened, recovered, word, blurred>>
    BY <1>2 DEF Clock
  <2>2. \A a \in 0..Never : Older(a) \in 0..Never /\ (a <= Floor => Older(a) <= Floor)
    BY DEF Older, Never
  <2>3. Typed'
    <3>1. /\ announced' = [e \in Episode |-> Older(announced[e])]
          /\ quiet' = [e \in Episode |-> Older(quiet[e])]
      BY <1>2 DEF Clock
    <3>2. announced' \in [Episode -> 0..Never] /\ quiet' \in [Episode -> 0..Floor]
      BY <1>0, <2>2, <3>1 DEF Typed, Older
    <3> QED
      BY <1>0, <2>1, <3>2 DEF Typed
  <2>4. ASSUME NEW e \in Episode PROVE EpisodeInv(e)'
    <3>1. announced[e] \in 0..Never /\ quiet[e] \in 0..Floor
      BY <1>0 DEF Typed
    <3> QED
      BY <1>0, <2>1, <3>1 DEF EpisodeInv, Heard, Age, Older, Never
  <2> QED
    BY <2>3, <2>4 DEF MemoryInv
<1>3. CASE Check
  <2>1. /\ \A e \in Episode : announced'[e] = Pruned(e)
        /\ opened' = {e \in Alerting : Opens(e)} /\ recovered' = awaiting \ Alerting
        /\ UNCHANGED <<awaiting, word, quiet, blurred>>
    BY <1>3 DEF Check, said
  <2>2. Alerting \subseteq Episode
    <3>1. {Trouble(s) : s \in {t \in broken : ~Silent(t)}} \subseteq {Trouble(s) : s \in Source}
      BY DEF WorldTyped
    <3>2. {Unreadable(q) : q \in Queue \intersect dark} \subseteq {Unreadable(q) : q \in Queue}
      OBVIOUS
    <3> QED
      BY <3>1, <3>2 DEF Alerting, Episode
  <2>3. Typed'
    BY <1>0, <1>3, <2>1, <2>2 DEF Typed, Check, Pruned, Never
  <2>4. ASSUME NEW e \in Episode PROVE EpisodeInv(e)'
    <3>1. announced[e] \in 0..Never /\ quiet[e] \in 0..Floor
      BY <1>0 DEF Typed
    <3>2. Age(e)' = Age(e)
      BY <2>1, <3>1 DEF Age, Pruned, Never
    <3>3. e \in opened' => e \notin awaiting /\ announced'[e] >= Floor
      BY <2>1, <3>1 DEF Opens, Pruned
    <3> QED
      BY <1>0, <2>1, <3>2, <3>3 DEF EpisodeInv, Heard
  <2> QED
    BY <2>3, <2>4 DEF MemoryInv
<1>4. ASSUME NEW e \in Episode, Announce(e) PROVE MemoryInv'
  <2>1. /\ opened' = opened \ {e} /\ UNCHANGED recovered
        /\ e \notin awaiting /\ announced[e] >= Floor /\ e \notin recovered
    BY <1>0, <1>4 DEF Announce, EpisodeInv
  <2>2. CASE /\ Confirmed(e, "down") /\ announced' = [announced EXCEPT ![e] = 0]
             /\ awaiting' = awaiting \union {e}
    <3>1. word' = [word EXCEPT ![e] = "down"] /\ quiet' = [quiet EXCEPT ![e] = 0]
          /\ blurred' = blurred \ {e}
      BY <2>2 DEF Confirmed, QuietAfter
    <3>2. EpisodeInv(e)'
      BY <1>0, <2>1, <2>2, <3>1 DEF Typed, EpisodeInv, Heard, Age
    <3> QED
      BY <1>0, <2>1, <2>2, <3>1, <3>2, OneTold DEF Typed, Word, Never
  <2>3. CASE Unconfirmed(e, "down")
    <3>1. CASE UNCHANGED said
      <4>1. EpisodeInv(e)'
        BY <1>0, <2>1, <2>3, <3>1 DEF Unconfirmed, memory, said, EpisodeInv, Heard, Age
      <4> QED
        BY <1>0, <2>1, <2>3, <3>1, <4>1, OneTold DEF Unconfirmed, memory, said, Typed
    <3>2. CASE /\ word' = [word EXCEPT ![e] = "down"] /\ quiet' = QuietAfter(e, "down")
               /\ blurred' = blurred \union {e}
      <4>1. quiet' = [quiet EXCEPT ![e] = 0]
        BY <3>2 DEF QuietAfter
      <4>2. EpisodeInv(e)'
        BY <1>0, <2>1, <2>3, <3>2, <4>1 DEF Unconfirmed, memory, Typed, EpisodeInv, Heard, Age
      <4> QED
        BY <1>0, <2>1, <2>3, <3>2, <4>1, <4>2, OneTold DEF Unconfirmed, memory, Typed, Word
    <3> QED
      BY <2>3, <3>1, <3>2 DEF Unconfirmed
  <2> QED
    BY <1>4, <2>2, <2>3 DEF Announce
<1>5. ASSUME NEW e \in Episode, Recover(e) PROVE MemoryInv'
  <2>1. /\ recovered' = recovered \ {e} /\ UNCHANGED opened /\ opened = {} /\ e \in awaiting
    BY <1>0, <1>5 DEF Recover, EpisodeInv
  <2>2. CASE /\ Confirmed(e, "up") /\ awaiting' = awaiting \ {e} /\ announced' = announced
    <3>1. word' = [word EXCEPT ![e] = "up"] /\ quiet' = quiet /\ blurred' = blurred \ {e}
      BY <2>2 DEF Confirmed, QuietAfter
    <3>2. EpisodeInv(e)'
      BY <1>0, <2>1, <2>2, <3>1 DEF Typed, EpisodeInv, Heard, Age
    <3> QED
      BY <1>0, <2>1, <2>2, <3>1, <3>2, OneTold DEF Typed, Word
  <2>3. CASE Unconfirmed(e, "up")
    <3>1. CASE UNCHANGED said
      <4>1. EpisodeInv(e)'
        BY <1>0, <2>1, <2>3, <3>1 DEF Unconfirmed, memory, said, EpisodeInv, Heard, Age
      <4> QED
        BY <1>0, <2>1, <2>3, <3>1, <4>1, OneTold DEF Unconfirmed, memory, said, Typed
    <3>2. CASE /\ word' = [word EXCEPT ![e] = "up"] /\ quiet' = QuietAfter(e, "up")
               /\ blurred' = blurred \union {e}
      <4>1. quiet' = quiet
        BY <3>2 DEF QuietAfter
      <4>2. EpisodeInv(e)'
        BY <1>0, <2>1, <2>3, <3>2, <4>1 DEF Unconfirmed, memory, Typed, EpisodeInv, Heard, Age
      <4> QED
        BY <1>0, <2>1, <2>3, <3>2, <4>1, <4>2, OneTold DEF Unconfirmed, memory, Typed, Word
    <3> QED
      BY <2>3, <3>1, <3>2 DEF Unconfirmed
  <2> QED
    BY <1>5, <2>2, <2>3 DEF Recover
<1>6. CASE Restart
  <2>1. /\ announced' = [e \in Episode |-> Never] /\ awaiting' = {} /\ opened' = {}
        /\ recovered' = {} /\ UNCHANGED <<word, quiet>>
        /\ blurred' = blurred \union {e \in Episode : word[e] = "down" \/ quiet[e] < Floor}
    BY <1>6 DEF Restart
  <2>2. Typed'
    BY <1>0, <2>1 DEF Typed, Never
  <2>3. ASSUME NEW e \in Episode PROVE EpisodeInv(e)'
    <3>1. quiet[e] \in 0..Floor /\ Age(e)' = Floor
      BY <1>0, <2>1 DEF Typed, Age, Never
    <3> QED
      BY <1>0, <2>1, <3>1 DEF EpisodeInv, Heard
  <2> QED
    BY <2>2, <2>3 DEF MemoryInv
<1>7. CASE UNCHANGED alertVars
  BY <1>7, MemoryAside DEF alertVars
<1> QED
  BY <1>1, <1>2, <1>3, <1>4, <1>5, <1>6, <1>7 DEF AlertNext

\* What one step may say of an episode.
Fits(e) ==
  /\ word'[e] = "up" => word[e] # "none"
  /\ quiet'[e] < quiet[e] => e \in blurred \/ (word[e] # "down" /\ quiet[e] = Floor)

LEMMA StepFits == ASSUME MemoryInv, [AlertNext]_alertVars, NEW e \in Episode PROVE Fits(e)
<1>0. Typed /\ EpisodeInv(e) /\ quiet[e] \in 0..Floor /\ announced[e] \in 0..Never
  BY DEF MemoryInv, Typed
<1>1. ASSUME UNCHANGED word, quiet'[e] \in {quiet[e], Older(quiet[e])} PROVE Fits(e)
  BY <1>0, <1>1 DEF Fits, Older
<1>2. ASSUME NEW f \in Episode, Announce(f) PROVE Fits(e)
  <2>1. CASE UNCHANGED said
    BY <1>1, <2>1 DEF said
  <2>2. CASE /\ word' = [word EXCEPT ![f] = "down"] /\ quiet' = [quiet EXCEPT ![f] = 0]
    <3>1. f = e => e \in blurred \/ (word[e] # "down" /\ quiet[e] = Floor)
      BY <1>0, <1>2 DEF Announce, EpisodeInv, Age
    <3> QED
      BY <1>0, <2>2, <3>1 DEF Typed, Fits
  <2> QED
    BY <1>2, <2>1, <2>2 DEF Announce, Confirmed, Unconfirmed, QuietAfter
<1>3. ASSUME NEW f \in Episode, Recover(f) PROVE Fits(e)
  <2>1. CASE UNCHANGED said
    BY <1>1, <2>1 DEF said
  <2>2. CASE word' = [word EXCEPT ![f] = "up"] /\ quiet' = quiet
    <3>1. f = e => word[e] # "none"
      BY <1>0, <1>3 DEF Recover, EpisodeInv, Heard
    <3> QED
      BY <1>0, <2>2, <3>1 DEF Typed, Fits
  <2> QED
    BY <1>3, <2>1, <2>2 DEF Recover, Confirmed, Unconfirmed, QuietAfter
<1>4. CASE Clock
  BY <1>1, <1>4 DEF Clock
<1>5. ASSUME UNCHANGED <<word, quiet>> PROVE Fits(e)
  BY <1>1, <1>5
<1>6. ASSUME (\E s \in Source : Change(s) \/ Darken(s)) \/ Check \/ Restart \/ UNCHANGED alertVars
      PROVE  Fits(e)
  BY <1>5, <1>6 DEF Change, Darken, Check, Restart, alertVars, said
<1> QED
  BY <1>2, <1>3, <1>4, <1>6 DEF AlertNext

LEMMA AlertsInvariant == AlertSpec => [](WorldTyped /\ MemoryInv)
  BY WorldStart, WorldStep, MemoryStart, MemoryStep, PTL DEF AlertSpec

\* The state of the check is of its type, and what it awaits has been announced.
THEOREM AlertTypeCorrect == AlertSpec => []AlertTypeOK
<1>1. WorldTyped /\ MemoryInv => AlertTypeOK
  <2> SUFFICES ASSUME WorldTyped, MemoryInv PROVE AlertTypeOK
    OBVIOUS
  <2>1. Typed /\ \A e \in Episode : EpisodeInv(e)
    BY DEF MemoryInv
  <2>2. awaiting \subseteq {e \in Episode : word[e] = "down" \/ e \in blurred}
    BY <2>1 DEF Typed, EpisodeInv
  <2>3. recovered \subseteq awaiting
    BY <2>1 DEF EpisodeInv, Typed
  <2> QED
    BY <2>1, <2>2, <2>3 DEF AlertTypeOK, WorldTyped, Typed
<1> QED
  BY <1>1, AlertsInvariant, PTL

\* Of an episode the channel hears a breakage and a recovery by turns, never two
\* breakages within MIN_REANNOUNCE_MS and never the recovery of what it was not
\* told of, whatever flaps, fails to be sent, goes dark or restarts; only an
\* episode whose last word the process does not know may be said twice.
THEOREM EachIsSaidOnce == AlertSpec => SaidOnce
<1>1. MemoryInv /\ [AlertNext]_alertVars => \A e \in Episode : Fits(e)
  BY StepFits
<1>2. (\A e \in Episode : Fits(e)) =>
        \A e \in Episode :
          /\ word'[e] = "up" => word[e] # "none"
          /\ quiet'[e] < quiet[e] => e \in blurred \/ (word[e] # "down" /\ quiet[e] = Floor)
  BY DEF Fits
<1> QED
  BY <1>1, <1>2, AlertsInvariant, PTL DEF AlertSpec, SaidOnce
=============================================================================
