---------------------------- MODULE Portal_proof ----------------------------
(***************************************************************************)
(* Theorems about the life of a portal, for any number of events, faults,  *)
(* refreshes and refreshers, whatever the settings.                        *)
(***************************************************************************)
EXTENDS Portal, SequenceTheorems, TLAPS

USE PortalAssumption

----------------------------------------------------------------------------
(***************************************************************************)
(* Types.                                                                  *)
(***************************************************************************)
Event == {"none", "sent", "lost", "verified", "queued", "active", "delayed", "done", "failed"}
Doing == [at: {"idle", "check", "write", "clear", "purge"}, ts: 0..MaxTime,
          step: {1, 2}, seen: Pair]
EventOK == ev \in [Time -> Event] /\ tries \in [Time -> Nat] /\ queue \in Seq(Time)
ProcOK ==
  /\ proc \in [Proc -> Doing]
  /\ \A p \in Proc : proc[p].at # "idle" => proc[p].ts \in Time
  /\ \A p \in Proc : proc[p].at \in {"check", "write", "clear"} => p # "reaper"
RefOK == ref \in [Refresher -> [at: {"idle", "post", "save", "mark"}, seen: Pair]]
StoreOK == /\ row \in Row /\ tomb \in 0..MaxTime /\ stored \in 0..MaxTime
           /\ bank \in BOOLEAN /\ connect \in BOOLEAN /\ late \in BOOLEAN
           /\ excuse \in SUBSET {"overtaken", "overlap", "clobbered", "reaped"}
           /\ misjudged \in SUBSET Pair
OtherOK == clock \in 0..MaxTime /\ auth \in Pair /\ faults \in Nat
Parts == EventOK /\ ProcOK /\ RefOK /\ StoreOK /\ OtherOK

LEMMA TypeParts == TypeOK <=> Parts
  BY DEF TypeOK, Parts, EventOK, ProcOK, RefOK, StoreOK, OtherOK, Event, Doing

\* Before the portal's first event there is nothing.
Dormant ==
  clock = 0 => /\ ~row.live /\ queue = <<>>
               /\ \A t \in Time : ev[t] = "none"
               /\ \A p \in Proc : proc[p].at = "idle"
Grounded == Parts /\ Dormant

LEMMA Start == Init => Grounded
<1> SUFFICES ASSUME Init PROVE Grounded
  OBVIOUS
<1>1. NoPair \in Pair /\ NoRow \in Row /\ Free \in Doing
  BY DEF NoPair, Pair, NoRow, Row, Free, Doing
<1>2. EventOK /\ StoreOK /\ OtherOK
  <2>1. EventOK
    BY DEF Init, EventOK, Event
  <2>2. StoreOK
    <3>1. row = NoRow /\ tomb = 0 /\ stored = 0 /\ bank = FALSE /\ connect = FALSE
          /\ late = FALSE /\ excuse = {} /\ misjudged = {}
      BY DEF Init
    <3> QED
      BY <1>1, <3>1, 0 \in 0..MaxTime, {} \in SUBSET {"overtaken", "overlap", "clobbered", "reaped"},
         {} \in SUBSET Pair DEF StoreOK
  <2>3. OtherOK
    BY <1>1 DEF Init, OtherOK
  <2> QED
    BY <2>1, <2>2, <2>3
<1>3. ProcOK /\ RefOK
  BY <1>1 DEF Init, ProcOK, RefOK, Free, Asleep, NoPair, Pair
<1> QED
  BY <1>2, <1>3 DEF Init, Grounded, Parts, Dormant, NoRow, Free

\* A process that ends what it does, or goes on to another statement.
LEMMA FreeOK == ASSUME ProcOK, NEW p \in Proc, proc' = [proc EXCEPT ![p] = Free]
                PROVE  ProcOK' /\ proc'[p] = Free /\ \A q \in Proc \ {p} : proc'[q] = proc[q]
<1>1. Free \in Doing /\ Free.at = "idle"
  BY DEF Free, Doing, NoPair, Pair
<1>2. proc' \in [Proc -> Doing] /\ proc'[p] = Free /\ \A q \in Proc \ {p} : proc'[q] = proc[q]
  BY <1>1 DEF ProcOK
<1> QED
  BY <1>1, <1>2 DEF ProcOK

LEMMA AtOK == ASSUME ProcOK, NEW p \in Proc, proc[p].at # "idle", p # "reaper",
                     NEW a \in {"check", "write", "clear", "purge"},
                     proc' = [proc EXCEPT ![p].at = a]
              PROVE  /\ ProcOK' /\ \A q \in Proc \ {p} : proc'[q] = proc[q]
                     /\ proc'[p] = [proc[p] EXCEPT !.at = a]
<1>1. [proc[p] EXCEPT !.at = a] \in Doing /\ [proc[p] EXCEPT !.at = a].ts = proc[p].ts
  BY DEF ProcOK, Doing
<1>2. proc' \in [Proc -> Doing] /\ proc'[p] = [proc[p] EXCEPT !.at = a]
      /\ \A q \in Proc \ {p} : proc'[q] = proc[q]
  BY <1>1 DEF ProcOK
<1> QED
  BY <1>1, <1>2 DEF ProcOK

\* A process that begins something.
LEMMA FreeTyped == Free \in Doing /\ Free.step = 1 /\ Free.seen = NoPair /\ Free.at = "idle"
  BY DEF Free, Doing, NoPair, Pair

LEMMA StartOK ==
  ASSUME ProcOK, NEW p \in {"worker", "http"}, NEW t \in Time,
         proc' = [proc EXCEPT ![p] = Started(t)]
  PROVE  /\ ProcOK' /\ \A q \in Proc \ {p} : proc'[q] = proc[q]
         /\ proc'[p] = Started(t) /\ Started(t).ts = t
         /\ Started(t).step = 1 /\ Started(t).seen = NoPair
         /\ Started(t).at = IF t \in Installs THEN "check" ELSE "purge"
<1>1. /\ Started(t) \in Doing /\ Started(t).ts = t
      /\ Started(t).step = 1 /\ Started(t).seen = NoPair
      /\ Started(t).at = IF t \in Installs THEN "check" ELSE "purge"
  <2> DEFINE a == IF t \in Installs THEN "check" ELSE "purge"
  <2>1. a \in {"check", "purge"} /\ t \in 0..MaxTime /\ NoPair \in Pair
    BY DEF Time, NoPair, Pair
  <2>2. Started(t) = [Free EXCEPT !.at = a, !.ts = t]
    BY DEF Started
  <2> HIDE DEF a
  <2>3. /\ Started(t) \in Doing /\ Started(t).ts = t /\ Started(t).at = a
        /\ Started(t).step = 1 /\ Started(t).seen = NoPair
    BY <2>1, <2>2, FreeTyped DEF Doing
  <2> QED
    BY <2>3 DEF a
<1>2. /\ p \in Proc /\ proc' \in [Proc -> Doing] /\ proc'[p] = Started(t)
      /\ \A q \in Proc \ {p} : proc'[q] = proc[q]
  BY <1>1 DEF ProcOK, Proc
<1> QED
  BY <1>1, <1>2 DEF ProcOK

LEMMA EvOK == ASSUME EventOK, NEW t \in Time, NEW e \in Event,
                     ev' = [ev EXCEPT ![t] = e], UNCHANGED <<tries, queue>>
              PROVE  EventOK'
  BY DEF EventOK

LEMMA FinishOK == ASSUME EventOK, ProcOK, NEW p \in Proc, proc[p].at # "idle", Finish(p),
                         UNCHANGED <<tries, queue>>
                  PROVE  EventOK' /\ ProcOK'
<1>1. ProcOK'
  BY FreeOK DEF Finish
<1>2. proc[p].ts \in Time /\ "done" \in Event
  BY DEF ProcOK, Event
<1>3. ev' = ev \/ ev' = [ev EXCEPT ![proc[p].ts] = "done"]
  BY DEF Finish
<1> QED
  BY <1>1, <1>2, <1>3, EvOK DEF EventOK

LEMMA EraseStepOK == ASSUME EventOK, ProcOK, NEW p \in Proc, proc[p].at = "purge", StepDone(p),
                            UNCHANGED <<tries, queue>>
                     PROVE  EventOK' /\ ProcOK'
<1>1. CASE proc' = [proc EXCEPT ![p].step = @ + 1] /\ UNCHANGED ev /\ proc[p].step < 2
  <2>1. [proc[p] EXCEPT !.step = proc[p].step + 1] \in Doing
        /\ [proc[p] EXCEPT !.step = proc[p].step + 1].at = "purge"
        /\ [proc[p] EXCEPT !.step = proc[p].step + 1].ts = proc[p].ts
    BY <1>1 DEF ProcOK, Doing
  <2>2. proc' \in [Proc -> Doing] /\ proc'[p] = [proc[p] EXCEPT !.step = proc[p].step + 1]
        /\ \A q \in Proc \ {p} : proc'[q] = proc[q]
    BY <1>1, <2>1 DEF ProcOK
  <2> QED
    BY <1>1, <2>1, <2>2 DEF ProcOK, EventOK
<1>2. CASE Finish(p)
  BY <1>2, FinishOK
<1>3. Len(PurgeOrder) = 2
  BY DEF PurgeOrder
<1> QED
  BY <1>1, <1>2, <1>3 DEF StepDone

\* The steps of the portal and of its events on the way to a process.
LEMMA EventType ==
  ASSUME Grounded, PortalActs \/ Take \/ \E t \in Time : Receive(t) \/ Due(t)
  PROVE  Parts'
<1> USE DEF Grounded, Parts
<1>1. CASE PortalActs
  <2>1. clock + 1 \in Time /\ clock' \in 0..MaxTime
    BY <1>1 DEF PortalActs, Time, OtherOK
  <2>2. EventOK'
    BY <1>1, <2>1, EvOK DEF PortalActs, Event
  <2>3. auth' \in Pair
    BY <1>1, <2>1 DEF PortalActs, Pair, NoPair, Time
  <2> QED
    BY <1>1, <2>1, <2>2, <2>3 DEF PortalActs, ProcOK, RefOK, StoreOK, OtherOK
<1>2. ASSUME NEW t \in Time, ReceiveInstall(t) PROVE Parts'
  <2>1. EventOK'
    BY <1>2, EvOK DEF ReceiveInstall, Event
  <2>2. auth' \in Pair
    BY <1>2 DEF ReceiveInstall, Pair, OtherOK
  <2> QED
    BY <1>2, <2>1, <2>2 DEF ReceiveInstall, ProcOK, RefOK, StoreOK, OtherOK
<1>3. ASSUME NEW t \in Time, ReceiveUninstall(t) PROVE Parts'
  <2>1. EventOK'
    BY <1>3, EvOK DEF ReceiveUninstall, Event
  <2> QED
    BY <1>3, <2>1 DEF ReceiveUninstall, ProcOK, RefOK, StoreOK, OtherOK
<1>4. ASSUME NEW t \in Time, Enqueue(t) \/ Due(t) PROVE Parts'
  <2>1. EventOK'
    <3>1. Append(queue, t) \in Seq(Time) /\ "queued" \in Event
      BY AppendProperties DEF EventOK, Event
    <3>2. /\ queue' = Append(queue, t) /\ ev' = [ev EXCEPT ![t] = "queued"]
          /\ UNCHANGED tries
      BY <1>4 DEF Enqueue, Due
    <3> QED
      BY <3>1, <3>2 DEF EventOK
  <2> QED
    BY <1>4, <2>1 DEF Enqueue, Due, ProcOK, RefOK, StoreOK, OtherOK
<1>5. ASSUME NEW t \in Time, FallBack(t) PROVE Parts'
  <2>1. EventOK'
    BY <1>5, EvOK DEF FallBack, Event
  <2>2. ProcOK'
    BY <1>5, StartOK DEF FallBack
  <2> QED
    BY <1>5, <2>1, <2>2 DEF FallBack, RefOK, StoreOK, OtherOK
<1>6. CASE Take
  <2>1. Head(queue) \in Time /\ Tail(queue) \in Seq(Time)
    BY <1>6, HeadTailProperties DEF Take, EventOK
  <2>2. ProcOK'
    BY <1>6, <2>1, StartOK DEF Take
  <2>3. EventOK'
    BY <1>6, <2>1 DEF Take, EventOK, Event
  <2> QED
    BY <1>6, <2>2, <2>3 DEF Take, RefOK, StoreOK, OtherOK
<1> QED
  BY <1>1, <1>2, <1>3, <1>4, <1>5, <1>6 DEF Receive

\* The steps of the processes and of the reaper.
LEMMA ProcType ==
  ASSUME Grounded, Select \/ \E p \in Proc : ProcStep(p) \/ ProcFails(p)
  PROVE  Parts'
<1> USE DEF Grounded, Parts
<1>1. ASSUME NEW p \in Proc, CheckTomb(p) PROVE Parts'
  <2>1. p # "reaper" /\ proc[p].at = "check"
    BY <1>1 DEF CheckTomb, ProcOK
  <2>2. EventOK' /\ ProcOK'
    <3>1. CASE Finish(p)
      BY <1>1, <2>1, <3>1, FinishOK DEF CheckTomb
    <3>2. CASE proc' = [proc EXCEPT ![p].at = "write"] /\ UNCHANGED ev
      BY <1>1, <2>1, <3>2, AtOK DEF CheckTomb, EventOK
    <3> QED
      BY <1>1, <3>1, <3>2 DEF CheckTomb
  <2> QED
    BY <1>1, <2>2 DEF CheckTomb, RefOK, StoreOK, OtherOK
<1>2. ASSUME NEW p \in Proc, WriteRow(p) PROVE Parts'
  <2>1. p # "reaper" /\ proc[p].at = "write" /\ proc[p].ts \in Time
    BY <1>2 DEF WriteRow, ProcOK
  <2>2. ProcOK'
    BY <1>2, <2>1, AtOK DEF WriteRow
  <2>3. row' \in Row /\ stored' \in 0..MaxTime
    BY <1>2, <2>1 DEF WriteRow, Saved, Row, Pair, Time, Larger, StoreOK
  <2>4. excuse' \in SUBSET {"overtaken", "overlap", "clobbered", "reaped"}
    BY <1>2 DEF WriteRow, StoreOK
  <2> QED
    BY <1>2, <2>2, <2>3, <2>4 DEF WriteRow, EventOK, RefOK, StoreOK, OtherOK
<1>3. ASSUME NEW p \in Proc, ClearTomb(p) PROVE Parts'
  <2>1. EventOK' /\ ProcOK'
    BY <1>3, FinishOK DEF ClearTomb
  <2>2. tomb' \in 0..MaxTime
    BY <1>3 DEF ClearTomb, StoreOK
  <2> QED
    BY <1>3, <2>1, <2>2 DEF ClearTomb, RefOK, StoreOK, OtherOK
<1>4. ASSUME NEW p \in Proc, EraseBank(p) PROVE Parts'
  <2>1. EventOK' /\ ProcOK'
    BY <1>4, EraseStepOK DEF EraseBank, Erasing
  <2> QED
    BY <1>4, <2>1 DEF EraseBank, RefOK, StoreOK, OtherOK
<1>5. ASSUME NEW p \in Proc, EraseToken(p) PROVE Parts'
  <2>1. EventOK' /\ ProcOK'
    BY <1>5, EraseStepOK DEF EraseToken, Erasing
  <2>2. row' \in Row
    BY <1>5 DEF EraseToken, NoRow, NoPair, Row, Pair
  <2>3. tomb' \in 0..MaxTime
    BY <1>5 DEF EraseToken, Erasing, Tombstone, Larger, StoreOK, ProcOK, Doing
  <2>4. excuse' \in SUBSET {"overtaken", "overlap", "clobbered", "reaped"}
    BY <1>5 DEF EraseToken, StoreOK
  <2> QED
    BY <1>5, <2>1, <2>2, <2>3, <2>4 DEF EraseToken, RefOK, StoreOK, OtherOK
<1>6. ASSUME NEW p \in Proc, ProcFails(p) PROVE Parts'
  <2>1. /\ proc[p].at # "idle" /\ proc' = [proc EXCEPT ![p] = Free]
        /\ faults' = faults + 1 /\ UNCHANGED <<clock, auth, queue, row, tomb, bank, connect,
                                               ref, stored, excuse, misjudged, late>>
    BY <1>6 DEF ProcFails
  <2>2. proc[p].ts \in Time /\ {"delayed", "failed"} \subseteq Event
    BY <2>1 DEF ProcOK, Event
  <2>3. EventOK'
    <3>1. UNCHANGED tries \/ tries' = [tries EXCEPT ![proc[p].ts] = @ + 1]
      BY <1>6 DEF ProcFails, Proc
    <3>2. UNCHANGED ev \/ \E e \in Event : ev' = [ev EXCEPT ![proc[p].ts] = e]
      BY <1>6, <2>2 DEF ProcFails, Proc
    <3>3. tries' \in [Time -> Nat]
      BY <2>2, <3>1 DEF EventOK
    <3>4. ev' \in [Time -> Event]
      BY <2>2, <3>2 DEF EventOK
    <3> QED
      BY <2>1, <3>3, <3>4 DEF EventOK
  <2>4. ProcOK'
    BY <2>1, FreeOK
  <2> QED
    BY <2>1, <2>3, <2>4 DEF RefOK, StoreOK, OtherOK
<1>7. CASE Select
  <2>1. clock \in Time
    BY <1>7 DEF Select, Dormant, OtherOK, Time
  <2> DEFINE run == [Free EXCEPT !.at = "purge", !.ts = RunTime, !.seen = row.pair]
  <2>2. run \in Doing /\ run.at = "purge" /\ run.ts \in Time
    <3>1. clock \in 0..MaxTime /\ row.pair \in Pair
      BY DEF OtherOK, StoreOK, Row
    <3> QED
      BY <2>1, <3>1, FreeTyped DEF RunTime, Doing
  <2> HIDE DEF run
  <2>3. proc' = [proc EXCEPT !["reaper"] = run] /\ "reaper" \in Proc
    BY <1>7 DEF Select, run, Proc
  <2>4. ProcOK'
    BY <2>2, <2>3 DEF ProcOK
  <2> QED
    BY <1>7, <2>4 DEF Select, EventOK, RefOK, StoreOK, OtherOK
<1> QED
  BY <1>1, <1>2, <1>3, <1>4, <1>5, <1>6, <1>7 DEF ProcStep

\* The steps of the refreshers, of the month that passes, and of a bank connection.
LEMMA RefType ==
  ASSUME Grounded,
         Age \/ GoToBank \/ Callback \/ \E r \in Refresher : RefStep(r) \/ RefresherDies(r)
  PROVE  Parts'
<1> USE DEF Grounded, Parts
<1>1. CASE Age
  <2>1. row' \in Row
    BY <1>1 DEF Age, Row, StoreOK
  <2> QED
    BY <1>1, <2>1 DEF Age, EventOK, ProcOK, RefOK, StoreOK, OtherOK
<1>2. CASE GoToBank \/ Callback
  <2>1. late' \in BOOLEAN /\ bank' \in BOOLEAN /\ connect' \in BOOLEAN
    BY <1>2 DEF GoToBank, Callback, StoreOK
  <2> QED
    BY <1>2, <2>1 DEF GoToBank, Callback, EventOK, ProcOK, RefOK, StoreOK, OtherOK
<1>3. ASSUME NEW r \in Refresher, Load(r) PROVE Parts'
  <2>1. RefOK'
    BY <1>3 DEF Load, RefOK, StoreOK, Row
  <2> QED
    BY <1>3, <2>1 DEF Load, EventOK, ProcOK, StoreOK, OtherOK
<1>4. ASSUME NEW r \in Refresher, Post(r) PROVE Parts'
  <2>1. auth' \in Pair
    BY <1>4 DEF Post, Pair, OtherOK
  <2>2. RefOK'
    BY <1>4, <2>1 DEF Post, RefOK
  <2> QED
    BY <1>4, <2>1, <2>2 DEF Post, EventOK, ProcOK, StoreOK, OtherOK
<1>5. ASSUME NEW r \in Refresher, SavePair(r) PROVE Parts'
  <2>1. row' \in Row
    BY <1>5 DEF SavePair, Refreshed, Saved, RefOK, StoreOK, Row
  <2>2. RefOK'
    BY <1>5 DEF SavePair, RefOK, Asleep, NoPair, Pair
  <2>3. excuse' \in SUBSET {"overtaken", "overlap", "clobbered", "reaped"}
    BY <1>5 DEF SavePair, StoreOK
  <2> QED
    BY <1>5, <2>1, <2>2, <2>3 DEF SavePair, EventOK, ProcOK, StoreOK, OtherOK
<1>6. ASSUME NEW r \in Refresher, MarkDead(r) PROVE Parts'
  <2>1. row' \in Row /\ misjudged' \in SUBSET Pair
    BY <1>6 DEF MarkDead, Marked, StoreOK, Row
  <2>2. RefOK'
    BY <1>6 DEF MarkDead, RefOK, Asleep, NoPair, Pair
  <2> QED
    BY <1>6, <2>1, <2>2 DEF MarkDead, EventOK, ProcOK, StoreOK, OtherOK
<1>7. ASSUME NEW r \in Refresher, RefresherDies(r) PROVE Parts'
  <2>1. RefOK' /\ faults' \in Nat
    BY <1>7 DEF RefresherDies, RefOK, Asleep, NoPair, Pair, OtherOK
  <2> QED
    BY <1>7, <2>1 DEF RefresherDies, EventOK, ProcOK, StoreOK, OtherOK
<1> QED
  BY <1>1, <1>2, <1>3, <1>4, <1>5, <1>6, <1>7 DEF RefStep

LEMMA DormantStep == Grounded /\ [Next]_vars => Dormant'
<1> SUFFICES ASSUME Grounded, [Next]_vars, clock' = 0
             PROVE  /\ ~row'.live /\ queue' = <<>>
                    /\ \A t \in Time : ev'[t] = "none"
                    /\ \A p \in Proc : proc'[p].at = "idle"
  BY DEF Dormant
<1>0. clock \in 0..MaxTime
  BY DEF Grounded, Parts, OtherOK
<1>1. ~PortalActs
  BY <1>0 DEF PortalActs
<1>2. clock = 0
  BY <1>1 DEF Next, vars, Receive, ReceiveInstall, ReceiveUninstall, Enqueue, FallBack, Due,
     Take, ProcStep, CheckTomb, WriteRow, ClearTomb, EraseBank, EraseToken, ProcFails, Age,
     Select, RefStep, Load, Post, SavePair, MarkDead, RefresherDies, GoToBank, Callback
<1>3. /\ ~row.live /\ queue = <<>>
      /\ \A t \in Time : ev[t] = "none"
      /\ \A p \in Proc : proc[p].at = "idle"
  BY <1>2 DEF Grounded, Dormant
<1>4. ~Take /\ ~Select /\ ~GoToBank /\ \A t \in Time : ~Receive(t) /\ ~Due(t)
  BY <1>3 DEF Take, Select, GoToBank, Receive, ReceiveInstall, ReceiveUninstall, Enqueue,
     FallBack, Due, Arrives
<1>5. \A p \in Proc : ~ProcStep(p) /\ ~ProcFails(p)
  BY <1>3 DEF ProcStep, CheckTomb, WriteRow, ClearTomb, EraseBank, EraseToken, ProcFails, Erasing
<1>6. UNCHANGED <<ev, queue, proc>> /\ ~row'.live
  <2>1. CASE Age
    BY <1>3, <2>1 DEF Age, Grounded, Parts, StoreOK, Row
  <2>2. ASSUME NEW r \in Refresher, SavePair(r) PROVE UNCHANGED <<ev, queue, proc>> /\ ~row'.live
    BY <1>3, <2>2 DEF SavePair, Refreshed
  <2>3. ASSUME NEW r \in Refresher, MarkDead(r) PROVE UNCHANGED <<ev, queue, proc>> /\ ~row'.live
    BY <1>3, <2>3 DEF MarkDead, Grounded, Parts, StoreOK, Row
  <2>4. ASSUME NEW r \in Refresher, Load(r) \/ Post(r) \/ RefresherDies(r)
        PROVE  UNCHANGED <<ev, queue, proc, row>>
    BY <2>4 DEF Load, Post, RefresherDies
  <2>5. CASE Callback \/ UNCHANGED vars
    BY <1>3, <2>5 DEF Callback, vars
  <2> QED
    BY <1>1, <1>3, <1>4, <1>5, <2>1, <2>2, <2>3, <2>4, <2>5 DEF Next, RefStep
<1> QED
  BY <1>3, <1>6

LEMMA Step == Grounded /\ [Next]_vars => Grounded'
<1> SUFFICES ASSUME Grounded, [Next]_vars PROVE Parts'
  BY DormantStep DEF Grounded
<1>1. CASE UNCHANGED vars
  BY <1>1 DEF vars, Grounded, Parts, EventOK, ProcOK, RefOK, StoreOK, OtherOK
<1> QED
  BY <1>1, EventType, ProcType, RefType DEF Next

LEMMA GroundedAlways == Spec => []Grounded
<1> QED
  BY Start, Step, PTL DEF Spec

\* What the server keeps of a portal is what its tables and queues may hold.
THEOREM TypeCorrect == Spec => []TypeOK
<1>1. Grounded => TypeOK
  BY TypeParts DEF Grounded
<1> QED
  BY <1>1, GroundedAlways, PTL

----------------------------------------------------------------------------
(***************************************************************************)
(* The bank's credentials go first.                                        *)
(***************************************************************************)
\* Between the two statements of a purge only a late callback brings a connection.
BankInv ==
  /\ BankGoesFirst
  /\ \A p \in Proc : Erasing(p, "token") /\ bank => late

\* The first statement of a purge is the bank's, the second the portal's own.
LEMMA PurgeIsTwo == PurgeOrder[1] = "bank" /\ PurgeOrder[2] = "token" /\ Len(PurgeOrder) = 2
  BY DEF PurgeOrder

LEMMA EraseSteps ==
  ASSUME ProcOK, NEW p \in Proc
  PROVE  /\ Erasing(p, "bank") <=> proc[p].at = "purge" /\ proc[p].step = 1
         /\ Erasing(p, "token") <=> proc[p].at = "purge" /\ proc[p].step = 2
  BY PurgeIsTwo DEF ProcOK, Doing, Erasing

\* What a step does to the second statement of a purge: it comes after the first.
LEMMA ErasingToken ==
  ASSUME Grounded, Grounded', [Next]_vars, NEW p \in Proc, Erasing(p, "token")'
  PROVE  Erasing(p, "token") \/ EraseBank(p)
<1> SUFFICES ASSUME ~EraseBank(p) PROVE proc[p].at = "purge" /\ proc[p].step = 2
  BY EraseSteps DEF Grounded, Parts
<1>0. ProcOK /\ ProcOK' /\ proc'[p].at = "purge" /\ proc'[p].step = 2 /\ EventOK
  BY PurgeIsTwo DEF Grounded, Parts, Erasing, ProcOK, Doing
<1>1. CASE proc'[p] = proc[p]
  BY <1>0, <1>1
<1>2. ASSUME NEW q \in Proc, proc' = [proc EXCEPT ![q] = Free] PROVE proc'[p] = proc[p]
  BY <1>0, <1>2, FreeOK DEF Free
<1>3. ASSUME NEW q \in {"worker", "http"}, NEW t \in Time, proc' = [proc EXCEPT ![q] = Started(t)]
      PROVE  proc'[p] = proc[p]
  <2>1. q \in Proc /\ proc'[q] = Started(t) /\ Started(t).step = 1
        /\ \A o \in Proc \ {q} : proc'[o] = proc[o]
    BY <1>0, <1>3, StartOK DEF Proc
  <2>2. CASE q = p
    <3>1. proc'[p].step = 1
      BY <2>1, <2>2
    <3> QED
      BY <1>0, <3>1
  <2>3. CASE q # p
    BY <2>1, <2>3
  <2> QED
    BY <2>2, <2>3
<1>4. CASE Take
  <2>1. Head(queue) \in Time
    BY <1>0, <1>4, HeadTailProperties DEF Take, EventOK
  <2> QED
    BY <1>1, <1>3, <1>4, <2>1 DEF Take
<1>5. CASE Select
  <2>1. clock \in 0..MaxTime /\ row.pair \in Pair
    BY DEF Grounded, Parts, OtherOK, StoreOK, Row
  <2> DEFINE run == [Free EXCEPT !.at = "purge", !.ts = RunTime, !.seen = row.pair]
  <2>2. run.step = 1
    BY <2>1, FreeTyped DEF RunTime, Doing
  <2>3. proc' = [proc EXCEPT !["reaper"] = run]
    BY <1>5 DEF Select
  <2> HIDE DEF run
  <2> QED
    BY <1>0, <1>1, <2>2, <2>3 DEF ProcOK
<1>6. ASSUME NEW q \in Proc, ProcFails(q) PROVE proc'[p] = proc[p]
  BY <1>2, <1>6 DEF ProcFails
<1>7. ASSUME NEW q \in Proc, CheckTomb(q) \/ WriteRow(q) \/ ClearTomb(q) PROVE proc'[p] = proc[p]
  <2>1. proc[q].at # "idle" /\ q # "reaper"
    BY <1>0, <1>7 DEF ProcOK, CheckTomb, WriteRow, ClearTomb
  <2>2. \/ proc' = [proc EXCEPT ![q] = Free]
        \/ \E a \in {"write", "clear"} : proc' = [proc EXCEPT ![q].at = a]
    BY <1>7 DEF CheckTomb, WriteRow, ClearTomb, Finish
  <2>3. ASSUME NEW a \in {"write", "clear"}, proc' = [proc EXCEPT ![q].at = a]
        PROVE  proc'[p] = proc[p]
    BY <1>0, <2>3 DEF ProcOK, Doing
  <2> QED
    BY <1>2, <2>2, <2>3
<1>8. ASSUME NEW q \in Proc, EraseBank(q) \/ EraseToken(q) PROVE proc'[p] = proc[p]
  <2>1. CASE proc' = [proc EXCEPT ![q] = Free]
    BY <1>2, <2>1
  <2>2. CASE proc' = [proc EXCEPT ![q].step = @ + 1] /\ q # p
    BY <1>0, <2>2 DEF ProcOK
  <2>3. CASE proc' = [proc EXCEPT ![q].step = @ + 1] /\ q = p /\ EraseToken(q)
    <3>1. proc[p].step = 2
      BY <1>0, <2>3, EraseSteps DEF EraseToken
    <3>2. proc'[p].step = proc[p].step + 1
      BY <1>0, <2>3 DEF ProcOK, Doing
    <3> QED
      BY <1>0, <3>1, <3>2
  <2> QED
    BY <1>8, <2>1, <2>2, <2>3 DEF EraseBank, EraseToken, StepDone, Finish
<1>9. ASSUME UNCHANGED vars \/ PortalActs \/ Age \/ GoToBank \/ Callback
             \/ (\E r \in Refresher : RefStep(r) \/ RefresherDies(r))
             \/ (\E t \in Time : Receive(t) \/ Due(t))
      PROVE  proc'[p] = proc[p]
  <2>1. ASSUME NEW t \in Time, FallBack(t) PROVE proc'[p] = proc[p]
    BY <1>3, <2>1 DEF FallBack
  <2> QED
    BY <1>9, <2>1 DEF vars, PortalActs, Age, GoToBank, Callback, RefStep, Load, Post, SavePair,
       MarkDead, RefresherDies, Receive, ReceiveInstall, ReceiveUninstall, Enqueue, Due
<1> QED
  BY <1>1, <1>4, <1>5, <1>6, <1>7, <1>8, <1>9 DEF Next, ProcStep

LEMMA BankStep ==
  ASSUME Grounded, Grounded', [Next]_vars, BankInv PROVE BankInv'
<1>0. ProcOK /\ StoreOK
  BY DEF Grounded, Parts
<1>1. ASSUME NEW p \in Proc, EraseBank(p) PROVE BankInv'
  BY <1>1 DEF EraseBank, BankInv, BankGoesFirst
<1>2. ASSUME \A p \in Proc : ~EraseBank(p) PROVE \A p \in Proc : Erasing(p, "token")' => Erasing(p, "token")
  BY <1>2, ErasingToken
<1>3. CASE Callback
  BY <1>0, <1>3 DEF Callback, BankInv, BankGoesFirst, Erasing, StoreOK
<1>4. ASSUME NEW p \in Proc, EraseToken(p), \A q \in Proc : ~EraseBank(q) PROVE BankInv'
  <2>1. bank => late
    BY <1>4 DEF EraseToken, BankInv
  <2> QED
    BY <1>4, <2>1 DEF EraseToken, BankInv, BankGoesFirst
<1>5. ASSUME UNCHANGED <<bank, late>>, row.live => row'.live, \A q \in Proc : ~EraseBank(q)
      PROVE  BankInv'
  BY <1>2, <1>5 DEF BankInv, BankGoesFirst
<1>6. ASSUME NEW p \in Proc, CheckTomb(p) \/ WriteRow(p) \/ ClearTomb(p) \/ ProcFails(p)
      PROVE  UNCHANGED <<bank, late>> /\ (row.live => row'.live)
  <2>1. CASE WriteRow(p)
    BY <2>1 DEF WriteRow, Saved
  <2>2. CASE CheckTomb(p) \/ ClearTomb(p)
    BY <2>2 DEF CheckTomb, ClearTomb
  <2>3. CASE ProcFails(p)
    BY <2>3 DEF ProcFails
  <2> QED
    BY <1>6, <2>1, <2>2, <2>3
<1>7. ASSUME NEW r \in Refresher, RefStep(r) \/ RefresherDies(r)
      PROVE  UNCHANGED <<bank, late>> /\ (row.live => row'.live)
  BY <1>0, <1>7 DEF RefStep, Load, Post, SavePair, Refreshed, Saved, MarkDead, RefresherDies,
     StoreOK, Row
<1>8. ASSUME \/ UNCHANGED vars \/ PortalActs \/ Take \/ Select \/ Age \/ GoToBank
             \/ \E t \in Time : Receive(t) \/ Due(t)
      PROVE  UNCHANGED <<bank, late>> /\ (row.live => row'.live)
  BY <1>0, <1>8 DEF vars, PortalActs, Take, Select, Age, GoToBank, Receive, Due, Enqueue,
     FallBack, ReceiveInstall, ReceiveUninstall, StoreOK, Row
<1> QED
  BY <1>1, <1>3, <1>4, <1>5, <1>6, <1>7, <1>8 DEF Next, ProcStep

\* No credentials of a bank outlive the row of the portal, but those of a callback
\* that came too late, wherever a purge fails or is interrupted.
THEOREM BankFirst == Spec => []BankGoesFirst
<1>1. Init => BankInv
  BY DEF Init, BankInv, BankGoesFirst
<1>2. Grounded /\ Grounded' /\ [Next]_vars /\ BankInv => BankInv'
  BY BankStep
<1>3. BankInv => BankGoesFirst
  BY DEF BankInv
<1> QED
  BY <1>1, <1>2, <1>3, GroundedAlways, PTL DEF Spec

----------------------------------------------------------------------------
(***************************************************************************)
(* The events and the processes.                                           *)
(***************************************************************************)
\* An event is of the past; it is with one process, or once in the queue, or with
\* nobody; a process registers an installation and purges for a removal.
Worker == {"worker", "http"}
Busy(p) == proc[p].at # "idle"
Registers(p) == proc[p].at \in {"check", "write", "clear"}
JobInv ==
  /\ \A t \in Time : ev[t] # "none" => t <= clock
  /\ \A i \in 1..Len(queue) : ev[queue[i]] = "queued"
  /\ \A i, j \in 1..Len(queue) : queue[i] = queue[j] => i = j
  /\ \A p \in Worker : Busy(p) => /\ ev[proc[p].ts] = "active"
                                  /\ Registers(p) <=> proc[p].ts \in Installs
  /\ Busy("worker") /\ Busy("http") => proc["worker"].ts # proc["http"].ts

\* A process that is busy after the step was at the same event before it.
SameJobs(S) ==
  \A p \in S : Busy(p)' => /\ Busy(p) /\ proc'[p].ts = proc[p].ts
                           /\ Registers(p)' <=> Registers(p)

\* The steps that leave queue and processes to themselves.
LEMMA JobAside ==
  ASSUME Grounded, Grounded', JobInv, UNCHANGED queue, SameJobs(Worker),
         clock <= clock',
         \A t \in Time : ev[t] \in {"queued", "active"} => ev'[t] = ev[t],
         \A t \in Time : ev'[t] # "none" => ev[t] # "none" \/ t <= clock'
  PROVE  JobInv'
<1>0. queue \in Seq(Time) /\ ProcOK /\ clock \in Nat /\ clock' \in Nat
  BY DEF Grounded, Parts, EventOK, OtherOK
<1>1. \A i \in 1..Len(queue) : queue[i] \in Time
  BY <1>0
<1>2. \A p \in Worker : Busy(p) => proc[p].ts \in Time
  BY <1>0 DEF ProcOK, Busy, Worker, Proc
<1>3. \A t \in Time : t \in Nat
  BY DEF Time
<1>4. \A t \in Time : ev'[t] # "none" => t <= clock'
  BY <1>0, <1>3 DEF JobInv
<1>5. /\ \A i \in 1..Len(queue') : ev'[queue'[i]] = "queued"
      /\ \A i, j \in 1..Len(queue') : queue'[i] = queue'[j] => i = j
  BY <1>1 DEF JobInv
<1>6. \A p \in Worker : Busy(p)' => /\ ev'[proc'[p].ts] = "active"
                                    /\ Registers(p)' <=> proc'[p].ts \in Installs
  BY <1>2 DEF JobInv, SameJobs
<1>7. (Busy("worker") /\ Busy("http") => proc["worker"].ts # proc["http"].ts)'
  BY DEF JobInv, SameJobs, Worker
<1> QED
  BY <1>4, <1>5, <1>6, <1>7 DEF JobInv

\* A process lets go of its event.
LEMMA JobLeft ==
  ASSUME Grounded, Grounded', JobInv, UNCHANGED <<queue, clock>>, NEW p \in Worker, Busy(p),
         NEW e, e # "none", ev' = [ev EXCEPT ![proc[p].ts] = e],
         ~Busy(p)', SameJobs(Worker \ {p})
  PROVE  JobInv'
<1>0. queue \in Seq(Time) /\ ProcOK /\ ev \in [Time -> Event]
  BY DEF Grounded, Parts, EventOK
<1>1. \A i \in 1..Len(queue) : queue[i] \in Time
  BY <1>0
<1>2. \A q \in Worker : Busy(q) => proc[q].ts \in Time
  BY <1>0 DEF ProcOK, Busy, Worker, Proc
<1>3. \A t \in Time : ev'[t] # "none" => t <= clock'
  BY <1>0, <1>2 DEF JobInv
<1>4. /\ \A i \in 1..Len(queue') : ev'[queue'[i]] = "queued"
      /\ \A i, j \in 1..Len(queue') : queue'[i] = queue'[j] => i = j
  BY <1>0, <1>1, <1>2 DEF JobInv
<1>5. \A q \in Worker \ {p} : Busy(q) => proc[q].ts # proc[p].ts
  BY DEF JobInv, Worker
<1>6. \A q \in Worker : Busy(q)' => /\ ev'[proc'[q].ts] = "active"
                                    /\ Registers(q)' <=> proc'[q].ts \in Installs
  BY <1>0, <1>2, <1>5 DEF JobInv, SameJobs
<1>7. (Busy("worker") /\ Busy("http") => proc["worker"].ts # proc["http"].ts)'
  BY DEF JobInv, SameJobs, Worker
<1> QED
  BY <1>3, <1>4, <1>6, <1>7 DEF JobInv

LEMMA JobFinished ==
  ASSUME Grounded, Grounded', JobInv, UNCHANGED <<queue, clock>>, NEW p \in Proc, Busy(p), Finish(p)
  PROVE  JobInv'
<1>0. ProcOK /\ Free.at = "idle"
  BY DEF Grounded, Parts, Free
<1>1. proc'[p] = Free /\ \A q \in Proc \ {p} : proc'[q] = proc[q]
  BY <1>0, FreeOK DEF Finish
<1>2. ~Busy(p)' /\ SameJobs(Worker \ {p})
  BY <1>0, <1>1 DEF Busy, SameJobs, Worker, Proc, Registers
<1>3. CASE p = "reaper"
  <2>1. SameJobs(Worker) /\ UNCHANGED ev
    BY <1>2, <1>3 DEF Finish, Worker, SameJobs
  <2>2. clock \in Nat /\ clock <= clock'
    BY DEF Grounded, Parts, OtherOK
  <2> QED
    BY <2>1, <2>2, JobAside
<1>4. CASE p # "reaper"
  <2>1. p \in Worker
    BY <1>4 DEF Worker, Proc
  <2> QED
    BY <1>2, <1>4, <2>1, JobLeft DEF Finish
<1> QED
  BY <1>3, <1>4

\* A process takes an event that is with nobody, or at the head of the queue.
LEMMA JobBegun ==
  ASSUME Grounded, Grounded', JobInv, UNCHANGED clock, NEW p \in Worker, NEW t \in Time,
         ~Busy(p), ev[t] \notin {"none", "active"},
         ev' = [ev EXCEPT ![t] = "active"], proc' = [proc EXCEPT ![p] = Started(t)],
         \/ UNCHANGED queue /\ ev[t] # "queued"
         \/ queue # <<>> /\ t = Head(queue) /\ queue' = Tail(queue)
  PROVE  JobInv'
<1>0. queue \in Seq(Time) /\ ProcOK /\ ev \in [Time -> Event]
  BY DEF Grounded, Parts, EventOK
<1>1. \A i \in 1..Len(queue) : queue[i] \in Time
  BY <1>0
<1>2. \A q \in Worker : Busy(q) => proc[q].ts \in Time
  BY <1>0 DEF ProcOK, Busy, Worker, Proc
<1>3. /\ proc'[p] = Started(t) /\ Started(t).ts = t
      /\ Started(t).at = IF t \in Installs THEN "check" ELSE "purge"
      /\ \A q \in Worker \ {p} : proc'[q] = proc[q]
  BY <1>0, StartOK DEF Worker, Proc
<1>4. \A s \in Time : ev'[s] # "none" => s <= clock'
  BY <1>0 DEF JobInv
<1>5. /\ \A i \in 1..Len(queue') : ev'[queue'[i]] = "queued"
      /\ \A i, j \in 1..Len(queue') : queue'[i] = queue'[j] => i = j
  <2>1. CASE UNCHANGED queue /\ ev[t] # "queued"
    BY <1>0, <1>1, <2>1 DEF JobInv
  <2>2. CASE queue # <<>> /\ t = Head(queue) /\ queue' = Tail(queue)
    <3>1. /\ Len(queue) \in Nat \ {0} /\ Len(queue') = Len(queue) - 1 /\ t = queue[1]
          /\ \A i \in 1..Len(queue') : queue'[i] = queue[i + 1]
      BY <1>0, <2>2, HeadTailProperties, EmptySeq, LenProperties
    <3>2. \A i \in 1..Len(queue') : i + 1 \in 1..Len(queue) /\ i + 1 # 1
      BY <3>1
    <3>3. \A i \in 1..Len(queue') : queue'[i] # t /\ ev[queue'[i]] = "queued" /\ queue'[i] \in Time
      BY <1>1, <3>1, <3>2 DEF JobInv
    <3>4. \A i \in 1..Len(queue') : ev'[queue'[i]] = "queued"
      BY <1>0, <3>3
    <3>5. ASSUME NEW i \in 1..Len(queue'), NEW j \in 1..Len(queue'), queue'[i] = queue'[j]
          PROVE  i = j
      <4>1. i + 1 = j + 1
        BY <3>1, <3>2, <3>5 DEF JobInv
      <4> QED
        BY <4>1
    <3> QED
      BY <3>4, <3>5
  <2> QED
    BY <2>1, <2>2
<1>6. \A q \in Worker \ {p} : Busy(q) => ev[proc[q].ts] = "active" /\ proc[q].ts # t
  BY DEF JobInv
<1>7. ASSUME NEW q \in Worker, Busy(q)'
      PROVE  ev'[proc'[q].ts] = "active" /\ (Registers(q)' <=> proc'[q].ts \in Installs)
  <2>1. CASE q = p
    BY <1>0, <1>3, <2>1 DEF Registers
  <2>2. CASE q # p
    BY <1>0, <1>2, <1>3, <1>6, <1>7, <2>2 DEF JobInv, Busy, Registers
  <2> QED
    BY <2>1, <2>2
<1>8. (Busy("worker") /\ Busy("http") => proc["worker"].ts # proc["http"].ts)'
  BY <1>3, <1>6 DEF Busy, Worker
<1> QED
  BY <1>4, <1>5, <1>7, <1>8 DEF JobInv

\* An event is put at the end of the queue.
LEMMA JobQueued ==
  ASSUME Grounded, Grounded', JobInv, UNCHANGED <<clock, proc>>, NEW t \in Time,
         ev[t] \notin {"none", "queued", "active"},
         ev' = [ev EXCEPT ![t] = "queued"], queue' = Append(queue, t)
  PROVE  JobInv'
<1>0. queue \in Seq(Time) /\ ProcOK /\ ev \in [Time -> Event]
  BY DEF Grounded, Parts, EventOK
<1>1. /\ Len(queue) \in Nat /\ Len(queue') = Len(queue) + 1
      /\ \A i \in 1..Len(queue) : queue'[i] = queue[i] /\ queue[i] \in Time
      /\ queue'[Len(queue) + 1] = t
  BY <1>0, AppendProperties, LenProperties
<1>2. \A i \in 1..Len(queue) : queue[i] # t
  BY DEF JobInv
<1>3. \A i \in 1..Len(queue') : ev'[queue'[i]] = "queued"
  <2> SUFFICES ASSUME NEW i \in 1..Len(queue') PROVE ev'[queue'[i]] = "queued"
    OBVIOUS
  <2>1. CASE i \in 1..Len(queue)
    BY <1>0, <1>1, <1>2, <2>1 DEF JobInv
  <2>2. CASE i = Len(queue) + 1
    BY <1>0, <1>1, <2>2
  <2> QED
    BY <1>1, <2>1, <2>2
<1>4. \A i, j \in 1..Len(queue') : queue'[i] = queue'[j] => i = j
  BY <1>1, <1>2 DEF JobInv
<1>5. \A q \in Worker : Busy(q) => proc[q].ts \in Time
  BY <1>0 DEF ProcOK, Busy, Worker, Proc
<1>6. /\ \A q \in Worker : Busy(q)' => /\ ev'[proc'[q].ts] = "active"
                                       /\ Registers(q)' <=> proc'[q].ts \in Installs
      /\ (Busy("worker") /\ Busy("http") => proc["worker"].ts # proc["http"].ts)'
  BY <1>0, <1>5 DEF JobInv, Busy, Registers
<1>7. \A s \in Time : ev'[s] # "none" => s <= clock'
  BY <1>0 DEF JobInv
<1> QED
  BY <1>3, <1>4, <1>6, <1>7 DEF JobInv

LEMMA JobStep == ASSUME Grounded, Grounded', [Next]_vars, JobInv PROVE JobInv'
<1>0. /\ ProcOK /\ ev \in [Time -> Event] /\ clock \in Nat /\ clock' \in Nat
      /\ queue \in Seq(Time)
  BY DEF Grounded, Parts, EventOK, OtherOK
<1>1. ASSUME UNCHANGED <<ev, queue, clock>>, SameJobs(Worker) PROVE JobInv'
  BY <1>0, <1>1, JobAside
<1>2. UNCHANGED proc => SameJobs(Worker)
  BY DEF SameJobs, Busy, Registers
<1>3. CASE PortalActs
  <2>1. clock + 1 \in Time
    BY <1>0, <1>3 DEF PortalActs, Time
  <2>2. ev[clock + 1] = "none"
    BY <1>0, <2>1 DEF JobInv
  <2>3. \A t \in Time : ev'[t] = IF t = clock + 1 THEN "sent" ELSE ev[t]
    BY <1>0, <1>3, <2>1 DEF PortalActs
  <2>4. UNCHANGED <<queue, proc>> /\ clock' = clock + 1
    BY <1>3 DEF PortalActs
  <2>5. clock <= clock'
    BY <1>0, <2>4
  <2>6. /\ \A t \in Time : ev[t] \in {"queued", "active"} => ev'[t] = ev[t]
        /\ \A t \in Time : ev'[t] # "none" => ev[t] # "none" \/ t <= clock'
    BY <1>0, <2>2, <2>3, <2>4
  <2> QED
    BY <1>2, <2>4, <2>5, <2>6, JobAside
<1>4. ASSUME NEW t \in Time, ReceiveInstall(t) \/ ReceiveUninstall(t) PROVE JobInv'
  <2>1. /\ UNCHANGED <<queue, proc, clock>> /\ ev[t] = "sent"
        /\ \E e \in {"verified", "lost"} : ev' = [ev EXCEPT ![t] = e]
    BY <1>4 DEF ReceiveInstall, ReceiveUninstall, Arrives
  <2>2. \A s \in Time : ev'[s] # ev[s] => ev[s] = "sent"
    BY <1>0, <2>1
  <2>3. clock <= clock'
    BY <1>0, <2>1
  <2> QED
    BY <1>2, <2>1, <2>2, <2>3, JobAside
<1>5. ASSUME NEW t \in Time, Enqueue(t) \/ Due(t) PROVE JobInv'
  BY <1>5, JobQueued DEF Enqueue, Due
<1>6. ASSUME NEW t \in Time, FallBack(t) PROVE JobInv'
  BY <1>6, JobBegun DEF FallBack, Worker, Busy
<1>7. CASE Take
  <2>1. /\ Head(queue) \in Time /\ Head(queue) = queue[1] /\ 1 \in 1..Len(queue)
    BY <1>0, <1>7, HeadTailProperties, EmptySeq, LenProperties DEF Take
  <2>2. ev[Head(queue)] = "queued"
    BY <2>1 DEF JobInv
  <2> QED
    BY <1>7, <2>1, <2>2, JobBegun DEF Take, Worker, Busy
<1>8. ASSUME NEW p \in Proc, CheckTomb(p) PROVE JobInv'
  <2>1. CASE Finish(p)
    BY <1>8, <2>1, JobFinished DEF CheckTomb, Busy
  <2>2. CASE proc' = [proc EXCEPT ![p].at = "write"] /\ UNCHANGED ev
    <3>1. SameJobs(Worker)
      BY <1>0, <1>8, <2>2 DEF CheckTomb, SameJobs, Busy, Registers, ProcOK, Doing, Worker, Proc
    <3> QED
      BY <1>1, <1>8, <2>2, <3>1 DEF CheckTomb
  <2> QED
    BY <1>8, <2>1, <2>2 DEF CheckTomb
<1>9. ASSUME NEW p \in Proc, WriteRow(p) PROVE JobInv'
  <2>1. SameJobs(Worker)
    BY <1>0, <1>9 DEF WriteRow, SameJobs, Busy, Registers, ProcOK, Doing, Worker, Proc
  <2> QED
    BY <1>1, <1>9, <2>1 DEF WriteRow
<1>10. ASSUME NEW p \in Proc, ClearTomb(p) PROVE JobInv'
  BY <1>10, JobFinished DEF ClearTomb, Busy
<1>11. ASSUME NEW p \in Proc, EraseBank(p) \/ EraseToken(p) PROVE JobInv'
  <2>1. CASE Finish(p)
    BY <1>11, <2>1, JobFinished DEF EraseBank, EraseToken, Erasing, Busy
  <2>2. CASE proc' = [proc EXCEPT ![p].step = @ + 1] /\ UNCHANGED ev
    <3>1. SameJobs(Worker)
      BY <1>0, <1>11, <2>2 DEF SameJobs, Busy, Registers, ProcOK, Doing, Worker, Proc
    <3> QED
      BY <1>1, <1>11, <2>2, <3>1 DEF EraseBank, EraseToken
  <2> QED
    BY <1>11, <2>1, <2>2 DEF EraseBank, EraseToken, StepDone
<1>12. ASSUME NEW p \in Proc, ProcFails(p) PROVE JobInv'
  <2>1. /\ Busy(p) /\ proc' = [proc EXCEPT ![p] = Free] /\ UNCHANGED <<clock, queue>>
    BY <1>12 DEF ProcFails, Busy
  <2>2. ~Busy(p)' /\ SameJobs(Worker \ {p})
    BY <1>0, <2>1, FreeTyped DEF ProcOK, Busy, SameJobs, Worker, Proc, Registers
  <2>3. CASE p = "reaper"
    BY <1>1, <1>12, <2>1, <2>2, <2>3 DEF ProcFails, SameJobs, Worker
  <2>4. CASE p \in Worker
    <3>1. \E e \in {"delayed", "failed"} : ev' = [ev EXCEPT ![proc[p].ts] = e]
      BY <1>12, <2>4 DEF ProcFails, Worker
    <3> QED
      BY <2>1, <2>2, <2>4, <3>1, JobLeft
  <2> QED
    BY <2>3, <2>4 DEF Worker, Proc
<1>13. CASE Select
  <2>1. SameJobs(Worker)
    BY <1>0, <1>13 DEF Select, ProcOK, SameJobs, Busy, Registers, Worker, Proc
  <2> QED
    BY <1>1, <1>13, <2>1 DEF Select
<1>14. ASSUME UNCHANGED vars \/ Age \/ GoToBank \/ Callback
              \/ \E r \in Refresher : RefStep(r) \/ RefresherDies(r)
       PROVE  JobInv'
  BY <1>1, <1>2, <1>14 DEF vars, Age, GoToBank, Callback, RefStep, Load, Post, SavePair,
     MarkDead, RefresherDies
<1> QED
  BY <1>3, <1>4, <1>5, <1>6, <1>7, <1>8, <1>9, <1>10, <1>11, <1>12, <1>13, <1>14
     DEF Next, Receive, ProcStep

LEMMA JobStart == Init => JobInv
  BY DEF Init, JobInv, Busy, Registers, Worker, Proc, Free

----------------------------------------------------------------------------
(***************************************************************************)
(* The reaper takes only the dead.                                         *)
(***************************************************************************)
\* A pair that somebody holds is one that Bitrix24 has given out: no newer than the
\* one it would refresh.
Known(pair) ==
  /\ pair \in Pair /\ pair.grant \in 1..clock /\ pair.rot >= 1
  /\ pair.grant = auth.grant => pair.rot <= auth.rot

\* The grant of an installation is refreshed for the first time where its event is
\* received; the row and the refreshers hold known pairs.
NewestInv ==
  auth.grant # 0 =>
    /\ auth.grant \in Installs /\ auth.grant <= clock
    /\ IF ev[auth.grant] = "sent" THEN auth.rot = 0
       ELSE ev[auth.grant] # "none" /\ auth.rot >= 1
RowKnown == row.live => Known(row.pair)
RefsKnown == \A r \in Refresher : ref[r].at # "idle" => Known(ref[r].seen)
GrantInv == NewestInv /\ RowKnown /\ RefsKnown

\* Whoever is about to mark was refused for a dead pair.  A mark is on a dead pair
\* or on a misjudged one, and so is what the reaper has seen.
Doomed(pair) == ~Works(pair) \/ pair \in misjudged
RefusedIsDead == \A r \in Refresher : ref[r].at = "mark" => ~Works(ref[r].seen)
MarkedIsDoomed == row.live /\ row.mark # "none" => Doomed(row.pair)
SeenIsDoomed == Busy("reaper") => Known(proc["reaper"].seen) /\ Doomed(proc["reaper"].seen)
DeadInv == RefusedIsDead /\ MarkedIsDoomed /\ SeenIsDoomed

\* What Bitrix24 would refresh changes by a new grant, and by a refresh.
AuthStep ==
  \/ auth' = auth /\ clock' = clock
  \/ clock' = clock + 1 /\ auth'.rot = 0 /\ auth'.grant \in {0, clock + 1}
  \/ /\ clock' = clock /\ auth'.grant = auth.grant /\ auth'.rot = auth.rot + 1

LEMMA AuthSteps ==
  ASSUME Grounded, [Next]_vars, GrantInv PROVE AuthStep
<1>0. auth \in Pair /\ clock \in Nat /\ ev \in [Time -> Event]
  BY DEF Grounded, Parts, OtherOK, EventOK
<1>1. CASE PortalActs
  BY <1>0, <1>1 DEF PortalActs, NoPair, AuthStep
<1>2. ASSUME NEW t \in Time, ReceiveInstall(t) PROVE AuthStep
  <2>1. CASE auth.grant = t
    <3>1. auth.rot = 0
      BY <1>2, <2>1 DEF ReceiveInstall, Arrives, GrantInv, NewestInv, Time
    <3> QED
      BY <1>0, <1>2, <2>1, <3>1 DEF ReceiveInstall, AuthStep, Pair
  <2>2. CASE auth.grant # t
    BY <1>2, <2>2 DEF ReceiveInstall, AuthStep
  <2> QED
    BY <2>1, <2>2
<1>3. ASSUME NEW r \in Refresher, Post(r) PROVE AuthStep
  BY <1>0, <1>3 DEF Post, AuthStep, Pair
<1>4. UNCHANGED <<auth, clock>> => AuthStep
  BY DEF AuthStep
<1>5. ASSUME NEW t \in Time, ReceiveUninstall(t) \/ Enqueue(t) \/ FallBack(t) \/ Due(t)
      PROVE  AuthStep
  BY <1>4, <1>5 DEF ReceiveUninstall, Enqueue, FallBack, Due
<1>6. ASSUME NEW p \in Proc, ProcStep(p) \/ ProcFails(p) PROVE AuthStep
  BY <1>4, <1>6 DEF ProcStep, CheckTomb, WriteRow, ClearTomb, EraseBank, EraseToken, ProcFails
<1>7. ASSUME \/ UNCHANGED vars \/ Take \/ Age \/ Select \/ GoToBank \/ Callback
             \/ \E r \in Refresher : Load(r) \/ SavePair(r) \/ MarkDead(r) \/ RefresherDies(r)
      PROVE  AuthStep
  BY <1>4, <1>7 DEF vars, Take, Age, Select, GoToBank, Callback, Load, SavePair, MarkDead,
     RefresherDies
<1> QED
  BY <1>1, <1>2, <1>3, <1>5, <1>6, <1>7 DEF Next, Receive, RefStep

\* A known pair stays known, and a dead one dead.
LEMMA KnownStays ==
  ASSUME Grounded, Grounded', AuthStep, GrantInv, NEW pair, Known(pair)
  PROVE  Known(pair)' /\ (~Works(pair) => ~Works(pair)')
<1>0. /\ pair \in Pair /\ auth \in Pair /\ clock \in Nat /\ auth' \in Pair /\ clock' \in Nat
      /\ auth.grant <= clock
  BY DEF Known, Grounded, Parts, OtherOK, GrantInv, NewestInv
<1>1. CASE UNCHANGED <<auth, clock>>
  BY <1>1 DEF Known, Works
<1>2. CASE clock' = clock + 1 /\ auth'.rot = 0 /\ auth'.grant \in {0, clock + 1}
  BY <1>0, <1>2 DEF Known, Works, Pair
<1>3. CASE clock' = clock /\ auth'.grant = auth.grant /\ auth'.rot = auth.rot + 1
  BY <1>0, <1>3 DEF Known, Works, Pair
<1> QED
  BY <1>1, <1>2, <1>3 DEF AuthStep

\* The newest grant is refreshed no earlier than its event is received.
LEMMA NewestStep ==
  ASSUME Grounded, Grounded', JobInv, [Next]_vars, GrantInv PROVE NewestInv'
<1>0. /\ auth \in Pair /\ clock \in 0..MaxTime /\ auth' \in Pair /\ clock' \in Nat
      /\ ev \in [Time -> Event] /\ ProcOK /\ queue \in Seq(Time)
  BY DEF Grounded, Parts, OtherOK, EventOK
<1>1. ASSUME UNCHANGED <<auth, clock>>,
             \A t \in Time : ev'[t] # ev[t] => {ev[t], ev'[t]} \cap {"none", "sent"} = {}
      PROVE  NewestInv'
  BY <1>1 DEF NewestInv, GrantInv, Installs
<1>2. ASSUME UNCHANGED <<auth, clock>>, NEW t \in Time, ev[t] \notin {"none", "sent"},
             NEW e, e \notin {"none", "sent"}, ev' = [ev EXCEPT ![t] = e]
      PROVE  NewestInv'
  BY <1>0, <1>1, <1>2
<1>3. CASE PortalActs
  <2>1. clock + 1 \in Time /\ clock' = clock + 1
    BY <1>0, <1>3 DEF PortalActs, Time
  <2>2. ev'[clock + 1] = "sent"
    BY <1>0, <1>3, <2>1 DEF PortalActs
  <2> QED
    BY <1>0, <1>3, <2>1, <2>2 DEF PortalActs, NoPair, NewestInv
<1>4. ASSUME NEW t \in Time, ReceiveInstall(t) PROVE NewestInv'
  <2>1. CASE auth.grant = t
    <3>1. auth'.grant = t /\ auth'.rot = 1 /\ ev'[t] = "verified" /\ UNCHANGED clock
      BY <1>0, <1>4, <2>1 DEF ReceiveInstall, Pair
    <3> QED
      BY <2>1, <3>1, <1>4 DEF NewestInv, GrantInv
  <2>2. CASE auth.grant # t
    <3>1. UNCHANGED <<auth, clock>> /\ \A s \in Time \ {t} : ev'[s] = ev[s]
      BY <1>0, <1>4, <2>2 DEF ReceiveInstall
    <3> QED
      BY <2>2, <3>1 DEF NewestInv, GrantInv, Installs
  <2> QED
    BY <2>1, <2>2
<1>5. ASSUME NEW t \in Time, ReceiveUninstall(t) PROVE NewestInv'
  <2>1. UNCHANGED <<auth, clock>> /\ (\A s \in Time \ {t} : ev'[s] = ev[s]) /\ t \notin Installs
    BY <1>0, <1>5 DEF ReceiveUninstall
  <2> QED
    BY <2>1 DEF NewestInv, GrantInv, Installs
<1>6. ASSUME NEW r \in Refresher, Post(r) PROVE NewestInv'
  <2>1. CASE Works(ref[r].seen)
    <3>1. auth.rot >= 1 /\ auth.rot \in Nat
      BY <1>0, <1>6, <2>1 DEF Works, Post, GrantInv, RefsKnown, Known, Pair
    <3>2. auth'.grant = auth.grant /\ auth'.rot = auth.rot + 1 /\ UNCHANGED <<ev, clock>>
      BY <1>0, <1>6, <2>1 DEF Post, Pair
    <3>3. auth'.rot >= 1 /\ auth.rot # 0
      BY <3>1, <3>2
    <3> QED
      BY <3>2, <3>3 DEF GrantInv, NewestInv
  <2>2. CASE ~Works(ref[r].seen)
    BY <1>1, <1>6, <2>2 DEF Post
  <2> QED
    BY <2>1, <2>2
<1>7. ASSUME NEW t \in Time, Enqueue(t) \/ FallBack(t) \/ Due(t) PROVE NewestInv'
  BY <1>2, <1>7 DEF Enqueue, FallBack, Due
<1>8. CASE Take
  <2>1. Head(queue) \in Time /\ Head(queue) = queue[1] /\ 1 \in 1..Len(queue)
    BY <1>0, <1>8, HeadTailProperties, EmptySeq, LenProperties DEF Take
  <2>2. ev[Head(queue)] = "queued"
    BY <2>1 DEF JobInv
  <2> QED
    BY <1>2, <1>8, <2>1, <2>2 DEF Take
<1>9. ASSUME NEW p \in Proc, ProcStep(p) \/ ProcFails(p) PROVE NewestInv'
  <2>1. proc[p].at # "idle" /\ UNCHANGED <<auth, clock>>
    BY <1>9 DEF ProcStep, CheckTomb, WriteRow, ClearTomb, EraseBank, EraseToken, Erasing, ProcFails
  <2>2. \/ UNCHANGED ev
        \/ p # "reaper" /\ \E e \in {"done", "delayed", "failed"} : ev' = [ev EXCEPT ![proc[p].ts] = e]
    BY <1>9 DEF ProcStep, CheckTomb, WriteRow, ClearTomb, EraseBank, EraseToken, StepDone,
       Finish, ProcFails, Proc
  <2>3. p # "reaper" => proc[p].ts \in Time /\ ev[proc[p].ts] = "active"
    BY <1>0, <2>1 DEF ProcOK, JobInv, Busy, Worker, Proc
  <2> QED
    BY <1>1, <1>2, <2>1, <2>2, <2>3
<1>10. ASSUME \/ UNCHANGED vars \/ Age \/ Select \/ GoToBank \/ Callback
              \/ \E r \in Refresher : Load(r) \/ SavePair(r) \/ MarkDead(r) \/ RefresherDies(r)
       PROVE  NewestInv'
  BY <1>1, <1>10 DEF vars, Age, Select, GoToBank, Callback, Load, SavePair, MarkDead, RefresherDies
<1> QED
  BY <1>3, <1>4, <1>5, <1>6, <1>7, <1>8, <1>9, <1>10 DEF Next, Receive, RefStep

\* The row and the refreshers get their pairs from an event that is being applied,
\* from the row, and from Bitrix24.
LEMMA HoldersStep ==
  ASSUME Grounded, Grounded', JobInv, [Next]_vars, GrantInv
  PROVE  GrantInv'
<1>0. /\ AuthStep /\ NewestInv' /\ ProcOK /\ RefOK /\ StoreOK /\ RefOK' /\ StoreOK'
      /\ clock \in Nat /\ auth \in Pair
  BY AuthSteps, NewestStep DEF Grounded, Parts, OtherOK
<1>1. ASSUME NEW pair, Known(pair) PROVE Known(pair)'
  BY <1>0, <1>1, KnownStays
<1>2. ASSUME row'.live => row.live /\ row'.pair = row.pair PROVE RowKnown'
  BY <1>1, <1>2 DEF GrantInv, RowKnown
<1>3. ASSUME UNCHANGED ref PROVE RefsKnown'
  BY <1>1, <1>3 DEF GrantInv, RefsKnown
<1>4. ASSUME UNCHANGED <<row, ref>> PROVE GrantInv'
  BY <1>0, <1>2, <1>3, <1>4 DEF GrantInv, RowKnown, RefsKnown
<1>5. ASSUME NEW p \in Proc, WriteRow(p) PROVE GrantInv'
  <2> DEFINE t == proc[p].ts
             pair == [grant |-> t, rot |-> 1]
  <2>1. t \in Time /\ ev[t] = "active" /\ t \in Installs /\ p \in Worker
    BY <1>0, <1>5 DEF WriteRow, JobInv, Busy, Registers, Worker, Proc, ProcOK
  <2>2. t <= clock
    BY <2>1 DEF JobInv
  <2>3. pair \in Pair /\ pair.grant \in 1..clock /\ pair.rot >= 1
    BY <1>0, <2>1, <2>2 DEF Pair, Time
  <2>4. pair.grant = auth.grant => pair.rot <= auth.rot
    BY <2>1 DEF GrantInv, NewestInv, Time
  <2>5. Known(pair)
    BY <2>3, <2>4 DEF Known
  <2>6. row'.pair = pair /\ UNCHANGED ref
    BY <1>5 DEF WriteRow, Saved
  <2> HIDE DEF pair
  <2> QED
    BY <1>0, <1>1, <1>3, <2>5, <2>6 DEF GrantInv, RowKnown, RefsKnown
<1>6. ASSUME NEW r \in Refresher, SavePair(r) PROVE GrantInv'
  <2>1. Known(ref[r].seen)
    BY <1>6 DEF SavePair, GrantInv, RowKnown, RefsKnown
  <2>2. row'.live => row'.pair = ref[r].seen
    BY <1>6 DEF SavePair, Refreshed, Saved
  <2>3. \A q \in Refresher : ref'[q].at # "idle" => ref'[q] = ref[q]
    BY <1>0, <1>6 DEF SavePair, RefOK, Asleep
  <2> QED
    BY <1>0, <1>1, <2>1, <2>2, <2>3 DEF GrantInv, RowKnown, RefsKnown
<1>7. ASSUME NEW r \in Refresher, MarkDead(r) \/ RefresherDies(r) PROVE GrantInv'
  <2>1. row'.live = row.live /\ row'.pair = row.pair
    BY <1>0, <1>7 DEF MarkDead, RefresherDies, StoreOK, Row
  <2>2. \A q \in Refresher : ref'[q].at # "idle" => ref'[q] = ref[q]
    BY <1>0, <1>7 DEF MarkDead, RefresherDies, RefOK, Asleep
  <2> QED
    BY <1>0, <1>1, <1>2, <2>1, <2>2 DEF GrantInv, RowKnown, RefsKnown
<1>8. ASSUME NEW r \in Refresher, Load(r) PROVE GrantInv'
  <2>1. UNCHANGED row /\ Known(row.pair)
    BY <1>8 DEF Load, GrantInv, RowKnown, RefsKnown
  <2>2. \A q \in Refresher : ref'[q] = ref[q] \/ ref'[q].seen = row.pair
    BY <1>0, <1>8 DEF Load, RefOK
  <2> QED
    BY <1>0, <1>1, <1>2, <2>1, <2>2 DEF GrantInv, RowKnown, RefsKnown
<1>9. ASSUME NEW r \in Refresher, Post(r) PROVE GrantInv'
  <2>1. Known(ref[r].seen) /\ UNCHANGED row
    BY <1>9 DEF Post, GrantInv, RowKnown, RefsKnown
  <2>2. CASE Works(ref[r].seen)
    <3>1. /\ auth'.grant = auth.grant /\ auth'.rot = auth.rot + 1 /\ UNCHANGED clock
          /\ ref' = [ref EXCEPT ![r] = [at |-> "save", seen |-> auth']]
      BY <1>0, <1>9, <2>2 DEF Post, Pair
    <3>2. auth' \in Pair
      BY DEF Grounded, Parts, OtherOK
    <3>3. auth.grant \in 1..clock /\ auth.rot >= 1 /\ auth.rot \in Nat
      BY <1>0, <2>1, <2>2 DEF Works, Known, Pair
    <3>4. Known(auth)'
      BY <3>1, <3>2, <3>3 DEF Known, Pair
    <3>5. \A q \in Refresher : ref'[q] = ref[q] \/ ref'[q].seen = auth'
      BY <1>0, <3>1 DEF RefOK
    <3> QED
      BY <1>0, <1>1, <1>2, <2>1, <3>4, <3>5 DEF GrantInv, RowKnown, RefsKnown
  <2>3. CASE ~Works(ref[r].seen)
    <3>1. \A q \in Refresher : ref'[q].seen = ref[q].seen /\ (ref'[q].at # "idle" => ref[q].at # "idle")
      BY <1>0, <1>9, <2>3 DEF Post, RefOK
    <3> QED
      BY <1>0, <1>1, <1>2, <2>1, <3>1 DEF GrantInv, RowKnown, RefsKnown
  <2> QED
    BY <2>2, <2>3
<1>10. CASE Age
  <2>1. row'.live = row.live /\ row'.pair = row.pair /\ UNCHANGED ref
    BY <1>0, <1>10 DEF Age, StoreOK, Row
  <2> QED
    BY <1>0, <1>2, <1>3, <2>1 DEF GrantInv, RowKnown, RefsKnown
<1>11. ASSUME NEW p \in Proc, EraseToken(p) PROVE GrantInv'
  <2>1. ~row'.live /\ UNCHANGED ref
    BY <1>11 DEF EraseToken, NoRow
  <2> QED
    BY <1>0, <1>3, <2>1 DEF GrantInv, RowKnown, RefsKnown
<1>12. ASSUME NEW p \in Proc, CheckTomb(p) \/ ClearTomb(p) \/ EraseBank(p) \/ ProcFails(p)
       PROVE  GrantInv'
  BY <1>4, <1>12 DEF CheckTomb, ClearTomb, EraseBank, ProcFails
<1>13. ASSUME NEW t \in Time, Receive(t) \/ Due(t) PROVE GrantInv'
  BY <1>4, <1>13 DEF Receive, Due, ReceiveInstall, ReceiveUninstall, Enqueue, FallBack
<1>14. ASSUME UNCHANGED vars \/ PortalActs \/ Take \/ Select \/ GoToBank \/ Callback
       PROVE  GrantInv'
  BY <1>4, <1>14 DEF vars, PortalActs, Take, Select, GoToBank, Callback
<1> QED
  BY <1>5, <1>6, <1>7, <1>8, <1>9, <1>10, <1>11, <1>12, <1>13, <1>14
     DEF Next, ProcStep, RefStep

LEMMA GrantStart == Init => GrantInv
  BY DEF Init, GrantInv, NewestInv, RowKnown, RefsKnown, NoPair, NoRow, Asleep

\* Only a refusal puts a pair among the misjudged, and none leaves them.
LEMMA MisjudgedGrows ==
  ASSUME [Next]_vars PROVE misjudged \subseteq misjudged'
  BY DEF Next, vars, PortalActs, Receive, ReceiveInstall, ReceiveUninstall, Enqueue, FallBack,
     Due, Take, ProcStep, CheckTomb, WriteRow, ClearTomb, EraseBank, EraseToken, ProcFails, Age,
     Select, RefStep, Load, Post, SavePair, MarkDead, RefresherDies, GoToBank, Callback

\* What a refresher was refused for stays dead.
LEMMA RefusedStep ==
  ASSUME Grounded, Grounded', GrantInv, [Next]_vars, DeadInv
  PROVE  RefusedIsDead'
<1>0. AuthStep /\ RefOK
  BY AuthSteps DEF Grounded, Parts
<1>1. ASSUME NEW r \in Refresher, ref[r].at = "mark", ref'[r] = ref[r]
      PROVE  ~Works(ref[r].seen)'
  <2>1. Known(ref[r].seen) /\ ~Works(ref[r].seen)
    BY <1>1 DEF GrantInv, RefsKnown, DeadInv, RefusedIsDead
  <2> DEFINE pair == ref[r].seen
  <2>2. Works(pair)' = Works(ref[r].seen)' /\ ref'[r].seen = ref[r].seen
    BY <1>1
  <2> QED
    BY <1>0, <2>1, <2>2, KnownStays DEF Works
<1>2. ASSUME \A r \in Refresher : ref'[r].at = "mark" => ref'[r] = ref[r]
      PROVE  RefusedIsDead'
  BY <1>1, <1>2 DEF RefusedIsDead
<1>3. ASSUME NEW r \in Refresher, Post(r) PROVE RefusedIsDead'
  <2>1. CASE Works(ref[r].seen)
    BY <1>0, <1>2, <1>3, <2>1 DEF Post, RefOK
  <2>2. CASE ~Works(ref[r].seen)
    <3>1. ref'[r].seen = ref[r].seen /\ UNCHANGED auth
      BY <1>0, <1>3, <2>2 DEF Post, RefOK
    <3>2. \A q \in Refresher \ {r} : ref'[q] = ref[q]
      BY <1>0, <1>3, <2>2 DEF Post, RefOK
    <3> QED
      BY <1>1, <2>2, <3>1, <3>2 DEF RefusedIsDead, Works
  <2> QED
    BY <2>1, <2>2
<1>4. ASSUME NEW r \in Refresher, Load(r) \/ SavePair(r) \/ MarkDead(r) \/ RefresherDies(r)
      PROVE  RefusedIsDead'
  BY <1>0, <1>2, <1>4 DEF Load, SavePair, MarkDead, RefresherDies, RefOK, Asleep
<1>5. ASSUME NEW p \in Proc, ProcStep(p) \/ ProcFails(p) PROVE RefusedIsDead'
  BY <1>2, <1>5 DEF ProcStep, CheckTomb, WriteRow, ClearTomb, EraseBank, EraseToken, ProcFails
<1>6. ASSUME NEW t \in Time, Receive(t) \/ Due(t) PROVE RefusedIsDead'
  BY <1>2, <1>6 DEF Receive, Due, ReceiveInstall, ReceiveUninstall, Enqueue, FallBack
<1>7. ASSUME \/ UNCHANGED vars \/ PortalActs \/ Take \/ Age \/ Select \/ GoToBank \/ Callback
      PROVE  RefusedIsDead'
  BY <1>2, <1>7 DEF vars, PortalActs, Take, Age, Select, GoToBank, Callback
<1> QED
  BY <1>3, <1>4, <1>5, <1>6, <1>7 DEF Next, RefStep

\* A mark goes where its pair goes, and a new one is judged as it is set.
LEMMA DoomedStep ==
  ASSUME Grounded, Grounded', JobInv, GrantInv, [Next]_vars, DeadInv
  PROVE  (MarkedIsDoomed /\ SeenIsDoomed)'
<1>0. /\ AuthStep /\ ProcOK /\ StoreOK /\ StoreOK' /\ Free.at = "idle"
  BY AuthSteps, FreeTyped DEF Grounded, Parts
<1>1. ASSUME NEW pair, Known(pair), Doomed(pair) PROVE Known(pair)' /\ Doomed(pair)'
  BY <1>0, <1>1, KnownStays, MisjudgedGrows DEF Doomed
<1>2. ASSUME row'.live /\ row'.mark # "none" =>
               row.live /\ row.mark # "none" /\ row'.pair = row.pair
      PROVE  MarkedIsDoomed'
  BY <1>1, <1>2 DEF DeadInv, MarkedIsDoomed, GrantInv, RowKnown, Doomed, Works
<1>3. ASSUME proc'["reaper"].at # "idle" => /\ proc["reaper"].at # "idle"
                                             /\ proc'["reaper"].seen = proc["reaper"].seen
      PROVE  SeenIsDoomed'
  BY <1>1, <1>3 DEF DeadInv, SeenIsDoomed, Busy, Known, Doomed, Works
<1>4. ASSUME UNCHANGED row,
             proc'["reaper"].at # "idle" => /\ proc["reaper"].at # "idle"
                                             /\ proc'["reaper"].seen = proc["reaper"].seen
      PROVE  (MarkedIsDoomed /\ SeenIsDoomed)'
  BY <1>2, <1>3, <1>4
<1>5. ASSUME NEW p \in Proc, ProcStep(p) \/ ProcFails(p) PROVE SeenIsDoomed'
  <2>1. /\ proc[p].at # "idle"
        /\ \/ proc' = [proc EXCEPT ![p] = Free]
           \/ proc' = [proc EXCEPT ![p].step = @ + 1]
           \/ \E a \in {"write", "clear"} : proc' = [proc EXCEPT ![p].at = a]
    BY <1>5 DEF ProcStep, CheckTomb, WriteRow, ClearTomb, EraseBank, EraseToken, Erasing,
       StepDone, Finish, ProcFails
  <2>2. CASE proc' = [proc EXCEPT ![p] = Free]
    BY <1>0, <1>3, <2>2 DEF ProcOK
  <2>3. CASE proc' = [proc EXCEPT ![p].step = @ + 1]
    BY <1>0, <1>3, <2>1, <2>3 DEF ProcOK, Doing
  <2>4. ASSUME NEW a \in {"write", "clear"}, proc' = [proc EXCEPT ![p].at = a] PROVE SeenIsDoomed'
    BY <1>0, <1>3, <2>1, <2>4 DEF ProcOK, Doing
  <2> QED
    BY <2>1, <2>2, <2>3, <2>4
<1>6. ASSUME NEW p \in Proc, ProcStep(p) \/ ProcFails(p) PROVE MarkedIsDoomed'
  <2>1. CASE WriteRow(p)
    BY <1>2, <2>1 DEF WriteRow, Saved
  <2>2. CASE EraseToken(p)
    BY <1>2, <2>2 DEF EraseToken, NoRow
  <2>3. CASE CheckTomb(p) \/ ClearTomb(p) \/ EraseBank(p) \/ ProcFails(p)
    BY <1>2, <2>3 DEF CheckTomb, ClearTomb, EraseBank, ProcFails
  <2> QED
    BY <1>6, <2>1, <2>2, <2>3 DEF ProcStep
<1>7. CASE Age
  <2>1. row.mark = "fresh" /\ row' = [row EXCEPT !.mark = "old"] /\ UNCHANGED proc
    BY <1>7 DEF Age
  <2>2. row'.live = row.live /\ row'.pair = row.pair
    BY <1>0, <2>1 DEF StoreOK, Row
  <2> QED
    BY <1>2, <1>3, <2>1, <2>2
<1>8. CASE Select
  <2> DEFINE run == [Free EXCEPT !.at = "purge", !.ts = RunTime, !.seen = row.pair]
  <2>1. row.pair \in Pair /\ clock \in 0..MaxTime
    BY <1>0 DEF StoreOK, Row, Grounded, Parts, OtherOK
  <2>2. run.seen = row.pair
    BY <2>1, FreeTyped DEF RunTime, Doing
  <2>3. proc' = [proc EXCEPT !["reaper"] = run] /\ row.live /\ row.mark = "old"
        /\ UNCHANGED <<row, auth, clock, misjudged>>
    BY <1>8 DEF Select
  <2> HIDE DEF run
  <2>4. proc'["reaper"].seen = row.pair
    BY <1>0, <2>2, <2>3 DEF ProcOK, Proc
  <2>5. Known(row.pair) /\ Doomed(row.pair)
    BY <2>3 DEF GrantInv, RowKnown, DeadInv, MarkedIsDoomed
  <2>6. SeenIsDoomed'
    BY <2>3, <2>4, <2>5 DEF SeenIsDoomed, Known, Doomed, Works
  <2> QED
    BY <1>2, <2>3, <2>6
<1>9. ASSUME NEW r \in Refresher, SavePair(r) PROVE (MarkedIsDoomed /\ SeenIsDoomed)'
  <2>1. row'.live /\ row'.mark # "none" => row' = row
    BY <1>9 DEF SavePair, Refreshed, Saved
  <2> QED
    BY <1>2, <1>3, <1>9, <2>1 DEF SavePair
<1>10. ASSUME NEW r \in Refresher, MarkDead(r) PROVE (MarkedIsDoomed /\ SeenIsDoomed)'
  <2>1. row'.live = row.live /\ row'.pair = row.pair /\ UNCHANGED <<auth, proc>>
    BY <1>0, <1>10 DEF MarkDead, StoreOK, Row
  <2>2. CASE row.mark # "none"
    BY <1>2, <1>3, <2>1, <2>2
  <2>3. CASE row.mark = "none" /\ row.live
    <3>1. row.pair = ref[r].seen => ~Works(row.pair)
      BY <1>10 DEF MarkDead, DeadInv, RefusedIsDead
    <3>2. row.pair # ref[r].seen => row.pair \in misjudged'
      BY <1>10, <2>3 DEF MarkDead
    <3>3. MarkedIsDoomed'
      BY <2>1, <3>1, <3>2 DEF MarkedIsDoomed, Doomed, Works
    <3> QED
      BY <1>3, <2>1, <3>3
  <2>4. CASE ~row.live
    BY <1>2, <1>3, <2>1, <2>4
  <2> QED
    BY <2>2, <2>3, <2>4
<1>11. ASSUME NEW t \in Time, FallBack(t) PROVE (MarkedIsDoomed /\ SeenIsDoomed)'
  BY <1>0, <1>4, <1>11 DEF FallBack, ProcOK
<1>12. CASE Take
  BY <1>0, <1>4, <1>12 DEF Take, ProcOK
<1>13. ASSUME \/ UNCHANGED vars \/ PortalActs \/ GoToBank \/ Callback
              \/ \E r \in Refresher : Load(r) \/ Post(r) \/ RefresherDies(r)
              \/ \E t \in Time : ReceiveInstall(t) \/ ReceiveUninstall(t) \/ Enqueue(t) \/ Due(t)
       PROVE  UNCHANGED <<row, proc>>
  BY <1>13 DEF vars, PortalActs, GoToBank, Callback, Load, Post, RefresherDies,
     ReceiveInstall, ReceiveUninstall, Enqueue, Due
<1> QED
  BY <1>4, <1>5, <1>6, <1>7, <1>8, <1>9, <1>10, <1>11, <1>12, <1>13
     DEF Next, Receive, RefStep

LEMMA DeadStart == Init => DeadInv
  BY FreeTyped DEF Init, DeadInv, RefusedIsDead, MarkedIsDoomed, SeenIsDoomed, Busy, NoRow,
     Proc, Asleep

\* The reaper erases a pair that is dead, one that has taken the place of the dead pair
\* it saw, or one that was marked for another's refusal, however refreshes,
\* reinstallations and removals cross its run and however long the portal is silent.
THEOREM ReaperTakesTheDead == Spec => ErasedOnlyDead
<1>1. Init => JobInv /\ GrantInv /\ DeadInv
  BY JobStart, GrantStart, DeadStart
<1>2. Grounded /\ Grounded' /\ [Next]_vars /\ (JobInv /\ GrantInv /\ DeadInv)
      => (JobInv /\ GrantInv /\ DeadInv)'
  BY JobStep, HoldersStep, RefusedStep, DoomedStep DEF DeadInv
<1>3. DeadInv => (Reaped => \/ row.pair # proc["reaper"].seen \/ ~Works(row.pair)
                            \/ row.pair \in misjudged)
  BY DEF DeadInv, SeenIsDoomed, Doomed, Busy, Reaped, Erasing
<1> QED
  BY <1>1, <1>2, <1>3, GroundedAlways, PTL DEF Spec, ErasedOnlyDead

----------------------------------------------------------------------------
(***************************************************************************)
(* The newest event decides.                                               *)
(***************************************************************************)
\* Unless something has spoilt the order: a stored installation and a tombstone are
\* of applied events, the row is that of the newest stored installation and stands
\* exactly while no newer tombstone does; whatever has been applied is older than one
\* of the two; a registration that has been let through is newer than the tombstone.
Begun == {"queued", "active", "delayed", "done", "failed"}
StoredOrder == stored # 0 => stored \in Installs /\ ev[stored] \in Begun
TombOrder == tomb # 0 => tomb \notin Installs /\ ev[tomb] = "done"
RowOrder == (row.live <=> tomb < stored) /\ (row.live => row.pair.grant = stored)
AppliedOrder == \A t \in Applied : t <= stored \/ t <= tomb
SavingOrder == \A p \in Proc : /\ proc[p].at = "write" => tomb < proc[p].ts
                               /\ proc[p].at = "clear" => proc[p].ts <= stored
Ordered == StoredOrder /\ TombOrder /\ RowOrder /\ AppliedOrder /\ SavingOrder
OrderInv == excuse = {} => Ordered

\* An event that has been accepted is not accepted again, one applied stays so.
LEMMA EventsGoOn ==
  ASSUME Grounded, JobInv, [Next]_vars, NEW t \in Time
  PROVE  /\ ev[t] \in Begun => ev'[t] \in Begun
         /\ ev[t] = "done" => ev'[t] = "done"
         /\ ev'[t] = "done" /\ ev[t] # "done" => \E p \in Proc \ {"reaper"} : Finish(p) /\ proc[p].ts = t
<1>0. ev \in [Time -> Event] /\ ProcOK /\ clock \in 0..MaxTime /\ queue \in Seq(Time)
  BY DEF Grounded, Parts, EventOK, OtherOK
<1>1. CASE UNCHANGED ev
  BY <1>1
<1>2. CASE PortalActs
  <2>1. clock + 1 \in Time /\ ev' = [ev EXCEPT ![clock + 1] = "sent"]
    BY <1>0, <1>2 DEF PortalActs, Time
  <2>2. ev[clock + 1] = "none"
    BY <1>0, <2>1 DEF JobInv
  <2> QED
    BY <1>0, <2>1, <2>2 DEF Begun
<1>3. ASSUME NEW s \in Time, Receive(s) \/ Due(s)
      PROVE  (ev[t] \in Begun => ev'[t] \in Begun) /\ (ev[t] = "done" <=> ev'[t] = "done")
  <2>1. /\ ev[s] # "done" /\ (ev[s] \in Begun => ev[s] = "delayed")
        /\ \/ \E e \in {"verified", "lost"} : ev' = [ev EXCEPT ![s] = e] /\ ev[s] = "sent"
           \/ \E e \in {"queued", "active"} : ev' = [ev EXCEPT ![s] = e]
    BY <1>3 DEF Receive, ReceiveInstall, ReceiveUninstall, Arrives, Enqueue, FallBack, Due, Begun
  <2> QED
    BY <1>0, <2>1 DEF Begun
<1>4. CASE Take
  <2>1. Head(queue) \in Time /\ Head(queue) = queue[1] /\ 1 \in 1..Len(queue)
    BY <1>0, <1>4, HeadTailProperties, EmptySeq, LenProperties DEF Take
  <2>2. ev[Head(queue)] = "queued"
    BY <2>1 DEF JobInv
  <2> QED
    BY <1>0, <1>4, <2>1, <2>2 DEF Take, Begun
<1>5. ASSUME NEW p \in Proc, Finish(p)
      PROVE  \/ UNCHANGED ev
             \/ /\ ev[t] \in Begun => ev'[t] \in Begun
                /\ ev[t] = "done" => ev'[t] = "done"
                /\ ev'[t] = "done" /\ ev[t] # "done" => p # "reaper" /\ proc[p].ts = t
  BY <1>0, <1>5 DEF Finish, Begun
<1>6. ASSUME NEW p \in Proc, ProcStep(p) PROVE UNCHANGED ev \/ Finish(p)
  BY <1>6 DEF ProcStep, CheckTomb, WriteRow, ClearTomb, EraseBank, EraseToken, StepDone
<1>7. ASSUME NEW p \in Proc, ProcFails(p)
      PROVE  (ev[t] \in Begun => ev'[t] \in Begun) /\ (ev[t] = "done" <=> ev'[t] = "done")
  <2>1. UNCHANGED ev \/ /\ p \in Worker
                        /\ \E e \in {"delayed", "failed"} : ev' = [ev EXCEPT ![proc[p].ts] = e]
    BY <1>7 DEF ProcFails, Proc, Worker
  <2>2. p \in Worker => proc[p].ts \in Time /\ ev[proc[p].ts] = "active"
    BY <1>0, <1>7 DEF ProcFails, ProcOK, JobInv, Busy
  <2> QED
    BY <1>0, <2>1, <2>2 DEF Begun
<1>8. ASSUME \/ UNCHANGED vars \/ Age \/ Select \/ GoToBank \/ Callback
             \/ \E r \in Refresher : RefStep(r) \/ RefresherDies(r)
      PROVE  UNCHANGED ev
  BY <1>8 DEF vars, Age, Select, GoToBank, Callback, RefStep, Load, Post, SavePair, MarkDead,
     RefresherDies
<1> QED
  BY <1>1, <1>2, <1>3, <1>4, <1>5, <1>6, <1>7, <1>8 DEF Next

\* The order is undisturbed by a step that leaves the row's grant, the newest stored
\* installation and the tombstone, and lets nothing through that is older.
LEMMA OrderAside ==
  ASSUME Grounded, Grounded', JobInv, [Next]_vars, OrderInv, UNCHANGED <<tomb, stored>>,
         excuse' = {} => excuse = {} /\ (row'.live <=> row.live)
                         /\ (row.live => row'.pair.grant = row.pair.grant),
         \A t \in Time : ev'[t] = "done" /\ ev[t] # "done" /\ excuse = {} => t <= stored \/ t <= tomb,
         \A p \in Proc :
           /\ proc'[p].at = "write" => tomb < proc'[p].ts \/ proc'[p] = proc[p]
           /\ proc'[p].at = "clear" => proc'[p] = proc[p]
  PROVE  OrderInv'
<1> SUFFICES ASSUME excuse' = {} PROVE Ordered'
  BY DEF OrderInv
<1>0. Ordered /\ StoreOK
  BY DEF OrderInv, Grounded, Parts
<1>1. StoredOrder'
  BY <1>0, EventsGoOn DEF Ordered, StoredOrder, Installs
<1>2. TombOrder'
  BY <1>0, EventsGoOn DEF Ordered, TombOrder, StoreOK, Time
<1>3. RowOrder'
  BY <1>0 DEF Ordered, RowOrder
<1>4. AppliedOrder'
  BY <1>0 DEF Ordered, AppliedOrder, Applied
<1>5. SavingOrder'
  BY <1>0 DEF Ordered, SavingOrder
<1> QED
  BY <1>1, <1>2, <1>3, <1>4, <1>5 DEF Ordered

\* What a process works on is an accepted event that has not been applied.
LEMMA AtWork ==
  ASSUME Grounded, JobInv, NEW p \in Proc \ {"reaper"}, proc[p].at # "idle"
  PROVE  /\ proc[p].ts \in Time /\ ev[proc[p].ts] = "active"
         /\ proc[p].at \in {"check", "write", "clear"} <=> proc[p].ts \in Installs
  BY DEF Grounded, Parts, ProcOK, JobInv, Busy, Registers, Worker, Proc

LEMMA WriteOrder ==
  ASSUME Grounded, Grounded', JobInv, [Next]_vars, OrderInv, NEW p \in Proc, WriteRow(p)
  PROVE  OrderInv'
<1> SUFFICES ASSUME excuse' = {} PROVE Ordered'
  BY DEF OrderInv
<1> DEFINE t == proc[p].ts
<1>0. ProcOK /\ StoreOK /\ excuse = {} /\ Ordered
  BY DEF WriteRow, OrderInv, Grounded, Parts
<1>1. t \in Time /\ t \in Installs /\ ev[t] = "active" /\ p # "reaper"
  BY <1>0, AtWork DEF WriteRow, ProcOK
<1>2. stored <= t /\ stored' = t /\ UNCHANGED <<ev, tomb>> /\ tomb < t
  BY <1>0, <1>1 DEF WriteRow, Larger, StoreOK, Time, Ordered, SavingOrder
<1>3. row'.live /\ row'.pair.grant = t
  BY DEF WriteRow, Saved
<1>4. proc'[p].at = "clear" /\ proc'[p].ts = t /\ \A q \in Proc \ {p} : proc'[q] = proc[q]
  BY <1>0 DEF WriteRow, ProcOK, Doing
<1>5. StoredOrder' /\ TombOrder'
  BY <1>0, <1>1, <1>2 DEF StoredOrder, TombOrder, Ordered, Begun
<1>6. RowOrder'
  BY <1>2, <1>3 DEF RowOrder
<1>7. AppliedOrder'
  BY <1>0, <1>1, <1>2 DEF AppliedOrder, Ordered, Applied, Time, StoreOK
<1>8. SavingOrder'
  <2>1. proc'[p].at = "clear" /\ proc'[p].ts <= stored'
    BY <1>1, <1>2, <1>4 DEF Time
  <2>2. ASSUME NEW q \in Proc \ {p}
        PROVE  /\ proc'[q].at = "write" => tomb' < proc'[q].ts
               /\ proc'[q].at = "clear" => proc'[q].ts <= stored'
    <3>1. proc'[q] = proc[q] /\ proc[q].ts \in 0..MaxTime
      BY <1>0, <1>4 DEF ProcOK, Doing
    <3> QED
      BY <1>0, <1>1, <1>2, <3>1 DEF Ordered, SavingOrder, StoreOK, Time
  <2> QED
    BY <2>1, <2>2 DEF SavingOrder
<1> QED
  BY <1>5, <1>6, <1>7, <1>8 DEF Ordered

LEMMA ClearOrder ==
  ASSUME Grounded, Grounded', JobInv, [Next]_vars, OrderInv, NEW p \in Proc, ClearTomb(p)
  PROVE  OrderInv'
<1> SUFFICES ASSUME excuse' = {} PROVE Ordered'
  BY DEF OrderInv
<1> DEFINE t == proc[p].ts
<1>0. ProcOK /\ StoreOK /\ excuse = {} /\ Ordered /\ UNCHANGED <<row, stored>>
  BY DEF ClearTomb, OrderInv, Grounded, Parts
<1>1. t \in Time /\ ev[t] = "active" /\ p # "reaper" /\ t <= stored
  BY <1>0, AtWork DEF ClearTomb, ProcOK, Ordered, SavingOrder
<1>2. tomb' = tomb \/ (tomb < t /\ tomb' = 0)
  BY DEF ClearTomb
<1>3. \A q \in Proc : proc'[q].at # "idle" => proc'[q] = proc[q]
  BY <1>0, FreeOK, FreeTyped DEF ClearTomb, Finish
<1>4. \A s \in Time : ev'[s] = "done" => ev[s] = "done" \/ s = t
  BY <1>1 DEF ClearTomb, Finish, Grounded, Parts, EventOK
<1>5. StoredOrder'
  BY <1>0, EventsGoOn DEF Ordered, StoredOrder, Installs
<1>6. TombOrder'
  BY <1>0, <1>2, EventsGoOn DEF Ordered, TombOrder, StoreOK, Time
<1>7. RowOrder'
  BY <1>0, <1>1, <1>2 DEF Ordered, RowOrder, StoreOK, Time
<1>8. AppliedOrder'
  BY <1>0, <1>1, <1>2, <1>4 DEF Ordered, AppliedOrder, Applied, StoreOK, Time
<1>9. SavingOrder'
  <2> SUFFICES ASSUME NEW q \in Proc, proc'[q].at # "idle"
               PROVE  /\ proc'[q].at = "write" => tomb' < proc'[q].ts
                      /\ proc'[q].at = "clear" => proc'[q].ts <= stored'
    BY DEF SavingOrder
  <2>1. proc'[q] = proc[q] /\ proc[q].ts \in Time
    BY <1>0, <1>3 DEF ProcOK
  <2> QED
    BY <1>0, <1>2, <2>1 DEF Ordered, SavingOrder, Time
<1> QED
  BY <1>5, <1>6, <1>7, <1>8, <1>9 DEF Ordered

LEMMA EraseOrder ==
  ASSUME Grounded, Grounded', JobInv, [Next]_vars, OrderInv, NEW p \in Proc, EraseToken(p)
  PROVE  OrderInv'
<1> SUFFICES ASSUME excuse' = {} PROVE Ordered'
  BY DEF OrderInv
<1> DEFINE t == proc[p].ts
<1>0. ProcOK /\ StoreOK /\ excuse = {} /\ Ordered /\ UNCHANGED stored
  BY DEF EraseToken, OrderInv, Grounded, Parts
<1>1. /\ p # "reaper" /\ stored <= t
      /\ \A q \in Proc \ {p} : proc[q].at = "write" => ~(proc[q].ts < t)
  <2>1. ~(p = "reaper") /\ ~(p # "reaper" /\ stored > t)
        /\ ~(\E q \in Proc \ {p} : proc[q].at = "write" /\ proc[q].ts < t)
    BY DEF EraseToken
  <2>2. stored \in Int /\ t \in Int
    BY <1>0 DEF StoreOK, ProcOK, Doing
  <2> QED
    BY <2>1, <2>2
<1>2. t \in Time /\ ev[t] = "active" /\ t \notin Installs /\ proc[p].at = "purge"
  BY <1>0, <1>1, AtWork DEF EraseToken, Erasing
<1>3. Finish(p)
  <2>1. proc[p].step = 2
    BY <1>0, EraseSteps DEF EraseToken
  <2> QED
    BY <2>1, PurgeIsTwo DEF EraseToken, StepDone
<1>4. /\ \A q \in Proc : proc'[q].at # "idle" => q # p /\ proc'[q] = proc[q]
      /\ ev' = [ev EXCEPT ![t] = "done"]
  BY <1>0, <1>1, <1>3, FreeOK, FreeTyped DEF Finish
<1>5. /\ tomb' = Larger(tomb, t) /\ ~row'.live /\ ev \in [Time -> Event]
  BY DEF EraseToken, Tombstone, NoRow, Grounded, Parts, EventOK
<1>6. StoredOrder'
  BY <1>0, EventsGoOn DEF Ordered, StoredOrder, Installs
<1>7. TombOrder'
  <2>1. ev'[t] = "done" /\ (tomb # 0 => ev'[tomb] = "done")
    BY <1>0, <1>2, <1>4, <1>5, EventsGoOn DEF Ordered, TombOrder, StoreOK, Time
  <2> QED
    BY <1>0, <1>2, <1>5, <2>1 DEF Ordered, TombOrder, Larger
<1>8. RowOrder'
  BY <1>0, <1>1, <1>2, <1>5 DEF RowOrder, StoreOK, Time, Larger
<1>9. AppliedOrder'
  BY <1>0, <1>2, <1>4, <1>5 DEF Ordered, AppliedOrder, Applied, StoreOK, Time, Larger
<1>10. SavingOrder'
  <2> SUFFICES ASSUME NEW q \in Proc, proc'[q].at # "idle"
               PROVE  /\ proc'[q].at = "write" => tomb' < proc'[q].ts
                      /\ proc'[q].at = "clear" => proc'[q].ts <= stored'
    BY DEF SavingOrder
  <2>1. q # p /\ proc'[q] = proc[q] /\ proc[q].ts \in Time
    BY <1>0, <1>4 DEF ProcOK
  <2>2. ASSUME proc[q].at = "write" PROVE t < proc[q].ts
    <3>1. proc[q].ts \in Installs
      BY <1>0, <2>1, <2>2, AtWork DEF ProcOK
    <3> QED
      BY <1>1, <1>2, <2>1, <2>2, <3>1 DEF Time
  <2> QED
    BY <1>0, <1>5, <2>1, <2>2 DEF Ordered, SavingOrder, Larger
<1> QED
  BY <1>6, <1>7, <1>8, <1>9, <1>10 DEF Ordered

LEMMA OrderStep ==
  ASSUME Grounded, Grounded', JobInv, [Next]_vars, OrderInv PROVE OrderInv'
<1>0. ProcOK /\ StoreOK /\ EventOK
  BY DEF Grounded, Parts
<1>1. ASSUME UNCHANGED <<tomb, stored, excuse>>, row'.live = row.live, row'.pair = row.pair,
             \A t \in Time : ev'[t] = "done" => ev[t] = "done",
             \A q \in Proc : proc'[q] # proc[q] => proc'[q].at \notin {"write", "clear"}
      PROVE  OrderInv'
  BY <1>1, OrderAside
<1>2. ASSUME NEW p \in Proc, CheckTomb(p) PROVE OrderInv'
  <2> DEFINE t == proc[p].ts
  <2>1. p # "reaper" /\ t \in Time /\ UNCHANGED <<tomb, stored, excuse, row>>
    BY <1>0, <1>2 DEF CheckTomb, ProcOK
  <2>2. CASE Blocked(t) /\ Finish(p)
    <3>1. /\ \A s \in Time : ev'[s] = "done" /\ ev[s] # "done" => s <= tomb
          /\ \A q \in Proc : proc'[q] # proc[q] => proc'[q].at = "idle"
      BY <1>0, <2>1, <2>2, FreeOK, FreeTyped DEF Finish, Blocked, EventOK, StoreOK, Time
    <3> QED
      BY <2>1, <3>1, OrderAside
  <2>3. CASE ~Blocked(t) /\ proc' = [proc EXCEPT ![p].at = "write"] /\ UNCHANGED ev
    <3>1. tomb < t
      BY <1>0, <2>1, <2>3 DEF Blocked, StoreOK, Time
    <3>2. proc'[p].at = "write" /\ proc'[p].ts = t /\ \A q \in Proc \ {p} : proc'[q] = proc[q]
      BY <1>0, <2>3 DEF ProcOK, Doing
    <3>3. \A q \in Proc : /\ proc'[q].at = "write" => tomb < proc'[q].ts \/ proc'[q] = proc[q]
                          /\ proc'[q].at = "clear" => proc'[q] = proc[q]
      BY <3>1, <3>2
    <3> QED
      BY <2>1, <2>3, <3>3, OrderAside
  <2> QED
    BY <1>2, <2>2, <2>3 DEF CheckTomb
<1>3. ASSUME NEW p \in Proc, EraseBank(p) PROVE OrderInv'
  <2>1. proc[p].step = 1 /\ proc[p].at = "purge"
    BY <1>0, <1>3, EraseSteps DEF EraseBank
  <2>2. proc' = [proc EXCEPT ![p].step = @ + 1] /\ UNCHANGED ev
    BY <1>3, <2>1, PurgeIsTwo DEF EraseBank, StepDone
  <2>3. \A q \in Proc : proc'[q] # proc[q] => proc'[q].at = "purge"
    BY <1>0, <2>1, <2>2 DEF ProcOK, Doing
  <2> QED
    BY <1>1, <1>3, <2>2, <2>3 DEF EraseBank
<1>4. ASSUME NEW p \in Proc, ProcFails(p) PROVE OrderInv'
  <2>1. \A q \in Proc : proc'[q] # proc[q] => proc'[q].at = "idle"
    BY <1>0, <1>4, FreeOK, FreeTyped DEF ProcFails
  <2>2. UNCHANGED ev \/ \E e \in {"delayed", "failed"} : ev' = [ev EXCEPT ![proc[p].ts] = e]
    BY <1>4 DEF ProcFails, Proc
  <2>3. \A t \in Time : ev'[t] = "done" => ev[t] = "done"
    BY <1>0, <2>2 DEF EventOK
  <2> QED
    BY <1>1, <1>4, <2>1, <2>3 DEF ProcFails
<1>5. ASSUME NEW r \in Refresher, SavePair(r) PROVE OrderInv'
  <2>1. excuse' = {} => excuse = {} /\ (row'.live <=> row.live)
                        /\ (row.live => row'.pair.grant = row.pair.grant)
    BY <1>5 DEF SavePair, Refreshed, Saved
  <2>2. UNCHANGED <<tomb, stored, ev, proc>>
    BY <1>5 DEF SavePair
  <2> QED
    BY <2>1, <2>2, OrderAside
<1>6. ASSUME NEW r \in Refresher, MarkDead(r) PROVE OrderInv'
  <2>1. row'.live = row.live /\ row'.pair = row.pair
    BY <1>0, <1>6 DEF MarkDead, StoreOK, Row
  <2> QED
    BY <1>1, <1>6, <2>1 DEF MarkDead
<1>7. CASE Age
  <2>1. row'.live = row.live /\ row'.pair = row.pair
    BY <1>0, <1>7 DEF Age, StoreOK, Row
  <2> QED
    BY <1>1, <1>7, <2>1 DEF Age
<1>8. ASSUME NEW p \in {"worker", "http"}, NEW t \in Time, proc' = [proc EXCEPT ![p] = Started(t)],
             ev' = [ev EXCEPT ![t] = "active"], UNCHANGED <<tomb, stored, excuse, row>>
      PROVE  OrderInv'
  <2>1. \A q \in Proc : proc'[q] # proc[q] => proc'[q].at \notin {"write", "clear"}
    BY <1>0, <1>8, StartOK
  <2>2. \A s \in Time : ev'[s] = "done" => ev[s] = "done"
    BY <1>0, <1>8 DEF EventOK
  <2> QED
    BY <1>1, <1>8, <2>1, <2>2
<1>9. CASE Take
  <2>1. Head(queue) \in Time
    BY <1>0, <1>9, HeadTailProperties DEF Take, EventOK
  <2> QED
    BY <1>8, <1>9, <2>1 DEF Take
<1>10. ASSUME NEW t \in Time, FallBack(t) PROVE OrderInv'
  BY <1>8, <1>10 DEF FallBack
<1>11. CASE Select
  <2>1. \A q \in Proc : proc'[q] # proc[q] => q = "reaper"
    BY <1>0, <1>11 DEF Select, ProcOK
  <2>2. ProcOK'
    BY DEF Grounded, Parts
  <2>3. \A q \in Proc : proc'[q] # proc[q] => proc'[q].at \notin {"write", "clear"}
    BY <2>1, <2>2 DEF ProcOK
  <2> QED
    BY <1>1, <1>11, <2>3 DEF Select
<1>12. ASSUME NEW t \in Time, ReceiveInstall(t) \/ ReceiveUninstall(t) \/ Enqueue(t) \/ Due(t)
       PROVE  OrderInv'
  <2>1. \E e \in {"verified", "lost", "queued"} : ev' = [ev EXCEPT ![t] = e]
    BY <1>12 DEF ReceiveInstall, ReceiveUninstall, Enqueue, Due
  <2>2. \A s \in Time : ev'[s] = "done" => ev[s] = "done"
    BY <1>0, <2>1 DEF EventOK
  <2> QED
    BY <1>1, <1>12, <2>2 DEF ReceiveInstall, ReceiveUninstall, Enqueue, Due
<1>13. CASE PortalActs
  <2>1. \A s \in Time : ev'[s] = "done" => ev[s] = "done"
    BY <1>0, <1>13 DEF PortalActs, EventOK
  <2> QED
    BY <1>1, <1>13, <2>1 DEF PortalActs
<1>14. ASSUME \/ UNCHANGED vars \/ GoToBank \/ Callback
              \/ \E r \in Refresher : Load(r) \/ Post(r) \/ RefresherDies(r)
       PROVE  OrderInv'
  BY <1>1, <1>14 DEF vars, GoToBank, Callback, Load, Post, RefresherDies
<1> QED
  BY <1>2, <1>3, <1>4, <1>5, <1>6, <1>7, <1>9, <1>10, <1>11, <1>12, <1>13, <1>14,
     WriteOrder, ClearOrder, EraseOrder DEF Next, Receive, ProcStep, RefStep

LEMMA OrderStart == Init => OrderInv
<1> SUFFICES ASSUME Init PROVE Ordered
  BY DEF OrderInv
<1>1. stored = 0 /\ tomb = 0 /\ ~row.live /\ Applied = {}
  BY DEF Init, NoRow, Applied
<1>2. \A p \in Proc : proc[p].at = "idle"
  BY FreeTyped DEF Init
<1> QED
  BY <1>1, <1>2 DEF Ordered, StoredOrder, TombOrder, RowOrder, AppliedOrder, SavingOrder

\* When the accepted events have all been applied, the newest of them is the newest
\* stored installation or the tombstone.
LEMMA OrderDecides ==
  ASSUME Grounded, JobInv, OrderInv PROVE NewestDecidesElse
<1> SUFFICES ASSUME excuse = {}, Quiet, Applied # {}
             PROVE  /\ row.live <=> Newest \in Installs
                    /\ row.live => row.pair.grant = Newest
  BY DEF NewestDecidesElse, NewestDecides
<1>0. Ordered /\ StoreOK
  BY DEF OrderInv, Grounded, Parts
<1> DEFINE m == Larger(stored, tomb)
<1>1. stored # 0 => stored \in Applied
  BY <1>0 DEF Ordered, StoredOrder, Quiet, Begun, Applied, Installs
<1>2. tomb # 0 => tomb \in Applied
  BY <1>0 DEF Ordered, TombOrder, Applied, StoreOK, Time
<1>3. \A s \in Applied : s \in Nat \ {0} /\ s <= m
  BY <1>0 DEF Ordered, AppliedOrder, Applied, StoreOK, Time, Larger
<1>4. m \in Applied
  BY <1>0, <1>1, <1>2, <1>3 DEF Larger, StoreOK
<1>5. Newest \in Applied /\ \A s \in Applied : s <= Newest
  BY <1>3, <1>4 DEF Newest
<1>6. Newest = m
  BY <1>3, <1>4, <1>5
<1>7. stored # tomb
  BY <1>0, <1>3, <1>4 DEF Ordered, StoredOrder, TombOrder, Larger
<1>8. tomb < stored <=> m \in Installs
  BY <1>0, <1>3, <1>4, <1>7 DEF Ordered, StoredOrder, TombOrder, Larger, StoreOK
<1> QED
  BY <1>0, <1>6, <1>8 DEF Ordered, RowOrder, Larger, StoreOK

\* With every accepted event applied, the newest of them has decided what is kept of
\* the portal, unless one of the four things that spoil the order has happened.
THEOREM NewestWins == Spec => []NewestDecidesElse
<1>1. Init => JobInv /\ OrderInv
  BY JobStart, OrderStart
<1>2. Grounded /\ Grounded' /\ [Next]_vars /\ (JobInv /\ OrderInv) => (JobInv /\ OrderInv)'
  BY JobStep, OrderStep
<1>3. Grounded /\ JobInv /\ OrderInv => NewestDecidesElse
  BY OrderDecides
<1> QED
  BY <1>1, <1>2, <1>3, GroundedAlways, PTL DEF Spec
====
