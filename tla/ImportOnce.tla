----------------------------- MODULE ImportOnce -----------------------------
(***************************************************************************)
(* What the import promises about an operation, whatever the queue does:   *)
(* its target is paid at most once and only before the operation counts as *)
(* recorded, it is recorded after its payment and its ledger row and never *)
(* unrecorded, and people are told about it once, when it is recorded.  A  *)
(* target that a paid attempt leaves behind may miss its row.              *)
(***************************************************************************)
EXTENDS Naturals

CONSTANTS
  Op,        \* operations
  MustPay,   \* operations whose target the import pays
  MayEnter,  \* operations that enter the distribution ledger
  MustEnter  \* of these, the ones whose row cannot be missed

VARIABLES
  paid,      \* how often the target of an operation was paid
  entered,   \* operations whose ledger row is written and summed up
  recorded,  \* operations a later run will skip
  alerted,   \* messages to the error chat
  posted     \* messages to the payments chat

vars == <<paid, entered, recorded, alerted, posted>>

Init ==
  /\ paid = [o \in Op |-> 0]
  /\ entered = {}
  /\ recorded = {}
  /\ alerted = [o \in Op |-> 0]
  /\ posted = [o \in Op |-> 0]

Pay(o) ==
  /\ o \in MustPay \ recorded
  /\ paid[o] = 0
  /\ paid' = [paid EXCEPT ![o] = 1]
  /\ UNCHANGED <<entered, recorded, alerted, posted>>

Enter(o) ==
  /\ o \in MayEnter \ recorded
  /\ o \in MustPay => paid[o] = 1
  /\ entered' = entered \cup {o}
  /\ UNCHANGED <<paid, recorded, alerted, posted>>

Record(o) ==
  /\ o \notin recorded
  /\ o \in MustPay => paid[o] = 1
  /\ o \in MustEnter => o \in entered
  /\ recorded' = recorded \cup {o}
  /\ UNCHANGED <<paid, entered, alerted, posted>>

Alert(o) ==
  /\ o \in recorded
  /\ alerted[o] = 0
  /\ alerted' = [alerted EXCEPT ![o] = 1]
  /\ UNCHANGED <<paid, entered, recorded, posted>>

Post(o) ==
  /\ o \in recorded
  /\ posted[o] = 0
  /\ posted' = [posted EXCEPT ![o] = 1]
  /\ UNCHANGED <<paid, entered, recorded, alerted>>

Next == \E o \in Op : Pay(o) \/ Enter(o) \/ Record(o) \/ Alert(o) \/ Post(o)
Spec == Init /\ [][Next]_vars
=============================================================================
