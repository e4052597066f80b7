----------------------------- MODULE MCPolling -----------------------------
(***************************************************************************)
(* Instances of Polling: one portal with one operation of any day,         *)
(* and two portals that compete for a run of the erasure.                  *)
(***************************************************************************)
EXTENDS Polling, TLC

CONSTANTS o1, o2

OneOf == (o1 :> 1)

TwoOf == (o1 :> 1) @@ (o2 :> 2)
=============================================================================
