------------------------------ MODULE MCLedger ------------------------------
(* Instances of Ledger for TLC. *)
EXTENDS Ledger, TLC

CONSTANTS p1, p2, t1, auto1, manual2, fact2

\* A deal that got a payment automatically, another by hand, and a trigger.
Parents == (auto1 :> p1) @@ (manual2 :> p2) @@ (fact2 :> p2)
Targets == (auto1 :> t1) @@ (manual2 :> t1) @@ (fact2 :> t1)
=============================================================================
