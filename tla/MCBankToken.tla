---------------------------- MODULE MCBankToken -----------------------------
(* Instances of BankToken for TLC. *)
EXTENDS BankToken, TLC

CONSTANTS alfa, prior, n1, n2, c1, c2

Interchangeable == Permutations({n1, n2}) \cup Permutations({c1, c2})
=============================================================================
