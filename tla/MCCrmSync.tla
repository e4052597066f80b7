----------------------------- MODULE MCCrmSync ------------------------------
(* Instances of CrmSync for TLC: two operations, and two jobs that overlap. *)
EXTENDS CrmSync

CONSTANTS o1, o2, polled, uploaded

\* A poll brings both operations, a file of the same day one of them.
OverlappingBatches == [j \in Job |-> IF j = polled THEN <<o1, o2>> ELSE <<o1>>]
\* A file with both operations.
WholeFile == [j \in Job |-> <<o1, o2>>]
=============================================================================
