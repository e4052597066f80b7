--------------------------- MODULE MCManualImport ---------------------------
(* Instances of ManualImport for TLC: one file, uploaded once or twice. *)
EXTENDS ManualImport

CONSTANTS statement, first, again

\* Two employees, or one twice, upload the same file.
SameFile == [u \in Upload |-> statement]
=============================================================================
