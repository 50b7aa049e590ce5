--------------------------- MODULE MCDiagnostics ---------------------------
(* Two threads; only one of them has nested samples, and of two names. *)
EXTENDS Diagnostics

CONSTANTS main, other

MCThreads == {main, other}
MCNames == [t \in MCThreads |-> IF t = main THEN {"update"} ELSE {"update", "load"}]
MCMaxDepth == [t \in MCThreads |-> IF t = main THEN 1 ELSE 2]
============================================================================
