----------------------------- MODULE MCPxnRelay -----------------------------
(* Instances of PxnRelay for model checking. *)
EXTENDS PxnRelay

CONSTANTS c1, c2

MCChunks == [c \in Conns |-> IF c = c1 THEN 2 ELSE 1]
=============================================================================
