------------------------------ MODULE MCP2pSlot ------------------------------
(* TLC instances of P2pSlot. *)
EXTENDS P2pSlot

\* Every offer a buffer registration can end in: not registered, registered
\* and imported by the peer, registered but not importable.
AllOffers == {[registered |-> FALSE, forceFifo |-> FALSE],
              [registered |-> TRUE,  forceFifo |-> FALSE],
              [registered |-> FALSE, forceFifo |-> TRUE]}

\* Three operations of one size and datatype.
SameKey == <<0, 0, 0>>

ThreeSteps == [k \in {0} |-> 3]
=============================================================================
