----------------------------- MODULE MCRegPool -----------------------------
(* Instances of RegPool for model checking. *)
EXTENDS RegPool, TLC

CONSTANTS c1, c2

\* All pages belong to one allocation of the device.
MCAllocOf(p) == "a"

\* Two neighbours and the buffer over both.
Neighbours == {<<1, 2>>, <<2, 3>>, <<1, 3>>}

\* What the invariants promise ends when a registration overlaps two items, and
\* it stays ended: TLC makes that step and does not go on from it.
UntilBridged == ~bridged

\* The communicators are interchangeable.
Symmetry == Permutations(Comm)
============================================================================
