---------------------------- MODULE MCUniRunner ----------------------------
EXTENDS UniRunner

Call(algo, n, count, slices, redSlices, eager) ==
    [algo |-> algo, n |-> n, count |-> count, root |-> 1 % n, inPlace |-> FALSE,
     slices |-> slices, redSlices |-> redSlices, redSliceSize |-> 1,
     eager |-> eager, failures |-> 0, events |-> 1, fifo |-> 1, blocks |-> 1]

\* Every algorithm and every group.  Chunks, slices and reductions are uneven
\* or empty; one event and one slot make the runner wait for both, and two events
\* let the copy of an all-gather run beside its ring.  The trees of five and six
\* ranks are not complete.  An all-reduce in place is not among them.
MCCalls ==
    {Call("RingAR", 3, 4, 2, 0, FALSE),
     [Call("RingAR", 2, 1, 1, 0, TRUE) EXCEPT !.failures = 1],
     [Call("SlicedAR", 2, 3, 1, 2, FALSE) EXCEPT !.fifo = 2, !.blocks = 2],
     Call("SlicedAR", 3, 4, 1, 2, TRUE),
     Call("RingAG", 3, 4, 2, 0, TRUE),
     [Call("RingAG", 2, 3, 2, 0, FALSE) EXCEPT !.events = 2, !.failures = 1],
     [Call("RingRS", 3, 3, 1, 2, FALSE) EXCEPT !.inPlace = TRUE],
     [Call("RingRS", 2, 3, 2, 0, FALSE) EXCEPT !.failures = 1],
     [Call("TreeRed", 3, 3, 2, 2, TRUE) EXCEPT !.inPlace = TRUE],
     Call("LocRed", 2, 3, 2, 0, FALSE),
     Call("RingAR", 1, 1, 1, 0, FALSE)}
    \cup {Call(algo, 3, 1, 1, 0, FALSE) : algo \in Groups}
    \cup {Call("TreeRed", n, 1, 1, 0, FALSE) : n \in {4, 5, 6}}
=============================================================================
