------------------------------- MODULE UniDag -------------------------------
(***************************************************************************)
(* The graphs the uni-runner executes: for each algorithm of               *)
(* uni_runner_impl.cc, the nodes a rank builds (initUniRunnerState...),    *)
(* and for the collectives of uni_runner.cc that are a single group of     *)
(* sends and receives, that group.                                         *)
(*                                                                         *)
(* A call c is a record: algo, n (ranks), count (as the call of the API    *)
(* takes it), root, inPlace, and the parameters slices, redSlices,         *)
(* redSliceSize.  Nodes are numbered from 0 as in the code.  An operation  *)
(* of a node accesses cnt elements of a buffer from offset off; offsets    *)
(* and counts are in elements, the code's are in bytes.                    *)
(***************************************************************************)
EXTENDS Integers, Sequences, FiniteSets, FiniteSetsExt

\* Part k when total elements are cut into parts: the first ones get one more.
PartCount(total, parts, k) ==
    total \div parts + (IF k < total % parts THEN 1 ELSE 0)
PartOffset(total, parts, k) ==
    k * (total \div parts) + Min({k, total % parts})

Op(kind, peer, buf, off, cnt) ==
    [kind |-> kind, peer |-> peer, buf |-> buf, off |-> off, cnt |-> cnt]
Node(type, ops, parents, children) ==
    [type |-> type, ops |-> ops, parents |-> parents, children |-> children]

\* A reduction of cnt elements: out := in1 + in2.
RedOps(in1, off1, in2, off2, out, offOut, cnt) ==
    <<Op("in1", -1, in1, off1, cnt), Op("in2", -1, in2, off2, cnt),
      Op("out", -1, out, offOut, cnt)>>

NumRedSlices(c) ==
    IF c.redSlices # 0 THEN c.redSlices
    ELSE IF c.count = 0 \/ c.redSliceSize = 0 THEN 1
    ELSE LET part == c.n * c.slices * c.redSliceSize
         IN (c.count + part - 1) \div part

\* The slice s of the chunk of a rank.
SliceOp(c, kind, peer, buf, chunk, s) ==
    LET size == PartCount(c.count, c.n, chunk)
    IN Op(kind, peer, buf,
          PartOffset(c.count, c.n, chunk) + PartOffset(size, c.slices, s),
          PartCount(size, c.slices, s))

NextRank(c, r) == (r + 1) % c.n
PrevRank(c, r) == (r - 1 + c.n) % c.n

\* One step of a ring: the slice of one chunk goes to the next rank, that of
\* another comes from the previous one.
RingOps(c, r, s, from, txChunk, rxChunk) ==
    <<SliceOp(c, "send", NextRank(c, r), from, txChunk, s),
      SliceOp(c, "recv", PrevRank(c, r), "recv", rxChunk, s)>>

\* Consecutive integers as a sequence.
Upto(a, b) == [k \in 1 .. b - a + 1 |-> a + k - 1]

\* The head nodes of a reduce-scatter phase depend on nothing (node 0), on the
\* point-to-point node before (step 0), or also on the reductions of the
\* previous step.
ChainParents_chainOnly(k, i, reds) == IF k = 0 THEN 0 ELSE 1
ChainParents(k, i, reds) == IF k = 0 THEN 0 ELSE IF i = 0 THEN 1 ELSE 1 + reds

-----------------------------------------------------------------------------
SingleRank(c) ==
    IF c.count > 0 /\ ~c.inPlace
    THEN [k \in {0} |-> Node("cpy", <<Op("src", -1, "send", 0, c.count),
                                      Op("dst", -1, "recv", 0, c.count)>>, 0, <<>>)]
    ELSE <<>>

LocRed(c, r) ==
    IF c.n < 2 THEN <<>>
    ELSE [s \in 0 .. c.slices - 1 |->
            LET o == SliceOp(c, "in1", -1, "recv", r, s)
            IN Node("red", RedOps("recv", o.off, "send", o.off, "recv", o.off, o.cnt), 0, <<>>)]

RingAG(c, r) ==
    LET perSlice == c.n - 1
        numNodes == c.slices * perSlice
        P2p(s, i) ==
            LET k == s * perSlice + i
            IN Node("p2p",
                    RingOps(c, r, s, IF i = 0 THEN "send" ELSE "recv",
                            (r - i + c.n) % c.n, (r - i - 1 + c.n) % c.n),
                    IF k = 0 THEN 0 ELSE 1,
                    CASE k = numNodes - 1 -> <<>>
                      [] k # numNodes - 1 /\ s = c.slices - 1 -> <<i + 1>>
                      [] OTHER -> <<k + perSlice>>)
        own == PartCount(c.count, c.n, r)
        at == PartOffset(c.count, c.n, r)
    IN [k \in 0 .. numNodes |->
          IF k = numNodes
          THEN Node("cpy", <<Op("src", -1, "send", at, own), Op("dst", -1, "recv", at, own)>>, 0, <<>>)
          ELSE P2p(k \div perSlice, k % perSlice)]

SlicedAR(c, r) ==
    LET reds == NumRedSlices(c)
        perSlice == (reds + 2) * (c.n - 1)
        numNodes == c.slices * perSlice
        scatter == (1 + reds) * (c.n - 1)
        Tx(i) == (r - i + c.n) % c.n
        Rx(i) == (r - i - 1 + c.n) % c.n
        \* reduce-scatter phase
        P2p(k, s, i) ==
            Node("p2p", RingOps(c, r, s, IF i = 0 THEN "send" ELSE "recv", Tx(i), Rx(i)),
                 ChainParents(k, i, reds),
                 <<IF s = c.slices - 1 THEN (i + 1) * (1 + reds) ELSE k + perSlice>>
                    \o Upto(k + 1, k + reds))
        Red(k, s, i, j) ==
            LET rx == SliceOp(c, "recv", -1, "recv", Rx(i), s)
                off == rx.off + PartOffset(rx.cnt, reds, j)
            IN Node("red", RedOps("recv", off, "send", off, "recv", off, PartCount(rx.cnt, reds, j)),
                    1, <<k - j + reds>>)
        \* all-gather phase
        Gather(k, s, i) ==
            Node("p2p", RingOps(c, r, s, "recv", Tx(i - 1), Rx(i - 1)),
                 IF i = 0 THEN 1 + reds ELSE 1,
                 CASE k = numNodes - 1 -> <<>>
                   [] k # numNodes - 1 /\ s = c.slices - 1 -> <<scatter + i + 1>>
                   [] OTHER -> <<k + perSlice>>)
    IN [k \in 0 .. numNodes - 1 |->
          LET s == k \div perSlice
              at == k % perSlice
              i == at \div (1 + reds)
              j == at % (1 + reds)
          IN IF at >= scatter THEN Gather(k, s, at - scatter)
             ELSE IF j = 0 THEN P2p(k, s, i) ELSE Red(k, s, i, j - 1)]

\* With one reduction per step; the rest is the same graph.
RingAR(c, r) == SlicedAR([c EXCEPT !.redSlices = 1], r)

RingRS(c, r) ==
    LET reds == NumRedSlices(c)
        perSlice == (reds + 1) * (c.n - 1)
        last == c.n - 2
        Slice(kind, peer, buf, chunk, s) ==
            Op(kind, peer, buf, chunk * c.count + PartOffset(c.count, c.slices, s),
               PartCount(c.count, c.slices, s))
        Tx(i) == (r - i - 1 + c.n) % c.n
        Rx(i) == (r - i - 2 + c.n) % c.n
        P2p(k, s, i) ==
            Node("p2p",
                 <<Slice("send", NextRank(c, r), IF i = 0 THEN "send" ELSE "scratch", Tx(i), s),
                   Slice("recv", PrevRank(c, r), "scratch", Rx(i), s)>>,
                 ChainParents(k, i, reds),
                 Upto(k + 1, k + reds) \o
                    (CASE s = c.slices - 1 /\ i = last -> <<>>
                       [] s = c.slices - 1 /\ i # last -> <<(i + 1) * (1 + reds)>>
                       [] OTHER -> <<k + perSlice>>))
        Red(k, s, i, j) ==
            LET rx == Slice("recv", -1, "scratch", Rx(i), s)
                off == rx.off + PartOffset(rx.cnt, reds, j)
            IN Node("red",
                    IF i = last
                    THEN RedOps("scratch", off, "send", off,
                                "recv", off - Rx(i) * c.count, PartCount(rx.cnt, reds, j))
                    ELSE RedOps("scratch", off, "send", off, "scratch", off,
                                PartCount(rx.cnt, reds, j)),
                    1, IF i = last THEN <<>> ELSE <<k - j + reds>>)
    IN [k \in 0 .. c.slices * perSlice - 1 |->
          LET s == k \div perSlice
              i == (k % perSlice) \div (1 + reds)
              j == (k % perSlice) % (1 + reds)
          IN IF j = 0 THEN P2p(k, s, i) ELSE Red(k, s, i, j - 1)]

\* The number of binary digits of m > 0, and of its trailing zeros.
Digits(m) == Min({d \in 1 .. m : m < 2 ^ d})
TrailingZeros(m) == Max({d \in 0 .. m : m % 2 ^ d = 0})

AlgoRank(c, r) == (r - c.root + c.n) % c.n

\* How many children of the binomial tree a rank receives from.
RecvSteps_noPartial(c, r) ==
    LET a == AlgoRank(c, r)
        full == TrailingZeros(a)
    IN CASE a = 0 -> Digits(c.n - 1)
         [] a # 0 /\ full # 0 /\ c.n - a <= 2 ^ (full - 1) -> 0
         [] OTHER -> full
RecvSteps(c, r) ==
    LET a == AlgoRank(c, r)
        full == TrailingZeros(a)
    IN CASE a = 0 -> Digits(c.n - 1)
         [] a # 0 /\ full # 0 /\ c.n - a <= 2 ^ (full - 1) ->
              (IF c.n - a - 1 = 0 THEN 0 ELSE Digits(c.n - a - 1))
         [] OTHER -> full

TreeRed(c, r) ==
    LET reds == NumRedSlices(c)
        steps == RecvSteps(c, r)
        sends == IF AlgoRank(c, r) = 0 THEN 0 ELSE 1
        perSlice == sends + steps + steps * reds
        last == Digits(c.n - 1) - 1
        lastSlice == c.slices - 1
        off(s) == PartOffset(c.count, c.slices, s)
        cnt(s) == PartCount(c.count, c.slices, s)
        Recv(k, s, i) ==
            Node("p2p", <<Op("recv", (r + 2 ^ i) % c.n, "scratch", c.count + off(s), cnt(s))>>,
                 ChainParents(k, i, reds),
                 Upto(k + 1, k + reds) \o
                    (CASE s = lastSlice /\ i = last -> <<>>
                       [] s = lastSlice /\ i # last -> <<(i + 1) * (1 + reds)>>
                       [] OTHER -> <<k + perSlice>>))
        Red(k, s, i, j) ==
            LET at == off(s) + PartOffset(cnt(s), reds, j)
            IN Node("red",
                    RedOps("scratch", c.count + at, IF i = 0 THEN "send" ELSE "scratch", at,
                           IF i = last THEN "recv" ELSE "scratch", at, PartCount(cnt(s), reds, j)),
                    1, IF i = last THEN <<>> ELSE <<k - j + reds>>)
        Send(k, s) ==
            Node("p2p", <<Op("send", (r - 2 ^ TrailingZeros(AlgoRank(c, r)) + c.n) % c.n,
                             IF steps = 0 THEN "send" ELSE "scratch", off(s), cnt(s))>>,
                 CASE steps # 0 -> 1 + reds [] steps = 0 /\ s = 0 -> 0 [] OTHER -> 1,
                 IF s = lastSlice THEN <<>> ELSE <<k + perSlice>>)
    IN [k \in 0 .. c.slices * perSlice - 1 |->
          LET s == k \div perSlice
              i == (k % perSlice) \div (1 + reds)
              j == (k % perSlice) % (1 + reds)
          IN IF i = steps THEN Send(k, s)
             ELSE IF j = 0 THEN Recv(k, s, i) ELSE Red(k, s, i, j - 1)]

\* The collectives that the runner makes of one group, without a graph.
Groups == {"gather", "scatter", "broadcast", "allgather", "alltoall"}

GroupOps(c, r) ==
    LET ToAll(off(_)) == [q \in 1 .. c.n |-> Op("send", q - 1, "send", off(q - 1), c.count)]
        FromAll == [q \in 1 .. c.n |-> Op("recv", q - 1, "recv", (q - 1) * c.count, c.count)]
        AtRoot(ops) == IF r = c.root THEN ops ELSE <<>>
        first(q) == 0
        block(q) == q * c.count
    IN CASE c.algo = "gather" -> AtRoot(FromAll) \o <<Op("send", c.root, "send", 0, c.count)>>
         [] c.algo = "scatter" -> AtRoot(ToAll(block)) \o <<Op("recv", c.root, "recv", 0, c.count)>>
         [] c.algo = "broadcast" -> AtRoot(ToAll(first)) \o <<Op("recv", c.root, "recv", 0, c.count)>>
         [] c.algo = "allgather" -> ToAll(first) \o FromAll
         [] c.algo = "alltoall" -> ToAll(block) \o FromAll

Dag(c, r) ==
    CASE c.algo = "LocRed" -> LocRed(c, r)
      [] c.algo # "LocRed" /\ c.n = 1 -> SingleRank(c)
      [] c.algo = "RingAG" /\ c.n > 1 -> RingAG(c, r)
      [] c.algo = "RingAR" /\ c.n > 1 -> RingAR(c, r)
      [] c.algo = "SlicedAR" /\ c.n > 1 -> SlicedAR(c, r)
      [] c.algo = "RingRS" /\ c.n > 1 -> RingRS(c, r)
      [] c.algo = "TreeRed" /\ c.n > 1 -> TreeRed(c, r)

\* The ready queues as the builder leaves them.  In the ring all-gather the
\* copy, the last node, goes before node 0.
InitialReady(dag, types) ==
    LET roots == {k \in DOMAIN dag : dag[k].parents = 0 /\ dag[k].type \in types}
        copies == {k \in roots : dag[k].type = "cpy"}
    IN [j \in 1 .. Cardinality(roots) |->
          IF j <= Cardinality(copies) THEN CHOOSE k \in copies : TRUE
          ELSE CHOOSE k \in roots \ copies :
                 Cardinality({q \in roots \ copies : q < k}) = j - Cardinality(copies) - 1]

\* The nodes that still wait for a parent.
InitialPending(dag) == Cardinality({k \in DOMAIN dag : dag[k].parents # 0})
=============================================================================
