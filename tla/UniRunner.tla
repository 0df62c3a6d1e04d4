------------------------------ MODULE UniRunner ------------------------------
(***************************************************************************)
(* The uni-runner: one collective call of uni_runner.cc on every rank of a *)
(* communicator.  The call builds a graph of point-to-point, copy and      *)
(* reduction nodes (UniDag) and runs it (runUniRunner): the host thread    *)
(* launches the ready nodes on two streams and in the FIFO of a persistent *)
(* reduction kernel (flagcx_reduce_kernel_host.cc, the vendor's            *)
(* flagcx_reduce_kernel_device.cu), observes what has completed and frees  *)
(* the nodes that waited for it.  Collectives that are one group are       *)
(* launched on the caller's stream.                                        *)
(*                                                                         *)
(* An element of a buffer holds a bag of contributions <<rank, index>>;    *)
(* a reduction adds the bags.  Sends and receives of two ranks are matched *)
(* in stream order; a send ends with its receive or, when c.eager, as soon *)
(* as its data has left.  A device or group call may fail on c.failures    *)
(* ranks; the operations of a poisoned rank may then be dropped.           *)
(***************************************************************************)
EXTENDS UniDag, Bags, SequencesExt

CONSTANTS
    Calls  \* the calls considered: records of UniDag, with eager, failures,
           \* events (size of the event pool), fifo (capacity of the FIFO)
           \* and blocks (of the reduction kernel)

\* The kernel masks its slot with the capacity minus one, the host divides.
ASSUME UniRunnerAssumption ==
    \A c \in Calls : {c.n, c.slices, c.events, c.blocks} \subseteq Nat \ {0} /\ \E d \in 0 .. c.fifo : c.fifo = 2 ^ d

VARIABLES
    call,         \* the collective and its parameters
    phase,        \* of each rank: where its host thread is
    failed,       \* flagcxProxyRecordAsyncError has poisoned the rank
    dagNodes,     \* the graph of each rank, with the parents still to end
    p2pReady, redReady, p2pInflight, redInflight, pending,
    inUse, nextIdx, recorded,   \* p2pEventMap, and the events that wait for their stream
    comm, cpy,    \* the streams: what is launched and has not ended
    produced, consumed, terminate, trigger,   \* the FIFO of the kernel
    kernel,       \* what each block of the kernel does
    net,          \* the data on its way from one rank to another
    mem           \* the buffers

queueVars == <<dagNodes, p2pReady, redReady, p2pInflight, redInflight, pending>>
eventVars == <<inUse, nextIdx, recorded>>
fifoVars == <<produced, consumed, terminate, trigger>>
vars == <<call, phase, failed, queueVars, eventVars, comm, cpy, fifoVars, kernel, net, mem>>

Ranks == 0 .. call.n - 1
Blocks == 1 .. call.blocks
NodeOf(r, k) == dagNodes[r][k]

\* A collective that is one group is kept as a graph of one node.
GraphOf(c, r) ==
    IF c.algo \in Groups THEN [k \in {0} |-> Node("p2p", GroupOps(c, r), 0, <<>>)] ELSE Dag(c, r)

\* Where an element lies: in place, recvbuff is a part of sendbuff.
At(c, r, buf, i) ==
    IF ~c.inPlace \/ buf # "recv" THEN <<buf, i>>
    ELSE IF c.algo = "RingRS" THEN <<"send", r * c.count + i>> ELSE <<"send", i>>

BufferSize(c, buf) ==
    CASE buf = "send" -> IF c.algo \in {"RingRS", "scatter", "alltoall"} THEN c.n * c.count ELSE c.count
      [] buf = "recv" -> IF c.algo \in {"gather", "allgather", "alltoall"} THEN c.n * c.count ELSE c.count
      [] buf = "scratch" -> CASE c.algo = "TreeRed" -> 2 * c.count
                              [] c.algo = "RingRS" -> c.n * c.count
                              [] OTHER -> 0

Junk == SetToBag({<<-1, -1>>})
Buffers(c, r) ==
    LET cells == UNION {{buf} \X (0 .. BufferSize(c, buf) - 1) : buf \in {"send", "recv", "scratch"}}
    IN [x \in cells |-> IF x[1] = "send" THEN SetToBag({<<r, x[2]>>}) ELSE Junk]

Read(r, op) == [i \in 0 .. op.cnt - 1 |-> mem[r][At(call, r, op.buf, op.off + i)]]
Written(r, op, data) ==
    [x \in DOMAIN mem[r] |->
       LET hit == {i \in 0 .. op.cnt - 1 : At(call, r, op.buf, op.off + i) = x}
       IN IF hit = {} THEN mem[r][x] ELSE data[CHOOSE i \in hit : TRUE]]

Init ==
    \E c \in Calls :
      LET R == 0 .. c.n - 1
          None == [r \in R |-> <<>>]
          InGroup == c.algo \in Groups
      IN /\ call = c
         /\ phase = [r \in R |-> IF InGroup THEN "group" ELSE "ready"]
         /\ failed = [r \in R |-> FALSE]
         /\ dagNodes = [r \in R |-> GraphOf(c, r)]
         /\ p2pReady = [r \in R |-> IF InGroup THEN <<>> ELSE InitialReady(dagNodes[r], {"p2p", "cpy"})]
         /\ redReady = [r \in R |-> InitialReady(dagNodes[r], {"red"})]
         /\ p2pInflight = None /\ redInflight = None
         /\ pending = [r \in R |-> InitialPending(dagNodes[r])]
         /\ inUse = [r \in R |-> {}] /\ nextIdx = [r \in R |-> 0] /\ recorded = [r \in R |-> {}]
         /\ comm = None /\ cpy = None
         /\ produced = [r \in R |-> 0] /\ consumed = [r \in R |-> 0]
         /\ terminate = [r \in R |-> FALSE]
         /\ trigger = [r \in R |-> [i \in 0 .. c.fifo - 1 |-> [state |-> "available", node |-> -1]]]
         /\ kernel = [r \in R |-> [b \in 1 .. c.blocks |->
                       [state |-> IF InGroup THEN "ended" ELSE "polling", slot |-> -1, node |-> -1]]]
         /\ net = [e \in R \X R |-> <<>>]
         /\ mem = [r \in R |-> Buffers(c, r)]

-----------------------------------------------------------------------------
\* The host thread.

\* The free events in the order getAvailable finds them.
FreeEvents(r) ==
    SelectSeq([i \in 1 .. call.events |-> (nextIdx[r] + i - 1) % call.events],
              LAMBDA e : e \notin inUse[r])

\* An entry of a stream behind which no event was recorded.
NoEvent == -1

\* The first n ready nodes are on their streams, and the first m of them have
\* their event of the pool recorded.
Launch(r, m, n) ==
    LET events == FreeEvents(r)
        started == [j \in 1 .. n |-> [node |-> p2pReady[r][j],
                                      ev |-> IF j <= m THEN events[j] ELSE NoEvent,
                                      left |-> DOMAIN NodeOf(r, p2pReady[r][j]).ops]]
        OfType(type) == SelectSeq(started, LAMBDA x : NodeOf(r, x.node).type = type)
        used == {events[j] : j \in 1 .. m}
    IN /\ comm' = [comm EXCEPT ![r] = @ \o OfType("p2p")]
       /\ cpy' = [cpy EXCEPT ![r] = @ \o OfType("cpy")]
       /\ recorded' = [recorded EXCEPT ![r] = @ \cup used]
       /\ inUse' = [inUse EXCEPT ![r] = @ \cup used]
       /\ p2pInflight' = [p2pInflight EXCEPT
                            ![r] = @ \o [j \in 1 .. m |-> [node |-> p2pReady[r][j], ev |-> events[j]]]]

Launchable(r) == Min({Len(p2pReady[r]), Len(FreeEvents(r))})

MovedIdx(r, m) == IF m = 0 THEN nextIdx[r] ELSE (FreeEvents(r)[m] + 1) % call.events

\* The slot the next but j-th reduction gets, and whether enqueue accepts it.
Slot(r, j) == (produced[r] + j) % call.fifo
Accepts(r, j) ==
    /\ produced[r] + j - consumed[r] < call.fifo
    /\ trigger[r][Slot(r, j)].state = "available"
Enqueueable(r) ==
    Max({m \in 0 .. Len(redReady[r]) : \A j \in 0 .. m - 1 : Accepts(r, j)})

Enqueue(r, m) ==
    /\ trigger' = [trigger EXCEPT ![r] = [i \in DOMAIN @ |->
                     LET mine == {j \in 0 .. m - 1 : Slot(r, j) = i}
                     IN IF mine = {} THEN @[i]
                        ELSE [state |-> "enqueued", node |-> redReady[r][Max(mine) + 1]]]]
    /\ produced' = [produced EXCEPT ![r] = @ + m]
    /\ redReady' = [redReady EXCEPT ![r] = SubSeq(@, m + 1, Len(@))]
    /\ redInflight' = [redInflight EXCEPT
                         ![r] = @ \o [j \in 1 .. m |-> [node |-> redReady[r][j], slot |-> Slot(r, j - 1)]]]

\* What has completed since the host last looked.
EventDone(r, x) == x.ev \notin recorded[r]
TriggerDone(r, x) == trigger[r][x.slot].state = "complete"

\* The loop alternates between the two queues; a pass that finds nothing to do
\* changes nothing and is left out.
HasReady(r) == Launchable(r) > 0 \/ Enqueueable(r) > 0
HasDone(r) == (\E j \in DOMAIN p2pInflight[r] : EventDone(r, p2pInflight[r][j]))
              \/ (\E j \in DOMAIN redInflight[r] : TriggerDone(r, redInflight[r][j]))
AtReady(r) == phase[r] = "ready" \/ (phase[r] = "inflight" /\ ~HasDone(r))
AtInflight(r) == phase[r] = "inflight" \/ (phase[r] = "ready" /\ ~HasReady(r))

ProcessReadyQueue(r) ==
    /\ AtReady(r) /\ HasReady(r)
    /\ Launch(r, Launchable(r), Launchable(r))
    /\ p2pReady' = [p2pReady EXCEPT ![r] = SubSeq(@, Launchable(r) + 1, Len(@))]
    /\ nextIdx' = [nextIdx EXCEPT ![r] = MovedIdx(r, Launchable(r))]
    /\ Enqueue(r, Enqueueable(r))
    /\ phase' = [phase EXCEPT ![r] = "inflight"]
    /\ UNCHANGED <<call, failed, dagNodes, pending, consumed, terminate, kernel, net, mem>>

\* The children of completed nodes, one for each parent that ended, in the
\* order in which numParents is decremented.
Children(r, nodes) == FlattenSeq([j \in 1 .. Len(nodes) |-> NodeOf(r, nodes[j]).children])
Losses(children, j) == Cardinality({i \in 1 .. j : children[i] = children[j]})
\* enqueueReadyQueue takes a child when its last parent has ended.
Freed(r, children) ==
    LET at == SelectSeq([j \in DOMAIN children |-> j],
                        LAMBDA j : Losses(children, j) = NodeOf(r, children[j]).parents)
    IN [j \in DOMAIN at |-> children[at[j]]]

\* The events the host gives back.
ResetEvents_none(r, p2p) == {}
ResetEvents(r, p2p) == {p2p[j].ev : j \in DOMAIN p2p}

ProcessInflightQueue(r) ==
    LET p2p == SelectSeq(p2pInflight[r], LAMBDA x : EventDone(r, x))
        red == SelectSeq(redInflight[r], LAMBDA x : TriggerDone(r, x))
        children == Children(r, [j \in DOMAIN p2p |-> p2p[j].node] \o [j \in DOMAIN red |-> red[j].node])
        freed == Freed(r, children)
        OfType(types) == SelectSeq(freed, LAMBDA k : NodeOf(r, k).type \in types)
    IN /\ AtInflight(r) /\ HasDone(r)
       /\ dagNodes' = [dagNodes EXCEPT ![r] = [k \in DOMAIN @ |->
                         [@[k] EXCEPT !.parents = @ - Cardinality({j \in DOMAIN children : children[j] = k})]]]
       /\ p2pReady' = [p2pReady EXCEPT ![r] = @ \o OfType({"p2p", "cpy"})]
       /\ redReady' = [redReady EXCEPT ![r] = @ \o OfType({"red"})]
       /\ pending' = [pending EXCEPT ![r] = @ - Len(freed)]
       /\ inUse' = [inUse EXCEPT ![r] = @ \ ResetEvents(r, p2p)]
       /\ p2pInflight' = [p2pInflight EXCEPT ![r] = SelectSeq(@, LAMBDA x : ~EventDone(r, x))]
       /\ redInflight' = [redInflight EXCEPT ![r] = SelectSeq(@, LAMBDA x : ~TriggerDone(r, x))]
       /\ trigger' = [trigger EXCEPT ![r] = [i \in DOMAIN @ |->
                        IF \E j \in DOMAIN red : red[j].slot = i
                        THEN [@[i] EXCEPT !.state = "available"] ELSE @[i]]]
       /\ phase' = [phase EXCEPT ![r] = "ready"]
       /\ UNCHANGED <<call, failed, nextIdx, recorded, comm, cpy, produced, consumed, terminate, kernel, net, mem>>

\* All queues are empty at the top of the loop: the kernel is told to end.
RunnerEnds(r) ==
    /\ phase[r] = "ready"
    /\ p2pReady[r] = <<>> /\ redReady[r] = <<>>
    /\ p2pInflight[r] = <<>> /\ redInflight[r] = <<>> /\ pending[r] = 0
    /\ phase' = [phase EXCEPT ![r] = "drain"]
    /\ terminate' = [terminate EXCEPT ![r] = TRUE]
    /\ UNCHANGED <<call, failed, queueVars, eventVars, comm, cpy, produced, consumed, trigger, kernel, net, mem>>

MayFail == Cardinality({r \in Ranks : failed[r]}) < call.failures

\* The runner gives up: it publishes terminate and poisons the proxy.
GiveUp(r) ==
    /\ phase' = [phase EXCEPT ![r] = "drain"]
    /\ failed' = [failed EXCEPT ![r] = TRUE]
    /\ terminate' = [terminate EXCEPT ![r] = TRUE]

\* launchP2pOps fails for the node after the first m ones and gives its event
\* back: the group or copy was refused, what it launched of a group being left
\* to the proxy, or it is on its stream and only the record of the event failed.
LaunchFails(r) ==
    /\ AtReady(r) /\ MayFail
    /\ \E m \in 0 .. Launchable(r) - 1 :
         /\ Launch(r, m, m) \/ Launch(r, m, m + 1)
         /\ p2pReady' = [p2pReady EXCEPT ![r] = SubSeq(@, m + 2, Len(@))]
         /\ nextIdx' = [nextIdx EXCEPT ![r] = MovedIdx(r, m + 1)]
    /\ GiveUp(r)
    /\ UNCHANGED <<call, dagNodes, redReady, redInflight, pending, produced, consumed, trigger, kernel, net, mem>>

\* An event query fails; the queues are dropped by cleanupUniRunner.
QueryFails(r) ==
    /\ AtInflight(r) /\ MayFail
    /\ p2pInflight[r] # <<>>
    /\ GiveUp(r)
    /\ UNCHANGED <<call, queueVars, eventVars, comm, cpy, produced, consumed, trigger, kernel, net, mem>>

\* A collective of one group: flagcxRunnerRunGroup on the caller's stream.
RunGroup(r) ==
    /\ phase[r] = "group"
    /\ comm' = [comm EXCEPT ![r] = <<[node |-> 0, ev |-> NoEvent, left |-> DOMAIN NodeOf(r, 0).ops]>>]
    /\ phase' = [phase EXCEPT ![r] = "drain"]
    /\ UNCHANGED <<call, failed, queueVars, eventVars, cpy, fifoVars, kernel, net, mem>>

\* streamSynchronize has returned for the three streams.
Drained(r) ==
    /\ \A b \in Blocks : kernel[r][b].state = "ended"
    /\ cpy[r] = <<>> /\ comm[r] = <<>>

\* The streams are synchronized, then everything they used is released:
\* nodes, events, FIFO and scratch buffer.  For a group, the caller's own
\* synchronization.
Return(r) ==
    /\ phase[r] = "drain"
    /\ Drained(r)
    /\ phase' = [phase EXCEPT ![r] = "returned"]
    /\ UNCHANGED <<call, failed, queueVars, eventVars, comm, cpy, fifoVars, kernel, net, mem>>

-----------------------------------------------------------------------------
\* The kernel.

\* The FIFO is not empty: a block takes the oldest reduction.
KernelDequeue(r, b) ==
    /\ kernel[r][b].state = "polling"
    /\ consumed[r] < produced[r]
    /\ LET slot == consumed[r] % call.fifo
       IN kernel' = [kernel EXCEPT ![r][b] = [state |-> "reducing", slot |-> slot, node |-> trigger[r][slot].node]]
    /\ consumed' = [consumed EXCEPT ![r] = @ + 1]
    /\ UNCHANGED <<call, phase, failed, queueVars, eventVars, comm, cpy, produced, terminate, trigger, net, mem>>

\* flagcxReduceKernel, then setComplete.
KernelReduces(r, b) ==
    /\ kernel[r][b].state = "reducing"
    /\ LET ops == NodeOf(r, kernel[r][b].node).ops
           x == Read(r, ops[1])
           y == Read(r, ops[2])
       IN mem' = [mem EXCEPT ![r] = Written(r, ops[3], [i \in DOMAIN x |-> x[i] (+) y[i]])]
    /\ trigger' = [trigger EXCEPT ![r][kernel[r][b].slot].state = "complete"]
    /\ kernel' = [kernel EXCEPT ![r][b].state = "polling"]
    /\ UNCHANGED <<call, phase, failed, queueVars, eventVars, comm, cpy, produced, consumed, terminate, net>>

KernelEnds(r, b) ==
    /\ kernel[r][b].state = "polling"
    /\ consumed[r] >= produced[r] /\ terminate[r]
    /\ kernel' = [kernel EXCEPT ![r][b].state = "ended"]
    /\ UNCHANGED <<call, phase, failed, queueVars, eventVars, comm, cpy, fifoVars, net, mem>>

-----------------------------------------------------------------------------
\* The streams.

HeadOp(r, i) == NodeOf(r, Head(comm[r]).node).ops[i]

\* The operations of the group at the head of the stream that can run.
Running(r, kind, peer) ==
    IF comm[r] = <<>> THEN {}
    ELSE {i \in Head(comm[r]).left : HeadOp(r, i).kind = kind /\ HeadOp(r, i).peer = peer}

\* The stream entry when the operations ops of its group have ended; the last
\* one lets the stream pass the group and its event.
OpsEnd(s, ops) ==
    IF Head(s).left = ops THEN Tail(s) ELSE <<[Head(s) EXCEPT !.left = @ \ ops]>> \o Tail(s)
EventsPassed(r) == IF comm[r] # <<>> /\ Len(comm'[r]) < Len(comm[r]) THEN {Head(comm[r]).ev} ELSE {}

StreamStep ==
    /\ recorded' = [r \in Ranks |-> recorded[r] \ EventsPassed(r)]
    /\ UNCHANGED <<call, phase, failed, queueVars, inUse, nextIdx, cpy, fifoVars, kernel>>

\* A send and the receive it meets.
Rendezvous(p, q) ==
    /\ ~call.eager
    /\ \E i \in Running(p, "send", q), j \in Running(q, "recv", p) :
         /\ mem' = [mem EXCEPT ![q] = Written(q, HeadOp(q, j), Read(p, HeadOp(p, i)))]
         /\ comm' = IF p = q THEN [comm EXCEPT ![p] = OpsEnd(@, {i, j})]
                    ELSE [comm EXCEPT ![p] = OpsEnd(@, {i}), ![q] = OpsEnd(@, {j})]
    /\ UNCHANGED net
    /\ StreamStep

EagerSend(p, q) ==
    /\ call.eager
    /\ \E i \in Running(p, "send", q) :
         /\ net' = [net EXCEPT ![<<p, q>>] = Append(@, Read(p, HeadOp(p, i)))]
         /\ comm' = [comm EXCEPT ![p] = OpsEnd(@, {i})]
    /\ UNCHANGED mem
    /\ StreamStep

EagerRecv(p, q) ==
    /\ call.eager
    /\ net[<<p, q>>] # <<>>
    /\ \E j \in Running(q, "recv", p) :
         /\ mem' = [mem EXCEPT ![q] = Written(q, HeadOp(q, j), Head(net[<<p, q>>]))]
         /\ comm' = [comm EXCEPT ![q] = OpsEnd(@, {j})]
    /\ net' = [net EXCEPT ![<<p, q>>] = Tail(@)]
    /\ StreamStep

\* The proxy of a poisoned rank ends the operations that wait for it.
Abandon(r) ==
    /\ failed[r] /\ comm[r] # <<>>
    /\ comm' = [comm EXCEPT ![r] = Tail(@)]
    /\ UNCHANGED <<net, mem>>
    /\ StreamStep

CopyEnds(r) ==
    /\ cpy[r] # <<>>
    /\ LET ops == NodeOf(r, Head(cpy[r]).node).ops
       IN mem' = [mem EXCEPT ![r] = Written(r, ops[2], Read(r, ops[1]))]
    /\ cpy' = [cpy EXCEPT ![r] = Tail(@)]
    /\ recorded' = [recorded EXCEPT ![r] = @ \ {Head(cpy[r]).ev}]
    /\ UNCHANGED <<call, phase, failed, queueVars, inUse, nextIdx, comm, fifoVars, kernel, net>>

-----------------------------------------------------------------------------
HostThread(r) ==
    ProcessReadyQueue(r) \/ ProcessInflightQueue(r) \/ RunnerEnds(r) \/ RunGroup(r) \/ Return(r)
KernelBlock(r, b) == KernelDequeue(r, b) \/ KernelReduces(r, b) \/ KernelEnds(r, b)
Network(p, q) == Rendezvous(p, q) \/ EagerSend(p, q) \/ EagerRecv(p, q)

Progress ==
    \/ \E r \in Ranks : HostThread(r) \/ CopyEnds(r) \/ Abandon(r)
    \/ \E r \in Ranks, b \in Blocks : KernelBlock(r, b)
    \/ \E p, q \in Ranks : Network(p, q)

\* Every call has returned, or waits for a rank that failed.
Over == \A r \in Ranks : phase[r] = "returned" \/ (~failed[r] /\ \E q \in Ranks : failed[q])
Ended == Over /\ UNCHANGED vars

Next == Progress \/ (\E r \in Ranks : LaunchFails(r) \/ QueryFails(r)) \/ Ended

Spec == Init /\ [][Next]_vars
\* Host threads, kernels and streams go on while they can.  No progress can be
\* undone, so this gives each of them its turn.
LiveSpec == Spec /\ WF_vars(Progress)

-----------------------------------------------------------------------------
\* Properties

Content(r, buf, i) == mem[r][At(call, r, buf, i)]
FromEach(i) == SetToBag({<<q, i>> : q \in Ranks})
\* The rank whose chunk holds element i.
Owner(i) == CHOOSE q \in Ranks : i \in PartOffset(call.count, call.n, q) ..
                                      PartOffset(call.count, call.n, q) + PartCount(call.count, call.n, q) - 1

\* What the API promises of recvbuff on rank r.
Promised(r) ==
    LET Each(n, value(_)) == \A i \in 0 .. n - 1 : Content(r, "recv", i) = value(i)
        From(q, i) == SetToBag({<<q, i>>})
        ofOwner(i) == From(Owner(i), i)
        ofRanks(i) == FromEach(r * call.count + i)
        ofRoot(i) == From(call.root, i)
        ofBlock(i) == From(call.root, r * call.count + i)
        gathered(i) == From(i \div call.count, i % call.count)
        exchanged(i) == From(i \div call.count, r * call.count + (i % call.count))
    IN CASE call.algo \in {"RingAR", "SlicedAR"} -> Each(call.count, FromEach)
         [] call.algo = "RingAG" -> Each(call.count, ofOwner)
         [] call.algo = "LocRed" -> \A i \in 0 .. call.count - 1 :
                Content(r, "recv", i) = IF call.n > 1 /\ Owner(i) = r THEN Junk (+) From(r, i) ELSE Junk
         [] call.algo = "RingRS" -> Each(call.count, ofRanks)
         [] call.algo = "TreeRed" -> r = call.root => Each(call.count, FromEach)
         [] call.algo = "gather" -> r = call.root => Each(call.n * call.count, gathered)
         [] call.algo = "scatter" -> Each(call.count, ofBlock)
         [] call.algo = "broadcast" -> Each(call.count, ofRoot)
         [] call.algo = "allgather" -> Each(call.n * call.count, gathered)
         [] call.algo = "alltoall" -> Each(call.n * call.count, exchanged)

(* A call that returns without an error has left in recvbuff what its      *)
(* collective promises (include/flagcx.h): every rank's contribution once, *)
(* whatever the numbers of slices and the remainders, however the ranks,   *)
(* the kernel and the network interleave, and also when another rank fails. *)
(* It does not hold of an all-reduce in place over the ring, which         *)
(* flagcx.h allows (see README); the calls of the instance leave it out.   *)
ResultCorrect ==
    \A r \in Ranks : phase[r] = "returned" /\ ~failed[r] => Promised(r)

\* What the device may be working on: operations of nodes.
Active(r) ==
    UNION {{<<comm[r][j].node, i>> : i \in comm[r][j].left} : j \in DOMAIN comm[r]}
    \cup UNION {{<<cpy[r][j].node, i>> : i \in {1, 2}} : j \in DOMAIN cpy[r]}
    \cup ({trigger[r][i].node : i \in {i \in DOMAIN trigger[r] : trigger[r][i].state = "enqueued"}}
            \cup {kernel[r][b].node : b \in {b \in Blocks : kernel[r][b].state = "reducing"}}) \X {1, 2, 3}
Cells(r, a) ==
    LET op == NodeOf(r, a[1]).ops[a[2]]
    IN {At(call, r, op.buf, op.off + i) : i \in 0 .. op.cnt - 1}
Writes(r, a) == NodeOf(r, a[1]).ops[a[2]].kind \in {"recv", "dst", "out"}

(* Nothing the device does at the same time conflicts: no element is       *)
(* received, copied or reduced into while another operation of the graph   *)
(* reads or writes it.  The parents counted by initUniRunnerState... must  *)
(* order every such pair, across slices too.                               *)
NoConflict ==
    \A r \in Ranks : \A a, b \in Active(r) :
      Writes(r, a) /\ a # b /\ (a[1] # b[1] \/ NodeOf(r, a[1]).type = "p2p")
      => Cells(r, a) \cap Cells(r, b) = {}

(* Every call returns: the graphs of the ranks never wait for one another, *)
(* also with one event in the pool and one slot in the FIFO, and a rank    *)
(* that fails ends its kernel and returns too.  Only a rank that did not   *)
(* fail itself may be left waiting for one that did.                       *)
CallsReturn == <>[]Over
=============================================================================
