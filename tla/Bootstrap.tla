----------------------------- MODULE Bootstrap -----------------------------
(***************************************************************************)
(* The collective bootstrap of service/bootstrap.cc: the rendezvous of the *)
(* ranks at the root thread, the ring of sockets they build, the           *)
(* connection opened for every bootstrapSend, the list of connections      *)
(* accepted before they were wanted, and the collectives written over the  *)
(* two.                                                                    *)
(*                                                                         *)
(* A collective is the list of the blocking steps one rank takes.  A step  *)
(* sends and/or receives; a step over the ring does both at once, a step   *)
(* over connections does one of them.  A block of data is the bag of its   *)
(* contributions <<rank, block, call>>, so a sum that counts a rank twice, *)
(* a block in the wrong place and a message of another call all show.      *)
(*                                                                         *)
(* Every rank runs the same program of calls.  eager says whether payloads *)
(* fit the socket buffers; when they do not, a send returns only after the *)
(* receiver has read it.  The abort flag, connections that fail and the    *)
(* point-to-point mode are not modelled.                                   *)
(***************************************************************************)
EXTENDS Integers, Sequences, FiniteSets, Bags, SequencesExt

CONSTANTS
    N,         \* nranks
    Programs   \* the programs of calls the ranks may run

ASSUME NAssumption == N \in Nat \ {0}

VARIABLES
    program,   \* the sequence of calls every rank makes
    eager,     \* whether every payload fits in a socket buffer
    checkedIn, \* root: the ranks whose info has been received
    told,      \* root: how many ranks have been sent their next rank
    stage,     \* what each rank is doing
    call,      \* the number of its current or last call; 0 is the address allgather
    at,        \* the step of that call
    sent, got, \* whether the step's send has started, its receive has ended
    listen,    \* connections queued on listenSock, not yet accepted
    unexpected,\* unexpectedConnections
    ring,      \* data written by each rank on its ringSendSocket
    ringFrom,  \* the rank behind each ringRecvSocket
    out,       \* recvbuff, by block
    acc        \* data_for_recv of bootstrapRingReduceScatter

rootVars == <<checkedIn, told>>
netVars == <<listen, unexpected, ring, ringFrom>>
dataVars == <<out, acc>>
bootstrapVars == <<program, eager, rootVars, stage, call, at, sent, got, netVars, dataVars>>

Ranks == 0 .. N - 1
None == -1

-----------------------------------------------------------------------------
(* Data.                                                                    *)

\* Block s of the sendbuff of rank r in call k.
Block(r, s, k) == SetToBag({<<r, s, k>>})
NoData == [s \in Ranks |-> EmptyBag]

\* bootstrapRingAllReduce, bootstrapRingReduce: the elements of chunk s; the
\* last chunks of a short buffer are empty.
ChunkSize(op) == (op.count + N - 1) \div N
Length(op, s) ==
    IF ChunkSize(op) * s >= op.count THEN 0
    ELSE IF ChunkSize(op) * (s + 1) >= op.count THEN op.count - ChunkSize(op) * s
    ELSE ChunkSize(op)

In(op, r, s, k) ==
    IF op.kind \in {"allreduce", "reduce"} /\ Length(op, s) = 0
    THEN EmptyBag ELSE Block(r, s, k)

-----------------------------------------------------------------------------
(* The steps.  put and get name a buffer and a block: "in" is the sendbuff, *)
(* "out" the recvbuff, "acc" the partial sum; "fold" adds the sendbuff's    *)
(* block to what is received, "sum" also stores the result, "first" keeps   *)
(* the value already held unless it is success.                             *)

ToPeer(p, tag, put) ==
    [ring |-> FALSE, tag |-> tag, to |-> p, put |-> put, from |-> None, get |-> <<"out", 0>>]
FromPeer(p, tag, get) ==
    [ring |-> FALSE, tag |-> tag, to |-> None, put |-> <<"in", 0>>, from |-> p, get |-> get]
Around(r, send, put, recv, get) ==
    [ring |-> TRUE, tag |-> 0,
     to |-> IF send THEN (r + 1) % N ELSE None, put |-> put,
     from |-> IF recv THEN (r - 1 + N) % N ELSE None, get |-> get]

Others(r) == SelectSeq([i \in 1 .. N |-> i - 1], LAMBDA p : p # r)
EachOther(r, step) == [i \in 1 .. N - 1 |-> step[Others(r)[i]]]

AllGather(r) ==
    [i \in 1 .. N - 1 |->
        Around(r, TRUE, <<"out", (r - i + 1 + N) % N>>, TRUE, <<"out", (r - i + N) % N>>)]

ReduceScatter(r, len) ==
    LET sendChunk(i) == (r + 2 * N - i - 1) % N
        recvChunk(i) == (r + 2 * N - i - 2) % N
        step(i) == Around(r,
            len[sendChunk(i)] # 0, <<IF i = 0 THEN "in" ELSE "acc", sendChunk(i)>>,
            len[recvChunk(i)] # 0, <<IF recvChunk(i) = r THEN "sum" ELSE "fold", recvChunk(i)>>)
    IN  SelectSeq([i \in 1 .. N - 1 |-> step(i - 1)],
                  LAMBDA s : s.to # None \/ s.from # None)

\* AlltoAllBootstrap, AlltoAllvBootstrap: the higher rank of a pair sends first.
AlltoAll(r, tag) ==
    FlattenSeq(EachOther(r, [p \in Ranks |->
        IF r > p
        THEN <<ToPeer(p, tag, <<"in", p>>), FromPeer(p, tag, <<"out", p>>)>>
        ELSE <<FromPeer(p, tag, <<"out", p>>), ToPeer(p, tag, <<"in", p>>)>>]))

\* Rounds of the dissemination barrier: 1, 2, 4, ... below N.
Mask == SelectSeq([i \in 1 .. N |-> i], LAMBDA m : \E e \in 0 .. N : m = 2 ^ e /\ m < N)
Barrier_half(r) ==
    <<ToPeer((r + 1) % N, 0, <<"in", r>>), FromPeer((r - 1 + N) % N, 0, <<"drop", 0>>)>>
Barrier(r) ==
    FlattenSeq([i \in 1 .. Len(Mask) |->
        <<ToPeer((r + Mask[i]) % N, 0, <<"in", r>>),
          FromPeer((r - Mask[i] + N) % N, 0, <<"drop", 0>>)>>])

Broadcast(op, r) ==
    IF r = op.root
    THEN EachOther(r, [p \in Ranks |-> ToPeer(p, p, <<"out", op.root>>)])
    ELSE <<FromPeer(op.root, r, <<"out", op.root>>)>>

\* GatherBootstrap, and the gather to the root that ends bootstrapRingReduce.
Gather(op, r, tag, put) ==
    IF r = op.root
    THEN EachOther(r, [p \in Ranks |-> FromPeer(p, tag, <<"out", p>>)])
    ELSE <<ToPeer(op.root, tag, <<put, r>>)>>

\* ScatterBootstrap; BroadcastBootstrap sends the same messages (see README).
Scatter(op, r, tag) ==
    IF r = op.root
    THEN EachOther(r, [p \in Ranks |-> ToPeer(p, tag, <<"in", p>>)])
    ELSE <<FromPeer(op.root, tag, <<"out", r>>)>>

\* bootstrapExchange between the first and the last rank.
Exchange_same(op, r) ==
    LET p == (N - 1) - r
    IN  IF r \notin {0, N - 1} \/ N = 1 THEN <<>>
        ELSE <<ToPeer(p, 7, <<"in", p>>), FromPeer(p, 7, <<"out", p>>)>>
Exchange(op, r) ==
    LET p == (N - 1) - r
    IN  IF r \notin {0, N - 1} \/ N = 1 THEN <<>>
        ELSE IF r < p
        THEN <<ToPeer(p, 7, <<"in", p>>), FromPeer(p, 7, <<"out", p>>)>>
        ELSE <<FromPeer(p, 7, <<"out", p>>), ToPeer(p, 7, <<"in", p>>)>>

\* flagcxSymLocalConverge: rank 0 collects one status from every rank in rank
\* order and sends the first failure back, both ways with one tag.
Converge(r) ==
    IF r = 0
    THEN EachOther(0, [p \in Ranks |-> FromPeer(p, 8, <<"first", 0>>)])
         \o EachOther(0, [p \in Ranks |-> ToPeer(p, 8, <<"out", 0>>)])
    ELSE <<ToPeer(0, 8, <<"out", 0>>), FromPeer(0, 8, <<"out", 0>>)>>

Steps(op, r) ==
    CASE op.kind = "allgather"     -> AllGather(r)
      [] op.kind = "reducescatter" -> ReduceScatter(r, [s \in Ranks |-> 1])
      [] op.kind = "allreduce"     -> ReduceScatter(r, [s \in Ranks |-> Length(op, s)]) \o AllGather(r)
      [] op.kind = "reduce"        -> ReduceScatter(r, [s \in Ranks |-> Length(op, s)])
                                          \o Gather(op, r, -9993, "out")
      [] op.kind = "alltoall"      -> AlltoAll(r, -9995)
      [] op.kind = "alltoallv"     -> AlltoAll(r, -9998)
      [] op.kind = "barrier"       -> Barrier(r)
      [] op.kind = "bcast"         -> Broadcast(op, r)
      [] op.kind = "gather"        -> Gather(op, r, -9996, "in")
      [] op.kind = "scatter"       -> Scatter(op, r, -9997)
      [] op.kind = "exchange"      -> Exchange(op, r)
      [] op.kind = "converge"      -> Converge(r)

\* The recvbuff as a call finds or prepares it.
Prepared(op, r, k) ==
    LET own == [NoData EXCEPT ![r] = In(op, r, r, k)]
    IN  CASE op.kind \in {"allgather", "alltoall", "alltoallv"} -> own
          [] op.kind \in {"bcast", "gather", "scatter"} ->
                 IF r = op.root THEN own ELSE NoData
          [] op.kind = "converge" ->
                 [NoData EXCEPT ![0] = IF r \in op.failed THEN Block(r, r, k) ELSE EmptyBag]
          [] OTHER -> NoData

-----------------------------------------------------------------------------
\* The allgather of the listen addresses that ends bootstrapCollInit.
Addresses == [kind |-> "allgather", root |-> 0, count |-> N, failed |-> {}]
Op(k) == IF k = 0 THEN Addresses ELSE program[k]

\* Headers, addresses, barrier tokens and statuses always fit.
Small(r) == eager \/ call[r] = 0 \/ Op(call[r]).kind \in {"barrier", "converge"}

Script(r) == Steps(Op(call[r]), r)
Step(r) == Script(r)[at[r]]

BootstrapInit ==
    /\ program \in Programs
    /\ eager \in BOOLEAN
    /\ checkedIn = {} /\ told = 0
    /\ stage = [r \in Ranks |-> "new"]
    /\ call = [r \in Ranks |-> 0]
    /\ at = [r \in Ranks |-> 1]
    /\ sent = [r \in Ranks |-> FALSE]
    /\ got = [r \in Ranks |-> FALSE]
    /\ listen = [r \in Ranks |-> <<>>]
    /\ unexpected = [r \in Ranks |-> <<>>]
    /\ ring = [r \in Ranks |-> <<>>]
    /\ ringFrom = [r \in Ranks |-> None]
    /\ out = [r \in Ranks |-> NoData]
    /\ acc = [r \in Ranks |-> EmptyBag]

-----------------------------------------------------------------------------
(* The rendezvous: bootstrapCollInit and the bootstrapRoot thread.          *)

CheckIn(r) ==
    /\ stage[r] = "new"
    /\ stage' = [stage EXCEPT ![r] = "waiting"]
    /\ UNCHANGED <<program, eager, rootVars, call, at, sent, got, netVars, dataVars>>

RootAccept(r) ==
    /\ stage[r] = "waiting" /\ r \notin checkedIn
    /\ checkedIn' = checkedIn \cup {r}
    /\ UNCHANGED <<program, eager, told, stage, call, at, sent, got, netVars, dataVars>>

AllIn == checkedIn = Ranks

RootTell ==
    /\ AllIn
    /\ told < N
    /\ told' = told + 1
    /\ UNCHANGED <<program, eager, checkedIn, stage, call, at, sent, got, netVars, dataVars>>

Connection(r, isRing, tag, val) ==
    [from |-> r, ring |-> isRing, tag |-> tag, val |-> val, step |-> <<call[r], at[r]>>]

RingConnect(r) ==
    /\ stage[r] = "waiting" /\ r < told
    /\ LET next == (r + 1) % N
       IN  listen' = [listen EXCEPT ![next] = Append(@, Connection(r, TRUE, 0, EmptyBag))]
    /\ stage' = [stage EXCEPT ![r] = "connected"]
    /\ UNCHANGED <<program, eager, rootVars, call, at, sent, got,
                   unexpected, ring, ringFrom, dataVars>>

\* Whatever connection comes first on listenSock is taken for the ring.
RingAccept(r) ==
    /\ stage[r] = "connected"
    /\ listen[r] # <<>>
    /\ ringFrom' = [ringFrom EXCEPT ![r] = Head(listen[r]).from]
    /\ listen' = [listen EXCEPT ![r] = Tail(@)]
    /\ out' = [out EXCEPT ![r] = Prepared(Addresses, r, 0)]
    /\ stage' = [stage EXCEPT ![r] = IF N = 1 THEN "ready" ELSE "busy"]
    /\ UNCHANGED <<program, eager, rootVars, call, at, sent, got, unexpected, ring, acc>>

-----------------------------------------------------------------------------
(* The calls.                                                               *)

Enter(r) ==
    /\ stage[r] = "ready" /\ call[r] < Len(program)
    /\ LET k == call[r] + 1
       IN  /\ call' = [call EXCEPT ![r] = k]
           /\ at' = [at EXCEPT ![r] = 1]
           /\ out' = [out EXCEPT ![r] = Prepared(program[k], r, k)]
           /\ stage' = [stage EXCEPT ![r] =
                  IF Steps(program[k], r) = <<>> THEN "ready" ELSE "busy"]
    /\ acc' = [acc EXCEPT ![r] = EmptyBag]
    /\ UNCHANGED <<program, eager, rootVars, sent, got, netVars>>

\* The call goes on to its next step, or returns.
NextStep(r) ==
    /\ sent' = [sent EXCEPT ![r] = FALSE]
    /\ got' = [got EXCEPT ![r] = FALSE]
    /\ at' = [at EXCEPT ![r] = @ + 1]
    /\ stage' = [stage EXCEPT ![r] = IF at[r] = Len(Script(r)) THEN "ready" ELSE "busy"]

Payload(r) ==
    LET put == Step(r).put
    IN  CASE put[1] = "in"  -> In(Op(call[r]), r, put[2], call[r])
          [] put[1] = "out" -> out[r][put[2]]
          [] put[1] = "acc" -> acc[r]

\* bootstrapNetSend on the ring, or bootstrapCollConnect and what follows it.
Send(r) ==
    /\ stage[r] = "busy" /\ Step(r).to # None /\ ~sent[r]
    /\ IF Step(r).ring
       THEN /\ ring' = [ring EXCEPT ![r] = Append(@, Payload(r))]
            /\ UNCHANGED listen
       ELSE /\ listen' = [listen EXCEPT ![Step(r).to] =
                   Append(@, Connection(r, FALSE, Step(r).tag, Payload(r)))]
            /\ UNCHANGED ring
    /\ IF Small(r) /\ Step(r).from = None
       THEN NextStep(r)
       ELSE sent' = [sent EXCEPT ![r] = TRUE] /\ UNCHANGED <<got, at, stage>>
    /\ UNCHANGED <<program, eager, rootVars, call, unexpected, ringFrom, dataVars>>

\* The receiver has read what this step sent.
Drained(r) ==
    IF Step(r).ring THEN ring[r] = <<>>
    ELSE \A c \in ToSet(listen[Step(r).to]) \cup ToSet(unexpected[Step(r).to]) :
             ~(c.from = r /\ c.step = <<call[r], at[r]>>)

SendReturns(r) ==
    /\ stage[r] = "busy" /\ sent[r] /\ ~Small(r)
    /\ Drained(r)
    /\ Step(r).from = None \/ got[r]
    /\ NextStep(r)
    /\ UNCHANGED <<program, eager, rootVars, call, netVars, dataVars>>

\* What a received payload does to the buffers of the call.
Store(r, val) ==
    LET get == Step(r).get
        sum == val (+) In(Op(call[r]), r, get[2], call[r])
        held == out[r][get[2]]
    IN  /\ out' = CASE get[1] = "out"   -> [out EXCEPT ![r][get[2]] = val]
                    [] get[1] = "sum"   -> [out EXCEPT ![r][get[2]] = sum]
                    [] get[1] = "first" -> [out EXCEPT ![r][get[2]] =
                                               IF held = EmptyBag THEN val ELSE held]
                    [] OTHER            -> out
        /\ acc' = IF get[1] \in {"fold", "sum"} THEN [acc EXCEPT ![r] = sum] ELSE acc

\* The receive of the step ends; a send still going on keeps the step open.
Received(r, val) ==
    /\ Store(r, val)
    /\ IF Step(r).to = None \/ Small(r)
       THEN NextStep(r)
       ELSE got' = [got EXCEPT ![r] = TRUE] /\ UNCHANGED <<sent, at, stage>>
    /\ UNCHANGED <<program, eager, rootVars, call, ringFrom>>

RecvRing(r) ==
    /\ stage[r] = "busy" /\ Step(r).ring /\ Step(r).from # None /\ ~got[r]
    /\ Step(r).to = None \/ sent[r]
    /\ LET prev == ringFrom[r]
       IN  /\ ring[prev] # <<>>
           /\ Received(r, Head(ring[prev]))
           /\ ring' = [ring EXCEPT ![prev] = Tail(@)]
    /\ UNCHANGED <<listen, unexpected>>

Receiving(r) == stage[r] = "busy" /\ ~Step(r).ring /\ Step(r).from # None

Wanted(r, c) == c.from = Step(r).from /\ c.tag = Step(r).tag

\* The positions of the unexpected list the receive would take.
Waiting(r) == {i \in DOMAIN unexpected[r] : Wanted(r, unexpected[r][i])}

First_last(S) == CHOOSE i \in S : \A j \in S : j <= i
First(S) == CHOOSE i \in S : \A j \in S : i <= j

Dequeue(r) ==
    /\ Receiving(r)
    /\ Waiting(r) # {}
    /\ LET i == First(Waiting(r))
       IN  /\ Received(r, unexpected[r][i].val)
           /\ unexpected' = [unexpected EXCEPT ![r] = RemoveAt(@, i)]
    /\ UNCHANGED <<listen, ring>>

Accept(r) ==
    /\ Receiving(r)
    /\ Waiting(r) = {}
    /\ listen[r] # <<>>
    /\ LET c == Head(listen[r])
       IN  \/ /\ Wanted(r, c)
              /\ Received(r, c.val)
              /\ UNCHANGED unexpected
           \/ /\ ~Wanted(r, c)
              /\ unexpected' = [unexpected EXCEPT ![r] = Append(@, c)]
              /\ UNCHANGED <<program, eager, rootVars, stage, call, at, sent, got,
                             ringFrom, dataVars>>
    /\ listen' = [listen EXCEPT ![r] = Tail(@)]
    /\ UNCHANGED ring

\* bootstrapClose
Close(r) ==
    /\ stage[r] = "ready" /\ call[r] = Len(program)
    /\ stage' = [stage EXCEPT ![r] = "closed"]
    /\ UNCHANGED <<program, eager, rootVars, call, at, sent, got, netVars, dataVars>>

Finished == (\A r \in Ranks : stage[r] = "closed") /\ UNCHANGED bootstrapVars

RankStep(r) ==
    \/ CheckIn(r) \/ RingConnect(r) \/ RingAccept(r)
    \/ Enter(r) \/ Send(r) \/ SendReturns(r)
    \/ RecvRing(r) \/ Dequeue(r) \/ Accept(r) \/ Close(r)

RootStep == RootTell \/ \E r \in Ranks : RootAccept(r)

BootstrapNext == RootStep \/ (\E r \in Ranks : RankStep(r)) \/ Finished

BootstrapSpec == BootstrapInit /\ [][BootstrapNext]_bootstrapVars

\* Every rank's thread and the root's thread go on while they can.
BootstrapFairness ==
    /\ WF_bootstrapVars(RootStep)
    /\ \A r \in Ranks : WF_bootstrapVars(RankStep(r))

LiveBootstrapSpec == BootstrapSpec /\ BootstrapFairness

-----------------------------------------------------------------------------
(* Properties.                                                              *)

All(s, k) == SetToBag({<<q, s, k>> : q \in Ranks})
Least(S) == CHOOSE q \in S : \A p \in S : q <= p

\* What call k must leave in the recvbuff of rank r, as a set of blocks and
\* their values; a block that is not named is not looked at.
Expected(op, r, k) ==
    LET sums == {<<s, IF Length(op, s) = 0 THEN EmptyBag ELSE All(s, k)>> : s \in Ranks}
    IN  CASE op.kind = "allgather"     -> {<<s, Block(s, s, k)>> : s \in Ranks}
          [] op.kind = "reducescatter" -> {<<r, All(r, k)>>}
          [] op.kind = "allreduce"     -> sums
          [] op.kind = "reduce"        -> IF r = op.root THEN sums ELSE {}
          [] op.kind \in {"alltoall", "alltoallv"} -> {<<s, Block(s, r, k)>> : s \in Ranks}
          [] op.kind = "bcast"         -> {<<op.root, Block(op.root, op.root, k)>>}
          [] op.kind = "gather"        ->
                 IF r = op.root THEN {<<s, Block(s, s, k)>> : s \in Ranks} ELSE {}
          [] op.kind = "scatter"       -> {<<r, Block(op.root, r, k)>>}
          [] op.kind = "exchange"      ->
                 IF r \in {0, N - 1} /\ N > 1
                 THEN {<<(N - 1) - r, Block((N - 1) - r, r, k)>>} ELSE {}
          [] op.kind = "converge"      ->
                 {<<0, IF op.failed = {} THEN EmptyBag
                       ELSE Block(Least(op.failed), Least(op.failed), k)>>}
          [] OTHER -> {}

Returned(r, k) == call[r] > k \/ (call[r] = k /\ stage[r] \in {"ready", "closed"})

\* When a call has returned on a rank, the rank's buffer holds exactly what the
\* collective promises: every contribution once, none of another block, of
\* another rank or of another call, although messages of several calls with
\* equal tags may be queued or in the unexpected list of a rank at once, and
\* although the ring was built from whichever connection came first.
ResultsAreRight ==
    \A r \in Ranks : stage[r] \in {"ready", "closed"} =>
        \A e \in Expected(Op(call[r]), r, call[r]) : out[r][e[1]] = e[2]

\* No rank returns from a barrier before every rank has entered it, also when
\* barriers that share their tag follow each other.
BarrierHolds ==
    \A k \in 1 .. Len(program) : program[k].kind = "barrier" =>
        \A r, q \in Ranks : Returned(r, k) => call[q] >= k

\* The rendezvous and every call return on every rank, also when no payload
\* fits the socket buffers and each send waits for its receiver.
CollectivesReturn == <>(\A r \in Ranks : stage[r] = "closed")
=============================================================================
