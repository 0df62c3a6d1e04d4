---------------------------- MODULE MCLifecycle ----------------------------
(***************************************************************************)
(* TLC instance of the three models of how a communicator comes up, runs   *)
(* its threads and goes away: Bootstrap, WorkerPool and P2pTeardown.  They *)
(* share no variable, so an interleaving of two of them shows nothing that *)
(* each does not show alone: one is under way, and the others are where    *)
(* they have nothing to do (a bootstrap that was closed after the          *)
(* rendezvous, a pool that nobody uses, ranks that have ended).            *)
(***************************************************************************)
EXTENDS Bootstrap, WorkerPool, P2pTeardown

VARIABLE active   \* the model that is under way

CallOf(kind, root, count, failed) ==
    [kind |-> kind, root |-> root, count |-> count, failed |-> failed]
Do(kind) == CallOf(kind, 0, 3, {})

MCPrograms == {
    <<Do("barrier"), Do("barrier"), CallOf("bcast", 1, 3, {})>>,
    <<Do("exchange"), CallOf("converge", 0, 3, {1, 2}), CallOf("converge", 0, 3, {})>>,
    <<CallOf("reduce", 1, 2, {}), CallOf("gather", 1, 3, {}), CallOf("gather", 1, 3, {})>>,
    <<CallOf("allreduce", 0, 1, {}), Do("reducescatter")>>,
    <<Do("alltoall"), Do("alltoall")>>,
    <<Do("alltoallv"), CallOf("scatter", 2, 3, {}), Do("allgather")>>,
    <<CallOf("bcast", 2, 3, {}), CallOf("bcast", 2, 3, {}), Do("exchange")>> }

\* Two ranks that send to each other: either one may wait for the other.
Pair == {<<1, 2>>, <<2, 1>>}

BootstrapClosed ==
    /\ program = <<>> /\ eager = TRUE
    /\ checkedIn = Ranks /\ told = N
    /\ stage = [r \in Ranks |-> "closed"]
    /\ call = [r \in Ranks |-> 0] /\ at = [r \in Ranks |-> N]
    /\ sent = [r \in Ranks |-> FALSE] /\ got = [r \in Ranks |-> FALSE]
    /\ listen = [r \in Ranks |-> <<>>] /\ unexpected = [r \in Ranks |-> <<>>]
    /\ ring = [r \in Ranks |-> <<>>] /\ ringFrom = [r \in Ranks |-> (r + N - 1) % N]
    /\ out = [r \in Ranks |-> [s \in Ranks |-> Block(s, s, 0)]]
    /\ acc = [r \in Ranks |-> EmptyBag]

TeardownEnded ==
    /\ phase = [r \in Rank |-> "ended"] /\ workers = [r \in Rank |-> FALSE]
    /\ unvisited = [r \in Rank |-> {}] /\ visited = [r \in Rank |-> NoConn]
    /\ outcome = [r \in Rank |-> "Success"]
    /\ segment = {} /\ attached = {} /\ linked = {} /\ mapped = {} /\ backing = {}
    /\ closed = {} /\ writing = {} /\ reading = {}

LifecycleInit ==
    \/ active = "bootstrap" /\ BootstrapInit /\ Init /\ TeardownEnded
    \/ active = "pool" /\ BootstrapClosed /\ Init /\ TeardownEnded
    \/ active = "teardown" /\ BootstrapClosed /\ Init /\ TeardownInit

LifecycleNext ==
    /\ UNCHANGED active
    /\ \/ active = "bootstrap" /\ BootstrapNext /\ UNCHANGED <<vars, teardownVars>>
       \/ active = "pool" /\ Next /\ UNCHANGED <<bootstrapVars, teardownVars>>
       \/ active = "teardown" /\ TeardownNext /\ UNCHANGED <<bootstrapVars, vars>>

LifecycleSpec ==
    /\ LifecycleInit
    /\ [][LifecycleNext]_<<active, bootstrapVars, vars, teardownVars>>
    /\ BootstrapFairness /\ Fairness /\ TeardownFairness
=============================================================================
