---------------------------- MODULE GroupSchedule ----------------------------
(***************************************************************************)
(* How the sends and receives of a group become proxy operations           *)
(* (flagcx/core/init.cc and group.cc).                                     *)
(*                                                                         *)
(* Every rank pairs its peers in rounds (p2pSchedule): in a round it sends *)
(* to the rank at some distance and receives from the one at the same      *)
(* distance behind.  groupLaunch walks through the rounds and gives each   *)
(* operation an opId, shared by the rounds of one node, and a step within  *)
(* it; the operations of an opId start one after another.  Each rank does  *)
(* so alone, from its own tasks.                                           *)
(*                                                                         *)
(* Operators only.  c.nodeOf is the node of each rank 0, 1, ...;           *)
(* c.scheduled is ~p2pScheduleDisable.  The messages of a group are a set  *)
(* of pairs <<sender, receiver>>: at most one message of a pair, on one    *)
(* channel, without an opId or step of the caller.                         *)
(***************************************************************************)
EXTENDS Integers, Sequences, FiniteSets, SequencesExt

RankOf(c) == DOMAIN c.nodeOf
NRanks(c) == Cardinality(RankOf(c))
Nodes(c)  == {c.nodeOf[r] : r \in RankOf(c)}

OnNode(c, node) == {r \in RankOf(c) : c.nodeOf[r] = node}

\* localRankToRank of a node, from index 1.
LocalRanks(c, node) == SetToSortSeq(OnNode(c, node), <)

\* rankToLocalRank.
LocalRank(c, r) == Cardinality({q \in RankOf(c) : c.nodeOf[q] = c.nodeOf[r] /\ q < r})

\* Nodes of different sizes are scheduled as one.
Flat(c) == \E m, n \in Nodes(c) : Cardinality(OnNode(c, m)) # Cardinality(OnNode(c, n))

NNodes(c)  == IF Flat(c) THEN 1 ELSE Cardinality(Nodes(c))
NLocals(c) == NRanks(c) \div NNodes(c)

Pow2Up(n) == 2 ^ (CHOOSE e \in 0..n : 2 ^ e >= n /\ \A d \in 0..(e - 1) : 2 ^ d < n)

\* The distances below n in the order of the quadratic update, 0 first.
Deltas(n) ==
  SelectSeq([k \in 1..Pow2Up(n) |-> ((k * (k - 1)) \div 2) % Pow2Up(n)], LAMBDA d : d < n)

\* The rank at a distance, dn nodes and dl local ranks away.
RankAt(c, r, dn, dl) ==
  IF Flat(c) THEN (r + dl) % NRanks(c)
  ELSE LocalRanks(c, (c.nodeOf[r] + dn) % NNodes(c))[((LocalRank(c, r) + dl) % NLocals(c)) + 1]

\* comm->p2pSchedule.  Mutant: the receives go round in the direction of the sends.
P2pSchedule_forward(c, r) ==
  [round \in 0..(NRanks(c) - 1) |->
     LET dn == Deltas(NNodes(c))[(round \div NLocals(c)) + 1]
         dl == Deltas(NLocals(c))[(round % NLocals(c)) + 1]
     IN [sendRank |-> RankAt(c, r, dn, dl), recvRank |-> RankAt(c, r, dn, dl)]]

P2pSchedule(c, r) ==
  [round \in 0..(NRanks(c) - 1) |->
     LET dn == Deltas(NNodes(c))[(round \div NLocals(c)) + 1]
         dl == Deltas(NLocals(c))[(round % NLocals(c)) + 1]
     IN [sendRank |-> RankAt(c, r, dn, dl),
         recvRank |-> RankAt(c, r, NNodes(c) - dn, NLocals(c) - dl)]]

-----------------------------------------------------------------------------
(* groupLaunch, for a rank r with schedule s *)

\* comm->localRanks: the ranks of the rank's own node, also where the schedule
\* is flat.
RoundOpId(c, r, round) == (round \div Cardinality(OnNode(c, c.nodeOf[r]))) + 1

Rounds(c) == 1..(NRanks(c) - 1)

\* The rounds in which a rank has something to send, and to receive.
SendRounds(c, s, r, msgs) == {k \in Rounds(c) : <<r, s[k].sendRank>> \in msgs}
RecvRounds(c, s, r, msgs) == {k \in Rounds(c) : <<s[k].recvRank, r>> \in msgs}

\* roundSendStep and roundRecvStep: operations of the same opId before.
RoundStep(c, r, rounds, round) ==
  Cardinality({k \in rounds : k < round /\ RoundOpId(c, r, k) = RoundOpId(c, r, round)})

ProxyOp(dir, peer, opId, step, round) ==
  [dir |-> dir, peer |-> peer, opId |-> opId, step |-> step, round |-> round]

\* The copy of a rank to itself comes before the rounds.
SelfOps(r, msgs) == IF <<r, r>> \in msgs THEN {ProxyOp("send", r, 0, 0, 0)} ELSE {}

RecvOps(c, s, r, msgs) ==
  LET rounds == RecvRounds(c, s, r, msgs)
  IN {ProxyOp("recv", s[k].recvRank, -RoundOpId(c, r, k), RoundStep(c, r, rounds, k), k) :
        k \in rounds}

SendOps(c, s, r, msgs) ==
  LET rounds == SendRounds(c, s, r, msgs)
  IN {ProxyOp("send", s[k].sendRank, RoundOpId(c, r, k), RoundStep(c, r, rounds, k), k) :
        k \in rounds}

BuiltOps(c, s, r, msgs) == SelfOps(r, msgs) \cup RecvOps(c, s, r, msgs) \cup SendOps(c, s, r, msgs)

\* They are built round by round, the receive of a round before its send.
BuiltBefore(p, o) ==
  p.round < o.round \/ (p.round = o.round /\ p.dir = "recv" /\ o.dir = "send")

\* How many elements of S come before o, and S as a sequence in that order.
Place(S, Before(_, _), o) == Cardinality({p \in S : Before(p, o)})
Ordered(S, Before(_, _)) ==
  [n \in 1..Cardinality(S) |-> CHOOSE o \in S : Place(S, Before, o) = n - 1]

\* Without the schedule each operation has an opId of its own (defaultOpId) and
\* starts at once.
GroupOps(c, s, r, msgs) ==
  LET built == BuiltOps(c, s, r, msgs)
  IN IF c.scheduled THEN built
     ELSE {ProxyOp(o.dir, o.peer, Place(built, BuiltBefore, o), 0, o.round) : o \in built}

\* The operations of one group are saved in the order of their steps.
SavedBefore(p, o) == p.step < o.step \/ (p.step = o.step /\ BuiltBefore(p, o))
=============================================================================
