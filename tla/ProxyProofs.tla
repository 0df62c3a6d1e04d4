----------------------------- MODULE ProxyProofs -----------------------------
(***************************************************************************)
(* What is proved about the proxy threads: the safety of ProxyProgress for *)
(* any programs (any ranks, nodes, groups and messages, with and without   *)
(* the schedule, with and without errors), and that NetPipeline implements *)
(* Transfer for any operations and any number of chunks under way.         *)
(***************************************************************************)
EXTENDS ProxyProgress, NetPipeline, ScoreboardProofs, SequenceTheorems

\* The image of a finite set is finite.
LEMMA ImageIsFinite ==
  ASSUME NEW S, IsFiniteSet(S), NEW f, DOMAIN f = S
  PROVE  IsFiniteSet({f[x] : x \in S})
<1> DEFINE V == {f[x] : x \in S}
           g == [x \in S |-> f[x]]
<1>1. g \in Surjection(S, V) BY DEF Surjection
<1> QED BY <1>1, FS_Surjection

\* In a finite set with a strict order that relates any two elements, counting
\* what comes before an element is a bijection with the first natural numbers.
StrictOrder(S, R) ==
  /\ \A o \in S : <<o, o>> \notin R
  /\ \A p, o \in S : p # o => <<p, o>> \in R \/ <<o, p>> \in R
  /\ \A p, o, q \in S : <<p, o>> \in R /\ <<o, q>> \in R => <<p, q>> \in R

Below(S, R, o) == {p \in S : <<p, o>> \in R}

LEMMA PlacesAreDistinct ==
  ASSUME NEW S, IsFiniteSet(S), NEW R, StrictOrder(S, R)
  PROVE  /\ \A o \in S : Cardinality(Below(S, R, o)) \in 0..(Cardinality(S) - 1)
         /\ \A p, o \in S : <<p, o>> \in R =>
              Cardinality(Below(S, R, p)) < Cardinality(Below(S, R, o))
         /\ \A p, o \in S : Cardinality(Below(S, R, p)) = Cardinality(Below(S, R, o)) => p = o
         /\ Cardinality(S) \in Nat
<1>0. Cardinality(S) \in Nat BY FS_CardinalityType
<1>1. ASSUME NEW o \in S PROVE Cardinality(Below(S, R, o)) \in 0..(Cardinality(S) - 1)
  <2>1. Below(S, R, o) \in SUBSET S /\ Below(S, R, o) # S BY DEF Below, StrictOrder
  <2>2. /\ IsFiniteSet(Below(S, R, o))
        /\ Cardinality(Below(S, R, o)) <= Cardinality(S)
        /\ Cardinality(S) # Cardinality(Below(S, R, o))
    BY <2>1, FS_Subset
  <2>3. Cardinality(Below(S, R, o)) \in Nat BY <2>2, FS_CardinalityType
  <2> QED BY <1>0, <2>2, <2>3
<1>2. ASSUME NEW p \in S, NEW o \in S, <<p, o>> \in R
      PROVE  Cardinality(Below(S, R, p)) < Cardinality(Below(S, R, o))
  <2> DEFINE P == Below(S, R, p)
             O == Below(S, R, o)
  <2>1. P \in SUBSET O /\ p \in O /\ p \notin P /\ O \in SUBSET S
    BY <1>2 DEF Below, StrictOrder
  <2>2. IsFiniteSet(O) BY <2>1, FS_Subset
  <2>3. P # O BY <2>1
  <2> HIDE DEF P, O
  <2>4. Cardinality(P) <= Cardinality(O) /\ Cardinality(O) # Cardinality(P) /\ IsFiniteSet(P)
    BY <2>1, <2>2, <2>3, FS_Subset
  <2>5. Cardinality(P) \in Nat /\ Cardinality(O) \in Nat BY <2>2, <2>4, FS_CardinalityType
  <2> QED BY <2>4, <2>5 DEF P, O
<1>3. ASSUME NEW p \in S, NEW o \in S, p # o
      PROVE  Cardinality(Below(S, R, p)) # Cardinality(Below(S, R, o))
  <2>1. <<p, o>> \in R \/ <<o, p>> \in R BY <1>3 DEF StrictOrder
  <2>2. Cardinality(Below(S, R, p)) \in Int /\ Cardinality(Below(S, R, o)) \in Int BY <1>1
  <2> QED BY <1>2, <2>1, <2>2
<1> QED BY <1>0, <1>1, <1>2, <1>3

LEMMA EveryPlaceIsTaken ==
  ASSUME NEW S, IsFiniteSet(S), NEW R, StrictOrder(S, R),
         NEW k \in 0..(Cardinality(S) - 1)
  PROVE  \E o \in S : Cardinality(Below(S, R, o)) = k
<1> DEFINE n == Cardinality(S)
           f == [o \in S |-> Cardinality(Below(S, R, o))]
<1>1. f \in Injection(S, 0..(n - 1)) /\ n \in Nat BY PlacesAreDistinct DEF Injection, IsInjective
<1>2. IsFiniteSet(0..(n - 1)) /\ Cardinality(0..(n - 1)) = n
  BY <1>1, FS_Interval
<1> HIDE DEF f
<1>3. f \in Surjection(S, 0..(n - 1)) BY <1>1, <1>2, FS_Injection
<1>4. PICK o \in S : f[o] = k BY <1>3 DEF Surjection
<1> QED BY <1>4 DEF f

-----------------------------------------------------------------------------
(* The operations of a group *)

\* A program and one of its ranks.
ProgramOK(c, r) ==
  /\ NRanks(c) \in Nat /\ RankOf(c) = 0..(NRanks(c) - 1)
  /\ r \in RankOf(c)

LEMMA OpIdOfARound ==
  ASSUME NEW c, NEW r, ProgramOK(c, r), NEW k \in Rounds(c)
  PROVE  RoundOpId(c, r, k) \in Nat \ {0} /\ k \in Nat \ {0}
<1> DEFINE Mates == OnNode(c, c.nodeOf[r])
<1>1. Mates \in SUBSET RankOf(c) /\ r \in Mates /\ IsFiniteSet(RankOf(c))
  BY FS_Interval DEF ProgramOK, OnNode
<1> HIDE DEF Mates
<1>2. IsFiniteSet(Mates) /\ Mates # {} BY <1>1, FS_Subset
<1>3. Cardinality(Mates) \in Nat \ {0} BY <1>2, FS_CardinalityType, FS_EmptySet
<1>4. k \in Nat \ {0} BY DEF Rounds, ProgramOK
<1>5. k \div Cardinality(Mates) \in Nat BY <1>3, <1>4
<1> QED BY <1>4, <1>5 DEF RoundOpId, Mates

\* The steps of one opId are different natural numbers.
LEMMA StepsOfRounds ==
  ASSUME NEW c, NEW r, ProgramOK(c, r), NEW rounds \in SUBSET Rounds(c)
  PROVE  /\ \A k \in rounds : RoundStep(c, r, rounds, k) \in Nat
         /\ \A j, k \in rounds :
              RoundOpId(c, r, j) = RoundOpId(c, r, k)
                /\ RoundStep(c, r, rounds, j) = RoundStep(c, r, rounds, k) => j = k
<1>1. Rounds(c) \in SUBSET Nat /\ IsFiniteSet(Rounds(c))
  <2>1. NRanks(c) - 1 \in Int /\ 1 \in Int BY DEF ProgramOK
  <2>2. Rounds(c) = 1..(NRanks(c) - 1) BY DEF Rounds
  <2>3. IsFiniteSet(1..(NRanks(c) - 1)) BY <2>1, FS_Interval
  <2>4. \A k \in 1..(NRanks(c) - 1) : k \in Nat BY <2>1
  <2> QED BY <2>2, <2>3, <2>4
<1> DEFINE Before(k) == {j \in rounds : j < k /\ RoundOpId(c, r, j) = RoundOpId(c, r, k)}
<1>2. ASSUME NEW k \in rounds
      PROVE  /\ IsFiniteSet(Before(k)) /\ Cardinality(Before(k)) \in Nat
             /\ RoundStep(c, r, rounds, k) = Cardinality(Before(k))
  <2>1. Before(k) \in SUBSET Rounds(c) OBVIOUS
  <2>2. IsFiniteSet(Before(k)) BY <1>1, <2>1, FS_Subset
  <2> QED BY <2>2, FS_CardinalityType DEF RoundStep
<1>3. ASSUME NEW j \in rounds, NEW k \in rounds, j < k,
             RoundOpId(c, r, j) = RoundOpId(c, r, k)
      PROVE  RoundStep(c, r, rounds, j) # RoundStep(c, r, rounds, k)
  <2>1. Before(j) \in SUBSET Before(k) /\ j \in Before(k) /\ j \notin Before(j)
    BY <1>1, <1>3
  <2>2. Before(j) # Before(k) BY <2>1
  <2> HIDE DEF Before
  <2> QED BY <1>2, <2>1, <2>2, FS_Subset
<1>4. \A j, k \in rounds : j # k => j < k \/ k < j BY <1>1
<1> QED BY <1>2, <1>3, <1>4

\* What tells the operations of a group apart: the round and direction, and
\* also the opId and step.
OpsOK(S) ==
  /\ IsFiniteSet(S)
  /\ \A o \in S : /\ o.round \in Nat /\ o.dir \in {"send", "recv"}
                  /\ o.opId \in Int /\ o.step \in Nat
                  /\ o = ProxyOp(o.dir, o.peer, o.opId, o.step, o.round)
  /\ \A p, o \in S : p.round = o.round /\ p.dir = o.dir => p = o
  /\ \A p, o \in S : p.opId = o.opId /\ p.step = o.step => p = o

OneWay(c, r, rounds, peer, dir, sign) ==
  {ProxyOp(dir, peer[k], sign * RoundOpId(c, r, k), RoundStep(c, r, rounds, k), k) :
     k \in rounds}

LEMMA OneDirection ==
  ASSUME NEW c, NEW r, ProgramOK(c, r), NEW rounds \in SUBSET Rounds(c),
         NEW peer, DOMAIN peer = rounds, NEW dir \in {"send", "recv"}, NEW sign \in {1, -1}
  PROVE  /\ OpsOK(OneWay(c, r, rounds, peer, dir, sign))
         /\ \A o \in OneWay(c, r, rounds, peer, dir, sign) :
              o.round # 0 /\ o.dir = dir /\ sign * o.opId > 0
<1> DEFINE S == OneWay(c, r, rounds, peer, dir, sign)
           OpAt(k) == ProxyOp(dir, peer[k], sign * RoundOpId(c, r, k), RoundStep(c, r, rounds, k), k)
           f == [k \in rounds |-> OpAt(k)]
<1>1. IsFiniteSet(rounds)
  <2>1. IsFiniteSet(Rounds(c)) BY FS_Interval DEF Rounds, ProgramOK
  <2> QED BY <2>1, FS_Subset
<1>2. DOMAIN f = rounds /\ \A k \in rounds : f[k] = OpAt(k) OBVIOUS
<1>3. S = {f[k] : k \in rounds} BY <1>2 DEF OneWay
<1>4. IsFiniteSet(S)
  <2> HIDE DEF f
  <2> QED BY <1>1, <1>2, <1>3, ImageIsFinite
<1>5. \A k \in rounds : /\ RoundOpId(c, r, k) \in Nat \ {0} /\ k \in Nat \ {0}
                        /\ RoundStep(c, r, rounds, k) \in Nat
  BY OpIdOfARound, StepsOfRounds
<1>6. \A k \in rounds : /\ OpAt(k).round = k /\ OpAt(k).dir = dir
                        /\ OpAt(k).opId = sign * RoundOpId(c, r, k)
                        /\ OpAt(k).step = RoundStep(c, r, rounds, k)
                        /\ OpAt(k) = ProxyOp(OpAt(k).dir, OpAt(k).peer, OpAt(k).opId, OpAt(k).step, OpAt(k).round)
  BY DEF ProxyOp
<1>7. \A j, k \in rounds : OpAt(j).opId = OpAt(k).opId /\ OpAt(j).step = OpAt(k).step => j = k
  <2>1. \A j, k \in rounds : sign * RoundOpId(c, r, j) = sign * RoundOpId(c, r, k)
                               => RoundOpId(c, r, j) = RoundOpId(c, r, k)
    BY <1>5
  <2> QED BY <1>6, <2>1, StepsOfRounds
<1>8. \A k \in rounds : OpAt(k).opId \in Int /\ sign * OpAt(k).opId > 0
  BY <1>5, <1>6
<1> HIDE DEF f, OpAt
<1>9. \A o \in S : \E k \in rounds : o = OpAt(k) BY <1>2, <1>3
<1>10. \A o \in S : /\ o.round \in Nat \ {0} /\ o.dir = dir /\ sign * o.opId > 0
                    /\ o.opId \in Int /\ o.step \in Nat
                    /\ o = ProxyOp(o.dir, o.peer, o.opId, o.step, o.round)
  BY <1>5, <1>6, <1>8, <1>9
<1>11. \A p, o \in S : p.round = o.round => p = o BY <1>6, <1>9
<1>12. \A p, o \in S : p.opId = o.opId /\ p.step = o.step => p = o BY <1>7, <1>9
<1> QED BY <1>4, <1>10, <1>11, <1>12 DEF OpsOK

LEMMA BuiltOpsOK ==
  ASSUME NEW c, NEW r, ProgramOK(c, r), NEW s, NEW msgs
  PROVE  OpsOK(BuiltOps(c, s, r, msgs))
<1> DEFINE X == SelfOps(r, msgs)
           Y == RecvOps(c, s, r, msgs)
           Z == SendOps(c, s, r, msgs)
<1>1. OpsOK(X) /\ \A o \in X : o.round = 0 /\ o.opId = 0
  <2> DEFINE o == ProxyOp("send", r, 0, 0, 0)
  <2>1. X = {o} \/ X = {} BY DEF SelfOps
  <2>2. IsFiniteSet(X) BY <2>1, FS_Singleton, FS_EmptySet
  <2>3. /\ o.round = 0 /\ o.dir = "send" /\ o.opId = 0 /\ o.step = 0
        /\ o = ProxyOp(o.dir, o.peer, o.opId, o.step, o.round)
    BY DEF ProxyOp
  <2> HIDE DEF o, X
  <2> QED BY <2>1, <2>2, <2>3 DEF OpsOK
<1>2. OpsOK(Y) /\ \A o \in Y : o.round # 0 /\ o.dir = "recv" /\ o.opId < 0
  <2> DEFINE rounds == RecvRounds(c, s, r, msgs)
             peer == [k \in rounds |-> s[k].recvRank]
             W == OneWay(c, r, rounds, peer, "recv", (-1))
  <2>1. rounds \in SUBSET Rounds(c) BY DEF RecvRounds
  <2>2. \A k \in rounds : RoundOpId(c, r, k) \in Int BY <2>1, OpIdOfARound
  <2>3. \A k \in rounds : (-1) * RoundOpId(c, r, k) = -RoundOpId(c, r, k) BY <2>2
  <2>4. Y = W BY <2>3 DEF RecvOps, OneWay
  <2>5. DOMAIN peer = rounds OBVIOUS
  <2>6. OpsOK(W) /\ \A o \in W : o.round # 0 /\ o.dir = "recv" /\ (-1) * o.opId > 0
    <3>1. (-1) \in {1, -1} /\ "recv" \in {"send", "recv"} OBVIOUS
    <3> HIDE DEF peer, rounds
    <3> QED BY <2>1, <2>5, <3>1, OneDirection
  <2>7. \A o \in W : o.opId \in Int BY <2>6 DEF OpsOK
  <2> HIDE DEF W, Y
  <2> QED BY <2>4, <2>6, <2>7
<1>3. OpsOK(Z) /\ \A o \in Z : o.round # 0 /\ o.dir = "send" /\ o.opId > 0
  <2> DEFINE rounds == SendRounds(c, s, r, msgs)
             peer == [k \in rounds |-> s[k].sendRank]
             W == OneWay(c, r, rounds, peer, "send", 1)
  <2>1. rounds \in SUBSET Rounds(c) BY DEF SendRounds
  <2>2. \A k \in rounds : RoundOpId(c, r, k) \in Int BY <2>1, OpIdOfARound
  <2>3. \A k \in rounds : 1 * RoundOpId(c, r, k) = RoundOpId(c, r, k) BY <2>2
  <2>4. Z = W BY <2>3 DEF SendOps, OneWay
  <2>5. DOMAIN peer = rounds OBVIOUS
  <2>6. OpsOK(W) /\ \A o \in W : o.round # 0 /\ o.dir = "send" /\ 1 * o.opId > 0
    <3>1. 1 \in {1, -1} /\ "send" \in {"send", "recv"} OBVIOUS
    <3> HIDE DEF peer, rounds
    <3> QED BY <2>1, <2>5, <3>1, OneDirection
  <2>7. \A o \in W : o.opId \in Int BY <2>6 DEF OpsOK
  <2> HIDE DEF W, Z
  <2> QED BY <2>4, <2>6, <2>7
<1> HIDE DEF X, Y, Z
<1>4. IsFiniteSet(X \cup Y \cup Z)
  <2>1. IsFiniteSet(X \cup Y) BY <1>1, <1>2, FS_Union DEF OpsOK
  <2> QED BY <2>1, <1>3, FS_Union DEF OpsOK
<1>5. OpsOK(X \cup Y \cup Z) BY <1>1, <1>2, <1>3, <1>4 DEF OpsOK
<1> QED BY <1>5 DEF BuiltOps, X, Y, Z

\* The operations in the order they are built.
LEMMA BuiltOrder ==
  ASSUME NEW S, OpsOK(S)
  PROVE  /\ \A o \in S : Place(S, BuiltBefore, o) \in Nat
         /\ \A p, o \in S : Place(S, BuiltBefore, p) = Place(S, BuiltBefore, o) => p = o
<1> DEFINE R == {e \in S \X S : BuiltBefore(e[1], e[2])}
<1>1. \A p, o \in S : <<p, o>> \in R <=> BuiltBefore(p, o) OBVIOUS
<1> HIDE DEF R
<1>2. StrictOrder(S, R)
  <2>1. \A o \in S : ~BuiltBefore(o, o) BY DEF OpsOK, BuiltBefore
  <2>2. \A p, o \in S : p # o => BuiltBefore(p, o) \/ BuiltBefore(o, p)
    BY DEF OpsOK, BuiltBefore
  <2>3. \A p, o, q \in S : BuiltBefore(p, o) /\ BuiltBefore(o, q) => BuiltBefore(p, q)
    BY DEF OpsOK, BuiltBefore
  <2> QED BY <1>1, <2>1, <2>2, <2>3 DEF StrictOrder
<1>3. \A o \in S : Place(S, BuiltBefore, o) = Cardinality(Below(S, R, o))
  BY <1>1 DEF Place, Below
<1> QED BY <1>2, <1>3, PlacesAreDistinct DEF OpsOK

LEMMA GroupOpsOK ==
  ASSUME NEW c, NEW r, ProgramOK(c, r), NEW s, NEW msgs
  PROVE  OpsOK(GroupOps(c, s, r, msgs))
<1> DEFINE built == BuiltOps(c, s, r, msgs)
           New(o) == ProxyOp(o.dir, o.peer, Place(built, BuiltBefore, o), 0, o.round)
           f == [o \in built |-> New(o)]
           W == {New(o) : o \in built}
<1>1. OpsOK(built) BY BuiltOpsOK
<1> HIDE DEF built
<1>2. CASE c.scheduled BY <1>1, <1>2 DEF GroupOps, built
<1>3. CASE ~c.scheduled
  <2>1. GroupOps(c, s, r, msgs) = W BY <1>3 DEF GroupOps, built
  <2>2. \A o \in built : /\ New(o).round = o.round /\ New(o).dir = o.dir
                         /\ New(o).opId = Place(built, BuiltBefore, o)
                         /\ New(o).step = 0
                         /\ New(o) = ProxyOp(New(o).dir, New(o).peer, New(o).opId,
                                             New(o).step, New(o).round)
    BY DEF ProxyOp
  <2>3. IsFiniteSet(W)
    <3>1. DOMAIN f = built /\ \A o \in built : f[o] = New(o) OBVIOUS
    <3>2. W = {f[o] : o \in built} BY <3>1
    <3> HIDE DEF f, W, New
    <3> QED BY <1>1, <3>1, <3>2, ImageIsFinite DEF OpsOK
  <2>4. \A o \in W : \E p \in built : o = New(p) OBVIOUS
  <2> HIDE DEF W, New
  <2>5. \A o \in W : /\ o.round \in Nat /\ o.dir \in {"send", "recv"}
                     /\ o.opId \in Int /\ o.step \in Nat
                     /\ o = ProxyOp(o.dir, o.peer, o.opId, o.step, o.round)
    <3>1. \A o \in built : Place(built, BuiltBefore, o) \in Nat BY <1>1, BuiltOrder
    <3> QED BY <1>1, <2>2, <2>4, <3>1 DEF OpsOK
  <2>6. \A p, o \in W : p.round = o.round /\ p.dir = o.dir => p = o
    BY <1>1, <2>2, <2>4 DEF OpsOK
  <2>7. \A p, o \in W : p.opId = o.opId => p = o
    <3>1. \A p, o \in built : Place(built, BuiltBefore, p) = Place(built, BuiltBefore, o) => p = o
      BY <1>1, BuiltOrder
    <3> QED BY <2>2, <2>4, <3>1
  <2>8. OpsOK(W) BY <2>3, <2>5, <2>6, <2>7 DEF OpsOK
  <2> QED BY <2>1, <2>8
<1> QED BY <1>2, <1>3

-----------------------------------------------------------------------------
(* The operations of a rank *)

LEMMA GroupedOpsOK ==
  ASSUME prog \in Programs, NEW r \in Ranks
  PROVE  /\ IsFiniteSet(GroupedOps(r))
         /\ \A o \in GroupedOps(r) :
              /\ o.group \in Group /\ o.group \in Nat
              /\ o.round \in Nat /\ o.dir \in {"send", "recv"} /\ o.step \in Nat
         /\ \A p, o \in GroupedOps(r) :
              p.group = o.group /\ p.round = o.round /\ p.dir = o.dir => p = o
         /\ \A p, o \in GroupedOps(r) :
              p.group = o.group /\ p.opId = o.opId /\ p.step = o.step => p = o
<1> DEFINE Ops(g) == GroupOps(prog, P2pSchedule(prog, r), r, prog.groups[g])
           In(g, o) == [group |-> g, dir |-> o.dir, peer |-> o.peer, opId |-> o.opId,
                        step |-> o.step, round |-> o.round]
           Part(g) == {In(g, o) : o \in Ops(g)}
<1>1. ProgramOK(prog, r) BY ProxyProgressAssumption DEF ProgramOK, Ranks
<1>2. \A g \in Group : OpsOK(Ops(g)) BY <1>1, GroupOpsOK
<1>3. IsFiniteSet(Group) /\ Group \subseteq Nat
  <2>1. prog.groups \in Seq(SUBSET (RankOf(prog) \X RankOf(prog))) BY ProxyProgressAssumption
  <2>2. Group = 1..Len(prog.groups) /\ Len(prog.groups) \in Nat BY <2>1 DEF Group
  <2> QED BY <2>2, FS_Interval
<1>4. GroupedOps(r) = UNION {Part(g) : g \in Group} BY DEF GroupedOps
<1> HIDE DEF Ops
<1>5. ASSUME NEW g \in Group PROVE IsFiniteSet(Part(g))
  <2> DEFINE f == [o \in Ops(g) |-> In(g, o)]
  <2>1. DOMAIN f = Ops(g) /\ Part(g) = {f[o] : o \in Ops(g)} OBVIOUS
  <2>2. IsFiniteSet(Ops(g)) BY <1>2 DEF OpsOK
  <2> HIDE DEF f, Part
  <2> QED BY <2>1, <2>2, ImageIsFinite
<1>6. IsFiniteSet(GroupedOps(r))
  <2> DEFINE h == [g \in Group |-> Part(g)]
             Parts == {Part(g) : g \in Group}
  <2>1. DOMAIN h = Group /\ Parts = {h[g] : g \in Group} OBVIOUS
  <2>2. IsFiniteSet(Parts)
    <3> HIDE DEF h, Part, Parts
    <3> QED BY <1>3, <2>1, ImageIsFinite
  <2>3. \A W \in Parts : IsFiniteSet(W)
    <3> HIDE DEF Part
    <3> QED BY <1>5
  <2> HIDE DEF h, Part
  <2> QED BY <1>4, <2>2, <2>3, FS_UNION
<1>7. ASSUME NEW o \in GroupedOps(r)
      PROVE  \E g \in Group : \E b \in Ops(g) :
               /\ o = In(g, b)
               /\ o.group = g /\ o.dir = b.dir /\ o.opId = b.opId
               /\ o.step = b.step /\ o.round = b.round
  BY <1>4
<1> HIDE DEF In
<1> QED BY <1>2, <1>3, <1>6, <1>7 DEF OpsOK

LEMMA CallOrder ==
  ASSUME prog \in Programs, NEW r \in Ranks
  PROVE  /\ Cardinality(GroupedOps(r)) \in Nat
         /\ \A k \in 0..(Cardinality(GroupedOps(r)) - 1) :
              \E o \in GroupedOps(r) : Place(GroupedOps(r), CalledBefore, o) = k
<1> DEFINE S == GroupedOps(r)
           R == {e \in S \X S : CalledBefore(e[1], e[2])}
<1>0. /\ IsFiniteSet(S)
      /\ \A o \in S : /\ o.group \in Nat /\ o.round \in Nat
                      /\ o.dir \in {"send", "recv"} /\ o.step \in Nat
      /\ \A p, o \in S : p.group = o.group /\ p.round = o.round /\ p.dir = o.dir => p = o
  BY GroupedOpsOK
<1> HIDE DEF S
<1>1. \A p, o \in S : <<p, o>> \in R <=> CalledBefore(p, o) OBVIOUS
<1> HIDE DEF R
<1>2. StrictOrder(S, R)
  <2>1. \A o \in S : ~CalledBefore(o, o) BY <1>0 DEF CalledBefore, SavedBefore, BuiltBefore
  <2>2. \A p, o \in S : p # o => CalledBefore(p, o) \/ CalledBefore(o, p)
    BY <1>0 DEF CalledBefore, SavedBefore, BuiltBefore
  <2>3. \A p, o, q \in S : CalledBefore(p, o) /\ CalledBefore(o, q) => CalledBefore(p, q)
    BY <1>0 DEF CalledBefore, SavedBefore, BuiltBefore
  <2> QED BY <1>1, <2>1, <2>2, <2>3 DEF StrictOrder
<1>3. \A o \in S : Place(S, CalledBefore, o) = Cardinality(Below(S, R, o))
  BY <1>1 DEF Place, Below
<1>4. Cardinality(S) \in Nat BY <1>0, FS_CardinalityType
<1>5. \A k \in 0..(Cardinality(S) - 1) : \E o \in S : Cardinality(Below(S, R, o)) = k
  BY <1>0, <1>2, EveryPlaceIsTaken
<1>6. \A k \in 0..(Cardinality(S) - 1) : \E o \in S : Place(S, CalledBefore, o) = k
  BY <1>3, <1>5
<1> QED BY <1>4, <1>6 DEF S

\* What the proofs use of the operations of a rank: they are finitely many, and
\* the steps of one opId of a group are different natural numbers.
BuiltOK(b) ==
  /\ IsFiniteSet(DOMAIN b) /\ Len(b) \in Nat /\ DOMAIN b = 1..Len(b)
  /\ \A o \in DOMAIN b : b[o].group \in Group /\ b[o].step \in Nat
  /\ \A p, o \in DOMAIN b :
       b[p].group = b[o].group /\ b[p].opId = b[o].opId /\ b[p].step = b[o].step => p = o

LEMMA BuildAllOK ==
  ASSUME prog \in Programs, NEW r \in Ranks
  PROVE  BuiltOK(BuildAll(r))
<1> DEFINE S == GroupedOps(r)
           b == BuildAll(r)
<1>1. /\ \A o \in S : o.group \in Group /\ o.step \in Nat
      /\ \A p, o \in S : p.group = o.group /\ p.opId = o.opId /\ p.step = o.step => p = o
  BY GroupedOpsOK
<1>2. /\ Cardinality(S) \in Nat
      /\ \A k \in 0..(Cardinality(S) - 1) : \E o \in S : Place(S, CalledBefore, o) = k
  BY CallOrder
<1> HIDE DEF S
<1>3. b = [n \in 1..Cardinality(S) |-> CHOOSE o \in S : Place(S, CalledBefore, o) = n - 1]
  BY DEF BuildAll, Ordered, S
<1>4. DOMAIN b = 1..Cardinality(S) BY <1>3
<1>5. ASSUME NEW n \in DOMAIN b
      PROVE  b[n] \in S /\ Place(S, CalledBefore, b[n]) = n - 1
  <2>1. n - 1 \in 0..(Cardinality(S) - 1) BY <1>2, <1>4
  <2>2. \E o \in S : Place(S, CalledBefore, o) = n - 1 BY <1>2, <2>1
  <2>3. b[n] = CHOOSE o \in S : Place(S, CalledBefore, o) = n - 1 BY <1>3, <1>4
  <2> QED BY <2>2, <2>3
<1>6. \A m, n \in DOMAIN b : b[m] = b[n] => m = n
  <2>1. SUFFICES ASSUME NEW m \in DOMAIN b, NEW n \in DOMAIN b, b[m] = b[n] PROVE m = n
    OBVIOUS
  <2>2. m - 1 = n - 1 BY <1>5, <2>1
  <2>3. m \in Int /\ n \in Int BY <1>4
  <2> QED BY <2>2, <2>3
<1>7. IsFiniteSet(DOMAIN b) BY <1>2, <1>4, FS_Interval
<1> HIDE DEF b
<1>8. Len(b) \in Nat /\ DOMAIN b = 1..Len(b)
  <2>1. b = [n \in 1..Cardinality(S) |-> b[n]] BY <1>3
  <2>2. \A n \in 1..Cardinality(S) : b[n] \in S BY <1>4, <1>5
  <2>3. b \in Seq(S) BY <1>2, <2>1, <2>2, IsASeq
  <2> QED BY <2>3
<1>9. BuiltOK(b) BY <1>1, <1>5, <1>6, <1>7, <1>8 DEF BuiltOK
<1> QED BY <1>9 DEF b

-----------------------------------------------------------------------------
(* The inductive invariant *)

Host == {"none", "saving", "queued", "wait", "open", "returned", "refused"}

TypeInv ==
  /\ prog \in Programs
  /\ DOMAIN ops = Ranks /\ \A r \in Ranks : BuiltOK(ops[r])
  /\ DOMAIN done = Ranks
  /\ DOMAIN asyncResult = Ranks
  /\ host \in [Ranks -> [Group -> Host]]
  /\ nDone \in [Ranks -> [Group -> Nat]]
  /\ DOMAIN curStep = Ranks
  /\ \A r \in Ranks : DOMAIN curStep[r] = Group
  /\ \A r \in Ranks, g \in Group : curStep[r][g] \in [OpIdsOf(r, g) -> Int]

\* The host function has opened the semaphore; or there was nothing to do.
Opened(r, g) == host[r][g] \in {"wait", "open", "returned"}

Over(r, g, i) == Cardinality(done[r] \cap Signal(r, g, i))
Scanned(r, g, i) == curStep[r][g][i] = NSteps(r, g, i) + 1

\* A signal never runs ahead of the operations that are over: it counts each of
\* them at most once, and passes its limit only by the scan that finds it there.
CountInv ==
  \A r \in Ranks, g \in Group : Opened(r, g) =>
    \A i \in OpIdsOf(r, g) :
      \/ curStep[r][g][i] <= Over(r, g, i)
      \/ Scanned(r, g, i) /\ Signal(r, g, i) \subseteq done[r]

ScanInv ==
  \A r \in Ranks, g \in Group :
    nDone[r][g] = IF Opened(r, g) THEN Cardinality({i \in OpIdsOf(r, g) : Scanned(r, g, i)})
                                  ELSE 0

\* Before an error a signal is the number of its operations that are over, and
\* these are the first ones.
NothingBefore(r, g) ==
  host[r][g] \in {"none", "saving", "queued"} =>
    /\ done[r] \cap OpsOf(r, g) = {}
    /\ \A i \in OpIdsOf(r, g) : curStep[r][g][i] = -1

FirstSteps(r, g) ==
  \A i \in OpIdsOf(r, g) :
    /\ Opened(r, g) /\ ~Scanned(r, g, i) => curStep[r][g][i] = Over(r, g, i)
    /\ \A o \in Signal(r, g, i) : o \in done[r] <=> ops[r][o].step < Over(r, g, i)

OrderInv ==
  \A r \in Ranks : ~Failed(r) =>
    \A g \in Group : host[r][g] # "refused" /\ NothingBefore(r, g) /\ FirstSteps(r, g)

IInv == TypeInv /\ CountInv /\ ScanInv /\ StreamWaitsForGroup /\ OrderInv

\* No step changes the program or its operations.
LEMMA SameOps ==
  ASSUME prog' = prog, ops' = ops
  PROVE  /\ Ranks' = Ranks /\ Group' = Group
         /\ \A r, g : OpsOf(r, g)' = OpsOf(r, g) /\ OpIdsOf(r, g)' = OpIdsOf(r, g)
         /\ \A r, g, i : Signal(r, g, i)' = Signal(r, g, i) /\ NSteps(r, g, i)' = NSteps(r, g, i)
         /\ \A b : BuiltOK(b)' <=> BuiltOK(b)
BY DEF Ranks, Group, OpsOf, OpIdsOf, Signal, NSteps, BuiltOK

LEMMA FiniteOps ==
  ASSUME TypeInv, NEW r \in Ranks, NEW g \in Group
  PROVE  /\ IsFiniteSet(OpsOf(r, g)) /\ IsFiniteSet(OpIdsOf(r, g))
         /\ \A i : IsFiniteSet(Signal(r, g, i)) /\ NSteps(r, g, i) \in Nat
         /\ \A i : Over(r, g, i) \in Nat /\ Over(r, g, i) <= NSteps(r, g, i)
         /\ \A i : Over(r, g, i) = NSteps(r, g, i) => Signal(r, g, i) \subseteq done[r]
<1>1. IsFiniteSet(DOMAIN ops[r]) BY DEF TypeInv, BuiltOK
<1>2. OpsOf(r, g) \in SUBSET DOMAIN ops[r] BY DEF OpsOf
<1>3. IsFiniteSet(OpsOf(r, g)) BY <1>1, <1>2, FS_Subset
<1>4. IsFiniteSet(OpIdsOf(r, g))
  <2> DEFINE f == [o \in OpsOf(r, g) |-> ops[r][o].opId]
  <2>1. DOMAIN f = OpsOf(r, g) /\ OpIdsOf(r, g) = {f[o] : o \in OpsOf(r, g)} BY DEF OpIdsOf
  <2> HIDE DEF f
  <2> QED BY <1>3, <2>1, ImageIsFinite
<1>5. ASSUME NEW i PROVE IsFiniteSet(Signal(r, g, i))
  <2>1. Signal(r, g, i) \in SUBSET OpsOf(r, g) BY DEF Signal
  <2> QED BY <1>3, <2>1, FS_Subset
<1>6. ASSUME NEW i
      PROVE  /\ NSteps(r, g, i) \in Nat /\ Over(r, g, i) \in Nat
             /\ Over(r, g, i) <= NSteps(r, g, i)
             /\ Over(r, g, i) = NSteps(r, g, i) => Signal(r, g, i) \subseteq done[r]
  <2> DEFINE W == done[r] \cap Signal(r, g, i)
  <2>1. W \in SUBSET Signal(r, g, i) OBVIOUS
  <2>2. W = Signal(r, g, i) => Signal(r, g, i) \subseteq done[r] OBVIOUS
  <2> HIDE DEF W
  <2>3. /\ IsFiniteSet(W) /\ Cardinality(W) <= Cardinality(Signal(r, g, i))
        /\ Cardinality(Signal(r, g, i)) = Cardinality(W) => Signal(r, g, i) = W
    BY <1>5, <2>1, FS_Subset
  <2>4. Cardinality(W) \in Nat /\ Cardinality(Signal(r, g, i)) \in Nat
    BY <1>5, <2>3, FS_CardinalityType
  <2> QED BY <2>2, <2>3, <2>4 DEF NSteps, Over, W
<1> QED BY <1>3, <1>4, <1>5, <1>6

LEMMA OverAfter ==
  ASSUME NEW G, IsFiniteSet(G), NEW D, NEW S
  PROVE  /\ Cardinality((D \cup S) \cap G) = Cardinality(D \cap G) + Cardinality((S \ D) \cap G)
         /\ Cardinality(D \cap G) \in Nat /\ Cardinality((S \ D) \cap G) \in Nat
         /\ G \subseteq D => Cardinality((S \ D) \cap G) = 0
<1> DEFINE A == D \cap G
           B == (S \ D) \cap G
<1>1. IsFiniteSet(A) /\ IsFiniteSet(B) BY FS_Intersection
<1>2. A \cap B = {} /\ (D \cup S) \cap G = A \cup B OBVIOUS
<1>3. G \subseteq D => B = {} OBVIOUS
<1> HIDE DEF A, B
<1>4. Cardinality(A \cup B) = Cardinality(A) + Cardinality(B) - Cardinality(A \cap B)
  BY <1>1, FS_Union
<1>5. Cardinality(A) \in Nat /\ Cardinality(B) \in Nat BY <1>1, FS_CardinalityType
<1>6. Cardinality(A \cup B) = Cardinality(A) + Cardinality(B)
  BY <1>2, <1>4, <1>5, FS_EmptySet
<1>7. G \subseteq D => Cardinality(B) = 0 BY <1>3, FS_EmptySet
<1> QED BY <1>2, <1>5, <1>6, <1>7 DEF A, B

\* A signal and the number of its operations that are over grow together.
LEMMA RetireEffect ==
  ASSUME TypeInv, prog' = prog, ops' = ops, NEW r \in Ranks, NEW S, RetireOps(r, S)
  PROVE  /\ DOMAIN done' = Ranks /\ DOMAIN curStep' = Ranks
         /\ \A q \in Ranks : DOMAIN curStep'[q] = Group
         /\ \A q \in Ranks : done'[q] = IF q = r THEN done[r] \cup S ELSE done[q]
         /\ \A q \in Ranks, g \in Group : curStep'[q][g] \in [OpIdsOf(q, g) -> Int]
         /\ \A q \in Ranks, g \in Group : q # r => curStep'[q][g] = curStep[q][g]
         /\ \A q \in Ranks, g \in Group : \A i \in OpIdsOf(q, g) : \E k \in Nat :
              /\ curStep'[q][g][i] = curStep[q][g][i] + k
              /\ Over(q, g, i)' = Over(q, g, i) + k
              /\ Signal(q, g, i) \subseteq done[q] => k = 0
<1> DEFINE K(g, i) == Cardinality((S \ done[r]) \cap Signal(r, g, i))
<1>1. curStep' = [curStep EXCEPT ![r] = [g \in Group |->
                    [i \in OpIdsOf(r, g) |-> @[g][i] + K(g, i)]]]
  BY DEF RetireOps, SubCounter, CountsAtRetirement
<1>2. done' = [done EXCEPT ![r] = done[r] \cup S] BY DEF RetireOps
<1>3. DOMAIN done' = Ranks /\ DOMAIN curStep' = Ranks BY <1>1, <1>2 DEF TypeInv
<1>4. \A q \in Ranks : done'[q] = IF q = r THEN done[r] \cup S ELSE done[q]
  BY <1>2 DEF TypeInv
<1> HIDE DEF K
<1>5. curStep'[r] = [g \in Group |-> [i \in OpIdsOf(r, g) |-> curStep[r][g][i] + K(g, i)]]
  BY <1>1 DEF TypeInv
<1>6. \A q \in Ranks : q # r => curStep'[q] = curStep[q] BY <1>1 DEF TypeInv
<1>7. \A g \in Group : curStep'[r][g] = [i \in OpIdsOf(r, g) |-> curStep[r][g][i] + K(g, i)]
  BY <1>5
<1>8. \A g \in Group : \A i \in OpIdsOf(r, g) :
        /\ K(g, i) \in Nat /\ Over(r, g, i)' = Over(r, g, i) + K(g, i)
        /\ Signal(r, g, i) \subseteq done[r] => K(g, i) = 0
  <2> SUFFICES ASSUME NEW g \in Group, NEW i \in OpIdsOf(r, g)
               PROVE  /\ K(g, i) \in Nat /\ Over(r, g, i)' = Over(r, g, i) + K(g, i)
                      /\ Signal(r, g, i) \subseteq done[r] => K(g, i) = 0
    OBVIOUS
  <2>1. IsFiniteSet(Signal(r, g, i)) BY FiniteOps
  <2>2. Signal(r, g, i)' = Signal(r, g, i) BY SameOps
  <2>3. Over(r, g, i)' = Cardinality((done[r] \cup S) \cap Signal(r, g, i))
    BY <1>4, <2>2 DEF Over
  <2> QED BY <2>1, <2>3, OverAfter DEF K, Over
<1>9. \A q \in Ranks : DOMAIN curStep'[q] = Group BY <1>5, <1>6 DEF TypeInv
<1>10. \A q \in Ranks, g \in Group : curStep'[q][g] \in [OpIdsOf(q, g) -> Int]
  <2> SUFFICES ASSUME NEW q \in Ranks, NEW g \in Group
               PROVE  curStep'[q][g] \in [OpIdsOf(q, g) -> Int]
    OBVIOUS
  <2>1. curStep[q][g] \in [OpIdsOf(q, g) -> Int] BY DEF TypeInv
  <2>2. CASE q = r
    <3>1. \A i \in OpIdsOf(r, g) : curStep[r][g][i] + K(g, i) \in Int
      BY <1>8, <2>1, <2>2
    <3> QED BY <1>7, <2>2, <3>1
  <2>3. CASE q # r BY <1>6, <2>1, <2>3
  <2> QED BY <2>2, <2>3
<1>11. ASSUME NEW q \in Ranks, NEW g \in Group, NEW i \in OpIdsOf(q, g)
       PROVE  \E k \in Nat :
                /\ curStep'[q][g][i] = curStep[q][g][i] + k
                /\ Over(q, g, i)' = Over(q, g, i) + k
                /\ Signal(q, g, i) \subseteq done[q] => k = 0
  <2>1. CASE q = r BY <1>7, <1>8, <2>1
  <2>2. CASE q # r
    <3>1. Over(q, g, i)' = Over(q, g, i) BY <1>4, <2>2, SameOps DEF Over
    <3>2. curStep'[q][g][i] = curStep[q][g][i] /\ curStep[q][g][i] \in Int
      BY <1>6, <2>2 DEF TypeInv
    <3>3. Over(q, g, i) \in Nat BY FiniteOps
    <3> QED BY <3>1, <3>2, <3>3
  <2> QED BY <2>1, <2>2
<1> QED BY <1>3, <1>4, <1>6, <1>9, <1>10, <1>11

LEMMA RetireKeeps ==
  ASSUME TypeInv, CountInv, ScanInv, StreamWaitsForGroup,
         prog' = prog, ops' = ops, host' = host, nDone' = nDone, DOMAIN asyncResult' = Ranks,
         NEW r \in Ranks, NEW S, RetireOps(r, S)
  PROVE  TypeInv' /\ CountInv' /\ ScanInv' /\ StreamWaitsForGroup'
<1>0. \A q \in Ranks, g \in Group : \A i \in OpIdsOf(q, g) : \E k \in Nat :
        /\ curStep'[q][g][i] = curStep[q][g][i] + k
        /\ Over(q, g, i)' = Over(q, g, i) + k
        /\ Signal(q, g, i) \subseteq done[q] => k = 0
  BY RetireEffect, Zenon
<1>1. TypeInv'
  <2>1. /\ Ranks' = Ranks /\ Group' = Group
        /\ \A q, g : OpIdsOf(q, g)' = OpIdsOf(q, g)
        /\ \A b : BuiltOK(b)' <=> BuiltOK(b)
    BY SameOps
  <2>2. /\ DOMAIN done' = Ranks /\ DOMAIN curStep' = Ranks
        /\ \A q \in Ranks : DOMAIN curStep'[q] = Group
        /\ \A q \in Ranks, g \in Group : curStep'[q][g] \in [OpIdsOf(q, g) -> Int]
    BY RetireEffect
  <2>3. (/\ prog \in Programs
         /\ DOMAIN ops = Ranks /\ \A q \in Ranks : BuiltOK(ops[q]))'
    BY <2>1 DEF TypeInv
  <2>4. (/\ host \in [Ranks -> [Group -> Host]]
         /\ nDone \in [Ranks -> [Group -> Nat]])'
    BY <2>1 DEF TypeInv
  <2>5. (\A q \in Ranks, g \in Group : curStep[q][g] \in [OpIdsOf(q, g) -> Int])'
    BY <2>1, <2>2
  <2> QED BY <2>1, <2>2, <2>3, <2>4, <2>5 DEF TypeInv
<1>2. \A q \in Ranks : done[q] \subseteq done'[q] BY RetireEffect, ZenonT(60)
<1>3. StreamWaitsForGroup' BY <1>2, SameOps DEF StreamWaitsForGroup
<1>4. ASSUME NEW q \in Ranks, NEW g \in Group, Opened(q, g), NEW i \in OpIdsOf(q, g)
      PROVE  /\ \/ curStep'[q][g][i] <= Over(q, g, i)'
                \/ Scanned(q, g, i)' /\ Signal(q, g, i) \subseteq done'[q]
             /\ Scanned(q, g, i)' <=> Scanned(q, g, i)
  <2>1. PICK k \in Nat : /\ curStep'[q][g][i] = curStep[q][g][i] + k
                         /\ Over(q, g, i)' = Over(q, g, i) + k
                         /\ Signal(q, g, i) \subseteq done[q] => k = 0
    BY <1>0, Zenon
  <2>2. /\ Over(q, g, i) \in Nat /\ curStep[q][g][i] \in Int
        /\ NSteps(q, g, i) \in Nat /\ NSteps(q, g, i)' = NSteps(q, g, i)
    BY FiniteOps, SameOps DEF TypeInv
  <2>3. Over(q, g, i)' <= NSteps(q, g, i)
    <3>1. IsFiniteSet(Signal(q, g, i)) BY FiniteOps
    <3>2. Over(q, g, i)' = Cardinality(done'[q] \cap Signal(q, g, i)) BY SameOps DEF Over
    <3> QED BY <3>1, <3>2, FS_Intersection DEF NSteps
  <2>4. CASE curStep[q][g][i] <= Over(q, g, i)
    BY <2>1, <2>2, <2>3, <2>4 DEF Scanned
  <2>5. CASE Scanned(q, g, i) /\ Signal(q, g, i) \subseteq done[q]
    BY <1>2, <2>1, <2>2, <2>5 DEF Scanned
  <2> QED BY <1>4, <2>4, <2>5 DEF CountInv
<1>5. CountInv' BY <1>4, SameOps DEF CountInv, Opened
<1>6. ScanInv'
  <2>1. \A q \in Ranks, g \in Group : Opened(q, g)' <=> Opened(q, g) BY DEF Opened
  <2>2. \A q \in Ranks, g \in Group : Opened(q, g) =>
          {i \in OpIdsOf(q, g) : Scanned(q, g, i)}' = {i \in OpIdsOf(q, g) : Scanned(q, g, i)}
    BY <1>4, SameOps
  <2>3. Ranks' = Ranks /\ Group' = Group BY SameOps
  <2> QED BY <2>1, <2>2, <2>3, ZenonT(60) DEF ScanInv
<1> QED BY <1>1, <1>3, <1>5, <1>6

-----------------------------------------------------------------------------
(* The steps of the progress thread *)

\* Retiring after an error: the order of the steps is given up on that rank only.
LEMMA RetireAfterError ==
  ASSUME IInv, prog' = prog, ops' = ops, host' = host, nDone' = nDone,
         NEW r \in Ranks, NEW S, RetireOps(r, S),
         DOMAIN asyncResult' = Ranks, asyncResult'[r] = "Error",
         \A q \in Ranks : q # r => asyncResult'[q] = asyncResult[q]
  PROVE  IInv'
<1>1. TypeInv' /\ CountInv' /\ ScanInv' /\ StreamWaitsForGroup'
  BY RetireKeeps DEF IInv
<1>2. OrderInv'
  <2> SUFFICES ASSUME NEW q \in Ranks, ~Failed(q)', NEW g \in Group
               PROVE  (host[q][g] # "refused" /\ NothingBefore(q, g) /\ FirstSteps(q, g))'
    BY SameOps DEF OrderInv
  <2>1. q # r /\ ~Failed(q) BY DEF Failed
  <2>2. host[q][g] # "refused" /\ NothingBefore(q, g) /\ FirstSteps(q, g)
    BY <2>1 DEF IInv, OrderInv
  <2>3. done'[q] = done[q] /\ curStep'[q][g] = curStep[q][g]
    <3>1. /\ \A p \in Ranks : done'[p] = IF p = r THEN done[r] \cup S ELSE done[p]
          /\ \A p \in Ranks, h \in Group : p # r => curStep'[p][h] = curStep[p][h]
      BY RetireEffect, ZenonT(60) DEF IInv
    <3> QED BY <2>1, <3>1
  <2>4. NothingBefore(q, g)' BY <2>2, <2>3, SameOps DEF NothingBefore
  <2>5. FirstSteps(q, g)'
    BY <2>2, <2>3, SameOps DEF FirstSteps, Opened, Scanned, Over
  <2> QED BY <2>2, <2>4, <2>5
<1> QED BY <1>1, <1>2 DEF IInv

\* The head of a queue completes: its step is the next one of its opId.
LEMMA NextStep ==
  ASSUME IInv, NEW r \in Ranks, ~Failed(r), NEW o \in DOMAIN ops[r],
         o \notin done[r], PollStart(r, o)
  PROVE  LET g == ops[r][o].group
             i == ops[r][o].opId
         IN /\ g \in Group /\ i \in OpIdsOf(r, g) /\ o \in Signal(r, g, i)
            /\ Opened(r, g) /\ ~Scanned(r, g, i)
            /\ ops[r][o].step = Over(r, g, i)
<1> DEFINE g == ops[r][o].group
           i == ops[r][o].opId
<1>1. g \in Group /\ ops[r][o].step \in Nat BY DEF IInv, TypeInv, BuiltOK
<1>2. i \in OpIdsOf(r, g) /\ o \in Signal(r, g, i) BY DEF OpIdsOf, OpsOf, Signal
<1>3. host[r][g] \in Host /\ host[r][g] # "refused" /\ NothingBefore(r, g) /\ FirstSteps(r, g)
  BY <1>1 DEF IInv, OrderInv, TypeInv
<1>4. curStep[r][g][i] >= ops[r][o].step /\ curStep[r][g][i] \in Int
  BY <1>1, <1>2 DEF PollStart, IInv, TypeInv
<1>5. Opened(r, g)
  <2>1. curStep[r][g][i] # -1 BY <1>1, <1>4
  <2> QED BY <1>2, <1>3, <2>1 DEF NothingBefore, Opened, Host
<1>6. Over(r, g, i) \in Nat /\ NSteps(r, g, i) \in Nat /\ Over(r, g, i) <= NSteps(r, g, i)
  BY <1>1, FiniteOps DEF IInv
<1>7. ~Scanned(r, g, i)
  <2>1. ~(Signal(r, g, i) \subseteq done[r]) BY <1>2
  <2> QED BY <1>1, <1>2, <1>4, <1>5, <1>6, <2>1 DEF IInv, CountInv, Scanned
<1>8. curStep[r][g][i] = Over(r, g, i) BY <1>2, <1>3, <1>5, <1>7 DEF FirstSteps
<1>9. ~(ops[r][o].step < Over(r, g, i)) BY <1>2, <1>3 DEF FirstSteps
<1>10. ops[r][o].step = Over(r, g, i) BY <1>1, <1>4, <1>6, <1>8, <1>9
<1> QED BY <1>1, <1>2, <1>5, <1>7, <1>10

LEMMA CompletionStep ==
  ASSUME IInv, NEW r \in Ranks, NEW q \in Queue, OpCompletes(r, q)
  PROVE  IInv'
<1> DEFINE o == Head(cons[r][q])
<1>0. o \notin done[r] /\ PollStart(r, o) BY DEF OpCompletes, Started
<1> HIDE DEF o
<1>1. /\ prog' = prog /\ ops' = ops /\ host' = host /\ nDone' = nDone
      /\ asyncResult' = asyncResult /\ ~Failed(r)
  BY DEF OpCompletes, saveVars
<1>2. RetireOps(r, {o})
  <2>1. {o} \ done[r] = {o} BY <1>0
  <2>2. SubCounter(r, {o}) /\ done' = [done EXCEPT ![r] = @ \cup {o}]
    BY DEF OpCompletes, o
  <2> QED BY <2>1, <2>2 DEF RetireOps, CountsAtRetirement
<1>3. TypeInv' /\ CountInv' /\ ScanInv' /\ StreamWaitsForGroup'
  <2>1. DOMAIN asyncResult' = Ranks BY <1>1 DEF IInv, TypeInv
  <2> QED BY <1>1, <1>2, <2>1, RetireKeeps DEF IInv
<1>4. /\ \A p \in Ranks : done'[p] = IF p = r THEN done[r] \cup {o} ELSE done[p]
      /\ \A p \in Ranks, g \in Group : p # r => curStep'[p][g] = curStep[p][g]
      /\ \A p \in Ranks, g \in Group : \A i \in OpIdsOf(p, g) : \E k \in Nat :
              /\ curStep'[p][g][i] = curStep[p][g][i] + k
              /\ Over(p, g, i)' = Over(p, g, i) + k
              /\ Signal(p, g, i) \subseteq done[p] => k = 0
  BY <1>1, <1>2, RetireEffect DEF IInv
<1>5. OrderInv'
  <2> SUFFICES ASSUME NEW p \in Ranks, ~Failed(p), NEW g \in Group
               PROVE  (host[p][g] # "refused" /\ NothingBefore(p, g) /\ FirstSteps(p, g))'
    BY <1>1, SameOps DEF OrderInv, Failed
  <2>1. host[p][g] # "refused" /\ NothingBefore(p, g) /\ FirstSteps(p, g)
    BY DEF IInv, OrderInv
  <2>2. CASE p # r
    <3>1. done'[p] = done[p] /\ curStep'[p][g] = curStep[p][g] BY <1>4, <2>2
    <3>2. NothingBefore(p, g)' BY <1>1, <2>1, <3>1, SameOps DEF NothingBefore
    <3>3. FirstSteps(p, g)'
      BY <1>1, <2>1, <3>1, SameOps DEF FirstSteps, Opened, Scanned, Over
    <3> QED BY <1>1, <2>1, <3>2, <3>3
  <2>3. CASE p = r
    <3>1. done'[r] = done[r] \cup {o} BY <1>4
    <3>2. o \in OpsOf(r, g) => Opened(r, g)
      <4>1. ASSUME o \in OpsOf(r, g) PROVE o \in DOMAIN ops[r] /\ ops[r][o].group = g
        BY <4>1 DEF OpsOf
      <4> QED BY <1>0, <1>1, <4>1, NextStep
    <3>3. ASSUME NEW i \in OpIdsOf(r, g), o \notin Signal(r, g, i)
          PROVE  Over(r, g, i)' = Over(r, g, i) /\ curStep'[r][g][i] = curStep[r][g][i]
      <4>1. done'[r] \cap Signal(r, g, i) = done[r] \cap Signal(r, g, i) BY <3>1, <3>3
      <4>2. Over(r, g, i)' = Over(r, g, i) BY <1>1, <4>1, SameOps DEF Over
      <4>3. PICK k \in Nat : /\ curStep'[r][g][i] = curStep[r][g][i] + k
                             /\ Over(r, g, i)' = Over(r, g, i) + k
        BY <1>4
      <4>4. Over(r, g, i) \in Nat /\ curStep[r][g][i] \in Int
        BY <2>3, FiniteOps DEF IInv, TypeInv
      <4> QED BY <4>2, <4>3, <4>4
    <3>4. NothingBefore(r, g)'
      <4> SUFFICES ASSUME host[r][g] \in {"none", "saving", "queued"}
                   PROVE  (/\ done[r] \cap OpsOf(r, g) = {}
                           /\ \A i \in OpIdsOf(r, g) : curStep[r][g][i] = -1)'
        BY <1>1, SameOps DEF NothingBefore
      <4>1. o \notin OpsOf(r, g) BY <3>2 DEF Opened
      <4>2. \A i : o \notin Signal(r, g, i) BY <4>1 DEF Signal
      <4>3. (done[r] \cap OpsOf(r, g) = {})'
        BY <1>1, <2>1, <2>3, <3>1, <4>1, SameOps DEF NothingBefore
      <4>4. \A i \in OpIdsOf(r, g) : curStep'[r][g][i] = -1
        BY <2>1, <2>3, <3>3, <4>2 DEF NothingBefore
      <4> QED BY <1>1, <4>3, <4>4, SameOps
    <3>5. FirstSteps(r, g)'
      <4> SUFFICES ASSUME NEW i \in OpIdsOf(r, g)
                   PROVE  /\ Opened(r, g) /\ ~Scanned(r, g, i)' =>
                               curStep'[r][g][i] = Over(r, g, i)'
                          /\ \A m \in Signal(r, g, i) :
                               m \in done'[r] <=> ops[r][m].step < Over(r, g, i)'
        BY <1>1, SameOps DEF FirstSteps, Opened
      <4>1. CASE o \notin Signal(r, g, i)
        <5>1. Scanned(r, g, i)' <=> Scanned(r, g, i)
          BY <1>1, <3>3, <4>1, SameOps DEF Scanned
        <5> QED BY <2>1, <2>3, <3>1, <3>3, <4>1, <5>1 DEF FirstSteps
      <4>2. CASE o \in Signal(r, g, i)
        <5>1. o \in DOMAIN ops[r] /\ ops[r][o].group = g /\ ops[r][o].opId = i
          BY <4>2 DEF Signal, OpsOf
        <5>2. Opened(r, g) /\ ~Scanned(r, g, i) /\ ops[r][o].step = Over(r, g, i)
          BY <1>0, <1>1, <5>1, NextStep
        <5>3. Over(r, g, i)' = Over(r, g, i) + 1
          <6>1. IsFiniteSet(Signal(r, g, i)) BY <2>3, FiniteOps DEF IInv
          <6>2. ({o} \ done[r]) \cap Signal(r, g, i) = {o} BY <1>0, <4>2
          <6>3. Over(r, g, i)' = Cardinality((done[r] \cup {o}) \cap Signal(r, g, i))
            BY <1>1, <3>1, SameOps DEF Over
          <6>4. Cardinality({o}) = 1 BY FS_Singleton
          <6>5. Cardinality((done[r] \cup {o}) \cap Signal(r, g, i))
                  = Cardinality(done[r] \cap Signal(r, g, i))
                      + Cardinality(({o} \ done[r]) \cap Signal(r, g, i))
            BY <6>1, OverAfter
          <6> QED BY <6>2, <6>3, <6>4, <6>5 DEF Over
        <5>4. curStep'[r][g][i] = Over(r, g, i)'
          <6>1. PICK k \in Nat : /\ curStep'[r][g][i] = curStep[r][g][i] + k
                                 /\ Over(r, g, i)' = Over(r, g, i) + k
            BY <1>4
          <6>2. curStep[r][g][i] = Over(r, g, i) BY <2>1, <2>3, <5>2 DEF FirstSteps
          <6> QED BY <6>1, <6>2
        <5>5. ASSUME NEW m \in Signal(r, g, i)
              PROVE  m \in done'[r] <=> ops[r][m].step < Over(r, g, i)'
          <6>1. /\ m \in DOMAIN ops[r] /\ ops[r][m].group = g /\ ops[r][m].opId = i
            BY DEF Signal, OpsOf
          <6>2. BuiltOK(ops[r]) BY DEF IInv, TypeInv
          <6>3. ops[r][m].step \in Nat /\ (ops[r][m].step = ops[r][o].step => m = o)
            BY <5>1, <6>1, <6>2 DEF BuiltOK
          <6>4. m \in done[r] <=> ops[r][m].step < Over(r, g, i)
            BY <2>1, <2>3 DEF FirstSteps
          <6>5. Over(r, g, i) \in Nat BY <2>3, FiniteOps DEF IInv
          <6> QED BY <3>1, <5>2, <5>3, <6>3, <6>4, <6>5
        <5> QED BY <5>4, <5>5
      <4> QED BY <4>1, <4>2
    <3> QED BY <1>1, <2>1, <2>3, <3>4, <3>5
  <2> QED BY <2>2, <2>3
<1> QED BY <1>3, <1>5 DEF IInv

-----------------------------------------------------------------------------
(* The steps of the launch and of the host function *)

\* Steps that only move the host function of one group.
LEMMA HostMoves ==
  ASSUME IInv, prog' = prog, ops' = ops, done' = done, asyncResult' = asyncResult,
         curStep' = curStep, nDone' = nDone,
         NEW r \in Ranks, NEW g \in Group, NEW h \in Host,
         host' = [host EXCEPT ![r][g] = h],
         \/ Opened(r, g) <=> h \in {"wait", "open", "returned"}
         \/ OpsOf(r, g) = {} /\ nDone[r][g] = 0,
         h \in {"open", "returned"} => OpsOf(r, g) \subseteq done[r],
         h = "refused" => Failed(r),
         h \in {"none", "saving", "queued"} => host[r][g] \in {"none", "saving", "queued"}
  PROVE  IInv'
<1>1. /\ Ranks' = Ranks /\ Group' = Group
      /\ \A q, k : OpsOf(q, k)' = OpsOf(q, k) /\ OpIdsOf(q, k)' = OpIdsOf(q, k)
      /\ \A q, k, i : Signal(q, k, i)' = Signal(q, k, i) /\ NSteps(q, k, i)' = NSteps(q, k, i)
      /\ \A b : BuiltOK(b)' <=> BuiltOK(b)
  BY SameOps
<1>2. /\ host \in [Ranks -> [Group -> Host]]
      /\ \A q \in Ranks, k \in Group :
           host'[q][k] = IF q = r /\ k = g THEN h ELSE host[q][k]
  BY DEF IInv, TypeInv
<1>3. TypeInv'
  <2>1. host' \in [Ranks -> [Group -> Host]] BY <1>2
  <2> QED BY <1>1, <2>1 DEF IInv, TypeInv
<1>4. \A q, k, i : /\ Over(q, k, i)' = Over(q, k, i)
                   /\ Scanned(q, k, i)' <=> Scanned(q, k, i)
  BY <1>1 DEF Over, Scanned
<1>5. \A q \in Ranks, k \in Group :
        \/ Opened(q, k)' <=> Opened(q, k)
        \/ q = r /\ k = g /\ OpsOf(q, k) = {} /\ nDone[q][k] = 0
  BY <1>2 DEF Opened
<1>6. \A q, k : OpsOf(q, k) = {} => OpIdsOf(q, k) = {} BY DEF OpIdsOf
<1>7. CountInv' BY <1>1, <1>4, <1>5, <1>6 DEF IInv, CountInv
<1>8. ScanInv'
  <2> SUFFICES ASSUME NEW q \in Ranks, NEW k \in Group
               PROVE  nDone[q][k] = IF Opened(q, k)'
                        THEN Cardinality({i \in OpIdsOf(q, k) : Scanned(q, k, i)'}) ELSE 0
    BY <1>1 DEF ScanInv
  <2>1. {i \in OpIdsOf(q, k) : Scanned(q, k, i)'} = {i \in OpIdsOf(q, k) : Scanned(q, k, i)}
    BY <1>4
  <2>2. CASE Opened(q, k)' <=> Opened(q, k) BY <2>1, <2>2 DEF IInv, ScanInv
  <2>3. CASE OpsOf(q, k) = {} /\ nDone[q][k] = 0
    <3>1. {i \in OpIdsOf(q, k) : Scanned(q, k, i)'} = {} BY <1>6, <2>3
    <3> QED BY <2>3, <3>1, FS_EmptySet
  <2> QED BY <1>5, <2>2, <2>3
<1>9. StreamWaitsForGroup' BY <1>1, <1>2 DEF IInv, StreamWaitsForGroup
<1>10. OrderInv'
  <2> SUFFICES ASSUME NEW q \in Ranks, ~Failed(q), NEW k \in Group
               PROVE  (host[q][k] # "refused" /\ NothingBefore(q, k) /\ FirstSteps(q, k))'
    BY <1>1 DEF OrderInv, Failed
  <2>1. host[q][k] # "refused" /\ NothingBefore(q, k) /\ FirstSteps(q, k)
    BY DEF IInv, OrderInv
  <2>2. NothingBefore(q, k)' BY <1>1, <1>2, <2>1 DEF NothingBefore
  <2>3. FirstSteps(q, k)' BY <1>1, <1>4, <1>5, <1>6, <2>1 DEF FirstSteps
  <2>4. host'[q][k] # "refused" BY <1>2, <2>1
  <2> QED BY <2>2, <2>3, <2>4
<1> QED BY <1>3, <1>7, <1>8, <1>9, <1>10 DEF IInv

LEMMA StartStep ==
  ASSUME IInv, NEW r \in Ranks, NEW g \in Group, SignalStart(r, g)
  PROVE  IInv'
<1>0. /\ prog' = prog /\ ops' = ops /\ done' = done /\ asyncResult' = asyncResult
      /\ nDone' = nDone /\ host[r][g] = "queued"
      /\ curStep' = [curStep EXCEPT ![r][g] = [i \in OpIdsOf(r, g) |-> 0]]
      /\ host' = [host EXCEPT ![r][g] = "wait"]
  BY DEF SignalStart, saveVars, opVars
<1>1. /\ Ranks' = Ranks /\ Group' = Group
      /\ \A q, k : OpsOf(q, k)' = OpsOf(q, k) /\ OpIdsOf(q, k)' = OpIdsOf(q, k)
      /\ \A q, k, i : Signal(q, k, i)' = Signal(q, k, i) /\ NSteps(q, k, i)' = NSteps(q, k, i)
      /\ \A b : BuiltOK(b)' <=> BuiltOK(b)
  BY <1>0, SameOps
<1>2. /\ host \in [Ranks -> [Group -> Host]]
      /\ \A q \in Ranks, k \in Group :
           host'[q][k] = IF q = r /\ k = g THEN "wait" ELSE host[q][k]
  BY <1>0 DEF IInv, TypeInv
<1>3. /\ DOMAIN curStep' = Ranks
      /\ \A q \in Ranks : DOMAIN curStep'[q] = Group
      /\ \A q \in Ranks, k \in Group :
           curStep'[q][k] = IF q = r /\ k = g THEN [i \in OpIdsOf(r, g) |-> 0] ELSE curStep[q][k]
  BY <1>0 DEF IInv, TypeInv
<1>4. TypeInv'
  <2>1. host' \in [Ranks -> [Group -> Host]] BY <1>0, <1>2 DEF Host
  <2>2. \A q \in Ranks, k \in Group : curStep'[q][k] \in [OpIdsOf(q, k) -> Int]
    BY <1>3, SMTT(60) DEF IInv, TypeInv
  <2> QED BY <1>0, <1>1, <1>3, <2>1, <2>2 DEF IInv, TypeInv
<1>5. \A q, k, i : Over(q, k, i)' = Over(q, k, i) BY <1>0, <1>1 DEF Over
<1>6. \A q \in Ranks, k \in Group : \A i : Over(q, k, i) \in Nat /\ NSteps(q, k, i) \in Nat
  BY FiniteOps DEF IInv
<1>7. \A q \in Ranks, k \in Group : \/ q = r /\ k = g
                                    \/ /\ Opened(q, k)' <=> Opened(q, k)
                                       /\ \A i : Scanned(q, k, i)' <=> Scanned(q, k, i)
  BY <1>1, <1>2, <1>3 DEF Opened, Scanned
<1>8. \A i \in OpIdsOf(r, g) : curStep'[r][g][i] = 0 /\ ~Scanned(r, g, i)'
  BY <1>1, <1>3, <1>6 DEF Scanned
<1>9. ~Opened(r, g) /\ Opened(r, g)' BY <1>0, <1>2 DEF Opened
<1>10. CountInv'
  <2> SUFFICES ASSUME NEW q \in Ranks, NEW k \in Group, Opened(q, k)', NEW i \in OpIdsOf(q, k)
               PROVE  \/ curStep'[q][k][i] <= Over(q, k, i)
                      \/ Scanned(q, k, i)' /\ Signal(q, k, i) \subseteq done[q]
    BY <1>0, <1>1, <1>5 DEF CountInv
  <2>1. CASE q = r /\ k = g BY <1>6, <1>8, <2>1
  <2>2. CASE ~(q = r /\ k = g) BY <1>3, <1>7, <2>2 DEF IInv, CountInv
  <2> QED BY <2>1, <2>2
<1>11. ScanInv'
  <2> SUFFICES ASSUME NEW q \in Ranks, NEW k \in Group
               PROVE  nDone[q][k] = IF Opened(q, k)'
                        THEN Cardinality({i \in OpIdsOf(q, k) : Scanned(q, k, i)'}) ELSE 0
    BY <1>0, <1>1 DEF ScanInv
  <2>1. CASE q = r /\ k = g
    <3>1. {i \in OpIdsOf(q, k) : Scanned(q, k, i)'} = {} BY <1>8, <2>1
    <3>2. nDone[q][k] = 0 BY <1>9, <2>1 DEF IInv, ScanInv
    <3> QED BY <3>1, <3>2, FS_EmptySet
  <2>2. CASE ~(q = r /\ k = g)
    <3>1. {i \in OpIdsOf(q, k) : Scanned(q, k, i)'} = {i \in OpIdsOf(q, k) : Scanned(q, k, i)}
      BY <1>7, <2>2
    <3> QED BY <1>7, <2>2, <3>1 DEF IInv, ScanInv
  <2> QED BY <2>1, <2>2
<1>12. StreamWaitsForGroup' BY <1>0, <1>1, <1>2 DEF IInv, StreamWaitsForGroup
<1>13. OrderInv'
  <2> SUFFICES ASSUME NEW q \in Ranks, ~Failed(q), NEW k \in Group
               PROVE  (host[q][k] # "refused" /\ NothingBefore(q, k) /\ FirstSteps(q, k))'
    BY <1>0, <1>1 DEF OrderInv, Failed
  <2>1. host[q][k] # "refused" /\ NothingBefore(q, k) /\ FirstSteps(q, k)
    BY DEF IInv, OrderInv
  <2>2. host'[q][k] # "refused" BY <1>2, <2>1
  <2>3. NothingBefore(q, k)' BY <1>0, <1>1, <1>2, <1>3, <2>1 DEF NothingBefore
  <2>4. FirstSteps(q, k)'
    <3>1. CASE q = r /\ k = g
      <4>1. done[q] \cap OpsOf(q, k) = {} BY <1>0, <2>1, <3>1 DEF NothingBefore
      <4>2. \A i : Over(q, k, i) = 0
        <5> SUFFICES ASSUME NEW i PROVE Over(q, k, i) = 0 OBVIOUS
        <5>1. done[q] \cap Signal(q, k, i) = {} BY <4>1 DEF Signal
        <5> QED BY <5>1, FS_EmptySet DEF Over
      <4> QED BY <1>0, <1>1, <1>5, <1>8, <2>1, <3>1, <4>2 DEF FirstSteps
    <3>2. CASE ~(q = r /\ k = g)
      BY <1>0, <1>1, <1>3, <1>5, <1>7, <2>1, <3>2 DEF FirstSteps
    <3> QED BY <3>1, <3>2
  <2> QED BY <2>2, <2>3, <2>4
<1> QED BY <1>4, <1>10, <1>11, <1>12, <1>13 DEF IInv

LEMMA ScanStep ==
  ASSUME IInv, NEW r \in Ranks, NEW g \in Group, WaitScan(r, g)
  PROVE  IInv'
<1>0. /\ prog' = prog /\ ops' = ops /\ done' = done /\ asyncResult' = asyncResult
      /\ nDone' = [nDone EXCEPT ![r][g] = @ + 1] /\ host[r][g] = "wait" /\ host' = host
  BY DEF WaitScan, saveVars, opVars
<1>1. PICK j \in OpIdsOf(r, g) : /\ ScanHit(r, g, j)
                                 /\ curStep' = [curStep EXCEPT ![r][g][j] = @ + 1]
  BY DEF WaitScan
<1>2. /\ Ranks' = Ranks /\ Group' = Group
      /\ \A q, k : OpsOf(q, k)' = OpsOf(q, k) /\ OpIdsOf(q, k)' = OpIdsOf(q, k)
      /\ \A q, k, i : Signal(q, k, i)' = Signal(q, k, i) /\ NSteps(q, k, i)' = NSteps(q, k, i)
      /\ \A b : BuiltOK(b)' <=> BuiltOK(b)
  BY <1>0, SameOps
<1>3. \A q, k, i : Over(q, k, i)' = Over(q, k, i) BY <1>0, <1>2 DEF Over
<1>4. \A q \in Ranks, k \in Group : \A i :
        Over(q, k, i) \in Nat /\ NSteps(q, k, i) \in Nat /\ Over(q, k, i) <= NSteps(q, k, i)
  BY FiniteOps DEF IInv
<1>5. /\ DOMAIN curStep' = Ranks
      /\ \A q \in Ranks : DOMAIN curStep'[q] = Group
      /\ \A q \in Ranks, k \in Group : q # r \/ k # g => curStep'[q][k] = curStep[q][k]
      /\ curStep'[r][g] = [curStep[r][g] EXCEPT ![j] = @ + 1]
  BY <1>1 DEF IInv, TypeInv
<1>6. curStep[r][g] \in [OpIdsOf(r, g) -> Int] BY DEF IInv, TypeInv
<1>7. /\ curStep'[r][g] \in [OpIdsOf(r, g) -> Int]
      /\ \A i \in OpIdsOf(r, g) : curStep'[r][g][i] = IF i = j THEN curStep[r][g][j] + 1
                                                      ELSE curStep[r][g][i]
  BY <1>5, <1>6
<1>8. TypeInv'
  <2>1. \A q \in Ranks, k \in Group : curStep'[q][k] \in [OpIdsOf(q, k) -> Int]
    BY <1>5, <1>7 DEF IInv, TypeInv
  <2>2. nDone' \in [Ranks -> [Group -> Nat]] BY <1>0 DEF IInv, TypeInv
  <2> QED BY <1>0, <1>2, <1>5, <2>1, <2>2 DEF IInv, TypeInv
<1>9. Opened(r, g) /\ \A q, k : Opened(q, k)' <=> Opened(q, k) BY <1>0 DEF Opened
<1>10. Scanned(r, g, j)' /\ ~Scanned(r, g, j) /\ Signal(r, g, j) \subseteq done[r]
  <2>1. curStep[r][g][j] = NSteps(r, g, j) BY <1>1 DEF ScanHit
  <2>2. Scanned(r, g, j)' /\ ~Scanned(r, g, j) BY <1>2, <1>4, <1>7, <2>1 DEF Scanned
  <2>3. NSteps(r, g, j) <= Over(r, g, j)
    BY <1>9, <2>1, <2>2 DEF IInv, CountInv
  <2>4. Over(r, g, j) = NSteps(r, g, j) BY <1>4, <2>3
  <2> QED BY <2>2, <2>4, FiniteOps DEF IInv
<1>11. \A q \in Ranks, k \in Group : \A i \in OpIdsOf(q, k) :
         (q # r \/ k # g \/ i # j) =>
            curStep'[q][k][i] = curStep[q][k][i] /\ (Scanned(q, k, i)' <=> Scanned(q, k, i))
  BY <1>2, <1>5, <1>7 DEF Scanned
<1>12. CountInv'
  <2> SUFFICES ASSUME NEW q \in Ranks, NEW k \in Group, Opened(q, k), NEW i \in OpIdsOf(q, k)
               PROVE  \/ curStep'[q][k][i] <= Over(q, k, i)
                      \/ Scanned(q, k, i)' /\ Signal(q, k, i) \subseteq done[q]
    BY <1>0, <1>2, <1>3, <1>9 DEF CountInv
  <2>1. CASE q = r /\ k = g /\ i = j BY <1>10, <2>1
  <2>2. CASE ~(q = r /\ k = g /\ i = j) BY <1>11, <2>2 DEF IInv, CountInv
  <2> QED BY <2>1, <2>2
<1>13. ScanInv'
  <2> SUFFICES ASSUME NEW q \in Ranks, NEW k \in Group
               PROVE  nDone'[q][k] = IF Opened(q, k)
                        THEN Cardinality({i \in OpIdsOf(q, k) : Scanned(q, k, i)'}) ELSE 0
    BY <1>2, <1>9 DEF ScanInv
  <2>1. nDone \in [Ranks -> [Group -> Nat]] BY DEF IInv, TypeInv
  <2> DEFINE Hit == {i \in OpIdsOf(q, k) : Scanned(q, k, i)}
  <2>2. CASE q = r /\ k = g
    <3>1. {i \in OpIdsOf(q, k) : Scanned(q, k, i)'} = Hit \cup {j} BY <1>10, <1>11, <2>2
    <3>2. j \notin Hit BY <1>10, <2>2
    <3>3. IsFiniteSet(Hit)
      <4>1. Hit \in SUBSET OpIdsOf(q, k) /\ IsFiniteSet(OpIdsOf(q, k)) BY FiniteOps DEF IInv
      <4> HIDE DEF Hit
      <4> QED BY <4>1, FS_Subset
    <3>4. nDone[q][k] = Cardinality(Hit) BY <1>9, <2>2 DEF IInv, ScanInv
    <3>5. nDone'[q][k] = nDone[q][k] + 1 BY <1>0, <2>1, <2>2
    <3> HIDE DEF Hit
    <3>6. Cardinality(Hit \cup {j}) = Cardinality(Hit) + 1 BY <3>2, <3>3, FS_AddElement
    <3> QED BY <1>9, <2>2, <3>1, <3>4, <3>5, <3>6
  <2>3. CASE ~(q = r /\ k = g)
    <3>1. {i \in OpIdsOf(q, k) : Scanned(q, k, i)'} = Hit BY <1>11, <2>3
    <3>2. nDone'[q][k] = nDone[q][k] BY <1>0, <2>1, <2>3
    <3> QED BY <3>1, <3>2 DEF IInv, ScanInv
  <2> QED BY <2>2, <2>3
<1>14. StreamWaitsForGroup' BY <1>0, <1>2 DEF IInv, StreamWaitsForGroup
<1>15. OrderInv'
  <2> SUFFICES ASSUME NEW q \in Ranks, ~Failed(q), NEW k \in Group
               PROVE  (host[q][k] # "refused" /\ NothingBefore(q, k) /\ FirstSteps(q, k))'
    BY <1>0, <1>2 DEF OrderInv, Failed
  <2>1. host[q][k] # "refused" /\ NothingBefore(q, k) /\ FirstSteps(q, k)
    BY DEF IInv, OrderInv
  <2>2. host[q][k] \in {"none", "saving", "queued"} => q # r \/ k # g BY <1>0
  <2>3. NothingBefore(q, k)' BY <1>0, <1>2, <1>5, <2>1, <2>2 DEF NothingBefore
  <2>4. FirstSteps(q, k)'
    BY <1>0, <1>2, <1>3, <1>9, <1>10, <1>11, <2>1 DEF FirstSteps
  <2> QED BY <1>0, <2>1, <2>3, <2>4
<1> QED BY <1>8, <1>12, <1>13, <1>14, <1>15 DEF IInv

\* The wait ends when every signal was scanned: every operation is over.
LEMMA OpenStep ==
  ASSUME IInv, NEW r \in Ranks, NEW g \in Group, WaitOpen(r, g)
  PROVE  OpsOf(r, g) \subseteq done[r]
<1> DEFINE Hit == {i \in OpIdsOf(r, g) : Scanned(r, g, i)}
<1>1. Opened(r, g) /\ nDone[r][g] >= Cardinality(OpIdsOf(r, g))
  BY DEF WaitOpen, AllScanned, Opened
<1>2. nDone[r][g] = Cardinality(Hit) BY <1>1 DEF IInv, ScanInv
<1>3. Hit \in SUBSET OpIdsOf(r, g) /\ IsFiniteSet(OpIdsOf(r, g)) BY FiniteOps DEF IInv
<1>4. Hit = OpIdsOf(r, g)
  <2> HIDE DEF Hit
  <2>1. /\ IsFiniteSet(Hit) /\ Cardinality(Hit) <= Cardinality(OpIdsOf(r, g))
        /\ Cardinality(OpIdsOf(r, g)) = Cardinality(Hit) => OpIdsOf(r, g) = Hit
    BY <1>3, FS_Subset
  <2>2. Cardinality(Hit) \in Nat /\ Cardinality(OpIdsOf(r, g)) \in Nat
    BY <1>3, <2>1, FS_CardinalityType
  <2> QED BY <1>1, <1>2, <2>1, <2>2
<1>5. ASSUME NEW i \in OpIdsOf(r, g) PROVE Signal(r, g, i) \subseteq done[r]
  <2>1. Scanned(r, g, i) BY <1>4
  <2>2. Over(r, g, i) \in Nat /\ NSteps(r, g, i) \in Nat /\ Over(r, g, i) <= NSteps(r, g, i)
    BY FiniteOps DEF IInv
  <2> QED BY <1>1, <2>1, <2>2 DEF IInv, CountInv, Scanned
<1> QED BY <1>5 DEF OpIdsOf, Signal

LEMMA InitIInv == Init => IInv
<1> SUFFICES ASSUME Init PROVE IInv OBVIOUS
<1>1. /\ prog \in Programs /\ ops = [r \in Ranks |-> BuildAll(r)]
      /\ done = [r \in Ranks |-> {}] /\ asyncResult = [r \in Ranks |-> "Success"]
      /\ curStep = [r \in Ranks |-> [g \in Group |-> [i \in OpIdsOf(r, g) |-> -1]]]
      /\ nDone = [r \in Ranks |-> [g \in Group |-> 0]]
      /\ host = [r \in Ranks |-> [g \in Group |-> "none"]]
  BY DEF Init
<1>2. \A r \in Ranks : BuiltOK(ops[r]) BY <1>1, BuildAllOK
<1>3. TypeInv BY <1>1, <1>2 DEF TypeInv, Host
<1>4. \A r \in Ranks, g \in Group : ~Opened(r, g) BY <1>1 DEF Opened
<1>5. CountInv /\ ScanInv BY <1>1, <1>4 DEF CountInv, ScanInv
<1>6. StreamWaitsForGroup BY <1>1 DEF StreamWaitsForGroup
<1>7. OrderInv
  <2> SUFFICES ASSUME NEW r \in Ranks, NEW g \in Group
               PROVE  host[r][g] # "refused" /\ NothingBefore(r, g) /\ FirstSteps(r, g)
    BY DEF OrderInv
  <2>1. \A i : Over(r, g, i) = 0
    <3>1. \A i : done[r] \cap Signal(r, g, i) = {} BY <1>1
    <3> QED BY <3>1, FS_EmptySet DEF Over
  <2>2. \A i : \A o \in Signal(r, g, i) : ops[r][o].step \in Nat
    BY <1>2 DEF Signal, OpsOf, BuiltOK
  <2>3. FirstSteps(r, g)
    <3>1. done[r] = {} BY <1>1
    <3> QED BY <1>4, <2>1, <2>2, <3>1 DEF FirstSteps
  <2>4. NothingBefore(r, g) BY <1>1 DEF NothingBefore
  <2> QED BY <1>1, <2>3, <2>4
<1> QED BY <1>3, <1>5, <1>6, <1>7 DEF IInv

\* Steps that leave the semaphores, the host functions and the results alone.
LEMMA QuietStep ==
  ASSUME IInv, prog' = prog, ops' = ops, done' = done, asyncResult' = asyncResult,
         curStep' = curStep, nDone' = nDone, host' = host
  PROVE  IInv'
<1>1. /\ Ranks' = Ranks /\ Group' = Group
      /\ \A q, k : OpsOf(q, k)' = OpsOf(q, k) /\ OpIdsOf(q, k)' = OpIdsOf(q, k)
      /\ \A q, k, i : Signal(q, k, i)' = Signal(q, k, i) /\ NSteps(q, k, i)' = NSteps(q, k, i)
      /\ \A b : BuiltOK(b)' <=> BuiltOK(b)
  BY SameOps
<1>2. \A q, k, i : /\ Over(q, k, i)' = Over(q, k, i)
                   /\ Scanned(q, k, i)' <=> Scanned(q, k, i)
                   /\ Opened(q, k)' <=> Opened(q, k)
  BY <1>1 DEF Over, Scanned, Opened
<1>3. TypeInv' BY <1>1 DEF IInv, TypeInv
<1>4. CountInv' BY <1>1, <1>2 DEF IInv, CountInv
<1>5. ScanInv'
  <2>1. \A q, k : {i \in OpIdsOf(q, k) : Scanned(q, k, i)}'
                    = {i \in OpIdsOf(q, k) : Scanned(q, k, i)}
    BY <1>1, <1>2
  <2> QED BY <1>1, <1>2, <2>1 DEF IInv, ScanInv
<1>6. StreamWaitsForGroup' BY <1>1 DEF IInv, StreamWaitsForGroup
<1>7. OrderInv'
  <2>1. \A q, k : /\ NothingBefore(q, k)' <=> NothingBefore(q, k)
                  /\ FirstSteps(q, k)' <=> FirstSteps(q, k)
    BY <1>1, <1>2 DEF NothingBefore, FirstSteps
  <2> QED BY <1>1, <2>1 DEF IInv, OrderInv, Failed
<1> QED BY <1>3, <1>4, <1>5, <1>6, <1>7 DEF IInv

LEMMA IInvStep == IInv /\ [Next]_vars => IInv'
<1> SUFFICES ASSUME IInv, [Next]_vars PROVE IInv' OBVIOUS
<1> USE DEF saveVars, opVars
<1>1. ASSUME NEW r \in Ranks, SaveEnqueue(r) \/ GetPostedOps(r) PROVE IInv'
  BY <1>1, QuietStep DEF SaveEnqueue, GetPostedOps
<1>2. ASSUME NEW r \in Ranks, NEW q \in Queue, RemoveHead(r, q) PROVE IInv'
  BY <1>2, QuietStep DEF RemoveHead
<1>3. ASSUME NEW r \in Ranks, SaveRefused(r) PROVE IInv'
  <2> DEFINE g == ops[r][saved[r] + 1].group
  <2>1. host[r][g] = "saving" /\ Failed(r) /\ host' = [host EXCEPT ![r][g] = "refused"]
    BY <1>3 DEF SaveRefused, MaySave
  <2>2. /\ prog' = prog /\ ops' = ops /\ done' = done /\ asyncResult' = asyncResult
        /\ curStep' = curStep /\ nDone' = nDone
    BY <1>3 DEF SaveRefused
  <2>3. CASE g \in Group
    <3>1. ~Opened(r, g) BY <2>1 DEF Opened
    <3> HIDE DEF g
    <3> QED BY <2>1, <2>2, <2>3, <3>1, HostMoves DEF Host
  <2>4. CASE g \notin Group
    <3>1. host' = host BY <2>1, <2>4 DEF IInv, TypeInv
    <3> QED BY <2>2, <3>1, QuietStep
  <2> QED BY <2>3, <2>4
<1>4. ASSUME NEW r \in Ranks, NEW g \in Group, GroupLaunch(r, g) PROVE IInv'
  <2>1. /\ prog' = prog /\ ops' = ops /\ done' = done /\ asyncResult' = asyncResult
        /\ curStep' = curStep /\ nDone' = nDone /\ host[r][g] = "none"
        /\ host' = [host EXCEPT ![r][g] = IF OpsOf(r, g) = {} THEN "returned" ELSE "saving"]
    BY <1>4 DEF GroupLaunch
  <2>2. ~Opened(r, g) BY <2>1 DEF Opened
  <2>3. nDone[r][g] = 0 BY <2>2 DEF IInv, ScanInv
  <2>4. CASE OpsOf(r, g) = {}
    <3>1. host' = [host EXCEPT ![r][g] = "returned"] BY <2>1, <2>4
    <3> QED BY <2>1, <2>3, <2>4, <3>1, HostMoves DEF Host
  <2>5. CASE OpsOf(r, g) # {}
    <3>1. host' = [host EXCEPT ![r][g] = "saving"] BY <2>1, <2>5
    <3> QED BY <2>1, <2>2, <3>1, HostMoves DEF Host
  <2> QED BY <2>4, <2>5
<1>5. ASSUME NEW r \in Ranks, NEW g \in Group, LaunchHostFunc(r, g) PROVE IInv'
  <2>1. /\ prog' = prog /\ ops' = ops /\ done' = done /\ asyncResult' = asyncResult
        /\ curStep' = curStep /\ nDone' = nDone /\ host[r][g] = "saving"
        /\ host' = [host EXCEPT ![r][g] = "queued"]
    BY <1>5 DEF LaunchHostFunc
  <2>2. ~Opened(r, g) BY <2>1 DEF Opened
  <2> QED BY <2>1, <2>2, HostMoves DEF Host
<1>6. ASSUME NEW r \in Ranks, NEW g \in Group, SignalStart(r, g) PROVE IInv'
  BY <1>6, StartStep
<1>7. ASSUME NEW r \in Ranks, NEW g \in Group, WaitScan(r, g) PROVE IInv'
  BY <1>7, ScanStep
<1>8. ASSUME NEW r \in Ranks, NEW g \in Group, WaitOpen(r, g) PROVE IInv'
  <2>1. /\ prog' = prog /\ ops' = ops /\ done' = done /\ asyncResult' = asyncResult
        /\ curStep' = curStep /\ nDone' = nDone /\ host[r][g] = "wait"
        /\ host' = [host EXCEPT ![r][g] = "open"]
    BY <1>8 DEF WaitOpen
  <2>2. Opened(r, g) BY <2>1 DEF Opened
  <2>3. OpsOf(r, g) \subseteq done[r] BY <1>8, OpenStep
  <2> QED BY <2>1, <2>2, <2>3, HostMoves DEF Host
<1>9. ASSUME NEW r \in Ranks, NEW g \in Group, WaitReturn(r, g) PROVE IInv'
  <2>1. /\ prog' = prog /\ ops' = ops /\ done' = done /\ asyncResult' = asyncResult
        /\ curStep' = curStep /\ nDone' = nDone /\ host[r][g] = "open"
        /\ host' = [host EXCEPT ![r][g] = "returned"]
    BY <1>9 DEF WaitReturn
  <2>2. Opened(r, g) BY <2>1 DEF Opened
  <2>3. OpsOf(r, g) \subseteq done[r] BY <2>1 DEF IInv, StreamWaitsForGroup
  <2> QED BY <2>1, <2>2, <2>3, HostMoves DEF Host
<1>10. ASSUME NEW r \in Ranks, RetirePostedOps(r) PROVE IInv'
  <2>1. /\ prog' = prog /\ ops' = ops /\ asyncResult' = asyncResult /\ nDone' = nDone
        /\ host' = host /\ Failed(r) /\ RetireOps(r, Range(prod[r]))
    BY <1>10 DEF RetirePostedOps
  <2>2. DOMAIN asyncResult' = Ranks /\ asyncResult'[r] = "Error"
    BY <2>1 DEF Failed, IInv, TypeInv
  <2> QED BY <2>1, <2>2, RetireAfterError
<1>11. ASSUME NEW r \in Ranks, NEW q \in Queue, RetireQueue(r, q) PROVE IInv'
  <2>1. /\ prog' = prog /\ ops' = ops /\ asyncResult' = asyncResult /\ nDone' = nDone
        /\ host' = host /\ Failed(r) /\ RetireOps(r, Range(cons[r][q]))
    BY <1>11 DEF RetireQueue
  <2>2. DOMAIN asyncResult' = Ranks /\ asyncResult'[r] = "Error"
    BY <2>1 DEF Failed, IInv, TypeInv
  <2> QED BY <2>1, <2>2, RetireAfterError
<1>12. ASSUME NEW r \in Ranks, NEW q \in Queue, OpCompletes(r, q) PROVE IInv'
  BY <1>12, CompletionStep
<1>13. ASSUME NEW r \in Ranks, NEW q \in Queue, OpFails(r, q) PROVE IInv'
  <2>1. /\ prog' = prog /\ ops' = ops /\ nDone' = nDone /\ host' = host
        /\ asyncResult' = [asyncResult EXCEPT ![r] = "Error"]
        /\ RetireOps(r, Range(cons[r][q]))
    BY <1>13 DEF OpFails
  <2>2. /\ DOMAIN asyncResult' = Ranks /\ asyncResult'[r] = "Error"
        /\ \A p \in Ranks : p # r => asyncResult'[p] = asyncResult[p]
    BY <2>1 DEF IInv, TypeInv
  <2> QED BY <2>1, <2>2, RetireAfterError
<1>14. CASE UNCHANGED vars BY <1>14, QuietStep DEF vars
<1> QED BY <1>1, <1>2, <1>3, <1>4, <1>5, <1>6, <1>7, <1>8, <1>9, <1>10, <1>11, <1>12, <1>13,
           <1>14 DEF Next, Step, Launch, HostFunc, Pass

\* The inductive invariant holds in every behaviour.
LEMMA Invariance == Spec => []IInv
BY InitIInv, IInvStep, PTL DEF Spec

-----------------------------------------------------------------------------
(* The queues *)

LEMMA MaxOfNumbers ==
  ASSUME NEW n \in Nat, NEW S \in SUBSET (1..n), S # {}
  PROVE  Max(S) \in S
<1> DEFINE U == {b \in Nat : \A x \in S : x <= b}
<1>1. n \in U BY FS_Interval
<1>2. PICK b \in U : \A c \in U : b <= c BY <1>1, LeastNatural
<1>3. b \in S
  <2>1. SUFFICES ASSUME b \notin S PROVE FALSE OBVIOUS
  <2>2. ASSUME NEW x \in S PROVE x <= b - 1 /\ x \in Nat /\ x >= 1
    <3>1. x \in 1..n OBVIOUS
    <3>2. x \in Nat /\ x >= 1 BY <3>1
    <3>3. b \in Nat /\ x <= b BY <1>2
    <3>4. x # b BY <2>1
    <3> QED BY <3>2, <3>3, <3>4
  <2>3. b - 1 \in Nat
    <3>1. PICK x \in S : TRUE OBVIOUS
    <3>2. b \in Nat /\ x <= b - 1 /\ x \in Nat BY <1>2, <2>2
    <3> QED BY <3>2
  <2>4. b - 1 \in U BY <2>2, <2>3
  <2>5. b <= b - 1 /\ b \in Nat BY <1>2, <2>4
  <2> QED BY <2>5
<1>4. \E x \in S : \A y \in S : x >= y BY <1>2, <1>3
<1> QED BY <1>4 DEF Max

LEMMA SeqSteps ==
  ASSUME NEW D
  PROVE  /\ <<>> \in Seq(D)
         /\ \A s \in Seq(D) : \A x \in D : Append(s, x) \in Seq(D)
         /\ \A s \in Seq(D) : s # <<>> => Tail(s) \in Seq(D) /\ Head(s) \in D
<1>1. \A s \in Seq(D) : s # <<>> => Tail(s) \in Seq(D) /\ Head(s) \in D
  BY HeadTailProperties
<1>2. ASSUME NEW s \in Seq(D), NEW x \in D PROVE Append(s, x) \in Seq(D)
  OBVIOUS
<1> QED BY <1>1, <1>2

\* Only operations of the rank are on its queues.
QueueInv ==
  /\ DOMAIN prod = Ranks /\ DOMAIN cons = Ranks
  /\ saved \in [Ranks -> Nat]
  /\ \A r \in Ranks : /\ prod[r] \in Seq(DOMAIN ops[r])
                      /\ DOMAIN cons[r] = Queue
                      /\ \A q \in Queue : cons[r][q] \in Seq(DOMAIN ops[r])

LEMMA PostedInOrder ==
  ASSUME NEW n \in Nat, NEW S \in SUBSET (1..n)
  PROVE  Ordered(S, Earlier) \in Seq(1..n)
<1> DEFINE R == {e \in S \X S : Earlier(e[1], e[2])}
           Total == Cardinality(S)
           b == Ordered(S, Earlier)
<1>1. \A p, o \in S : <<p, o>> \in R <=> Earlier(p, o) OBVIOUS
<1> HIDE DEF R
<1>2. IsFiniteSet(1..n) BY FS_Interval
<1>3. IsFiniteSet(S) BY <1>2, FS_Subset
<1>4. Total \in Nat BY <1>3, FS_CardinalityType
<1>5. StrictOrder(S, R)
  <2>1. \A o \in S : ~Earlier(o, o) BY DEF Earlier
  <2>2. \A p, o \in S : p # o => Earlier(p, o) \/ Earlier(o, p) BY DEF Earlier
  <2>3. \A p, o, q \in S : Earlier(p, o) /\ Earlier(o, q) => Earlier(p, q) BY DEF Earlier
  <2> QED BY <1>1, <2>1, <2>2, <2>3 DEF StrictOrder
<1>6. \A o \in S : Place(S, Earlier, o) = Cardinality(Below(S, R, o))
  BY <1>1 DEF Place, Below
<1>7. \A k \in 0..(Total - 1) : \E o \in S : Place(S, Earlier, o) = k
  <2>1. \A k \in 0..(Total - 1) : \E o \in S : Cardinality(Below(S, R, o)) = k
    BY <1>3, <1>5, EveryPlaceIsTaken
  <2> QED BY <1>6, <2>1
<1>8. b = [k \in 1..Total |-> CHOOSE o \in S : Place(S, Earlier, o) = k - 1]
  BY DEF Ordered
<1>9. ASSUME NEW k \in 1..Total PROVE b[k] \in S
  <2>1. k - 1 \in 0..(Total - 1) BY <1>4
  <2>2. \E o \in S : Place(S, Earlier, o) = k - 1 BY <1>7, <2>1
  <2>3. b[k] = CHOOSE o \in S : Place(S, Earlier, o) = k - 1 BY <1>8
  <2> QED BY <2>2, <2>3
<1> HIDE DEF b, Total
<1>10. b = [k \in 1..Total |-> b[k]] BY <1>8
<1>11. b \in Seq(1..n) BY <1>4, <1>9, <1>10
<1> QED BY <1>11 DEF b

LEMMA QueueStep ==
  ASSUME TypeInv, QueueInv, [Next]_vars
  PROVE  QueueInv'
<1> USE DEF saveVars, opVars
<1> DEFINE Same == prog' = prog /\ ops' = ops
<1>0. ASSUME Same PROVE /\ Ranks' = Ranks /\ Queue' = Queue
  BY <1>0 DEF Ranks, Queue
<1>1. ASSUME Same, prod' = prod, cons' = cons, saved' \in [Ranks -> Nat] PROVE QueueInv'
  BY <1>0, <1>1 DEF QueueInv
<1>2. ASSUME NEW r \in Ranks, SaveEnqueue(r) PROVE QueueInv'
  <2>1. /\ prog' = prog /\ ops' = ops /\ cons' = cons /\ saved[r] < Len(ops[r])
        /\ prod' = [prod EXCEPT ![r] = Append(@, saved[r] + 1)]
        /\ saved' = [saved EXCEPT ![r] = @ + 1]
    BY <1>2 DEF SaveEnqueue, MaySave
  <2>2. saved \in [Ranks -> Nat] /\ Len(ops[r]) \in Nat /\ DOMAIN ops[r] = 1..Len(ops[r])
    BY DEF QueueInv, TypeInv, BuiltOK
  <2>3. saved[r] + 1 \in DOMAIN ops[r] /\ saved' \in [Ranks -> Nat] BY <2>1, <2>2
  <2>4. Append(prod[r], saved[r] + 1) \in Seq(DOMAIN ops[r])
    <3>1. prod[r] \in Seq(DOMAIN ops[r]) BY DEF QueueInv
    <3> QED BY <2>3, <3>1, SeqSteps
  <2>5. DOMAIN prod' = Ranks /\ \A p \in Ranks : prod'[p] \in Seq(DOMAIN ops[p])
    BY <2>1, <2>4 DEF QueueInv
  <2> QED BY <1>0, <2>1, <2>3, <2>5 DEF QueueInv
<1>3. ASSUME NEW r \in Ranks, SaveRefused(r) PROVE QueueInv'
  <2> DEFINE g == ops[r][saved[r] + 1].group
             S == OpsOf(r, g)
  <2>1. /\ prog' = prog /\ ops' = ops /\ cons' = cons /\ prod' = prod
        /\ saved[r] < Len(ops[r])
        /\ saved' = [saved EXCEPT ![r] = Max(OpsOf(r, ops[r][@ + 1].group))]
    BY <1>3 DEF SaveRefused, MaySave
  <2>2. saved \in [Ranks -> Nat] /\ Len(ops[r]) \in Nat /\ DOMAIN ops[r] = 1..Len(ops[r])
    BY DEF QueueInv, TypeInv, BuiltOK
  <2>3. saved[r] + 1 \in 1..Len(ops[r]) BY <2>1, <2>2
  <2>4. S \in SUBSET (1..Len(ops[r])) /\ S # {} BY <2>2, <2>3 DEF OpsOf
  <2>5. saved' = [saved EXCEPT ![r] = Max(S)] BY <2>1, <2>2
  <2> HIDE DEF S
  <2>6. Max(S) \in Nat
    <3>1. Max(S) \in S BY <2>2, <2>4, MaxOfNumbers
    <3>2. \A x \in S : x \in 1..Len(ops[r]) BY <2>4
    <3>3. \A x \in 1..Len(ops[r]) : x \in Nat BY <2>2
    <3> QED BY <3>1, <3>2, <3>3
  <2>7. saved' \in [Ranks -> Nat] BY <2>2, <2>5, <2>6
  <2> QED BY <1>1, <2>1, <2>7
<1>4. ASSUME NEW r \in Ranks, GetPostedOps(r) PROVE QueueInv'
  <2> DEFINE P(q) == Ordered({o \in Range(prod[r]) : QueueOf(r, o) = q}, Earlier)
  <2>1. /\ prog' = prog /\ ops' = ops /\ saved' = saved
        /\ cons' = [cons EXCEPT ![r] = [q \in Queue |-> @[q] \o P(q)]]
        /\ prod' = [prod EXCEPT ![r] = <<>>]
    BY <1>4 DEF GetPostedOps
  <2>2. Len(ops[r]) \in Nat /\ DOMAIN ops[r] = 1..Len(ops[r])
    BY DEF TypeInv, BuiltOK
  <2>3. prod[r] \in Seq(1..Len(ops[r])) BY <2>2 DEF QueueInv
  <2>4. Range(prod[r]) \subseteq 1..Len(ops[r]) BY <2>3 DEF Range
  <2>5. \A q \in Queue : P(q) \in Seq(1..Len(ops[r])) BY <2>2, <2>4, PostedInOrder
  <2> HIDE DEF P
  <2>6. cons'[r] = [q \in Queue |-> cons[r][q] \o P(q)] BY <2>1 DEF QueueInv
  <2>7. \A q \in Queue : cons'[r][q] \in Seq(DOMAIN ops[r])
    <3> SUFFICES ASSUME NEW q \in Queue PROVE cons'[r][q] \in Seq(DOMAIN ops[r]) OBVIOUS
    <3>1. cons[r][q] \in Seq(DOMAIN ops[r]) /\ P(q) \in Seq(DOMAIN ops[r])
      BY <2>2, <2>5 DEF QueueInv
    <3> QED BY <2>6, <3>1, ConcatProperties
  <2>8. /\ DOMAIN cons' = Ranks /\ DOMAIN cons'[r] = Queue
        /\ \A p \in Ranks : p # r => cons'[p] = cons[p]
    BY <2>1, <2>6 DEF QueueInv
  <2>9. DOMAIN prod' = Ranks /\ \A p \in Ranks : prod'[p] \in Seq(DOMAIN ops[p])
    <3>1. <<>> \in Seq(DOMAIN ops[r]) BY SeqSteps
    <3> QED BY <2>1, <3>1 DEF QueueInv
  <2> QED BY <1>0, <2>1, <2>7, <2>8, <2>9 DEF QueueInv
<1>5. ASSUME NEW r \in Ranks, RetirePostedOps(r) PROVE QueueInv'
  <2>1. /\ prog' = prog /\ ops' = ops /\ saved' = saved /\ cons' = cons
        /\ prod' = [prod EXCEPT ![r] = <<>>]
    BY <1>5 DEF RetirePostedOps
  <2>2. DOMAIN prod' = Ranks /\ \A p \in Ranks : prod'[p] \in Seq(DOMAIN ops[p])
    <3>1. <<>> \in Seq(DOMAIN ops[r]) BY SeqSteps
    <3> QED BY <2>1, <3>1 DEF QueueInv
  <2> QED BY <1>0, <2>1, <2>2 DEF QueueInv
<1>6. ASSUME NEW r \in Ranks, NEW q \in Queue, NEW s \in Seq(DOMAIN ops[r]), Same,
             saved' = saved, prod' = prod, cons' = [cons EXCEPT ![r][q] = s]
      PROVE  QueueInv'
  <2>1. /\ DOMAIN cons' = Ranks /\ \A p \in Ranks : DOMAIN cons'[p] = Queue
        /\ \A p \in Ranks, t \in Queue :
             cons'[p][t] = IF p = r /\ t = q THEN s ELSE cons[p][t]
    BY <1>6 DEF QueueInv
  <2> QED BY <1>0, <1>6, <2>1 DEF QueueInv
<1>7. ASSUME NEW r \in Ranks, NEW q \in Queue, RetireQueue(r, q) \/ OpFails(r, q)
      PROVE  QueueInv'
  <2>1. <<>> \in Seq(DOMAIN ops[r]) BY SeqSteps
  <2> QED BY <1>6, <1>7, <2>1 DEF RetireQueue, OpFails
<1>8. ASSUME NEW r \in Ranks, NEW q \in Queue, RemoveHead(r, q) PROVE QueueInv'
  <2>1. cons[r][q] # <<>> /\ cons[r][q] \in Seq(DOMAIN ops[r])
    BY <1>8 DEF RemoveHead, QueueInv
  <2>2. Tail(cons[r][q]) \in Seq(DOMAIN ops[r]) BY <2>1, SeqSteps
  <2>3. cons' = [cons EXCEPT ![r][q] = Tail(cons[r][q])]
    BY <1>8 DEF RemoveHead, QueueInv
  <2> QED BY <1>6, <1>8, <2>2, <2>3 DEF RemoveHead
<1>9. ASSUME NEW r \in Ranks, NEW q \in Queue, OpCompletes(r, q) PROVE QueueInv'
  BY <1>1, <1>9 DEF OpCompletes, QueueInv
<1>10. ASSUME NEW r \in Ranks, NEW g \in Group,
              \/ GroupLaunch(r, g) \/ LaunchHostFunc(r, g) \/ SignalStart(r, g)
              \/ WaitScan(r, g) \/ WaitOpen(r, g) \/ WaitReturn(r, g)
       PROVE  QueueInv'
  <2>1. Same /\ prod' = prod /\ cons' = cons /\ saved' = saved
    BY <1>10 DEF GroupLaunch, LaunchHostFunc, SignalStart, WaitScan, WaitOpen, WaitReturn
  <2> QED BY <1>1, <2>1 DEF QueueInv
<1>11. CASE UNCHANGED vars BY <1>1, <1>11 DEF vars, QueueInv
<1> QED BY <1>2, <1>3, <1>4, <1>5, <1>7, <1>8, <1>9, <1>10, <1>11
        DEF Next, Step, Launch, HostFunc, Pass

LEMMA QueueInvariance == Spec => [](IInv /\ QueueInv)
<1>1. Init => QueueInv BY DEF Init, QueueInv
<1>2. IInv /\ QueueInv /\ [Next]_vars => QueueInv' BY QueueStep DEF IInv
<1> QED BY <1>1, <1>2, Invariance, PTL DEF Spec

-----------------------------------------------------------------------------
(* The theorems *)

\* For every program, on any number of ranks and nodes, with or without the
\* schedule and also after an error: a host function lets the stream go on only
\* when every operation of its group is over.
THEOREM StreamSafety == Spec => []StreamWaitsForGroup
<1>1. IInv => StreamWaitsForGroup BY SMTT(60) DEF IInv
<1> QED BY <1>1, Invariance, PTL

\* Without an error only a completion makes an operation be over.
LEMMA OnlyCompletion ==
  ASSUME IInv, Next, NEW r \in Ranks, NEW o \in done'[r] \ done[r],
         asyncResult'[r] = "Success"
  PROVE  \E q \in Queue : OpCompletes(r, q) /\ o = Head(cons[r][q])
<1> USE DEF saveVars, opVars
<1>1. done' # done OBVIOUS
<1>2. DOMAIN done = Ranks /\ DOMAIN asyncResult = Ranks BY DEF IInv, TypeInv
<1>3. ASSUME NEW p \in Ranks, RetirePostedOps(p) PROVE FALSE
  <2>1. done' = [done EXCEPT ![p] = @ \cup Range(prod[p])]
        /\ asyncResult' = asyncResult /\ asyncResult[p] = "Error"
    BY <1>3 DEF RetirePostedOps, RetireOps, Failed
  <2> QED BY <1>2, <2>1
<1>4. ASSUME NEW p \in Ranks, NEW q \in Queue, RetireQueue(p, q) PROVE FALSE
  <2>1. done' = [done EXCEPT ![p] = @ \cup Range(cons[p][q])]
        /\ asyncResult' = asyncResult /\ asyncResult[p] = "Error"
    BY <1>4 DEF RetireQueue, RetireOps, Failed
  <2> QED BY <1>2, <2>1
<1>5. ASSUME NEW p \in Ranks, NEW q \in Queue, OpFails(p, q) PROVE FALSE
  <2>1. done' = [done EXCEPT ![p] = @ \cup Range(cons[p][q])]
        /\ asyncResult' = [asyncResult EXCEPT ![p] = "Error"]
    BY <1>5 DEF OpFails, RetireOps
  <2> QED BY <1>2, <2>1
<1>6. ASSUME NEW p \in Ranks, NEW q \in Queue, OpCompletes(p, q)
      PROVE  p = r /\ o = Head(cons[r][q])
  <2>1. done' = [done EXCEPT ![p] = @ \cup {Head(cons[p][q])}]
    BY <1>6 DEF OpCompletes
  <2> QED BY <1>2, <2>1
<1> QED BY <1>1, <1>3, <1>4, <1>5, <1>6
        DEF Next, Step, Launch, HostFunc, Pass, vars, SaveEnqueue, SaveRefused, GroupLaunch,
            LaunchHostFunc, SignalStart, WaitScan, WaitOpen, WaitReturn, GetPostedOps, RemoveHead

\* Before an error an operation is over only after the stream has reached its
\* group, and after all operations of its opId with a smaller step.
THEOREM StepOrder == Spec => StepsInOrder
<1> DEFINE Fine ==
      \A r \in Ranks : \A o \in done'[r] \ done[r] : asyncResult'[r] = "Success" =>
        /\ host[r][ops[r][o].group] \notin {"none", "saving", "queued"}
        /\ \A p \in Signal(r, ops[r][o].group, ops[r][o].opId) :
             ops[r][p].step < ops[r][o].step => p \in done[r]
<1>1. ASSUME IInv, QueueInv, [Next]_vars PROVE [Fine]_vars
  <2> SUFFICES ASSUME Next, NEW r \in Ranks, NEW o \in done'[r] \ done[r],
                      asyncResult'[r] = "Success"
               PROVE  /\ host[r][ops[r][o].group] \notin {"none", "saving", "queued"}
                      /\ \A p \in Signal(r, ops[r][o].group, ops[r][o].opId) :
                           ops[r][p].step < ops[r][o].step => p \in done[r]
    BY <1>1
  <2>1. PICK q \in Queue : OpCompletes(r, q) /\ o = Head(cons[r][q])
    BY <1>1, OnlyCompletion
  <2>2. /\ cons[r][q] # <<>> /\ o \notin done[r] /\ PollStart(r, o) /\ ~Failed(r)
    BY <2>1 DEF OpCompletes, Started
  <2>3. o \in DOMAIN ops[r]
    <3>1. cons[r][q] \in Seq(DOMAIN ops[r]) BY <1>1 DEF QueueInv
    <3> QED BY <2>1, <2>2, <3>1, SeqSteps
  <2> DEFINE g == ops[r][o].group
             i == ops[r][o].opId
  <2>4. /\ g \in Group /\ i \in OpIdsOf(r, g) /\ Opened(r, g)
        /\ ops[r][o].step = Over(r, g, i)
    BY <1>1, <2>2, <2>3, NextStep
  <2>5. FirstSteps(r, g) BY <1>1, <2>2, <2>4 DEF IInv, OrderInv
  <2> QED BY <2>4, <2>5 DEF FirstSteps, Opened
<1> QED BY <1>1, QueueInvariance, PTL DEF Spec, StepsInOrder

-----------------------------------------------------------------------------
(* The NET transport *)

\* The chunks lo..hi-1 of an operation are in the window of its transport t:
\* their numbers start at b, the code's contexts name them and the scoreboard
\* tracks them and nothing after them.
Window(t, b, lo, hi) ==
  /\ lo \in Nat /\ hi \in Nat /\ b \in Nat /\ lo <= hi
  /\ t = [nextSubmit |-> b + hi, contexts |-> t.contexts, scoreboard |-> t.scoreboard]
  /\ t.contexts \in [Slot -> Nat]
  /\ IsScoreboard(t.scoreboard, Chunks) /\ t.scoreboard.nextSequence = b + lo
  /\ \A k \in lo..hi-1 :
       /\ t.contexts[SlotOf(b + k)] = b + k
       /\ Tracks(t.scoreboard, "pending", b + k) \/ Tracks(t.scoreboard, "complete", b + k)
  /\ \A n \in Nat :
       Tracks(t.scoreboard, "pending", n) \/ Tracks(t.scoreboard, "complete", n) => n < b + hi

\* A chunk is in the receiver's memory and the device sees it.
Visible(i, k) == <<i, k>> \in moved /\ LandedAs(<<i, k>>) = {}

IsData(d) == d = [i \in Op |-> [k \in 0..StepsOf[i]-1 |-> d[i][k]]]
Requests == [Slot -> {"null", "net", "flush", "0x1"}]
Args == [waitCopy : Nat, posted : Nat, postFlush : Nat, retired : Nat]

PipelineType ==
  /\ regBufFlag \in [Side -> BOOLEAN] /\ flushRequired \in BOOLEAN
  /\ cur \in [Side -> 1..N+1]
  /\ args \in [Side -> Args]
  /\ DOMAIN transport = Side
  /\ requests \in [Side -> Requests]
  /\ netCompleted \in [Slot -> BOOLEAN]
  /\ staging \in [Side -> [Slot -> Nat \X Nat]]
  /\ executed \in [Side -> Nat]
  /\ moved \subseteq Chunk
  /\ landed \subseteq [chunk : Chunk, value : Chunk]
  /\ IsData(data)

\* The sender: its counters follow each other, a chunk that its scoreboard has
\* complete or retired was moved, and a staging slot keeps a chunk that was
\* copied until the chunk is retired.
SendInv ==
  LET i == cur["send"]  a == args["send"]  sb == transport["send"].scoreboard IN
  i \in Op =>
    /\ a.posted <= a.waitCopy /\ a.waitCopy <= StepsOf[i] /\ a.waitCopy <= a.retired + Chunks
    /\ executed["send"] <= a.waitCopy
    /\ regBufFlag["send"] \/ a.posted <= executed["send"]
    /\ Window(transport["send"], BaseOf[i], a.retired, a.posted)
    /\ \A k \in 0..a.retired-1 : <<i, k>> \in moved
    /\ \A k \in a.retired..a.posted-1 : Tracks(sb, "complete", BaseOf[i] + k) => <<i, k>> \in moved
    /\ regBufFlag["send"] \/
         \A k \in a.retired..executed["send"]-1 : staging["send"][SlotOf(k)] = <<i, k>>

\* The receiver: its counters follow each other, only the oldest chunk of its
\* window can be complete, a request that was seen complete was moved, and a
\* chunk that is copied is visible.
RecvInv ==
  LET i == cur["recv"]  a == args["recv"]  sb == transport["recv"].scoreboard IN
  i \in Op =>
    /\ a.retired <= a.waitCopy /\ a.waitCopy <= a.postFlush /\ a.postFlush <= a.posted
    /\ a.posted <= StepsOf[i] /\ a.posted <= a.retired + Chunks
    /\ executed["recv"] <= a.waitCopy
    /\ regBufFlag["recv"] \/ a.retired <= executed["recv"]
    /\ Window(transport["recv"], 0, a.retired, a.posted)
    /\ \A k \in a.retired..a.posted-1 : Tracks(sb, "pending", k)
    /\ \A k \in 0..a.postFlush-1 : <<i, k>> \in moved
    /\ \A k \in a.postFlush..a.posted-1 : netCompleted[SlotOf(k)] => <<i, k>> \in moved
    /\ \A k \in 0..a.waitCopy-1 : LandedAs(<<i, k>>) = {}
    /\ \A k \in a.waitCopy..a.postFlush-1 :
         requests["recv"][SlotOf(k)] = "0x1" => LandedAs(<<i, k>>) = {}

\* What was moved was posted by both sides, and an operation that is over was
\* moved.
MovedInv ==
  /\ \A c \in moved : \A s \in Side : Posted(s, c)
  /\ \A s \in Side : \A c \in Chunk : c[1] < cur[s] => c \in moved

\* What waits for a flush was moved by the receive under way and has the right content.
LandedInv ==
  \A l \in landed : /\ flushRequired /\ l.chunk \in moved /\ l.value = l.chunk
                    /\ l.chunk[1] = cur["recv"]

\* The chunks that are in the user's buffer.
Arrived(i, k) ==
  \/ i < cur["recv"]
  \/ i = cur["recv"] /\ IF regBufFlag["recv"] THEN Visible(i, k) ELSE k < executed["recv"]

\* The user's buffer holds what has arrived and nothing else, and a staging slot
\* a visible chunk until it is copied.
DataInv ==
  /\ \A i \in Op : \A k \in 0..StepsOf[i]-1 :
       data[i][k] = IF Arrived(i, k) THEN <<i, k>> ELSE Empty
  /\ cur["recv"] \in Op /\ ~regBufFlag["recv"] =>
       \A k \in executed["recv"]..args["recv"].posted-1 :
         Visible(cur["recv"], k) => staging["recv"][SlotOf(k)] = <<cur["recv"], k>>

PipelineInv == PipelineType /\ SendInv /\ RecvInv /\ MovedInv /\ LandedInv /\ DataInv

-----------------------------------------------------------------------------
\* Numbers less than a turn apart have different remainders.
LEMMA RemaindersDiffer ==
  ASSUME NEW c \in Nat \ {0}, NEW j \in Nat, NEW k \in Nat, j < k, k - j < c
  PROVE  j % c # k % c
<1>1. CASE k \div c = j \div c BY <1>1
<1>2. CASE k \div c > j \div c BY <1>2
<1>3. CASE k \div c < j \div c
  <2> DEFINE p == j \div c  q == k \div c
  <2>1. p \in Nat /\ q \in Nat /\ k = c * q + (k % c) /\ j = c * p + (j % c) OBVIOUS
  <2>2. k % c \in 0..c-1 /\ j % c \in 0..c-1 OBVIOUS
  <2> HIDE DEF p, q
  <2>3. c * q + c <= c * p BY <1>3, <2>1 DEF p, q
  <2> QED BY <2>1, <2>2, <2>3
<1>4. k \div c \in Nat /\ j \div c \in Nat OBVIOUS
<1> QED BY <1>1, <1>2, <1>3, <1>4

LEMMA SlotFacts ==
  /\ Chunks \in Nat \ {0}
  /\ \A k \in Nat : SlotOf(k) \in Slot
  /\ \A j, k \in Nat : j < k /\ k - j < Chunks => SlotOf(j) # SlotOf(k)
<1>1. Chunks \in Nat \ {0} BY NetPipelineAssumption
<1>2. \A k \in Nat : SlotOf(k) \in Slot BY <1>1 DEF SlotOf, Slot
<1>3. \A j, k \in Nat : j < k /\ k - j < Chunks => SlotOf(j) # SlotOf(k)
  BY <1>1, RemaindersDiffer DEF SlotOf
<1> QED BY <1>1, <1>2, <1>3

LEMMA OpFacts ==
  /\ Op = 1..N /\ N \in Nat
  /\ \A i \in Op : StepsOf[i] \in Nat \ {0} /\ BaseOf[i] \in Nat
  /\ \A i \in Op : i \in Nat
  /\ \A i \in Op : \A k \in 0..StepsOf[i]-1 : <<i, k>> \in Chunk
  /\ \A c \in Chunk : c = <<c[1], c[2]>> /\ c[1] \in Op /\ c[2] \in 0..StepsOf[c[1]]-1
<1>1. Op = 1..N /\ N \in Nat BY NetPipelineAssumption DEF Op, N
<1>2. \A i \in Op : StepsOf[i] \in Nat \ {0} /\ BaseOf[i] \in Nat BY NetPipelineAssumption DEF Op
<1>3. \A i \in Op : \A k \in 0..StepsOf[i]-1 : <<i, k>> \in Chunk BY DEF Chunk
<1>4. ASSUME NEW c \in Chunk
      PROVE  c = <<c[1], c[2]>> /\ c[1] \in Op /\ c[2] \in 0..StepsOf[c[1]]-1
  <2>1. PICK i \in Op : c \in {i} \X (0..StepsOf[i]-1) BY DEF Chunk
  <2> QED BY <2>1
<1> QED BY <1>1, <1>2, <1>3, <1>4

-----------------------------------------------------------------------------
(* The window of an operation *)

LEMMA WindowNew ==
  ASSUME NEW s \in Side, NEW i \in Op
  PROVE  Window(NewTransport(s, i), Base(s, i), 0, 0)
<1> DEFINE b == Base(s, i)
           t == NewTransport(s, i)
           sb == NewScoreboard(Chunks, b)
<1>1. b \in Nat BY OpFacts DEF Base
<1>2. t = [nextSubmit |-> b, contexts |-> [e \in Slot |-> 0], scoreboard |-> sb]
  BY DEF NewTransport
<1> HIDE DEF t, b
<1>3. IsScoreboard(sb, Chunks) /\ sb.nextSequence = b
  BY <1>1, SlotFacts DEF NewScoreboard, IsScoreboard, Entry
<1>4. ASSUME NEW n \in Nat, NEW st \in {"pending", "complete"} PROVE ~Tracks(sb, st, n)
  <2>1. EntryOf(sb, n) = sb.entries[n % Chunks] /\ n % Chunks \in 0..Chunks-1 BY <1>3, CapacityIs
  <2>2. EntryOf(sb, n).state = "free" BY <2>1 DEF NewScoreboard
  <2> QED BY <2>2 DEF Tracks
<1> HIDE DEF sb
<1>5. t.contexts \in [Slot -> Nat] BY <1>2
<1>6. t.scoreboard = sb /\ t.nextSubmit = b + 0 BY <1>1, <1>2
<1> QED BY <1>1, <1>2, <1>3, <1>4, <1>5, <1>6 DEF Window, t, b

\* flagcxCollProxyTrackNext adds the next chunk.
LEMMA WindowGrows ==
  ASSUME NEW t, NEW b, NEW lo, NEW hi, Window(t, b, lo, hi),
         TrackSubmitResult(t.scoreboard, t.nextSubmit) = "success"
  PROVE  /\ Window(TrackNext(t), b, lo, hi + 1) /\ hi - lo < Chunks
         /\ \A n \in Nat :
              /\ Tracks(TrackNext(t).scoreboard, "pending", n) <=>
                   Tracks(t.scoreboard, "pending", n) \/ n = b + hi
              /\ Tracks(TrackNext(t).scoreboard, "complete", n) <=>
                   Tracks(t.scoreboard, "complete", n)
<1> DEFINE u == TrackNext(t)
           sb == t.scoreboard
           q == b + hi
<1>1. /\ lo \in Nat /\ hi \in Nat /\ b \in Nat /\ lo <= hi /\ q \in Nat
      /\ t.nextSubmit = q /\ t.contexts \in [Slot -> Nat]
      /\ IsScoreboard(sb, Chunks) /\ sb.nextSequence = b + lo
  BY DEF Window
<1>2. LET sb2 == TrackSubmit(sb, q) IN
      /\ IsScoreboard(sb2, Chunks) /\ sb2.nextSequence = sb.nextSequence
      /\ \A n \in Nat : Tracks(sb2, "pending", n) <=> Tracks(sb, "pending", n) \/ n = q
      /\ \A n \in Nat : Tracks(sb2, "complete", n) <=> Tracks(sb, "complete", n)
  BY <1>1, SubmitTracks
<1>3. hi - lo < Chunks
  <2>1. InWindow(sb, q) BY <1>1 DEF TrackSubmitResult
  <2>2. Capacity(sb) = Chunks BY <1>1, CapacityIs
  <2> QED BY <1>1, <2>1, <2>2, SlotFacts DEF InWindow
<1>4. u = [nextSubmit |-> q + 1, contexts |-> [t.contexts EXCEPT ![SlotOf(q)] = q],
           scoreboard |-> TrackSubmit(sb, q)]
  BY <1>1 DEF TrackNext
<1>5. /\ u.contexts \in [Slot -> Nat] /\ u.contexts[SlotOf(q)] = q
      /\ \A x \in Slot : x # SlotOf(q) => u.contexts[x] = t.contexts[x]
  BY <1>1, <1>4, SlotFacts
<1> DEFINE sb2 == TrackSubmit(sb, q)
<1> HIDE DEF u, sb2
<1>6. u.scoreboard = sb2 BY <1>4 DEF sb2
<1>7. ASSUME NEW k \in lo..hi
      PROVE  /\ u.contexts[SlotOf(b + k)] = b + k
             /\ Tracks(sb2, "pending", b + k) \/ Tracks(sb2, "complete", b + k)
  <2>1. k \in Nat /\ b + k \in Nat BY <1>1
  <2>2. CASE k = hi BY <1>1, <1>2, <1>5, <2>2 DEF sb2
  <2>3. CASE k # hi
    <3>1. k \in lo..hi-1 /\ b + k < q /\ q - (b + k) < Chunks BY <1>1, <1>3, <2>3, SlotFacts
    <3>2. SlotOf(b + k) # SlotOf(q) /\ SlotOf(b + k) \in Slot BY <1>1, <2>1, <3>1, SlotFacts
    <3>3. /\ t.contexts[SlotOf(b + k)] = b + k
          /\ Tracks(sb, "pending", b + k) \/ Tracks(sb, "complete", b + k)
      BY <3>1 DEF Window
    <3> QED BY <1>2, <1>5, <2>1, <3>2, <3>3 DEF sb2
  <2> QED BY <2>2, <2>3
<1>8. ASSUME NEW n \in Nat, Tracks(sb2, "pending", n) \/ Tracks(sb2, "complete", n)
      PROVE  n < b + (hi + 1)
  <2>1. Tracks(sb, "pending", n) \/ Tracks(sb, "complete", n) \/ n = q BY <1>2, <1>8 DEF sb2
  <2>2. Tracks(sb, "pending", n) \/ Tracks(sb, "complete", n) => n < q BY DEF Window
  <2> QED BY <1>1, <2>1, <2>2
<1>9. Window(u, b, lo, hi + 1)
  <2>1. q + 1 = b + (hi + 1) /\ (hi + 1) - 1 = hi /\ hi + 1 \in Nat /\ lo <= hi + 1 BY <1>1
  <2>2. /\ IsScoreboard(sb2, Chunks) /\ sb2.nextSequence = b + lo BY <1>1, <1>2 DEF sb2
  <2>3. u = [nextSubmit |-> b + (hi + 1), contexts |-> u.contexts, scoreboard |-> u.scoreboard]
    BY <1>4, <2>1
  <2> QED BY <1>1, <1>5, <1>6, <1>7, <1>8, <2>1, <2>2, <2>3 DEF Window
<1> QED BY <1>2, <1>3, <1>6, <1>9 DEF u, sb2

\* flagcxCollProxyCancel takes it out again.
LEMMA WindowCancels ==
  ASSUME NEW t, NEW b, NEW lo, NEW hi, Window(t, b, lo, hi),
         TrackSubmitResult(t.scoreboard, t.nextSubmit) = "success"
  PROVE  LET u == Cancel(TrackNext(t)) IN
         /\ Window(u, b, lo, hi)
         /\ \A n \in Nat, st \in {"pending", "complete"} :
              Tracks(u.scoreboard, st, n) <=> Tracks(t.scoreboard, st, n)
<1> DEFINE v == TrackNext(t)
           u == Cancel(v)
           q == b + hi
           sb == t.scoreboard
           e == [sb.entries EXCEPT ![q % Chunks] = [state |-> "free", sequence |-> 0]]
           sb2 == [sb EXCEPT !.entries = e]
<1>1. /\ lo \in Nat /\ hi \in Nat /\ b \in Nat /\ lo <= hi /\ q \in Nat
      /\ t.nextSubmit = q /\ IsScoreboard(sb, Chunks) /\ sb.nextSequence = b + lo
      /\ Chunks \in Nat \ {0} /\ q % Chunks \in 0..Chunks-1
      /\ \A n \in Nat : n % Chunks \in 0..Chunks-1
  <2>1. /\ lo \in Nat /\ hi \in Nat /\ b \in Nat /\ lo <= hi /\ q \in Nat
        /\ t.nextSubmit = q /\ IsScoreboard(sb, Chunks) /\ sb.nextSequence = b + lo
    BY DEF Window
  <2> HIDE DEF q, sb
  <2> QED BY <2>1, SlotFacts, CapacityIs
<1>2. Window(v, b, lo, hi + 1) /\ hi - lo < Chunks BY WindowGrows
<1>3. /\ v.nextSubmit = q + 1 /\ v.contexts \in [Slot -> Nat]
      /\ IsScoreboard(v.scoreboard, Chunks) /\ v.scoreboard = TrackSubmit(sb, q)
      /\ v = [nextSubmit |-> q + 1, contexts |-> v.contexts, scoreboard |-> TrackSubmit(sb, q)]
      /\ \A k \in lo..hi-1 : v.contexts[SlotOf(b + k)] = b + k
  <2>1. b + (hi + 1) = q + 1 /\ (hi + 1) - 1 = hi BY <1>1
  <2>2. \A k \in lo..hi-1 : k \in lo..hi BY <1>1
  <2> QED BY <1>1, <1>2, <2>1, <2>2 DEF Window, TrackNext
<1> HIDE DEF v
<1>4. Capacity(sb) = Chunks /\ Capacity(TrackSubmit(sb, q)) = Chunks BY <1>1, <1>3, CapacityIs
<1>5. /\ sb \in [nextSequence : Nat, entries : [0..Chunks-1 -> Entry], firstError : BOOLEAN]
      /\ e \in [0..Chunks-1 -> Entry]
  BY <1>1 DEF IsScoreboard, Entry
<1>6. TrackCancel(TrackSubmit(sb, q), q) = sb2
  <2>1. TrackSubmit(sb, q) = [sb EXCEPT !.entries =
          [sb.entries EXCEPT ![q % Chunks] = [state |-> "pending", sequence |-> q]]]
    BY <1>4 DEF TrackSubmit
  <2>2. TrackCancel(TrackSubmit(sb, q), q) = [TrackSubmit(sb, q) EXCEPT !.entries =
          [TrackSubmit(sb, q).entries EXCEPT ![q % Chunks] = [state |-> "free", sequence |-> 0]]]
    BY <1>4 DEF TrackCancel
  <2> QED BY <1>1, <1>5, <2>1, <2>2, ZenonT(60)
<1>7. u = [nextSubmit |-> q, contexts |-> v.contexts, scoreboard |-> sb2]
  <2>1. v.nextSubmit - 1 = q BY <1>1, <1>3
  <2>2. u = [v EXCEPT !.nextSubmit = q, !.scoreboard = sb2] BY <1>3, <1>6, <2>1 DEF Cancel
  <2> HIDE DEF u, sb2
  <2> QED BY <1>3, <2>2
<1>8. IsScoreboard(sb2, Chunks) /\ sb2.nextSequence = b + lo BY <1>1, <1>5 DEF IsScoreboard
<1>9. ASSUME NEW n \in Nat, NEW st \in {"pending", "complete"}
      PROVE  Tracks(sb2, st, n) <=> Tracks(sb, st, n)
  <2>1. EntryOf(sb2, n) = e[n % Chunks] /\ EntryOf(sb, n) = sb.entries[n % Chunks]
    BY <1>1, <1>5, <1>8, CapacityIs
  <2>2. EntryOf(sb, q).state = "free" /\ EntryOf(sb, q) = sb.entries[q % Chunks]
    BY <1>1, CapacityIs DEF TrackSubmitResult
  <2>3. CASE n % Chunks = q % Chunks
    <3>1. EntryOf(sb, n).state = "free" BY <2>1, <2>2, <2>3
    <3>2. EntryOf(sb2, n).state = "free" BY <1>1, <1>5, <2>1, <2>3, SMTT(60)
    <3> QED BY <3>1, <3>2 DEF Tracks
  <2>4. CASE n % Chunks # q % Chunks BY <1>1, <1>5, <2>1, <2>4 DEF Tracks
  <2> QED BY <2>3, <2>4
<1> HIDE DEF sb2
<1>10. Window(u, b, lo, hi)
  <2>1. u.scoreboard = sb2 /\ u.contexts = v.contexts BY <1>7
  <2>2. ASSUME NEW k \in lo..hi-1
        PROVE  Tracks(sb2, "pending", b + k) \/ Tracks(sb2, "complete", b + k)
    <3>1. Tracks(sb, "pending", b + k) \/ Tracks(sb, "complete", b + k)
      BY <1>1 DEF Window
    <3>2. b + k \in Nat BY <1>1
    <3> QED BY <1>9, <3>1, <3>2
  <2>3. ASSUME NEW n \in Nat, Tracks(sb2, "pending", n) \/ Tracks(sb2, "complete", n)
        PROVE  n < b + hi
    BY <1>9, <2>3 DEF Window
  <2> QED BY <1>1, <1>3, <1>7, <1>8, <2>1, <2>2, <2>3 DEF Window
<1>11. u.scoreboard = sb2 BY <1>7
<1> HIDE DEF u
<1> QED BY <1>9, <1>10, <1>11 DEF u, v

\* flagcxCollProxyComplete: the window begins with the first chunk that is not
\* complete.
Completed(t, b, D) ==
  [t EXCEPT !.scoreboard = TrackCompletion(@, {t.contexts[SlotOf(b + k)] : k \in D}, FALSE)]

RetiresTo(t, u, b, lo, m, hi, D) ==
  /\ Window(u, b, m, hi) /\ u.scoreboard.nextSequence - t.scoreboard.nextSequence = m - lo
  /\ \A k \in lo..m-1 : Tracks(t.scoreboard, "complete", b + k) \/ k \in D
  /\ \A k \in m..hi-1 :
       /\ Tracks(u.scoreboard, "pending", b + k) <=>
            Tracks(t.scoreboard, "pending", b + k) /\ k \notin D
       /\ Tracks(u.scoreboard, "complete", b + k) <=>
            \/ Tracks(t.scoreboard, "complete", b + k)
            \/ Tracks(t.scoreboard, "pending", b + k) /\ k \in D
  /\ ~Tracks(u.scoreboard, "complete", b + m)

LEMMA WindowRetires ==
  ASSUME NEW t, NEW b, NEW lo, NEW hi, Window(t, b, lo, hi), NEW D \in SUBSET (lo..hi-1)
  PROVE  \E m \in lo..hi : RetiresTo(t, Completed(t, b, D), b, lo, m, hi, D)
<1> DEFINE Q == {t.contexts[SlotOf(b + k)] : k \in D}
           sb == t.scoreboard
           sb2 == TrackCompletion(sb, Q, FALSE)
           u == Completed(t, b, D)
           m == sb2.nextSequence - b
<1>1. /\ lo \in Nat /\ hi \in Nat /\ b \in Nat /\ lo <= hi
      /\ t = [nextSubmit |-> b + hi, contexts |-> t.contexts, scoreboard |-> sb]
      /\ t.contexts \in [Slot -> Nat] /\ IsScoreboard(sb, Chunks) /\ sb.nextSequence = b + lo
  BY DEF Window
<1>2. \A k \in lo..hi-1 : b + k \in Q <=> k \in D
  <2>1. \A k \in D : t.contexts[SlotOf(b + k)] = b + k BY DEF Window
  <2>2. Q = {b + k : k \in D} BY <2>1
  <2> QED BY <1>1, <2>2
<1>3. u = [nextSubmit |-> b + hi, contexts |-> t.contexts, scoreboard |-> sb2]
  <2>1. u = [t EXCEPT !.scoreboard = sb2] BY DEF Completed
  <2> HIDE DEF sb2, u
  <2> QED BY <1>1, <2>1
<1> HIDE DEF Q, u
<1>4. /\ IsScoreboard(sb2, Chunks) /\ sb.nextSequence <= sb2.nextSequence
      /\ ~Tracks(sb2, "complete", sb2.nextSequence)
      /\ \A n \in sb.nextSequence..sb2.nextSequence-1 :
           Tracks(sb, "complete", n) \/ (Tracks(sb, "pending", n) /\ n \in Q)
      /\ \A n \in Nat : n >= sb2.nextSequence =>
           /\ Tracks(sb2, "pending", n) <=> Tracks(sb, "pending", n) /\ n \notin Q
           /\ Tracks(sb2, "complete", n) <=>
                Tracks(sb, "complete", n) \/ (Tracks(sb, "pending", n) /\ n \in Q)
  <2>1. \A f \in BOOLEAN : LET z == TrackCompletion(sb, Q, f) IN
          /\ IsScoreboard(z, Chunks) /\ sb.nextSequence <= z.nextSequence
          /\ ~Tracks(z, "complete", z.nextSequence)
          /\ \A n \in sb.nextSequence..z.nextSequence-1 :
               Tracks(sb, "complete", n) \/ (Tracks(sb, "pending", n) /\ n \in Q)
          /\ \A n \in Nat : n >= z.nextSequence =>
               /\ Tracks(z, "pending", n) <=> Tracks(sb, "pending", n) /\ n \notin Q
               /\ Tracks(z, "complete", n) <=>
                    Tracks(sb, "complete", n) \/ (Tracks(sb, "pending", n) /\ n \in Q)
    BY <1>1, CompletionRetires
  <2>2. FALSE \in BOOLEAN OBVIOUS
  <2> QED BY <2>1, <2>2, Zenon DEF sb2
<1>5. sb2.nextSequence \in Nat BY <1>4, CapacityIs
<1> HIDE DEF sb2
<1>6. m \in lo..hi
  <2>1. m \in Int /\ lo <= m BY <1>1, <1>4, <1>5
  <2>2. ASSUME m > hi PROVE FALSE
    <3>1. b + hi \in sb.nextSequence..sb2.nextSequence-1 BY <1>1, <1>5, <2>2
    <3>2. Tracks(sb, "complete", b + hi) \/ Tracks(sb, "pending", b + hi) BY <1>4, <3>1
    <3>3. b + hi \in Nat BY <1>1
    <3>4. b + hi < b + hi BY <3>2, <3>3 DEF Window
    <3> QED BY <1>1, <3>4
  <2> QED BY <1>1, <2>1, <2>2
<1>7. sb2.nextSequence = b + m BY <1>1, <1>5
<1> HIDE DEF m
<1>8. \A k \in lo..m-1 : Tracks(sb, "complete", b + k) \/ k \in D
  <2>1. ASSUME NEW k \in lo..m-1 PROVE Tracks(sb, "complete", b + k) \/ k \in D
    <3>1. b + k \in sb.nextSequence..sb2.nextSequence-1 /\ k \in lo..hi-1
      BY <1>1, <1>6, <1>7
    <3> QED BY <1>2, <1>4, <3>1
  <2> QED BY <2>1
<1>9. ASSUME NEW k \in m..hi-1
      PROVE  /\ Tracks(sb2, "pending", b + k) <=> Tracks(sb, "pending", b + k) /\ k \notin D
             /\ Tracks(sb2, "complete", b + k) <=>
                  Tracks(sb, "complete", b + k) \/ (Tracks(sb, "pending", b + k) /\ k \in D)
  <2>1. b + k \in Nat /\ b + k >= sb2.nextSequence /\ k \in lo..hi-1 BY <1>1, <1>6, <1>7
  <2> QED BY <1>2, <1>4, <2>1
<1>10. Window(u, b, m, hi)
  <2>1. ASSUME NEW k \in m..hi-1
        PROVE  /\ t.contexts[SlotOf(b + k)] = b + k
               /\ Tracks(sb2, "pending", b + k) \/ Tracks(sb2, "complete", b + k)
    <3>1. k \in lo..hi-1 BY <1>1, <1>6
    <3>2. /\ t.contexts[SlotOf(b + k)] = b + k
          /\ Tracks(sb, "pending", b + k) \/ Tracks(sb, "complete", b + k)
      BY <3>1 DEF Window
    <3> QED BY <1>9, <3>2
  <2>2. ASSUME NEW n \in Nat, Tracks(sb2, "pending", n) \/ Tracks(sb2, "complete", n)
        PROVE  n < b + hi
    <3>1. CASE n >= sb2.nextSequence BY <1>4, <2>2, <3>1 DEF Window
    <3>2. CASE ~(n >= sb2.nextSequence) BY <1>1, <1>5, <1>6, <1>7, <3>2
    <3> QED BY <3>1, <3>2
  <2> QED BY <1>1, <1>3, <1>4, <1>6, <1>7, <2>1, <2>2 DEF Window
<1>11. u.scoreboard = sb2 /\ u.scoreboard.nextSequence - sb.nextSequence = m - lo
  BY <1>1, <1>3, <1>6, <1>7
<1> QED BY <1>4, <1>6, <1>7, <1>8, <1>9, <1>10, <1>11 DEF RetiresTo, u

-----------------------------------------------------------------------------
(* What a step must leave alone to keep each part of the invariant *)

LEMMA Sides == "send" \in Side /\ "recv" \in Side /\ \A s \in Side : s = "send" \/ s = "recv"
  BY DEF Side

LEMMA ArgsWaitCopy ==
  ASSUME NEW a \in Args, NEW n \in Nat, NEW u, u = [a EXCEPT !.waitCopy = n]
  PROVE  /\ u \in Args /\ u.waitCopy = n
         /\ u.posted = a.posted /\ u.postFlush = a.postFlush /\ u.retired = a.retired
BY DEF Args

LEMMA ArgsPosted ==
  ASSUME NEW a \in Args, NEW n \in Nat, NEW u, u = [a EXCEPT !.posted = n]
  PROVE  /\ u \in Args /\ u.posted = n
         /\ u.waitCopy = a.waitCopy /\ u.postFlush = a.postFlush /\ u.retired = a.retired
BY DEF Args

LEMMA ArgsPostFlush ==
  ASSUME NEW a \in Args, NEW n \in Nat, NEW u, u = [a EXCEPT !.postFlush = n]
  PROVE  /\ u \in Args /\ u.postFlush = n
         /\ u.waitCopy = a.waitCopy /\ u.posted = a.posted /\ u.retired = a.retired
BY DEF Args

LEMMA ArgsRetired ==
  ASSUME NEW a \in Args, NEW n \in Nat, NEW u, u = [a EXCEPT !.retired = n]
  PROVE  /\ u \in Args /\ u.retired = n
         /\ u.waitCopy = a.waitCopy /\ u.posted = a.posted /\ u.postFlush = a.postFlush
BY DEF Args

LEMMA SendFrame ==
  ASSUME SendInv, moved \subseteq moved', UNCHANGED regBufFlag,
         cur'["send"] = cur["send"], args'["send"] = args["send"],
         transport'["send"] = transport["send"], executed'["send"] = executed["send"],
         staging'["send"] = staging["send"]
  PROVE  SendInv'
BY DEF SendInv

LEMMA RecvFrame ==
  ASSUME PipelineType, RecvInv, moved \subseteq moved', UNCHANGED <<regBufFlag, netCompleted>>,
         \A l \in landed' : l \in landed \/ l.chunk \notin moved,
         cur'["recv"] = cur["recv"], args'["recv"] = args["recv"],
         transport'["recv"] = transport["recv"], executed'["recv"] = executed["recv"],
         requests'["recv"] = requests["recv"]
  PROVE  RecvInv'
<1> DEFINE i == cur["recv"]
           a == args["recv"]
<1>1. SUFFICES ASSUME i \in Op PROVE RecvInv' BY DEF RecvInv
<1>2. a.waitCopy \in Nat /\ a.postFlush \in Nat /\ a.waitCopy <= a.postFlush
  BY <1>1, Sides DEF RecvInv, PipelineType, Args
<1>3. \A k \in 0..a.postFlush-1 : LandedAs(<<i, k>>) = {} => LandedAs(<<i, k>>)' = {}
  <2>1. \A k \in 0..a.postFlush-1 : <<i, k>> \in moved BY <1>1 DEF RecvInv
  <2>2. ASSUME NEW c \in moved, LandedAs(c) = {} PROVE LandedAs(c)' = {} BY <2>2 DEF LandedAs
  <2>3. \A c \in moved : LandedAs(c) = {} => {l \in landed' : l.chunk = c} = {} BY <2>2 DEF LandedAs
  <2> QED BY <2>1, <2>3 DEF LandedAs
<1>4. \A k \in 0..a.waitCopy-1 : k \in 0..a.postFlush-1 BY <1>2
<1>5. \A k \in a.waitCopy..a.postFlush-1 : k \in 0..a.postFlush-1 BY <1>2
<1> QED BY <1>1, <1>3, <1>4, <1>5 DEF RecvInv

LEMMA MovedFrame ==
  ASSUME PipelineType, MovedInv, UNCHANGED <<cur, moved>>,
         \A s \in Side : args[s].posted <= args'[s].posted /\ args'[s].posted \in Nat
  PROVE  MovedInv'
<1>1. ASSUME NEW c \in moved, NEW s \in Side PROVE Posted(s, c)'
  <2>1. Posted(s, c) /\ args[s].posted \in Nat /\ c[2] \in Nat BY OpFacts DEF MovedInv, PipelineType, Args
  <2> QED BY <2>1 DEF Posted
<1> QED BY <1>1 DEF MovedInv

LEMMA LandedFrame ==
  ASSUME LandedInv, landed' \subseteq landed, moved \subseteq moved',
         cur'["recv"] = cur["recv"], UNCHANGED flushRequired
  PROVE  LandedInv'
BY DEF LandedInv

LEMMA DataFrame ==
  ASSUME DataInv, UNCHANGED <<data, moved, landed, regBufFlag>>,
         staging'["recv"] = staging["recv"], executed'["recv"] = executed["recv"],
         cur'["recv"] = cur["recv"], args'["recv"].posted = args["recv"].posted
  PROVE  DataInv'
<1>1. \A i, k : Visible(i, k)' <=> Visible(i, k) BY DEF Visible, LandedAs
<1>2. \A i, k : Arrived(i, k)' <=> Arrived(i, k) BY <1>1 DEF Arrived
<1> QED BY <1>1, <1>2 DEF DataInv

LEMMA PipelineInvInit == PipelineInit => PipelineInv
<1> SUFFICES ASSUME PipelineInit PROVE PipelineInv OBVIOUS
<1> USE Sides, OpFacts, SlotFacts
<1>1. PipelineType
  BY DEF PipelineInit, PipelineType, NewArgs, Empty, Args, Requests, IsData
<1>2. SendInv
  <2>1. SUFFICES ASSUME 1 \in Op PROVE SendInv BY DEF SendInv, PipelineInit
  <2>2. Window(NewTransport("send", 1), BaseOf[1], 0, 0) BY <2>1, WindowNew DEF Base
  <2> QED BY <2>1, <2>2 DEF PipelineInit, SendInv, NewArgs
<1>3. RecvInv
  <2>1. SUFFICES ASSUME 1 \in Op PROVE RecvInv BY DEF RecvInv, PipelineInit
  <2>2. Window(NewTransport("recv", 1), 0, 0, 0) BY <2>1, WindowNew DEF Base
  <2> QED BY <2>1, <2>2 DEF PipelineInit, RecvInv, NewArgs
<1>4. MovedInv BY DEF PipelineInit, MovedInv
<1>5. LandedInv BY DEF PipelineInit, LandedInv
<1>6. DataInv
  <2>1. \A i \in Op : \A k \in 0..StepsOf[i]-1 : ~Arrived(i, k)
    BY DEF PipelineInit, Arrived, Visible
  <2> QED BY <2>1 DEF PipelineInit, DataInv, Visible
<1> QED BY <1>1, <1>2, <1>3, <1>4, <1>5, <1>6 DEF PipelineInv

-----------------------------------------------------------------------------
(* The sender's steps *)

LEMMA SendCopyInv == ASSUME PipelineInv, SendCopy PROVE PipelineInv'
<1> USE Sides, OpFacts, SlotFacts DEF PipelineInv, devVars, netVars, setVars
<1> DEFINE i == cur["send"]
           a == args["send"]
<1>1. /\ UNCHANGED <<setVars, cur, transport, requests, netCompleted, devVars, netVars>>
      /\ i \in Op
      /\ \/ args' = args
         \/ /\ args' = [args EXCEPT !["send"].waitCopy = @ + 1]
            /\ a.waitCopy < StepsOf[i] /\ a.waitCopy - a.retired < Chunks
  BY DEF SendCopy, At, HasRoom, Steps
<1>2. /\ a.waitCopy \in Nat /\ a.posted \in Nat /\ a.retired \in Nat /\ executed["send"] \in Nat
      /\ a \in Args
  BY DEF PipelineType, Args
<1>3. /\ args'["send"] = a \/ (/\ args'["send"] = [a EXCEPT !.waitCopy = @ + 1]
                               /\ a.waitCopy < StepsOf[i] /\ a.waitCopy - a.retired < Chunks)
      /\ args'["recv"] = args["recv"] /\ DOMAIN args' = Side
  BY <1>1 DEF PipelineType, Side
<1>4. /\ args'["send"].posted = a.posted /\ args'["send"].retired = a.retired
      /\ args'["send"].waitCopy \in Nat /\ a.waitCopy <= args'["send"].waitCopy
      /\ a.waitCopy <= StepsOf[i] /\ a.waitCopy <= a.retired + Chunks =>
           /\ args'["send"].waitCopy <= StepsOf[i]
           /\ args'["send"].waitCopy <= a.retired + Chunks
      /\ args'["send"] \in Args
  <2>1. StepsOf[i] \in Nat BY <1>1
  <2>2. CASE args'["send"] = a BY <1>2, <2>1, <2>2
  <2>3. CASE /\ args'["send"] = [a EXCEPT !.waitCopy = @ + 1]
             /\ a.waitCopy < StepsOf[i] /\ a.waitCopy - a.retired < Chunks
    <3>1. a.waitCopy + 1 \in Nat BY <1>2
    <3> DEFINE u == [a EXCEPT !.waitCopy = a.waitCopy + 1]
    <3>2. /\ u \in Args /\ u.waitCopy = a.waitCopy + 1
          /\ u.posted = a.posted /\ u.retired = a.retired
      BY <1>2, <3>1 DEF Args
    <3>3. args'["send"] = u BY <2>3
    <3> HIDE DEF u
    <3> QED BY <1>2, <2>1, <2>3, <3>2, <3>3, SMTT(60)
  <2> QED BY <1>3, <2>2, <2>3
<1>5. PipelineType' BY <1>1, <1>3, <1>4 DEF PipelineType
<1>6. SendInv'
  <2>1. StepsOf[i] \in Nat /\ cur' = cur /\ transport' = transport /\ executed' = executed
    BY <1>1
  <2>2. args'["send"].waitCopy <= StepsOf[i] /\ args'["send"].waitCopy <= a.retired + Chunks
    BY <1>1, <1>4 DEF SendInv
  <2>3. a.posted <= args'["send"].waitCopy /\ executed["send"] <= args'["send"].waitCopy
    BY <1>1, <1>2, <1>4 DEF SendInv
  <2> QED BY <1>1, <1>4, <2>2, <2>3 DEF SendInv
<1>7. RecvInv' BY <1>1, <1>3, RecvFrame
<1>8. MovedInv'
  <2>1. \A s \in Side : args'[s].posted = args[s].posted /\ args[s].posted \in Nat
    BY <1>3, <1>4 DEF PipelineType, Args
  <2> QED BY <1>1, <2>1, MovedFrame
<1>9. LandedInv' BY <1>1, LandedFrame
<1>10. DataInv' BY <1>1, <1>3, DataFrame
<1> QED BY <1>5, <1>6, <1>7, <1>8, <1>9, <1>10

\* A step in which a thread only moves to another stage, or fails.
LEMMA QuietInv ==
  ASSUME PipelineInv,
         UNCHANGED <<setVars, cur, args, transport, requests, netCompleted, devVars, netVars>>
  PROVE  PipelineInv'
<1> USE DEF PipelineInv, devVars, netVars, setVars
<1>1. PipelineType' BY DEF PipelineType
<1>2. SendInv' BY SendFrame
<1>3. RecvInv' BY RecvFrame
<1>4. MovedInv' BY DEF MovedInv, Posted
<1>5. LandedInv' BY LandedFrame
<1>6. DataInv' BY DataFrame
<1> QED BY <1>1, <1>2, <1>3, <1>4, <1>5, <1>6

\* A step that changes nothing but the sender's window, its requests and how
\* many chunks it has posted and retired.
LEMMA SendWindowInv ==
  ASSUME PipelineInv,
         UNCHANGED <<setVars, cur, netCompleted, devVars, netVars>>,
         args' \in [Side -> Args], args'["recv"] = args["recv"],
         DOMAIN transport' = Side, transport'["recv"] = transport["recv"],
         requests' \in [Side -> Requests], requests'["recv"] = requests["recv"],
         args["send"].posted <= args'["send"].posted, SendInv'
  PROVE  PipelineInv'
<1> USE Sides DEF PipelineInv, devVars, netVars, setVars
<1>1. PipelineType' BY DEF PipelineType
<1>3. RecvInv' BY RecvFrame
<1>4. MovedInv'
  <2>1. \A s \in Side : args[s].posted <= args'[s].posted /\ args'[s].posted \in Nat
    <3>1. args["recv"].posted \in Nat /\ args'["send"].posted \in Nat BY DEF PipelineType, Args
    <3>2. args["recv"].posted <= args'["recv"].posted BY <3>1
    <3> QED BY <3>1, <3>2
  <2> QED BY <2>1, MovedFrame
<1>5. LandedInv' BY LandedFrame
<1>6. DataInv' BY DataFrame
<1> QED BY <1>1, <1>3, <1>4, <1>5, <1>6

LEMMA IsendInv == ASSUME PipelineInv, NEW answer \in Answer, Isend(answer) PROVE PipelineInv'
<1> USE Sides, OpFacts, SlotFacts DEF PipelineInv
<1> DEFINE i == cur["send"]
           a == args["send"]
           k == a.posted
           t == transport["send"]
           b == BaseOf[i]
<1>1. /\ UNCHANGED <<setVars, cur, netCompleted, devVars, netVars>>
      /\ i \in Op /\ k < a.waitCopy /\ (regBufFlag["send"] \/ EventDone("send", k))
      /\ \/ UNCHANGED <<transport, requests, args>>
         \/ /\ TrackSubmitResult(t.scoreboard, t.nextSubmit) = "success"
            /\ transport' = [transport EXCEPT !["send"] = TrackNext(t)]
            /\ requests' = [requests EXCEPT !["send"][SlotOf(k)] = "net"]
            /\ args' = [args EXCEPT !["send"].posted = @ + 1]
         \/ /\ TrackSubmitResult(t.scoreboard, t.nextSubmit) = "success"
            /\ transport' = [transport EXCEPT !["send"] = Cancel(TrackNext(t))]
            /\ UNCHANGED <<requests, args>>
  BY DEF Isend, At, SendReady, TrackNextResult, Answer
<1>2. /\ a \in Args /\ k \in Nat /\ a.waitCopy \in Nat /\ a.retired \in Nat
      /\ executed["send"] \in Nat /\ b \in Nat /\ Window(t, b, a.retired, k)
      /\ args \in [Side -> Args] /\ DOMAIN transport = Side
      /\ requests \in [Side -> Requests]
  BY <1>1 DEF PipelineType, Args, SendInv
<1>3. CASE UNCHANGED <<transport, requests, args>> BY <1>1, <1>3, QuietInv
<1>4. CASE /\ TrackSubmitResult(t.scoreboard, t.nextSubmit) = "success"
           /\ transport' = [transport EXCEPT !["send"] = Cancel(TrackNext(t))]
           /\ UNCHANGED <<requests, args>>
  <2>1. transport'["send"] = Cancel(TrackNext(t)) /\ transport'["recv"] = transport["recv"]
        /\ DOMAIN transport' = Side
    BY <1>2, <1>4
  <2>2. /\ Window(transport'["send"], b, a.retired, k)
        /\ \A n \in Nat : Tracks(transport'["send"].scoreboard, "complete", n) =>
                            Tracks(t.scoreboard, "complete", n)
    BY <1>2, <1>4, <2>1, WindowCancels
  <2>3. \A j \in a.retired..k-1 : b + j \in Nat BY <1>2
  <2>4. SendInv'
    BY <1>1, <1>4, <2>2, <2>3 DEF SendInv, setVars, devVars, netVars
  <2>5. args["send"].posted <= args'["send"].posted BY <1>2, <1>4
  <2> QED BY <1>1, <1>2, <1>4, <2>1, <2>4, <2>5, SendWindowInv
<1>5. CASE /\ TrackSubmitResult(t.scoreboard, t.nextSubmit) = "success"
           /\ transport' = [transport EXCEPT !["send"] = TrackNext(t)]
           /\ requests' = [requests EXCEPT !["send"][SlotOf(k)] = "net"]
           /\ args' = [args EXCEPT !["send"].posted = @ + 1]
  <2>1. transport'["send"] = TrackNext(t) /\ transport'["recv"] = transport["recv"]
        /\ DOMAIN transport' = Side
    BY <1>2, <1>5
  <2>2. /\ requests'["send"] = [requests["send"] EXCEPT ![SlotOf(k)] = "net"]
        /\ requests'["recv"] = requests["recv"] /\ DOMAIN requests' = Side
    BY <1>2, <1>5
  <2>3. requests' \in [Side -> Requests]
    <3>1. requests'["send"] \in Requests BY <1>2, <2>2 DEF Requests
    <3> QED BY <1>2, <1>5, <3>1
  <2>4. /\ args'["send"] = [a EXCEPT !.posted = @ + 1]
        /\ args'["recv"] = args["recv"] /\ DOMAIN args' = Side
    BY <1>2, <1>5
  <2>5. /\ args'["send"] \in Args /\ args'["send"].posted = k + 1
        /\ args'["send"].retired = a.retired /\ args'["send"].waitCopy = a.waitCopy
    <3>1. k + 1 \in Nat BY <1>2
    <3> DEFINE u == [a EXCEPT !.posted = a.posted + 1]
    <3>2. /\ u \in Args /\ u.posted = a.posted + 1
          /\ u.waitCopy = a.waitCopy /\ u.retired = a.retired
      BY <1>2, <3>1 DEF Args
    <3>3. args'["send"] = u BY <2>4
    <3> HIDE DEF u
    <3> QED BY <3>2, <3>3
  <2>51. args' \in [Side -> Args] BY <1>2, <1>5, <2>5
  <2>6. /\ Window(transport'["send"], b, a.retired, k + 1)
        /\ \A n \in Nat : Tracks(transport'["send"].scoreboard, "complete", n) =>
                            Tracks(t.scoreboard, "complete", n)
    BY <1>2, <1>5, <2>1, WindowGrows
  <2>7. regBufFlag["send"] \/ k + 1 <= executed["send"]
    <3>1. k \in 0..a.waitCopy-1 BY <1>1, <1>2
    <3>2. EventDone("send", k) => executed["send"] > k BY <3>1 DEF EventDone
    <3> QED BY <1>1, <1>2, <3>2
  <2>8. ASSUME NEW j \in a.retired..(k + 1)-1, Tracks(transport'["send"].scoreboard, "complete", b + j)
        PROVE  <<i, j>> \in moved
    <3>1. b + j \in Nat /\ j \in Nat BY <1>2
    <3>2. Tracks(t.scoreboard, "complete", b + j) BY <2>6, <2>8, <3>1
    <3>3. b + j < b + k BY <1>2, <3>1, <3>2 DEF Window
    <3>4. j \in a.retired..k-1 BY <1>2, <3>1, <3>3
    <3> QED BY <1>1, <3>2, <3>4 DEF SendInv
  <2>9. SendInv'
    <3>1. k + 1 <= a.waitCopy BY <1>1, <1>2
    <3> QED BY <1>1, <2>5, <2>6, <2>7, <2>8, <3>1 DEF SendInv, setVars, devVars, netVars
  <2>10. args["send"].posted <= args'["send"].posted BY <1>2, <2>5
  <2> QED BY <1>1, <2>1, <2>2, <2>3, <2>4, <2>51, <2>9, <2>10, SendWindowInv
<1> QED BY <1>1, <1>3, <1>4, <1>5

LEMMA SendPollInv == ASSUME PipelineInv, NEW D, SendPoll(D) PROVE PipelineInv'
<1> USE Sides, OpFacts, SlotFacts DEF PipelineInv
<1> DEFINE i == cur["send"]
           a == args["send"]
           t == transport["send"]
           b == BaseOf[i]
           u == Complete("send", D)
<1>1. /\ UNCHANGED <<setVars, cur, netCompleted, devVars, netVars>>
      /\ i \in Op /\ D \subseteq Testable("send", a.retired)
      /\ requests' = [requests EXCEPT !["send"] = [x \in Slot |->
                    IF \E k \in D : SlotOf(k) = x THEN "null" ELSE @[x]]]
      /\ transport' = [transport EXCEPT !["send"] = u]
      /\ args' = [args EXCEPT !["send"].retired = @ + RetiredBy("send", u)]
  BY DEF SendPoll, At
<1>2. /\ a \in Args /\ a.posted \in Nat /\ a.waitCopy \in Nat /\ a.retired \in Nat
      /\ executed["send"] \in Nat /\ b \in Nat /\ Window(t, b, a.retired, a.posted)
      /\ args \in [Side -> Args] /\ DOMAIN transport = Side
      /\ requests \in [Side -> Requests]
  BY <1>1 DEF PipelineType, Args, SendInv
<1>3. D \in SUBSET (a.retired..a.posted-1) /\ \A k \in D : <<i, k>> \in moved
  BY <1>1 DEF Testable
<1>4. u = Completed(t, b, D)
  BY DEF Complete, Context, Base, Completed
<1> HIDE DEF u
<1>50. PICK m \in a.retired..a.posted : RetiresTo(t, u, b, a.retired, m, a.posted, D)
  BY <1>2, <1>3, <1>4, WindowRetires
<1>5. /\ Window(u, b, m, a.posted) /\ m \in a.retired..a.posted
      /\ u.scoreboard.nextSequence - t.scoreboard.nextSequence = m - a.retired
      /\ \A k \in a.retired..m-1 : Tracks(t.scoreboard, "complete", b + k) \/ k \in D
      /\ \A k \in m..a.posted-1 : Tracks(u.scoreboard, "complete", b + k) =>
                        Tracks(t.scoreboard, "complete", b + k) \/ k \in D
  BY <1>50 DEF RetiresTo
<1>6. transport'["send"] = u /\ transport'["recv"] = transport["recv"] /\ DOMAIN transport' = Side
  BY <1>1, <1>2
<1>7. /\ requests'["recv"] = requests["recv"] /\ DOMAIN requests' = Side
      /\ requests' \in [Side -> Requests]
  <2> DEFINE new == [x \in Slot |-> IF \E k \in D : SlotOf(k) = x THEN "null" ELSE requests["send"][x]]
  <2>1. new \in Requests BY <1>2 DEF Requests
  <2>2. requests' = [requests EXCEPT !["send"] = new] BY <1>1
  <2> HIDE DEF new
  <2> QED BY <1>2, <2>1, <2>2
<1>8. /\ args'["send"] = [a EXCEPT !.retired = a.retired + RetiredBy("send", u)]
      /\ args'["recv"] = args["recv"] /\ DOMAIN args' = Side
  BY <1>1, <1>2
<1>9. /\ args'["send"] \in Args /\ args'["send"].retired = m
      /\ args'["send"].posted = a.posted /\ args'["send"].waitCopy = a.waitCopy
  <2>1. m \in Nat /\ a.retired + RetiredBy("send", u) = m BY <1>2, <1>5 DEF RetiredBy
  <2>2. args'["send"] = [a EXCEPT !.retired = m] BY <1>8, <2>1
  <2> QED BY <1>2, <2>1, <2>2 DEF Args
<1>91. args' \in [Side -> Args] BY <1>1, <1>2, <1>9
<1>10. SendInv'
  <2>1. ASSUME NEW k \in 0..m-1 PROVE <<i, k>> \in moved
    <3>1. CASE k < a.retired
      <4>1. k \in 0..a.retired-1 BY <1>2, <3>1
      <4> QED BY <1>1, <4>1 DEF SendInv
    <3>2. CASE k >= a.retired
      <4>1. k \in a.retired..m-1 /\ k \in a.retired..a.posted-1 BY <1>2, <3>2, <1>5
      <4> QED BY <1>1, <1>3, <1>5, <4>1 DEF SendInv
    <3> QED BY <1>2, <3>1, <3>2
  <2>2. ASSUME NEW k \in m..a.posted-1, Tracks(u.scoreboard, "complete", b + k)
        PROVE  <<i, k>> \in moved
    <3>1. k \in a.retired..a.posted-1 BY <1>2, <1>5
    <3> QED BY <1>1, <1>3, <1>5, <2>2, <3>1 DEF SendInv
  <2>3. a.waitCopy <= m + Chunks /\ m \in Nat
    <3>1. a.waitCopy <= a.retired + Chunks BY <1>1 DEF SendInv
    <3> QED BY <1>2, <1>5, <3>1
  <2>4. \A k \in m..executed["send"]-1 : k \in a.retired..executed["send"]-1 BY <1>2, <1>5
  <2> QED BY <1>1, <1>5, <1>6, <1>9, <2>1, <2>2, <2>3, <2>4 DEF SendInv, setVars, devVars, netVars
<1>11. args["send"].posted <= args'["send"].posted BY <1>2, <1>9
<1> QED BY <1>1, <1>6, <1>7, <1>8, <1>91, <1>10, <1>11, SendWindowInv

LEMMA SkipStageInv == ASSUME PipelineInv, NEW s \in Side, SkipStage(s) PROVE PipelineInv'
  BY QuietInv DEF SkipStage

LEMMA TestFailsInv == ASSUME PipelineInv, NEW s \in Side, TestFails(s) PROVE PipelineInv'
  BY QuietInv DEF TestFails

LEMMA FlushFailsInv == ASSUME PipelineInv, FlushFails PROVE PipelineInv'
  BY QuietInv DEF FlushFails

LEMMA FinishSendInv == ASSUME PipelineInv, Finish("send") PROVE PipelineInv'
<1> USE Sides, OpFacts, SlotFacts DEF PipelineInv
<1> DEFINE i == cur["send"]
           a == args["send"]
           new == [x \in Slot |-> "null"]
<1>1. /\ UNCHANGED <<regBufFlag, flushRequired, netCompleted, staging, data, moved, landed>>
      /\ i \in Op /\ ~(a.retired < StepsOf[i])
      /\ cur' = [cur EXCEPT !["send"] = i + 1]
      /\ args' = [args EXCEPT !["send"] = NewArgs]
      /\ transport' = IF i + 1 \in Op THEN [transport EXCEPT !["send"] = NewTransport("send", i + 1)]
                                      ELSE transport
      /\ requests' = [requests EXCEPT !["send"] = new]
      /\ executed' = [executed EXCEPT !["send"] = 0]
  BY DEF Finish, At, Retiring, Steps, setVars, netVars
<1>2. /\ a \in Args /\ a.posted \in Nat /\ a.waitCopy \in Nat /\ a.retired \in Nat
      /\ executed["send"] \in Nat /\ Window(transport["send"], BaseOf[i], a.retired, a.posted)
      /\ a.posted <= a.waitCopy /\ a.waitCopy <= StepsOf[i]
      /\ DOMAIN args = Side /\ DOMAIN transport = Side /\ DOMAIN requests = Side
      /\ DOMAIN cur = Side /\ DOMAIN executed = Side
  BY <1>1 DEF PipelineType, Args, SendInv
<1>3. a.retired = StepsOf[i] /\ a.posted = StepsOf[i]
  <2>1. a.retired <= a.posted BY <1>2 DEF Window
  <2> QED BY <1>1, <1>2, <2>1, SMTT(60)
<1>4. /\ cur'["send"] = i + 1 /\ cur'["recv"] = cur["recv"]
      /\ args'["send"] = NewArgs /\ args'["recv"] = args["recv"]
      /\ requests'["send"] = new /\ requests'["recv"] = requests["recv"]
      /\ executed'["send"] = 0 /\ executed'["recv"] = executed["recv"]
      /\ transport'["recv"] = transport["recv"]
      /\ i + 1 \in Op => transport'["send"] = NewTransport("send", i + 1)
      /\ DOMAIN args' = Side /\ DOMAIN transport' = Side /\ DOMAIN requests' = Side
      /\ DOMAIN cur' = Side /\ DOMAIN executed' = Side
  BY <1>1, <1>2
<1>5. NewArgs \in Args /\ NewArgs.retired = 0 /\ NewArgs.posted = 0 /\ NewArgs.waitCopy = 0
  BY DEF NewArgs, Args
<1>6. PipelineType'
  <2>1. i + 1 \in 1..N+1 BY <1>1
  <2>2. new \in Requests BY DEF Requests
  <2> HIDE DEF new
  <2> QED BY <1>1, <1>2, <1>4, <1>5, <2>1, <2>2 DEF PipelineType
<1>7. SendInv'
  <2>1. SUFFICES ASSUME i + 1 \in Op PROVE SendInv' BY <1>4 DEF SendInv
  <2>2. Window(transport'["send"], BaseOf[i + 1], 0, 0) BY <1>4, <2>1, WindowNew DEF Base
  <2>3. StepsOf[i + 1] \in Nat BY <2>1
  <2> QED BY <1>1, <1>4, <1>5, <2>1, <2>2, <2>3, SMTT(60) DEF SendInv
<1>8. RecvInv' BY <1>1, <1>4, RecvFrame
<1>9. MovedInv'
  <2>1. ASSUME NEW c \in moved, NEW s \in Side PROVE Posted(s, c)'
    <3>1. Posted(s, c) /\ c \in Chunk BY DEF MovedInv, PipelineType
    <3>2. CASE s = "recv" BY <1>4, <3>1, <3>2 DEF Posted
    <3>3. CASE s = "send" BY <1>1, <1>4, <3>1, <3>3 DEF Posted
    <3> QED BY <3>2, <3>3
  <2>2. ASSUME NEW s \in Side, NEW c \in Chunk, c[1] < cur'[s] PROVE c \in moved
    <3>1. CASE c[1] < cur[s] BY <3>1 DEF MovedInv
    <3>2. CASE ~(c[1] < cur[s])
      <4>1. s = "send" BY <1>4, <2>2, <3>2
      <4>2. c[1] = i BY <1>1, <1>4, <2>2, <3>2, <4>1
      <4>3. c = <<i, c[2]>> /\ c[2] \in 0..a.retired-1 BY <1>3, <4>2
      <4> QED BY <1>1, <4>3 DEF SendInv
    <3> QED BY <3>1, <3>2
  <2> QED BY <1>1, <2>1, <2>2 DEF MovedInv
<1>10. LandedInv' BY <1>1, <1>4, LandedFrame
<1>11. DataInv' BY <1>1, <1>4, DataFrame
<1> QED BY <1>6, <1>7, <1>8, <1>9, <1>10, <1>11

-----------------------------------------------------------------------------
(* The receiver's steps *)

\* Two chunks of the window that share a slot are the same.
LEMMA OneSlotEach ==
  ASSUME NEW lo \in Nat, NEW hi \in Nat, hi <= lo + Chunks,
         NEW j \in lo..hi-1, NEW k \in lo..hi-1, SlotOf(j) = SlotOf(k)
  PROVE  j = k
<1> USE SlotFacts
<1>1. j \in Nat /\ k \in Nat OBVIOUS
<1>2. ~(j < k) /\ ~(k < j)
  <2>1. j < k => k - j < Chunks BY <1>1
  <2>2. k < j => j - k < Chunks BY <1>1
  <2> QED BY <1>1, <2>1, <2>2
<1> QED BY <1>1, <1>2

\* A step that changes nothing but the receiver's window, its requests and its
\* counters of chunks.
LEMMA RecvWindowInv ==
  ASSUME PipelineInv,
         UNCHANGED <<setVars, cur, devVars, netVars>>,
         args' \in [Side -> Args], args'["send"] = args["send"],
         DOMAIN transport' = Side, transport'["send"] = transport["send"],
         requests' \in [Side -> Requests], netCompleted' \in [Slot -> BOOLEAN],
         args["recv"].posted <= args'["recv"].posted, RecvInv'
  PROVE  PipelineInv'
<1> USE Sides DEF PipelineInv, devVars, netVars, setVars
<1>1. PipelineType' BY DEF PipelineType
<1>2. SendInv' BY SendFrame
<1>3. \A s \in Side : args[s].posted <= args'[s].posted /\ args'[s].posted \in Nat
  <2>1. args["send"].posted \in Nat /\ args'["recv"].posted \in Nat BY DEF PipelineType, Args
  <2>2. args["send"].posted <= args'["send"].posted BY <2>1
  <2> QED BY <2>1, <2>2
<1>4. MovedInv' BY <1>3, MovedFrame
<1>5. LandedInv' BY LandedFrame
<1>6. DataInv'
  <2>1. \A i, k : Visible(i, k)' <=> Visible(i, k) BY DEF Visible, LandedAs
  <2>2. \A i, k : Arrived(i, k)' <=> Arrived(i, k) BY <2>1 DEF Arrived
  <2>3. ASSUME cur["recv"] \in Op, NEW k \in executed["recv"]..args'["recv"].posted-1,
               Visible(cur["recv"], k)
        PROVE  k \in executed["recv"]..args["recv"].posted-1
    <3>1. Posted("recv", <<cur["recv"], k>>) BY <2>3 DEF Visible, MovedInv
    <3>2. cur["recv"] \in Nat BY <2>3, OpFacts
    <3>3. k < args["recv"].posted BY <3>1, <3>2 DEF Posted
    <3>4. executed["recv"] \in Nat /\ args["recv"].posted \in Nat /\ args'["recv"].posted \in Nat
      BY DEF PipelineType, Args
    <3> QED BY <3>3, <3>4
  <2> QED BY <2>1, <2>2, <2>3 DEF DataInv
<1> QED BY <1>1, <1>2, <1>4, <1>5, <1>6

\* The facts about the receive under way that its steps use.
RecvFacts ==
  LET i == cur["recv"]  a == args["recv"] IN
  /\ i \in Op /\ i \in Nat /\ StepsOf[i] \in Nat
  /\ a \in Args /\ a.waitCopy \in Nat /\ a.posted \in Nat /\ a.postFlush \in Nat /\ a.retired \in Nat
  /\ executed["recv"] \in Nat
  /\ a.retired <= a.waitCopy /\ a.waitCopy <= a.postFlush /\ a.postFlush <= a.posted
  /\ a.posted <= StepsOf[i] /\ a.posted <= a.retired + Chunks
  /\ executed["recv"] <= a.waitCopy
  /\ Window(transport["recv"], 0, a.retired, a.posted)
  /\ args \in [Side -> Args] /\ DOMAIN transport = Side
  /\ requests \in [Side -> Requests] /\ requests["recv"] \in Requests
  /\ netCompleted \in [Slot -> BOOLEAN]

LEMMA RecvFactsHold == ASSUME PipelineInv, cur["recv"] \in Op PROVE RecvFacts
  BY Sides, OpFacts DEF PipelineInv, PipelineType, Args, RecvInv, RecvFacts

LEMMA RecvCopyInv == ASSUME PipelineInv, RecvCopy PROVE PipelineInv'
<1> USE Sides, OpFacts, SlotFacts DEF PipelineInv
<1> DEFINE i == cur["recv"]
           a == args["recv"]
           k == a.waitCopy
           u == [a EXCEPT !.waitCopy = a.waitCopy + 1]
<1>1. /\ UNCHANGED <<setVars, cur, transport, requests, netCompleted, devVars, netVars>>
      /\ i \in Op /\ k < a.postFlush
      /\ requests["recv"][SlotOf(k)] = "0x1" \/ LandedAs(<<i, k>>) = {}
      /\ args' = [args EXCEPT !["recv"].waitCopy = @ + 1]
  BY DEF RecvCopy, At, FlushDone
<1>2. RecvFacts BY <1>1, RecvFactsHold
<1>3. /\ u \in Args /\ u.waitCopy = k + 1 /\ u.posted = a.posted /\ u.postFlush = a.postFlush
      /\ u.retired = a.retired
  <2>1. a \in Args /\ a.waitCopy + 1 \in Nat BY <1>2 DEF RecvFacts
  <2>2. u = [a EXCEPT !.waitCopy = a.waitCopy + 1] OBVIOUS
  <2> HIDE DEF u, a
  <2> QED BY <2>1, <2>2, ArgsWaitCopy
<1>4. args' = [args EXCEPT !["recv"] = u] BY <1>1
<1> HIDE DEF u
<1>5. args'["recv"] = u /\ args'["send"] = args["send"] /\ args' \in [Side -> Args]
  BY <1>2, <1>3, <1>4 DEF RecvFacts
<1>6. RecvInv'
  <2>1. ASSUME NEW j \in 0..u.waitCopy-1 PROVE LandedAs(<<i, j>>) = {}
    <3>1. CASE j = k
      <4>1. k \in k..a.postFlush-1 BY <1>1, <1>2 DEF RecvFacts
      <4> QED BY <1>1, <3>1, <4>1 DEF RecvInv
    <3>2. CASE j # k
      <4>1. j \in 0..k-1 BY <1>2, <1>3, <3>2 DEF RecvFacts
      <4> QED BY <1>1, <4>1 DEF RecvInv
    <3> QED BY <3>1, <3>2
  <2>2. \A j \in u.waitCopy..a.postFlush-1 : j \in k..a.postFlush-1 BY <1>2, <1>3 DEF RecvFacts
  <2>3. /\ a.retired <= u.waitCopy /\ u.waitCopy <= a.postFlush /\ executed["recv"] <= u.waitCopy
    BY <1>1, <1>2, <1>3, SMTT(60) DEF RecvFacts
  <2> QED BY <1>1, <1>3, <1>5, <2>1, <2>2, <2>3 DEF RecvInv, LandedAs, setVars, devVars, netVars
<1>7. a.posted <= args'["recv"].posted BY <1>2, <1>3, <1>5 DEF RecvFacts
<1> QED BY <1>1, <1>2, <1>5, <1>6, <1>7, RecvWindowInv DEF RecvFacts

LEMMA RecvPollInv == ASSUME PipelineInv, NEW D, RecvPoll(D) PROVE PipelineInv'
<1> USE Sides, OpFacts, SlotFacts DEF PipelineInv
<1> DEFINE i == cur["recv"]
           a == args["recv"]
           new == [x \in Slot |-> IF \E k \in D : SlotOf(k) = x THEN "null" ELSE requests["recv"][x]]
<1>1. /\ UNCHANGED <<setVars, cur, args, transport, devVars, netVars>>
      /\ i \in Op /\ D \subseteq Testable("recv", a.postFlush)
      /\ requests' = [requests EXCEPT !["recv"] = new]
      /\ netCompleted' = [x \in Slot |-> netCompleted[x] \/ \E k \in D : SlotOf(k) = x]
  BY DEF RecvPoll, At
<1>2. RecvFacts BY <1>1, RecvFactsHold
<1>3. D \subseteq a.postFlush..a.posted-1 /\ \A k \in D : <<i, k>> \in moved
  BY <1>1 DEF Testable
<1>4. /\ new \in Requests /\ \A x \in Slot : new[x] = "0x1" => requests["recv"][x] = "0x1"
  BY <1>2 DEF RecvFacts, Requests
<1> HIDE DEF new
<1>5. /\ requests' \in [Side -> Requests] /\ requests'["recv"] = new
      /\ netCompleted' \in [Slot -> BOOLEAN]
  BY <1>1, <1>2, <1>4 DEF RecvFacts
<1>6. RecvInv'
  <2>1. ASSUME NEW k \in a.postFlush..a.posted-1, netCompleted'[SlotOf(k)]
        PROVE  <<i, k>> \in moved
    <3>1. k \in Nat /\ SlotOf(k) \in Slot BY <1>2, SMTT(60) DEF RecvFacts
    <3>2. CASE netCompleted[SlotOf(k)] BY <1>1, <3>2 DEF RecvInv
    <3>3. CASE \E j \in D : SlotOf(j) = SlotOf(k)
      <4>1. PICK j \in D : SlotOf(j) = SlotOf(k) BY <3>3
      <4>2. j \in a.retired..a.posted-1 /\ k \in a.retired..a.posted-1 BY <1>2, <1>3, SMTT(60) DEF RecvFacts
      <4>3. j = k BY <1>2, <4>1, <4>2, OneSlotEach DEF RecvFacts
      <4> QED BY <1>3, <4>3
    <3> QED BY <1>1, <2>1, <3>1, <3>2, <3>3
  <2>2. \A k \in a.waitCopy..a.postFlush-1 : SlotOf(k) \in Slot BY <1>2 DEF RecvFacts
  <2>3. /\ cur' = cur /\ args' = args /\ transport' = transport /\ executed' = executed
        /\ moved' = moved /\ landed' = landed /\ regBufFlag' = regBufFlag
    BY <1>1 DEF setVars, devVars, netVars
  <2>4. \A c : LandedAs(c)' = LandedAs(c) BY <2>3 DEF LandedAs
  <2> QED BY <1>4, <1>5, <2>1, <2>2, <2>3, <2>4 DEF RecvInv
<1>7. a.posted <= args'["recv"].posted BY <1>1, <1>2 DEF RecvFacts
<1> QED BY <1>1, <1>2, <1>5, <1>6, <1>7, RecvWindowInv DEF RecvFacts

LEMMA IrecvInv == ASSUME PipelineInv, NEW answer \in Answer, Irecv(answer) PROVE PipelineInv'
<1> USE Sides, OpFacts, SlotFacts DEF PipelineInv
<1> DEFINE i == cur["recv"]
           a == args["recv"]
           k == a.posted
           t == transport["recv"]
<1>1. /\ UNCHANGED <<setVars, cur, devVars, netVars>>
      /\ i \in Op /\ k < StepsOf[i] /\ k - a.retired < Chunks
      /\ \/ UNCHANGED <<transport, requests, netCompleted, args>>
         \/ /\ TrackSubmitResult(t.scoreboard, t.nextSubmit) = "success"
            /\ transport' = [transport EXCEPT !["recv"] = TrackNext(t)]
            /\ requests' = [requests EXCEPT !["recv"][SlotOf(k)] = "net"]
            /\ netCompleted' = [netCompleted EXCEPT ![SlotOf(k)] = FALSE]
            /\ args' = [args EXCEPT !["recv"].posted = @ + 1]
         \/ /\ TrackSubmitResult(t.scoreboard, t.nextSubmit) = "success"
            /\ transport' = [transport EXCEPT !["recv"] = Cancel(TrackNext(t))]
            /\ UNCHANGED <<requests, netCompleted, args>>
  BY DEF Irecv, At, RecvHasRoom, HasRoom, Steps, TrackNextResult, Answer
<1>2. RecvFacts BY <1>1, RecvFactsHold
<1>3. CASE UNCHANGED <<transport, requests, netCompleted, args>> BY <1>1, <1>3, QuietInv
<1>4. CASE /\ TrackSubmitResult(t.scoreboard, t.nextSubmit) = "success"
           /\ transport' = [transport EXCEPT !["recv"] = Cancel(TrackNext(t))]
           /\ UNCHANGED <<requests, netCompleted, args>>
  <2>1. transport'["recv"] = Cancel(TrackNext(t)) /\ transport'["send"] = transport["send"]
        /\ DOMAIN transport' = Side
    BY <1>2, <1>4 DEF RecvFacts
  <2>2. /\ Window(transport'["recv"], 0, a.retired, k)
        /\ \A n \in Nat : Tracks(t.scoreboard, "pending", n) =>
                            Tracks(transport'["recv"].scoreboard, "pending", n)
    BY <1>2, <1>4, <2>1, WindowCancels DEF RecvFacts
  <2>3. \A j \in a.retired..k-1 : j \in Nat BY <1>2 DEF RecvFacts
  <2>4. RecvInv'
    BY <1>1, <1>4, <2>2, <2>3 DEF RecvInv, LandedAs, setVars, devVars, netVars
  <2>5. args["recv"].posted <= args'["recv"].posted BY <1>2, <1>4 DEF RecvFacts
  <2> QED BY <1>1, <1>2, <1>4, <2>1, <2>4, <2>5, RecvWindowInv DEF RecvFacts
<1>5. CASE /\ TrackSubmitResult(t.scoreboard, t.nextSubmit) = "success"
           /\ transport' = [transport EXCEPT !["recv"] = TrackNext(t)]
           /\ requests' = [requests EXCEPT !["recv"][SlotOf(k)] = "net"]
           /\ netCompleted' = [netCompleted EXCEPT ![SlotOf(k)] = FALSE]
           /\ args' = [args EXCEPT !["recv"].posted = @ + 1]
  <2> DEFINE u == [a EXCEPT !.posted = a.posted + 1]
             new == [requests["recv"] EXCEPT ![SlotOf(k)] = "net"]
  <2>1. transport'["recv"] = TrackNext(t) /\ transport'["send"] = transport["send"]
        /\ DOMAIN transport' = Side
    BY <1>2, <1>5 DEF RecvFacts
  <2>2. /\ u \in Args /\ u.posted = k + 1 /\ u.waitCopy = a.waitCopy /\ u.postFlush = a.postFlush
        /\ u.retired = a.retired
    <3>1. a \in Args /\ a.posted + 1 \in Nat BY <1>2 DEF RecvFacts
    <3>2. u = [a EXCEPT !.posted = a.posted + 1] OBVIOUS
    <3> HIDE DEF u, a
    <3> QED BY <3>1, <3>2, ArgsPosted
  <2>3. args' = [args EXCEPT !["recv"] = u] BY <1>5
  <2>4. /\ new \in Requests /\ \A x \in Slot : new[x] = "0x1" => requests["recv"][x] = "0x1"
    BY <1>2 DEF RecvFacts, Requests
  <2>5. requests' = [requests EXCEPT !["recv"] = new] BY <1>5
  <2> HIDE DEF u, new
  <2>6. /\ args'["recv"] = u /\ args'["send"] = args["send"] /\ args' \in [Side -> Args]
        /\ requests' \in [Side -> Requests] /\ requests'["recv"] = new
    BY <1>2, <2>2, <2>3, <2>4, <2>5 DEF RecvFacts
  <2>7. /\ netCompleted' \in [Slot -> BOOLEAN] /\ ~netCompleted'[SlotOf(k)]
        /\ \A x \in Slot : netCompleted'[x] => netCompleted[x]
    BY <1>2, <1>5 DEF RecvFacts
  <2>8. /\ Window(transport'["recv"], 0, a.retired, k + 1)
        /\ \A n \in Nat : Tracks(t.scoreboard, "pending", n) \/ n = k =>
                            Tracks(transport'["recv"].scoreboard, "pending", n)
    <3>1. /\ Window(TrackNext(t), 0, a.retired, k + 1)
          /\ \A n \in Nat : Tracks(TrackNext(t).scoreboard, "pending", n) <=>
                              Tracks(t.scoreboard, "pending", n) \/ n = 0 + k
      BY <1>2, <1>5, WindowGrows DEF RecvFacts
    <3>2. 0 + k = k BY <1>2 DEF RecvFacts
    <3> QED BY <2>1, <3>1, <3>2
  <2>9. RecvInv'
    <3>1. /\ k + 1 <= StepsOf[i] /\ k + 1 <= a.retired + Chunks /\ a.postFlush <= k + 1
      BY <1>1, <1>2, SMTT(60) DEF RecvFacts
    <3>2. ASSUME NEW j \in a.retired..(k + 1)-1
          PROVE  Tracks(transport'["recv"].scoreboard, "pending", j)
      <4>1. j \in Nat BY <1>2 DEF RecvFacts
      <4>2. CASE j = k BY <2>8, <4>1, <4>2
      <4>3. CASE j # k
        <5>1. j \in a.retired..k-1 BY <1>2, <4>1, <4>3 DEF RecvFacts
        <5> QED BY <1>1, <2>8, <4>1, <5>1 DEF RecvInv
      <4> QED BY <4>2, <4>3
    <3>3. ASSUME NEW j \in a.postFlush..(k + 1)-1, netCompleted'[SlotOf(j)]
          PROVE  <<i, j>> \in moved
      <4>1. j \in Nat /\ SlotOf(j) \in Slot BY <1>2 DEF RecvFacts
      <4>2. j # k BY <2>7, <3>3
      <4>3. j \in a.postFlush..k-1 BY <1>2, <4>1, <4>2 DEF RecvFacts
      <4>4. netCompleted[SlotOf(j)] BY <2>7, <3>3, <4>1
      <4> QED BY <1>1, <4>3, <4>4 DEF RecvInv
    <3>4. \A j \in a.waitCopy..a.postFlush-1 : SlotOf(j) \in Slot BY <1>2 DEF RecvFacts
    <3> QED BY <1>1, <2>2, <2>4, <2>6, <2>8, <3>1, <3>2, <3>3, <3>4
            DEF RecvInv, LandedAs, setVars, devVars, netVars
  <2>10. a.posted <= args'["recv"].posted BY <1>2, <2>2, <2>6 DEF RecvFacts
  <2> QED BY <1>1, <1>2, <2>1, <2>6, <2>7, <2>9, <2>10, RecvWindowInv
<1> QED BY <1>1, <1>3, <1>4, <1>5

LEMMA RecvRetireInv == ASSUME PipelineInv, RecvRetire PROVE PipelineInv'
<1> USE Sides, OpFacts, SlotFacts DEF PipelineInv
<1> DEFINE i == cur["recv"]
           a == args["recv"]
           k == a.retired
           t == transport["recv"]
           v == IF RecvCopied(k) THEN Complete("recv", {k}) ELSE t
<1>1. /\ UNCHANGED <<setVars, cur, requests, netCompleted, devVars, netVars>>
      /\ i \in Op
      /\ transport' = [transport EXCEPT !["recv"] = v]
      /\ args' = [args EXCEPT !["recv"].retired = @ + RetiredBy("recv", v)]
  BY DEF RecvRetire, At
<1>2. RecvFacts BY <1>1, RecvFactsHold
<1>3. \E m \in k..a.posted :
        /\ m <= a.waitCopy /\ (regBufFlag["recv"] \/ m <= executed["recv"])
        /\ v.scoreboard.nextSequence - t.scoreboard.nextSequence = m - k
        /\ Window(v, 0, m, a.posted)
        /\ \A j \in m..a.posted-1 : Tracks(v.scoreboard, "pending", j)
  <2>1. CASE ~RecvCopied(k)
    <3>1. v = t BY <2>1
    <3>2. t.scoreboard.nextSequence - t.scoreboard.nextSequence = k - k
      BY <1>2 DEF RecvFacts, Window
    <3>3. k \in k..a.posted BY <1>2 DEF RecvFacts
    <3> QED BY <1>1, <1>2, <3>1, <3>2, <3>3 DEF RecvFacts, RecvInv
  <2>2. CASE RecvCopied(k)
    <3>1. k < a.waitCopy /\ (regBufFlag["recv"] \/ EventDone("recv", k)) BY <2>2 DEF RecvCopied
    <3>2. {k} \in SUBSET (k..a.posted-1) BY <1>2, <3>1, SMTT(60) DEF RecvFacts
    <3>3. v = Completed(t, 0, {k}) BY <2>2 DEF Complete, Context, Base, Completed
    <3> HIDE DEF v
    <3>4. PICK m \in k..a.posted : RetiresTo(t, v, 0, k, m, a.posted, {k})
      BY <1>2, <3>2, <3>3, WindowRetires DEF RecvFacts
    <3>5. \A j \in k..a.posted-1 : /\ j \in Nat /\ 0 + j = j
                                   /\ Tracks(t.scoreboard, "pending", j)
                                   /\ ~Tracks(t.scoreboard, "complete", j)
      <4>1. \A j \in k..a.posted-1 : j \in Nat /\ 0 + j = j BY <1>2, SMTT(60) DEF RecvFacts
      <4>2. \A j \in k..a.posted-1 : Tracks(t.scoreboard, "pending", j) BY <1>1 DEF RecvInv
      <4>3. \A j : ~(Tracks(t.scoreboard, "pending", j) /\ Tracks(t.scoreboard, "complete", j))
        BY DEF Tracks
      <4> QED BY <4>1, <4>2, <4>3
    <3>6. m = k + 1
      <4>1. ASSUME m = k PROVE FALSE
        <5>1. k \in m..a.posted-1 /\ k \in k..a.posted-1 BY <1>2, <3>2, <4>1 DEF RecvFacts
        <5>2. Tracks(v.scoreboard, "complete", 0 + k) BY <3>4, <3>5, <5>1 DEF RetiresTo
        <5> QED BY <3>4, <4>1, <5>2 DEF RetiresTo
      <4>2. ASSUME m > k + 1 PROVE FALSE
        <5>1. k + 1 \in k..m-1 /\ k + 1 \in k..a.posted-1 /\ k + 1 \notin {k}
          BY <1>2, <4>2, SMTT(60) DEF RecvFacts
        <5> QED BY <3>4, <3>5, <5>1 DEF RetiresTo
      <4> QED BY <1>2, <4>1, <4>2, SMTT(60) DEF RecvFacts
    <3>7. regBufFlag["recv"] \/ m <= executed["recv"]
      <4>1. k \in 0..a.waitCopy-1 BY <1>2, <3>1 DEF RecvFacts
      <4>2. EventDone("recv", k) => executed["recv"] > k BY <4>1 DEF EventDone
      <4> QED BY <1>2, <3>1, <3>6, <4>2 DEF RecvFacts
    <3>8. ASSUME NEW j \in m..a.posted-1 PROVE Tracks(v.scoreboard, "pending", j)
      <4>1. j \in k..a.posted-1 /\ j \notin {k} BY <1>2, <3>6 DEF RecvFacts
      <4> QED BY <3>4, <3>5, <4>1 DEF RetiresTo
    <3>9. m <= a.waitCopy BY <1>2, <3>1, <3>6 DEF RecvFacts
    <3> QED BY <3>4, <3>7, <3>8, <3>9 DEF RetiresTo
  <2> QED BY <2>1, <2>2
<1> HIDE DEF v
<1>4. PICK m \in k..a.posted :
        /\ m <= a.waitCopy /\ (regBufFlag["recv"] \/ m <= executed["recv"])
        /\ v.scoreboard.nextSequence - t.scoreboard.nextSequence = m - k
        /\ Window(v, 0, m, a.posted)
        /\ \A j \in m..a.posted-1 : Tracks(v.scoreboard, "pending", j)
  BY <1>3
<1>5. m \in Nat /\ k <= m /\ k + RetiredBy("recv", v) = m BY <1>2, <1>4 DEF RecvFacts, RetiredBy
<1> DEFINE u == [a EXCEPT !.retired = m]
<1>6. args' = [args EXCEPT !["recv"] = u] BY <1>1, <1>5
<1>7. /\ u \in Args /\ u.retired = m /\ u.posted = a.posted /\ u.waitCopy = a.waitCopy
      /\ u.postFlush = a.postFlush
  <2>1. a \in Args BY <1>2 DEF RecvFacts
  <2>2. u = [a EXCEPT !.retired = m] OBVIOUS
  <2> HIDE DEF u, a
  <2> QED BY <1>5, <2>1, <2>2, ArgsRetired
<1> HIDE DEF u
<1>8. /\ args'["recv"] = u /\ args'["send"] = args["send"] /\ args' \in [Side -> Args]
      /\ transport'["recv"] = v /\ transport'["send"] = transport["send"] /\ DOMAIN transport' = Side
  <2>1. args \in [Side -> Args] /\ DOMAIN transport = Side BY <1>2 DEF RecvFacts
  <2>2. args'["recv"] = u /\ args'["send"] = args["send"] /\ args' \in [Side -> Args]
    BY <1>6, <1>7, <2>1
  <2>3. transport'["recv"] = v /\ transport'["send"] = transport["send"] /\ DOMAIN transport' = Side
    BY <1>1, <2>1
  <2> QED BY <2>2, <2>3
<1>9. RecvInv'
  <2>1. a.posted <= m + Chunks BY <1>2, <1>5 DEF RecvFacts
  <2>2. /\ cur' = cur /\ requests' = requests /\ netCompleted' = netCompleted /\ executed' = executed
        /\ moved' = moved /\ landed' = landed /\ regBufFlag' = regBufFlag
    BY <1>1 DEF setVars, devVars, netVars
  <2>3. \A c : LandedAs(c)' = LandedAs(c) BY <2>2 DEF LandedAs
  <2> QED BY <1>1, <1>4, <1>7, <1>8, <2>1, <2>2, <2>3 DEF RecvInv
<1>10. a.posted <= args'["recv"].posted BY <1>2, <1>7, <1>8 DEF RecvFacts
<1> QED BY <1>1, <1>2, <1>8, <1>9, <1>10, RecvWindowInv DEF RecvFacts

-----------------------------------------------------------------------------
(* What arrives *)

SetEntry(f, i, k, v) == [f EXCEPT ![i][k] = v]

LEMMA SetData ==
  ASSUME NEW d, IsData(d), NEW i \in Op, NEW k \in 0..StepsOf[i]-1, NEW v,
         NEW e, e = SetEntry(d, i, k, v)
  PROVE  /\ IsData(e) /\ e[i][k] = v
         /\ \A h \in Op : \A j \in 0..StepsOf[h]-1 : h # i \/ j # k => e[h][j] = d[h][j]
<1> DEFINE f == [d[i] EXCEPT ![k] = v]
<1>1. d = [h \in Op |-> [j \in 0..StepsOf[h]-1 |-> d[h][j]]] BY DEF IsData
<1>2. DOMAIN d = Op /\ \A h \in Op : d[h] = [j \in 0..StepsOf[h]-1 |-> d[h][j]] BY <1>1
<1>3. /\ f = [j \in 0..StepsOf[i]-1 |-> f[j]] /\ f[k] = v
      /\ \A j \in 0..StepsOf[i]-1 : j # k => f[j] = d[i][j]
  <2>1. d[i] = [j \in 0..StepsOf[i]-1 |-> d[i][j]] BY <1>2
  <2>2. DOMAIN d[i] = 0..StepsOf[i]-1 BY <2>1
  <2>3. f = [j \in 0..StepsOf[i]-1 |-> IF j = k THEN v ELSE d[i][j]] BY <2>2
  <2> QED BY <2>3
<1>4. e = [d EXCEPT ![i] = f] BY DEF SetEntry
<1> HIDE DEF f
<1>5. e = [h \in Op |-> IF h = i THEN f ELSE d[h]] BY <1>2, <1>4
<1>6. e[i] = f /\ \A h \in Op : h # i => e[h] = d[h] BY <1>5
<1>7. \A h \in Op : e[h] = [j \in 0..StepsOf[h]-1 |-> e[h][j]]
  <2>1. ASSUME NEW h \in Op PROVE e[h] = [j \in 0..StepsOf[h]-1 |-> e[h][j]]
    <3>1. CASE h = i BY <1>3, <1>6, <3>1
    <3>2. CASE h # i BY <1>2, <1>6, <3>2
    <3> QED BY <3>1, <3>2
  <2> QED BY <2>1
<1>8. IsData(e)
  <2>1. e = [h \in Op |-> e[h]] BY <1>5
  <2> QED BY <1>7, <2>1 DEF IsData
<1>9. e[i][k] = v BY <1>3, <1>6
<1>10. ASSUME NEW h \in Op, NEW j \in 0..StepsOf[h]-1, h # i \/ j # k PROVE e[h][j] = d[h][j]
  BY <1>3, <1>6, <1>10
<1> QED BY <1>8, <1>9, <1>10

IsStaging(f) == f \in [Side -> [Slot -> Nat \X Nat]]

LEMMA SetStaging ==
  ASSUME IsStaging(staging), NEW s \in Side, NEW x \in Slot, NEW v \in Nat \X Nat,
         staging' = SetEntry(staging, s, x, v)
  PROVE  /\ IsStaging(staging') /\ staging'[s][x] = v
         /\ \A y \in Slot : y # x => staging'[s][y] = staging[s][y]
         /\ \A r \in Side : r # s => staging'[r] = staging[r]
<1> DEFINE g == [staging[s] EXCEPT ![x] = v]
<1> USE DEF IsStaging
<1>1. /\ g \in [Slot -> Nat \X Nat] /\ g[x] = v
      /\ \A y \in Slot : y # x => g[y] = staging[s][y]
  OBVIOUS
<1>2. staging' = [staging EXCEPT ![s] = g] BY DEF SetEntry
<1> HIDE DEF g
<1> QED BY <1>1, <1>2

\* A chunk of the window that was not visible is written: with its own content if
\* it is visible from now on, and with nothing otherwise.
WritesChunk(k, v) ==
  LET i == cur["recv"]  a == args["recv"] IN
  /\ i \in Op /\ k \in a.retired..a.posted-1 /\ v \in Nat \X Nat /\ Land(<<i, k>>, v)
  /\ ~Visible(i, k) /\ v = (IF Visible(i, k)' THEN <<i, k>> ELSE Empty)
  /\ \A j \in Nat : j # k => (Visible(i, j)' <=> Visible(i, j))
  /\ UNCHANGED <<regBufFlag, cur, executed>> /\ args'["recv"].posted = a.posted

LEMMA LandData ==
  ASSUME PipelineInv, NEW k, NEW v, WritesChunk(k, v)
  PROVE  /\ DataInv' /\ IsData(data') /\ staging'["send"] = staging["send"]
         /\ staging' \in [Side -> [Slot -> Nat \X Nat]]
<1> USE Sides, SlotFacts
<1> DEFINE i == cur["recv"]
           a == args["recv"]
<1>0. /\ i \in Op /\ k \in a.retired..a.posted-1 /\ v \in Nat \X Nat
      /\ Land(<<i, k>>, v) /\ ~Visible(i, k)
      /\ \A j \in Nat : j # k => (Visible(i, j)' <=> Visible(i, j))
      /\ regBufFlag' = regBufFlag /\ cur' = cur /\ executed' = executed
      /\ args'["recv"].posted = a.posted
      /\ (Visible(i, k)' => v = <<i, k>>) /\ (~Visible(i, k)' => v = Empty)
  BY DEF WritesChunk
<1>1. RecvFacts BY <1>0, RecvFactsHold
<1>2. k \in Nat /\ k \in 0..StepsOf[i]-1 /\ SlotOf(k) \in Slot BY <1>0, <1>1 DEF RecvFacts
<1>3. /\ IsData(data) /\ staging \in [Side -> [Slot -> Nat \X Nat]]
      /\ i \in Op /\ i \in Nat
  BY <1>0, OpFacts DEF PipelineInv, PipelineType
<1>4. /\ \A h \in Op : \A j \in 0..StepsOf[h]-1 :
           data[h][j] = IF Arrived(h, j) THEN <<h, j>> ELSE Empty
      /\ ~regBufFlag["recv"] =>
           \A j \in executed["recv"]..a.posted-1 :
             Visible(i, j) => staging["recv"][SlotOf(j)] = <<i, j>>
  BY <1>0 DEF PipelineInv, DataInv
<1>5. CASE regBufFlag["recv"]
  <2>1. data' = SetEntry(data, i, k, v) /\ staging' = staging BY <1>0, <1>5 DEF Land, SetEntry
  <2>2. /\ data'[i][k] = v
        /\ \A h \in Op : \A j \in 0..StepsOf[h]-1 : h # i \/ j # k => data'[h][j] = data[h][j]
        /\ IsData(data')
    BY <1>2, <1>3, <2>1, SetData, SMTT(60)
  <2>3. ASSUME NEW h \in Op, NEW j \in 0..StepsOf[h]-1
        PROVE  data'[h][j] = IF Arrived(h, j)' THEN <<h, j>> ELSE Empty
    <3>1. CASE h = i /\ j = k
      <4>1. i \in Nat BY <1>3
      <4>2. ~(i < i) BY <4>1
      <4>3. cur' = cur /\ regBufFlag'["recv"] BY <1>0, <1>5
      <4>4. Arrived(i, k)' <=> Visible(i, k)' BY <4>2, <4>3 DEF Arrived
      <4> QED BY <1>0, <2>2, <3>1, <4>4
    <3>2. CASE h = i /\ j # k
      <4>1. j \in Nat /\ h \in Nat BY OpFacts
      <4>2. Visible(h, j)' <=> Visible(h, j) BY <1>0, <3>2, <4>1
      <4>3. Arrived(h, j)' <=> Arrived(h, j) BY <1>0, <4>2 DEF Arrived
      <4> QED BY <1>4, <2>2, <3>2, <4>3
    <3>3. CASE h # i
      <4>1. Arrived(h, j)' <=> Arrived(h, j) BY <1>0, <3>3 DEF Arrived
      <4> QED BY <1>4, <2>2, <3>3, <4>1
    <3> QED BY <3>1, <3>2, <3>3
  <2>4. DataInv' BY <1>0, <1>5, <2>3 DEF DataInv
  <2> QED BY <1>3, <2>1, <2>2, <2>4
<1>6. CASE ~regBufFlag["recv"]
  <2>1. staging' = SetEntry(staging, "recv", SlotOf(k), v) /\ data' = data
    BY <1>0, <1>6 DEF Land, SetEntry
  <2>2. /\ staging'["recv"][SlotOf(k)] = v /\ staging'["send"] = staging["send"]
        /\ \A y \in Slot : y # SlotOf(k) => staging'["recv"][y] = staging["recv"][y]
        /\ staging' \in [Side -> [Slot -> Nat \X Nat]]
    <3>1. IsStaging(staging) BY <1>3 DEF IsStaging
    <3>2. v \in Nat \X Nat /\ SlotOf(k) \in Slot BY <1>0, <1>2
    <3>3. IsStaging(staging') /\ staging'["recv"][SlotOf(k)] = v
      BY <2>1, <3>1, <3>2, SetStaging
    <3>4. /\ \A y \in Slot : y # SlotOf(k) => staging'["recv"][y] = staging["recv"][y]
          /\ \A r \in Side : r # "recv" => staging'[r] = staging[r]
      BY <2>1, <3>1, <3>2, SetStaging
    <3> QED BY <3>3, <3>4 DEF IsStaging
  <2>3. \A h, j : Arrived(h, j)' <=> Arrived(h, j) BY <1>0, <1>6 DEF Arrived
  <2>4. ASSUME NEW j \in executed["recv"]..a.posted-1, Visible(i, j)'
        PROVE  staging'["recv"][SlotOf(j)] = <<i, j>>
    <3>1. j \in Nat /\ SlotOf(j) \in Slot /\ j \in a.retired..a.posted-1
      <4>1. a.retired <= executed["recv"] BY <1>0, <1>6 DEF PipelineInv, RecvInv
      <4> QED BY <1>1, <4>1 DEF RecvFacts
    <3>2. CASE j = k BY <1>0, <2>2, <2>4, <3>2
    <3>3. CASE j # k
      <4>1. SlotOf(j) # SlotOf(k) BY <1>0, <1>1, <3>1, <3>3, OneSlotEach DEF RecvFacts
      <4>2. Visible(i, j) BY <1>0, <2>4, <3>1, <3>3
      <4> QED BY <1>4, <1>6, <2>2, <3>1, <4>1, <4>2
    <3> QED BY <3>2, <3>3
  <2>5. DataInv' BY <1>0, <1>4, <2>1, <2>3, <2>4 DEF DataInv
  <2> QED BY <1>3, <2>1, <2>2, <2>5
<1> QED BY <1>5, <1>6

\* A flush makes a chunk visible.
LEMMA FlushLands ==
  ASSUME PipelineInv, cur["recv"] \in Op, NEW k \in 0..args["recv"].posted-1,
         <<cur["recv"], k>> \in moved,
         LandAll(LandedAs(<<cur["recv"], k>>)), landed' = landed \ LandedAs(<<cur["recv"], k>>),
         UNCHANGED <<regBufFlag, flushRequired, cur, executed, moved>>,
         args'["recv"].posted = args["recv"].posted
  PROVE  /\ DataInv' /\ LandedInv' /\ IsData(data') /\ staging' \in [Side -> [Slot -> Nat \X Nat]]
         /\ staging'["send"] = staging["send"] /\ LandedAs(<<cur["recv"], k>>)' = {}
         /\ landed' \subseteq landed
<1> USE Sides, OpFacts, SlotFacts DEF PipelineInv
<1> DEFINE i == cur["recv"]
           a == args["recv"]
           now == LandedAs(<<i, k>>)
<1>1. RecvFacts BY RecvFactsHold
<1>2. LandedAs(<<i, k>>)' = {} /\ landed' \subseteq landed BY DEF LandedAs
<1>3. LandedInv' BY <1>2, LandedFrame
<1>4. CASE now = {}
  <2>1. UNCHANGED <<staging, data>> BY <1>4 DEF LandAll
  <2>2. landed' = landed BY <1>4
  <2>3. DataInv' BY <2>1, <2>2, DataFrame
  <2>4. IsData(data) /\ staging \in [Side -> [Slot -> Nat \X Nat]] BY DEF PipelineType
  <2>5. /\ IsData(data') /\ staging' \in [Side -> [Slot -> Nat \X Nat]]
        /\ staging'["send"] = staging["send"]
    BY <2>1, <2>4
  <2> QED BY <1>2, <1>3, <2>3, <2>5
<1>5. CASE now # {}
  <2>1. PICK l \in now : Land(l.chunk, l.value) BY <1>5 DEF LandAll
  <2>2. l.chunk = <<i, k>> /\ l.value = <<i, k>> BY <2>1 DEF LandedAs, LandedInv
  <2>3. Land(<<i, k>>, <<i, k>>) BY <2>1, <2>2
  <2>4. ~Visible(i, k) /\ Visible(i, k)' BY <1>2, <1>5 DEF Visible
  <2>5. k \in a.retired..a.posted-1
    <3>1. ~(k \in 0..a.waitCopy-1) BY <1>5 DEF RecvInv
    <3> QED BY <1>1, <3>1 DEF RecvFacts
  <2>6. ASSUME NEW j \in Nat, j # k PROVE Visible(i, j)' <=> Visible(i, j)
    <3>1. LandedAs(<<i, j>>)' = LandedAs(<<i, j>>)
      <4>1. \A l2 \in landed : l2.chunk = <<i, j>> => l2 \notin now BY <2>6 DEF LandedAs
      <4> QED BY <4>1 DEF LandedAs
    <3> QED BY <3>1 DEF Visible
  <2>7. <<i, k>> \in Nat \X Nat BY <1>1 DEF RecvFacts
  <2>8. WritesChunk(k, <<i, k>>) BY <2>3, <2>4, <2>5, <2>6, <2>7 DEF WritesChunk
  <2>9. /\ DataInv' /\ IsData(data') /\ staging'["send"] = staging["send"]
        /\ staging' \in [Side -> [Slot -> Nat \X Nat]]
    BY <2>8, LandData
  <2> QED BY <1>2, <1>3, <2>9
<1> QED BY <1>4, <1>5

\* A step that makes a chunk visible keeps the rest of the invariant.
LEMMA LandsInv ==
  ASSUME PipelineInv, UNCHANGED <<setVars, cur, transport, executed, moved>>,
         args' \in [Side -> Args], args'["send"] = args["send"],
         args'["recv"].posted = args["recv"].posted,
         requests' \in [Side -> Requests], netCompleted' \in [Slot -> BOOLEAN],
         landed' \subseteq landed, IsData(data'), staging' \in [Side -> [Slot -> Nat \X Nat]],
         staging'["send"] = staging["send"], RecvInv', LandedInv', DataInv'
  PROVE  PipelineInv'
<1> USE Sides DEF PipelineInv, setVars
<1>1. PipelineType' BY DEF PipelineType
<1>2. SendInv' BY SendFrame
<1>3. \A s \in Side : args[s].posted <= args'[s].posted /\ args'[s].posted \in Nat
  <2>1. /\ args["send"].posted \in Nat /\ args["recv"].posted \in Nat BY DEF PipelineType, Args
  <2>2. args["send"].posted <= args'["send"].posted /\ args["recv"].posted <= args'["recv"].posted
    BY <2>1
  <2> QED BY <2>1, <2>2
<1>4. MovedInv' BY <1>3, MovedFrame
<1> QED BY <1>1, <1>2, <1>4

LEMMA FlushInv == ASSUME PipelineInv, NEW answer, Flush(answer) PROVE PipelineInv'
<1> USE Sides, OpFacts, SlotFacts DEF PipelineInv
<1> DEFINE i == cur["recv"]
           a == args["recv"]
           k == a.postFlush
           now == LandedAs(<<i, k>>)
           x == SlotOf(k)
           r == IF answer = "request" THEN "flush" ELSE "0x1"
<1>1. /\ UNCHANGED <<setVars, cur, transport, netCompleted, executed, moved>>
      /\ i \in Op /\ k < a.posted /\ netCompleted[x]
      /\ IF flushRequired THEN answer \in {"request", "done", "none"} ELSE answer = "skip"
      /\ answer = "none" => UNCHANGED <<args, requests, landed, staging, data>>
      /\ answer # "none" => /\ args' = [args EXCEPT !["recv"].postFlush = @ + 1]
                            /\ requests' = [requests EXCEPT !["recv"][x] = r]
      /\ answer \in {"request", "skip"} => UNCHANGED <<landed, staging, data>>
      /\ answer = "done" => LandAll(now) /\ landed' = landed \ now
  BY DEF Flush, At, FlushReady
<1>2. RecvFacts BY <1>1, RecvFactsHold
<1>3. CASE answer = "none" BY <1>1, <1>3, QuietInv DEF devVars, netVars
<1>4. CASE answer # "none"
  <2> DEFINE u == [a EXCEPT !.postFlush = a.postFlush + 1]
             new == [requests["recv"] EXCEPT ![x] = r]
             Left(c) == {l \in landed' : l.chunk = c}
  <2>1. /\ u \in Args /\ u.postFlush = k + 1 /\ u.waitCopy = a.waitCopy /\ u.posted = a.posted
        /\ u.retired = a.retired
    <3>1. a \in Args /\ a.postFlush + 1 \in Nat BY <1>2 DEF RecvFacts
    <3>2. u = [a EXCEPT !.postFlush = a.postFlush + 1] OBVIOUS
    <3> HIDE DEF u, a
    <3> QED BY <3>1, <3>2, ArgsPostFlush
  <2>2. args' = [args EXCEPT !["recv"] = u] BY <1>1, <1>4
  <2>3. k \in Nat /\ x \in Slot BY <1>2 DEF RecvFacts
  <2>4. /\ new \in Requests /\ new[x] = r /\ \A y \in Slot : y # x => new[y] = requests["recv"][y]
    BY <1>2, <2>3 DEF RecvFacts, Requests
  <2>5. requests' = [requests EXCEPT !["recv"] = new] BY <1>1, <1>4
  <2> HIDE DEF u, new
  <2>6. /\ args'["recv"] = u /\ args'["send"] = args["send"] /\ args' \in [Side -> Args]
        /\ requests' \in [Side -> Requests] /\ requests'["recv"] = new
    BY <1>2, <2>1, <2>2, <2>4, <2>5 DEF RecvFacts
  <2>7. <<i, k>> \in moved
    <3>1. k \in k..a.posted-1 BY <1>1, <1>2 DEF RecvFacts
    <3> QED BY <1>1, <3>1 DEF RecvInv
  <2>8. landed' \subseteq landed /\ (r = "0x1" => Left(<<i, k>>) = {})
    <3>1. CASE answer = "done" BY <1>1, <3>1 DEF LandedAs
    <3>2. CASE answer = "request" BY <1>1, <3>2
    <3>3. CASE answer = "skip" BY <1>1, <3>3 DEF LandedAs, LandedInv
    <3> QED BY <1>1, <1>4, <3>1, <3>2, <3>3
  <2>9. \A c : LandedAs(c) = {} => Left(c) = {} BY <2>8 DEF LandedAs
  <2>10. RecvInv'
    <3>1. a.waitCopy <= k + 1 /\ k + 1 <= a.posted BY <1>1, <1>2, SMTT(60) DEF RecvFacts
    <3>2. ASSUME NEW j \in 0..(k + 1)-1 PROVE <<i, j>> \in moved
      <4>1. CASE j = k BY <2>7, <4>1
      <4>2. CASE j # k
        <5>1. j \in 0..k-1 BY <2>3, <4>2
        <5> QED BY <1>1, <5>1 DEF RecvInv
      <4> QED BY <4>1, <4>2
    <3>3. \A j \in k+1..a.posted-1 : j \in k..a.posted-1 BY <1>2 DEF RecvFacts
    <3>4. ASSUME NEW j \in a.waitCopy..(k + 1)-1, new[SlotOf(j)] = "0x1"
          PROVE  Left(<<i, j>>) = {}
      <4>1. CASE j = k BY <2>4, <2>8, <3>4, <4>1
      <4>2. CASE j # k
        <5>0. a.retired \in Nat /\ a.waitCopy \in Nat /\ a.posted \in Nat
              /\ a.retired <= a.waitCopy /\ a.waitCopy <= k /\ k < a.posted
          BY <1>1, <1>2 DEF RecvFacts
        <5>1. /\ j \in a.waitCopy..k-1 /\ j \in a.retired..a.posted-1 /\ k \in a.retired..a.posted-1
              /\ j \in Nat
          BY <2>3, <4>2, <5>0, SMTT(60)
        <5>2. SlotOf(j) # x BY <1>2, <4>2, <5>1, OneSlotEach DEF RecvFacts
        <5>3. requests["recv"][SlotOf(j)] = "0x1" BY <2>4, <3>4, <5>1, <5>2
        <5>4. LandedAs(<<i, j>>) = {} BY <1>1, <5>1, <5>3 DEF RecvInv
        <5> QED BY <2>9, <5>4
      <4> QED BY <4>1, <4>2
    <3>5. \A j \in 0..a.waitCopy-1 : Left(<<i, j>>) = {} BY <1>1, <2>9 DEF RecvInv
    <3>6. /\ cur' = cur /\ transport' = transport /\ netCompleted' = netCompleted
          /\ executed' = executed /\ moved' = moved /\ regBufFlag' = regBufFlag
      BY <1>1 DEF setVars
    <3>7. \A j : LandedAs(<<cur["recv"], j>>)' = Left(<<i, j>>) BY <3>6 DEF LandedAs
    <3>8. /\ a.retired <= a.waitCopy /\ a.posted <= StepsOf[i] /\ a.posted <= a.retired + Chunks
          /\ executed["recv"] <= a.waitCopy
          /\ regBufFlag["recv"] \/ a.retired <= executed["recv"]
          /\ Window(transport["recv"], 0, a.retired, a.posted)
          /\ \A j \in a.retired..a.posted-1 : Tracks(transport["recv"].scoreboard, "pending", j)
          /\ \A j \in k..a.posted-1 : netCompleted[SlotOf(j)] => <<i, j>> \in moved
      BY <1>1 DEF RecvInv
    <3> HIDE DEF Left
    <3> QED BY <2>1, <2>6, <3>1, <3>2, <3>3, <3>4, <3>5, <3>6, <3>7, <3>8 DEF RecvInv
  <2>11. CASE answer \in {"request", "skip"}
    <3>1. a.posted <= args'["recv"].posted BY <1>2, <2>1, <2>6 DEF RecvFacts
    <3>2. UNCHANGED <<devVars, netVars>> BY <1>1, <2>11 DEF devVars, netVars
    <3> QED BY <1>1, <1>2, <2>6, <2>10, <3>1, <3>2, RecvWindowInv DEF RecvFacts
  <2>12. CASE answer = "done"
    <3>1. k \in 0..a.posted-1 BY <1>1, <1>2 DEF RecvFacts
    <3>2. args'["recv"].posted = a.posted BY <2>1, <2>6
    <3>3. LandAll(now) /\ landed' = landed \ now BY <1>1, <2>12
    <3>4. /\ DataInv' /\ LandedInv' /\ IsData(data') /\ staging' \in [Side -> [Slot -> Nat \X Nat]]
          /\ staging'["send"] = staging["send"]
      BY <1>1, <2>7, <3>1, <3>2, <3>3, FlushLands DEF setVars
    <3> QED BY <1>1, <1>2, <2>6, <2>8, <2>10, <3>2, <3>4, LandsInv DEF RecvFacts
  <2> QED BY <1>1, <1>4, <2>11, <2>12
<1> QED BY <1>3, <1>4

LEMMA NetFlushInv == ASSUME PipelineInv, NetFlush PROVE PipelineInv'
<1> USE Sides, OpFacts, SlotFacts DEF PipelineInv
<1> DEFINE i == cur["recv"]
           a == args["recv"]
<1>1. PICK k \in 0..a.postFlush-1 :
        /\ LandAll(LandedAs(<<i, k>>)) /\ landed' = landed \ LandedAs(<<i, k>>)
        /\ UNCHANGED <<setVars, callVars, executed, moved>> /\ LandedAs(<<i, k>>) # {}
  BY DEF NetFlush
<1>7. i \in Op
  <2>1. PICK l \in landed : l.chunk = <<i, k>> BY <1>1 DEF LandedAs
  <2>2. l.chunk \in Chunk BY DEF PipelineType
  <2> QED BY <2>1, <2>2
<1>2. RecvFacts BY <1>7, RecvFactsHold
<1>3. /\ UNCHANGED <<setVars, cur, args, transport, requests, netCompleted, executed, moved>>
      /\ landed' \subseteq landed
  BY <1>1 DEF callVars
<1>4. k \in 0..a.posted-1 /\ <<i, k>> \in moved
  <2>1. k \in 0..a.posted-1 BY <1>2 DEF RecvFacts
  <2> QED BY <1>7, <2>1 DEF RecvInv
<1>5. /\ DataInv' /\ LandedInv' /\ IsData(data') /\ staging' \in [Side -> [Slot -> Nat \X Nat]]
      /\ staging'["send"] = staging["send"]
  BY <1>1, <1>3, <1>4, <1>7, FlushLands DEF setVars
<1>6. RecvInv' BY <1>3, RecvFrame DEF setVars
<1> QED BY <1>2, <1>3, <1>5, <1>6, LandsInv DEF RecvFacts

\* The network moves a chunk of both sides' windows, and reads its content.
LEMMA NetMoveInv == ASSUME PipelineInv, NEW c \in Chunk, NetMove(c) PROVE PipelineInv'
<1> USE Sides, OpFacts, SlotFacts DEF PipelineInv
<1> DEFINE v == IF regBufFlag["send"] THEN SendData(c[1], c[2]) ELSE staging["send"][SlotOf(c[2])]
           w == IF flushRequired THEN Empty ELSE v
<1>1. /\ c \notin moved /\ Posted("send", c) /\ Posted("recv", c) /\ moved' = moved \cup {c}
      /\ UNCHANGED <<regBufFlag, flushRequired, cur, args, transport, requests, netCompleted, executed>>
      /\ Land(c, w)
      /\ landed' = IF flushRequired THEN landed \cup {[chunk |-> c, value |-> v]} ELSE landed
  BY DEF NetMove, setVars, callVars
<1>0. PICK i \in Op : \E j \in 0..StepsOf[i]-1 : c = <<i, j>> OBVIOUS
<1>2. PICK k \in 0..StepsOf[i]-1 : c = <<i, k>> BY <1>0
<1>3. /\ cur["send"] = i /\ cur["recv"] = i /\ k < args["send"].posted /\ k < args["recv"].posted
      /\ i \in Nat /\ k \in Nat
  <2>1. c[1] = i /\ c[2] = k BY <1>2
  <2>2. ~(c[1] < cur["send"]) /\ ~(c[1] < cur["recv"]) BY <1>1 DEF MovedInv
  <2> QED BY <1>1, <2>1, <2>2 DEF Posted
<1>4. /\ args["send"].retired \in Nat /\ args["send"].posted \in Nat /\ executed["send"] \in Nat
      /\ args["recv"].retired \in Nat /\ args["recv"].posted \in Nat
  BY DEF PipelineType, Args
<1>5. v = c
  <2>1. k \in args["send"].retired..args["send"].posted-1
    <3>1. ~(k \in 0..args["send"].retired-1) BY <1>1, <1>2, <1>3 DEF SendInv
    <3> QED BY <1>3, <1>4, <3>1, SMTT(60)
  <2>2. CASE regBufFlag["send"] BY <1>2, <1>3, <2>2 DEF SendData
  <2>3. CASE ~regBufFlag["send"]
    <3>1. args["send"].posted <= executed["send"] BY <1>3, <2>3 DEF SendInv
    <3>2. k \in args["send"].retired..executed["send"]-1 BY <1>4, <2>1, <3>1, SMTT(60)
    <3>3. staging["send"][SlotOf(k)] = <<i, k>> BY <1>3, <2>3, <3>2 DEF SendInv
    <3> QED BY <1>2, <2>3, <3>3
  <2> QED BY <2>2, <2>3
<1> HIDE DEF v
<1>6. k \in args["recv"].retired..args["recv"].posted-1
  <2>1. RecvFacts BY <1>3, RecvFactsHold
  <2>2. ~(k \in 0..args["recv"].postFlush-1) BY <1>1, <1>2, <1>3 DEF RecvInv
  <2>3. args["recv"].postFlush \in Nat /\ args["recv"].retired <= args["recv"].postFlush
    BY <2>1, SMTT(60) DEF RecvFacts
  <2> DEFINE lo == args["recv"].retired
             mid == args["recv"].postFlush
             hi == args["recv"].posted
  <2>4. lo \in Nat /\ mid \in Nat /\ hi \in Nat /\ lo <= mid /\ k < hi /\ k \in Nat
        /\ ~(k \in 0..mid-1)
    BY <1>3, <1>4, <2>2, <2>3
  <2> HIDE DEF lo, mid, hi
  <2>5. k \in lo..hi-1 BY <2>4
  <2> QED BY <2>5 DEF lo, hi
<1>7. \A l \in landed : l.chunk \in moved /\ l.chunk # c BY <1>1 DEF LandedInv
<1>8. ~Visible(i, k) /\ (Visible(i, k)' <=> ~flushRequired)
  <2>1. ~Visible(i, k) BY <1>1, <1>2 DEF Visible
  <2>2. CASE flushRequired
    <3>1. [chunk |-> c, value |-> v] \in landed' BY <1>1, <2>2
    <3>2. [chunk |-> c, value |-> v].chunk = c OBVIOUS
    <3> QED BY <1>2, <2>1, <2>2, <3>1, <3>2 DEF Visible, LandedAs
  <2>3. CASE ~flushRequired
    <3>1. {l \in landed' : l.chunk = c} = {} BY <1>1, <1>7, <2>3
    <3> QED BY <1>1, <1>2, <2>1, <2>3, <3>1 DEF Visible, LandedAs
  <2> QED BY <2>2, <2>3
<1>9. ASSUME NEW j \in Nat, j # k PROVE Visible(i, j)' <=> Visible(i, j)
  <2>1. <<i, j>> # c BY <1>2, <1>9
  <2>2. <<i, j>> \in moved' <=> <<i, j>> \in moved BY <1>1, <2>1
  <2>3. \A l \in landed' : l.chunk = <<i, j>> => l \in landed BY <1>1, <2>1
  <2>4. landed \subseteq landed' BY <1>1
  <2> QED BY <2>2, <2>3, <2>4 DEF Visible, LandedAs
<1>10. WritesChunk(k, w)
  <2>1. w \in Nat \X Nat BY <1>2, <1>3, <1>5 DEF Empty
  <2>2. w = IF Visible(i, k)' THEN <<i, k>> ELSE Empty BY <1>2, <1>5, <1>8
  <2>3. Land(<<i, k>>, w) BY <1>1, <1>2
  <2> HIDE DEF w
  <2> QED BY <1>1, <1>3, <1>6, <1>8, <1>9, <2>1, <2>2, <2>3 DEF WritesChunk
<1>11. /\ DataInv' /\ IsData(data') /\ staging'["send"] = staging["send"]
       /\ staging' \in [Side -> [Slot -> Nat \X Nat]]
  BY <1>10, LandData
<1>12. PipelineType'
  <2>1. [chunk |-> c, value |-> v] \in [chunk : Chunk, value : Chunk] BY <1>5
  <2>2. landed' \subseteq [chunk : Chunk, value : Chunk] BY <1>1, <2>1 DEF PipelineType
  <2>3. moved' \subseteq Chunk BY <1>1 DEF PipelineType
  <2> QED BY <1>1, <1>11, <2>2, <2>3 DEF PipelineType
<1>13. SendInv' BY <1>1, <1>11, SendFrame
<1>14. RecvInv'
  <2>1. \A l \in landed' : l \in landed \/ l.chunk \notin moved BY <1>1
  <2> QED BY <1>1, <2>1, RecvFrame
<1>15. MovedInv' BY <1>1 DEF MovedInv, Posted
<1>16. LandedInv'
  <2>1. ASSUME NEW l \in landed'
        PROVE  flushRequired /\ l.chunk \in moved' /\ l.value = l.chunk /\ l.chunk[1] = i
    <3>1. CASE l \in landed BY <1>1, <1>3, <3>1 DEF LandedInv
    <3>2. CASE l \notin landed
      <4>1. flushRequired /\ l = [chunk |-> c, value |-> v] BY <1>1, <3>2
      <4> QED BY <1>1, <1>2, <1>5, <4>1
    <3> QED BY <3>1, <3>2
  <2> QED BY <1>1, <1>3, <2>1 DEF LandedInv
<1> QED BY <1>11, <1>12, <1>13, <1>14, <1>15, <1>16

LEMMA DeviceCopySendInv == ASSUME PipelineInv, DeviceCopy("send") PROVE PipelineInv'
<1> USE Sides, OpFacts, SlotFacts DEF PipelineInv
<1> DEFINE i == cur["send"]
           a == args["send"]
           k == executed["send"]
<1>1. /\ UNCHANGED <<regBufFlag, flushRequired, cur, args, transport, requests, netCompleted>>
      /\ UNCHANGED <<data, moved, landed>>
      /\ i \in Op /\ ~regBufFlag["send"] /\ k < a.waitCopy
      /\ executed' = [executed EXCEPT !["send"] = k + 1]
      /\ staging' = SetEntry(staging, "send", SlotOf(k), <<i, k>>)
  <2>1. i \in Op => SendData(i, k) = <<i, k>> BY DEF SendData
  <2> QED BY <2>1 DEF DeviceCopy, setVars, callVars, netVars, SetEntry
<1>2. /\ a.waitCopy \in Nat /\ a.posted \in Nat /\ a.retired \in Nat /\ k \in Nat
      /\ executed \in [Side -> Nat] /\ IsStaging(staging)
      /\ a.posted <= k /\ a.retired <= a.posted /\ a.waitCopy <= a.retired + Chunks
  BY <1>1 DEF PipelineType, Args, SendInv, IsStaging, Window
<1>3. /\ executed' \in [Side -> Nat] /\ executed'["send"] = k + 1
      /\ executed'["recv"] = executed["recv"]
  BY <1>1, <1>2
<1>4. SlotOf(k) \in Slot /\ <<i, k>> \in Nat \X Nat BY <1>1, <1>2
<1>5. /\ IsStaging(staging') /\ staging'["send"][SlotOf(k)] = <<i, k>>
      /\ \A y \in Slot : y # SlotOf(k) => staging'["send"][y] = staging["send"][y]
      /\ staging'["recv"] = staging["recv"]
  <2> DEFINE x == SlotOf(k)
             w == <<i, k>>
  <2>1. x \in Slot /\ w \in Nat \X Nat /\ staging' = SetEntry(staging, "send", x, w)
        /\ IsStaging(staging)
    BY <1>1, <1>2, <1>4
  <2> HIDE DEF x, w
  <2>2. IsStaging(staging') /\ staging'["send"][x] = w BY <2>1, SetStaging
  <2>3. /\ \A y \in Slot : y # x => staging'["send"][y] = staging["send"][y]
        /\ \A r \in Side : r # "send" => staging'[r] = staging[r]
    BY <2>1, SetStaging
  <2> QED BY <2>2, <2>3 DEF x, w
<1>6. PipelineType' BY <1>1, <1>3, <1>5 DEF PipelineType, IsStaging
<1>7. SendInv'
  <2>1. ASSUME NEW j \in a.retired..(k + 1)-1 PROVE staging'["send"][SlotOf(j)] = <<i, j>>
    <3>1. CASE j = k BY <1>5, <3>1
    <3>2. CASE j # k
      <4>0. k < a.waitCopy /\ a.retired <= k BY <1>1, <1>2
      <4> HIDE DEF a, k, i
      <4>1. /\ j \in a.retired..k-1 /\ j \in a.retired..a.waitCopy-1 /\ k \in a.retired..a.waitCopy-1
            /\ j \in Nat
        BY <1>2, <3>2, <4>0, SMTT(60)
      <4> USE DEF a, k, i
      <4>2. SlotOf(j) # SlotOf(k) BY <1>2, <3>2, <4>1, OneSlotEach
      <4>3. staging["send"][SlotOf(j)] = <<i, j>> BY <1>1, <4>1 DEF SendInv
      <4> QED BY <1>5, <4>1, <4>2, <4>3
    <3> QED BY <3>1, <3>2
  <2>2. k + 1 <= a.waitCopy /\ a.posted <= k + 1 BY <1>1, <1>2, SMTT(60)
  <2> QED BY <1>1, <1>3, <2>1, <2>2 DEF SendInv
<1>8. RecvInv' BY <1>1, <1>3, RecvFrame
<1>9. MovedInv' BY <1>1 DEF MovedInv, Posted
<1>10. LandedInv' BY <1>1, LandedFrame
<1>11. DataInv' BY <1>1, <1>3, <1>5, DataFrame
<1> QED BY <1>6, <1>7, <1>8, <1>9, <1>10, <1>11

LEMMA DeviceCopyRecvInv == ASSUME PipelineInv, DeviceCopy("recv") PROVE PipelineInv'
<1> USE Sides, OpFacts, SlotFacts DEF PipelineInv
<1> DEFINE i == cur["recv"]
           a == args["recv"]
           k == executed["recv"]
<1>1. /\ UNCHANGED <<regBufFlag, flushRequired, cur, args, transport, requests, netCompleted>>
      /\ UNCHANGED <<staging, moved, landed>>
      /\ i \in Op /\ ~regBufFlag["recv"] /\ k < a.waitCopy
      /\ executed' = [executed EXCEPT !["recv"] = k + 1]
      /\ data' = SetEntry(data, i, k, staging["recv"][SlotOf(k)])
  BY DEF DeviceCopy, setVars, callVars, netVars, SetEntry
<1>2. RecvFacts BY <1>1, RecvFactsHold
<1>3. k \in Nat /\ i \in Nat /\ k \in 0..StepsOf[i]-1 /\ k \in k..a.posted-1
  <2>1. /\ k \in Nat /\ i \in Nat /\ a.waitCopy \in Nat /\ a.postFlush \in Nat /\ a.posted \in Nat
        /\ StepsOf[i] \in Nat /\ k < a.waitCopy /\ a.waitCopy <= a.postFlush
        /\ a.postFlush <= a.posted /\ a.posted <= StepsOf[i]
    BY <1>1, <1>2 DEF RecvFacts
  <2> HIDE DEF a, k, i
  <2> QED BY <2>1, SMTT(60)
<1>4. /\ executed' \in [Side -> Nat] /\ executed'["recv"] = k + 1
      /\ executed'["send"] = executed["send"]
  <2>1. executed \in [Side -> Nat] BY DEF PipelineType
  <2>2. k + 1 \in Nat BY <1>3
  <2>3. executed' = [executed EXCEPT !["recv"] = k + 1] BY <1>1
  <2> HIDE DEF k
  <2> QED BY <2>1, <2>2, <2>3
<1>5. staging["recv"][SlotOf(k)] = <<i, k>>
  <2>1. Visible(i, k)
    <3>1. k \in 0..a.waitCopy-1 /\ k \in 0..a.postFlush-1 BY <1>1, <1>2, <1>3, SMTT(60) DEF RecvFacts
    <3> QED BY <1>1, <3>1 DEF RecvInv, Visible
  <2> QED BY <1>1, <1>3, <2>1 DEF DataInv
<1>6. /\ IsData(data') /\ data'[i][k] = <<i, k>>
      /\ \A h \in Op : \A j \in 0..StepsOf[h]-1 : h # i \/ j # k => data'[h][j] = data[h][j]
  <2>1. IsData(data) BY DEF PipelineType
  <2>2. data' = SetEntry(data, i, k, <<i, k>>) BY <1>1, <1>5
  <2> DEFINE w == <<i, k>>
  <2>3. data' = SetEntry(data, i, k, w) /\ i \in Op /\ k \in 0..StepsOf[i]-1 BY <1>1, <1>3, <2>2
  <2> HIDE DEF w, i, k
  <2>4. /\ IsData(data') /\ data'[i][k] = w
        /\ \A h \in Op : \A j \in 0..StepsOf[h]-1 : h # i \/ j # k => data'[h][j] = data[h][j]
    BY <2>1, <2>3, SetData
  <2> QED BY <2>4 DEF w
<1>7. PipelineType' BY <1>1, <1>4, <1>6 DEF PipelineType
<1>8. SendInv' BY <1>1, <1>4, SendFrame
<1>9. RecvInv'
  <2>1. k + 1 <= a.waitCopy /\ (a.retired <= k => a.retired <= k + 1) BY <1>1, <1>2, <1>3, SMTT(60) DEF RecvFacts
  <2>2. \A d : LandedAs(d)' = LandedAs(d) BY <1>1 DEF LandedAs
  <2> QED BY <1>1, <1>4, <2>1, <2>2 DEF RecvInv
<1>10. MovedInv' BY <1>1 DEF MovedInv, Posted
<1>11. LandedInv' BY <1>1, LandedFrame
<1>12. DataInv'
  <2>1. \A h, j : Visible(h, j)' <=> Visible(h, j) BY <1>1 DEF Visible, LandedAs
  <2>2. ASSUME NEW h \in Op, NEW j \in 0..StepsOf[h]-1
        PROVE  data'[h][j] = IF Arrived(h, j)' THEN <<h, j>> ELSE Empty
    <3>1. /\ Arrived(h, j) <=> (h < i \/ (h = i /\ j < k))
          /\ Arrived(h, j)' <=> (h < i \/ (h = i /\ j < k + 1))
      BY <1>1, <1>4 DEF Arrived
    <3>2. CASE h = i /\ j = k
      <4>1. j < k + 1 BY <1>3, <3>2
      <4> QED BY <1>6, <3>1, <3>2, <4>1
    <3>3. CASE h # i \/ j # k
      <4>1. Arrived(h, j)' <=> Arrived(h, j) BY <1>3, <3>1, <3>3
      <4>2. data[h][j] = IF Arrived(h, j) THEN <<h, j>> ELSE Empty BY DEF DataInv
      <4> QED BY <1>6, <3>3, <4>1, <4>2
    <3> QED BY <3>2, <3>3
  <2>3. \A j \in k+1..a.posted-1 : j \in k..a.posted-1 BY <1>2 DEF RecvFacts
  <2>4. \A j \in k+1..a.posted-1 : Visible(i, j) => staging["recv"][SlotOf(j)] = <<i, j>>
    BY <1>1, <2>3 DEF DataInv
  <2> QED BY <1>1, <1>4, <2>1, <2>2, <2>4 DEF DataInv
<1> QED BY <1>7, <1>8, <1>9, <1>10, <1>11, <1>12

\* A receive ends when all its chunks are in the user's buffer.
LEMMA FinishRecvInv == ASSUME PipelineInv, Finish("recv") PROVE PipelineInv'
<1> USE Sides, OpFacts, SlotFacts DEF PipelineInv
<1> DEFINE i == cur["recv"]
           a == args["recv"]
           new == [x \in Slot |-> "null"]
<1>1. /\ UNCHANGED <<regBufFlag, flushRequired, staging, data, moved, landed>>
      /\ i \in Op /\ ~(a.retired < StepsOf[i])
      /\ cur' = [cur EXCEPT !["recv"] = i + 1]
      /\ args' = [args EXCEPT !["recv"] = NewArgs]
      /\ transport' = IF i + 1 \in Op THEN [transport EXCEPT !["recv"] = NewTransport("recv", i + 1)]
                                      ELSE transport
      /\ requests' = [requests EXCEPT !["recv"] = new]
      /\ netCompleted' = [x \in Slot |-> FALSE]
      /\ executed' = [executed EXCEPT !["recv"] = 0]
  BY DEF Finish, At, Retiring, Steps, setVars, netVars
<1>2. RecvFacts BY <1>1, RecvFactsHold
<1>3. /\ a.retired = StepsOf[i] /\ a.waitCopy = StepsOf[i] /\ a.postFlush = StepsOf[i]
      /\ a.posted = StepsOf[i] /\ (regBufFlag["recv"] \/ executed["recv"] = StepsOf[i])
      /\ i \in Nat
  <2>1. /\ a.retired \in Nat /\ a.waitCopy \in Nat /\ a.postFlush \in Nat /\ a.posted \in Nat
        /\ StepsOf[i] \in Nat /\ executed["recv"] \in Nat /\ i \in Nat
        /\ a.retired <= a.waitCopy /\ a.waitCopy <= a.postFlush /\ a.postFlush <= a.posted
        /\ a.posted <= StepsOf[i] /\ executed["recv"] <= a.waitCopy
    BY <1>2 DEF RecvFacts
  <2>2. regBufFlag["recv"] \/ a.retired <= executed["recv"] BY <1>1 DEF RecvInv
  <2>3. ~(a.retired < StepsOf[i]) BY <1>1
  <2> HIDE DEF a, i
  <2> QED BY <2>1, <2>2, <2>3
<1>4. /\ DOMAIN args = Side /\ DOMAIN transport = Side /\ DOMAIN requests = Side
      /\ DOMAIN cur = Side /\ DOMAIN executed = Side
  BY DEF PipelineType
<1>5. /\ cur'["recv"] = i + 1 /\ cur'["send"] = cur["send"]
      /\ args'["recv"] = NewArgs /\ args'["send"] = args["send"]
      /\ requests'["recv"] = new /\ requests'["send"] = requests["send"]
      /\ executed'["recv"] = 0 /\ executed'["send"] = executed["send"]
      /\ transport'["send"] = transport["send"]
      /\ i + 1 \in Op => transport'["recv"] = NewTransport("recv", i + 1)
      /\ DOMAIN args' = Side /\ DOMAIN transport' = Side /\ DOMAIN requests' = Side
      /\ DOMAIN cur' = Side /\ DOMAIN executed' = Side
  BY <1>1, <1>4
<1>6. /\ NewArgs \in Args /\ NewArgs.retired = 0 /\ NewArgs.posted = 0 /\ NewArgs.waitCopy = 0
      /\ NewArgs.postFlush = 0
  BY DEF NewArgs, Args
<1>7. PipelineType'
  <2>1. i + 1 \in 1..N+1 BY <1>1
  <2>2. new \in Requests BY DEF Requests
  <2>3. netCompleted' \in [Slot -> BOOLEAN] BY <1>1
  <2> HIDE DEF new
  <2> QED BY <1>1, <1>4, <1>5, <1>6, <2>1, <2>2, <2>3 DEF PipelineType
<1>8. SendInv' BY <1>1, <1>5, SendFrame
<1>9. RecvInv'
  <2>1. SUFFICES ASSUME i + 1 \in Op PROVE RecvInv' BY <1>5 DEF RecvInv
  <2>2. Window(transport'["recv"], 0, 0, 0) BY <1>5, <2>1, WindowNew DEF Base
  <2>3. StepsOf[i + 1] \in Nat BY <2>1
  <2> QED BY <1>1, <1>5, <1>6, <2>1, <2>2, <2>3 DEF RecvInv
<1>10. MovedInv'
  <2>1. ASSUME NEW c \in moved, NEW s \in Side PROVE Posted(s, c)'
    <3>1. Posted(s, c) /\ c \in Chunk BY DEF MovedInv, PipelineType
    <3>2. CASE s = "send" BY <1>5, <3>1, <3>2 DEF Posted
    <3>3. CASE s = "recv" BY <1>1, <1>5, <3>1, <3>3 DEF Posted
    <3> QED BY <3>2, <3>3
  <2>2. ASSUME NEW s \in Side, NEW c \in Chunk, c[1] < cur'[s] PROVE c \in moved
    <3>1. CASE c[1] < cur[s] BY <3>1 DEF MovedInv
    <3>2. CASE ~(c[1] < cur[s])
      <4>1. s = "recv" BY <1>5, <2>2, <3>2
      <4>2. c[1] = i BY <1>1, <1>5, <2>2, <3>2, <4>1
      <4>3. c = <<i, c[2]>> /\ c[2] \in 0..a.postFlush-1 BY <1>3, <4>2
      <4> QED BY <1>1, <4>3 DEF RecvInv
    <3> QED BY <3>1, <3>2
  <2> QED BY <1>1, <2>1, <2>2 DEF MovedInv
<1>11. \A k \in 0..StepsOf[i]-1 : <<i, k>> \in moved /\ LandedAs(<<i, k>>) = {}
  BY <1>1, <1>3 DEF RecvInv
<1>12. landed = {}
  <2>1. ASSUME NEW l \in landed PROVE FALSE
    <3>1. l.chunk \in Chunk /\ l.chunk[1] = i BY DEF LandedInv, PipelineType
    <3>2. l.chunk = <<i, l.chunk[2]>> /\ l.chunk[2] \in 0..StepsOf[i]-1 BY <3>1
    <3> QED BY <1>11, <3>2 DEF LandedAs
  <2> QED BY <2>1
<1>13. LandedInv' BY <1>1, <1>12 DEF LandedInv
<1>14. DataInv'
  <2>1. ASSUME NEW h \in Op, NEW k \in 0..StepsOf[h]-1 PROVE Arrived(h, k)' <=> Arrived(h, k)
    <3>1. h \in Nat /\ k \in Nat OBVIOUS
    <3>2. CASE h < i BY <1>3, <1>5, <3>1, <3>2 DEF Arrived
    <3>3. CASE h = i
      <4>1. Visible(i, k) BY <1>11, <3>3 DEF Visible
      <4>2. k < StepsOf[i] BY <3>3
      <4>3. Arrived(h, k) BY <1>3, <3>3, <4>1, <4>2 DEF Arrived
      <4>4. h < cur'["recv"] BY <1>3, <1>5, <3>3
      <4> QED BY <4>3, <4>4 DEF Arrived
    <3>4. CASE h > i
      <4>1. ~Arrived(h, k) BY <1>3, <3>1, <3>4 DEF Arrived
      <4>2. <<h, k>> \notin moved
        <5>1. ~Posted("recv", <<h, k>>) BY <1>3, <3>1, <3>4 DEF Posted
        <5> QED BY <5>1 DEF MovedInv
      <4>3. ~Visible(h, k)' BY <1>1, <4>2 DEF Visible
      <4>4. ~(h < cur'["recv"]) BY <1>3, <1>5, <3>1, <3>4
      <4>5. ~(k < executed'["recv"]) BY <1>5, <3>1
      <4>6. ~Arrived(h, k)' BY <4>3, <4>4, <4>5 DEF Arrived
      <4> QED BY <4>1, <4>6
    <3> QED BY <1>3, <3>1, <3>2, <3>3, <3>4
  <2>2. \A k \in executed'["recv"]..args'["recv"].posted-1 : FALSE BY <1>5, <1>6
  <2>3. ASSUME NEW h \in Op, NEW k \in 0..StepsOf[h]-1
        PROVE  data'[h][k] = IF Arrived(h, k)' THEN <<h, k>> ELSE Empty
    <3>1. data[h][k] = IF Arrived(h, k) THEN <<h, k>> ELSE Empty BY DEF DataInv
    <3> QED BY <1>1, <2>1, <3>1
  <2> QED BY <2>2, <2>3 DEF DataInv
<1> QED BY <1>7, <1>8, <1>9, <1>10, <1>13, <1>14

-----------------------------------------------------------------------------
(* The invariant, and the transport *)

LEMMA PipelineNextInv == PipelineInv /\ [PipelineNext]_pipelineVars => PipelineInv'
<1> SUFFICES ASSUME PipelineInv, [PipelineNext]_pipelineVars PROVE PipelineInv' OBVIOUS
<1>1. CASE UNCHANGED pipelineVars BY <1>1, QuietInv DEF pipelineVars, callVars
<1>2. CASE Send
  <2>1. CASE SendCopy BY <2>1, SendCopyInv
  <2>2. CASE SkipStage("send") BY <2>2, SkipStageInv, Sides
  <2>3. CASE \E a \in Answer : Isend(a) BY <2>3, IsendInv
  <2>4. CASE \E D \in Windows : SendPoll(D) BY <2>4, SendPollInv
  <2>5. CASE TestFails("send") BY <2>5, TestFailsInv, Sides
  <2>6. CASE Finish("send") BY <2>6, FinishSendInv
  <2> QED BY <1>2, <2>1, <2>2, <2>3, <2>4, <2>5, <2>6 DEF Send
<1>3. CASE Recv
  <2>1. CASE RecvCopy BY <2>1, RecvCopyInv
  <2>2. CASE RecvRetire BY <2>2, RecvRetireInv
  <2>3. CASE SkipStage("recv") BY <2>3, SkipStageInv, Sides
  <2>4. CASE \E a \in Answer : Irecv(a) BY <2>4, IrecvInv
  <2>5. CASE \E D \in Windows : RecvPoll(D) BY <2>5, RecvPollInv
  <2>6. CASE \E a \in {"request", "done", "none", "skip"} : Flush(a) BY <2>6, FlushInv
  <2>7. CASE TestFails("recv") BY <2>7, TestFailsInv, Sides
  <2>8. CASE Finish("recv") BY <2>8, FinishRecvInv
  <2>9. CASE FlushFails BY <2>9, FlushFailsInv
  <2> QED BY <1>3, <2>1, <2>2, <2>3, <2>4, <2>5, <2>6, <2>7, <2>8, <2>9 DEF Recv
<1>4. CASE \E s \in Side : DeviceCopy(s)
  <2>1. DeviceCopy("send") \/ DeviceCopy("recv") BY <1>4, Sides
  <2> QED BY <2>1, DeviceCopySendInv, DeviceCopyRecvInv
<1>5. CASE \E c \in Chunk : NetMove(c) BY <1>5, NetMoveInv
<1>6. CASE NetFlush BY <1>6, NetFlushInv
<1> QED BY <1>1, <1>2, <1>3, <1>4, <1>5, <1>6 DEF PipelineNext

\* Whatever the window of the sender and of the receiver, the network's order
\* and the flushes: each side's counters follow each other, a slot keeps its
\* chunk while it is needed, and a buffer holds what has arrived and nothing
\* else (flagcxProxySend, flagcxProxyRecv).
THEOREM PipelineInvariant == PipelineSpec => []PipelineInv
<1>1. PipelineInit => PipelineInv BY PipelineInvInit
<1>2. PipelineInv /\ [PipelineNext]_pipelineVars => PipelineInv' BY PipelineNextInv
<1> QED BY <1>1, <1>2, PTL DEF PipelineSpec

\* What a step that ends no operation does: nothing that has arrived is lost.
Grows ==
  /\ cur' = cur /\ regBufFlag' = regBufFlag /\ executed["recv"] <= executed'["recv"]
  /\ moved \subseteq moved' /\ \A l \in landed' : l \in landed \/ l.chunk \notin moved

LEMMA StepGrows ==
  ASSUME PipelineInv, PipelineNext PROVE Grows \/ Finish("send") \/ Finish("recv")
<1> USE DEF setVars, callVars, devVars, netVars
<1>0. executed["recv"] \in Nat /\ executed \in [Side -> Nat]
  BY Sides DEF PipelineInv, PipelineType
<1>1. ASSUME UNCHANGED <<regBufFlag, cur, executed, moved>>, landed' \subseteq landed PROVE Grows
  BY <1>0, <1>1 DEF Grows
<1>2. CASE Send
  <2>1. CASE SendCopy BY <1>1, <2>1 DEF SendCopy
  <2>2. CASE SkipStage("send") BY <1>1, <2>2 DEF SkipStage
  <2>3. CASE \E a \in Answer : Isend(a) BY <1>1, <2>3 DEF Isend
  <2>4. CASE \E D \in Windows : SendPoll(D) BY <1>1, <2>4 DEF SendPoll
  <2>5. CASE TestFails("send") BY <1>1, <2>5 DEF TestFails
  <2> QED BY <1>2, <2>1, <2>2, <2>3, <2>4, <2>5 DEF Send
<1>3. CASE Recv
  <2>1. CASE RecvCopy BY <1>1, <2>1 DEF RecvCopy
  <2>2. CASE RecvRetire BY <1>1, <2>2 DEF RecvRetire
  <2>3. CASE SkipStage("recv") BY <1>1, <2>3 DEF SkipStage
  <2>4. CASE \E a \in Answer : Irecv(a) BY <1>1, <2>4 DEF Irecv
  <2>5. CASE \E D \in Windows : RecvPoll(D) BY <1>1, <2>5 DEF RecvPoll
  <2>6. CASE \E a \in {"request", "done", "none", "skip"} : Flush(a)
    <3>1. PICK a \in {"request", "done", "none", "skip"} : Flush(a) BY <2>6
    <3>2. UNCHANGED <<regBufFlag, cur, executed, moved>> BY <3>1 DEF Flush
    <3>3. landed' \subseteq landed BY <3>1 DEF Flush
    <3> QED BY <1>1, <3>2, <3>3
  <2>7. CASE TestFails("recv") BY <1>1, <2>7 DEF TestFails
  <2>8. CASE FlushFails BY <1>1, <2>8 DEF FlushFails
  <2> QED BY <1>3, <2>1, <2>2, <2>3, <2>4, <2>5, <2>6, <2>7, <2>8 DEF Recv
<1>4. CASE \E s \in Side : DeviceCopy(s)
  <2>1. PICK s \in Side : DeviceCopy(s) BY <1>4
  <2>2. /\ UNCHANGED <<regBufFlag, cur, moved, landed>>
        /\ executed' = [executed EXCEPT ![s] = executed[s] + 1]
    BY <2>1 DEF DeviceCopy
  <2>3. executed["recv"] <= executed'["recv"]
    <3>1. CASE s = "recv" BY <1>0, <2>2, <3>1, Sides
    <3>2. CASE s # "recv" BY <1>0, <2>2, <3>2, Sides
    <3> QED BY <3>1, <3>2
  <2> QED BY <2>2, <2>3 DEF Grows
<1>5. CASE \E c \in Chunk : NetMove(c)
  <2>1. PICK c \in Chunk : NetMove(c) BY <1>5
  <2>2. /\ UNCHANGED <<regBufFlag, cur, executed>> /\ moved' = moved \cup {c} /\ c \notin moved
        /\ \A l \in landed' : l \in landed \/ l.chunk = c
    BY <2>1 DEF NetMove
  <2> QED BY <1>0, <2>2 DEF Grows
<1>6. CASE NetFlush BY <1>1, <1>6 DEF NetFlush
<1>7. CASE UNCHANGED pipelineVars BY <1>1, <1>7 DEF pipelineVars
<1> QED BY <1>2, <1>3, <1>4, <1>5, <1>6, <1>7 DEF PipelineNext

LEMMA ArrivedStays ==
  ASSUME Grows, PipelineInv, PipelineInv', NEW i \in Op, NEW k \in 0..StepsOf[i]-1, Arrived(i, k)
  PROVE  Arrived(i, k)'
<1>1. executed["recv"] \in Nat /\ executed'["recv"] \in Nat /\ k \in Nat
  BY Sides, OpFacts DEF PipelineInv, PipelineType
<1>2. Visible(i, k) => Visible(i, k)'
  <2>1. <<i, k>> \in moved => <<i, k>> \in moved' BY DEF Grows
  <2>2. <<i, k>> \in moved /\ LandedAs(<<i, k>>) = {} => {l \in landed' : l.chunk = <<i, k>>} = {}
    BY DEF Grows, LandedAs
  <2> QED BY <2>1, <2>2 DEF Visible, LandedAs
<1>3. k < executed["recv"] => k < executed'["recv"] BY <1>1 DEF Grows
<1> QED BY <1>2, <1>3 DEF Arrived, Grows

\* How many operations each side has finished: what Transfer's over stands for.
OpsOver == [s \in Side |-> cur[s] - 1]

LEMMA TransferNames ==
  T!Empty = Empty /\ T!Op = Op
BY DEF T!Empty, Empty, T!Op, Op

LEMMA GrowsDelivers ==
  ASSUME PipelineInv, PipelineInv', Grows, data' # data
  PROVE  T!Deliver
<1> USE Sides, OpFacts
<1>1. /\ \A h \in Op : \A j \in 0..StepsOf[h]-1 :
           /\ data[h][j] = IF Arrived(h, j) THEN <<h, j>> ELSE Empty
           /\ data'[h][j] = IF Arrived(h, j)' THEN <<h, j>> ELSE Empty
      /\ IsData(data) /\ IsData(data')
  BY SMTT(60) DEF PipelineInv, DataInv, PipelineType
<1>2. ASSUME NEW h \in Op, NEW j \in 0..StepsOf[h]-1, data'[h][j] # data[h][j]
      PROVE  h = cur["recv"] /\ Arrived(h, j)' /\ ~Arrived(h, j)
  <2>1. ~Arrived(h, j) /\ Arrived(h, j)'
    <3>1. Arrived(h, j) => Arrived(h, j)' BY ArrivedStays
    <3>2. ~(Arrived(h, j) /\ Arrived(h, j)') /\ ~(~Arrived(h, j) /\ ~Arrived(h, j)') BY <1>1, <1>2
    <3> QED BY <3>1, <3>2
  <2>2. ~(h < cur["recv"]) /\ cur' = cur BY <2>1 DEF Arrived, Grows
  <2> QED BY <2>1, <2>2 DEF Arrived
<1>3. \E h \in Op : \E j \in 0..StepsOf[h]-1 : data'[h][j] # data[h][j]
  <2>1. SUFFICES ASSUME \A h \in Op : \A j \in 0..StepsOf[h]-1 : data'[h][j] = data[h][j]
                 PROVE  data' = data
    OBVIOUS
  <2>2. [h \in Op |-> [j \in 0..StepsOf[h]-1 |-> data'[h][j]]]
          = [h \in Op |-> [j \in 0..StepsOf[h]-1 |-> data[h][j]]]
    BY <2>1
  <2> QED BY <1>1, <2>2 DEF IsData
<1>4. PICK i \in Op : \E j \in 0..StepsOf[i]-1 : data'[i][j] # data[i][j] BY <1>3
<1>5. PICK j \in 0..StepsOf[i]-1 : data'[i][j] # data[i][j] BY <1>4
<1> DEFINE K == {k \in 0..StepsOf[i]-1 : Arrived(i, k)' /\ ~Arrived(i, k)}
<1>6. i = cur["recv"] /\ j \in K BY <1>2, <1>5
<1>7. cur' = cur BY DEF Grows
<1>8. /\ DOMAIN data = Op /\ DOMAIN data' = Op
      /\ \A n \in Op : data[n] = [m \in 0..StepsOf[n]-1 |-> data[n][m]]
      /\ \A n \in Op : data'[n] = [m \in 0..StepsOf[n]-1 |-> data'[n][m]]
      /\ data' = [n \in Op |-> data'[n]]
  <2>1. /\ data = [n \in Op |-> [m \in 0..StepsOf[n]-1 |-> data[n][m]]]
        /\ data' = [n \in Op |-> [m \in 0..StepsOf[n]-1 |-> data'[n][m]]]
    BY <1>1 DEF IsData
  <2> QED BY <2>1
<1>9. DOMAIN data[i] = 0..StepsOf[i]-1 BY <1>6, <1>8
<1>10. \A k \in K : data[i][k] = Empty BY <1>1, <1>6
<1> DEFINE new == [k \in 0..StepsOf[i]-1 |-> IF k \in K THEN <<i, k>> ELSE data[i][k]]
<1>11. data'[i] = new
  <2>1. ASSUME NEW k \in 0..StepsOf[i]-1
        PROVE  data'[i][k] = IF k \in K THEN <<i, k>> ELSE data[i][k]
    <3>1. CASE k \in K BY <1>1, <1>6, <3>1
    <3>2. CASE k \notin K
      <4>1. data'[i][k] = data[i][k] BY <1>2, <1>6, <3>2
      <4> QED BY <3>2, <4>1
    <3> QED BY <3>1, <3>2
  <2>2. data'[i] = [k \in 0..StepsOf[i]-1 |-> data'[i][k]] BY <1>6, <1>8
  <2> QED BY <2>1, <2>2
<1>12. \A n \in Op : n # i => data'[n] = data[n]
  <2>1. ASSUME NEW n \in Op, n # i PROVE data'[n] = data[n]
    <3>1. \A m \in 0..StepsOf[n]-1 : data'[n][m] = data[n][m] BY <1>2, <1>6, <2>1
    <3>2. [m \in 0..StepsOf[n]-1 |-> data'[n][m]] = [m \in 0..StepsOf[n]-1 |-> data[n][m]] BY <3>1
    <3> QED BY <1>8, <3>2
  <2> QED BY <2>1
<1> HIDE DEF new
<1>13. data' = [data EXCEPT ![i] = new]
  <2>1. [data EXCEPT ![i] = new] = [n \in Op |-> IF n = i THEN new ELSE data[n]] BY <1>8
  <2>2. data' = [n \in Op |-> IF n = i THEN new ELSE data[n]] BY <1>8, <1>11, <1>12
  <2> QED BY <2>1, <2>2
<1>14. i = OpsOver["recv"] + 1 /\ OpsOver' = OpsOver
  <2>1. i \in Nat BY <1>6
  <2> QED BY <1>6, <1>7, <2>1 DEF OpsOver
<1> HIDE DEF K
<1>15. K \in SUBSET {k \in DOMAIN data[i] : data[i][k] = T!Empty}
  <2>1. K \subseteq 0..StepsOf[i]-1 BY DEF K
  <2> QED BY <1>9, <1>10, <2>1, TransferNames
<1>16. new = [k \in DOMAIN data[i] |-> IF k \in K THEN <<i, k>> ELSE data[i][k]] BY <1>9 DEF new
<1>17. data' = [data EXCEPT ![i] = [k \in DOMAIN data[i] |-> IF k \in K THEN <<i, k>> ELSE data[i][k]]]
  BY <1>13, <1>16
<1> QED BY <1>6, <1>14, <1>15, <1>17, TransferNames DEF T!Deliver, OpsOver

LEMMA FinishEnds ==
  ASSUME PipelineInv, NEW s \in Side, Finish(s)
  PROVE  T!EndSend \/ T!EndRecv
<1> USE Sides, OpFacts
<1>0. PICK i \in Op : i = cur[s] BY DEF Finish, At
<1>1. /\ i \in Nat /\ cur' = [cur EXCEPT ![s] = i + 1] /\ data' = data
      /\ ~(args[s].retired < StepsOf[i])
  BY <1>0 DEF Finish, At, Retiring, Steps
<1>2. cur \in [Side -> 1..N+1] BY DEF PipelineInv, PipelineType
<1>3. OpsOver' = [OpsOver EXCEPT ![s] = i] /\ i = OpsOver[s] + 1
  <2>1. ASSUME NEW r \in Side PROVE cur'[r] - 1 = IF r = s THEN i ELSE cur[r] - 1
    BY <1>0, <1>1, <1>2
  <2>2. OpsOver' = [r \in Side |-> IF r = s THEN i ELSE cur[r] - 1] BY <2>1 DEF OpsOver
  <2>3. [OpsOver EXCEPT ![s] = i] = [r \in Side |-> IF r = s THEN i ELSE cur[r] - 1] BY DEF OpsOver
  <2>4. i = OpsOver[s] + 1 BY <1>0, <1>1 DEF OpsOver
  <2> QED BY <2>2, <2>3, <2>4
<1>4. CASE s = "send" BY <1>1, <1>3, <1>4, TransferNames DEF T!EndSend, OpsOver
<1>5. CASE s = "recv"
  <2>1. ASSUME NEW k \in 0..StepsOf[i]-1 PROVE data[i][k] = <<i, k>>
    <3>2. PipelineInv' BY <1>5, FinishRecvInv
    <3>3. cur'["recv"] = i + 1 BY <1>1, <1>2, <1>5
    <3>4. Arrived(i, k)' BY <1>1, <3>3 DEF Arrived
    <3>5. data'[i][k] = <<i, k>> BY <1>1, <3>2, <3>4 DEF PipelineInv, DataInv
    <3> QED BY <1>1, <3>5
  <2>2. DOMAIN data[i] = 0..StepsOf[i]-1
    <3>1. data = [n \in Op |-> [m \in 0..StepsOf[n]-1 |-> data[n][m]]]
      BY DEF PipelineInv, PipelineType, IsData
    <3>2. data[i] = [m \in 0..StepsOf[i]-1 |-> data[i][m]] BY <1>1, <3>1
    <3> QED BY <3>2
  <2> QED BY <1>1, <1>3, <1>5, <2>1, <2>2, TransferNames DEF T!EndRecv, OpsOver
<1> QED BY <1>4, <1>5

LEMMA TransferInit == PipelineInit => T!Init
<1> SUFFICES ASSUME PipelineInit PROVE T!Init OBVIOUS
<1>1. data = [i \in T!Op |-> [k \in 0..StepsOf[i]-1 |-> T!Empty]]
  BY TransferNames DEF PipelineInit
<1>2. OpsOver = [s \in {"send", "recv"} |-> 0] BY DEF PipelineInit, OpsOver, Side
<1> QED BY <1>1, <1>2 DEF T!Init, OpsOver

LEMMA TransferStep ==
  PipelineInv /\ PipelineInv' /\ [PipelineNext]_pipelineVars => [T!Next]_(T!vars)
<1> SUFFICES ASSUME PipelineInv, PipelineInv', [PipelineNext]_pipelineVars
             PROVE  [T!Next]_(T!vars)
  OBVIOUS
<1>1. CASE UNCHANGED pipelineVars
  <2>1. data' = data /\ cur' = cur BY <1>1 DEF pipelineVars, devVars, callVars
  <2> QED BY <2>1 DEF T!vars
<1>2. CASE Finish("send") \/ Finish("recv") BY <1>2, FinishEnds, Sides DEF T!Next
<1>3. CASE Grows
  <2>1. CASE data' = data
    <3>1. cur' = cur BY <1>3 DEF Grows
    <3> QED BY <2>1, <3>1 DEF T!vars
  <2>2. CASE data' # data BY <1>3, <2>2, GrowsDelivers DEF T!Next
  <2> QED BY <2>1, <2>2
<1> QED BY <1>1, <1>2, <1>3, StepGrows

\* The NET transport (flagcxProxySend, flagcxProxyRecv) implements Transfer, for
\* every list of operations, every number of chunks under way and every order in
\* which the network and the device work: a receive is over only with the chunks
\* of its own send, each chunk is written once, and a buffer that is given back
\* is not needed any more.
THEOREM NetworkTransport == PipelineSpec => ImplementsTransfer
<1>1. PipelineInit => T!Init BY TransferInit
<1>2. PipelineInv /\ PipelineInv' /\ [PipelineNext]_pipelineVars => [T!Next]_(T!vars)
  BY TransferStep
<1> QED BY <1>1, <1>2, PipelineInvariant, PTL DEF PipelineSpec, ImplementsTransfer, T!Spec

=============================================================================
