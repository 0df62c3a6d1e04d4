---------------------------- MODULE P2pProofs ----------------------------
(***************************************************************************)
(* The two lives of a P2P connection.                                      *)
(*                                                                         *)
(* The safety of P2pSlot for any operations, chunk counts, slots and       *)
(* offers, and the proof that it implements Transfer.  Two hypotheses are  *)
(* about what the code takes for granted: the hashes of consecutive        *)
(* operations differ, and flagcxP2pChunks is a power of two.               *)
(*                                                                         *)
(* Then the safety of P2pTeardown for any set of ranks and connections,    *)
(* any failures and any timeouts.  The two modules share nothing but the   *)
(* facts about sets they are proved from.                                  *)
(***************************************************************************)
EXTENDS P2pSlot, P2pTeardown, FiniteSetTheorems, TLAPS

\* "opHash is unique for each operation" (p2p.cc): an operation is told from
\* its successor.  The sides are never further apart.
HashesDiffer == \A i \in Op : i + 1 \in Op => OpHash(i) # OpHash(i + 1)

\* The mask of the ring positions is right, and fits the bits Position takes.
PowerOfTwo == Chunks \in {1, 2, 4, 8, 16}

\* The slot of the head operation is the side's, and the operation has a plan.
Claimed(s) == cur[s] \in Op /\ Own(s).opHash = OpHash(cur[s])
Planned(s) == cur[s] \in Op /\ plan[s][cur[s]] # "pending"

-----------------------------------------------------------------------------
(* What holds of a side by its own steps *)

\* A side holds no slot but the one of its head operation.
OneSlot(s) ==
  \A y \in Index : slot[s][y].opHash # Free =>
    /\ cur[s] \in Op /\ y = SlotIdx(cur[s])
    /\ slot[s][y].opHash = OpHash(cur[s])

\* What a side has done where its call is.
PcShape(s) ==
  /\ cur[s] \notin Op => pc[s] = "poll"
  /\ pc[s] \in {"peer", "offer", "resolve", "move", "event", "complete"} => Claimed(s)
  /\ pc[s] \in {"publish", "done"} => Own(s).opHash = Free
  /\ pc[s] = "publish" => OwnReg(s) = NoReg
  /\ pc[s] \in {"move", "event", "complete", "done"} => Planned(s)
  /\ pc[s] = "event" => plan[s][cur[s]] = "fifo" \/ Copier(s)
  /\ Planned(s) => Claimed(s) \/ pc[s] = "done"

\* The operations behind the head have no plan.
NotYet(s) == \A i \in Op : i > cur[s] => plan[s][i] = "pending"

\* Chunks are enqueued, executed and found done in this order.
Counters(s) ==
  /\ transmitted[s] <= executed[s] /\ executed[s] <= copied[s]
  /\ cur[s] \in Op => copied[s] <= Steps(cur[s])
  /\ ~Planned(s) => copied[s] = 0

\* A side that says it is done has moved all its chunks.
DoneMeansMoved(s) ==
  /\ Claimed(s) /\ Own(s).done => transmitted[s] = Steps(cur[s])
  /\ pc[s] = "complete" => Own(s).done
  /\ pc[s] = "done" => transmitted[s] = Steps(cur[s])
  /\ pc[s] = "event" => transmitted[s] < Steps(cur[s])

\* An offer is made once, and names the operation's own buffer.
OffersStand(s) ==
  Claimed(s) =>
    /\ ~OwnReg(s).offerReady => OwnReg(s) = NoReg
    /\ OwnReg(s).offerReady =>
         OwnReg(s).remoteAddr = IF OwnReg(s).registered THEN cur[s] ELSE Null
    /\ pc[s] \in {"resolve", "move", "event", "complete"} \/ Planned(s) =>
         OwnReg(s).offerReady

Local(s) ==
  /\ OneSlot(s) /\ PcShape(s) /\ NotYet(s)
  /\ Counters(s) /\ DoneMeansMoved(s) /\ OffersStand(s)

LocalInv == ShmType /\ CallType /\ \A s \in Side : Local(s)

-----------------------------------------------------------------------------
(* What holds of the two sides together *)

\* A side that has met its peer in an operation finds it there, unless the
\* peer has finished it.
Met(s) == pc[s] \in {"offer", "resolve", "move", "event", "complete"} \/ Planned(s)

With(s) == cur[Peer(s)] = cur[s] /\ Claimed(Peer(s))

Meeting(s) == Met(s) => With(s) \/ Finished(Peer(s), cur[s])

\* peerDone tells that the peer has moved all its chunks.
PeerDoneIsTrue(s) ==
  Claimed(s) =>
    (Own(s).peerDone <=>
       Finished(Peer(s), cur[s]) \/ (With(s) /\ Own(Peer(s)).done))

\* A side that is left behind in an operation has only to notice.
LeftBehind(s) ==
  \A i \in Op : Finished(s, i) /\ ~Finished(Peer(s), i) =>
    cur[Peer(s)] = i /\ Claimed(Peer(s)) /\ Own(Peer(s)).done

\* The plan of the two offers in force.
OfferedPlan == TransferPlan(OwnReg("send"), OwnReg("recv"))

\* A plan is the one of both offers ...
PlansFollowOffers(s) ==
  Claimed(s) /\ Planned(s) /\ With(s) =>
    OwnReg(Peer(s)).offerReady /\ plan[s][cur[s]] = OfferedPlan

\* ... and stays so when a side has finished.
FinishedAgree(s) ==
  \A i \in Op : Finished(s, i) =>
    plan[s][i] # "pending" /\ plan[Peer(s)][i] = plan[s][i]

Joint(s) ==
  /\ Meeting(s) /\ PeerDoneIsTrue(s) /\ LeftBehind(s)
  /\ PlansFollowOffers(s) /\ FinishedAgree(s)

Inv == LocalInv /\ \A s \in Side : Joint(s)

-----------------------------------------------------------------------------
(* What holds of the chunks *)

\* The chunks the sender may be ahead of the receiver; and the count a side
\* publishes for its peer: the chunks sent, or those that may be sent.
Room(s) == IF s = "send" THEN Chunks ELSE 0
Published(s) == IF s = "send" THEN Own(s).sendHead ELSE Own(s).recvTail

\* The published count is that of the operation.
SlotCounters(s) ==
  Claimed(s) /\ plan[s][cur[s]] \in {"pending", "fifo"} =>
    Published(s) = transmitted[s] + Room(Peer(s))

\* The sender is at most a ring ahead of the receiver, and never behind.
Window(s) ==
  cur[s] \in Op /\ plan[s][cur[s]] = "fifo" /\ With(s) =>
    copied[s] <= transmitted[Peer(s)] + Room(s)

\* copyDone tells that the copy was executed.
CopyDoneIsTrue(s) ==
  Claimed(s) /\ OwnReg(s).copyDone => Copier(s) /\ transmitted[s] = Steps(cur[s])

\* A zero-copy transfer is one copy, with the buffer of the peer's operation;
\* the other side learns of it when it has been executed.
OneCopy(s) ==
  cur[s] \in Op /\ plan[s][cur[s]] \in {"write", "read"} =>
    /\ copied[s] \in {0, Steps(cur[s])} /\ executed[s] \in {0, Steps(cur[s])}
    /\ Copier(s) /\ copied[s] # 0 => rmtAddr[s] = cur[s]
    /\ ~Copier(s) => transmitted[s] = executed[s] /\ executed[s] = copied[s]
    /\ ~Copier(s) /\ transmitted[s] # 0 =>
         Finished(Peer(s), cur[s])
           \/ (cur[Peer(s)] = cur[s] /\ executed[Peer(s)] = Steps(cur[s]))

Flow(s) == SlotCounters(s) /\ Window(s) /\ CopyDoneIsTrue(s) /\ OneCopy(s)

FlowInv == Inv /\ \A s \in Side : Flow(s)

\* What was put into the ring and not yet taken out is there.
RingHolds ==
  cur["send"] \in Op /\ cur["recv"] = cur["send"] /\ plan["send"][cur["send"]] = "fifo" =>
    \A k \in executed["recv"]..executed["send"]-1 : fifo[Position(k)] = <<cur["send"], k>>

\* The chunks of the receive buffers that have arrived.
Arrived(i, k) ==
  \/ Finished("recv", i)
  \/ /\ cur["recv"] = i
     /\ IF plan["send"][i] = "write"
        THEN cur["send"] > i \/ (cur["send"] = i /\ executed["send"] = Steps(i))
        ELSE k < executed["recv"]

DataIs ==
  data = [i \in Op |-> [k \in 0..Steps(i)-1 |-> IF Arrived(i, k) THEN <<i, k>> ELSE Empty]]

IInv == FlowInv /\ RingHolds /\ DataIs

-----------------------------------------------------------------------------
(* Operations, hashes and positions *)

LEMMA OpFacts ==
  /\ N \in Nat /\ Op = 1..N
  /\ \A i \in Op : /\ i \in Nat \ {0} /\ OpHash(i) \in Nat
                   /\ SlotIdx(i) \in 0..Slots-1
                   /\ Steps(i) \in Nat \ {0}
<1>1. N \in Nat /\ Op = 1..N BY P2pSlotAssumption DEF N, Op
<1>2. ASSUME NEW i \in Op
      PROVE  OpHash(i) \in Nat /\ SlotIdx(i) \in 0..Slots-1 /\ Steps(i) \in Nat \ {0}
  <2>1. i \in Nat /\ KeyOf[i] \in Nat /\ KeyOf[i] \in Key
    BY <1>1, P2pSlotAssumption DEF Op, Key, Range
  <2>2. IsFiniteSet(1..i) BY <2>1, FS_Interval
  <2>3. IsFiniteSet({j \in 1..i : KeyOf[j] = KeyOf[i]}) BY <2>2, FS_Subset
  <2>4. OpHashCounter(i) \in Nat BY <2>3, FS_CardinalityType DEF OpHashCounter
  <2>5. KeyOf[i] * Slots \in Nat
    <3>1. \A a, b \in Nat : a * b \in Nat OBVIOUS
    <3> QED BY <2>1, <3>1, P2pSlotAssumption
  <2>6. OpHash(i) \in Nat BY <2>4, <2>5 DEF OpHash
  <2> QED BY <2>1, <2>6, P2pSlotAssumption DEF SlotIdx, Steps
<1> QED BY <1>1, <1>2

LEMMA SideFacts ==
  /\ Peer("send") = "recv" /\ Peer("recv") = "send"
  /\ \A s \in Side : Peer(s) \in Side /\ Peer(Peer(s)) = s /\ Peer(s) # s
  BY DEF Side, Peer

LEMMA PowersOfTwo == 2^0 = 1 /\ 2^1 = 2 /\ 2^2 = 4 /\ 2^3 = 8
OBVIOUS

LEMMA PositionIsRemainder ==
  ASSUME PowerOfTwo, NEW k \in Nat
  PROVE  Position(k) = k % Chunks
  BY PowersOfTwo, SMTT(60) DEF Position, Bit, PowerOfTwo

-----------------------------------------------------------------------------
(* The effect of a step of s on the slot, the record and the arguments of   *)
(* each side's operation                                                   *)

USE SideFacts
USE DEF At, Goto, Free

SameCounters(s) ==
  /\ copied'[s] = copied[s] /\ transmitted'[s] = transmitted[s]
  /\ executed'[s] = executed[s] /\ rmtAddr'[s] = rmtAddr[s]

\* The side s is as it was.
Same(s) ==
  /\ slot'[s] = slot[s] /\ reg'[s] = reg[s] /\ cur'[s] = cur[s] /\ pc'[s] = pc[s]
  /\ plan'[s] = plan[s] /\ SameCounters(s)

LEMMA SameView ==
  ASSUME NEW s \in Side, cur'[s] = cur[s]
  PROVE  /\ slot'[s] = slot[s] => Own(s)' = Own(s)
         /\ reg'[s] = reg[s] => OwnReg(s)' = OwnReg(s)
  BY DEF Own, OwnReg

\* Writing one component of one side.
LEMMA NestedExcept ==
  ASSUME NEW D, NEW V, NEW f \in [Side -> [D -> V]], NEW s \in Side, NEW x \in D, NEW v,
         NEW g, g = [f EXCEPT ![s][x] = v]
  PROVE  /\ g[s][x] = v /\ g[Peer(s)] = f[Peer(s)]
         /\ \A y \in D : y # x => g[s][y] = f[s][y]
         /\ v \in V => g \in [Side -> [D -> V]]
  OBVIOUS

LEMMA RecordTypes == FreeSlot \in SlotRecord /\ NoReg \in RegRecord
  BY P2pSlotAssumption DEF FreeSlot, NoReg, SlotRecord, RegRecord, Null

LEMMA IndexFact == \A i \in Op : SlotIdx(i) \in Index
  BY OpFacts DEF Index

LEMMA ResetRegEffect ==
  ASSUME ShmType, CallType, NEW s \in Side, ResetReg(s)
  PROVE  /\ ShmType' /\ CallType' /\ Same(Peer(s))
         /\ pc[s] = "poll" /\ cur[s] \in Op /\ Own(s).opHash = Free
         /\ pc'[s] = "publish" /\ cur'[s] = cur[s] /\ plan'[s] = plan[s] /\ SameCounters(s)
         /\ slot'[s] = slot[s] /\ Own(s)' = Own(s) /\ OwnReg(s)' = NoReg
<1> DEFINE x == SlotIdx(cur[s])
<1>1. cur[s] \in Op /\ x \in Index BY IndexFact DEF ResetReg
<1>2. /\ reg'[s][x] = NoReg /\ reg'[Peer(s)] = reg[Peer(s)]
      /\ reg' \in [Side -> [Index -> RegRecord]]
  BY <1>1, NestedExcept, RecordTypes DEF ResetReg, ShmType
<1>3. ShmType' BY <1>2 DEF ResetReg, ShmType
<1>4. CallType' BY DEF ResetReg, CallType, argVars, devVars
<1>5. Same(Peer(s)) BY <1>2 DEF ResetReg, Same, SameCounters, CallType, argVars, devVars
<1>6. OwnReg(s)' = NoReg BY <1>2 DEF ResetReg, OwnReg
<1> QED BY <1>1, <1>3, <1>4, <1>5, <1>6 DEF ResetReg, SlotIsReusable, SameCounters, CallType, Own, argVars, devVars

LEMMA PublishSlotEffect ==
  ASSUME ShmType, CallType, NEW s \in Side, PublishSlot(s)
  PROVE  /\ ShmType' /\ CallType' /\ Same(Peer(s))
         /\ pc[s] = "publish" /\ cur[s] \in Op
         /\ pc'[s] = "peer" /\ cur'[s] = cur[s] /\ plan'[s] = plan[s] /\ SameCounters(s)
         /\ \A y \in Index : y # SlotIdx(cur[s]) => slot'[s][y] = slot[s][y]
         /\ slot'[s][SlotIdx(cur[s])] = Own(s)' /\ OwnReg(s)' = OwnReg(s)
         /\ Own(s)'.opHash = OpHash(cur[s]) /\ ~Own(s)'.done /\ ~Own(s)'.peerDone
         /\ Own(s)'.sendHead = 0 /\ Own(s)'.recvTail = Chunks
<1> DEFINE x == SlotIdx(cur[s])
           v == ResetSlot(cur[s])
<1>1. cur[s] \in Op /\ x \in Index BY IndexFact DEF PublishSlot
<1>2. v \in SlotRecord BY <1>1, OpFacts, P2pSlotAssumption DEF SlotRecord, ResetSlot
<1>3. slot' = [slot EXCEPT ![s][x] = v] BY DEF PublishSlot
<1> HIDE DEF v
<1>4. /\ slot'[s][x] = v /\ slot'[Peer(s)] = slot[Peer(s)]
      /\ \A y \in Index : y # x => slot'[s][y] = slot[s][y]
      /\ slot' \in [Side -> [Index -> SlotRecord]]
  BY <1>1, <1>2, <1>3, NestedExcept DEF ShmType
<1>5. ShmType' BY <1>4 DEF PublishSlot, ShmType
<1>6. CallType' BY DEF PublishSlot, CallType, argVars, devVars
<1>7. Same(Peer(s)) BY <1>4 DEF PublishSlot, Same, SameCounters, CallType, argVars, devVars
<1>8. Own(s)' = v /\ OwnReg(s)' = OwnReg(s) BY <1>4 DEF PublishSlot, Own, OwnReg
<1>9. /\ v.opHash = OpHash(cur[s]) /\ ~v.done /\ ~v.peerDone
      /\ v.sendHead = 0 /\ v.recvTail = Chunks
  BY DEF v, ResetSlot
<1> QED BY <1>1, <1>4, <1>5, <1>6, <1>7, <1>8, <1>9 DEF PublishSlot, SameCounters, CallType, argVars, devVars

LEMMA OwnsSlotEffect ==
  ASSUME ShmType, CallType, NEW s \in Side, OwnsSlot(s)
  PROVE  /\ ShmType' /\ CallType' /\ Same(Peer(s))
         /\ pc[s] = "poll" /\ cur[s] \in Op /\ Own(s).opHash = OpHash(cur[s])
         /\ pc'[s] = "peer" /\ cur'[s] = cur[s] /\ plan'[s] = plan[s] /\ SameCounters(s)
         /\ slot'[s] = slot[s] /\ Own(s)' = Own(s) /\ OwnReg(s)' = OwnReg(s)
<1>1. ShmType' BY DEF OwnsSlot, ShmType, shmVars
<1>2. CallType' BY DEF OwnsSlot, CallType, argVars, devVars
<1>3. Same(Peer(s)) BY DEF OwnsSlot, Same, SameCounters, CallType, shmVars, argVars, devVars
<1> QED BY <1>1, <1>2, <1>3 DEF OwnsSlot, SameCounters, CallType, Own, OwnReg, shmVars, argVars, devVars

LEMMA EventPendingEffect ==
  ASSUME ShmType, CallType, NEW s \in Side, EventPending(s)
  PROVE  /\ ShmType' /\ CallType' /\ Same(Peer(s))
         /\ pc[s] = "event" /\ cur[s] \in Op
         /\ pc'[s] = "poll" /\ cur'[s] = cur[s] /\ plan'[s] = plan[s] /\ SameCounters(s)
         /\ slot'[s] = slot[s] /\ Own(s)' = Own(s) /\ OwnReg(s)' = OwnReg(s)
<1>1. ShmType' BY DEF EventPending, ShmType, shmVars
<1>2. CallType' BY DEF EventPending, CallType, argVars, devVars
<1>3. Same(Peer(s)) BY DEF EventPending, Same, SameCounters, CallType, shmVars, argVars, devVars
<1> QED BY <1>1, <1>2, <1>3 DEF EventPending, SameCounters, CallType, Own, OwnReg, shmVars, argVars, devVars

LEMMA CheckPeerEffect ==
  ASSUME ShmType, CallType, NEW s \in Side, CheckPeer(s)
  PROVE  /\ ShmType' /\ CallType' /\ Same(Peer(s))
         /\ pc[s] = "peer" /\ cur[s] \in Op
         /\ pc'[s] = (IF PeerReady(s) THEN "offer" ELSE "poll") /\ cur'[s] = cur[s] /\ plan'[s] = plan[s] /\ SameCounters(s)
         /\ slot'[s] = slot[s] /\ Own(s)' = Own(s) /\ OwnReg(s)' = OwnReg(s)
<1>1. ShmType' BY DEF CheckPeer, ShmType, shmVars
<1>2. CallType' BY DEF CheckPeer, CallType, argVars, devVars
<1>3. Same(Peer(s)) BY DEF CheckPeer, Same, SameCounters, CallType, shmVars, argVars, devVars
<1> QED BY <1>1, <1>2, <1>3 DEF CheckPeer, SameCounters, CallType, Own, OwnReg, shmVars, argVars, devVars

LEMMA PublishOfferEffect ==
  ASSUME ShmType, CallType, NEW s \in Side, PublishOffer(s)
  PROVE  /\ ShmType' /\ CallType' /\ Same(Peer(s))
         /\ pc[s] = "offer" /\ cur[s] \in Op
         /\ pc'[s] = "resolve" /\ cur'[s] = cur[s] /\ plan'[s] = plan[s] /\ SameCounters(s)
         /\ slot'[s] = slot[s] /\ Own(s)' = Own(s)
         /\ OwnReg(s).offerReady => OwnReg(s)' = OwnReg(s)
         /\ ~OwnReg(s).offerReady =>
              /\ OwnReg(s)'.offerReady /\ OwnReg(s)'.copyDone = OwnReg(s).copyDone
              /\ OwnReg(s)'.remoteAddr = IF OwnReg(s)'.registered THEN cur[s] ELSE Null
<1> DEFINE x == SlotIdx(cur[s])
<1>1. cur[s] \in Op /\ x \in Index /\ OwnReg(s) = reg[s][x] BY IndexFact DEF PublishOffer, OwnReg
<1>2. CASE OwnReg(s).offerReady
  <2>1. reg' = reg BY <1>2 DEF PublishOffer
  <2>2. ShmType' BY <2>1 DEF PublishOffer, ShmType
  <2>3. CallType' BY DEF PublishOffer, CallType, argVars, devVars
  <2>4. Same(Peer(s)) BY <2>1 DEF PublishOffer, Same, SameCounters, CallType, argVars, devVars
  <2> QED BY <1>1, <1>2, <2>1, <2>2, <2>3, <2>4
          DEF PublishOffer, SameCounters, CallType, Own, OwnReg, argVars, devVars
<1>3. CASE ~OwnReg(s).offerReady
  <2>1. PICK o \in Offers : reg' = [reg EXCEPT ![s][x] = Offer(reg[s][x].copyDone, o, cur[s])]
    BY <1>3, <1>1 DEF PublishOffer
  <2> DEFINE v == Offer(reg[s][x].copyDone, o, cur[s])
  <2>2. reg[s][x] \in RegRecord BY <1>1 DEF ShmType
  <2>3. o.registered \in BOOLEAN /\ o.forceFifo \in BOOLEAN BY P2pSlotAssumption
  <2>4. /\ v \in RegRecord /\ v.offerReady /\ v.copyDone = reg[s][x].copyDone
        /\ v.remoteAddr = IF v.registered THEN cur[s] ELSE Null
    BY <1>1, <2>2, <2>3 DEF RegRecord, Offer
  <2>5. reg' = [reg EXCEPT ![s][x] = v] BY <2>1
  <2> HIDE DEF v
  <2>6. /\ reg'[s][x] = v /\ reg'[Peer(s)] = reg[Peer(s)]
        /\ reg' \in [Side -> [Index -> RegRecord]]
    BY <1>1, <2>4, <2>5, NestedExcept DEF ShmType
  <2>7. ShmType' BY <2>6 DEF PublishOffer, ShmType
  <2>8. CallType' BY DEF PublishOffer, CallType, argVars, devVars
  <2>9. Same(Peer(s)) BY <2>6 DEF PublishOffer, Same, SameCounters, CallType, argVars, devVars
  <2>10. OwnReg(s)' = v BY <2>6 DEF PublishOffer, OwnReg
  <2> QED BY <1>1, <1>3, <2>4, <2>7, <2>8, <2>9, <2>10
          DEF PublishOffer, SameCounters, CallType, Own, argVars, devVars
<1> QED BY <1>2, <1>3

LEMMA ResolvePlanEffect ==
  ASSUME ShmType, CallType, NEW s \in Side, ResolvePlan(s)
  PROVE  /\ ShmType' /\ CallType' /\ Same(Peer(s))
         /\ pc[s] = "resolve" /\ cur[s] \in Op
         /\ cur'[s] = cur[s] /\ SameCounters(s)
         /\ slot'[s] = slot[s] /\ Own(s)' = Own(s) /\ OwnReg(s)' = OwnReg(s)
         /\ \A i \in Op : i # cur[s] => plan'[s][i] = plan[s][i]
         /\ \/ pc'[s] = "poll" /\ plan'[s] = plan[s]
            \/ /\ pc'[s] = "move" /\ PeerReg(s).offerReady
               /\ plan'[s][cur[s]] # "pending"
               /\ plan[s][cur[s]] # "pending" => plan'[s] = plan[s]
               /\ plan[s][cur[s]] = "pending" =>
                    plan'[s][cur[s]] = IF s = "send" THEN TransferPlan(OwnReg(s), PeerReg(s))
                                       ELSE TransferPlan(PeerReg(s), OwnReg(s))
<1> DEFINE v == IF plan[s][cur[s]] # "pending" THEN plan[s][cur[s]]
                ELSE IF s = "send" THEN TransferPlan(OwnReg(s), PeerReg(s))
                ELSE TransferPlan(PeerReg(s), OwnReg(s))
<1>1. cur[s] \in Op BY DEF ResolvePlan
<1>2. v \in Plan /\ v # "pending" BY <1>1 DEF CallType, TransferPlan, Plan
<1>3. \/ pc' = [pc EXCEPT ![s] = "poll"] /\ plan' = plan
      \/ pc' = [pc EXCEPT ![s] = "move"] /\ plan' = [plan EXCEPT ![s][cur[s]] = v] /\ PeerReg(s).offerReady
  BY DEF ResolvePlan, PeerOffered
<1>4. v = IF plan[s][cur[s]] # "pending" THEN plan[s][cur[s]]
                ELSE IF s = "send" THEN TransferPlan(OwnReg(s), PeerReg(s))
                ELSE TransferPlan(PeerReg(s), OwnReg(s))
  OBVIOUS
<1> HIDE DEF v
<1>5. plan' \in [Side -> [Op -> Plan]]
  <2>1. plan \in [Side -> [Op -> Plan]] BY DEF CallType
  <2>2. CASE plan' = plan BY <2>1, <2>2
  <2>3. CASE plan' = [plan EXCEPT ![s][cur[s]] = v] BY <1>1, <1>2, <2>1, <2>3
  <2> QED BY <1>3, <2>2, <2>3
<1>6. CallType'
  <2>1. pc' \in [Side -> {"poll", "publish", "peer", "offer", "resolve", "move",
                          "event", "complete", "done"}]
    BY <1>3 DEF CallType
  <2> QED BY <1>5, <2>1 DEF ResolvePlan, CallType, argVars, devVars
<1>7. ShmType' BY DEF ResolvePlan, ShmType, shmVars
<1>8. Same(Peer(s)) BY <1>1, <1>3 DEF ResolvePlan, Same, SameCounters, CallType, shmVars, argVars, devVars
<1>9. \A i \in Op : i # cur[s] => plan'[s][i] = plan[s][i] BY <1>1, <1>3 DEF CallType
<1>10. \/ pc'[s] = "poll" /\ plan'[s] = plan[s]
       \/ /\ pc'[s] = "move" /\ PeerReg(s).offerReady /\ plan'[s][cur[s]] = v
          /\ plan[s][cur[s]] = v => plan'[s] = plan[s]
  BY <1>1, <1>3 DEF CallType
<1>11. /\ cur'[s] = cur[s] /\ SameCounters(s) /\ slot'[s] = slot[s]
       /\ Own(s)' = Own(s) /\ OwnReg(s)' = OwnReg(s)
  BY DEF ResolvePlan, SameCounters, Own, OwnReg, shmVars, argVars, devVars
<1> QED BY <1>1, <1>2, <1>4, <1>6, <1>7, <1>8, <1>9, <1>10, <1>11 DEF ResolvePlan

LEMMA MoveFifoEffect ==
  ASSUME ShmType, CallType, NEW s \in Side, MoveFifo(s)
  PROVE  /\ ShmType' /\ CallType' /\ Same(Peer(s))
         /\ pc[s] = "move" /\ cur[s] \in Op /\ plan[s][cur[s]] = "fifo" /\ transmitted[s] < Steps(cur[s])
         /\ pc'[s] = "event" /\ cur'[s] = cur[s] /\ plan'[s] = plan[s]
         /\ slot'[s] = slot[s] /\ Own(s)' = Own(s) /\ OwnReg(s)' = OwnReg(s)
         /\ transmitted'[s] = transmitted[s] /\ executed'[s] = executed[s]
         /\ copied'[s] = copied[s] \/ (FifoHasNext(s) /\ copied'[s] = copied[s] + 1)
<1>1. ShmType' BY DEF MoveFifo, ShmType, shmVars
<1>2. CallType'
  <2>1. copied' \in [Side -> Nat] BY DEF MoveFifo, CallType
  <2> QED BY <2>1 DEF MoveFifo, CallType, devVars
<1>3. Same(Peer(s)) BY DEF MoveFifo, Same, SameCounters, CallType, shmVars, devVars
<1>4. copied'[s] = copied[s] \/ (FifoHasNext(s) /\ copied'[s] = copied[s] + 1)
  BY DEF MoveFifo, CallType
<1> QED BY <1>1, <1>2, <1>3, <1>4 DEF MoveFifo, Transmitting, CallType, Own, OwnReg, shmVars, devVars

LEMMA MoveZeroCopyEffect ==
  ASSUME ShmType, CallType, NEW s \in Side, MoveZeroCopy(s)
  PROVE  /\ ShmType' /\ CallType' /\ Same(Peer(s))
         /\ pc[s] = "move" /\ cur[s] \in Op /\ Copier(s) /\ transmitted[s] < Steps(cur[s])
         /\ pc'[s] = "event" /\ cur'[s] = cur[s] /\ plan'[s] = plan[s]
         /\ slot'[s] = slot[s] /\ Own(s)' = Own(s) /\ OwnReg(s)' = OwnReg(s)
         /\ transmitted'[s] = transmitted[s] /\ executed'[s] = executed[s]
         /\ \/ copied'[s] = copied[s] /\ copied[s] # 0 /\ rmtAddr'[s] = rmtAddr[s]
            \/ copied'[s] = Steps(cur[s]) /\ rmtAddr'[s] = PeerReg(s).remoteAddr
<1>1. ShmType' BY DEF MoveZeroCopy, ShmType, shmVars
<1>2. PeerReg(s).remoteAddr \in Op \cup {Null}
  <2>1. cur[s] \in Op /\ SlotIdx(cur[s]) \in Index BY IndexFact DEF MoveZeroCopy
  <2>2. reg[Peer(s)][SlotIdx(cur[s])] \in RegRecord BY <2>1 DEF ShmType
  <2> QED BY <2>2 DEF RegRecord, PeerReg
<1>3. CallType'
  <2>1. cur[s] \in Op /\ Steps(cur[s]) \in Nat BY OpFacts DEF MoveZeroCopy
  <2>2. copied' \in [Side -> Nat] BY <2>1 DEF MoveZeroCopy, CallType
  <2>3. rmtAddr' \in [Side -> Op \cup {Null}] BY <1>2 DEF MoveZeroCopy, CallType
  <2> QED BY <2>2, <2>3 DEF MoveZeroCopy, CallType, devVars
<1>4. Same(Peer(s)) BY DEF MoveZeroCopy, Same, SameCounters, CallType, shmVars, devVars
<1>5. \/ copied'[s] = copied[s] /\ copied[s] # 0 /\ rmtAddr'[s] = rmtAddr[s]
      \/ copied'[s] = Steps(cur[s]) /\ rmtAddr'[s] = PeerReg(s).remoteAddr
  BY DEF MoveZeroCopy, CallType
<1> QED BY <1>1, <1>3, <1>4, <1>5 DEF MoveZeroCopy, Transmitting, CallType, Own, OwnReg, shmVars, devVars

LEMMA AwaitCopyDoneEffect ==
  ASSUME ShmType, CallType, NEW s \in Side, AwaitCopyDone(s)
  PROVE  /\ ShmType' /\ CallType' /\ Same(Peer(s))
         /\ pc[s] = "move" /\ cur[s] \in Op /\ plan[s][cur[s]] \in {"write", "read"} /\ ~Copier(s)
         /\ pc'[s] = "poll" /\ cur'[s] = cur[s] /\ plan'[s] = plan[s] /\ rmtAddr'[s] = rmtAddr[s]
         /\ slot'[s] = slot[s] /\ Own(s)' = Own(s) /\ OwnReg(s)' = OwnReg(s)
         /\ transmitted[s] < Steps(cur[s])
         /\ \/ SameCounters(s)
            \/ /\ PeerReg(s).copyDone /\ copied'[s] = Steps(cur[s])
               /\ transmitted'[s] = Steps(cur[s]) /\ executed'[s] = Steps(cur[s])
<1>1. ShmType' BY DEF AwaitCopyDone, ShmType, shmVars
<1>2. CallType'
  <2>1. cur[s] \in Op /\ Steps(cur[s]) \in Nat BY OpFacts DEF AwaitCopyDone
  <2>0. copied \in [Side -> Nat] /\ transmitted \in [Side -> Nat] /\ executed \in [Side -> Nat]
    BY DEF CallType
  <2>a. copied' \in [Side -> Nat] BY <2>0, <2>1 DEF AwaitCopyDone
  <2>b. transmitted' \in [Side -> Nat] BY <2>0, <2>1 DEF AwaitCopyDone
  <2>c. executed' \in [Side -> Nat] BY <2>0, <2>1 DEF AwaitCopyDone
  <2>2. /\ copied' \in [Side -> Nat] /\ transmitted' \in [Side -> Nat]
        /\ executed' \in [Side -> Nat]
    BY <2>a, <2>b, <2>c
  <2> QED BY <2>2 DEF AwaitCopyDone, CallType
<1>3. Same(Peer(s)) BY DEF AwaitCopyDone, Same, SameCounters, CallType, shmVars
<1>4. \/ SameCounters(s)
      \/ /\ PeerReg(s).copyDone /\ copied'[s] = Steps(cur[s])
         /\ transmitted'[s] = Steps(cur[s]) /\ executed'[s] = Steps(cur[s])
  BY DEF AwaitCopyDone, CallType, SameCounters
<1> QED BY <1>1, <1>2, <1>3, <1>4 DEF AwaitCopyDone, Transmitting, CallType, Own, OwnReg, shmVars

LEMMA EventDoneEffect ==
  ASSUME ShmType, CallType, NEW s \in Side, EventDone(s)
  PROVE  /\ ShmType' /\ CallType' /\ Same(Peer(s))
         /\ pc[s] = "event" /\ cur[s] \in Op /\ transmitted[s] < copied[s]
         /\ pc'[s] = "poll" /\ cur'[s] = cur[s] /\ plan'[s] = plan[s]
         /\ copied'[s] = copied[s] /\ executed'[s] = executed[s] /\ rmtAddr'[s] = rmtAddr[s]
         /\ transmitted'[s] <= executed[s]
         /\ transmitted'[s] = IF plan[s][cur[s]] = "fifo" THEN transmitted[s] + 1 ELSE Steps(cur[s])
         /\ \A y \in Index : slot'[s][y].opHash = slot[s][y].opHash
         /\ /\ Own(s)'.opHash = Own(s).opHash /\ Own(s)'.done = Own(s).done
            /\ Own(s)'.peerDone = Own(s).peerDone
         /\ /\ OwnReg(s)'.offerReady = OwnReg(s).offerReady
            /\ OwnReg(s)'.registered = OwnReg(s).registered
            /\ OwnReg(s)'.forceFifo = OwnReg(s).forceFifo
            /\ OwnReg(s)'.remoteAddr = OwnReg(s).remoteAddr
         /\ plan[s][cur[s]] = "fifo" =>
              /\ OwnReg(s)' = OwnReg(s)
              /\ s = "send" => Own(s)'.sendHead = transmitted'[s]
              /\ s = "recv" => Own(s)'.recvTail = RecvTail(transmitted'[s])
         /\ plan[s][cur[s]] # "fifo" => OwnReg(s)'.copyDone /\ Own(s)' = Own(s)
<1> DEFINE x == SlotIdx(cur[s])
           t == IF plan[s][cur[s]] = "fifo" THEN transmitted[s] + 1 ELSE Steps(cur[s])
<1>1. cur[s] \in Op /\ x \in Index BY IndexFact DEF EventDone
<1>2. t \in Nat BY <1>1, OpFacts DEF CallType
<1>3. transmitted' = [transmitted EXCEPT ![s] = t] /\ t <= executed[s] BY DEF EventDone
<1>4. pc' = [pc EXCEPT ![s] = "poll"] /\ cur' = cur /\ plan' = plan /\ copied' = copied
      /\ rmtAddr' = rmtAddr /\ executed' = executed
  BY DEF EventDone, devVars
<1>5. CallType' BY <1>2, <1>3, <1>4 DEF CallType
<1>6. slot[s][x] \in SlotRecord /\ reg[s][x] \in RegRecord BY <1>1 DEF ShmType
<1>7. CASE plan[s][cur[s]] = "fifo"
  <2> DEFINE v == IF s = "send" THEN [slot[s][x] EXCEPT !.sendHead = t]
                                ELSE [slot[s][x] EXCEPT !.recvTail = RecvTail(t)]
  <2>1. slot' = [slot EXCEPT ![s][x] = v] /\ reg' = reg BY <1>7 DEF EventDone
  <2>2. RecvTail(t) \in Nat BY <1>2, P2pSlotAssumption DEF RecvTail
  <2>3. /\ v \in SlotRecord /\ v.opHash = slot[s][x].opHash /\ v.done = slot[s][x].done
        /\ v.peerDone = slot[s][x].peerDone
        /\ s = "send" => v.sendHead = t
        /\ s = "recv" => v.recvTail = RecvTail(t)
    BY <1>2, <1>6, <2>2 DEF SlotRecord
  <2> HIDE DEF v, t
  <2>4. /\ slot'[s][x] = v /\ slot'[Peer(s)] = slot[Peer(s)]
        /\ \A y \in Index : y # x => slot'[s][y] = slot[s][y]
        /\ slot' \in [Side -> [Index -> SlotRecord]]
    BY <1>1, <2>1, <2>3, NestedExcept DEF ShmType
  <2>5. \A y \in Index : slot'[s][y].opHash = slot[s][y].opHash BY <2>3, <2>4
  <2>6. ShmType' BY <2>1, <2>4 DEF ShmType
  <2>7. Same(Peer(s)) BY <1>3, <1>4, <2>1, <2>4 DEF Same, SameCounters, CallType
  <2>8. Own(s)' = v /\ Own(s) = slot[s][x] /\ OwnReg(s)' = OwnReg(s)
    BY <1>4, <2>1, <2>4 DEF Own, OwnReg
  <2>9. transmitted'[s] = t /\ pc'[s] = "poll" BY <1>3, <1>4 DEF CallType
  <2> QED BY <1>1, <1>3, <1>4, <1>5, <1>7, <2>3, <2>5, <2>6, <2>7, <2>8, <2>9 DEF EventDone, t
<1>8. CASE plan[s][cur[s]] # "fifo"
  <2> DEFINE v == [reg[s][x] EXCEPT !.copyDone = TRUE]
  <2>1. reg' = [reg EXCEPT ![s][x] = v] /\ slot' = slot BY <1>8 DEF EventDone
  <2>2. /\ v \in RegRecord /\ v.copyDone /\ v.offerReady = reg[s][x].offerReady
        /\ v.registered = reg[s][x].registered /\ v.forceFifo = reg[s][x].forceFifo
        /\ v.remoteAddr = reg[s][x].remoteAddr
    BY <1>6 DEF RegRecord
  <2> HIDE DEF v, t
  <2>3. /\ reg'[s][x] = v /\ reg'[Peer(s)] = reg[Peer(s)]
        /\ reg' \in [Side -> [Index -> RegRecord]]
    BY <1>1, <2>1, <2>2, NestedExcept DEF ShmType
  <2>4. ShmType' BY <2>1, <2>3 DEF ShmType
  <2>5. Same(Peer(s)) BY <1>3, <1>4, <2>1, <2>3 DEF Same, SameCounters, CallType
  <2>6. OwnReg(s)' = v /\ OwnReg(s) = reg[s][x] /\ Own(s)' = Own(s)
    BY <1>4, <2>1, <2>3 DEF Own, OwnReg
  <2>7. transmitted'[s] = t /\ pc'[s] = "poll" BY <1>3, <1>4 DEF CallType
  <2> QED BY <1>1, <1>3, <1>4, <1>5, <1>8, <2>1, <2>2, <2>4, <2>5, <2>6, <2>7 DEF EventDone, t
<1> QED BY <1>7, <1>8

LEMMA DeviceCopyEffect ==
  ASSUME ShmType, CallType, NEW s \in Side, DeviceCopy(s)
  PROVE  /\ ShmType' /\ CallType' /\ Same(Peer(s))
         /\ cur[s] \in Op /\ executed[s] < copied[s] /\ (plan[s][cur[s]] = "fifo" \/ Copier(s))
         /\ cur'[s] = cur[s] /\ pc'[s] = pc[s] /\ plan'[s] = plan[s]
         /\ slot'[s] = slot[s] /\ Own(s)' = Own(s) /\ OwnReg(s)' = OwnReg(s)
         /\ transmitted'[s] = transmitted[s] /\ copied'[s] = copied[s] /\ rmtAddr'[s] = rmtAddr[s]
         /\ plan[s][cur[s]] = "fifo" => executed'[s] = executed[s] + 1
         /\ plan[s][cur[s]] # "fifo" => executed'[s] = copied[s]
<1>1. plan[s][cur[s]] = "fifo" => ~Copier(s) BY DEF Copier
<1>2. \/ plan[s][cur[s]] = "fifo" /\ executed' = [executed EXCEPT ![s] = executed[s] + 1]
      \/ /\ plan[s][cur[s]] # "fifo" /\ Copier(s)
         /\ executed' = [executed EXCEPT ![s] = copied[s]]
  BY <1>1 DEF DeviceCopy
<1>3. executed' \in [Side -> Nat]
  <2>1. CASE executed' = [executed EXCEPT ![s] = executed[s] + 1] BY <2>1 DEF CallType
  <2>2. CASE executed' = [executed EXCEPT ![s] = copied[s]] BY <2>2 DEF CallType
  <2> QED BY <1>2, <2>1, <2>2
<1>4. /\ cur[s] \in Op /\ executed[s] < copied[s]
      /\ slot' = slot /\ reg' = reg /\ cur' = cur /\ pc' = pc /\ plan' = plan /\ copied' = copied
      /\ transmitted' = transmitted /\ rmtAddr' = rmtAddr
  BY DEF DeviceCopy, shmVars, argVars
<1>5. ShmType' BY <1>4 DEF ShmType
<1>6. CallType' BY <1>3, <1>4 DEF CallType
<1>7. Same(Peer(s)) BY <1>2, <1>4 DEF Same, SameCounters, CallType
<1>8. /\ plan[s][cur[s]] = "fifo" => executed'[s] = executed[s] + 1
      /\ plan[s][cur[s]] # "fifo" => executed'[s] = copied[s]
  BY <1>2 DEF CallType
<1> QED BY <1>2, <1>4, <1>5, <1>6, <1>7, <1>8 DEF Own, OwnReg

LEMMA CompleteEffect ==
  ASSUME ShmType, CallType, NEW s \in Side, Complete(s)
  PROVE  /\ ShmType' /\ CallType' /\ Same(Peer(s))
         /\ pc[s] = "complete" /\ cur[s] \in Op
         /\ cur'[s] = cur[s] /\ plan'[s] = plan[s] /\ SameCounters(s) /\ OwnReg(s)' = OwnReg(s)
         /\ \/ pc'[s] = "poll" /\ slot'[s] = slot[s] /\ Own(s)' = Own(s)
            \/ /\ Own(s).done /\ Own(s).peerDone /\ pc'[s] = "done"
               /\ \A y \in Index : y # SlotIdx(cur[s]) => slot'[s][y] = slot[s][y]
               /\ slot'[s][SlotIdx(cur[s])] = Own(s)'
               /\ Own(s)'.opHash = Free
<1> DEFINE x == SlotIdx(cur[s])
           v == [slot[s][x] EXCEPT !.opHash = Free]
<1>1. cur[s] \in Op /\ x \in Index BY IndexFact DEF Complete
<1>2. slot[s][x] \in SlotRecord BY <1>1 DEF ShmType
<1>3. v \in SlotRecord /\ v.opHash = Free BY <1>2 DEF SlotRecord
<1>4. /\ pc[s] = "complete" /\ reg' = reg /\ cur' = cur /\ plan' = plan /\ copied' = copied
      /\ transmitted' = transmitted /\ rmtAddr' = rmtAddr /\ executed' = executed
  BY DEF Complete, argVars, devVars
<1>5. CASE SlotIsComplete(s)
  <2>1. slot' = [slot EXCEPT ![s][x] = v] /\ pc' = [pc EXCEPT ![s] = "done"] BY <1>5 DEF Complete
  <2> HIDE DEF v
  <2>2. /\ slot'[s][x] = v /\ slot'[Peer(s)] = slot[Peer(s)]
        /\ \A y \in Index : y # x => slot'[s][y] = slot[s][y]
        /\ slot' \in [Side -> [Index -> SlotRecord]]
    BY <1>1, <1>3, <2>1, NestedExcept DEF ShmType
  <2>3. ShmType' BY <1>4, <2>2 DEF ShmType
  <2>4. CallType' BY <1>4, <2>1 DEF CallType
  <2>5. Same(Peer(s)) BY <1>4, <2>1, <2>2 DEF Same, SameCounters, CallType
  <2>6. Own(s)' = v /\ OwnReg(s)' = OwnReg(s) BY <1>4, <2>2 DEF Own, OwnReg
  <2>7. pc'[s] = "done" BY <2>1 DEF CallType
  <2> QED BY <1>1, <1>3, <1>4, <1>5, <2>2, <2>3, <2>4, <2>5, <2>6, <2>7 DEF SlotIsComplete, SameCounters
<1>6. CASE ~SlotIsComplete(s)
  <2>1. slot' = slot /\ pc' = [pc EXCEPT ![s] = "poll"] BY <1>6 DEF Complete
  <2>2. ShmType' BY <1>4, <2>1 DEF ShmType
  <2>3. CallType' BY <1>4, <2>1 DEF CallType
  <2>4. Same(Peer(s)) BY <1>4, <2>1 DEF Same, SameCounters, CallType
  <2> QED BY <1>1, <1>4, <2>1, <2>2, <2>3, <2>4 DEF Own, OwnReg, SameCounters, CallType
<1> QED BY <1>5, <1>6

LEMMA DequeueEffect ==
  ASSUME ShmType, CallType, NEW s \in Side, Dequeue(s)
  PROVE  /\ ShmType' /\ CallType' /\ Same(Peer(s))
         /\ pc[s] = "done" /\ cur[s] \in Op
         /\ pc'[s] = "poll" /\ cur'[s] = cur[s] + 1 /\ plan'[s] = plan[s]
         /\ slot'[s] = slot[s] /\ cur'[s] \in 1..N+1
         /\ copied'[s] = 0 /\ transmitted'[s] = 0 /\ executed'[s] = 0 /\ rmtAddr'[s] = Null
<1>1. /\ pc[s] = "done" /\ cur[s] \in Op /\ slot' = slot /\ reg' = reg /\ plan' = plan
      /\ cur' = [cur EXCEPT ![s] = cur[s] + 1] /\ pc' = [pc EXCEPT ![s] = "poll"]
      /\ copied' = [copied EXCEPT ![s] = 0] /\ transmitted' = [transmitted EXCEPT ![s] = 0]
      /\ executed' = [executed EXCEPT ![s] = 0] /\ rmtAddr' = [rmtAddr EXCEPT ![s] = Null]
  BY DEF Dequeue, shmVars
<1>2. cur[s] + 1 \in 1..N+1 BY <1>1, OpFacts
<1>3. ShmType' BY <1>1 DEF ShmType
<1>4. CallType' BY <1>1, <1>2 DEF CallType
<1>5. Same(Peer(s)) BY <1>1 DEF Same, SameCounters, CallType
<1> QED BY <1>1, <1>2, <1>3, <1>4, <1>5 DEF CallType

LEMMA MarkDoneEffect ==
  ASSUME ShmType, CallType, NEW s \in Side, MarkDone(s)
  PROVE  /\ ShmType' /\ CallType'
         /\ pc[s] = "move" /\ cur[s] \in Op /\ transmitted[s] >= Steps(cur[s])
         /\ pc'[s] = "complete" /\ cur'[s] = cur[s] /\ plan'[s] = plan[s] /\ SameCounters(s)
         /\ OwnReg(s)' = OwnReg(s) /\ OwnReg(Peer(s))' = OwnReg(Peer(s))
         /\ cur'[Peer(s)] = cur[Peer(s)] /\ pc'[Peer(s)] = pc[Peer(s)] /\ plan'[Peer(s)] = plan[Peer(s)]
         /\ SameCounters(Peer(s))
         /\ \A y \in Index : slot'[s][y].opHash = slot[s][y].opHash
         /\ \A y \in Index : slot'[Peer(s)][y].opHash = slot[Peer(s)][y].opHash
         /\ /\ Own(s)'.done /\ Own(s)'.opHash = Own(s).opHash /\ Own(s)'.peerDone = Own(s).peerDone
            /\ Own(s)'.sendHead = Own(s).sendHead /\ Own(s)'.recvTail = Own(s).recvTail
         /\ cur[Peer(s)] \in Op =>
              /\ Own(Peer(s))'.opHash = Own(Peer(s)).opHash
              /\ Own(Peer(s))'.done = Own(Peer(s)).done
              /\ Own(Peer(s))'.sendHead = Own(Peer(s)).sendHead
              /\ Own(Peer(s))'.recvTail = Own(Peer(s)).recvTail
         /\ \/ Own(s).done /\ Own(Peer(s))' = Own(Peer(s))
            \/ /\ ~Own(s).done
               /\ cur[Peer(s)] = cur[s] => Own(Peer(s))'.peerDone
               /\ cur[Peer(s)] \in Op /\ SlotIdx(cur[Peer(s)]) # SlotIdx(cur[s]) =>
                    Own(Peer(s))' = Own(Peer(s))
<1> DEFINE x == SlotIdx(cur[s])
           v == [slot[s][x] EXCEPT !.done = TRUE]
           w == [slot[Peer(s)][x] EXCEPT !.peerDone = TRUE]
           m == [slot EXCEPT ![s][x] = v]
<1>1. cur[s] \in Op /\ x \in Index BY IndexFact DEF MarkDone
<1>2. slot[s][x] \in SlotRecord /\ slot[Peer(s)][x] \in SlotRecord BY <1>1 DEF ShmType
<1>3. /\ pc[s] = "move" /\ reg' = reg /\ cur' = cur /\ plan' = plan /\ copied' = copied
      /\ transmitted' = transmitted /\ rmtAddr' = rmtAddr /\ executed' = executed
      /\ pc' = [pc EXCEPT ![s] = "complete"] /\ ~(transmitted[s] < Steps(cur[s]))
  BY DEF MarkDone, Transmitting, argVars, devVars
<1>4. CallType' BY <1>3 DEF CallType
<1>5. /\ transmitted[s] >= Steps(cur[s]) /\ pc'[s] = "complete" /\ cur'[s] = cur[s]
      /\ plan'[s] = plan[s] /\ SameCounters(s) /\ OwnReg(s)' = OwnReg(s)
      /\ OwnReg(Peer(s))' = OwnReg(Peer(s)) /\ cur'[Peer(s)] = cur[Peer(s)]
      /\ pc'[Peer(s)] = pc[Peer(s)] /\ plan'[Peer(s)] = plan[Peer(s)] /\ SameCounters(Peer(s))
  BY <1>1, <1>3, OpFacts DEF CallType, OwnReg, SameCounters
<1>6. CASE Own(s).done
  <2>1. slot' = slot BY <1>6 DEF MarkDone
  <2>2. ShmType' BY <1>3, <2>1 DEF ShmType
  <2>3. Own(s)' = Own(s) /\ Own(Peer(s))' = Own(Peer(s)) BY <1>3, <2>1 DEF Own
  <2> QED BY <1>1, <1>3, <1>4, <1>5, <1>6, <2>1, <2>2, <2>3
<1>7. CASE ~Own(s).done
  <2>1. slot' = [m EXCEPT ![Peer(s)][x] = w]
    <3>1. slot' = [slot EXCEPT ![s][x].done = TRUE, ![Peer(s)][x].peerDone = TRUE]
      BY <1>7 DEF MarkDone
    <3>2. m[Peer(s)][x] = slot[Peer(s)][x] OBVIOUS
    <3> QED BY <3>1, <3>2
  <2>2. /\ v \in SlotRecord /\ v.done /\ v.opHash = slot[s][x].opHash
        /\ v.sendHead = slot[s][x].sendHead /\ v.recvTail = slot[s][x].recvTail
        /\ v.peerDone = slot[s][x].peerDone
    BY <1>2 DEF SlotRecord
  <2>3. /\ w \in SlotRecord /\ w.peerDone /\ w.opHash = slot[Peer(s)][x].opHash
        /\ w.sendHead = slot[Peer(s)][x].sendHead /\ w.recvTail = slot[Peer(s)][x].recvTail
        /\ w.done = slot[Peer(s)][x].done
    BY <1>2 DEF SlotRecord
  <2> HIDE DEF v, w
  <2>4. /\ m[s][x] = v /\ m[Peer(s)] = slot[Peer(s)]
        /\ \A y \in Index : y # x => m[s][y] = slot[s][y]
        /\ m \in [Side -> [Index -> SlotRecord]]
    BY <1>1, <2>2, NestedExcept DEF ShmType
  <2> HIDE DEF m
  <2>5. /\ slot'[Peer(s)][x] = w /\ slot'[Peer(Peer(s))] = m[Peer(Peer(s))]
        /\ \A y \in Index : y # x => slot'[Peer(s)][y] = m[Peer(s)][y]
        /\ slot' \in [Side -> [Index -> SlotRecord]]
    BY <1>1, <2>1, <2>3, <2>4, NestedExcept
  <2>6. /\ slot'[Peer(s)][x] = w /\ slot'[s][x] = v
        /\ \A y \in Index : y # x => slot'[s][y] = slot[s][y] /\ slot'[Peer(s)][y] = slot[Peer(s)][y]
    BY <2>4, <2>5
  <2>7. ShmType' BY <1>3, <2>5 DEF ShmType
  <2>8. \A y \in Index : /\ slot'[s][y].opHash = slot[s][y].opHash
                         /\ slot'[Peer(s)][y].opHash = slot[Peer(s)][y].opHash
    BY <2>2, <2>3, <2>6
  <2>9. Own(s)' = v /\ Own(s) = slot[s][x] BY <1>3, <2>6 DEF Own
  <2>10. ASSUME cur[Peer(s)] \in Op
         PROVE  /\ Own(Peer(s))'.opHash = Own(Peer(s)).opHash
                /\ Own(Peer(s))'.done = Own(Peer(s)).done
                /\ Own(Peer(s))'.sendHead = Own(Peer(s)).sendHead
                /\ Own(Peer(s))'.recvTail = Own(Peer(s)).recvTail
    <3> DEFINE z == SlotIdx(cur[Peer(s)])
    <3>1. z \in Index BY <2>10, IndexFact
    <3>2. Own(Peer(s))' = slot'[Peer(s)][z] /\ Own(Peer(s)) = slot[Peer(s)][z] BY <1>3 DEF Own
    <3> HIDE DEF z
    <3> QED BY <2>3, <2>6, <3>1, <3>2
  <2>11. cur[Peer(s)] = cur[s] => Own(Peer(s))' = w BY <1>3, <2>6 DEF Own
  <2>12. cur[Peer(s)] \in Op /\ SlotIdx(cur[Peer(s)]) # SlotIdx(cur[s]) =>
           Own(Peer(s))' = Own(Peer(s))
    BY <1>3, <2>6, IndexFact DEF Own
  <2> QED BY <1>1, <1>3, <1>4, <1>5, <1>7, <2>2, <2>3, <2>7, <2>8, <2>9, <2>10, <2>11, <2>12
<1> QED BY <1>6, <1>7

-----------------------------------------------------------------------------
(* The local part of the invariant *)

USE DEF Claimed, Planned

LEMMA LocalFrame ==
  ASSUME NEW s \in Side, Local(s), Same(s)
  PROVE  Local(s)'
<1>0. OneSlot(s) /\ PcShape(s) /\ NotYet(s) /\ Counters(s) /\ DoneMeansMoved(s) /\ OffersStand(s)
  BY DEF Local
<1>1. Own(s)' = Own(s) /\ OwnReg(s)' = OwnReg(s) BY SameView DEF Same
<1>2. OneSlot(s)' BY <1>0 DEF OneSlot, Same
<1>3. PcShape(s)' BY <1>0, <1>1 DEF PcShape, Copier, Same
<1>4. NotYet(s)' BY <1>0 DEF NotYet, Same
<1>5. Counters(s)' BY <1>0 DEF Counters, Same, SameCounters
<1>6. DoneMeansMoved(s)' BY <1>0, <1>1 DEF DoneMeansMoved, Same, SameCounters
<1>7. OffersStand(s)' BY <1>0, <1>1 DEF OffersStand, Same
<1> QED BY <1>2, <1>3, <1>4, <1>5, <1>6, <1>7 DEF Local

\* The numbers of a side.
LEMMA Numbers ==
  ASSUME CallType, NEW s \in Side
  PROVE  /\ transmitted[s] \in Nat /\ executed[s] \in Nat /\ copied[s] \in Nat /\ cur[s] \in Nat
         /\ cur[s] >= 1 /\ Op = 1..N /\ N \in Nat /\ cur[s] <= N + 1
         /\ cur[s] \in Op => Steps(cur[s]) \in Nat \ {0} /\ OpHash(cur[s]) \in Nat
  BY OpFacts DEF CallType

\* A side that dequeues holds no slot, and the next operation has no plan.
LEMMA DequeueFresh ==
  ASSUME ShmType, CallType, NEW s \in Side, OneSlot(s), PcShape(s), NotYet(s), Dequeue(s)
  PROVE  /\ \A y \in Index : slot'[s][y].opHash = Free
         /\ cur'[s] \in Op => Own(s)'.opHash = Free
         /\ ~Claimed(s)' /\ ~Planned(s)'
<1>1. /\ cur'[s] = cur[s] + 1 /\ plan'[s] = plan[s] /\ slot'[s] = slot[s]
      /\ cur[s] \in Op /\ pc[s] = "done"
  BY DequeueEffect
<1>2. \A y \in Index : slot'[s][y].opHash = Free
  <2>1. Own(s).opHash = Free /\ OpHash(cur[s]) # Free BY <1>1, Numbers DEF PcShape
  <2> QED BY <1>1, <2>1 DEF OneSlot, Own
<1>3. cur'[s] \in Op => Own(s)'.opHash = Free
  <2>1. cur'[s] \in Op => SlotIdx(cur'[s]) \in Index BY IndexFact
  <2>2. Own(s)' = slot'[s][SlotIdx(cur'[s])] BY DEF Own
  <2> QED BY <1>2, <2>1, <2>2
<1>4. cur'[s] \in Op => plan'[s][cur'[s]] = "pending" BY <1>1, Numbers DEF NotYet
<1>5. cur'[s] \in Op => OpHash(cur'[s]) # Free BY OpFacts
<1> QED BY <1>2, <1>3, <1>4, <1>5

LEMMA ResetRegLocal ==
  ASSUME ShmType, CallType, NEW s \in Side, Local(s), ResetReg(s)
  PROVE  Local(s)'
<1>0. OneSlot(s) /\ PcShape(s) /\ NotYet(s) /\ Counters(s) /\ DoneMeansMoved(s) /\ OffersStand(s)
  BY DEF Local
<1>1. OneSlot(s)' BY <1>0, ResetRegEffect DEF OneSlot
<1>2. PcShape(s)' BY <1>0, ResetRegEffect DEF PcShape, Copier
<1>3. NotYet(s)' BY <1>0, ResetRegEffect DEF NotYet
<1>4. Counters(s)' BY <1>0, ResetRegEffect, Numbers DEF Counters, SameCounters
<1>5. DoneMeansMoved(s)' BY <1>0, ResetRegEffect, Numbers DEF DoneMeansMoved, SameCounters
<1>6. OffersStand(s)' BY <1>0, ResetRegEffect, Numbers DEF OffersStand
<1> QED BY <1>1, <1>2, <1>3, <1>4, <1>5, <1>6 DEF Local

LEMMA PublishSlotLocal ==
  ASSUME ShmType, CallType, NEW s \in Side, Local(s), PublishSlot(s)
  PROVE  Local(s)'
<1>0. OneSlot(s) /\ PcShape(s) /\ NotYet(s) /\ Counters(s) /\ DoneMeansMoved(s) /\ OffersStand(s)
  BY DEF Local
<1>1. OneSlot(s)' BY <1>0, PublishSlotEffect DEF OneSlot
<1>2. PcShape(s)' BY <1>0, PublishSlotEffect, Numbers DEF PcShape, Copier
<1>3. NotYet(s)' BY <1>0, PublishSlotEffect DEF NotYet
<1>4. Counters(s)' BY <1>0, PublishSlotEffect, Numbers DEF Counters, SameCounters
<1>5. DoneMeansMoved(s)' BY <1>0, PublishSlotEffect, Numbers DEF DoneMeansMoved, SameCounters
<1>6. OffersStand(s)' BY <1>0, PublishSlotEffect, Numbers DEF OffersStand, PcShape, NoReg
<1> QED BY <1>1, <1>2, <1>3, <1>4, <1>5, <1>6 DEF Local

LEMMA OwnsSlotLocal ==
  ASSUME ShmType, CallType, NEW s \in Side, Local(s), OwnsSlot(s)
  PROVE  Local(s)'
<1>0. OneSlot(s) /\ PcShape(s) /\ NotYet(s) /\ Counters(s) /\ DoneMeansMoved(s) /\ OffersStand(s)
  BY DEF Local
<1>1. OneSlot(s)' BY <1>0, OwnsSlotEffect DEF OneSlot
<1>2. PcShape(s)' BY <1>0, OwnsSlotEffect DEF PcShape, Copier
<1>3. NotYet(s)' BY <1>0, OwnsSlotEffect DEF NotYet
<1>4. Counters(s)' BY <1>0, OwnsSlotEffect, Numbers DEF Counters, SameCounters
<1>5. DoneMeansMoved(s)' BY <1>0, OwnsSlotEffect, Numbers DEF DoneMeansMoved, SameCounters
<1>6. OffersStand(s)' BY <1>0, OwnsSlotEffect DEF OffersStand, PcShape
<1> QED BY <1>1, <1>2, <1>3, <1>4, <1>5, <1>6 DEF Local

LEMMA CheckPeerLocal ==
  ASSUME ShmType, CallType, NEW s \in Side, Local(s), CheckPeer(s)
  PROVE  Local(s)'
<1>0. OneSlot(s) /\ PcShape(s) /\ NotYet(s) /\ Counters(s) /\ DoneMeansMoved(s) /\ OffersStand(s)
  BY DEF Local
<1>1. OneSlot(s)' BY <1>0, CheckPeerEffect DEF OneSlot
<1>2. PcShape(s)' BY <1>0, CheckPeerEffect DEF PcShape, Copier
<1>3. NotYet(s)' BY <1>0, CheckPeerEffect DEF NotYet
<1>4. Counters(s)' BY <1>0, CheckPeerEffect, Numbers DEF Counters, SameCounters
<1>5. DoneMeansMoved(s)' BY <1>0, CheckPeerEffect, Numbers DEF DoneMeansMoved, SameCounters
<1>6. OffersStand(s)' BY <1>0, CheckPeerEffect DEF OffersStand, PcShape
<1> QED BY <1>1, <1>2, <1>3, <1>4, <1>5, <1>6 DEF Local

LEMMA PublishOfferLocal ==
  ASSUME ShmType, CallType, NEW s \in Side, Local(s), PublishOffer(s)
  PROVE  Local(s)'
<1>0. OneSlot(s) /\ PcShape(s) /\ NotYet(s) /\ Counters(s) /\ DoneMeansMoved(s) /\ OffersStand(s)
  BY DEF Local
<1>1. OneSlot(s)' BY <1>0, PublishOfferEffect DEF OneSlot
<1>2. PcShape(s)' BY <1>0, PublishOfferEffect DEF PcShape, Copier
<1>3. NotYet(s)' BY <1>0, PublishOfferEffect DEF NotYet
<1>4. Counters(s)' BY <1>0, PublishOfferEffect, Numbers DEF Counters, SameCounters
<1>5. DoneMeansMoved(s)' BY <1>0, PublishOfferEffect, Numbers DEF DoneMeansMoved, SameCounters
<1>6. OffersStand(s)' BY <1>0, PublishOfferEffect DEF OffersStand, PcShape
<1> QED BY <1>1, <1>2, <1>3, <1>4, <1>5, <1>6 DEF Local

LEMMA ResolvePlanLocal ==
  ASSUME ShmType, CallType, NEW s \in Side, Local(s), ResolvePlan(s)
  PROVE  Local(s)'
<1>0. OneSlot(s) /\ PcShape(s) /\ NotYet(s) /\ Counters(s) /\ DoneMeansMoved(s) /\ OffersStand(s)
  BY DEF Local
<1>1. OneSlot(s)' BY <1>0, ResolvePlanEffect DEF OneSlot
<1>2. PcShape(s)' BY <1>0, ResolvePlanEffect DEF PcShape, Copier
<1>3. NotYet(s)' BY <1>0, ResolvePlanEffect, Numbers DEF NotYet
<1>4. Counters(s)' BY <1>0, ResolvePlanEffect, Numbers DEF Counters, SameCounters
<1>5. DoneMeansMoved(s)' BY <1>0, ResolvePlanEffect, Numbers DEF DoneMeansMoved, SameCounters
<1>6. OffersStand(s)' BY <1>0, ResolvePlanEffect DEF OffersStand, PcShape
<1> QED BY <1>1, <1>2, <1>3, <1>4, <1>5, <1>6 DEF Local

LEMMA MoveFifoLocal ==
  ASSUME ShmType, CallType, NEW s \in Side, Local(s), MoveFifo(s)
  PROVE  Local(s)'
<1>0. OneSlot(s) /\ PcShape(s) /\ NotYet(s) /\ Counters(s) /\ DoneMeansMoved(s) /\ OffersStand(s)
  BY DEF Local
<1>1. OneSlot(s)' BY <1>0, MoveFifoEffect DEF OneSlot
<1>2. PcShape(s)' BY <1>0, MoveFifoEffect DEF PcShape, Copier
<1>3. NotYet(s)' BY <1>0, MoveFifoEffect DEF NotYet
<1>4. Counters(s)' BY <1>0, MoveFifoEffect, Numbers DEF Counters, PcShape, FifoHasNext
<1>5. DoneMeansMoved(s)' BY <1>0, MoveFifoEffect, Numbers DEF DoneMeansMoved, SameCounters
<1>6. OffersStand(s)' BY <1>0, MoveFifoEffect DEF OffersStand, PcShape
<1> QED BY <1>1, <1>2, <1>3, <1>4, <1>5, <1>6 DEF Local

LEMMA MoveZeroCopyLocal ==
  ASSUME ShmType, CallType, NEW s \in Side, Local(s), MoveZeroCopy(s)
  PROVE  Local(s)'
<1>0. OneSlot(s) /\ PcShape(s) /\ NotYet(s) /\ Counters(s) /\ DoneMeansMoved(s) /\ OffersStand(s)
  BY DEF Local
<1>1. OneSlot(s)' BY <1>0, MoveZeroCopyEffect DEF OneSlot
<1>2. PcShape(s)' BY <1>0, MoveZeroCopyEffect DEF PcShape, Copier
<1>3. NotYet(s)' BY <1>0, MoveZeroCopyEffect DEF NotYet
<1>4. Counters(s)' BY <1>0, MoveZeroCopyEffect, Numbers DEF Counters, PcShape
<1>5. DoneMeansMoved(s)' BY <1>0, MoveZeroCopyEffect, Numbers DEF DoneMeansMoved, SameCounters
<1>6. OffersStand(s)' BY <1>0, MoveZeroCopyEffect DEF OffersStand, PcShape
<1> QED BY <1>1, <1>2, <1>3, <1>4, <1>5, <1>6 DEF Local

LEMMA AwaitCopyDoneLocal ==
  ASSUME ShmType, CallType, NEW s \in Side, Local(s), AwaitCopyDone(s)
  PROVE  Local(s)'
<1>0. OneSlot(s) /\ PcShape(s) /\ NotYet(s) /\ Counters(s) /\ DoneMeansMoved(s) /\ OffersStand(s)
  BY DEF Local
<1>1. OneSlot(s)' BY <1>0, AwaitCopyDoneEffect DEF OneSlot
<1>2. PcShape(s)' BY <1>0, AwaitCopyDoneEffect DEF PcShape, Copier
<1>3. NotYet(s)' BY <1>0, AwaitCopyDoneEffect DEF NotYet
<1>4. Counters(s)' BY <1>0, AwaitCopyDoneEffect, Numbers DEF Counters, PcShape, SameCounters
<1>5. DoneMeansMoved(s)' BY <1>0, AwaitCopyDoneEffect, Numbers DEF DoneMeansMoved, SameCounters
<1>6. OffersStand(s)' BY <1>0, AwaitCopyDoneEffect DEF OffersStand, PcShape
<1> QED BY <1>1, <1>2, <1>3, <1>4, <1>5, <1>6 DEF Local

LEMMA EventDoneLocal ==
  ASSUME ShmType, CallType, NEW s \in Side, Local(s), EventDone(s)
  PROVE  Local(s)'
<1>0. OneSlot(s) /\ PcShape(s) /\ NotYet(s) /\ Counters(s) /\ DoneMeansMoved(s) /\ OffersStand(s)
  BY DEF Local
<1>1. OneSlot(s)' BY <1>0, EventDoneEffect DEF OneSlot
<1>2. PcShape(s)' BY <1>0, EventDoneEffect DEF PcShape, Copier
<1>3. NotYet(s)' BY <1>0, EventDoneEffect DEF NotYet
<1>4. Counters(s)' BY <1>0, EventDoneEffect, Numbers DEF Counters
<1>5. DoneMeansMoved(s)' BY <1>0, EventDoneEffect, Numbers DEF DoneMeansMoved, SameCounters
<1>6. OffersStand(s)' BY <1>0, EventDoneEffect DEF OffersStand, PcShape
<1> QED BY <1>1, <1>2, <1>3, <1>4, <1>5, <1>6 DEF Local

LEMMA EventPendingLocal ==
  ASSUME ShmType, CallType, NEW s \in Side, Local(s), EventPending(s)
  PROVE  Local(s)'
<1>0. OneSlot(s) /\ PcShape(s) /\ NotYet(s) /\ Counters(s) /\ DoneMeansMoved(s) /\ OffersStand(s)
  BY DEF Local
<1>1. OneSlot(s)' BY <1>0, EventPendingEffect DEF OneSlot
<1>2. PcShape(s)' BY <1>0, EventPendingEffect DEF PcShape, Copier
<1>3. NotYet(s)' BY <1>0, EventPendingEffect DEF NotYet
<1>4. Counters(s)' BY <1>0, EventPendingEffect, Numbers DEF Counters, SameCounters
<1>5. DoneMeansMoved(s)' BY <1>0, EventPendingEffect, Numbers DEF DoneMeansMoved, SameCounters
<1>6. OffersStand(s)' BY <1>0, EventPendingEffect DEF OffersStand, PcShape
<1> QED BY <1>1, <1>2, <1>3, <1>4, <1>5, <1>6 DEF Local

LEMMA DeviceCopyLocal ==
  ASSUME ShmType, CallType, NEW s \in Side, Local(s), DeviceCopy(s)
  PROVE  Local(s)'
<1>0. OneSlot(s) /\ PcShape(s) /\ NotYet(s) /\ Counters(s) /\ DoneMeansMoved(s) /\ OffersStand(s)
  BY DEF Local
<1>1. OneSlot(s)' BY <1>0, DeviceCopyEffect DEF OneSlot
<1>2. PcShape(s)' BY <1>0, DeviceCopyEffect DEF PcShape, Copier
<1>3. NotYet(s)' BY <1>0, DeviceCopyEffect DEF NotYet
<1>4. Counters(s)' BY <1>0, DeviceCopyEffect, Numbers DEF Counters
<1>5. DoneMeansMoved(s)' BY <1>0, DeviceCopyEffect, Numbers DEF DoneMeansMoved, SameCounters
<1>6. OffersStand(s)' BY <1>0, DeviceCopyEffect DEF OffersStand, PcShape
<1> QED BY <1>1, <1>2, <1>3, <1>4, <1>5, <1>6 DEF Local

LEMMA MarkDoneLocal ==
  ASSUME ShmType, CallType, NEW s \in Side, Local(s), MarkDone(s)
  PROVE  Local(s)'
<1>0. OneSlot(s) /\ PcShape(s) /\ NotYet(s) /\ Counters(s) /\ DoneMeansMoved(s) /\ OffersStand(s)
  BY DEF Local
<1>1. OneSlot(s)' BY <1>0, MarkDoneEffect DEF OneSlot
<1>2. PcShape(s)' BY <1>0, MarkDoneEffect DEF PcShape, Copier
<1>3. NotYet(s)' BY <1>0, MarkDoneEffect DEF NotYet
<1>4. Counters(s)' BY <1>0, MarkDoneEffect, Numbers DEF Counters, SameCounters
<1>5. DoneMeansMoved(s)' BY <1>0, MarkDoneEffect, Numbers DEF DoneMeansMoved, SameCounters, Counters
<1>6. OffersStand(s)' BY <1>0, MarkDoneEffect DEF OffersStand, PcShape
<1> QED BY <1>1, <1>2, <1>3, <1>4, <1>5, <1>6 DEF Local

LEMMA CompleteLocal ==
  ASSUME ShmType, CallType, NEW s \in Side, Local(s), Complete(s)
  PROVE  Local(s)'
<1>0. OneSlot(s) /\ PcShape(s) /\ NotYet(s) /\ Counters(s) /\ DoneMeansMoved(s) /\ OffersStand(s)
  BY DEF Local
<1>1. OneSlot(s)' BY <1>0, CompleteEffect DEF OneSlot
<1>2. PcShape(s)' BY <1>0, CompleteEffect DEF PcShape, Copier
<1>3. NotYet(s)' BY <1>0, CompleteEffect DEF NotYet
<1>4. Counters(s)' BY <1>0, CompleteEffect, Numbers DEF Counters, SameCounters
<1>5. DoneMeansMoved(s)' BY <1>0, CompleteEffect DEF DoneMeansMoved, SameCounters, PcShape
<1>6. OffersStand(s)' BY <1>0, CompleteEffect DEF OffersStand, PcShape
<1> QED BY <1>1, <1>2, <1>3, <1>4, <1>5, <1>6 DEF Local

LEMMA DequeueLocal ==
  ASSUME ShmType, CallType, NEW s \in Side, Local(s), Dequeue(s)
  PROVE  Local(s)'
<1>0. OneSlot(s) /\ PcShape(s) /\ NotYet(s) /\ Counters(s) /\ DoneMeansMoved(s) /\ OffersStand(s)
  BY DEF Local
<1>a. /\ cur'[s] = cur[s] + 1 /\ pc'[s] = "poll" /\ plan'[s] = plan[s] /\ slot'[s] = slot[s]
      /\ copied'[s] = 0 /\ transmitted'[s] = 0 /\ executed'[s] = 0 /\ cur[s] \in Op /\ pc[s] = "done"
  BY DequeueEffect
<1>b. /\ \A y \in Index : slot'[s][y].opHash = Free
      /\ cur'[s] \in Op => Own(s)'.opHash = Free
      /\ ~Claimed(s)' /\ ~Planned(s)'
  BY <1>0, DequeueFresh
<1>1. OneSlot(s)' BY <1>b DEF OneSlot
<1>2. PcShape(s)' BY <1>a, <1>b DEF PcShape
<1>3. NotYet(s)' BY <1>0, <1>a, Numbers DEF NotYet
<1>4. Counters(s)' BY <1>a, OpFacts DEF Counters
<1>5. DoneMeansMoved(s)' BY <1>a, <1>b DEF DoneMeansMoved
<1>6. OffersStand(s)' BY <1>b DEF OffersStand
<1> QED BY <1>1, <1>2, <1>3, <1>4, <1>5, <1>6 DEF Local

LEMMA MarkDonePeerLocal ==
  ASSUME ShmType, CallType, NEW s \in Side, Local(Peer(s)), MarkDone(s)
  PROVE  Local(Peer(s))'
<1>0. /\ OneSlot(Peer(s)) /\ PcShape(Peer(s)) /\ NotYet(Peer(s))
      /\ Counters(Peer(s)) /\ DoneMeansMoved(Peer(s)) /\ OffersStand(Peer(s))
  BY DEF Local
<1>1. OneSlot(Peer(s))' BY <1>0, MarkDoneEffect DEF OneSlot
<1>2. PcShape(Peer(s))' BY <1>0, MarkDoneEffect DEF PcShape, Copier
<1>3. NotYet(Peer(s))' BY <1>0, MarkDoneEffect DEF NotYet
<1>4. Counters(Peer(s))' BY <1>0, MarkDoneEffect DEF Counters, SameCounters
<1>5. DoneMeansMoved(Peer(s))' BY <1>0, MarkDoneEffect DEF DoneMeansMoved, SameCounters, PcShape
<1>6. OffersStand(Peer(s))' BY <1>0, MarkDoneEffect DEF OffersStand
<1> QED BY <1>1, <1>2, <1>3, <1>4, <1>5, <1>6 DEF Local

-----------------------------------------------------------------------------
(* The local part holds in every state *)

\* Each side, by its own steps, holds at most the slot of its head operation,
\* is past all its chunks when it says it is done, and makes one offer.
THEOREM LocalInvariant == Spec => []LocalInv
<1>1. Init => LocalInv
  <2> SUFFICES ASSUME Init PROVE LocalInv OBVIOUS
  <2>1. ShmType BY RecordTypes DEF Init, ShmType
  <2>2. CallType BY OpFacts DEF Init, CallType, Plan
  <2>3. ASSUME NEW s \in Side PROVE Local(s)
    <3>1. \A y \in Index : slot[s][y].opHash = Free BY DEF Init, FreeSlot
    <3>2. /\ cur[s] = 1 /\ pc[s] = "poll" /\ copied[s] = 0 /\ transmitted[s] = 0 /\ executed[s] = 0
          /\ \A i \in Op : plan[s][i] = "pending"
      BY DEF Init
    <3>3. cur[s] \in Op => Own(s).opHash = Free BY <3>1, IndexFact DEF Own
    <3>4. ~Claimed(s) /\ ~Planned(s) BY <3>2, <3>3, OpFacts
    <3>5. cur[s] \in Op => Steps(cur[s]) \in Nat BY OpFacts
    <3> QED BY <3>1, <3>2, <3>4, <3>5 DEF Local, OneSlot, PcShape, NotYet, Counters, DoneMeansMoved, OffersStand
  <2> QED BY <2>1, <2>2, <2>3 DEF LocalInv
<1>2. LocalInv /\ [Next]_vars => LocalInv'
  <2> SUFFICES ASSUME LocalInv, [Next]_vars PROVE LocalInv' OBVIOUS
  <2>0. ShmType /\ CallType /\ \A s \in Side : Local(s) BY DEF LocalInv
  <2>1. ASSUME NEW s \in Side, Proxy(s) \/ DeviceCopy(s) PROVE LocalInv'
    <3>1. Local(s) /\ Local(Peer(s)) BY <2>0
    <3>2. CASE MarkDone(s)
      <4>1. Local(s)' BY <2>0, <3>1, <3>2, MarkDoneLocal
      <4>2. Local(Peer(s))' BY <2>0, <3>1, <3>2, MarkDonePeerLocal
      <4> QED BY <2>0, <3>2, <4>1, <4>2, MarkDoneEffect DEF LocalInv, Side, Peer
    <3>3. CASE ~MarkDone(s)
      <4>1. ShmType' /\ CallType' /\ Same(Peer(s)) /\ Local(s)'
        <5>1. CASE ResetReg(s) BY <2>0, <3>1, <5>1, ResetRegEffect, ResetRegLocal
        <5>2. CASE PublishSlot(s) BY <2>0, <3>1, <5>2, PublishSlotEffect, PublishSlotLocal
        <5>3. CASE OwnsSlot(s) BY <2>0, <3>1, <5>3, OwnsSlotEffect, OwnsSlotLocal
        <5>4. CASE CheckPeer(s) BY <2>0, <3>1, <5>4, CheckPeerEffect, CheckPeerLocal
        <5>5. CASE PublishOffer(s) BY <2>0, <3>1, <5>5, PublishOfferEffect, PublishOfferLocal
        <5>6. CASE ResolvePlan(s) BY <2>0, <3>1, <5>6, ResolvePlanEffect, ResolvePlanLocal
        <5>7. CASE MoveFifo(s) BY <2>0, <3>1, <5>7, MoveFifoEffect, MoveFifoLocal
        <5>8. CASE MoveZeroCopy(s) BY <2>0, <3>1, <5>8, MoveZeroCopyEffect, MoveZeroCopyLocal
        <5>9. CASE AwaitCopyDone(s) BY <2>0, <3>1, <5>9, AwaitCopyDoneEffect, AwaitCopyDoneLocal
        <5>10. CASE EventDone(s) BY <2>0, <3>1, <5>10, EventDoneEffect, EventDoneLocal
        <5>11. CASE EventPending(s) BY <2>0, <3>1, <5>11, EventPendingEffect, EventPendingLocal
        <5>12. CASE DeviceCopy(s) BY <2>0, <3>1, <5>12, DeviceCopyEffect, DeviceCopyLocal
        <5>13. CASE Complete(s) BY <2>0, <3>1, <5>13, CompleteEffect, CompleteLocal
        <5>14. CASE Dequeue(s) BY <2>0, <3>1, <5>14, DequeueEffect, DequeueLocal
        <5> QED BY <2>1, <3>3, <5>1, <5>2, <5>3, <5>4, <5>5, <5>6, <5>7, <5>8, <5>9, <5>10,
                   <5>11, <5>12, <5>13, <5>14 DEF Proxy
      <4>2. Local(Peer(s))' BY <3>1, <4>1, LocalFrame
      <4> QED BY <4>1, <4>2 DEF LocalInv, Side, Peer
    <3> QED BY <3>2, <3>3
  <2>2. CASE UNCHANGED vars
    <3>1. \A s \in Side : Same(s) BY <2>2 DEF vars, shmVars, argVars, devVars, Same, SameCounters
    <3>2. \A s \in Side : Local(s)' BY <2>0, <3>1, LocalFrame
    <3>3. ShmType' /\ CallType' BY <2>0, <2>2 DEF vars, shmVars, argVars, devVars, ShmType, CallType
    <3> QED BY <3>2, <3>3 DEF LocalInv
  <2> QED BY <2>1, <2>2 DEF Next
<1> QED BY <1>1, <1>2, PTL DEF Spec

-----------------------------------------------------------------------------
(* The two sides together *)

USE DEF Finished, With, Met

\* The sides are at most one operation apart.
LEMMA Apart ==
  ASSUME CallType, NEW s \in Side, LeftBehind(s)
  PROVE  cur[s] <= cur[Peer(s)] + 1
<1>1. cur[s] \in Nat /\ cur[s] >= 1 /\ cur[s] <= N + 1 /\ Op = 1..N /\ N \in Nat /\ cur[Peer(s)] \in Nat
  BY Numbers
<1>2. CASE cur[s] = 1 BY <1>1, <1>2
<1>3. CASE cur[s] # 1
  <2> DEFINE i == cur[s] - 1
  <2>1. i \in Op /\ i \in Nat /\ cur[s] > i BY <1>1, <1>3
  <2>2. cur[Peer(s)] > i \/ cur[Peer(s)] = i BY <2>1 DEF LeftBehind
  <2> QED BY <1>1, <2>2
<1> QED BY <1>2, <1>3

\* A side that finds its hash in the peer's slot has met the peer.
LEMMA SameHash ==
  ASSUME CallType, NEW s \in Side, OneSlot(Peer(s)), LeftBehind(s), LeftBehind(Peer(s)),
         HashesDiffer, cur[s] \in Op, PeerOf(s).opHash = OpHash(cur[s])
  PROVE  With(s)
<1>1. PeerOf(s) = slot[Peer(s)][SlotIdx(cur[s])] /\ SlotIdx(cur[s]) \in Index
  BY IndexFact DEF PeerOf
<1>2. PeerOf(s).opHash # Free BY OpFacts
<1>3. /\ cur[Peer(s)] \in Op /\ SlotIdx(cur[s]) = SlotIdx(cur[Peer(s)])
      /\ OpHash(cur[s]) = OpHash(cur[Peer(s)])
  BY <1>1, <1>2 DEF OneSlot
<1>4. cur[s] <= cur[Peer(s)] + 1 /\ cur[Peer(s)] <= cur[s] + 1 BY Apart
<1>5. cur[s] \in Nat /\ cur[Peer(s)] \in Nat BY Numbers
<1>6. cur[s] # cur[Peer(s)] + 1 /\ cur[Peer(s)] # cur[s] + 1 BY <1>3 DEF HashesDiffer
<1>7. cur[s] = cur[Peer(s)] BY <1>4, <1>5, <1>6
<1> QED BY <1>1, <1>3, <1>7 DEF Own

LEMMA SameOffers ==
  ASSUME NEW s \in Side,
         OwnReg(s)'.registered = OwnReg(s).registered,
         OwnReg(s)'.forceFifo = OwnReg(s).forceFifo,
         OwnReg(Peer(s))' = OwnReg(Peer(s))
  PROVE  OfferedPlan' = OfferedPlan
  BY DEF OfferedPlan, TransferPlan, Side, Peer

\* A side that has moved its chunks has a plan.
LEMMA MovedIsPlanned ==
  ASSUME CallType, NEW s \in Side, Counters(s), DoneMeansMoved(s), Claimed(s), Own(s).done
  PROVE  Planned(s)
  BY Numbers DEF Counters, DoneMeansMoved

LEMMA ResetRegJoint ==
  ASSUME ShmType, CallType, NEW s \in Side, Local(s), Local(Peer(s)), Joint(s), Joint(Peer(s)),
         HashesDiffer, ResetReg(s)
  PROVE  Joint(s)' /\ Joint(Peer(s))'
<1>0. /\ OneSlot(s) /\ PcShape(s) /\ NotYet(s) /\ Counters(s) /\ DoneMeansMoved(s) /\ OffersStand(s)
      /\ OneSlot(Peer(s)) /\ PcShape(Peer(s)) /\ NotYet(Peer(s)) /\ Counters(Peer(s))
      /\ DoneMeansMoved(Peer(s)) /\ OffersStand(Peer(s))
  BY DEF Local
<1>a. /\ Meeting(s) /\ PeerDoneIsTrue(s) /\ LeftBehind(s) /\ PlansFollowOffers(s) /\ FinishedAgree(s)
      /\ Meeting(Peer(s)) /\ PeerDoneIsTrue(Peer(s)) /\ LeftBehind(Peer(s))
      /\ PlansFollowOffers(Peer(s)) /\ FinishedAgree(Peer(s))
  BY DEF Joint
<1>c. /\ cur'[Peer(s)] = cur[Peer(s)] /\ pc'[Peer(s)] = pc[Peer(s)] /\ plan'[Peer(s)] = plan[Peer(s)]
      /\ Own(Peer(s))' = Own(Peer(s)) /\ OwnReg(Peer(s))' = OwnReg(Peer(s))
  BY ResetRegEffect, SameView DEF Same
<1>1. Meeting(s)' BY <1>a, <1>c, ResetRegEffect DEF Meeting
<1>2. PeerDoneIsTrue(s)' BY <1>a, <1>c, ResetRegEffect DEF PeerDoneIsTrue
<1>3. LeftBehind(s)' BY <1>a, <1>c, ResetRegEffect DEF LeftBehind
<1>4. PlansFollowOffers(s)' BY <1>a, <1>c, ResetRegEffect, Numbers DEF PlansFollowOffers
<1>5. FinishedAgree(s)' BY <1>a, <1>c, ResetRegEffect DEF FinishedAgree
<1>6. Meeting(Peer(s))' BY <1>a, <1>c, ResetRegEffect DEF Meeting
<1>7. PeerDoneIsTrue(Peer(s))' BY <1>a, <1>c, ResetRegEffect DEF PeerDoneIsTrue
<1>8. LeftBehind(Peer(s))' BY <1>a, <1>c, ResetRegEffect DEF LeftBehind
<1>9. PlansFollowOffers(Peer(s))' BY <1>a, <1>c, ResetRegEffect, Numbers DEF PlansFollowOffers
<1>10. FinishedAgree(Peer(s))' BY <1>a, <1>c, ResetRegEffect DEF FinishedAgree
<1> QED BY <1>1, <1>2, <1>3, <1>4, <1>5, <1>6, <1>7, <1>8, <1>9, <1>10 DEF Joint

LEMMA PublishSlotJoint ==
  ASSUME ShmType, CallType, NEW s \in Side, Local(s), Local(Peer(s)), Joint(s), Joint(Peer(s)),
         HashesDiffer, PublishSlot(s)
  PROVE  Joint(s)' /\ Joint(Peer(s))'
<1>0. /\ OneSlot(s) /\ PcShape(s) /\ NotYet(s) /\ Counters(s) /\ DoneMeansMoved(s) /\ OffersStand(s)
      /\ OneSlot(Peer(s)) /\ PcShape(Peer(s)) /\ NotYet(Peer(s)) /\ Counters(Peer(s))
      /\ DoneMeansMoved(Peer(s)) /\ OffersStand(Peer(s))
  BY DEF Local
<1>a. /\ Meeting(s) /\ PeerDoneIsTrue(s) /\ LeftBehind(s) /\ PlansFollowOffers(s) /\ FinishedAgree(s)
      /\ Meeting(Peer(s)) /\ PeerDoneIsTrue(Peer(s)) /\ LeftBehind(Peer(s))
      /\ PlansFollowOffers(Peer(s)) /\ FinishedAgree(Peer(s))
  BY DEF Joint
<1>c. /\ cur'[Peer(s)] = cur[Peer(s)] /\ pc'[Peer(s)] = pc[Peer(s)] /\ plan'[Peer(s)] = plan[Peer(s)]
      /\ Own(Peer(s))' = Own(Peer(s)) /\ OwnReg(Peer(s))' = OwnReg(Peer(s))
  BY PublishSlotEffect, SameView DEF Same
<1>d. ~Claimed(s) /\ ~Finished(s, cur[s]) BY <1>0, PublishSlotEffect, Numbers DEF PcShape
<1>e. ~Finished(Peer(s), cur[s]) BY <1>a, <1>d, PublishSlotEffect DEF LeftBehind
<1>f. cur[Peer(s)] = cur[s] => ~Planned(Peer(s)) BY <1>a, <1>d, Numbers DEF Meeting
<1>g. With(s) => ~Own(Peer(s)).done BY <1>0, <1>f, MovedIsPlanned
<1>1. Meeting(s)' BY <1>a, <1>c, PublishSlotEffect DEF Meeting
<1>2. PeerDoneIsTrue(s)' BY <1>c, <1>e, <1>g, PublishSlotEffect DEF PeerDoneIsTrue
<1>3. LeftBehind(s)' BY <1>a, <1>c, PublishSlotEffect DEF LeftBehind
<1>4. PlansFollowOffers(s)' BY <1>0, <1>c, <1>d, PublishSlotEffect, Numbers DEF PlansFollowOffers, PcShape
<1>5. FinishedAgree(s)' BY <1>a, <1>c, PublishSlotEffect DEF FinishedAgree
<1>6. Meeting(Peer(s))' BY <1>a, <1>c, PublishSlotEffect DEF Meeting
<1>7. PeerDoneIsTrue(Peer(s))' BY <1>0, <1>a, <1>c, PublishSlotEffect, Numbers DEF PeerDoneIsTrue, PcShape
<1>8. LeftBehind(Peer(s))' BY <1>0, <1>a, <1>c, PublishSlotEffect, Numbers DEF LeftBehind, PcShape
<1>9. PlansFollowOffers(Peer(s))' BY <1>c, <1>f, PublishSlotEffect DEF PlansFollowOffers
<1>10. FinishedAgree(Peer(s))' BY <1>a, <1>c, PublishSlotEffect DEF FinishedAgree
<1> QED BY <1>1, <1>2, <1>3, <1>4, <1>5, <1>6, <1>7, <1>8, <1>9, <1>10 DEF Joint

LEMMA OwnsSlotJoint ==
  ASSUME ShmType, CallType, NEW s \in Side, Local(s), Local(Peer(s)), Joint(s), Joint(Peer(s)),
         HashesDiffer, OwnsSlot(s)
  PROVE  Joint(s)' /\ Joint(Peer(s))'
<1>0. /\ OneSlot(s) /\ PcShape(s) /\ NotYet(s) /\ Counters(s) /\ DoneMeansMoved(s) /\ OffersStand(s)
      /\ OneSlot(Peer(s)) /\ PcShape(Peer(s)) /\ NotYet(Peer(s)) /\ Counters(Peer(s))
      /\ DoneMeansMoved(Peer(s)) /\ OffersStand(Peer(s))
  BY DEF Local
<1>a. /\ Meeting(s) /\ PeerDoneIsTrue(s) /\ LeftBehind(s) /\ PlansFollowOffers(s) /\ FinishedAgree(s)
      /\ Meeting(Peer(s)) /\ PeerDoneIsTrue(Peer(s)) /\ LeftBehind(Peer(s))
      /\ PlansFollowOffers(Peer(s)) /\ FinishedAgree(Peer(s))
  BY DEF Joint
<1>c. /\ cur'[Peer(s)] = cur[Peer(s)] /\ pc'[Peer(s)] = pc[Peer(s)] /\ plan'[Peer(s)] = plan[Peer(s)]
      /\ Own(Peer(s))' = Own(Peer(s)) /\ OwnReg(Peer(s))' = OwnReg(Peer(s))
  BY OwnsSlotEffect, SameView DEF Same
<1>d. OfferedPlan' = OfferedPlan BY <1>c, OwnsSlotEffect, SameOffers
<1>1. Meeting(s)' BY <1>a, <1>c, OwnsSlotEffect DEF Meeting
<1>2. PeerDoneIsTrue(s)' BY <1>a, <1>c, OwnsSlotEffect DEF PeerDoneIsTrue
<1>3. LeftBehind(s)' BY <1>a, <1>c, OwnsSlotEffect DEF LeftBehind
<1>4. PlansFollowOffers(s)' BY <1>0, <1>a, <1>c, <1>d, OwnsSlotEffect DEF PlansFollowOffers
<1>5. FinishedAgree(s)' BY <1>a, <1>c, OwnsSlotEffect DEF FinishedAgree
<1>6. Meeting(Peer(s))' BY <1>a, <1>c, OwnsSlotEffect DEF Meeting
<1>7. PeerDoneIsTrue(Peer(s))' BY <1>a, <1>c, OwnsSlotEffect DEF PeerDoneIsTrue
<1>8. LeftBehind(Peer(s))' BY <1>a, <1>c, OwnsSlotEffect DEF LeftBehind
<1>9. PlansFollowOffers(Peer(s))' BY <1>0, <1>a, <1>c, <1>d, OwnsSlotEffect DEF PlansFollowOffers
<1>10. FinishedAgree(Peer(s))' BY <1>a, <1>c, OwnsSlotEffect DEF FinishedAgree
<1> QED BY <1>1, <1>2, <1>3, <1>4, <1>5, <1>6, <1>7, <1>8, <1>9, <1>10 DEF Joint

LEMMA CheckPeerJoint ==
  ASSUME ShmType, CallType, NEW s \in Side, Local(s), Local(Peer(s)), Joint(s), Joint(Peer(s)),
         HashesDiffer, CheckPeer(s)
  PROVE  Joint(s)' /\ Joint(Peer(s))'
<1>0. /\ OneSlot(s) /\ PcShape(s) /\ NotYet(s) /\ Counters(s) /\ DoneMeansMoved(s) /\ OffersStand(s)
      /\ OneSlot(Peer(s)) /\ PcShape(Peer(s)) /\ NotYet(Peer(s)) /\ Counters(Peer(s))
      /\ DoneMeansMoved(Peer(s)) /\ OffersStand(Peer(s))
  BY DEF Local
<1>a. /\ Meeting(s) /\ PeerDoneIsTrue(s) /\ LeftBehind(s) /\ PlansFollowOffers(s) /\ FinishedAgree(s)
      /\ Meeting(Peer(s)) /\ PeerDoneIsTrue(Peer(s)) /\ LeftBehind(Peer(s))
      /\ PlansFollowOffers(Peer(s)) /\ FinishedAgree(Peer(s))
  BY DEF Joint
<1>c. /\ cur'[Peer(s)] = cur[Peer(s)] /\ pc'[Peer(s)] = pc[Peer(s)] /\ plan'[Peer(s)] = plan[Peer(s)]
      /\ Own(Peer(s))' = Own(Peer(s)) /\ OwnReg(Peer(s))' = OwnReg(Peer(s))
  BY CheckPeerEffect, SameView DEF Same
<1>d. OfferedPlan' = OfferedPlan BY <1>c, CheckPeerEffect, SameOffers
<1>e. PeerReady(s) => With(s) \/ Finished(Peer(s), cur[s])
  <2>1. Claimed(s) BY <1>0, CheckPeerEffect DEF PcShape
  <2>2. CASE PeerOf(s).opHash = OpHash(cur[s]) BY <1>0, <1>a, <2>1, <2>2, SameHash
  <2>3. CASE Own(s).peerDone BY <1>a, <2>1, <2>3 DEF PeerDoneIsTrue
  <2> QED BY <2>2, <2>3 DEF PeerReady
<1>1. Meeting(s)' BY <1>a, <1>c, <1>e, CheckPeerEffect DEF Meeting
<1>2. PeerDoneIsTrue(s)' BY <1>a, <1>c, CheckPeerEffect DEF PeerDoneIsTrue
<1>3. LeftBehind(s)' BY <1>a, <1>c, CheckPeerEffect DEF LeftBehind
<1>4. PlansFollowOffers(s)' BY <1>0, <1>a, <1>c, <1>d, CheckPeerEffect DEF PlansFollowOffers
<1>5. FinishedAgree(s)' BY <1>a, <1>c, CheckPeerEffect DEF FinishedAgree
<1>6. Meeting(Peer(s))' BY <1>a, <1>c, CheckPeerEffect DEF Meeting
<1>7. PeerDoneIsTrue(Peer(s))' BY <1>a, <1>c, CheckPeerEffect DEF PeerDoneIsTrue
<1>8. LeftBehind(Peer(s))' BY <1>a, <1>c, CheckPeerEffect DEF LeftBehind
<1>9. PlansFollowOffers(Peer(s))' BY <1>0, <1>a, <1>c, <1>d, CheckPeerEffect DEF PlansFollowOffers
<1>10. FinishedAgree(Peer(s))' BY <1>a, <1>c, CheckPeerEffect DEF FinishedAgree
<1> QED BY <1>1, <1>2, <1>3, <1>4, <1>5, <1>6, <1>7, <1>8, <1>9, <1>10 DEF Joint

LEMMA PublishOfferJoint ==
  ASSUME ShmType, CallType, NEW s \in Side, Local(s), Local(Peer(s)), Joint(s), Joint(Peer(s)),
         HashesDiffer, PublishOffer(s)
  PROVE  Joint(s)' /\ Joint(Peer(s))'
<1>0. /\ OneSlot(s) /\ PcShape(s) /\ NotYet(s) /\ Counters(s) /\ DoneMeansMoved(s) /\ OffersStand(s)
      /\ OneSlot(Peer(s)) /\ PcShape(Peer(s)) /\ NotYet(Peer(s)) /\ Counters(Peer(s))
      /\ DoneMeansMoved(Peer(s)) /\ OffersStand(Peer(s))
  BY DEF Local
<1>a. /\ Meeting(s) /\ PeerDoneIsTrue(s) /\ LeftBehind(s) /\ PlansFollowOffers(s) /\ FinishedAgree(s)
      /\ Meeting(Peer(s)) /\ PeerDoneIsTrue(Peer(s)) /\ LeftBehind(Peer(s))
      /\ PlansFollowOffers(Peer(s)) /\ FinishedAgree(Peer(s))
  BY DEF Joint
<1>c. /\ cur'[Peer(s)] = cur[Peer(s)] /\ pc'[Peer(s)] = pc[Peer(s)] /\ plan'[Peer(s)] = plan[Peer(s)]
      /\ Own(Peer(s))' = Own(Peer(s)) /\ OwnReg(Peer(s))' = OwnReg(Peer(s))
  BY PublishOfferEffect, SameView DEF Same
<1>d. OwnReg(s).offerReady => OfferedPlan' = OfferedPlan BY <1>c, PublishOfferEffect, SameOffers
<1>e. ~OwnReg(s).offerReady => ~Planned(s) BY <1>0, PublishOfferEffect DEF OffersStand, PcShape
<1>f. Claimed(s) BY <1>0, PublishOfferEffect DEF PcShape
<1>1. Meeting(s)' BY <1>a, <1>c, PublishOfferEffect DEF Meeting
<1>2. PeerDoneIsTrue(s)' BY <1>a, <1>c, PublishOfferEffect DEF PeerDoneIsTrue
<1>3. LeftBehind(s)' BY <1>a, <1>c, PublishOfferEffect DEF LeftBehind
<1>4. PlansFollowOffers(s)' BY <1>a, <1>c, <1>d, <1>e, PublishOfferEffect DEF PlansFollowOffers
<1>5. FinishedAgree(s)' BY <1>a, <1>c, PublishOfferEffect DEF FinishedAgree
<1>6. Meeting(Peer(s))' BY <1>a, <1>c, PublishOfferEffect DEF Meeting
<1>7. PeerDoneIsTrue(Peer(s))' BY <1>a, <1>c, PublishOfferEffect DEF PeerDoneIsTrue
<1>8. LeftBehind(Peer(s))' BY <1>a, <1>c, PublishOfferEffect DEF LeftBehind
<1>9. PlansFollowOffers(Peer(s))' BY <1>a, <1>c, <1>d, <1>f, PublishOfferEffect DEF PlansFollowOffers
<1>10. FinishedAgree(Peer(s))' BY <1>a, <1>c, PublishOfferEffect DEF FinishedAgree
<1> QED BY <1>1, <1>2, <1>3, <1>4, <1>5, <1>6, <1>7, <1>8, <1>9, <1>10 DEF Joint

LEMMA ResolvePlanJoint ==
  ASSUME ShmType, CallType, NEW s \in Side, Local(s), Local(Peer(s)), Joint(s), Joint(Peer(s)),
         HashesDiffer, ResolvePlan(s)
  PROVE  Joint(s)' /\ Joint(Peer(s))'
<1>0. /\ OneSlot(s) /\ PcShape(s) /\ NotYet(s) /\ Counters(s) /\ DoneMeansMoved(s) /\ OffersStand(s)
      /\ OneSlot(Peer(s)) /\ PcShape(Peer(s)) /\ NotYet(Peer(s)) /\ Counters(Peer(s))
      /\ DoneMeansMoved(Peer(s)) /\ OffersStand(Peer(s))
  BY DEF Local
<1>a. /\ Meeting(s) /\ PeerDoneIsTrue(s) /\ LeftBehind(s) /\ PlansFollowOffers(s) /\ FinishedAgree(s)
      /\ Meeting(Peer(s)) /\ PeerDoneIsTrue(Peer(s)) /\ LeftBehind(Peer(s))
      /\ PlansFollowOffers(Peer(s)) /\ FinishedAgree(Peer(s))
  BY DEF Joint
<1>c. /\ cur'[Peer(s)] = cur[Peer(s)] /\ pc'[Peer(s)] = pc[Peer(s)] /\ plan'[Peer(s)] = plan[Peer(s)]
      /\ Own(Peer(s))' = Own(Peer(s)) /\ OwnReg(Peer(s))' = OwnReg(Peer(s))
  BY ResolvePlanEffect, SameView DEF Same
<1>d. OfferedPlan' = OfferedPlan BY <1>c, ResolvePlanEffect, SameOffers
<1>e. Claimed(s) /\ OwnReg(s).offerReady BY <1>0, ResolvePlanEffect DEF PcShape, OffersStand
<1>f. With(s) => PeerReg(s) = OwnReg(Peer(s)) BY DEF PeerReg, OwnReg
<1>g. (IF s = "send" THEN TransferPlan(OwnReg(s), OwnReg(Peer(s)))
        ELSE TransferPlan(OwnReg(Peer(s)), OwnReg(s))) = OfferedPlan
  BY DEF OfferedPlan, Side, Peer
<1>1. Meeting(s)' BY <1>a, <1>c, ResolvePlanEffect DEF Meeting
<1>2. PeerDoneIsTrue(s)' BY <1>a, <1>c, ResolvePlanEffect DEF PeerDoneIsTrue
<1>3. LeftBehind(s)' BY <1>a, <1>c, ResolvePlanEffect DEF LeftBehind
<1>4. PlansFollowOffers(s)'
  <2> SUFFICES ASSUME With(s)', Planned(s)'
               PROVE  (OwnReg(Peer(s)).offerReady)' /\ (plan[s][cur[s]] = OfferedPlan)'
    BY DEF PlansFollowOffers
  <2>1. With(s) BY <1>c, ResolvePlanEffect
  <2>2. CASE Planned(s) BY <1>a, <1>c, <1>d, <1>e, <2>1, <2>2, ResolvePlanEffect DEF PlansFollowOffers
  <2>3. CASE ~Planned(s)
    <3>1. PeerReg(s).offerReady /\ plan'[s][cur[s]] = OfferedPlan
      BY <1>f, <1>g, <2>1, <2>3, ResolvePlanEffect
    <3> QED BY <1>c, <1>d, <1>f, <2>1, <3>1, ResolvePlanEffect
  <2> QED BY <2>2, <2>3
<1>5. FinishedAgree(s)' BY <1>a, <1>c, ResolvePlanEffect DEF FinishedAgree
<1>6. Meeting(Peer(s))' BY <1>a, <1>c, ResolvePlanEffect DEF Meeting
<1>7. PeerDoneIsTrue(Peer(s))' BY <1>a, <1>c, ResolvePlanEffect DEF PeerDoneIsTrue
<1>8. LeftBehind(Peer(s))' BY <1>a, <1>c, ResolvePlanEffect DEF LeftBehind
<1>9. PlansFollowOffers(Peer(s))' BY <1>a, <1>c, <1>d, ResolvePlanEffect DEF PlansFollowOffers
<1>10. FinishedAgree(Peer(s))' BY <1>a, <1>c, ResolvePlanEffect DEF FinishedAgree
<1> QED BY <1>1, <1>2, <1>3, <1>4, <1>5, <1>6, <1>7, <1>8, <1>9, <1>10 DEF Joint

LEMMA MoveFifoJoint ==
  ASSUME ShmType, CallType, NEW s \in Side, Local(s), Local(Peer(s)), Joint(s), Joint(Peer(s)),
         HashesDiffer, MoveFifo(s)
  PROVE  Joint(s)' /\ Joint(Peer(s))'
<1>0. /\ OneSlot(s) /\ PcShape(s) /\ NotYet(s) /\ Counters(s) /\ DoneMeansMoved(s) /\ OffersStand(s)
      /\ OneSlot(Peer(s)) /\ PcShape(Peer(s)) /\ NotYet(Peer(s)) /\ Counters(Peer(s))
      /\ DoneMeansMoved(Peer(s)) /\ OffersStand(Peer(s))
  BY DEF Local
<1>a. /\ Meeting(s) /\ PeerDoneIsTrue(s) /\ LeftBehind(s) /\ PlansFollowOffers(s) /\ FinishedAgree(s)
      /\ Meeting(Peer(s)) /\ PeerDoneIsTrue(Peer(s)) /\ LeftBehind(Peer(s))
      /\ PlansFollowOffers(Peer(s)) /\ FinishedAgree(Peer(s))
  BY DEF Joint
<1>c. /\ cur'[Peer(s)] = cur[Peer(s)] /\ pc'[Peer(s)] = pc[Peer(s)] /\ plan'[Peer(s)] = plan[Peer(s)]
      /\ Own(Peer(s))' = Own(Peer(s)) /\ OwnReg(Peer(s))' = OwnReg(Peer(s))
  BY MoveFifoEffect, SameView DEF Same
<1>d. OfferedPlan' = OfferedPlan BY <1>c, MoveFifoEffect, SameOffers
<1>1. Meeting(s)' BY <1>a, <1>c, MoveFifoEffect DEF Meeting
<1>2. PeerDoneIsTrue(s)' BY <1>a, <1>c, MoveFifoEffect DEF PeerDoneIsTrue
<1>3. LeftBehind(s)' BY <1>a, <1>c, MoveFifoEffect DEF LeftBehind
<1>4. PlansFollowOffers(s)' BY <1>0, <1>a, <1>c, <1>d, MoveFifoEffect DEF PlansFollowOffers
<1>5. FinishedAgree(s)' BY <1>a, <1>c, MoveFifoEffect DEF FinishedAgree
<1>6. Meeting(Peer(s))' BY <1>a, <1>c, MoveFifoEffect DEF Meeting
<1>7. PeerDoneIsTrue(Peer(s))' BY <1>a, <1>c, MoveFifoEffect DEF PeerDoneIsTrue
<1>8. LeftBehind(Peer(s))' BY <1>a, <1>c, MoveFifoEffect DEF LeftBehind
<1>9. PlansFollowOffers(Peer(s))' BY <1>0, <1>a, <1>c, <1>d, MoveFifoEffect DEF PlansFollowOffers
<1>10. FinishedAgree(Peer(s))' BY <1>a, <1>c, MoveFifoEffect DEF FinishedAgree
<1> QED BY <1>1, <1>2, <1>3, <1>4, <1>5, <1>6, <1>7, <1>8, <1>9, <1>10 DEF Joint

LEMMA MoveZeroCopyJoint ==
  ASSUME ShmType, CallType, NEW s \in Side, Local(s), Local(Peer(s)), Joint(s), Joint(Peer(s)),
         HashesDiffer, MoveZeroCopy(s)
  PROVE  Joint(s)' /\ Joint(Peer(s))'
<1>0. /\ OneSlot(s) /\ PcShape(s) /\ NotYet(s) /\ Counters(s) /\ DoneMeansMoved(s) /\ OffersStand(s)
      /\ OneSlot(Peer(s)) /\ PcShape(Peer(s)) /\ NotYet(Peer(s)) /\ Counters(Peer(s))
      /\ DoneMeansMoved(Peer(s)) /\ OffersStand(Peer(s))
  BY DEF Local
<1>a. /\ Meeting(s) /\ PeerDoneIsTrue(s) /\ LeftBehind(s) /\ PlansFollowOffers(s) /\ FinishedAgree(s)
      /\ Meeting(Peer(s)) /\ PeerDoneIsTrue(Peer(s)) /\ LeftBehind(Peer(s))
      /\ PlansFollowOffers(Peer(s)) /\ FinishedAgree(Peer(s))
  BY DEF Joint
<1>c. /\ cur'[Peer(s)] = cur[Peer(s)] /\ pc'[Peer(s)] = pc[Peer(s)] /\ plan'[Peer(s)] = plan[Peer(s)]
      /\ Own(Peer(s))' = Own(Peer(s)) /\ OwnReg(Peer(s))' = OwnReg(Peer(s))
  BY MoveZeroCopyEffect, SameView DEF Same
<1>d. OfferedPlan' = OfferedPlan BY <1>c, MoveZeroCopyEffect, SameOffers
<1>1. Meeting(s)' BY <1>a, <1>c, MoveZeroCopyEffect DEF Meeting
<1>2. PeerDoneIsTrue(s)' BY <1>a, <1>c, MoveZeroCopyEffect DEF PeerDoneIsTrue
<1>3. LeftBehind(s)' BY <1>a, <1>c, MoveZeroCopyEffect DEF LeftBehind
<1>4. PlansFollowOffers(s)' BY <1>0, <1>a, <1>c, <1>d, MoveZeroCopyEffect DEF PlansFollowOffers
<1>5. FinishedAgree(s)' BY <1>a, <1>c, MoveZeroCopyEffect DEF FinishedAgree
<1>6. Meeting(Peer(s))' BY <1>a, <1>c, MoveZeroCopyEffect DEF Meeting
<1>7. PeerDoneIsTrue(Peer(s))' BY <1>a, <1>c, MoveZeroCopyEffect DEF PeerDoneIsTrue
<1>8. LeftBehind(Peer(s))' BY <1>a, <1>c, MoveZeroCopyEffect DEF LeftBehind
<1>9. PlansFollowOffers(Peer(s))' BY <1>0, <1>a, <1>c, <1>d, MoveZeroCopyEffect DEF PlansFollowOffers
<1>10. FinishedAgree(Peer(s))' BY <1>a, <1>c, MoveZeroCopyEffect DEF FinishedAgree
<1> QED BY <1>1, <1>2, <1>3, <1>4, <1>5, <1>6, <1>7, <1>8, <1>9, <1>10 DEF Joint

LEMMA AwaitCopyDoneJoint ==
  ASSUME ShmType, CallType, NEW s \in Side, Local(s), Local(Peer(s)), Joint(s), Joint(Peer(s)),
         HashesDiffer, AwaitCopyDone(s)
  PROVE  Joint(s)' /\ Joint(Peer(s))'
<1>0. /\ OneSlot(s) /\ PcShape(s) /\ NotYet(s) /\ Counters(s) /\ DoneMeansMoved(s) /\ OffersStand(s)
      /\ OneSlot(Peer(s)) /\ PcShape(Peer(s)) /\ NotYet(Peer(s)) /\ Counters(Peer(s))
      /\ DoneMeansMoved(Peer(s)) /\ OffersStand(Peer(s))
  BY DEF Local
<1>a. /\ Meeting(s) /\ PeerDoneIsTrue(s) /\ LeftBehind(s) /\ PlansFollowOffers(s) /\ FinishedAgree(s)
      /\ Meeting(Peer(s)) /\ PeerDoneIsTrue(Peer(s)) /\ LeftBehind(Peer(s))
      /\ PlansFollowOffers(Peer(s)) /\ FinishedAgree(Peer(s))
  BY DEF Joint
<1>c. /\ cur'[Peer(s)] = cur[Peer(s)] /\ pc'[Peer(s)] = pc[Peer(s)] /\ plan'[Peer(s)] = plan[Peer(s)]
      /\ Own(Peer(s))' = Own(Peer(s)) /\ OwnReg(Peer(s))' = OwnReg(Peer(s))
  BY AwaitCopyDoneEffect, SameView DEF Same
<1>d. OfferedPlan' = OfferedPlan BY <1>c, AwaitCopyDoneEffect, SameOffers
<1>1. Meeting(s)' BY <1>a, <1>c, AwaitCopyDoneEffect DEF Meeting
<1>2. PeerDoneIsTrue(s)' BY <1>a, <1>c, AwaitCopyDoneEffect DEF PeerDoneIsTrue
<1>3. LeftBehind(s)' BY <1>a, <1>c, AwaitCopyDoneEffect DEF LeftBehind
<1>4. PlansFollowOffers(s)' BY <1>0, <1>a, <1>c, <1>d, AwaitCopyDoneEffect DEF PlansFollowOffers
<1>5. FinishedAgree(s)' BY <1>a, <1>c, AwaitCopyDoneEffect DEF FinishedAgree
<1>6. Meeting(Peer(s))' BY <1>a, <1>c, AwaitCopyDoneEffect DEF Meeting
<1>7. PeerDoneIsTrue(Peer(s))' BY <1>a, <1>c, AwaitCopyDoneEffect DEF PeerDoneIsTrue
<1>8. LeftBehind(Peer(s))' BY <1>a, <1>c, AwaitCopyDoneEffect DEF LeftBehind
<1>9. PlansFollowOffers(Peer(s))' BY <1>0, <1>a, <1>c, <1>d, AwaitCopyDoneEffect DEF PlansFollowOffers
<1>10. FinishedAgree(Peer(s))' BY <1>a, <1>c, AwaitCopyDoneEffect DEF FinishedAgree
<1> QED BY <1>1, <1>2, <1>3, <1>4, <1>5, <1>6, <1>7, <1>8, <1>9, <1>10 DEF Joint

LEMMA EventDoneJoint ==
  ASSUME ShmType, CallType, NEW s \in Side, Local(s), Local(Peer(s)), Joint(s), Joint(Peer(s)),
         HashesDiffer, EventDone(s)
  PROVE  Joint(s)' /\ Joint(Peer(s))'
<1>0. /\ OneSlot(s) /\ PcShape(s) /\ NotYet(s) /\ Counters(s) /\ DoneMeansMoved(s) /\ OffersStand(s)
      /\ OneSlot(Peer(s)) /\ PcShape(Peer(s)) /\ NotYet(Peer(s)) /\ Counters(Peer(s))
      /\ DoneMeansMoved(Peer(s)) /\ OffersStand(Peer(s))
  BY DEF Local
<1>a. /\ Meeting(s) /\ PeerDoneIsTrue(s) /\ LeftBehind(s) /\ PlansFollowOffers(s) /\ FinishedAgree(s)
      /\ Meeting(Peer(s)) /\ PeerDoneIsTrue(Peer(s)) /\ LeftBehind(Peer(s))
      /\ PlansFollowOffers(Peer(s)) /\ FinishedAgree(Peer(s))
  BY DEF Joint
<1>c. /\ cur'[Peer(s)] = cur[Peer(s)] /\ pc'[Peer(s)] = pc[Peer(s)] /\ plan'[Peer(s)] = plan[Peer(s)]
      /\ Own(Peer(s))' = Own(Peer(s)) /\ OwnReg(Peer(s))' = OwnReg(Peer(s))
  BY EventDoneEffect, SameView DEF Same
<1>d. OfferedPlan' = OfferedPlan BY <1>c, EventDoneEffect, SameOffers
<1>1. Meeting(s)' BY <1>a, <1>c, EventDoneEffect DEF Meeting
<1>2. PeerDoneIsTrue(s)' BY <1>a, <1>c, EventDoneEffect DEF PeerDoneIsTrue
<1>3. LeftBehind(s)' BY <1>a, <1>c, EventDoneEffect DEF LeftBehind
<1>4. PlansFollowOffers(s)' BY <1>0, <1>a, <1>c, <1>d, EventDoneEffect DEF PlansFollowOffers
<1>5. FinishedAgree(s)' BY <1>a, <1>c, EventDoneEffect DEF FinishedAgree
<1>6. Meeting(Peer(s))' BY <1>a, <1>c, EventDoneEffect DEF Meeting
<1>7. PeerDoneIsTrue(Peer(s))' BY <1>a, <1>c, EventDoneEffect DEF PeerDoneIsTrue
<1>8. LeftBehind(Peer(s))' BY <1>a, <1>c, EventDoneEffect DEF LeftBehind
<1>9. PlansFollowOffers(Peer(s))' BY <1>0, <1>a, <1>c, <1>d, EventDoneEffect DEF PlansFollowOffers
<1>10. FinishedAgree(Peer(s))' BY <1>a, <1>c, EventDoneEffect DEF FinishedAgree
<1> QED BY <1>1, <1>2, <1>3, <1>4, <1>5, <1>6, <1>7, <1>8, <1>9, <1>10 DEF Joint

LEMMA EventPendingJoint ==
  ASSUME ShmType, CallType, NEW s \in Side, Local(s), Local(Peer(s)), Joint(s), Joint(Peer(s)),
         HashesDiffer, EventPending(s)
  PROVE  Joint(s)' /\ Joint(Peer(s))'
<1>0. /\ OneSlot(s) /\ PcShape(s) /\ NotYet(s) /\ Counters(s) /\ DoneMeansMoved(s) /\ OffersStand(s)
      /\ OneSlot(Peer(s)) /\ PcShape(Peer(s)) /\ NotYet(Peer(s)) /\ Counters(Peer(s))
      /\ DoneMeansMoved(Peer(s)) /\ OffersStand(Peer(s))
  BY DEF Local
<1>a. /\ Meeting(s) /\ PeerDoneIsTrue(s) /\ LeftBehind(s) /\ PlansFollowOffers(s) /\ FinishedAgree(s)
      /\ Meeting(Peer(s)) /\ PeerDoneIsTrue(Peer(s)) /\ LeftBehind(Peer(s))
      /\ PlansFollowOffers(Peer(s)) /\ FinishedAgree(Peer(s))
  BY DEF Joint
<1>c. /\ cur'[Peer(s)] = cur[Peer(s)] /\ pc'[Peer(s)] = pc[Peer(s)] /\ plan'[Peer(s)] = plan[Peer(s)]
      /\ Own(Peer(s))' = Own(Peer(s)) /\ OwnReg(Peer(s))' = OwnReg(Peer(s))
  BY EventPendingEffect, SameView DEF Same
<1>d. OfferedPlan' = OfferedPlan BY <1>c, EventPendingEffect, SameOffers
<1>1. Meeting(s)' BY <1>a, <1>c, EventPendingEffect DEF Meeting
<1>2. PeerDoneIsTrue(s)' BY <1>a, <1>c, EventPendingEffect DEF PeerDoneIsTrue
<1>3. LeftBehind(s)' BY <1>a, <1>c, EventPendingEffect DEF LeftBehind
<1>4. PlansFollowOffers(s)' BY <1>0, <1>a, <1>c, <1>d, EventPendingEffect DEF PlansFollowOffers
<1>5. FinishedAgree(s)' BY <1>a, <1>c, EventPendingEffect DEF FinishedAgree
<1>6. Meeting(Peer(s))' BY <1>a, <1>c, EventPendingEffect DEF Meeting
<1>7. PeerDoneIsTrue(Peer(s))' BY <1>a, <1>c, EventPendingEffect DEF PeerDoneIsTrue
<1>8. LeftBehind(Peer(s))' BY <1>a, <1>c, EventPendingEffect DEF LeftBehind
<1>9. PlansFollowOffers(Peer(s))' BY <1>0, <1>a, <1>c, <1>d, EventPendingEffect DEF PlansFollowOffers
<1>10. FinishedAgree(Peer(s))' BY <1>a, <1>c, EventPendingEffect DEF FinishedAgree
<1> QED BY <1>1, <1>2, <1>3, <1>4, <1>5, <1>6, <1>7, <1>8, <1>9, <1>10 DEF Joint

LEMMA DeviceCopyJoint ==
  ASSUME ShmType, CallType, NEW s \in Side, Local(s), Local(Peer(s)), Joint(s), Joint(Peer(s)),
         HashesDiffer, DeviceCopy(s)
  PROVE  Joint(s)' /\ Joint(Peer(s))'
<1>0. /\ OneSlot(s) /\ PcShape(s) /\ NotYet(s) /\ Counters(s) /\ DoneMeansMoved(s) /\ OffersStand(s)
      /\ OneSlot(Peer(s)) /\ PcShape(Peer(s)) /\ NotYet(Peer(s)) /\ Counters(Peer(s))
      /\ DoneMeansMoved(Peer(s)) /\ OffersStand(Peer(s))
  BY DEF Local
<1>a. /\ Meeting(s) /\ PeerDoneIsTrue(s) /\ LeftBehind(s) /\ PlansFollowOffers(s) /\ FinishedAgree(s)
      /\ Meeting(Peer(s)) /\ PeerDoneIsTrue(Peer(s)) /\ LeftBehind(Peer(s))
      /\ PlansFollowOffers(Peer(s)) /\ FinishedAgree(Peer(s))
  BY DEF Joint
<1>c. /\ cur'[Peer(s)] = cur[Peer(s)] /\ pc'[Peer(s)] = pc[Peer(s)] /\ plan'[Peer(s)] = plan[Peer(s)]
      /\ Own(Peer(s))' = Own(Peer(s)) /\ OwnReg(Peer(s))' = OwnReg(Peer(s))
  BY DeviceCopyEffect, SameView DEF Same
<1>d. OfferedPlan' = OfferedPlan BY <1>c, DeviceCopyEffect, SameOffers
<1>1. Meeting(s)' BY <1>a, <1>c, DeviceCopyEffect DEF Meeting
<1>2. PeerDoneIsTrue(s)' BY <1>a, <1>c, DeviceCopyEffect DEF PeerDoneIsTrue
<1>3. LeftBehind(s)' BY <1>a, <1>c, DeviceCopyEffect DEF LeftBehind
<1>4. PlansFollowOffers(s)' BY <1>0, <1>a, <1>c, <1>d, DeviceCopyEffect DEF PlansFollowOffers
<1>5. FinishedAgree(s)' BY <1>a, <1>c, DeviceCopyEffect DEF FinishedAgree
<1>6. Meeting(Peer(s))' BY <1>a, <1>c, DeviceCopyEffect DEF Meeting
<1>7. PeerDoneIsTrue(Peer(s))' BY <1>a, <1>c, DeviceCopyEffect DEF PeerDoneIsTrue
<1>8. LeftBehind(Peer(s))' BY <1>a, <1>c, DeviceCopyEffect DEF LeftBehind
<1>9. PlansFollowOffers(Peer(s))' BY <1>0, <1>a, <1>c, <1>d, DeviceCopyEffect DEF PlansFollowOffers
<1>10. FinishedAgree(Peer(s))' BY <1>a, <1>c, DeviceCopyEffect DEF FinishedAgree
<1> QED BY <1>1, <1>2, <1>3, <1>4, <1>5, <1>6, <1>7, <1>8, <1>9, <1>10 DEF Joint

LEMMA MarkDoneJoint ==
  ASSUME ShmType, CallType, NEW s \in Side, Local(s), Local(Peer(s)), Joint(s), Joint(Peer(s)),
         HashesDiffer, MarkDone(s)
  PROVE  Joint(s)' /\ Joint(Peer(s))'
<1>0. /\ OneSlot(s) /\ PcShape(s) /\ NotYet(s) /\ Counters(s) /\ DoneMeansMoved(s) /\ OffersStand(s)
      /\ OneSlot(Peer(s)) /\ PcShape(Peer(s)) /\ NotYet(Peer(s)) /\ Counters(Peer(s))
      /\ DoneMeansMoved(Peer(s)) /\ OffersStand(Peer(s))
  BY DEF Local
<1>a. /\ Meeting(s) /\ PeerDoneIsTrue(s) /\ LeftBehind(s) /\ PlansFollowOffers(s) /\ FinishedAgree(s)
      /\ Meeting(Peer(s)) /\ PeerDoneIsTrue(Peer(s)) /\ LeftBehind(Peer(s))
      /\ PlansFollowOffers(Peer(s)) /\ FinishedAgree(Peer(s))
  BY DEF Joint
<1>d. OfferedPlan' = OfferedPlan BY MarkDoneEffect, SameOffers
<1>e. Claimed(s) /\ Planned(s) BY <1>0, MarkDoneEffect DEF PcShape
<1>f. ~Own(s).done /\ cur[Peer(s)] # cur[s] => FALSE
  BY <1>a, <1>e, MarkDoneEffect, Numbers DEF Meeting, LeftBehind
<1>1. Meeting(s)' BY <1>a, MarkDoneEffect, MarkDoneEffect DEF Meeting
<1>2. PeerDoneIsTrue(s)' BY <1>a, MarkDoneEffect, MarkDoneEffect DEF PeerDoneIsTrue
<1>3. LeftBehind(s)' BY <1>a, MarkDoneEffect, MarkDoneEffect DEF LeftBehind
<1>4. PlansFollowOffers(s)' BY <1>0, <1>a, <1>d, MarkDoneEffect DEF PlansFollowOffers
<1>5. FinishedAgree(s)' BY <1>a, MarkDoneEffect, MarkDoneEffect DEF FinishedAgree
<1>6. Meeting(Peer(s))' BY <1>a, MarkDoneEffect, MarkDoneEffect DEF Meeting
<1>7. PeerDoneIsTrue(Peer(s))' BY <1>0, <1>a, <1>e, <1>f, MarkDoneEffect DEF PeerDoneIsTrue
<1>8. LeftBehind(Peer(s))' BY <1>a, MarkDoneEffect, MarkDoneEffect DEF LeftBehind
<1>9. PlansFollowOffers(Peer(s))' BY <1>0, <1>a, <1>d, MarkDoneEffect DEF PlansFollowOffers
<1>10. FinishedAgree(Peer(s))' BY <1>a, MarkDoneEffect, MarkDoneEffect DEF FinishedAgree
<1> QED BY <1>1, <1>2, <1>3, <1>4, <1>5, <1>6, <1>7, <1>8, <1>9, <1>10 DEF Joint

LEMMA CompleteJoint ==
  ASSUME ShmType, CallType, NEW s \in Side, Local(s), Local(Peer(s)), Joint(s), Joint(Peer(s)),
         HashesDiffer, Complete(s)
  PROVE  Joint(s)' /\ Joint(Peer(s))'
<1>0. /\ OneSlot(s) /\ PcShape(s) /\ NotYet(s) /\ Counters(s) /\ DoneMeansMoved(s) /\ OffersStand(s)
      /\ OneSlot(Peer(s)) /\ PcShape(Peer(s)) /\ NotYet(Peer(s)) /\ Counters(Peer(s))
      /\ DoneMeansMoved(Peer(s)) /\ OffersStand(Peer(s))
  BY DEF Local
<1>a. /\ Meeting(s) /\ PeerDoneIsTrue(s) /\ LeftBehind(s) /\ PlansFollowOffers(s) /\ FinishedAgree(s)
      /\ Meeting(Peer(s)) /\ PeerDoneIsTrue(Peer(s)) /\ LeftBehind(Peer(s))
      /\ PlansFollowOffers(Peer(s)) /\ FinishedAgree(Peer(s))
  BY DEF Joint
<1>c. /\ cur'[Peer(s)] = cur[Peer(s)] /\ pc'[Peer(s)] = pc[Peer(s)] /\ plan'[Peer(s)] = plan[Peer(s)]
      /\ Own(Peer(s))' = Own(Peer(s)) /\ OwnReg(Peer(s))' = OwnReg(Peer(s))
  BY CompleteEffect, SameView DEF Same
<1>d. OfferedPlan' = OfferedPlan BY <1>c, CompleteEffect, SameOffers
<1>e. Claimed(s) /\ Planned(s) BY <1>0, CompleteEffect DEF PcShape
<1>f. pc'[s] = "done" => Finished(Peer(s), cur[s]) \/ (With(s) /\ Own(Peer(s)).done)
  BY <1>a, <1>e, CompleteEffect DEF PeerDoneIsTrue
<1>g. pc'[s] = "done" => plan[Peer(s)][cur[s]] = plan[s][cur[s]]
  <2>1. CASE Finished(Peer(s), cur[s]) BY <1>a, <1>e, <2>1 DEF FinishedAgree
  <2>2. CASE With(s) /\ Own(Peer(s)).done
    <3>1. Planned(Peer(s)) BY <1>0, <2>2, MovedIsPlanned
    <3> QED BY <1>a, <1>e, <2>2, <3>1 DEF PlansFollowOffers
  <2> QED BY <1>f, <2>1, <2>2
<1>1. Meeting(s)' BY <1>a, <1>c, CompleteEffect DEF Meeting
<1>2. PeerDoneIsTrue(s)' BY <1>a, <1>c, CompleteEffect, Numbers DEF PeerDoneIsTrue
<1>3. LeftBehind(s)' BY <1>a, <1>c, <1>f, CompleteEffect, Numbers DEF LeftBehind
<1>4. PlansFollowOffers(s)' BY <1>a, <1>c, <1>d, CompleteEffect, Numbers DEF PlansFollowOffers
<1>5. FinishedAgree(s)' BY <1>a, <1>c, <1>e, <1>g, CompleteEffect, Numbers DEF FinishedAgree
<1>6. Meeting(Peer(s))' BY <1>a, <1>c, CompleteEffect DEF Meeting
<1>7. PeerDoneIsTrue(Peer(s))' BY <1>0, <1>a, <1>c, CompleteEffect DEF PeerDoneIsTrue, PcShape
<1>8. LeftBehind(Peer(s))' BY <1>a, <1>c, CompleteEffect DEF LeftBehind
<1>9. PlansFollowOffers(Peer(s))' BY <1>a, <1>c, <1>d, CompleteEffect, Numbers DEF PlansFollowOffers
<1>10. FinishedAgree(Peer(s))' BY <1>a, <1>c, CompleteEffect DEF FinishedAgree
<1> QED BY <1>1, <1>2, <1>3, <1>4, <1>5, <1>6, <1>7, <1>8, <1>9, <1>10 DEF Joint

LEMMA DequeueJoint ==
  ASSUME ShmType, CallType, NEW s \in Side, Local(s), Local(Peer(s)), Joint(s), Joint(Peer(s)),
         HashesDiffer, Dequeue(s)
  PROVE  Joint(s)' /\ Joint(Peer(s))'
<1>0. /\ OneSlot(s) /\ PcShape(s) /\ NotYet(s) /\ Counters(s) /\ DoneMeansMoved(s) /\ OffersStand(s)
      /\ OneSlot(Peer(s)) /\ PcShape(Peer(s)) /\ NotYet(Peer(s)) /\ Counters(Peer(s))
      /\ DoneMeansMoved(Peer(s)) /\ OffersStand(Peer(s))
  BY DEF Local
<1>a. /\ Meeting(s) /\ PeerDoneIsTrue(s) /\ LeftBehind(s) /\ PlansFollowOffers(s) /\ FinishedAgree(s)
      /\ Meeting(Peer(s)) /\ PeerDoneIsTrue(Peer(s)) /\ LeftBehind(Peer(s))
      /\ PlansFollowOffers(Peer(s)) /\ FinishedAgree(Peer(s))
  BY DEF Joint
<1>c. /\ cur'[Peer(s)] = cur[Peer(s)] /\ pc'[Peer(s)] = pc[Peer(s)] /\ plan'[Peer(s)] = plan[Peer(s)]
      /\ Own(Peer(s))' = Own(Peer(s)) /\ OwnReg(Peer(s))' = OwnReg(Peer(s))
  BY DequeueEffect, SameView DEF Same
<1>d. ~Claimed(s)' /\ ~Planned(s)' BY <1>0, DequeueFresh
<1>e. ~Claimed(s) BY <1>0, DequeueEffect, Numbers DEF PcShape
<1>f. \A i \in Op : /\ Finished(s, i)' <=> Finished(s, i)
                    /\ Finished(Peer(s), i)' <=> Finished(Peer(s), i)
  <2>1. /\ cur'[s] = cur[s] + 1 /\ pc'[s] = "poll" /\ pc[s] = "done" /\ cur[s] \in Nat
        /\ Op \subseteq Nat
    BY DequeueEffect, Numbers
  <2>2. ASSUME NEW i \in Op PROVE Finished(s, i)' <=> Finished(s, i)
    <3>1. i \in Nat BY <2>1
    <3>2. cur[s] + 1 > i <=> cur[s] > i \/ cur[s] = i BY <2>1, <3>1
    <3> QED BY <2>1, <3>2
  <2>3. \A i \in Op : Finished(Peer(s), i)' <=> Finished(Peer(s), i) BY <1>c
  <2> QED BY <2>2, <2>3
<1>g. plan'[s] = plan[s] BY DequeueEffect
<1>1. Meeting(s)' BY <1>d, DequeueEffect DEF Meeting
<1>2. PeerDoneIsTrue(s)' BY <1>d DEF PeerDoneIsTrue
<1>3. LeftBehind(s)'
  <2> HIDE DEF Finished
  <2> QED BY <1>a, <1>c, <1>f DEF LeftBehind
<1>4. PlansFollowOffers(s)' BY <1>d DEF PlansFollowOffers
<1>5. FinishedAgree(s)'
  <2> HIDE DEF Finished
  <2> QED BY <1>a, <1>c, <1>f, <1>g DEF FinishedAgree
<1>6. Meeting(Peer(s))'
  <2>1. cur'[s] = cur[s] + 1 /\ cur[s] \in Nat /\ cur[Peer(s)] \in Nat BY DequeueEffect, Numbers
  <2>2. Met(Peer(s)) => Finished(s, cur[Peer(s)]) BY <1>a, <1>e DEF Meeting
  <2>3. Met(Peer(s))' => Met(Peer(s)) BY <1>c
  <2> QED BY <1>c, <2>1, <2>2, <2>3 DEF Meeting
<1>7. PeerDoneIsTrue(Peer(s))'
  <2>1. Finished(s, cur[Peer(s)])' <=> Finished(s, cur[Peer(s)])
    BY <1>c, DequeueEffect, Numbers
  <2> QED BY <1>a, <1>c, <1>d, <1>e, <2>1 DEF PeerDoneIsTrue
<1>8. LeftBehind(Peer(s))'
  <2>1. \A i \in Op : ~(Finished(Peer(s), i) /\ ~Finished(s, i)) BY <1>a, <1>e DEF LeftBehind
  <2> HIDE DEF Finished
  <2> QED BY <1>f, <2>1 DEF LeftBehind
<1>9. PlansFollowOffers(Peer(s))' BY <1>d DEF PlansFollowOffers
<1>10. FinishedAgree(Peer(s))' BY <1>a, <1>c, DequeueEffect DEF FinishedAgree
<1> QED BY <1>1, <1>2, <1>3, <1>4, <1>5, <1>6, <1>7, <1>8, <1>9, <1>10 DEF Joint

LEMMA JointFrame ==
  ASSUME NEW s \in Side, Same(s), Same(Peer(s)), Joint(s)
  PROVE  Joint(s)'
<1>1. /\ Own(s)' = Own(s) /\ OwnReg(s)' = OwnReg(s)
      /\ Own(Peer(s))' = Own(Peer(s)) /\ OwnReg(Peer(s))' = OwnReg(Peer(s))
  BY SameView DEF Same
<1>2. OfferedPlan' = OfferedPlan BY <1>1, SameOffers
<1>3. Meeting(s)' BY <1>1 DEF Joint, Meeting, Same
<1>4. PeerDoneIsTrue(s)' BY <1>1 DEF Joint, PeerDoneIsTrue, Same
<1>5. LeftBehind(s)' BY <1>1 DEF Joint, LeftBehind, Same
<1>6. PlansFollowOffers(s)' BY <1>1, <1>2 DEF Joint, PlansFollowOffers, Same
<1>7. FinishedAgree(s)' BY <1>1 DEF Joint, FinishedAgree, Same
<1> QED BY <1>3, <1>4, <1>5, <1>6, <1>7 DEF Joint

LEMMA JointInit ==
  ASSUME Init, LocalInv
  PROVE  \A s \in Side : Joint(s)
<1> SUFFICES ASSUME NEW s \in Side PROVE Joint(s) OBVIOUS
<1>1. \A t \in Side : cur[t] = 1 /\ pc[t] = "poll" /\ \A i \in Op : plan[t][i] = "pending"
  BY DEF Init
<1>2. \A t \in Side, i \in Op : ~Finished(t, i) BY <1>1, OpFacts
<1>3. ~Claimed(s)
  <2>1. \A y \in Index : slot[s][y].opHash = Free BY DEF Init, FreeSlot
  <2> QED BY <2>1, IndexFact, OpFacts DEF Own
<1>4. ~Planned(s) /\ pc[s] = "poll" BY <1>1
<1> QED BY <1>2, <1>3, <1>4 DEF Joint, Meeting, PeerDoneIsTrue, LeftBehind, PlansFollowOffers, FinishedAgree

LEMMA JointStep ==
  ASSUME HashesDiffer, Inv, [Next]_vars
  PROVE  \A s \in Side : Joint(s)'
<1>0. ShmType /\ CallType /\ (\A s \in Side : Local(s)) /\ (\A s \in Side : Joint(s))
  BY DEF Inv, LocalInv
<1>1. ASSUME NEW s \in Side, Proxy(s) \/ DeviceCopy(s)
      PROVE  Joint(s)' /\ Joint(Peer(s))'
  <2>0. Local(s) /\ Local(Peer(s)) /\ Joint(s) /\ Joint(Peer(s)) BY <1>0
  <2>1. CASE ResetReg(s) BY <1>0, <2>0, <2>1, ResetRegJoint
  <2>2. CASE PublishSlot(s) BY <1>0, <2>0, <2>2, PublishSlotJoint
  <2>3. CASE OwnsSlot(s) BY <1>0, <2>0, <2>3, OwnsSlotJoint
  <2>4. CASE CheckPeer(s) BY <1>0, <2>0, <2>4, CheckPeerJoint
  <2>5. CASE PublishOffer(s) BY <1>0, <2>0, <2>5, PublishOfferJoint
  <2>6. CASE ResolvePlan(s) BY <1>0, <2>0, <2>6, ResolvePlanJoint
  <2>7. CASE MoveFifo(s) BY <1>0, <2>0, <2>7, MoveFifoJoint
  <2>8. CASE MoveZeroCopy(s) BY <1>0, <2>0, <2>8, MoveZeroCopyJoint
  <2>9. CASE AwaitCopyDone(s) BY <1>0, <2>0, <2>9, AwaitCopyDoneJoint
  <2>10. CASE EventDone(s) BY <1>0, <2>0, <2>10, EventDoneJoint
  <2>11. CASE EventPending(s) BY <1>0, <2>0, <2>11, EventPendingJoint
  <2>12. CASE DeviceCopy(s) BY <1>0, <2>0, <2>12, DeviceCopyJoint
  <2>13. CASE MarkDone(s) BY <1>0, <2>0, <2>13, MarkDoneJoint
  <2>14. CASE Complete(s) BY <1>0, <2>0, <2>14, CompleteJoint
  <2>15. CASE Dequeue(s) BY <1>0, <2>0, <2>15, DequeueJoint
  <2> QED BY <1>1, <2>1, <2>2, <2>3, <2>4, <2>5, <2>6, <2>7, <2>8, <2>9, <2>10, <2>11, <2>12, <2>13, <2>14, <2>15 DEF Proxy
<1>2. CASE UNCHANGED vars
  <2>1. \A s \in Side : Same(s) BY <1>2 DEF vars, shmVars, argVars, devVars, Same, SameCounters
  <2> QED BY <1>0, <2>1, JointFrame
<1>3. CASE \E s \in Side : Proxy(s) \/ DeviceCopy(s)
  <2>1. PICK s \in Side : Proxy(s) \/ DeviceCopy(s) BY <1>3
  <2>2. Joint(s)' /\ Joint(Peer(s))' BY <1>1, <2>1
  <2>3. \A t \in Side : t = s \/ t = Peer(s) BY DEF Side, Peer
  <2> QED BY <2>2, <2>3
<1> QED BY <1>2, <1>3 DEF Next

\* The two sides keep together for any operations whose successive hashes differ.
THEOREM SidesAgree == HashesDiffer /\ Spec => []Inv
<1>1. LocalInv /\ Init => Inv BY JointInit DEF Inv
<1>2. HashesDiffer /\ Inv /\ LocalInv' /\ [Next]_vars => Inv'
  BY JointStep DEF Inv
<1>3. HashesDiffer => []HashesDiffer
  <2>1. HashesDiffer => HashesDiffer' BY DEF HashesDiffer
  <2> QED BY <2>1, PTL
<1> QED BY <1>1, <1>2, <1>3, LocalInvariant, PTL DEF Spec

\* The sides never settle on different plans for an operation.
THEOREM PlansAgreeAlways == HashesDiffer /\ Spec => []PlansAgree
<1>1. Inv => PlansAgree
  <2> SUFFICES ASSUME Inv, NEW i \in Op, plan["send"][i] # "pending", plan["recv"][i] # "pending"
               PROVE  plan["send"][i] = plan["recv"][i]
    BY DEF PlansAgree
  <2>0. /\ CallType /\ \A s \in Side : PcShape(s) /\ NotYet(s) /\ PlansFollowOffers(s) /\ FinishedAgree(s)
    BY DEF Inv, LocalInv, Local, Joint
  <2>1. "send" \in Side /\ "recv" \in Side BY DEF Side
  <2>2. cur["send"] >= i /\ cur["recv"] >= i BY <2>0, <2>1, Numbers DEF NotYet
  <2>3. CASE \E s \in Side : Finished(s, i)
    <3>1. PICK s \in Side : Finished(s, i) BY <2>3
    <3>2. plan[Peer(s)][i] = plan[s][i] BY <2>0, <3>1 DEF FinishedAgree
    <3> QED BY <3>2 DEF Side
  <2>4. CASE \A s \in Side : ~Finished(s, i)
    <3>1. cur["send"] = i /\ cur["recv"] = i BY <2>1, <2>2, <2>4, Numbers, <2>0
    <3>2. \A s \in Side : Claimed(s) /\ Planned(s) BY <2>0, <2>4, <3>1 DEF PcShape, Side
    <3>3. \A s \in Side : plan[s][i] = OfferedPlan BY <2>0, <3>1, <3>2 DEF PlansFollowOffers, Side
    <3> QED BY <2>1, <3>3
  <2> QED BY <2>3, <2>4
<1> QED BY <1>1, SidesAgree, PTL

\* Neither side gives an operation up before the copies of both are executed.
THEOREM CompletionIsMutualAlways == HashesDiffer /\ Spec => []CompletionIsMutual
<1>1. Inv => CompletionIsMutual
  <2> SUFFICES ASSUME Inv, NEW s \in Side, NEW i \in Op, Finished(s, i), ~Finished(Peer(s), i)
               PROVE  cur[Peer(s)] = i /\ executed[Peer(s)] = Steps(i)
    BY DEF CompletionIsMutual
  <2>0. /\ CallType /\ LeftBehind(s) /\ Counters(Peer(s)) /\ DoneMeansMoved(Peer(s))
    BY DEF Inv, LocalInv, Local, Joint
  <2>1. cur[Peer(s)] = i /\ Claimed(Peer(s)) /\ Own(Peer(s)).done BY <2>0 DEF LeftBehind
  <2>2. transmitted[Peer(s)] = Steps(i) BY <2>0, <2>1 DEF DoneMeansMoved
  <2> QED BY <2>0, <2>1, <2>2, Numbers DEF Counters
<1> QED BY <1>1, SidesAgree, PTL

-----------------------------------------------------------------------------
(* The counts of chunks *)

LEMMA RoomFact == \A s \in Side : Room(s) \in Nat
  BY P2pSlotAssumption DEF Room

LEMMA SamePublished ==
  ASSUME NEW s \in Side, Own(s)' = Own(s)
  PROVE  Published(s)' = Published(s)
  BY DEF Published

\* A side with chunks left to move is not left behind.
LEMMA NotLeftBehind ==
  ASSUME CallType, NEW s \in Side, Local(s), Joint(s), Joint(Peer(s)),
         Planned(s), transmitted[s] < Steps(cur[s])
  PROVE  With(s) /\ ~Finished(Peer(s), cur[s])
<1>1. PcShape(s) /\ DoneMeansMoved(s) /\ Meeting(s) /\ LeftBehind(Peer(s)) BY DEF Local, Joint
<1>2. pc[s] # "done" /\ Claimed(s) BY <1>1, Numbers DEF DoneMeansMoved, PcShape
<1>3. ~Own(s).done BY <1>1, <1>2, Numbers DEF DoneMeansMoved
<1>4. ~Finished(Peer(s), cur[s]) BY <1>1, <1>2, <1>3, Numbers DEF LeftBehind
<1> QED BY <1>1, <1>4 DEF Meeting

LEMMA FlowFrame ==
  ASSUME NEW s \in Side, Same(s), Same(Peer(s)), Flow(s)
  PROVE  Flow(s)'
<1>1. /\ Own(s)' = Own(s) /\ OwnReg(s)' = OwnReg(s)
      /\ Own(Peer(s))' = Own(Peer(s)) /\ OwnReg(Peer(s))' = OwnReg(Peer(s))
  BY SameView DEF Same
<1>2. Published(s)' = Published(s) BY <1>1, SamePublished
<1>3. SlotCounters(s)' BY <1>1, <1>2 DEF Flow, SlotCounters, Same, SameCounters
<1>4. Window(s)' BY <1>1 DEF Flow, Window, Same, SameCounters
<1>5. CopyDoneIsTrue(s)' BY <1>1 DEF Flow, CopyDoneIsTrue, Copier, Same, SameCounters
<1>6. OneCopy(s)' BY <1>1 DEF Flow, OneCopy, Copier, Same, SameCounters
<1> QED BY <1>3, <1>4, <1>5, <1>6 DEF Flow

LEMMA ResetRegFlow ==
  ASSUME ShmType, CallType, NEW s \in Side, Local(s), Local(Peer(s)), Joint(s), Joint(Peer(s)),
         Flow(s), Flow(Peer(s)), ResetReg(s)
  PROVE  Flow(s)' /\ Flow(Peer(s))'
<1>0. /\ OneSlot(s) /\ PcShape(s) /\ NotYet(s) /\ Counters(s) /\ DoneMeansMoved(s) /\ OffersStand(s)
      /\ PcShape(Peer(s)) /\ Counters(Peer(s)) /\ DoneMeansMoved(Peer(s)) /\ OffersStand(Peer(s))
  BY DEF Local
<1>a. /\ Meeting(s) /\ PeerDoneIsTrue(s) /\ LeftBehind(s) /\ PlansFollowOffers(s) /\ FinishedAgree(s)
      /\ Meeting(Peer(s)) /\ PeerDoneIsTrue(Peer(s)) /\ LeftBehind(Peer(s))
      /\ PlansFollowOffers(Peer(s)) /\ FinishedAgree(Peer(s))
  BY DEF Joint
<1>b. /\ SlotCounters(s) /\ Window(s) /\ CopyDoneIsTrue(s) /\ OneCopy(s)
      /\ SlotCounters(Peer(s)) /\ Window(Peer(s)) /\ CopyDoneIsTrue(Peer(s)) /\ OneCopy(Peer(s))
  BY DEF Flow
<1>c. /\ cur'[Peer(s)] = cur[Peer(s)] /\ pc'[Peer(s)] = pc[Peer(s)] /\ plan'[Peer(s)] = plan[Peer(s)]
      /\ Own(Peer(s))' = Own(Peer(s)) /\ OwnReg(Peer(s))' = OwnReg(Peer(s))
      /\ Published(Peer(s))' = Published(Peer(s)) /\ SameCounters(Peer(s))
  BY ResetRegEffect, SameView, SamePublished DEF Same
<1>d. Published(s)' = Published(s) BY ResetRegEffect, SamePublished
<1>1. SlotCounters(s)' BY <1>b, <1>c, <1>d, ResetRegEffect DEF SlotCounters, SameCounters
<1>2. Window(s)' BY <1>b, <1>c, <1>d, ResetRegEffect DEF Window, SameCounters
<1>3. CopyDoneIsTrue(s)' BY <1>b, <1>c, <1>d, ResetRegEffect, Numbers, RoomFact DEF CopyDoneIsTrue, SameCounters, Copier
<1>4. OneCopy(s)' BY <1>b, <1>c, <1>d, ResetRegEffect DEF OneCopy, SameCounters, Copier
<1>5. SlotCounters(Peer(s))' BY <1>b, <1>c, <1>d, ResetRegEffect DEF SlotCounters, SameCounters
<1>6. Window(Peer(s))' BY <1>b, <1>c, <1>d, ResetRegEffect DEF Window, SameCounters
<1>7. CopyDoneIsTrue(Peer(s))' BY <1>b, <1>c, <1>d, ResetRegEffect DEF CopyDoneIsTrue, SameCounters, Copier
<1>8. OneCopy(Peer(s))' BY <1>b, <1>c, <1>d, ResetRegEffect DEF OneCopy, SameCounters, Copier
<1> QED BY <1>1, <1>2, <1>3, <1>4, <1>5, <1>6, <1>7, <1>8 DEF Flow

LEMMA PublishSlotFlow ==
  ASSUME ShmType, CallType, NEW s \in Side, Local(s), Local(Peer(s)), Joint(s), Joint(Peer(s)),
         Flow(s), Flow(Peer(s)), PublishSlot(s)
  PROVE  Flow(s)' /\ Flow(Peer(s))'
<1>0. /\ OneSlot(s) /\ PcShape(s) /\ NotYet(s) /\ Counters(s) /\ DoneMeansMoved(s) /\ OffersStand(s)
      /\ PcShape(Peer(s)) /\ Counters(Peer(s)) /\ DoneMeansMoved(Peer(s)) /\ OffersStand(Peer(s))
  BY DEF Local
<1>a. /\ Meeting(s) /\ PeerDoneIsTrue(s) /\ LeftBehind(s) /\ PlansFollowOffers(s) /\ FinishedAgree(s)
      /\ Meeting(Peer(s)) /\ PeerDoneIsTrue(Peer(s)) /\ LeftBehind(Peer(s))
      /\ PlansFollowOffers(Peer(s)) /\ FinishedAgree(Peer(s))
  BY DEF Joint
<1>b. /\ SlotCounters(s) /\ Window(s) /\ CopyDoneIsTrue(s) /\ OneCopy(s)
      /\ SlotCounters(Peer(s)) /\ Window(Peer(s)) /\ CopyDoneIsTrue(Peer(s)) /\ OneCopy(Peer(s))
  BY DEF Flow
<1>c. /\ cur'[Peer(s)] = cur[Peer(s)] /\ pc'[Peer(s)] = pc[Peer(s)] /\ plan'[Peer(s)] = plan[Peer(s)]
      /\ Own(Peer(s))' = Own(Peer(s)) /\ OwnReg(Peer(s))' = OwnReg(Peer(s))
      /\ Published(Peer(s))' = Published(Peer(s)) /\ SameCounters(Peer(s))
  BY PublishSlotEffect, SameView, SamePublished DEF Same
<1>d. Published(s)' = Room(Peer(s)) BY PublishSlotEffect DEF Published, Room, Side, Peer
<1>e. ~Planned(s) /\ ~Claimed(s) /\ copied[s] = 0 /\ transmitted[s] = 0
  <2>1. pc[s] = "publish" /\ cur[s] \in Op BY PublishSlotEffect
  <2>2. Own(s).opHash = Free /\ (Planned(s) => Claimed(s)) BY <1>0, <2>1 DEF PcShape
  <2>3. OpHash(cur[s]) \in Nat BY <2>1, Numbers
  <2>4. ~Claimed(s) BY <2>2, <2>3
  <2>5. copied[s] = 0 /\ transmitted[s] <= executed[s] /\ executed[s] <= copied[s]
    BY <1>0, <2>2, <2>4 DEF Counters
  <2>6. transmitted[s] \in Nat /\ executed[s] \in Nat BY Numbers
  <2> QED BY <2>2, <2>4, <2>5, <2>6
<1>f. cur[Peer(s)] = cur[s] => ~Planned(Peer(s))
  BY <1>a, <1>e, PublishSlotEffect, Numbers DEF Meeting
<1>1. SlotCounters(s)' BY <1>d, <1>e, PublishSlotEffect, RoomFact DEF SlotCounters, SameCounters
<1>2. Window(s)' BY <1>b, <1>c, <1>d, PublishSlotEffect DEF Window, SameCounters
<1>3. CopyDoneIsTrue(s)' BY <1>0, PublishSlotEffect DEF CopyDoneIsTrue, PcShape, NoReg
<1>4. OneCopy(s)' BY <1>b, <1>c, <1>d, PublishSlotEffect DEF OneCopy, SameCounters, Copier
<1>5. SlotCounters(Peer(s))' BY <1>b, <1>c, <1>d, PublishSlotEffect DEF SlotCounters, SameCounters
<1>6. Window(Peer(s))' BY <1>c, <1>f, PublishSlotEffect DEF Window
<1>7. CopyDoneIsTrue(Peer(s))' BY <1>b, <1>c, <1>d, PublishSlotEffect DEF CopyDoneIsTrue, SameCounters, Copier
<1>8. OneCopy(Peer(s))' BY <1>b, <1>c, <1>d, PublishSlotEffect DEF OneCopy, SameCounters, Copier
<1> QED BY <1>1, <1>2, <1>3, <1>4, <1>5, <1>6, <1>7, <1>8 DEF Flow

LEMMA OwnsSlotFlow ==
  ASSUME ShmType, CallType, NEW s \in Side, Local(s), Local(Peer(s)), Joint(s), Joint(Peer(s)),
         Flow(s), Flow(Peer(s)), OwnsSlot(s)
  PROVE  Flow(s)' /\ Flow(Peer(s))'
<1>0. /\ OneSlot(s) /\ PcShape(s) /\ NotYet(s) /\ Counters(s) /\ DoneMeansMoved(s) /\ OffersStand(s)
      /\ PcShape(Peer(s)) /\ Counters(Peer(s)) /\ DoneMeansMoved(Peer(s)) /\ OffersStand(Peer(s))
  BY DEF Local
<1>a. /\ Meeting(s) /\ PeerDoneIsTrue(s) /\ LeftBehind(s) /\ PlansFollowOffers(s) /\ FinishedAgree(s)
      /\ Meeting(Peer(s)) /\ PeerDoneIsTrue(Peer(s)) /\ LeftBehind(Peer(s))
      /\ PlansFollowOffers(Peer(s)) /\ FinishedAgree(Peer(s))
  BY DEF Joint
<1>b. /\ SlotCounters(s) /\ Window(s) /\ CopyDoneIsTrue(s) /\ OneCopy(s)
      /\ SlotCounters(Peer(s)) /\ Window(Peer(s)) /\ CopyDoneIsTrue(Peer(s)) /\ OneCopy(Peer(s))
  BY DEF Flow
<1>c. /\ cur'[Peer(s)] = cur[Peer(s)] /\ pc'[Peer(s)] = pc[Peer(s)] /\ plan'[Peer(s)] = plan[Peer(s)]
      /\ Own(Peer(s))' = Own(Peer(s)) /\ OwnReg(Peer(s))' = OwnReg(Peer(s))
      /\ Published(Peer(s))' = Published(Peer(s)) /\ SameCounters(Peer(s))
  BY OwnsSlotEffect, SameView, SamePublished DEF Same
<1>d. Published(s)' = Published(s) BY OwnsSlotEffect, SamePublished
<1>1. SlotCounters(s)' BY <1>b, <1>c, <1>d, OwnsSlotEffect DEF SlotCounters, SameCounters
<1>2. Window(s)' BY <1>b, <1>c, <1>d, OwnsSlotEffect DEF Window, SameCounters
<1>3. CopyDoneIsTrue(s)' BY <1>b, <1>c, <1>d, OwnsSlotEffect DEF CopyDoneIsTrue, SameCounters, Copier
<1>4. OneCopy(s)' BY <1>b, <1>c, <1>d, OwnsSlotEffect DEF OneCopy, SameCounters, Copier
<1>5. SlotCounters(Peer(s))' BY <1>b, <1>c, <1>d, OwnsSlotEffect DEF SlotCounters, SameCounters
<1>6. Window(Peer(s))' BY <1>b, <1>c, <1>d, OwnsSlotEffect DEF Window, SameCounters
<1>7. CopyDoneIsTrue(Peer(s))' BY <1>b, <1>c, <1>d, OwnsSlotEffect DEF CopyDoneIsTrue, SameCounters, Copier
<1>8. OneCopy(Peer(s))' BY <1>b, <1>c, <1>d, OwnsSlotEffect DEF OneCopy, SameCounters, Copier
<1> QED BY <1>1, <1>2, <1>3, <1>4, <1>5, <1>6, <1>7, <1>8 DEF Flow

LEMMA CheckPeerFlow ==
  ASSUME ShmType, CallType, NEW s \in Side, Local(s), Local(Peer(s)), Joint(s), Joint(Peer(s)),
         Flow(s), Flow(Peer(s)), CheckPeer(s)
  PROVE  Flow(s)' /\ Flow(Peer(s))'
<1>0. /\ OneSlot(s) /\ PcShape(s) /\ NotYet(s) /\ Counters(s) /\ DoneMeansMoved(s) /\ OffersStand(s)
      /\ PcShape(Peer(s)) /\ Counters(Peer(s)) /\ DoneMeansMoved(Peer(s)) /\ OffersStand(Peer(s))
  BY DEF Local
<1>a. /\ Meeting(s) /\ PeerDoneIsTrue(s) /\ LeftBehind(s) /\ PlansFollowOffers(s) /\ FinishedAgree(s)
      /\ Meeting(Peer(s)) /\ PeerDoneIsTrue(Peer(s)) /\ LeftBehind(Peer(s))
      /\ PlansFollowOffers(Peer(s)) /\ FinishedAgree(Peer(s))
  BY DEF Joint
<1>b. /\ SlotCounters(s) /\ Window(s) /\ CopyDoneIsTrue(s) /\ OneCopy(s)
      /\ SlotCounters(Peer(s)) /\ Window(Peer(s)) /\ CopyDoneIsTrue(Peer(s)) /\ OneCopy(Peer(s))
  BY DEF Flow
<1>c. /\ cur'[Peer(s)] = cur[Peer(s)] /\ pc'[Peer(s)] = pc[Peer(s)] /\ plan'[Peer(s)] = plan[Peer(s)]
      /\ Own(Peer(s))' = Own(Peer(s)) /\ OwnReg(Peer(s))' = OwnReg(Peer(s))
      /\ Published(Peer(s))' = Published(Peer(s)) /\ SameCounters(Peer(s))
  BY CheckPeerEffect, SameView, SamePublished DEF Same
<1>d. Published(s)' = Published(s) BY CheckPeerEffect, SamePublished
<1>1. SlotCounters(s)' BY <1>b, <1>c, <1>d, CheckPeerEffect DEF SlotCounters, SameCounters
<1>2. Window(s)' BY <1>b, <1>c, <1>d, CheckPeerEffect DEF Window, SameCounters
<1>3. CopyDoneIsTrue(s)' BY <1>b, <1>c, <1>d, CheckPeerEffect DEF CopyDoneIsTrue, SameCounters, Copier
<1>4. OneCopy(s)' BY <1>b, <1>c, <1>d, CheckPeerEffect DEF OneCopy, SameCounters, Copier
<1>5. SlotCounters(Peer(s))' BY <1>b, <1>c, <1>d, CheckPeerEffect DEF SlotCounters, SameCounters
<1>6. Window(Peer(s))' BY <1>b, <1>c, <1>d, CheckPeerEffect DEF Window, SameCounters
<1>7. CopyDoneIsTrue(Peer(s))' BY <1>b, <1>c, <1>d, CheckPeerEffect DEF CopyDoneIsTrue, SameCounters, Copier
<1>8. OneCopy(Peer(s))' BY <1>b, <1>c, <1>d, CheckPeerEffect DEF OneCopy, SameCounters, Copier
<1> QED BY <1>1, <1>2, <1>3, <1>4, <1>5, <1>6, <1>7, <1>8 DEF Flow

LEMMA PublishOfferFlow ==
  ASSUME ShmType, CallType, NEW s \in Side, Local(s), Local(Peer(s)), Joint(s), Joint(Peer(s)),
         Flow(s), Flow(Peer(s)), PublishOffer(s)
  PROVE  Flow(s)' /\ Flow(Peer(s))'
<1>0. /\ OneSlot(s) /\ PcShape(s) /\ NotYet(s) /\ Counters(s) /\ DoneMeansMoved(s) /\ OffersStand(s)
      /\ PcShape(Peer(s)) /\ Counters(Peer(s)) /\ DoneMeansMoved(Peer(s)) /\ OffersStand(Peer(s))
  BY DEF Local
<1>a. /\ Meeting(s) /\ PeerDoneIsTrue(s) /\ LeftBehind(s) /\ PlansFollowOffers(s) /\ FinishedAgree(s)
      /\ Meeting(Peer(s)) /\ PeerDoneIsTrue(Peer(s)) /\ LeftBehind(Peer(s))
      /\ PlansFollowOffers(Peer(s)) /\ FinishedAgree(Peer(s))
  BY DEF Joint
<1>b. /\ SlotCounters(s) /\ Window(s) /\ CopyDoneIsTrue(s) /\ OneCopy(s)
      /\ SlotCounters(Peer(s)) /\ Window(Peer(s)) /\ CopyDoneIsTrue(Peer(s)) /\ OneCopy(Peer(s))
  BY DEF Flow
<1>c. /\ cur'[Peer(s)] = cur[Peer(s)] /\ pc'[Peer(s)] = pc[Peer(s)] /\ plan'[Peer(s)] = plan[Peer(s)]
      /\ Own(Peer(s))' = Own(Peer(s)) /\ OwnReg(Peer(s))' = OwnReg(Peer(s))
      /\ Published(Peer(s))' = Published(Peer(s)) /\ SameCounters(Peer(s))
  BY PublishOfferEffect, SameView, SamePublished DEF Same
<1>d. Published(s)' = Published(s) BY PublishOfferEffect, SamePublished
<1>1. SlotCounters(s)' BY <1>b, <1>c, <1>d, PublishOfferEffect DEF SlotCounters, SameCounters
<1>2. Window(s)' BY <1>b, <1>c, <1>d, PublishOfferEffect DEF Window, SameCounters
<1>3. CopyDoneIsTrue(s)' BY <1>b, <1>c, <1>d, PublishOfferEffect DEF CopyDoneIsTrue, SameCounters, Copier
<1>4. OneCopy(s)' BY <1>b, <1>c, <1>d, PublishOfferEffect DEF OneCopy, SameCounters, Copier
<1>5. SlotCounters(Peer(s))' BY <1>b, <1>c, <1>d, PublishOfferEffect DEF SlotCounters, SameCounters
<1>6. Window(Peer(s))' BY <1>b, <1>c, <1>d, PublishOfferEffect DEF Window, SameCounters
<1>7. CopyDoneIsTrue(Peer(s))' BY <1>b, <1>c, <1>d, PublishOfferEffect DEF CopyDoneIsTrue, SameCounters, Copier
<1>8. OneCopy(Peer(s))' BY <1>b, <1>c, <1>d, PublishOfferEffect DEF OneCopy, SameCounters, Copier
<1> QED BY <1>1, <1>2, <1>3, <1>4, <1>5, <1>6, <1>7, <1>8 DEF Flow

LEMMA ResolvePlanFlow ==
  ASSUME ShmType, CallType, NEW s \in Side, Local(s), Local(Peer(s)), Joint(s), Joint(Peer(s)),
         Flow(s), Flow(Peer(s)), ResolvePlan(s)
  PROVE  Flow(s)' /\ Flow(Peer(s))'
<1>0. /\ OneSlot(s) /\ PcShape(s) /\ NotYet(s) /\ Counters(s) /\ DoneMeansMoved(s) /\ OffersStand(s)
      /\ PcShape(Peer(s)) /\ Counters(Peer(s)) /\ DoneMeansMoved(Peer(s)) /\ OffersStand(Peer(s))
  BY DEF Local
<1>a. /\ Meeting(s) /\ PeerDoneIsTrue(s) /\ LeftBehind(s) /\ PlansFollowOffers(s) /\ FinishedAgree(s)
      /\ Meeting(Peer(s)) /\ PeerDoneIsTrue(Peer(s)) /\ LeftBehind(Peer(s))
      /\ PlansFollowOffers(Peer(s)) /\ FinishedAgree(Peer(s))
  BY DEF Joint
<1>b. /\ SlotCounters(s) /\ Window(s) /\ CopyDoneIsTrue(s) /\ OneCopy(s)
      /\ SlotCounters(Peer(s)) /\ Window(Peer(s)) /\ CopyDoneIsTrue(Peer(s)) /\ OneCopy(Peer(s))
  BY DEF Flow
<1>c. /\ cur'[Peer(s)] = cur[Peer(s)] /\ pc'[Peer(s)] = pc[Peer(s)] /\ plan'[Peer(s)] = plan[Peer(s)]
      /\ Own(Peer(s))' = Own(Peer(s)) /\ OwnReg(Peer(s))' = OwnReg(Peer(s))
      /\ Published(Peer(s))' = Published(Peer(s)) /\ SameCounters(Peer(s))
  BY ResolvePlanEffect, SameView, SamePublished DEF Same
<1>d. Published(s)' = Published(s) BY ResolvePlanEffect, SamePublished
<1>e. ~Planned(s) => copied[s] = 0 /\ executed[s] = 0 /\ transmitted[s] = 0
  BY <1>0, Numbers DEF Counters
<1>1. SlotCounters(s)' BY <1>b, <1>c, <1>d, ResolvePlanEffect DEF SlotCounters, SameCounters
<1>2. Window(s)'
  <2>1. /\ cur'[s] = cur[s] /\ SameCounters(s) /\ cur[s] \in Op /\ Own(s)' = Own(s)
        /\ plan'[s] = plan[s] \/ plan[s][cur[s]] = "pending"
    BY ResolvePlanEffect
  <2>2. transmitted[Peer(s)] \in Nat /\ Room(s) \in Nat BY Numbers, RoomFact
  <2>3. CASE plan'[s] = plan[s] BY <1>b, <1>c, <2>1, <2>3 DEF Window, SameCounters
  <2>4. CASE plan[s][cur[s]] = "pending"
    <3>1. copied[s] = 0 BY <1>e, <2>4
    <3> QED BY <1>c, <2>1, <2>2, <3>1 DEF Window, SameCounters
  <2> QED BY <2>1, <2>3, <2>4
<1>3. CopyDoneIsTrue(s)' BY <1>b, <1>c, <1>d, ResolvePlanEffect DEF CopyDoneIsTrue, SameCounters, Copier
<1>4. OneCopy(s)' BY <1>b, <1>c, <1>e, ResolvePlanEffect DEF OneCopy, SameCounters, Copier
<1>5. SlotCounters(Peer(s))' BY <1>b, <1>c, <1>d, ResolvePlanEffect DEF SlotCounters, SameCounters
<1>6. Window(Peer(s))' BY <1>b, <1>c, <1>d, ResolvePlanEffect DEF Window, SameCounters
<1>7. CopyDoneIsTrue(Peer(s))' BY <1>b, <1>c, <1>d, ResolvePlanEffect DEF CopyDoneIsTrue, SameCounters, Copier
<1>8. OneCopy(Peer(s))' BY <1>b, <1>c, <1>d, ResolvePlanEffect DEF OneCopy, SameCounters, Copier
<1> QED BY <1>1, <1>2, <1>3, <1>4, <1>5, <1>6, <1>7, <1>8 DEF Flow

LEMMA MoveFifoFlow ==
  ASSUME ShmType, CallType, NEW s \in Side, Local(s), Local(Peer(s)), Joint(s), Joint(Peer(s)),
         Flow(s), Flow(Peer(s)), MoveFifo(s)
  PROVE  Flow(s)' /\ Flow(Peer(s))'
<1>0. /\ OneSlot(s) /\ PcShape(s) /\ NotYet(s) /\ Counters(s) /\ DoneMeansMoved(s) /\ OffersStand(s)
      /\ PcShape(Peer(s)) /\ Counters(Peer(s)) /\ DoneMeansMoved(Peer(s)) /\ OffersStand(Peer(s))
  BY DEF Local
<1>a. /\ Meeting(s) /\ PeerDoneIsTrue(s) /\ LeftBehind(s) /\ PlansFollowOffers(s) /\ FinishedAgree(s)
      /\ Meeting(Peer(s)) /\ PeerDoneIsTrue(Peer(s)) /\ LeftBehind(Peer(s))
      /\ PlansFollowOffers(Peer(s)) /\ FinishedAgree(Peer(s))
  BY DEF Joint
<1>b. /\ SlotCounters(s) /\ Window(s) /\ CopyDoneIsTrue(s) /\ OneCopy(s)
      /\ SlotCounters(Peer(s)) /\ Window(Peer(s)) /\ CopyDoneIsTrue(Peer(s)) /\ OneCopy(Peer(s))
  BY DEF Flow
<1>c. /\ cur'[Peer(s)] = cur[Peer(s)] /\ pc'[Peer(s)] = pc[Peer(s)] /\ plan'[Peer(s)] = plan[Peer(s)]
      /\ Own(Peer(s))' = Own(Peer(s)) /\ OwnReg(Peer(s))' = OwnReg(Peer(s))
      /\ Published(Peer(s))' = Published(Peer(s)) /\ SameCounters(Peer(s))
  BY MoveFifoEffect, SameView, SamePublished DEF Same
<1>d. Published(s)' = Published(s) BY MoveFifoEffect, SamePublished
<1>e. Planned(s) /\ With(s) BY MoveFifoEffect, NotLeftBehind
<1>f. plan[Peer(s)][cur[Peer(s)]] \in {"pending", "fifo"}
  BY <1>0, <1>a, <1>e, MoveFifoEffect DEF PlansFollowOffers, PcShape
<1>g. Published(Peer(s)) = transmitted[Peer(s)] + Room(s) BY <1>b, <1>e, <1>f DEF SlotCounters
<1>h. FifoHasNext(s) => Published(Peer(s)) > copied[s]
  <2>1. PeerOf(s) = Own(Peer(s)) BY <1>e DEF PeerOf, Own
  <2> QED BY <2>1 DEF FifoHasNext, Published, Side, Peer
<1>1. SlotCounters(s)' BY <1>b, <1>d, MoveFifoEffect DEF SlotCounters
<1>2. Window(s)' BY <1>b, <1>c, <1>e, <1>g, <1>h, MoveFifoEffect, Numbers, RoomFact, SMTT(30) DEF Window, SameCounters
<1>3. CopyDoneIsTrue(s)' BY <1>b, <1>c, <1>d, MoveFifoEffect DEF CopyDoneIsTrue, SameCounters, Copier
<1>4. OneCopy(s)' BY <1>b, <1>c, <1>d, MoveFifoEffect DEF OneCopy, SameCounters, Copier
<1>5. SlotCounters(Peer(s))' BY <1>b, <1>c, <1>d, MoveFifoEffect DEF SlotCounters, SameCounters
<1>6. Window(Peer(s))' BY <1>b, <1>c, <1>d, MoveFifoEffect DEF Window, SameCounters
<1>7. CopyDoneIsTrue(Peer(s))' BY <1>b, <1>c, <1>d, MoveFifoEffect DEF CopyDoneIsTrue, SameCounters, Copier
<1>8. OneCopy(Peer(s))' BY <1>b, <1>c, <1>d, MoveFifoEffect DEF OneCopy, SameCounters, Copier
<1> QED BY <1>1, <1>2, <1>3, <1>4, <1>5, <1>6, <1>7, <1>8 DEF Flow

LEMMA MoveZeroCopyFlow ==
  ASSUME ShmType, CallType, NEW s \in Side, Local(s), Local(Peer(s)), Joint(s), Joint(Peer(s)),
         Flow(s), Flow(Peer(s)), MoveZeroCopy(s)
  PROVE  Flow(s)' /\ Flow(Peer(s))'
<1>0. /\ OneSlot(s) /\ PcShape(s) /\ NotYet(s) /\ Counters(s) /\ DoneMeansMoved(s) /\ OffersStand(s)
      /\ PcShape(Peer(s)) /\ Counters(Peer(s)) /\ DoneMeansMoved(Peer(s)) /\ OffersStand(Peer(s))
  BY DEF Local
<1>a. /\ Meeting(s) /\ PeerDoneIsTrue(s) /\ LeftBehind(s) /\ PlansFollowOffers(s) /\ FinishedAgree(s)
      /\ Meeting(Peer(s)) /\ PeerDoneIsTrue(Peer(s)) /\ LeftBehind(Peer(s))
      /\ PlansFollowOffers(Peer(s)) /\ FinishedAgree(Peer(s))
  BY DEF Joint
<1>b. /\ SlotCounters(s) /\ Window(s) /\ CopyDoneIsTrue(s) /\ OneCopy(s)
      /\ SlotCounters(Peer(s)) /\ Window(Peer(s)) /\ CopyDoneIsTrue(Peer(s)) /\ OneCopy(Peer(s))
  BY DEF Flow
<1>c. /\ cur'[Peer(s)] = cur[Peer(s)] /\ pc'[Peer(s)] = pc[Peer(s)] /\ plan'[Peer(s)] = plan[Peer(s)]
      /\ Own(Peer(s))' = Own(Peer(s)) /\ OwnReg(Peer(s))' = OwnReg(Peer(s))
      /\ Published(Peer(s))' = Published(Peer(s)) /\ SameCounters(Peer(s))
  BY MoveZeroCopyEffect, SameView, SamePublished DEF Same
<1>d. Published(s)' = Published(s) BY MoveZeroCopyEffect, SamePublished
<1>e. Planned(s) /\ With(s) BY MoveZeroCopyEffect, NotLeftBehind DEF Copier
<1>f. PeerReg(s).remoteAddr = cur[s]
  <2>1. PeerReg(s) = OwnReg(Peer(s)) BY <1>e DEF PeerReg, OwnReg
  <2>2. OwnReg(Peer(s)).offerReady /\ plan[s][cur[s]] = OfferedPlan
    BY <1>0, <1>a, <1>e, MoveZeroCopyEffect DEF PlansFollowOffers, PcShape
  <2>3. OwnReg(Peer(s)).registered
    BY <2>2, MoveZeroCopyEffect DEF Copier, OfferedPlan, TransferPlan, Side, Peer
  <2> QED BY <1>0, <1>e, <2>1, <2>2, <2>3 DEF OffersStand
<1>1. SlotCounters(s)' BY <1>b, <1>c, <1>d, MoveZeroCopyEffect DEF SlotCounters, SameCounters
<1>2. Window(s)' BY MoveZeroCopyEffect DEF Window, Copier
<1>3. CopyDoneIsTrue(s)' BY <1>b, <1>c, <1>d, MoveZeroCopyEffect DEF CopyDoneIsTrue, SameCounters, Copier
<1>4. OneCopy(s)' BY <1>b, <1>c, <1>f, MoveZeroCopyEffect, Numbers DEF OneCopy, SameCounters, Copier
<1>5. SlotCounters(Peer(s))' BY <1>b, <1>c, <1>d, MoveZeroCopyEffect DEF SlotCounters, SameCounters
<1>6. Window(Peer(s))' BY <1>b, <1>c, <1>d, MoveZeroCopyEffect DEF Window, SameCounters
<1>7. CopyDoneIsTrue(Peer(s))' BY <1>b, <1>c, <1>d, MoveZeroCopyEffect DEF CopyDoneIsTrue, SameCounters, Copier
<1>8. OneCopy(Peer(s))' BY <1>b, <1>c, <1>d, MoveZeroCopyEffect DEF OneCopy, SameCounters, Copier
<1> QED BY <1>1, <1>2, <1>3, <1>4, <1>5, <1>6, <1>7, <1>8 DEF Flow

LEMMA AwaitCopyDoneFlow ==
  ASSUME ShmType, CallType, NEW s \in Side, Local(s), Local(Peer(s)), Joint(s), Joint(Peer(s)),
         Flow(s), Flow(Peer(s)), AwaitCopyDone(s)
  PROVE  Flow(s)' /\ Flow(Peer(s))'
<1>0. /\ OneSlot(s) /\ PcShape(s) /\ NotYet(s) /\ Counters(s) /\ DoneMeansMoved(s) /\ OffersStand(s)
      /\ PcShape(Peer(s)) /\ Counters(Peer(s)) /\ DoneMeansMoved(Peer(s)) /\ OffersStand(Peer(s))
  BY DEF Local
<1>a. /\ Meeting(s) /\ PeerDoneIsTrue(s) /\ LeftBehind(s) /\ PlansFollowOffers(s) /\ FinishedAgree(s)
      /\ Meeting(Peer(s)) /\ PeerDoneIsTrue(Peer(s)) /\ LeftBehind(Peer(s))
      /\ PlansFollowOffers(Peer(s)) /\ FinishedAgree(Peer(s))
  BY DEF Joint
<1>b. /\ SlotCounters(s) /\ Window(s) /\ CopyDoneIsTrue(s) /\ OneCopy(s)
      /\ SlotCounters(Peer(s)) /\ Window(Peer(s)) /\ CopyDoneIsTrue(Peer(s)) /\ OneCopy(Peer(s))
  BY DEF Flow
<1>c. /\ cur'[Peer(s)] = cur[Peer(s)] /\ pc'[Peer(s)] = pc[Peer(s)] /\ plan'[Peer(s)] = plan[Peer(s)]
      /\ Own(Peer(s))' = Own(Peer(s)) /\ OwnReg(Peer(s))' = OwnReg(Peer(s))
      /\ Published(Peer(s))' = Published(Peer(s)) /\ SameCounters(Peer(s))
  BY AwaitCopyDoneEffect, SameView, SamePublished DEF Same
<1>d. Published(s)' = Published(s) BY AwaitCopyDoneEffect, SamePublished
<1>e. Planned(s) /\ With(s) BY AwaitCopyDoneEffect, NotLeftBehind
<1>f. PeerReg(s).copyDone => executed[Peer(s)] = Steps(cur[s])
  <2>1. PeerReg(s) = OwnReg(Peer(s)) BY <1>e DEF PeerReg, OwnReg
  <2>2. PeerReg(s).copyDone => transmitted[Peer(s)] = Steps(cur[s]) BY <1>b, <1>e, <2>1 DEF CopyDoneIsTrue
  <2> QED BY <1>0, <1>e, <2>2, Numbers DEF Counters
<1>1. SlotCounters(s)' BY <1>b, <1>c, <1>d, AwaitCopyDoneEffect DEF SlotCounters, SameCounters
<1>2. Window(s)' BY <1>b, <1>c, <1>d, AwaitCopyDoneEffect DEF Window, SameCounters
<1>3. CopyDoneIsTrue(s)' BY <1>b, <1>c, <1>d, AwaitCopyDoneEffect DEF CopyDoneIsTrue, SameCounters, Copier
<1>4. OneCopy(s)' BY <1>b, <1>c, <1>e, <1>f, AwaitCopyDoneEffect, Numbers DEF OneCopy, SameCounters, Copier
<1>5. SlotCounters(Peer(s))' BY <1>b, <1>c, <1>d, AwaitCopyDoneEffect DEF SlotCounters, SameCounters
<1>6. Window(Peer(s))'
  <2>1. cur[s] \in Op /\ cur'[s] = cur[s] /\ transmitted[s] < Steps(cur[s]) BY AwaitCopyDoneEffect
  <2>2. transmitted'[s] \in Nat /\ transmitted[s] <= transmitted'[s]
    <3>1. transmitted[s] \in Nat /\ Steps(cur[s]) \in Nat BY <2>1, Numbers
    <3>2. transmitted'[s] = transmitted[s] \/ transmitted'[s] = Steps(cur[s])
      BY AwaitCopyDoneEffect DEF SameCounters
    <3> QED BY <2>1, <3>1, <3>2
  <2>3. With(Peer(s))' => With(Peer(s)) BY <1>c, <2>1, AwaitCopyDoneEffect
  <2>4. copied[Peer(s)] \in Nat /\ transmitted[s] \in Nat /\ Room(Peer(s)) \in Nat BY Numbers, RoomFact
  <2> QED BY <1>b, <1>c, <2>2, <2>3, <2>4 DEF Window, SameCounters
<1>7. CopyDoneIsTrue(Peer(s))' BY <1>b, <1>c, <1>d, AwaitCopyDoneEffect DEF CopyDoneIsTrue, SameCounters, Copier
<1>8. OneCopy(Peer(s))' BY <1>b, <1>c, <1>d, AwaitCopyDoneEffect DEF OneCopy, SameCounters, Copier
<1> QED BY <1>1, <1>2, <1>3, <1>4, <1>5, <1>6, <1>7, <1>8 DEF Flow

LEMMA EventDoneFlow ==
  ASSUME ShmType, CallType, NEW s \in Side, Local(s), Local(Peer(s)), Joint(s), Joint(Peer(s)),
         Flow(s), Flow(Peer(s)), EventDone(s)
  PROVE  Flow(s)' /\ Flow(Peer(s))'
<1>0. /\ OneSlot(s) /\ PcShape(s) /\ NotYet(s) /\ Counters(s) /\ DoneMeansMoved(s) /\ OffersStand(s)
      /\ PcShape(Peer(s)) /\ Counters(Peer(s)) /\ DoneMeansMoved(Peer(s)) /\ OffersStand(Peer(s))
  BY DEF Local
<1>a. /\ Meeting(s) /\ PeerDoneIsTrue(s) /\ LeftBehind(s) /\ PlansFollowOffers(s) /\ FinishedAgree(s)
      /\ Meeting(Peer(s)) /\ PeerDoneIsTrue(Peer(s)) /\ LeftBehind(Peer(s))
      /\ PlansFollowOffers(Peer(s)) /\ FinishedAgree(Peer(s))
  BY DEF Joint
<1>b. /\ SlotCounters(s) /\ Window(s) /\ CopyDoneIsTrue(s) /\ OneCopy(s)
      /\ SlotCounters(Peer(s)) /\ Window(Peer(s)) /\ CopyDoneIsTrue(Peer(s)) /\ OneCopy(Peer(s))
  BY DEF Flow
<1>c. /\ cur'[Peer(s)] = cur[Peer(s)] /\ pc'[Peer(s)] = pc[Peer(s)] /\ plan'[Peer(s)] = plan[Peer(s)]
      /\ Own(Peer(s))' = Own(Peer(s)) /\ OwnReg(Peer(s))' = OwnReg(Peer(s))
      /\ Published(Peer(s))' = Published(Peer(s)) /\ SameCounters(Peer(s))
  BY EventDoneEffect, SameView, SamePublished DEF Same
<1>d. Published(s)' = IF plan[s][cur[s]] = "fifo" THEN transmitted'[s] + Room(Peer(s)) ELSE Published(s)
  <2>1. CASE plan[s][cur[s]] = "fifo"
    <3>1. Room(Peer(s)) = (IF s = "send" THEN 0 ELSE Chunks) BY DEF Room, Side, Peer
    <3>2. transmitted'[s] \in Nat BY <2>1, EventDoneEffect, Numbers
    <3> QED BY <2>1, <3>1, <3>2, EventDoneEffect, P2pSlotAssumption DEF Published, RecvTail, Side
  <2>2. CASE plan[s][cur[s]] # "fifo" BY <2>2, EventDoneEffect, SamePublished
  <2> QED BY <2>1, <2>2
<1>1. SlotCounters(s)' BY <1>0, <1>b, <1>c, <1>d, EventDoneEffect DEF SlotCounters, SameCounters, Counters, PcShape
<1>2. Window(s)' BY <1>b, <1>c, <1>d, EventDoneEffect DEF Window, SameCounters
<1>3. CopyDoneIsTrue(s)' BY <1>0, <1>b, <1>c, <1>d, EventDoneEffect DEF CopyDoneIsTrue, SameCounters, Counters, PcShape, Copier
<1>4. OneCopy(s)' BY <1>b, <1>c, <1>d, EventDoneEffect DEF OneCopy, SameCounters, Copier
<1>5. SlotCounters(Peer(s))' BY <1>b, <1>c, <1>d, EventDoneEffect DEF SlotCounters, SameCounters
<1>6. Window(Peer(s))'
  <2>1. cur[s] \in Op /\ cur'[s] = cur[s] /\ transmitted[s] < copied[s] BY EventDoneEffect
  <2>2. transmitted'[s] \in Nat /\ transmitted[s] <= transmitted'[s]
    <3>1. transmitted[s] \in Nat /\ Steps(cur[s]) \in Nat /\ copied[s] \in Nat BY <2>1, Numbers
    <3>2. copied[s] <= Steps(cur[s]) BY <1>0, <2>1 DEF Counters
    <3>3. transmitted'[s] = transmitted[s] + 1 \/ transmitted'[s] = Steps(cur[s]) BY EventDoneEffect
    <3> QED BY <2>1, <3>1, <3>2, <3>3
  <2>3. With(Peer(s))' => With(Peer(s)) BY <1>c, <2>1, EventDoneEffect
  <2>4. copied[Peer(s)] \in Nat /\ transmitted[s] \in Nat /\ Room(Peer(s)) \in Nat BY Numbers, RoomFact
  <2> QED BY <1>b, <1>c, <2>2, <2>3, <2>4 DEF Window, SameCounters
<1>7. CopyDoneIsTrue(Peer(s))' BY <1>b, <1>c, <1>d, EventDoneEffect DEF CopyDoneIsTrue, SameCounters, Copier
<1>8. OneCopy(Peer(s))' BY <1>b, <1>c, <1>d, EventDoneEffect DEF OneCopy, SameCounters, Copier
<1> QED BY <1>1, <1>2, <1>3, <1>4, <1>5, <1>6, <1>7, <1>8 DEF Flow

LEMMA EventPendingFlow ==
  ASSUME ShmType, CallType, NEW s \in Side, Local(s), Local(Peer(s)), Joint(s), Joint(Peer(s)),
         Flow(s), Flow(Peer(s)), EventPending(s)
  PROVE  Flow(s)' /\ Flow(Peer(s))'
<1>0. /\ OneSlot(s) /\ PcShape(s) /\ NotYet(s) /\ Counters(s) /\ DoneMeansMoved(s) /\ OffersStand(s)
      /\ PcShape(Peer(s)) /\ Counters(Peer(s)) /\ DoneMeansMoved(Peer(s)) /\ OffersStand(Peer(s))
  BY DEF Local
<1>a. /\ Meeting(s) /\ PeerDoneIsTrue(s) /\ LeftBehind(s) /\ PlansFollowOffers(s) /\ FinishedAgree(s)
      /\ Meeting(Peer(s)) /\ PeerDoneIsTrue(Peer(s)) /\ LeftBehind(Peer(s))
      /\ PlansFollowOffers(Peer(s)) /\ FinishedAgree(Peer(s))
  BY DEF Joint
<1>b. /\ SlotCounters(s) /\ Window(s) /\ CopyDoneIsTrue(s) /\ OneCopy(s)
      /\ SlotCounters(Peer(s)) /\ Window(Peer(s)) /\ CopyDoneIsTrue(Peer(s)) /\ OneCopy(Peer(s))
  BY DEF Flow
<1>c. /\ cur'[Peer(s)] = cur[Peer(s)] /\ pc'[Peer(s)] = pc[Peer(s)] /\ plan'[Peer(s)] = plan[Peer(s)]
      /\ Own(Peer(s))' = Own(Peer(s)) /\ OwnReg(Peer(s))' = OwnReg(Peer(s))
      /\ Published(Peer(s))' = Published(Peer(s)) /\ SameCounters(Peer(s))
  BY EventPendingEffect, SameView, SamePublished DEF Same
<1>d. Published(s)' = Published(s) BY EventPendingEffect, SamePublished
<1>1. SlotCounters(s)' BY <1>b, <1>c, <1>d, EventPendingEffect DEF SlotCounters, SameCounters
<1>2. Window(s)' BY <1>b, <1>c, <1>d, EventPendingEffect DEF Window, SameCounters
<1>3. CopyDoneIsTrue(s)' BY <1>b, <1>c, <1>d, EventPendingEffect DEF CopyDoneIsTrue, SameCounters, Copier
<1>4. OneCopy(s)' BY <1>b, <1>c, <1>d, EventPendingEffect DEF OneCopy, SameCounters, Copier
<1>5. SlotCounters(Peer(s))' BY <1>b, <1>c, <1>d, EventPendingEffect DEF SlotCounters, SameCounters
<1>6. Window(Peer(s))' BY <1>b, <1>c, <1>d, EventPendingEffect DEF Window, SameCounters
<1>7. CopyDoneIsTrue(Peer(s))' BY <1>b, <1>c, <1>d, EventPendingEffect DEF CopyDoneIsTrue, SameCounters, Copier
<1>8. OneCopy(Peer(s))' BY <1>b, <1>c, <1>d, EventPendingEffect DEF OneCopy, SameCounters, Copier
<1> QED BY <1>1, <1>2, <1>3, <1>4, <1>5, <1>6, <1>7, <1>8 DEF Flow

LEMMA DeviceCopyFlow ==
  ASSUME ShmType, CallType, NEW s \in Side, Local(s), Local(Peer(s)), Joint(s), Joint(Peer(s)),
         Flow(s), Flow(Peer(s)), DeviceCopy(s)
  PROVE  Flow(s)' /\ Flow(Peer(s))'
<1>0. /\ OneSlot(s) /\ PcShape(s) /\ NotYet(s) /\ Counters(s) /\ DoneMeansMoved(s) /\ OffersStand(s)
      /\ PcShape(Peer(s)) /\ Counters(Peer(s)) /\ DoneMeansMoved(Peer(s)) /\ OffersStand(Peer(s))
  BY DEF Local
<1>a. /\ Meeting(s) /\ PeerDoneIsTrue(s) /\ LeftBehind(s) /\ PlansFollowOffers(s) /\ FinishedAgree(s)
      /\ Meeting(Peer(s)) /\ PeerDoneIsTrue(Peer(s)) /\ LeftBehind(Peer(s))
      /\ PlansFollowOffers(Peer(s)) /\ FinishedAgree(Peer(s))
  BY DEF Joint
<1>b. /\ SlotCounters(s) /\ Window(s) /\ CopyDoneIsTrue(s) /\ OneCopy(s)
      /\ SlotCounters(Peer(s)) /\ Window(Peer(s)) /\ CopyDoneIsTrue(Peer(s)) /\ OneCopy(Peer(s))
  BY DEF Flow
<1>c. /\ cur'[Peer(s)] = cur[Peer(s)] /\ pc'[Peer(s)] = pc[Peer(s)] /\ plan'[Peer(s)] = plan[Peer(s)]
      /\ Own(Peer(s))' = Own(Peer(s)) /\ OwnReg(Peer(s))' = OwnReg(Peer(s))
      /\ Published(Peer(s))' = Published(Peer(s)) /\ SameCounters(Peer(s))
  BY DeviceCopyEffect, SameView, SamePublished DEF Same
<1>d. Published(s)' = Published(s) BY DeviceCopyEffect, SamePublished
<1>1. SlotCounters(s)' BY <1>b, <1>c, <1>d, DeviceCopyEffect DEF SlotCounters, SameCounters
<1>2. Window(s)' BY <1>b, <1>c, <1>d, DeviceCopyEffect DEF Window, SameCounters
<1>3. CopyDoneIsTrue(s)' BY <1>b, <1>c, <1>d, DeviceCopyEffect DEF CopyDoneIsTrue, SameCounters, Copier
<1>4. OneCopy(s)' BY <1>b, <1>c, <1>d, DeviceCopyEffect DEF OneCopy, SameCounters, Copier
<1>5. SlotCounters(Peer(s))' BY <1>b, <1>c, <1>d, DeviceCopyEffect DEF SlotCounters, SameCounters
<1>6. Window(Peer(s))' BY <1>b, <1>c, <1>d, DeviceCopyEffect DEF Window, SameCounters
<1>7. CopyDoneIsTrue(Peer(s))' BY <1>b, <1>c, <1>d, DeviceCopyEffect DEF CopyDoneIsTrue, SameCounters, Copier
<1>8. OneCopy(Peer(s))' BY <1>0, <1>b, <1>c, <1>d, DeviceCopyEffect, Numbers, RoomFact DEF OneCopy, SameCounters, Counters, PcShape, Copier
<1> QED BY <1>1, <1>2, <1>3, <1>4, <1>5, <1>6, <1>7, <1>8 DEF Flow

LEMMA MarkDoneFlow ==
  ASSUME ShmType, CallType, NEW s \in Side, Local(s), Local(Peer(s)), Joint(s), Joint(Peer(s)),
         Flow(s), Flow(Peer(s)), MarkDone(s)
  PROVE  Flow(s)' /\ Flow(Peer(s))'
<1>0. /\ OneSlot(s) /\ PcShape(s) /\ NotYet(s) /\ Counters(s) /\ DoneMeansMoved(s) /\ OffersStand(s)
      /\ PcShape(Peer(s)) /\ Counters(Peer(s)) /\ DoneMeansMoved(Peer(s)) /\ OffersStand(Peer(s))
  BY DEF Local
<1>a. /\ Meeting(s) /\ PeerDoneIsTrue(s) /\ LeftBehind(s) /\ PlansFollowOffers(s) /\ FinishedAgree(s)
      /\ Meeting(Peer(s)) /\ PeerDoneIsTrue(Peer(s)) /\ LeftBehind(Peer(s))
      /\ PlansFollowOffers(Peer(s)) /\ FinishedAgree(Peer(s))
  BY DEF Joint
<1>b. /\ SlotCounters(s) /\ Window(s) /\ CopyDoneIsTrue(s) /\ OneCopy(s)
      /\ SlotCounters(Peer(s)) /\ Window(Peer(s)) /\ CopyDoneIsTrue(Peer(s)) /\ OneCopy(Peer(s))
  BY DEF Flow
<1>c. /\ Published(s)' = Published(s)
      /\ cur[Peer(s)] \in Op => Published(Peer(s))' = Published(Peer(s))
  BY MarkDoneEffect DEF Published
<1>d. /\ cur'[s] = cur[s] /\ plan'[s] = plan[s] /\ transmitted'[s] = transmitted[s]
      /\ Own(s)'.opHash = Own(s).opHash
      /\ cur'[Peer(s)] = cur[Peer(s)] /\ plan'[Peer(s)] = plan[Peer(s)]
      /\ transmitted'[Peer(s)] = transmitted[Peer(s)]
      /\ cur[Peer(s)] \in Op => Own(Peer(s))'.opHash = Own(Peer(s)).opHash
  BY MarkDoneEffect DEF SameCounters
<1>1. SlotCounters(s)' BY <1>b, <1>c, <1>d DEF SlotCounters
<1>2. Window(s)' BY <1>b, <1>c, <1>d, MarkDoneEffect DEF Window, SameCounters
<1>3. CopyDoneIsTrue(s)' BY <1>b, <1>c, <1>d, MarkDoneEffect DEF CopyDoneIsTrue, SameCounters, Copier
<1>4. OneCopy(s)' BY <1>b, <1>c, <1>d, MarkDoneEffect DEF OneCopy, SameCounters, Copier
<1>5. SlotCounters(Peer(s))' BY <1>b, <1>c, <1>d DEF SlotCounters
<1>6. Window(Peer(s))' BY <1>b, <1>c, <1>d, MarkDoneEffect DEF Window, SameCounters
<1>7. CopyDoneIsTrue(Peer(s))' BY <1>b, <1>c, <1>d, MarkDoneEffect DEF CopyDoneIsTrue, SameCounters, Copier
<1>8. OneCopy(Peer(s))' BY <1>b, MarkDoneEffect DEF OneCopy, SameCounters, Copier
<1> QED BY <1>1, <1>2, <1>3, <1>4, <1>5, <1>6, <1>7, <1>8 DEF Flow

LEMMA CompleteFlow ==
  ASSUME ShmType, CallType, NEW s \in Side, Local(s), Local(Peer(s)), Joint(s), Joint(Peer(s)),
         Flow(s), Flow(Peer(s)), Complete(s)
  PROVE  Flow(s)' /\ Flow(Peer(s))'
<1>0. /\ OneSlot(s) /\ PcShape(s) /\ NotYet(s) /\ Counters(s) /\ DoneMeansMoved(s) /\ OffersStand(s)
      /\ PcShape(Peer(s)) /\ Counters(Peer(s)) /\ DoneMeansMoved(Peer(s)) /\ OffersStand(Peer(s))
  BY DEF Local
<1>a. /\ Meeting(s) /\ PeerDoneIsTrue(s) /\ LeftBehind(s) /\ PlansFollowOffers(s) /\ FinishedAgree(s)
      /\ Meeting(Peer(s)) /\ PeerDoneIsTrue(Peer(s)) /\ LeftBehind(Peer(s))
      /\ PlansFollowOffers(Peer(s)) /\ FinishedAgree(Peer(s))
  BY DEF Joint
<1>b. /\ SlotCounters(s) /\ Window(s) /\ CopyDoneIsTrue(s) /\ OneCopy(s)
      /\ SlotCounters(Peer(s)) /\ Window(Peer(s)) /\ CopyDoneIsTrue(Peer(s)) /\ OneCopy(Peer(s))
  BY DEF Flow
<1>c. /\ cur'[Peer(s)] = cur[Peer(s)] /\ pc'[Peer(s)] = pc[Peer(s)] /\ plan'[Peer(s)] = plan[Peer(s)]
      /\ Own(Peer(s))' = Own(Peer(s)) /\ OwnReg(Peer(s))' = OwnReg(Peer(s))
      /\ Published(Peer(s))' = Published(Peer(s)) /\ SameCounters(Peer(s))
  BY CompleteEffect, SameView, SamePublished DEF Same
<1>d. Own(s)' = Own(s) => Published(s)' = Published(s) BY SamePublished
<1>1. SlotCounters(s)' BY <1>b, <1>d, CompleteEffect, Numbers DEF SlotCounters, SameCounters
<1>2. Window(s)' BY <1>b, <1>c, <1>d, CompleteEffect DEF Window, SameCounters
<1>3. CopyDoneIsTrue(s)' BY <1>b, <1>c, <1>d, CompleteEffect, Numbers, RoomFact DEF CopyDoneIsTrue, SameCounters, Copier
<1>4. OneCopy(s)' BY <1>b, <1>c, <1>d, CompleteEffect DEF OneCopy, SameCounters, Copier
<1>5. SlotCounters(Peer(s))' BY <1>b, <1>c, <1>d, CompleteEffect DEF SlotCounters, SameCounters
<1>6. Window(Peer(s))' BY <1>b, <1>c, <1>d, CompleteEffect, Numbers, RoomFact, SMTT(30) DEF Window, SameCounters
<1>7. CopyDoneIsTrue(Peer(s))' BY <1>b, <1>c, <1>d, CompleteEffect DEF CopyDoneIsTrue, SameCounters, Copier
<1>8. OneCopy(Peer(s))' BY <1>b, <1>c, <1>d, CompleteEffect DEF OneCopy, SameCounters, Copier
<1> QED BY <1>1, <1>2, <1>3, <1>4, <1>5, <1>6, <1>7, <1>8 DEF Flow

LEMMA DequeueFlow ==
  ASSUME ShmType, CallType, NEW s \in Side, Local(s), Local(Peer(s)), Joint(s), Joint(Peer(s)),
         Flow(s), Flow(Peer(s)), Dequeue(s)
  PROVE  Flow(s)' /\ Flow(Peer(s))'
<1>0. /\ OneSlot(s) /\ PcShape(s) /\ NotYet(s) /\ Counters(s) /\ DoneMeansMoved(s) /\ OffersStand(s)
      /\ PcShape(Peer(s)) /\ Counters(Peer(s)) /\ DoneMeansMoved(Peer(s)) /\ OffersStand(Peer(s))
  BY DEF Local
<1>a. /\ Meeting(s) /\ PeerDoneIsTrue(s) /\ LeftBehind(s) /\ PlansFollowOffers(s) /\ FinishedAgree(s)
      /\ Meeting(Peer(s)) /\ PeerDoneIsTrue(Peer(s)) /\ LeftBehind(Peer(s))
      /\ PlansFollowOffers(Peer(s)) /\ FinishedAgree(Peer(s))
  BY DEF Joint
<1>b. /\ SlotCounters(s) /\ Window(s) /\ CopyDoneIsTrue(s) /\ OneCopy(s)
      /\ SlotCounters(Peer(s)) /\ Window(Peer(s)) /\ CopyDoneIsTrue(Peer(s)) /\ OneCopy(Peer(s))
  BY DEF Flow
<1>c. /\ cur'[Peer(s)] = cur[Peer(s)] /\ pc'[Peer(s)] = pc[Peer(s)] /\ plan'[Peer(s)] = plan[Peer(s)]
      /\ Own(Peer(s))' = Own(Peer(s)) /\ OwnReg(Peer(s))' = OwnReg(Peer(s))
      /\ Published(Peer(s))' = Published(Peer(s)) /\ SameCounters(Peer(s))
  BY DequeueEffect, SameView, SamePublished DEF Same
<1>d. ~Claimed(s)' /\ ~Planned(s)' BY <1>0, DequeueFresh
<1>1. SlotCounters(s)' BY <1>b, <1>c, <1>d, DequeueEffect DEF SlotCounters, SameCounters
<1>2. Window(s)' BY <1>b, <1>c, <1>d, DequeueEffect DEF Window, SameCounters
<1>3. CopyDoneIsTrue(s)' BY <1>b, <1>c, <1>d, DequeueEffect DEF CopyDoneIsTrue, SameCounters, Copier
<1>4. OneCopy(s)' BY <1>b, <1>c, <1>d, DequeueEffect DEF OneCopy, SameCounters, Copier
<1>5. SlotCounters(Peer(s))' BY <1>b, <1>c, <1>d, DequeueEffect DEF SlotCounters, SameCounters
<1>6. Window(Peer(s))' BY <1>b, <1>c, <1>d, DequeueEffect DEF Window, SameCounters
<1>7. CopyDoneIsTrue(Peer(s))' BY <1>b, <1>c, <1>d, DequeueEffect DEF CopyDoneIsTrue, SameCounters, Copier
<1>8. OneCopy(Peer(s))' BY <1>b, <1>c, <1>d, DequeueEffect, Numbers, RoomFact DEF OneCopy, SameCounters, Copier
<1> QED BY <1>1, <1>2, <1>3, <1>4, <1>5, <1>6, <1>7, <1>8 DEF Flow

LEMMA FlowStep ==
  ASSUME Inv, \A s \in Side : Flow(s), [Next]_vars
  PROVE  \A s \in Side : Flow(s)'
<1>0. ShmType /\ CallType /\ (\A s \in Side : Local(s)) /\ (\A s \in Side : Joint(s))
  BY DEF Inv, LocalInv
<1>1. ASSUME NEW s \in Side, Proxy(s) \/ DeviceCopy(s)
      PROVE  Flow(s)' /\ Flow(Peer(s))'
  <2>0. /\ Local(s) /\ Local(Peer(s)) /\ Joint(s) /\ Joint(Peer(s))
        /\ Flow(s) /\ Flow(Peer(s))
    BY <1>0
  <2>1. CASE ResetReg(s) BY <1>0, <2>0, <2>1, ResetRegFlow
  <2>2. CASE PublishSlot(s) BY <1>0, <2>0, <2>2, PublishSlotFlow
  <2>3. CASE OwnsSlot(s) BY <1>0, <2>0, <2>3, OwnsSlotFlow
  <2>4. CASE CheckPeer(s) BY <1>0, <2>0, <2>4, CheckPeerFlow
  <2>5. CASE PublishOffer(s) BY <1>0, <2>0, <2>5, PublishOfferFlow
  <2>6. CASE ResolvePlan(s) BY <1>0, <2>0, <2>6, ResolvePlanFlow
  <2>7. CASE MoveFifo(s) BY <1>0, <2>0, <2>7, MoveFifoFlow
  <2>8. CASE MoveZeroCopy(s) BY <1>0, <2>0, <2>8, MoveZeroCopyFlow
  <2>9. CASE AwaitCopyDone(s) BY <1>0, <2>0, <2>9, AwaitCopyDoneFlow
  <2>10. CASE EventDone(s) BY <1>0, <2>0, <2>10, EventDoneFlow
  <2>11. CASE EventPending(s) BY <1>0, <2>0, <2>11, EventPendingFlow
  <2>12. CASE DeviceCopy(s) BY <1>0, <2>0, <2>12, DeviceCopyFlow
  <2>13. CASE MarkDone(s) BY <1>0, <2>0, <2>13, MarkDoneFlow
  <2>14. CASE Complete(s) BY <1>0, <2>0, <2>14, CompleteFlow
  <2>15. CASE Dequeue(s) BY <1>0, <2>0, <2>15, DequeueFlow
  <2> QED BY <1>1, <2>1, <2>2, <2>3, <2>4, <2>5, <2>6, <2>7, <2>8, <2>9, <2>10, <2>11, <2>12, <2>13, <2>14, <2>15 DEF Proxy
<1>2. CASE UNCHANGED vars
  <2>1. \A s \in Side : Same(s) BY <1>2 DEF vars, shmVars, argVars, devVars, Same, SameCounters
  <2> QED BY <2>1, FlowFrame
<1>3. CASE \E s \in Side : Proxy(s) \/ DeviceCopy(s)
  <2>1. PICK s \in Side : Proxy(s) \/ DeviceCopy(s) BY <1>3
  <2>2. Flow(s)' /\ Flow(Peer(s))' BY <1>1, <2>1
  <2>3. \A t \in Side : t = s \/ t = Peer(s) BY DEF Side, Peer
  <2> QED BY <2>2, <2>3
<1> QED BY <1>2, <1>3 DEF Next

LEMMA FlowInvariant == HashesDiffer /\ Spec => []FlowInv
<1>1. Init => \A s \in Side : Flow(s)
  <2> SUFFICES ASSUME Init, NEW s \in Side PROVE Flow(s) OBVIOUS
  <2>1. \A i \in Op : plan[s][i] = "pending" BY DEF Init
  <2>2. cur[s] \in Op => plan[s][cur[s]] = "pending" /\ Own(s).opHash = Free
    <3>1. \A y \in Index : slot[s][y].opHash = Free BY DEF Init, FreeSlot
    <3> QED BY <2>1, <3>1, IndexFact DEF Own
  <2>3. ~Claimed(s) BY <2>2, OpFacts
  <2> QED BY <2>2, <2>3 DEF Flow, SlotCounters, Window, CopyDoneIsTrue, OneCopy
<1> DEFINE F == \A s \in Side : Flow(s)
<1>2. Init => F BY <1>1
<1>3. Inv /\ F /\ [Next]_vars => F' BY FlowStep
<1>4. Inv /\ F => FlowInv BY DEF FlowInv
<1> HIDE DEF F
<1> QED BY <1>2, <1>3, <1>4, SidesAgree, PTL DEF Spec

-----------------------------------------------------------------------------
(* The buffers *)

\* A position is one of the ring.
LEMMA PositionInRange ==
  ASSUME NEW k \in Nat
  PROVE  Position(k) \in 0..Chunks-1
<1>1. Chunks \in Nat /\ Chunks >= 1 BY P2pSlotAssumption
<1>2. \A n \in Nat : n % 2 = 0 \/ n % 2 = 1 OBVIOUS
<1>3. \A n, b \in Nat : b \in 1..8 => n \div b \in Nat OBVIOUS
<1>4. \A b \in {0, 1, 2, 3} : /\ Bit(k, b) = 0 \/ Bit(k, b) = 1
                              /\ Bit(Chunks - 1, b) = 0 \/ Bit(Chunks - 1, b) = 1
  BY <1>1, <1>2, <1>3, PowersOfTwo DEF Bit
<1>5. /\ Bit(Chunks - 1, 0) + 2 * Bit(Chunks - 1, 1) + 4 * Bit(Chunks - 1, 2)
           + 8 * Bit(Chunks - 1, 3) <= Chunks - 1
  BY <1>1, PowersOfTwo, SMTT(60) DEF Bit
<1> DEFINE a == Bit(k, 0)   b == Bit(k, 1)   c == Bit(k, 2)   d == Bit(k, 3)
           p == Bit(Chunks - 1, 0)   q == Bit(Chunks - 1, 1)
           r == Bit(Chunks - 1, 2)   t == Bit(Chunks - 1, 3)
<1>6. Position(k) = a * p * 1 + b * q * 2 + c * r * 4 + d * t * 8
  BY PowersOfTwo DEF Position
<1>7. /\ a \in {0, 1} /\ b \in {0, 1} /\ c \in {0, 1} /\ d \in {0, 1}
      /\ p \in {0, 1} /\ q \in {0, 1} /\ r \in {0, 1} /\ t \in {0, 1}
  BY <1>4
<1>8. p + 2 * q + 4 * r + 8 * t <= Chunks - 1 BY <1>5
<1> HIDE DEF a, b, c, d, p, q, r, t
<1>9. /\ a * p * 1 \in {0, p} /\ b * q * 2 \in {0, 2 * q} /\ c * r * 4 \in {0, 4 * r}
      /\ d * t * 8 \in {0, 8 * t}
  BY <1>7
<1>10. Position(k) \in Nat /\ Position(k) <= p + 2 * q + 4 * r + 8 * t
  BY <1>6, <1>7, <1>9
<1> QED BY <1>1, <1>7, <1>8, <1>10

LEMMA ProxyKeepsBuffers ==
  ASSUME NEW s \in Side, Proxy(s)
  PROVE  fifo' = fifo /\ data' = data
<1>1. CASE ResetReg(s) BY <1>1 DEF ResetReg, devVars
<1>2. CASE PublishSlot(s) BY <1>2 DEF PublishSlot, devVars
<1>3. CASE OwnsSlot(s) BY <1>3 DEF OwnsSlot, devVars
<1>4. CASE CheckPeer(s) BY <1>4 DEF CheckPeer, devVars
<1>5. CASE PublishOffer(s) BY <1>5 DEF PublishOffer, devVars
<1>6. CASE ResolvePlan(s) BY <1>6 DEF ResolvePlan, devVars
<1>7. CASE MoveFifo(s) BY <1>7 DEF MoveFifo, devVars
<1>8. CASE MoveZeroCopy(s) BY <1>8 DEF MoveZeroCopy, devVars
<1>9. CASE AwaitCopyDone(s) BY <1>9 DEF AwaitCopyDone, devVars
<1>10. CASE EventDone(s) BY <1>10 DEF EventDone, devVars
<1>11. CASE EventPending(s) BY <1>11 DEF EventPending, devVars
<1>12. CASE MarkDone(s) BY <1>12 DEF MarkDone, devVars
<1>13. CASE Complete(s) BY <1>13 DEF Complete, devVars
<1>14. CASE Dequeue(s) BY <1>14 DEF Dequeue, devVars
<1> QED BY <1>1, <1>2, <1>3, <1>4, <1>5, <1>6, <1>7, <1>8, <1>9, <1>10, <1>11, <1>12, <1>13, <1>14 DEF Proxy

LEMMA ChunkType ==
  /\ Empty \in (Op \cup {Null}) \X Nat
  /\ \A i \in Op : \A k \in Nat : <<i, k>> \in (Op \cup {Null}) \X Nat
  /\ \A i : \A k \in Nat : SendData(i, k) \in (Op \cup {Null}) \X Nat
<1>1. Empty \in (Op \cup {Null}) \X Nat BY DEF Empty
<1> QED BY <1>1 DEF SendData

LEMMA DeviceCopyTypes ==
  ASSUME CallType, BufferType, NEW s \in Side, DeviceCopy(s)
  PROVE  BufferType'
<1> DEFINE C == (Op \cup {Null}) \X Nat
           i == cur[s]
           k == executed[s]
           p == Position(k)
<1>1. i \in Op /\ k \in Nat BY Numbers DEF DeviceCopy
<1>2. p \in 0..Chunks-1 BY <1>1, PositionInRange
<1>3. /\ fifo \in [0..Chunks-1 -> C] /\ DOMAIN data = Op
      /\ \A j \in Op : data[j] \in [0..Steps(j)-1 -> C] /\ 0..Steps(j)-1 \subseteq Nat
  <2>1. \A j \in Op : Steps(j) \in Nat BY OpFacts
  <2>2. \A j \in Op : 0..Steps(j)-1 \subseteq Nat BY <2>1
  <2> QED BY <2>2 DEF BufferType
<1>4. /\ Empty \in C /\ \A j : \A c \in Nat : SendData(j, c) \in C BY ChunkType
<1>5. \/ fifo' = [fifo EXCEPT ![p] = SendData(i, k)] /\ data' = data
      \/ data' = [data EXCEPT ![i][k] = fifo[p]] /\ fifo' = fifo
      \/ /\ data' = [j \in Op |-> IF j = rmtAddr[s]
                       THEN [c \in DOMAIN data[j] |-> SendData(i, c)] ELSE data[j]]
         /\ fifo' = fifo
      \/ /\ data' = [data EXCEPT ![i] = [c \in DOMAIN data[i] |-> SendData(rmtAddr[s], c)]]
         /\ fifo' = fifo
  BY DEF DeviceCopy
<1> HIDE DEF C, i, k, p
<1>6. CASE fifo' = [fifo EXCEPT ![p] = SendData(i, k)] /\ data' = data
  <2>1. fifo' \in [0..Chunks-1 -> C] BY <1>1, <1>3, <1>4, <1>6
  <2> QED BY <1>3, <1>6, <2>1 DEF BufferType, C
<1>7. CASE data' = [data EXCEPT ![i][k] = fifo[p]] /\ fifo' = fifo
  <2>1. fifo[p] \in C BY <1>2, <1>3
  <2>2. DOMAIN data' = Op BY <1>3, <1>7
  <2>3. \A j \in Op : data'[j] \in [0..Steps(j)-1 -> C]
    <3>1. SUFFICES ASSUME NEW j \in Op PROVE data'[j] \in [0..Steps(j)-1 -> C] OBVIOUS
    <3>2. CASE j = i
      <4>1. data'[j] = [data[j] EXCEPT ![k] = fifo[p]] BY <1>1, <1>3, <1>7, <3>2
      <4> QED BY <1>3, <2>1, <4>1
    <3>3. CASE j # i BY <1>3, <1>7, <3>3
    <3> QED BY <3>2, <3>3
  <2> QED BY <1>3, <1>7, <2>2, <2>3 DEF BufferType, C
<1>8. CASE /\ data' = [j \in Op |-> IF j = rmtAddr[s]
                         THEN [c \in DOMAIN data[j] |-> SendData(i, c)] ELSE data[j]]
           /\ fifo' = fifo
  <2>1. \A j \in Op : data'[j] \in [0..Steps(j)-1 -> C] BY <1>3, <1>4, <1>8
  <2>2. DOMAIN data' = Op BY <1>8
  <2> QED BY <1>3, <1>8, <2>1, <2>2 DEF BufferType, C
<1>9. CASE /\ data' = [data EXCEPT ![i] = [c \in DOMAIN data[i] |-> SendData(rmtAddr[s], c)]]
           /\ fifo' = fifo
  <2>1. \A j \in Op : data'[j] \in [0..Steps(j)-1 -> C] BY <1>1, <1>3, <1>4, <1>9
  <2>2. DOMAIN data' = Op BY <1>3, <1>9
  <2> QED BY <1>3, <1>9, <2>1, <2>2 DEF BufferType, C
<1> QED BY <1>5, <1>6, <1>7, <1>8, <1>9

\* Type correctness, with no hypothesis on the operations or the ring.
THEOREM TypeCorrect == Spec => []TypeOK
<1>1. Init => BufferType
  <2> SUFFICES ASSUME Init PROVE BufferType OBVIOUS
  <2>1. fifo \in [0..Chunks-1 -> (Op \cup {Null}) \X Nat] BY ChunkType DEF Init
  <2>2. /\ DOMAIN data = Op
        /\ \A i \in Op : data[i] \in [0..Steps(i)-1 -> (Op \cup {Null}) \X Nat]
    BY ChunkType DEF Init
  <2> QED BY <2>1, <2>2 DEF BufferType
<1>2. LocalInv /\ BufferType /\ [Next]_vars => BufferType'
  <2> SUFFICES ASSUME LocalInv, BufferType, [Next]_vars PROVE BufferType' OBVIOUS
  <2>1. CASE fifo' = fifo /\ data' = data BY <2>1 DEF BufferType
  <2>2. ASSUME NEW s \in Side, DeviceCopy(s) PROVE BufferType'
    BY <2>2, DeviceCopyTypes DEF LocalInv
  <2> QED BY <2>1, <2>2, ProxyKeepsBuffers DEF Next, vars, devVars
<1>3. LocalInv /\ BufferType => TypeOK BY DEF LocalInv, TypeOK
<1> QED BY <1>1, <1>2, <1>3, LocalInvariant, PTL DEF Spec

-----------------------------------------------------------------------------
(* The ring and the receive buffers *)

\* Two chunks less than a ring apart have different positions.
LEMMA PositionsDiffer ==
  ASSUME PowerOfTwo, NEW j \in Nat, NEW k \in Nat, j < k, k - j < Chunks
  PROVE  Position(j) # Position(k)
<1>1. Position(j) = j % Chunks /\ Position(k) = k % Chunks BY PositionIsRemainder
<1>2. j % Chunks # k % Chunks BY SMTT(60) DEF PowerOfTwo
<1> QED BY <1>1, <1>2

\* Neither the operations nor what the device has executed changes.
Quiet ==
  /\ cur' = cur /\ plan' = plan /\ executed' = executed
  /\ \A t \in Side : pc'[t] = "done" <=> pc[t] = "done"

QuietProxy(s) ==
  \/ ResetReg(s) \/ PublishSlot(s) \/ OwnsSlot(s) \/ CheckPeer(s) \/ PublishOffer(s)
  \/ MoveFifo(s) \/ MoveZeroCopy(s) \/ EventDone(s) \/ EventPending(s) \/ MarkDone(s)

LEMMA QuietSteps ==
  ASSUME CallType, NEW s \in Side, QuietProxy(s)
  PROVE  Quiet
<1>1. \E p \in {"publish", "peer", "offer", "poll", "resolve", "event", "complete"} :
        pc' = [pc EXCEPT ![s] = p]
  BY DEF QuietProxy, ResetReg, PublishSlot, OwnsSlot, CheckPeer, PublishOffer, MoveFifo,
         MoveZeroCopy, EventDone, EventPending, MarkDone
<1>2. pc[s] # "done"
  BY DEF QuietProxy, ResetReg, PublishSlot, OwnsSlot, CheckPeer, PublishOffer, MoveFifo,
         MoveZeroCopy, EventDone, EventPending, MarkDone
<1>3. cur' = cur /\ plan' = plan /\ executed' = executed
  <2>1. CASE ResetReg(s) BY <2>1 DEF ResetReg, argVars, devVars
  <2>2. CASE PublishSlot(s) BY <2>2 DEF PublishSlot, argVars, devVars
  <2>3. CASE OwnsSlot(s) BY <2>3 DEF OwnsSlot, argVars, devVars
  <2>4. CASE CheckPeer(s) BY <2>4 DEF CheckPeer, argVars, devVars
  <2>5. CASE PublishOffer(s) BY <2>5 DEF PublishOffer, argVars, devVars
  <2>6. CASE MoveFifo(s) BY <2>6 DEF MoveFifo, argVars, devVars
  <2>7. CASE MoveZeroCopy(s) BY <2>7 DEF MoveZeroCopy, argVars, devVars
  <2>8. CASE EventDone(s) BY <2>8 DEF EventDone, argVars, devVars
  <2>9. CASE EventPending(s) BY <2>9 DEF EventPending, argVars, devVars
  <2>10. CASE MarkDone(s) BY <2>10 DEF MarkDone, argVars, devVars
  <2> QED BY <2>1, <2>2, <2>3, <2>4, <2>5, <2>6, <2>7, <2>8, <2>9, <2>10 DEF QuietProxy
<1>4. \A t \in Side : pc'[t] = "done" <=> pc[t] = "done" BY <1>1, <1>2 DEF CallType
<1> QED BY <1>3, <1>4 DEF Quiet

\* What holds when the device executes a copy of s.
LEMMA DeviceCopyContext ==
  ASSUME FlowInv, NEW s \in Side, DeviceCopy(s)
  PROVE  /\ cur[s] \in Op /\ Planned(s) /\ With(s)
         /\ ~Finished(Peer(s), cur[s]) /\ ~Finished(s, cur[s])
         /\ executed[s] < copied[s] /\ copied[s] <= Steps(cur[s])
         /\ plan[Peer(s)][cur[s]] \in {"pending", plan[s][cur[s]]}
<1>0. /\ CallType /\ Local(s) /\ Local(Peer(s)) /\ Joint(s) /\ Joint(Peer(s))
  BY DEF FlowInv, Inv, LocalInv
<1>1. /\ Counters(s) /\ PcShape(s) /\ DoneMeansMoved(s) /\ PlansFollowOffers(s)
      /\ PcShape(Peer(s)) /\ PlansFollowOffers(Peer(s))
  BY <1>0 DEF Local, Joint
<1>2. cur[s] \in Op /\ executed[s] < copied[s] BY DEF DeviceCopy
<1>3. Planned(s) /\ copied[s] <= Steps(cur[s]) /\ transmitted[s] < Steps(cur[s])
  BY <1>0, <1>1, <1>2, Numbers DEF Counters
<1>4. With(s) /\ ~Finished(Peer(s), cur[s]) BY <1>0, <1>3, NotLeftBehind
<1>5. ~Finished(s, cur[s]) BY <1>0, <1>1, <1>3, Numbers DEF DoneMeansMoved
<1>6. plan[Peer(s)][cur[s]] \in {"pending", plan[s][cur[s]]}
  <2>1. Claimed(s) BY <1>1, <1>3, <1>5 DEF PcShape
  <2> QED BY <1>1, <1>3, <1>4, <2>1 DEF PlansFollowOffers
<1> QED BY <1>2, <1>3, <1>4, <1>5, <1>6

LEMMA RingFrame ==
  ASSUME RingHolds, fifo' = fifo, cur' = cur, plan'["send"] = plan["send"],
         executed'["send"] = executed["send"] \/ plan["send"][cur["send"]] # "fifo",
         executed'["recv"] \in Nat, executed["recv"] \in Nat, executed["send"] \in Nat,
         executed["recv"] <= executed'["recv"]
  PROVE  RingHolds'
<1>1. SUFFICES ASSUME cur["send"] \in Op, cur["recv"] = cur["send"],
                      plan["send"][cur["send"]] = "fifo",
                      NEW k \in executed'["recv"]..executed["send"]-1
               PROVE  fifo[Position(k)] = <<cur["send"], k>>
  BY DEF RingHolds
<1>2. k \in executed["recv"]..executed["send"]-1 OBVIOUS
<1> QED BY <1>1, <1>2 DEF RingHolds

LEMMA SideNames == "send" \in Side /\ "recv" \in Side
  BY DEF Side

LEMMA RingStep ==
  ASSUME PowerOfTwo, TypeOK, FlowInv, RingHolds, [Next]_vars, CallType'
  PROVE  RingHolds'
<1> USE SideNames
<1>0. /\ CallType /\ (\A t \in Side : Local(t)) /\ (\A t \in Side : Joint(t)) /\ (\A t \in Side : Flow(t))
  BY DEF FlowInv, Inv, LocalInv
<1>1. /\ executed["send"] \in Nat /\ executed["recv"] \in Nat /\ executed'["recv"] \in Nat
      /\ executed'["send"] \in Nat
  BY <1>0 DEF CallType
<1>2. CASE UNCHANGED vars BY <1>1, <1>2, RingFrame DEF vars, devVars, argVars
<1>3. ASSUME NEW s \in Side, QuietProxy(s) \/ Complete(s) PROVE RingHolds'
  <2>1. cur' = cur /\ plan' = plan /\ executed' = executed
    <3>1. CASE QuietProxy(s) BY <1>0, <3>1, QuietSteps DEF Quiet
    <3>2. CASE Complete(s) BY <3>2 DEF Complete, argVars, devVars
    <3> QED BY <1>3, <3>1, <3>2
  <2>2. fifo' = fifo BY <1>3, ProxyKeepsBuffers DEF Proxy, QuietProxy
  <2> QED BY <1>1, <2>1, <2>2, RingFrame
<1>4. ASSUME NEW s \in Side, ResolvePlan(s) PROVE RingHolds'
  <2>1. fifo' = fifo /\ cur' = cur /\ executed' = executed BY <1>4 DEF ResolvePlan, devVars
  <2>2. CASE s = "recv"
    <3>1. plan'["send"] = plan["send"] BY <1>0, <1>4, <2>2, ResolvePlanEffect DEF Same, Peer, TypeOK
    <3> QED BY <1>1, <2>1, <3>1, RingFrame
  <2>3. CASE s = "send"
    <3>1. CASE Planned("send")
      <4>1. plan'["send"] = plan["send"] BY <1>0, <1>4, <2>3, <3>1, ResolvePlanEffect DEF TypeOK
      <4> QED BY <1>1, <2>1, <4>1, RingFrame
    <3>2. CASE ~Planned("send")
      <4>1. executed["send"] = 0 BY <1>0, <3>2, Numbers DEF Local, Counters
      <4> QED BY <1>1, <2>1, <4>1 DEF RingHolds
    <3> QED BY <3>1, <3>2
  <2> QED BY <2>2, <2>3 DEF Side
<1>5. ASSUME NEW s \in Side, AwaitCopyDone(s) PROVE RingHolds'
  <2>1. fifo' = fifo /\ cur' = cur /\ plan' = plan BY <1>5 DEF AwaitCopyDone
  <2>2. CASE s = "recv"
    <3>1. executed'["send"] = executed["send"]
      BY <1>0, <1>5, <2>2, AwaitCopyDoneEffect DEF Same, SameCounters, Peer, TypeOK
    <3>2. executed["recv"] <= executed'["recv"]
      <4>1. executed["recv"] <= copied["recv"] /\ copied["recv"] <= Steps(cur["recv"])
        BY <1>0, <1>5, <2>2, AwaitCopyDoneEffect DEF Local, Counters, TypeOK
      <4>2. executed'["recv"] = executed["recv"] \/ executed'["recv"] = Steps(cur["recv"])
        BY <1>0, <1>5, <2>2, AwaitCopyDoneEffect DEF SameCounters, TypeOK
      <4>3. cur["recv"] \in Op BY <1>5, <2>2 DEF AwaitCopyDone
      <4> QED BY <1>0, <1>1, <4>1, <4>2, <4>3, Numbers
    <3> QED BY <1>1, <2>1, <3>1, <3>2, RingFrame
  <2>3. CASE s = "send"
    <3>1. executed'["recv"] = executed["recv"] /\ plan["send"][cur["send"]] # "fifo"
      BY <1>0, <1>5, <2>3, AwaitCopyDoneEffect DEF Same, SameCounters, Peer, TypeOK
    <3> QED BY <1>1, <2>1, <3>1, RingFrame
  <2> QED BY <2>2, <2>3 DEF Side
<1>6. ASSUME NEW s \in Side, Dequeue(s) PROVE RingHolds'
  <2>1. fifo' = fifo /\ plan' = plan BY <1>6 DEF Dequeue
  <2>2. CASE s = "send"
    <3>1. executed'["send"] = 0 BY <1>0, <1>6, <2>2, DequeueEffect DEF TypeOK
    <3> QED BY <1>1, <3>1 DEF RingHolds
  <2>3. CASE s = "recv"
    <3>1. cur'["send"] = cur["send"] /\ cur'["recv"] = cur["recv"] + 1
      BY <1>0, <1>6, <2>3, DequeueEffect DEF Same, Peer, TypeOK
    <3>2. cur'["recv"] = cur'["send"] => ~Planned("send")
      <4>1. Meeting("send") BY <1>0 DEF Joint
      <4>2. cur["recv"] \in Nat /\ cur["send"] \in Nat BY <1>0, Numbers DEF TypeOK
      <4>3. Planned("send") => cur["recv"] = cur["send"] \/ cur["recv"] > cur["send"]
        BY <4>1 DEF Meeting, Peer
      <4> QED BY <3>1, <4>2, <4>3
    <3> QED BY <2>1, <3>1, <3>2 DEF RingHolds
  <2> QED BY <2>2, <2>3 DEF Side
<1>7. ASSUME NEW s \in Side, DeviceCopy(s) PROVE RingHolds'
  <2>1. cur' = cur /\ plan' = plan /\ cur[s] \in Op BY <1>7 DEF DeviceCopy, argVars
  <2>2. CASE s = "recv"
    <3>1. fifo' = fifo BY <1>7, <2>2 DEF DeviceCopy
    <3>2. executed'["send"] = executed["send"] /\ executed["recv"] <= executed'["recv"]
      <4>1. ShmType /\ CallType /\ DeviceCopy("recv") /\ Peer("recv") = "send"
        BY <1>0, <1>7, <2>2 DEF TypeOK, Peer
      <4>2. copied["recv"] \in Nat BY <4>1, Numbers
      <4>3. /\ Same("send") /\ executed["recv"] < copied["recv"]
            /\ executed'["recv"] = executed["recv"] + 1 \/ executed'["recv"] = copied["recv"]
        BY <4>1, DeviceCopyEffect
      <4> QED BY <1>1, <4>2, <4>3 DEF Same, SameCounters
    <3> QED BY <1>1, <2>1, <3>1, <3>2, RingFrame
  <2>3. CASE s = "send" /\ plan[s][cur[s]] # "fifo" BY <2>1, <2>3 DEF RingHolds
  <2>4. CASE s = "send" /\ plan[s][cur[s]] = "fifo"
    <3> DEFINE i == cur["send"]
               k == executed["send"]
    <3>1. /\ i \in Op /\ cur["recv"] = i /\ ~Finished("send", i) /\ k < copied["send"]
          /\ With("send")
      BY <1>7, <2>4, DeviceCopyContext
    <3>2. SendData(i, k) = <<i, k>> BY <3>1 DEF SendData
    <3>3. fifo' = [fifo EXCEPT ![Position(k)] = <<i, k>>]
      <4>1. ~Copier("send") BY <2>4 DEF Copier
      <4> QED BY <1>7, <2>4, <3>2, <4>1 DEF DeviceCopy
    <3>4. executed'["send"] = k + 1 /\ executed'["recv"] = executed["recv"]
      BY <1>0, <1>7, <2>4, DeviceCopyEffect DEF Same, SameCounters, Peer, TypeOK
    <3>5. copied["send"] <= transmitted["recv"] + Chunks
      <4>1. Window("send") /\ Room("send") = Chunks BY <1>0 DEF Flow, Room
      <4> QED BY <2>4, <3>1, <4>1 DEF Window
    <3>6. k - executed["recv"] < Chunks
      <4>1. transmitted["recv"] <= executed["recv"] BY <1>0 DEF Local, Counters
      <4>2. copied["send"] \in Nat /\ transmitted["recv"] \in Nat BY <1>0, Numbers
      <4>3. Chunks \in Nat BY P2pSlotAssumption
      <4> QED BY <1>1, <3>1, <3>5, <4>1, <4>2, <4>3
    <3>7. Position(k) \in 0..Chunks-1 /\ fifo \in [0..Chunks-1 -> (Op \cup {Null}) \X Nat]
      BY <1>1, PositionInRange DEF TypeOK, BufferType
    <3>8. ASSUME NEW j \in executed["recv"]..k
          PROVE  fifo'[Position(j)] = <<i, j>>
      <4>1. CASE j = k BY <3>3, <3>7, <4>1
      <4>2. CASE j # k
        <5>1. j \in Nat /\ j < k /\ k - j < Chunks BY <1>1, <3>6, <4>2, P2pSlotAssumption
        <5>2. Position(j) # Position(k) BY <1>1, <5>1, PositionsDiffer
        <5>3. Position(j) \in 0..Chunks-1 BY <5>1, PositionInRange
        <5>4. fifo[Position(j)] = <<i, j>> BY <1>1, <2>4, <3>1, <5>1 DEF RingHolds
        <5> QED BY <3>3, <3>7, <5>2, <5>3, <5>4
      <4> QED BY <4>1, <4>2
    <3> QED BY <1>1, <2>1, <3>4, <3>8 DEF RingHolds
  <2> QED BY <2>2, <2>3, <2>4 DEF Side
<1> QED BY <1>2, <1>3, <1>4, <1>5, <1>6, <1>7 DEF Next, Proxy, QuietProxy

\* No chunk arrives in a step of a proxy thread: it only tells what has arrived.
SameArrivals == \A i \in Op : \A k \in 0..Steps(i)-1 : Arrived(i, k)' <=> Arrived(i, k)

LEMMA QuietArrivals == ASSUME Quiet PROVE SameArrivals
  BY SideNames DEF Quiet, SameArrivals, Arrived, Finished

LEMMA ResolvePlanArrivals ==
  ASSUME FlowInv, PlansAgree', NEW s \in Side, ResolvePlan(s)
  PROVE  SameArrivals
<1> USE SideNames
<1>0. /\ ShmType /\ CallType /\ (\A t \in Side : Local(t)) /\ (\A t \in Side : Flow(t))
  BY DEF FlowInv, Inv, LocalInv
<1>1. cur' = cur /\ executed' = executed BY DEF ResolvePlan, devVars
<1>2. \A t \in Side : pc'[t] = "done" <=> pc[t] = "done" BY <1>0 DEF ResolvePlan, CallType
<1>3. CASE plan'["send"] = plan["send"]
  BY <1>1, <1>2, <1>3 DEF SameArrivals, Arrived, Finished
<1>4. CASE plan'["send"] # plan["send"]
  <2>1. s = "send" /\ ~Planned("send") /\ cur["send"] \in Op /\ pc["send"] = "resolve"
    BY <1>0, <1>4, ResolvePlanEffect DEF Same, Side, Peer
  <2>2. /\ \A i \in Op : i # cur["send"] => plan'["send"][i] = plan["send"][i]
        /\ plan'["recv"] = plan["recv"]
    BY <1>0, <2>1, ResolvePlanEffect DEF Same
  <2>3. executed["send"] = 0 BY <1>0, <2>1, Numbers DEF Local, Counters
  <2>4. cur["recv"] = cur["send"] /\ plan'["send"][cur["send"]] = "write" => executed["recv"] = 0
    <3>1. ASSUME cur["recv"] = cur["send"], plan'["send"][cur["send"]] = "write",
                 executed["recv"] # 0
          PROVE  FALSE
      <4>1. Counters("recv") /\ OneCopy("recv") BY <1>0 DEF Local, Flow
      <4>2. Planned("recv") BY <1>0, <2>1, <3>1, <4>1, Numbers DEF Counters
      <4>3. plan["recv"][cur["recv"]] = "write"
        BY <2>2, <3>1, <4>2 DEF PlansAgree
      <4>4. ~Copier("recv") BY <4>3 DEF Copier
      <4>5. transmitted["recv"] # 0 BY <3>1, <4>1, <4>2, <4>3, <4>4 DEF OneCopy
      <4>6. ~Finished("send", cur["recv"]) BY <1>0, <2>1, <3>1, Numbers DEF Finished
      <4>7. executed["send"] = Steps(cur["recv"])
        BY <4>1, <4>2, <4>3, <4>4, <4>5, <4>6 DEF OneCopy
      <4> QED BY <2>3, <4>2, <4>7, OpFacts
    <3> QED BY <3>1
  <2>5. ASSUME NEW i \in Op, NEW k \in 0..Steps(i)-1
        PROVE  Arrived(i, k)' <=> Arrived(i, k)
    <3>1. CASE i # cur["send"] \/ cur["recv"] # i BY <1>1, <1>2, <2>2, <3>1 DEF Arrived, Finished
    <3>2. CASE i = cur["send"] /\ cur["recv"] = i /\ plan'["send"][i] # "write"
      BY <1>1, <1>2, <2>1, <3>2 DEF Arrived, Finished
    <3>3. CASE i = cur["send"] /\ cur["recv"] = i /\ plan'["send"][i] = "write"
      <4>1. executed["recv"] = 0 /\ Steps(i) # 0 /\ ~(k < 0)
        BY <2>4, <3>3, OpFacts
      <4>2. ~(cur["send"] > i) BY <1>0, <3>3, Numbers
      <4> QED BY <1>1, <1>2, <2>1, <2>3, <3>3, <4>1, <4>2 DEF Arrived, Finished
    <3> QED BY <3>1, <3>2, <3>3
  <2> QED BY <2>5 DEF SameArrivals
<1> QED BY <1>3, <1>4

LEMMA AwaitCopyDoneArrivals ==
  ASSUME FlowInv, PlansAgree, NEW s \in Side, AwaitCopyDone(s)
  PROVE  SameArrivals
<1> USE SideNames
<1>0. /\ ShmType /\ CallType /\ (\A t \in Side : Local(t)) /\ (\A t \in Side : Flow(t))
      /\ (\A t \in Side : Joint(t))
  BY DEF FlowInv, Inv, LocalInv
<1>1. cur' = cur /\ plan' = plan BY DEF AwaitCopyDone
<1>2. \A t \in Side : pc'[t] = "done" <=> pc[t] = "done" BY <1>0 DEF AwaitCopyDone, CallType
<1>3. CASE s = "send"
  <2>1. plan["send"][cur["send"]] # "write" BY <1>0, <1>3, AwaitCopyDoneEffect DEF Copier
  <2>2. executed'["recv"] = executed["recv"]
    BY <1>0, <1>3, AwaitCopyDoneEffect DEF Same, SameCounters
  <2> QED BY <1>1, <1>2, <2>1, <2>2 DEF SameArrivals, Arrived, Finished
<1>4. CASE s = "recv"
  <2>1. executed'["send"] = executed["send"]
    BY <1>0, <1>4, AwaitCopyDoneEffect DEF Same, SameCounters
  <2>2. CASE executed'["recv"] = executed["recv"]
    BY <1>1, <1>2, <2>1, <2>2 DEF SameArrivals, Arrived, Finished
  <2>3. CASE executed'["recv"] # executed["recv"]
    <3>1. /\ cur["recv"] \in Op /\ plan["recv"][cur["recv"]] = "write"
          /\ pc["recv"] = "move"
      BY <1>0, <1>4, AwaitCopyDoneEffect DEF Copier
    <3>2. plan["send"][cur["recv"]] = "write"
      <4>1. transmitted["recv"] < Steps(cur["recv"]) /\ PeerReg("recv").copyDone
        BY <1>0, <1>4, <2>3, AwaitCopyDoneEffect DEF SameCounters
      <4>2. Planned("recv") /\ With("recv")
        BY <1>0, <3>1, <4>1, NotLeftBehind
      <4>3. OwnReg("send").copyDone BY <4>1, <4>2 DEF PeerReg, OwnReg, Peer
      <4>4. Copier("send") BY <1>0, <4>2, <4>3 DEF Flow, CopyDoneIsTrue
      <4> QED BY <4>2, <4>4 DEF Copier
    <3>3. \A i \in Op : i = cur["recv"] => plan["send"][i] = "write" BY <3>2
    <3> QED BY <1>1, <1>2, <2>1, <3>3 DEF SameArrivals, Arrived, Finished
  <2> QED BY <2>2, <2>3
<1> QED BY <1>3, <1>4 DEF Side

LEMMA CompleteArrivals ==
  ASSUME FlowInv, PlansAgree, NEW s \in Side, Complete(s)
  PROVE  SameArrivals
<1> USE SideNames
<1>0. /\ ShmType /\ CallType /\ (\A t \in Side : Local(t)) /\ (\A t \in Side : Flow(t))
  BY DEF FlowInv, Inv, LocalInv
<1>1. cur' = cur /\ plan' = plan /\ executed' = executed BY DEF Complete, argVars, devVars
<1>2. CASE pc'["recv"] = "done" <=> pc["recv"] = "done"
  BY <1>1, <1>2 DEF SameArrivals, Arrived, Finished
<1>3. CASE ~(pc'["recv"] = "done" <=> pc["recv"] = "done")
  <2> DEFINE i == cur["recv"]
  <2>1. /\ s = "recv" /\ i \in Op /\ pc["recv"] = "complete" /\ pc'["recv"] = "done"
        /\ Own("recv").done
    BY <1>0, <1>3, CompleteEffect DEF Same, Side
  <2>2. /\ PcShape("recv") /\ DoneMeansMoved("recv") /\ Counters("recv") /\ OneCopy("recv")
        /\ DoneMeansMoved("send") /\ Counters("send")
    BY <1>0 DEF Local, Flow
  <2>3. Claimed("recv") /\ Planned("recv") BY <2>1, <2>2 DEF PcShape
  <2>4. executed["recv"] = Steps(i) /\ transmitted["recv"] = Steps(i)
    BY <1>0, <2>1, <2>2, <2>3, Numbers DEF DoneMeansMoved, Counters
  <2>5. plan["send"][i] = "write" => cur["send"] > i \/ (cur["send"] = i /\ executed["send"] = Steps(i))
    <3>1. SUFFICES ASSUME plan["send"][i] = "write"
                   PROVE  cur["send"] > i \/ (cur["send"] = i /\ executed["send"] = Steps(i))
      OBVIOUS
    <3>2. plan["recv"][i] = "write" BY <2>1, <2>3, <3>1 DEF PlansAgree
    <3>3. ~Copier("recv") /\ transmitted["recv"] # 0 BY <2>1, <2>4, <3>2, OpFacts DEF Copier
    <3>4. Finished("send", i) \/ (cur["send"] = i /\ executed["send"] = Steps(i))
      BY <2>1, <2>2, <3>2, <3>3 DEF OneCopy
    <3>5. pc["send"] = "done" /\ cur["send"] = i => executed["send"] = Steps(i)
      BY <1>0, <2>1, <2>2, Numbers DEF DoneMeansMoved, Counters
    <3> QED BY <3>4, <3>5 DEF Finished
  <2>6. \A k \in 0..Steps(i)-1 : Arrived(i, k)
    <3>1. \A k \in 0..Steps(i)-1 : k < Steps(i) BY <2>1, OpFacts
    <3> QED BY <2>4, <2>5, <3>1 DEF Arrived
  <2>7. \A k \in 0..Steps(i)-1 : Arrived(i, k)' BY <1>1, <2>1 DEF Arrived, Finished
  <2>8. \A j \in Op : j # i => \A k \in 0..Steps(j)-1 : Arrived(j, k)' <=> Arrived(j, k)
    BY <1>1 DEF Arrived, Finished
  <2>9. ASSUME NEW j \in Op, NEW k \in 0..Steps(j)-1
        PROVE  Arrived(j, k)' <=> Arrived(j, k)
    <3>1. CASE j = i
      <4>1. k \in 0..Steps(i)-1 BY <3>1
      <4>2. Arrived(i, k) /\ Arrived(i, k)' BY <2>6, <2>7, <4>1
      <4> QED BY <1>1, <2>1, <3>1, <4>2 DEF Arrived, Finished
    <3>2. CASE j # i BY <2>8, <3>2
    <3> QED BY <3>1, <3>2
  <2> QED BY <2>9 DEF SameArrivals
<1> QED BY <1>2, <1>3

LEMMA DequeueArrivals ==
  ASSUME FlowInv, NEW s \in Side, Dequeue(s)
  PROVE  SameArrivals
<1> USE SideNames
<1>0. /\ ShmType /\ CallType /\ (\A t \in Side : Local(t)) /\ (\A t \in Side : Joint(t))
  BY DEF FlowInv, Inv, LocalInv
<1>1. plan' = plan BY DEF Dequeue
<1>2. /\ cur["send"] \in Nat /\ cur["recv"] \in Nat /\ Op \subseteq Nat
      /\ \A i \in Op : Steps(i) \in Nat \ {0}
  BY <1>0, Numbers, OpFacts
<1>3. CASE s = "send"
  <2>1. /\ cur'["recv"] = cur["recv"] /\ executed'["recv"] = executed["recv"]
        /\ pc'["recv"] = pc["recv"]
        /\ cur'["send"] = cur["send"] + 1 /\ executed'["send"] = 0
        /\ cur["send"] \in Op /\ pc["send"] = "done"
    BY <1>0, <1>3, DequeueEffect DEF Same, SameCounters
  <2>2. executed["send"] = Steps(cur["send"])
    BY <1>0, <2>1, Numbers DEF Local, DoneMeansMoved, Counters
  <2> QED BY <1>1, <1>2, <2>1, <2>2 DEF SameArrivals, Arrived, Finished
<1>4. CASE s = "recv"
  <2>1. /\ cur'["send"] = cur["send"] /\ executed'["send"] = executed["send"]
        /\ cur'["recv"] = cur["recv"] + 1 /\ executed'["recv"] = 0
        /\ cur["recv"] \in Op /\ pc["recv"] = "done" /\ pc'["recv"] = "poll"
    BY <1>0, <1>4, DequeueEffect DEF Same, SameCounters
  <2>2. ASSUME cur["recv"] + 1 \in Op PROVE plan["send"][cur["recv"] + 1] = "pending"
    <3>1. Meeting("send") /\ NotYet("send") BY <1>0 DEF Joint, Local
    <3>2. cur["send"] <= cur["recv"] + 1 BY <1>0, Apart DEF Joint
    <3>3. CASE cur["send"] = cur["recv"] + 1
      BY <1>2, <2>2, <3>1, <3>3 DEF Meeting
    <3>4. CASE cur["send"] < cur["recv"] + 1 BY <2>2, <3>1, <3>4 DEF NotYet
    <3> QED BY <1>2, <3>2, <3>3, <3>4
  <2>3. ASSUME NEW i \in Op, NEW k \in 0..Steps(i)-1
        PROVE  Arrived(i, k)' <=> Arrived(i, k)
    <3>1. CASE i = cur["recv"] BY <1>2, <2>1, <3>1 DEF Arrived, Finished
    <3>2. CASE i = cur["recv"] + 1
      <4>1. plan'["send"][i] = "pending" /\ ~(k < 0) BY <1>1, <1>2, <2>2, <3>2
      <4> QED BY <1>2, <2>1, <3>2, <4>1 DEF Arrived, Finished
    <3>3. CASE i # cur["recv"] /\ i # cur["recv"] + 1 BY <1>2, <2>1, <3>3 DEF Arrived, Finished
    <3> QED BY <3>1, <3>2, <3>3
  <2> QED BY <2>3 DEF SameArrivals
<1> QED BY <1>3, <1>4 DEF Side

\* A copy that fills chunks of a receive buffer fills the chunks K of the buffer
\* of the receiver's head operation, which had not arrived, with their content.
Filled(i, K) == [data EXCEPT ![i] = [k \in DOMAIN data[i] |-> IF k \in K THEN <<i, k>> ELSE data[i][k]]]

Fills(i, K) ==
  /\ K # {} /\ cur["recv"] = i /\ ~Finished("recv", i)
  /\ \A k \in K : ~Arrived(i, k)
  /\ data' = Filled(i, K)
  /\ \A j \in Op : \A k \in 0..Steps(j)-1 :
       Arrived(j, k)' <=> Arrived(j, k) \/ (j = i /\ k \in K)

LEMMA DeviceCopyFills ==
  ASSUME TypeOK, FlowInv, RingHolds, NEW s \in Side, DeviceCopy(s)
  PROVE  \/ data' = data /\ SameArrivals
         \/ \E K \in SUBSET (0..Steps(cur[s])-1) : Fills(cur[s], K)
<1> USE SideNames
<1>0. /\ ShmType /\ CallType /\ (\A t \in Side : Local(t)) /\ (\A t \in Side : Flow(t))
  BY DEF FlowInv, Inv, LocalInv
<1> DEFINE i == cur[s]
<1>1. /\ i \in Op /\ Planned(s) /\ With(s) /\ cur[Peer(s)] = i
      /\ ~Finished(Peer(s), i) /\ ~Finished(s, i)
      /\ executed[s] < copied[s] /\ copied[s] <= Steps(i)
      /\ plan[Peer(s)][i] \in {"pending", plan[s][i]}
  BY DeviceCopyContext
<1>2. cur' = cur /\ plan' = plan /\ pc' = pc BY DEF DeviceCopy, argVars
<1>3. /\ executed[s] \in Nat /\ copied[s] \in Nat /\ Steps(i) \in Nat \ {0} /\ i \in Nat
      /\ executed'[Peer(s)] = executed[Peer(s)]
      /\ plan[s][i] = "fifo" => executed'[s] = executed[s] + 1
      /\ plan[s][i] # "fifo" => executed'[s] = copied[s]
  BY <1>0, <1>1, Numbers, DeviceCopyEffect DEF Same, SameCounters
<1>4. CASE s = "send" /\ plan[s][i] = "fifo"
  <2>1. data' = data
    <3>1. ~Copier(s) BY <1>4 DEF Copier
    <3> QED BY <1>4, <3>1 DEF DeviceCopy
  <2>2. SameArrivals BY <1>2, <1>3, <1>4 DEF SameArrivals, Arrived, Finished
  <2> QED BY <2>1, <2>2
<1>5. CASE s = "recv" /\ plan[s][i] = "fifo"
  <2> DEFINE k == executed["recv"]
  <2>1. plan["send"][i] = "fifo" /\ k < executed["send"]
    <3>1. Window("recv") /\ Counters("send") /\ Room("recv") = 0 BY <1>0 DEF Local, Flow, Room
    <3>2. copied["recv"] <= transmitted["send"] + 0 BY <1>1, <1>5, <3>1 DEF Window
    <3>3. k < executed["send"] BY <1>0, <1>1, <1>5, <3>1, <3>2, Numbers DEF Counters
    <3>4. Planned("send") BY <1>0, <1>3, <1>5, <3>1, <3>3, Numbers DEF Counters
    <3> QED BY <1>1, <1>5, <3>3, <3>4
  <2>2. fifo[Position(k)] = <<i, k>>
    <3>1. k \in k..executed["send"]-1 BY <1>0, <1>3, <1>5, <2>1, Numbers
    <3> QED BY <1>1, <1>5, <2>1, <3>1 DEF RingHolds
  <2>3. data' = [data EXCEPT ![i][k] = <<i, k>>]
    <3>1. ~Copier(s) BY <1>5 DEF Copier
    <3> QED BY <1>5, <2>2, <3>1 DEF DeviceCopy
  <2>4. k \in 0..Steps(i)-1 BY <1>1, <1>3, <1>5
  <2>5. data' = Filled(i, {k})
    <3>1. DOMAIN data = Op /\ DOMAIN data[i] = 0..Steps(i)-1 BY <1>1 DEF TypeOK, BufferType
    <3>2. [data[i] EXCEPT ![k] = <<i, k>>] =
            [c \in DOMAIN data[i] |-> IF c \in {k} THEN <<i, c>> ELSE data[i][c]]
      BY <2>4, <3>1
    <3> QED BY <1>1, <2>3, <3>1, <3>2 DEF Filled
  <2>6. Fills(i, {k})
    <3>1. ~Arrived(i, k) BY <1>1, <1>3, <1>5, <2>1 DEF Arrived
    <3>2. ASSUME NEW j \in Op, NEW c \in 0..Steps(j)-1
          PROVE  Arrived(j, c)' <=> Arrived(j, c) \/ (j = i /\ c \in {k})
      <4>1. c \in Nat BY OpFacts
      <4>2. CASE j = i
        BY <1>1, <1>2, <1>3, <1>5, <2>1, <4>1, <4>2 DEF Arrived, Finished
      <4>3. CASE j # i BY <1>2, <1>5, <4>3 DEF Arrived, Finished
      <4> QED BY <4>2, <4>3
    <3> QED BY <1>1, <1>5, <2>5, <3>1, <3>2 DEF Fills
  <2> QED BY <1>5, <2>4, <2>6
<1>6. CASE Copier(s)
  <2> DEFINE K == 0..Steps(i)-1
  <2>1. executed[s] = 0 /\ executed'[s] = Steps(i) /\ rmtAddr[s] = i /\ plan[s][i] # "fifo"
    <3>1. OneCopy(s) /\ plan[s][i] \in {"write", "read"} /\ plan[s][i] # "fifo"
      BY <1>0, <1>6 DEF Flow, Copier
    <3> QED BY <1>1, <1>3, <1>6, <3>1 DEF OneCopy
  <2>2. ~Finished("send", i) /\ ~Finished("recv", i) /\ cur["send"] = i /\ cur["recv"] = i
    BY <1>1 DEF Side, Peer
  <2>3. \A c : SendData(i, c) = <<i, c>> BY <1>1, <2>2 DEF SendData
  <2>4. DOMAIN data = Op /\ DOMAIN data[i] = K BY <1>1 DEF TypeOK, BufferType
  <2>5. data' = Filled(i, K)
    <3>1. CASE s = "send"
      <4>1. data' = [j \in Op |-> IF j = i THEN [c \in DOMAIN data[j] |-> <<i, c>>] ELSE data[j]]
        BY <1>6, <2>1, <2>3, <3>1 DEF DeviceCopy
      <4> QED BY <1>1, <2>4, <4>1 DEF Filled
    <3>2. CASE s = "recv"
      <4>1. data' = [data EXCEPT ![i] = [c \in DOMAIN data[i] |-> <<i, c>>]]
        BY <1>6, <2>1, <2>3, <3>2 DEF DeviceCopy
      <4> QED BY <1>1, <2>4, <4>1 DEF Filled
    <3> QED BY <3>1, <3>2 DEF Side
  <2>6. Fills(i, K)
    <3>1. K # {}
      <4>1. 0 \in K BY <1>3
      <4> QED BY <4>1
    <3>2. plan["send"][i] = "write" => s = "send"
      BY <1>1, <1>6 DEF Copier, Side, Peer
    <3>3. plan["send"][i] # "write" => s = "recv" BY <1>6 DEF Copier, Side
    <3>4. \A c \in K : ~Arrived(i, c) BY <1>3, <2>1, <2>2, <3>2, <3>3 DEF Arrived
    <3>5. \A c \in K : Arrived(i, c)'
      BY <1>1, <1>2, <1>3, <2>1, <2>2, <3>2, <3>3 DEF Arrived
    <3>6. ASSUME NEW j \in Op, NEW c \in 0..Steps(j)-1
          PROVE  Arrived(j, c)' <=> Arrived(j, c) \/ (j = i /\ c \in K)
      <4>1. CASE j = i BY <1>2, <3>5, <4>1 DEF Arrived, Finished
      <4>2. CASE j # i BY <1>2, <2>2, <4>2 DEF Arrived, Finished
      <4> QED BY <4>1, <4>2
    <3> QED BY <2>2, <2>5, <3>1, <3>4, <3>6 DEF Fills
  <2> QED BY <2>6
<1> QED BY <1>0, <1>4, <1>5, <1>6, DeviceCopyEffect DEF Side

LEMMA DataFrame ==
  ASSUME DataIs, data' = data, SameArrivals
  PROVE  DataIs'
  BY DEF DataIs, SameArrivals

LEMMA DataFills ==
  ASSUME DataIs, NEW i \in Op, NEW K \in SUBSET (0..Steps(i)-1), Fills(i, K)
  PROVE  DataIs'
<1> DEFINE A(j, k) == Arrived(j, k)
           B(j, k) == Arrived(j, k)'
           D == [j \in Op |-> [k \in 0..Steps(j)-1 |-> IF B(j, k) THEN <<j, k>> ELSE Empty]]
<1>1. data = [j \in Op |-> [k \in 0..Steps(j)-1 |-> IF A(j, k) THEN <<j, k>> ELSE Empty]]
  BY DEF DataIs
<1>2. \A j \in Op : \A k \in 0..Steps(j)-1 : B(j, k) <=> A(j, k) \/ (j = i /\ k \in K)
  BY DEF Fills
<1>3. data' = Filled(i, K) BY DEF Fills
<1> HIDE DEF A, B
<1>4. DOMAIN data = Op /\ \A j \in Op : DOMAIN data[j] = 0..Steps(j)-1 BY <1>1
<1>5. DOMAIN Filled(i, K) = Op BY <1>4 DEF Filled
<1>6. ASSUME NEW j \in Op PROVE Filled(i, K)[j] = D[j]
  <2>1. CASE j # i
    <3>1. Filled(i, K)[j] = data[j] BY <1>4, <2>1 DEF Filled
    <3>2. \A k \in 0..Steps(j)-1 : B(j, k) <=> A(j, k) BY <1>2, <2>1
    <3>3. data[j] = [k \in 0..Steps(j)-1 |-> IF A(j, k) THEN <<j, k>> ELSE Empty] BY <1>1
    <3> QED BY <3>1, <3>2, <3>3
  <2>2. CASE j = i
    <3>1. Filled(i, K)[i] = [k \in 0..Steps(i)-1 |-> IF k \in K THEN <<i, k>> ELSE data[i][k]]
      BY <1>4 DEF Filled
    <3>2. \A k \in 0..Steps(i)-1 : data[i][k] = IF A(i, k) THEN <<i, k>> ELSE Empty BY <1>1
    <3>3. \A k \in 0..Steps(i)-1 : B(i, k) <=> A(i, k) \/ k \in K BY <1>2
    <3>4. D[i] = [k \in 0..Steps(i)-1 |-> IF B(i, k) THEN <<i, k>> ELSE Empty] OBVIOUS
    <3> HIDE DEF D
    <3>5. Filled(i, K)[i] = D[i] BY <3>1, <3>2, <3>3, <3>4
    <3> QED BY <2>2, <3>5
  <2> QED BY <2>1, <2>2
<1>7. data' = D
  <2>1. DOMAIN D = Op OBVIOUS
  <2>2. Filled(i, K) = [j \in Op |-> Filled(i, K)[j]] BY <1>5 DEF Filled
  <2> QED BY <1>3, <1>6, <2>2
<1> QED BY <1>7 DEF DataIs, B

\* What a step may do to the receive buffers.
LEMMA StepFills ==
  ASSUME TypeOK, FlowInv, RingHolds, PlansAgree, PlansAgree', [Next]_vars
  PROVE  \/ data' = data /\ SameArrivals
         \/ \E s \in Side : DeviceCopy(s) /\ cur[s] \in Op
                            /\ \E K \in SUBSET (0..Steps(cur[s])-1) : Fills(cur[s], K)
<1>1. CASE UNCHANGED vars
  BY <1>1 DEF vars, devVars, argVars, SameArrivals, Arrived, Finished
<1>2. ASSUME NEW s \in Side, Proxy(s) PROVE data' = data /\ SameArrivals
  <2>1. CallType BY DEF TypeOK
  <2>2. SameArrivals
    BY <1>2, <2>1, QuietSteps, QuietArrivals, ResolvePlanArrivals, AwaitCopyDoneArrivals,
       CompleteArrivals, DequeueArrivals DEF Proxy, QuietProxy
  <2> QED BY <1>2, <2>2, ProxyKeepsBuffers
<1>3. ASSUME NEW s \in Side, DeviceCopy(s)
      PROVE  \/ data' = data /\ SameArrivals
             \/ \E K \in SUBSET (0..Steps(cur[s])-1) : Fills(cur[s], K)
  BY <1>3, DeviceCopyFills
<1>4. ASSUME NEW s \in Side, DeviceCopy(s) PROVE cur[s] \in Op
  BY <1>4 DEF DeviceCopy
<1> QED BY <1>1, <1>2, <1>3, <1>4 DEF Next

LEMMA BuffersInit == ASSUME Init PROVE RingHolds /\ DataIs
<1> USE SideNames
<1>1. /\ executed["send"] = 0 /\ executed["recv"] = 0 /\ cur["send"] = 1 /\ cur["recv"] = 1
      /\ pc["recv"] = "poll" /\ (\A i \in Op : plan["send"][i] = "pending")
  BY DEF Init
<1>2. RingHolds BY <1>1 DEF RingHolds
<1>3. \A i \in Op : \A k \in 0..Steps(i)-1 : ~Arrived(i, k)
  BY <1>1, OpFacts DEF Arrived, Finished
<1>4. data = [i \in Op |-> [k \in 0..Steps(i)-1 |-> Empty]] BY DEF Init
<1> QED BY <1>2, <1>3, <1>4 DEF DataIs

\* The inductive invariant: with distinct hashes and a ring of a power of two,
\* the ring holds what was put in and not yet taken out, and every receive
\* buffer holds exactly the chunks that have arrived.
THEOREM BuffersAreRight == HashesDiffer /\ PowerOfTwo /\ Spec => []IInv
<1>1. Init => RingHolds /\ DataIs BY BuffersInit
<1>2. /\ PowerOfTwo /\ TypeOK /\ TypeOK' /\ FlowInv /\ PlansAgree /\ PlansAgree'
      /\ RingHolds /\ DataIs /\ [Next]_vars
      => RingHolds' /\ DataIs'
  <2> SUFFICES ASSUME PowerOfTwo, TypeOK, TypeOK', FlowInv, PlansAgree, PlansAgree',
                      RingHolds, DataIs, [Next]_vars
               PROVE  RingHolds' /\ DataIs'
    OBVIOUS
  <2>1. RingHolds' BY RingStep DEF TypeOK
  <2>2. DataIs' BY StepFills, DataFrame, DataFills
  <2> QED BY <2>1, <2>2
<1>3. PowerOfTwo => []PowerOfTwo
  <2>1. PowerOfTwo => PowerOfTwo' BY DEF PowerOfTwo
  <2> QED BY <2>1, PTL
<1>4. FlowInv /\ RingHolds /\ DataIs => IInv BY DEF IInv
<1> QED BY <1>1, <1>2, <1>3, <1>4, TypeCorrect, FlowInvariant, PlansAgreeAlways, PTL DEF Spec

-----------------------------------------------------------------------------
(* The same-node transport implements Transfer *)

\* The operations a side has finished, as a function for the mapping.
OverOf == [s \in Side |-> Over(s)]

LEMMA OverStep ==
  ASSUME CallType, [Next]_vars
  PROVE  \/ OverOf' = OverOf
         \/ \E s \in Side : /\ Complete(s) /\ cur[s] \in Op /\ pc[s] = "complete"
                            /\ cur'[s] = cur[s] /\ pc'[s] = "done"
                            /\ OverOf' = [OverOf EXCEPT ![s] = cur[s]]
<1>0. /\ cur \in [Side -> 1..N+1] /\ DOMAIN pc = Side /\ N \in Nat /\ Op = 1..N
  BY OpFacts DEF CallType
<1>1. CASE cur' = cur /\ (\A t \in Side : pc'[t] = "done" <=> pc[t] = "done")
  BY <1>1 DEF OverOf, Over
<1>2. CASE UNCHANGED vars BY <1>1, <1>2 DEF vars
<1>3. ASSUME NEW s \in Side, QuietProxy(s) PROVE OverOf' = OverOf
  BY <1>1, <1>3, QuietSteps DEF Quiet
<1>4. ASSUME NEW s \in Side, ResolvePlan(s) \/ AwaitCopyDone(s) \/ DeviceCopy(s)
      PROVE  OverOf' = OverOf
  <2>1. cur' = cur BY <1>4 DEF ResolvePlan, AwaitCopyDone, DeviceCopy
  <2>2. \/ pc' = pc
        \/ pc[s] # "done" /\ \E p \in {"move", "poll"} : pc' = [pc EXCEPT ![s] = p]
    BY <1>4 DEF ResolvePlan, AwaitCopyDone, DeviceCopy
  <2>3. \A t \in Side : pc'[t] = "done" <=> pc[t] = "done" BY <1>0, <2>2
  <2> QED BY <1>1, <2>1, <2>3
<1>5. ASSUME NEW s \in Side, Dequeue(s) PROVE OverOf' = OverOf
  <2>1. /\ pc[s] = "done" /\ cur' = [cur EXCEPT ![s] = @ + 1] /\ pc' = [pc EXCEPT ![s] = "poll"]
    BY <1>5 DEF Dequeue
  <2>2. \A t \in Side : Over(t)' = Over(t) BY <1>0, <2>1 DEF Over
  <2> QED BY <2>2 DEF OverOf
<1>6. ASSUME NEW s \in Side, Complete(s)
      PROVE  \/ OverOf' = OverOf
             \/ /\ cur[s] \in Op /\ pc[s] = "complete" /\ cur'[s] = cur[s] /\ pc'[s] = "done"
                /\ OverOf' = [OverOf EXCEPT ![s] = cur[s]]
  <2>1. /\ cur' = cur /\ pc[s] = "complete" /\ cur[s] \in Op
        /\ pc' = [pc EXCEPT ![s] = "done"] \/ pc' = [pc EXCEPT ![s] = "poll"]
    BY <1>6 DEF Complete
  <2>2. CASE pc' = [pc EXCEPT ![s] = "poll"]
    <3>1. \A t \in Side : pc'[t] = "done" <=> pc[t] = "done" BY <1>0, <2>1, <2>2
    <3> QED BY <1>1, <2>1, <3>1
  <2>3. CASE pc' = [pc EXCEPT ![s] = "done"]
    <3>1. \A t \in Side : t # s => Over(t)' = Over(t) BY <1>0, <2>1, <2>3 DEF Over
    <3>2. Over(s)' = cur[s] /\ pc'[s] = "done" BY <1>0, <2>1, <2>3 DEF Over
    <3>3. OverOf' = [t \in Side |-> Over(t)'] BY DEF OverOf
    <3>4. \A t \in Side : OverOf'[t] = [OverOf EXCEPT ![s] = cur[s]][t]
      BY <3>1, <3>2, <3>3 DEF OverOf
    <3>5. OverOf' = [OverOf EXCEPT ![s] = cur[s]] BY <3>3, <3>4 DEF OverOf
    <3> QED BY <2>1, <3>2, <3>5
  <2> QED BY <2>1, <2>2, <2>3
<1> QED BY <1>2, <1>3, <1>4, <1>5, <1>6 DEF Next, Proxy, QuietProxy

LEMMA MappingFacts ==
  /\ T!Op = Op /\ T!Empty = Empty
  /\ \A i \in Op : [j \in Op |-> Steps(j)][i] = Steps(i)
  BY DEF T!Op, T!Empty, Empty, Null

LEMMA TransferInit == ASSUME Init PROVE T!Init
<1>1. data = [i \in T!Op |-> [k \in 0..[j \in Op |-> Steps(j)][i]-1 |-> T!Empty]]
  BY MappingFacts DEF Init
<1>2. \A s \in Side : Over(s) = 0 BY DEF Init, Over
<1> QED BY <1>1, <1>2 DEF T!Init, Side

LEMMA DeliverStep ==
  ASSUME CallType, TypeOK, DataIs, OverOf' = OverOf, NEW i \in Op,
         NEW K \in SUBSET (0..Steps(i)-1), Fills(i, K)
  PROVE  T!Deliver
<1>1. Over("recv") = i - 1
  BY SideNames, Numbers DEF Fills, Over, Finished
<1>2. DOMAIN data[i] = 0..Steps(i)-1 BY DEF TypeOK, BufferType
<1>3. \A k \in K : data[i][k] = Empty BY DEF DataIs, Fills
<1>4. K \in SUBSET {k \in DOMAIN data[i] : data[i][k] = T!Empty} BY <1>2, <1>3, MappingFacts
<1>5. i = OverOf["recv"] + 1 BY <1>1, SideNames, OpFacts DEF OverOf
<1>6. data' = [data EXCEPT ![i] = [k \in DOMAIN data[i] |-> IF k \in K THEN <<i, k>> ELSE data[i][k]]]
  BY DEF Fills, Filled
<1>7. K # {} BY DEF Fills
<1> QED BY <1>4, <1>5, <1>6, <1>7, MappingFacts DEF T!Deliver, OverOf

LEMMA EndStep ==
  ASSUME CallType, TypeOK, DataIs', data' = data, NEW s \in Side, cur[s] \in Op,
         pc[s] = "complete", cur'[s] = cur[s], pc'[s] = "done",
         OverOf' = [OverOf EXCEPT ![s] = cur[s]]
  PROVE  T!EndRecv \/ T!EndSend
<1> DEFINE i == cur[s]
<1>1. i = OverOf[s] + 1 BY Numbers DEF OverOf, Over
<1>2. CASE s = "send" BY <1>1, <1>2, MappingFacts DEF T!EndSend, OverOf
<1>3. CASE s = "recv"
  <2>1. Finished("recv", i)' BY <1>3 DEF Finished
  <2>2. \A k \in 0..Steps(i)-1 : Arrived(i, k)' BY <2>1 DEF Arrived
  <2>3. \A k \in 0..Steps(i)-1 : data'[i][k] = <<i, k>> BY <2>2 DEF DataIs
  <2>4. DOMAIN data[i] = 0..Steps(i)-1 BY DEF TypeOK, BufferType
  <2>5. \A k \in DOMAIN data[i] : data[i][k] = <<i, k>> BY <2>3, <2>4
  <2> QED BY <1>1, <1>3, <2>5, MappingFacts DEF T!EndRecv, OverOf
<1> QED BY <1>2, <1>3 DEF Side

\* The detailed transport implements the abstract one: a receive is over only
\* with the chunks of its own send, and each chunk is written once.
THEOREM SameNodeTransport == HashesDiffer /\ PowerOfTwo /\ Spec => ImplementsTransfer
<1>1. Init => T!Init BY TransferInit
<1>2. /\ TypeOK /\ IInv /\ IInv' /\ PlansAgree /\ PlansAgree' /\ [Next]_vars
      => [T!Next]_(T!vars)
  <2> SUFFICES ASSUME TypeOK, IInv, IInv', PlansAgree, PlansAgree', [Next]_vars
               PROVE  [T!Next]_(T!vars)
    OBVIOUS
  <2>0. CallType /\ FlowInv /\ RingHolds /\ DataIs /\ DataIs' BY DEF TypeOK, IInv
  <2>1. CASE data' = data /\ OverOf' = OverOf BY <2>1 DEF T!vars, OverOf
  <2>2. CASE data' = data /\ OverOf' # OverOf
    <3>1. T!EndRecv \/ T!EndSend BY <2>0, <2>2, OverStep, EndStep
    <3> QED BY <3>1 DEF T!Next
  <2>3. CASE data' # data
    <3>1. PICK s \in Side : /\ DeviceCopy(s) /\ cur[s] \in Op
                            /\ \E K \in SUBSET (0..Steps(cur[s])-1) : Fills(cur[s], K)
      BY <2>0, <2>3, StepFills
    <3>2. OverOf' = OverOf
      <4>1. cur' = cur /\ pc' = pc BY <3>1 DEF DeviceCopy
      <4> QED BY <4>1 DEF OverOf, Over
    <3>3. T!Deliver BY <2>0, <3>1, <3>2, DeliverStep
    <3> QED BY <3>3 DEF T!Next
  <2> QED BY <2>1, <2>2, <2>3
<1> QED BY <1>1, <1>2, TypeCorrect, BuffersAreRight, PlansAgreeAlways, PTL
     DEF Spec, ImplementsTransfer, T!Spec

-----------------------------------------------------------------------------
(* The teardown *)

\* What has to be known besides the property: a rank with running workers has
\* cleaned nothing up, and an acknowledged import is not used any more.
RetiredFirst ==
  /\ \A r \in Rank : workers[r] => phase[r] \in {"running", "ended"}
  /\ \A c \in Conn : workers[Sender(c)] =>
       c \notin closed /\ (c \in linked => c \in mapped)
  /\ \A c \in Conn : workers[Receiver(c)] => (c \in linked => c \in backing)

RunningHasWorkers == \A r \in Rank : phase[r] = "running" => workers[r]

ClosedIsUnused == \A c \in closed : c \notin mapped /\ c \notin writing

TeardownIInv ==
  TeardownTypeOK /\ RunningHasWorkers /\ RetiredFirst /\ ClosedIsUnused /\ NoUseAfterFree

\* The ends of a connection are ranks, and the connection is in both pools.
LEMMA ConnEnds ==
  ASSUME NEW c \in Conn
  PROVE  /\ Sender(c) \in Rank
         /\ Receiver(c) \in Rank
         /\ Sender(c) # Receiver(c)
         /\ c \in Pool(Sender(c))
         /\ c \in Pool(Receiver(c))
         /\ c # NoConn
  BY P2pTeardownAssumption DEF Sender, Receiver, Pool

-----------------------------------------------------------------------------
(* Type correctness *)

LEMMA TypeStep ==
  ASSUME TeardownTypeOK, [TeardownNext]_teardownVars
  PROVE  TeardownTypeOK'
<1> USE P2pTeardownAssumption
<1>1. ASSUME NEW r \in Rank, RetireWorkers(r) PROVE TeardownTypeOK'
  BY <1>1 DEF TeardownTypeOK, RetireWorkers, MayFree, PassOver, Pool, memVars, setupVars, deviceVars
<1>2. ASSUME NEW r \in Rank, NextVisit(r) PROVE TeardownTypeOK'
  BY <1>2 DEF TeardownTypeOK, NextVisit, Pool, memVars, setupVars, deviceVars
<1>3. ASSUME NEW r \in Rank, NextPass(r) PROVE TeardownTypeOK'
  BY <1>3 DEF TeardownTypeOK, NextPass, PassOver, Pool, memVars, setupVars, deviceVars
<1>4. ASSUME NEW r \in Rank, NEW c \in Conn, Visit(r, c) PROVE TeardownTypeOK'
  <2>1. CASE Skip(r, c)
    BY <2>1 DEF TeardownTypeOK, Skip, Leave, memVars, setupVars, deviceVars
  <2>2. CASE CloseImport(r, c)
    BY <2>2 DEF TeardownTypeOK, CloseImport, serviceVars, setupVars, deviceVars
  <2>3. CASE Acknowledge(r, c)
    BY <2>3 DEF TeardownTypeOK, Acknowledge, Leave, setupVars, deviceVars
  <2>4. CASE CloseFails(r, c)
    BY <2>4 DEF TeardownTypeOK, CloseFails, CaptureError, Leave, memVars, setupVars, deviceVars
  <2>5. CASE Release(r, c)
    BY <2>5 DEF TeardownTypeOK, Release, Leave, setupVars, deviceVars
  <2>6. CASE ReleaseNothing(r, c)
    BY <2>6 DEF TeardownTypeOK, ReleaseNothing, Leave, memVars, setupVars, deviceVars
  <2>7. CASE ReleaseUnattached(r, c) \/ ReleaseTimesOut(r, c)
    BY <2>7 DEF TeardownTypeOK, ReleaseUnattached, ReleaseTimesOut, CaptureError, Leave, memVars, setupVars, deviceVars
  <2>8. CASE ReleaseFails(r, c)
    BY <2>8 DEF TeardownTypeOK, ReleaseFails, CaptureError, Leave, memVars, setupVars, deviceVars
  <2> QED BY <1>4, <2>1, <2>2, <2>3, <2>4, <2>5, <2>6, <2>7, <2>8 DEF Visit
<1>5. ASSUME NEW c \in Conn, EnqueueWrite(c) \/ EnqueueRead(c) \/ Device(c)
      PROVE  TeardownTypeOK'
  BY <1>5 DEF TeardownTypeOK, EnqueueWrite, EnqueueRead, Device, DrainWrites,
              DrainReads, serviceVars, memVars, setupVars
<1>6. CASE UNCHANGED teardownVars
  BY <1>6 DEF TeardownTypeOK, teardownVars, serviceVars, memVars, setupVars, deviceVars
<1> QED BY <1>1, <1>2, <1>3, <1>4, <1>5, <1>6 DEF TeardownNext, Service

-----------------------------------------------------------------------------
(* The inductive invariant *)

LEMMA InitIInv == TeardownInit => TeardownIInv
  BY P2pTeardownAssumption, ConnEnds
  DEF TeardownInit, TeardownIInv, TeardownTypeOK, RunningHasWorkers, RetiredFirst, ClosedIsUnused, NoUseAfterFree

\* The safety part, action by action.
LEMMA SafetyStep ==
  ASSUME TeardownIInv, [TeardownNext]_teardownVars
  PROVE  (RetiredFirst /\ ClosedIsUnused /\ NoUseAfterFree)'
<1> DEFINE Safe == RetiredFirst /\ ClosedIsUnused /\ NoUseAfterFree
<1> USE DEF TeardownIInv
<1>1. ASSUME NEW r \in Rank, RetireWorkers(r) PROVE Safe'
  <2>1. RetiredFirst'
    <3>1. /\ phase \in [Rank -> {"running", "closing", "releasing", "ended"}]
          /\ workers \in [Rank -> BOOLEAN]
      BY DEF TeardownTypeOK
    <3>2. PICK b \in BOOLEAN :
            /\ workers' = [workers EXCEPT ![r] = ~b]
            /\ phase' = [phase EXCEPT ![r] = IF b THEN "closing" ELSE "ended"]
      BY <1>1 DEF RetireWorkers, MayFree
    <3>3. linked' = linked /\ mapped' = mapped /\ backing' = backing /\ closed' = closed
          /\ phase[r] = "running"
      BY <1>1 DEF RetireWorkers, memVars, setupVars
    <3> QED BY <3>1, <3>2, <3>3, ConnEnds DEF RetiredFirst, RunningHasWorkers
  <2>2. (ClosedIsUnused /\ NoUseAfterFree)'
    BY <1>1 DEF RetireWorkers, ClosedIsUnused, NoUseAfterFree, memVars, setupVars, deviceVars
  <2> QED BY <2>1, <2>2
<1>2. ASSUME NEW r \in Rank, NextVisit(r) \/ NextPass(r) PROVE Safe'
  <2>1. RetiredFirst'
    BY <1>2 DEF NextVisit, NextPass, RetiredFirst, TeardownTypeOK, memVars, setupVars
  <2>2. (ClosedIsUnused /\ NoUseAfterFree)'
    BY <1>2 DEF NextVisit, NextPass, ClosedIsUnused, NoUseAfterFree, memVars, setupVars, deviceVars
  <2> QED BY <2>1, <2>2
<1>3. ASSUME NEW r \in Rank, NEW c \in Conn, Visit(r, c) PROVE Safe'
  <2>1. CASE Skip(r, c) \/ CloseFails(r, c) \/ ReleaseNothing(r, c) \/ ReleaseUnattached(r, c)
             \/ ReleaseTimesOut(r, c) \/ ReleaseFails(r, c)
    BY <2>1 DEF Skip, CloseFails, ReleaseNothing, ReleaseUnattached, ReleaseTimesOut, ReleaseFails,
                RetiredFirst, ClosedIsUnused, NoUseAfterFree, memVars, setupVars, deviceVars
  <2>2. CASE CloseImport(r, c)
    <3>1. r = Sender(c) /\ ~workers[Sender(c)]
      BY <2>2, ConnEnds DEF CloseImport, CleanupOf, RetiredFirst
    <3>2. RetiredFirst'
      BY <2>2, <3>1 DEF CloseImport, RetiredFirst, setupVars, serviceVars
    <3>3. (ClosedIsUnused /\ NoUseAfterFree)'
      BY <2>2 DEF CloseImport, ClosedIsUnused, NoUseAfterFree, deviceVars
    <3> QED BY <3>2, <3>3
  <2>3. CASE Acknowledge(r, c)
    <3>1. r = Sender(c) /\ ~workers[Sender(c)]
      BY <2>3, ConnEnds DEF Acknowledge, CleanupOf, RetiredFirst
    <3>2. RetiredFirst'
      BY <2>3, <3>1 DEF Acknowledge, RetiredFirst, setupVars
    <3>3. (ClosedIsUnused /\ NoUseAfterFree)'
      BY <2>3 DEF Acknowledge, TeardownTypeOK, ClosedIsUnused, NoUseAfterFree, deviceVars
    <3> QED BY <3>2, <3>3
  <2>4. CASE Release(r, c)
    <3>1. r = Receiver(c) /\ ~workers[Receiver(c)]
      BY <2>4, ConnEnds DEF Release, CleanupOf, RetiredFirst
    <3>2. RetiredFirst'
      BY <2>4, <3>1 DEF Release, RetiredFirst, setupVars
    <3>3. (ClosedIsUnused /\ NoUseAfterFree)'
      BY <2>4 DEF Release, PeerClosed, ClosedIsUnused, NoUseAfterFree, deviceVars
    <3> QED BY <3>2, <3>3
  <2> QED BY <1>3, <2>1, <2>2, <2>3, <2>4 DEF Visit
<1>4. ASSUME NEW c \in Conn, EnqueueWrite(c) \/ EnqueueRead(c) \/ Device(c)
      PROVE  Safe'
  <2>1. RetiredFirst'
    BY <1>4 DEF EnqueueWrite, EnqueueRead, Device, DrainWrites, DrainReads,
                RetiredFirst, serviceVars, memVars, setupVars
  <2>2. (ClosedIsUnused /\ NoUseAfterFree)'
    BY <1>4 DEF EnqueueWrite, EnqueueRead, Device, DrainWrites, DrainReads,
                RetiredFirst, ClosedIsUnused, NoUseAfterFree, serviceVars, memVars, setupVars
  <2> QED BY <2>1, <2>2
<1>5. CASE UNCHANGED teardownVars
  BY <1>5 DEF RetiredFirst, ClosedIsUnused, NoUseAfterFree, teardownVars, serviceVars,
              memVars, setupVars, deviceVars
<1> QED BY <1>1, <1>2, <1>3, <1>4, <1>5 DEF TeardownNext, Service

\* A service thread that has not begun its end has its workers.
LEMMA RunningStep ==
  ASSUME TeardownIInv, [TeardownNext]_teardownVars
  PROVE  RunningHasWorkers'
<1> USE DEF TeardownIInv, RunningHasWorkers
<1>1. ASSUME NEW r \in Rank, RetireWorkers(r) PROVE RunningHasWorkers'
  BY <1>1 DEF RetireWorkers, TeardownTypeOK
<1>2. ASSUME NEW r \in Rank, NextVisit(r) \/ NextPass(r) PROVE RunningHasWorkers'
  BY <1>2 DEF NextVisit, NextPass, TeardownTypeOK
<1>3. ASSUME NEW r \in Rank, NEW c \in Conn, Visit(r, c) PROVE RunningHasWorkers'
  BY <1>3 DEF Visit, Skip, CloseImport, Acknowledge, CloseFails, Release,
              ReleaseNothing, ReleaseUnattached, ReleaseTimesOut, ReleaseFails, serviceVars
<1>4. ASSUME NEW c \in Conn, EnqueueWrite(c) \/ EnqueueRead(c) \/ Device(c)
      PROVE  RunningHasWorkers'
  BY <1>4 DEF EnqueueWrite, EnqueueRead, Device, DrainWrites, DrainReads, serviceVars
<1>5. CASE UNCHANGED teardownVars
  BY <1>5 DEF teardownVars, serviceVars
<1> QED BY <1>1, <1>2, <1>3, <1>4, <1>5 DEF TeardownNext, Service

LEMMA IInvStep == TeardownIInv /\ [TeardownNext]_teardownVars => TeardownIInv'
  BY TypeStep, RunningStep, SafetyStep DEF TeardownIInv

\* The inductive invariant holds in every behaviour of the teardown.
LEMMA Invariance == TeardownSpec => []TeardownIInv
<1>1. TeardownInit => TeardownIInv BY InitIInv
<1>2. TeardownIInv /\ [TeardownNext]_teardownVars => TeardownIInv' BY IInvStep
<1> QED BY <1>1, <1>2, PTL DEF TeardownSpec

-----------------------------------------------------------------------------
(* A successful cleanup *)

\* What each pass has achieved so far, as long as nothing has failed.
Passed(r, c) == c \notin unvisited[r] /\ visited[r] # c

ImportsClosed(r) ==
  \A c \in Conn : r = Sender(c) =>
    /\ phase[r] = "closing" /\ Passed(r, c) => c \notin mapped
    /\ phase[r] \in {"releasing", "ended"} => c \notin mapped

ExportsFreed(r) ==
  \A c \in Conn : r = Receiver(c) =>
    /\ phase[r] = "releasing" /\ Passed(r, c) => c \notin backing
    /\ phase[r] = "ended" => c \notin backing

CleanSoFar ==
  \A r \in Rank : outcome[r] = "Success" => ImportsClosed(r) /\ ExportsFreed(r)

LEMMA CleanStep ==
  ASSUME TeardownTypeOK, CleanSoFar, [TeardownNext]_teardownVars
  PROVE  CleanSoFar'
<1> USE ConnEnds DEF CleanSoFar, ImportsClosed, ExportsFreed, Passed
<1>1. ASSUME NEW r \in Rank, RetireWorkers(r) PROVE CleanSoFar'
  BY <1>1 DEF RetireWorkers, MayFree, PassOver, TeardownTypeOK, memVars, setupVars
<1>2. ASSUME NEW r \in Rank, NextVisit(r) PROVE CleanSoFar'
  BY <1>2 DEF NextVisit, TeardownTypeOK, memVars, setupVars
<1>3. ASSUME NEW r \in Rank, NextPass(r) PROVE CleanSoFar'
  BY <1>3 DEF NextPass, PassOver, TeardownTypeOK, memVars, setupVars
<1>4. ASSUME NEW r \in Rank, NEW c \in Conn, Visit(r, c) PROVE CleanSoFar'
  <2>1. CASE Skip(r, c)
    BY <2>1 DEF Skip, Visiting, CleanupOf, Leave, TeardownTypeOK, memVars, setupVars
  <2>2. CASE CloseImport(r, c)
    BY <2>2 DEF CloseImport, serviceVars
  <2>3. CASE Acknowledge(r, c)
    BY <2>3 DEF Acknowledge, Visiting, CleanupOf, Leave, TeardownTypeOK
  <2>4. CASE CloseFails(r, c) \/ ReleaseUnattached(r, c) \/ ReleaseTimesOut(r, c)
             \/ ReleaseFails(r, c)
    BY <2>4 DEF CloseFails, ReleaseUnattached, ReleaseTimesOut, ReleaseFails, CaptureError, Leave,
                TeardownTypeOK, memVars, setupVars
  <2>5. CASE Release(r, c)
    BY <2>5 DEF Release, Visiting, CleanupOf, Leave, TeardownTypeOK
  <2>6. CASE ReleaseNothing(r, c)
    BY <2>6 DEF ReleaseNothing, Visiting, CleanupOf, Leave, TeardownTypeOK, memVars, setupVars
  <2> QED BY <1>4, <2>1, <2>2, <2>3, <2>4, <2>5, <2>6 DEF Visit
<1>5. ASSUME NEW c \in Conn, EnqueueWrite(c) \/ EnqueueRead(c) \/ Device(c)
      PROVE  CleanSoFar'
  BY <1>5 DEF EnqueueWrite, EnqueueRead, Device, DrainWrites, DrainReads,
              serviceVars, memVars, setupVars
<1>6. CASE UNCHANGED teardownVars
  BY <1>6 DEF teardownVars, serviceVars, memVars, setupVars
<1> QED BY <1>1, <1>2, <1>3, <1>4, <1>5, <1>6 DEF TeardownNext, Service

-----------------------------------------------------------------------------
(* The theorems *)

\* The state of every behaviour has its type; in particular a pass visits
\* only connections of its own rank's pool.
THEOREM TeardownTypeCorrect == TeardownSpec => []TeardownTypeOK
<1>1. TeardownIInv => TeardownTypeOK BY DEF TeardownIInv
<1> QED BY <1>1, Invariance, PTL

\* No mapping and no device work ever refers to a FIFO that was freed, for any
\* ranks, connections, failures and timeouts of the service threads.
THEOREM FifoSafety == TeardownSpec => []NoUseAfterFree
<1>1. TeardownIInv => NoUseAfterFree BY DEF TeardownIInv
<1> QED BY <1>1, Invariance, PTL

\* A FIFO that was in use is freed only after both ranks retired their workers.
THEOREM RetirementSafety == TeardownSpec => []FreedAfterBothRetired
<1>1. TeardownIInv => FreedAfterBothRetired
  BY DEF TeardownIInv, TeardownTypeOK, RetiredFirst, NoUseAfterFree, FreedAfterBothRetired
<1> QED BY <1>1, Invariance, PTL

\* A rank that reports a successful cleanup has closed all its imports and
\* freed all its FIFOs.
THEOREM CleanupSound == TeardownSpec => []SuccessMeansClean
<1>1. TeardownInit => CleanSoFar
  BY DEF TeardownInit, CleanSoFar, ImportsClosed, ExportsFreed
<1>2. TeardownTypeOK /\ CleanSoFar /\ [TeardownNext]_teardownVars => CleanSoFar'
  BY CleanStep
<1>3. CleanSoFar => SuccessMeansClean
  BY DEF CleanSoFar, ImportsClosed, ExportsFreed, SuccessMeansClean, Pool
<1> QED BY <1>1, <1>2, <1>3, TeardownTypeCorrect, PTL DEF TeardownSpec

=============================================================================
