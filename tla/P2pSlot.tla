------------------------------- MODULE P2pSlot -------------------------------
(***************************************************************************)
(* The same-node P2P transport (flagcx/core/p2p.cc): the proxy threads of  *)
(* two ranks move the same sequence of operations through one shared       *)
(* memory segment.  Each side owns an array of sync slots and of           *)
(* registration records; an operation takes one slot of each side, found   *)
(* from its hash.  The sides exchange registration offers, agree on a plan *)
(* and move the data: the sender writes the receiver's registered buffer,  *)
(* the receiver reads the sender's, or both go through the FIFO, a ring of *)
(* Chunks positions in device memory.                                      *)
(*                                                                         *)
(* A proxy thread calls flagcxP2pProxySend or flagcxP2pProxyRecv on the    *)
(* head of its queue again and again; every call runs through the same     *)
(* checks from the start.  A step is one publication to or one observation *)
(* of shared memory, so the calls of the two threads interleave inside.    *)
(* Copies are asynchronous: a call enqueues one on the device stream, the  *)
(* device executes it later, and an event query tells a later call.        *)
(* copyStarted and totalCopySize, which no condition reads, are left out.  *)
(***************************************************************************)
EXTENDS Integers, Sequences, FiniteSets, Functions

CONSTANTS
  KeyOf,     \* the key (ranks, size, datatype) of each operation, in order
  StepsOf,   \* chunkSteps: the number of chunks of an operation with this key
  Slots,     \* FLAGCX_P2P_MAX_OPS / 2, also 2^reservedBits
  Chunks,    \* flagcxP2pChunks
  Offers     \* the registration offers an operation may make

Op    == DOMAIN KeyOf
Key   == Range(KeyOf)
N     == Len(KeyOf)

ASSUME P2pSlotAssumption ==
  /\ KeyOf \in Seq(Nat)
  /\ StepsOf \in [Key -> Nat \ {0}]
  /\ Slots \in Nat \ {0}
  /\ Chunks \in Nat \ {0}
  /\ Offers \subseteq [registered : BOOLEAN, forceFifo : BOOLEAN]

Side == {"send", "recv"}
Peer(s) == IF s = "send" THEN "recv" ELSE "send"

\* The free slot's opHash is -1; the null address is 0.
Free == -1
Null == 0

Plan == {"pending", "write", "read", "fifo"}

VARIABLES
  slot,         \* shm->slots: first half of the sender, second of the receiver
  reg,          \* shm->regInfos
  cur,          \* the operation at the head of the side's queue
  pc,           \* where the call on it is
  plan,         \* args.p2pPlan, of every operation
  copied,       \* args.copied of the head
  transmitted,  \* args.transmitted of the head
  rmtAddr,      \* the address the enqueued zero-copy transfer uses
  executed,     \* chunks of the head whose copy the device has executed
  fifo,         \* what each position of the FIFO holds
  data          \* what each chunk of each receive buffer holds

shmVars == <<slot, reg>>
argVars == <<plan, copied, transmitted, rmtAddr>>
devVars == <<executed, fifo, data>>
vars == <<shmVars, cur, pc, argVars, devVars>>

-----------------------------------------------------------------------------
(* Operations, hashes and positions. *)

Steps(i) == StepsOf[KeyOf[i]]

\* The entry of p2pOpHashMap: how many operations of i's key there were up to
\* i.  Both sides count the same operations, so both find the same number.
OpHashCounter(i) == Cardinality({j \in 1..i : KeyOf[j] = KeyOf[i]})

\* setP2pSlotInfo: the key's reserved low bits are zero, and the counter is
\* added to the key.
OpHash(i) == KeyOf[i] * Slots + OpHashCounter(i)

SlotIdx(i) == OpHash(i) % Slots

\* The value of the bit 2^b of n.
Bit(n, b) == (n \div 2^b) % 2

\* copied & sendStepMask, with sendStepMask = flagcxP2pChunks - 1; both are
\* below 16.
Position(k) ==
  LET And(b) == Bit(k, b) * Bit(Chunks - 1, b) * 2^b
  IN  And(0) + And(1) + And(2) + And(3)

\* A chunk of a buffer: the operation whose data it holds and its number.
Empty == <<Null, 0>>

FreeSlot == [sendHead |-> 0, recvTail |-> Chunks, opHash |-> Free,
             done |-> TRUE, peerDone |-> TRUE]
NoReg == [copyDone |-> FALSE, offerReady |-> FALSE, registered |-> FALSE,
          forceFifo |-> FALSE, remoteAddr |-> Null]

Index == 0..Slots-1

SlotRecord == [sendHead : Nat, recvTail : Nat, opHash : Nat \cup {Free},
               done : BOOLEAN, peerDone : BOOLEAN]
RegRecord == [copyDone : BOOLEAN, offerReady : BOOLEAN, registered : BOOLEAN,
              forceFifo : BOOLEAN, remoteAddr : Op \cup {Null}]

ShmType ==
  /\ slot \in [Side -> [Index -> SlotRecord]]
  /\ reg \in [Side -> [Index -> RegRecord]]

CallType ==
  /\ cur \in [Side -> 1..N+1]
  /\ pc \in [Side -> {"poll", "publish", "peer", "offer", "resolve", "move",
                      "event", "complete", "done"}]
  /\ plan \in [Side -> [Op -> Plan]]
  /\ copied \in [Side -> Nat]
  /\ transmitted \in [Side -> Nat]
  /\ rmtAddr \in [Side -> Op \cup {Null}]
  /\ executed \in [Side -> Nat]

BufferType ==
  /\ fifo \in [0..Chunks-1 -> (Op \cup {Null}) \X Nat]
  /\ DOMAIN data = Op
  /\ \A i \in Op : data[i] \in [0..Steps(i)-1 -> (Op \cup {Null}) \X Nat]

TypeOK == ShmType /\ CallType /\ BufferType

\* flagcxP2pSendProxySetup has initialized the segment; both queues hold the
\* operations 1..N.
Init ==
  /\ slot = [s \in Side |-> [x \in Index |-> FreeSlot]]
  /\ reg = [s \in Side |-> [x \in Index |-> NoReg]]
  /\ cur = [s \in Side |-> 1]
  /\ pc = [s \in Side |-> "poll"]
  /\ plan = [s \in Side |-> [i \in Op |-> "pending"]]
  /\ copied = [s \in Side |-> 0]
  /\ transmitted = [s \in Side |-> 0]
  /\ rmtAddr = [s \in Side |-> Null]
  /\ executed = [s \in Side |-> 0]
  /\ fifo = [p \in 0..Chunks-1 |-> Empty]
  /\ data = [i \in Op |-> [k \in 0..Steps(i)-1 |-> Empty]]

\* The slots and records of the head operation of s, on either side.
Own(s)     == slot[s][SlotIdx(cur[s])]
PeerOf(s)  == slot[Peer(s)][SlotIdx(cur[s])]
OwnReg(s)  == reg[s][SlotIdx(cur[s])]
PeerReg(s) == reg[Peer(s)][SlotIdx(cur[s])]

\* args.done = 1 for the operation i of the side s.
Finished(s, i) == cur[s] > i \/ (cur[s] = i /\ pc[s] = "done")

Goto(s, p) == pc' = [pc EXCEPT ![s] = p]
At(s, p) == pc[s] = p /\ cur[s] \in Op

-----------------------------------------------------------------------------
(* The checks at the head of flagcxP2pProxySend and flagcxP2pProxyRecv.    *)

SlotIsReusable(s) == Own(s).opHash = Free

\* resetSlot clears the registration record first ...
ResetReg(s) ==
  /\ At(s, "poll")
  /\ SlotIsReusable(s)
  /\ reg' = [reg EXCEPT ![s][SlotIdx(cur[s])] = NoReg]
  /\ Goto(s, "publish")
  /\ UNCHANGED <<slot, cur, argVars, devVars>>

\* ... then the slot, and publishes the operation's hash last.
ResetSlot(i) == [sendHead |-> 0, recvTail |-> Chunks, opHash |-> OpHash(i),
                 done |-> FALSE, peerDone |-> FALSE]

PublishSlot(s) ==
  /\ At(s, "publish")
  /\ slot' = [slot EXCEPT ![s][SlotIdx(cur[s])] = ResetSlot(cur[s])]
  /\ Goto(s, "peer")
  /\ UNCHANGED <<reg, cur, argVars, devVars>>

\* The slot is already this operation's.  A slot that still belongs to
\* another operation makes the call return: no step is possible.
OwnsSlot(s) ==
  /\ At(s, "poll")
  /\ Own(s).opHash = OpHash(cur[s])
  /\ Goto(s, "peer")
  /\ UNCHANGED <<shmVars, cur, argVars, devVars>>

\* The peer's slot belongs to the operation too, or the peer is done with it.
PeerReady(s) ==
  PeerOf(s).opHash = OpHash(cur[s]) \/ Own(s).peerDone

CheckPeer(s) ==
  /\ At(s, "peer")
  /\ Goto(s, IF PeerReady(s) THEN "offer" ELSE "poll")
  /\ UNCHANGED <<shmVars, cur, argVars, devVars>>

-----------------------------------------------------------------------------
(* p2pPublishOfferAndResolvePlan *)

\* remoteAddr is the operation's own buffer, imported by the peer.
Offer(copyDone, o, i) ==
  [copyDone |-> copyDone, offerReady |-> TRUE, registered |-> o.registered,
   forceFifo |-> o.forceFifo, remoteAddr |-> IF o.registered THEN i ELSE Null]

\* The offer was made when the operation was prepared; it is published once.
PublishOffer(s) ==
  /\ At(s, "offer")
  /\ IF OwnReg(s).offerReady
       THEN UNCHANGED reg
       ELSE \E o \in Offers :
              reg' = [reg EXCEPT ![s][SlotIdx(cur[s])] =
                        Offer(@.copyDone, o, cur[s])]
  /\ Goto(s, "resolve")
  /\ UNCHANGED <<slot, cur, argVars, devVars>>

\* flagcxP2pResolveTransferPlan
TransferPlan(sender, receiver) ==
  IF sender.forceFifo \/ receiver.forceFifo THEN "fifo"
  ELSE IF receiver.registered THEN "write"
  ELSE IF sender.registered THEN "read"
  ELSE "fifo"

\* Mutant: the peer's record is used before its offer is published.
PeerOffered_unchecked(s) == TRUE

PeerOffered(s) == PeerReg(s).offerReady

\* Without an offer of the peer the call returns.  The plan is settled once.
ResolvePlan(s) ==
  /\ At(s, "resolve")
  /\ IF PeerOffered(s)
       THEN /\ plan' = [plan EXCEPT ![s][cur[s]] =
                 IF @ # "pending" THEN @
                 ELSE IF s = "send" THEN TransferPlan(OwnReg(s), PeerReg(s))
                 ELSE TransferPlan(PeerReg(s), OwnReg(s))]
            /\ Goto(s, "move")
       ELSE /\ Goto(s, "poll")
            /\ UNCHANGED plan
  /\ UNCHANGED <<shmVars, cur, copied, transmitted, rmtAddr, devVars>>

-----------------------------------------------------------------------------
(* Moving the data *)

\* The side that makes the single copy of a zero-copy plan.
Copier(s) == (s = "send" /\ plan[s][cur[s]] = "write")
             \/ (s = "recv" /\ plan[s][cur[s]] = "read")

Transmitting(s, i) == transmitted[s] < Steps(i)

\* Mutant: the sender does not look at recvTail.
FifoHasNext_noRoom(s) ==
  /\ copied[s] < Steps(cur[s])
  /\ copied[s] - transmitted[s] < Chunks
  /\ s = "recv" => PeerOf(s).sendHead > copied[s]

\* FIFO: one chunk is enqueued if fewer than Chunks are under way and the
\* peer has made room (sender) or sent it (receiver).
FifoHasNext(s) ==
  /\ copied[s] < Steps(cur[s])
  /\ copied[s] - transmitted[s] < Chunks
  /\ IF s = "send" THEN PeerOf(s).recvTail > copied[s]
                   ELSE PeerOf(s).sendHead > copied[s]

MoveFifo(s) ==
  /\ At(s, "move")
  /\ plan[s][cur[s]] = "fifo"
  /\ Transmitting(s, cur[s])
  /\ copied' = [copied EXCEPT ![s] = IF FifoHasNext(s) THEN @ + 1 ELSE @]
  /\ Goto(s, "event")
  /\ UNCHANGED <<shmVars, cur, plan, transmitted, rmtAddr, devVars>>

\* WRITE on the sender, READ on the receiver: the whole buffer at once, to or
\* from the address in the peer's record.
MoveZeroCopy(s) ==
  /\ At(s, "move")
  /\ Copier(s)
  /\ Transmitting(s, cur[s])
  /\ IF copied[s] = 0
       THEN /\ copied' = [copied EXCEPT ![s] = Steps(cur[s])]
            /\ rmtAddr' = [rmtAddr EXCEPT ![s] = PeerReg(s).remoteAddr]
       ELSE UNCHANGED <<copied, rmtAddr>>
  /\ Goto(s, "event")
  /\ UNCHANGED <<shmVars, cur, plan, transmitted, devVars>>

\* The other side of a zero-copy plan waits for copyDone in the peer's record.
AwaitCopyDone(s) ==
  /\ At(s, "move")
  /\ plan[s][cur[s]] \in {"write", "read"}
  /\ ~Copier(s)
  /\ Transmitting(s, cur[s])
  /\ IF PeerReg(s).copyDone
       THEN /\ copied' = [copied EXCEPT ![s] = Steps(cur[s])]
            /\ transmitted' = [transmitted EXCEPT ![s] = Steps(cur[s])]
            /\ executed' = [executed EXCEPT ![s] = Steps(cur[s])]
       ELSE UNCHANGED <<copied, transmitted, executed>>
  /\ Goto(s, "poll")
  /\ UNCHANGED <<shmVars, cur, plan, rmtAddr, fifo, data>>

\* Mutant: recvTail tells what was received, not what may be sent.
RecvTail_noCredit(t) == t

\* What the receiver publishes after t chunks: the sender may go on to here.
RecvTail(t) == t + Chunks

\* eventQuery: a chunk whose copy was executed counts as transmitted, and the
\* peer is told through sendHead, recvTail or copyDone.  The query may lag.
EventDone(s) ==
  LET i == cur[s]
      x == SlotIdx(i)
      t == IF plan[s][i] = "fifo" THEN transmitted[s] + 1 ELSE Steps(i)
  IN
  /\ At(s, "event")
  /\ transmitted[s] < copied[s]
  /\ t <= executed[s]
  /\ transmitted' = [transmitted EXCEPT ![s] = t]
  /\ IF plan[s][i] = "fifo"
       THEN /\ slot' = IF s = "send"
                       THEN [slot EXCEPT ![s][x].sendHead = t]
                       ELSE [slot EXCEPT ![s][x].recvTail = RecvTail(t)]
            /\ UNCHANGED reg
       ELSE /\ reg' = [reg EXCEPT ![s][x].copyDone = TRUE]
            /\ UNCHANGED slot
  /\ Goto(s, "poll")
  /\ UNCHANGED <<cur, plan, copied, rmtAddr, devVars>>

EventPending(s) ==
  /\ At(s, "event")
  /\ Goto(s, "poll")
  /\ UNCHANGED <<shmVars, cur, argVars, devVars>>

-----------------------------------------------------------------------------
(* The device *)

\* The content of the send buffer of i: the application may overwrite it once
\* the send is over.
SendData(i, k) == IF i \in Op /\ ~Finished("send", i) THEN <<i, k>> ELSE Empty

\* The stream of side s executes its next copy.
DeviceCopy(s) ==
  LET i == cur[s]
      k == executed[s]
      p == Position(k)
  IN
  /\ i \in Op
  /\ executed[s] < copied[s]
  /\ \/ /\ plan[s][i] = "fifo"
        /\ executed' = [executed EXCEPT ![s] = k + 1]
        /\ IF s = "send"
             THEN /\ fifo' = [fifo EXCEPT ![p] = SendData(i, k)]
                  /\ UNCHANGED data
             ELSE /\ data' = [data EXCEPT ![i][k] = fifo[p]]
                  /\ UNCHANGED fifo
     \/ /\ Copier(s)
        /\ executed' = [executed EXCEPT ![s] = copied[s]]
        /\ data' = IF s = "send"
                   THEN [j \in Op |-> IF j = rmtAddr[s]
                          THEN [c \in DOMAIN data[j] |-> SendData(i, c)]
                          ELSE data[j]]
                   ELSE [data EXCEPT ![i] =
                          [c \in DOMAIN @ |-> SendData(rmtAddr[s], c)]]
        /\ UNCHANGED fifo
  /\ UNCHANGED <<shmVars, cur, pc, argVars>>

-----------------------------------------------------------------------------
(* The end of an operation *)

\* All chunks are through: done here, peerDone in the peer's slot, once.
MarkDone(s) ==
  LET x == SlotIdx(cur[s]) IN
  /\ At(s, "move")
  /\ ~Transmitting(s, cur[s])
  /\ slot' = IF Own(s).done THEN slot
             ELSE [slot EXCEPT ![s][x].done = TRUE,
                               ![Peer(s)][x].peerDone = TRUE]
  /\ Goto(s, "complete")
  /\ UNCHANGED <<reg, cur, argVars, devVars>>

\* Mutant: the peer's end is not awaited.
SlotIsComplete_own(s) == Own(s).done

SlotIsComplete(s) == Own(s).done /\ Own(s).peerDone

\* A complete slot is freed and the operation is over.
Complete(s) ==
  /\ At(s, "complete")
  /\ IF SlotIsComplete(s)
       THEN /\ slot' = [slot EXCEPT ![s][SlotIdx(cur[s])].opHash = Free]
            /\ Goto(s, "done")
       ELSE /\ Goto(s, "poll")
            /\ UNCHANGED slot
  /\ UNCHANGED <<reg, cur, argVars, devVars>>

\* progressOps removes the finished head; the next operation of the queue is
\* started by its group some time later.
Dequeue(s) ==
  /\ At(s, "done")
  /\ cur' = [cur EXCEPT ![s] = @ + 1]
  /\ copied' = [copied EXCEPT ![s] = 0]
  /\ transmitted' = [transmitted EXCEPT ![s] = 0]
  /\ executed' = [executed EXCEPT ![s] = 0]
  /\ rmtAddr' = [rmtAddr EXCEPT ![s] = Null]
  /\ Goto(s, "poll")
  /\ UNCHANGED <<shmVars, plan, fifo, data>>

-----------------------------------------------------------------------------
Proxy(s) ==
  \/ ResetReg(s) \/ PublishSlot(s) \/ OwnsSlot(s) \/ CheckPeer(s)
  \/ PublishOffer(s) \/ ResolvePlan(s)
  \/ MoveFifo(s) \/ MoveZeroCopy(s) \/ AwaitCopyDone(s)
  \/ EventDone(s) \/ EventPending(s)
  \/ MarkDone(s) \/ Complete(s) \/ Dequeue(s)

\* Both queues are empty.
AllDone == \A s \in Side : cur[s] = N + 1

Next ==
  \/ \E s \in Side : Proxy(s) \/ DeviceCopy(s)
  \/ AllDone /\ UNCHANGED vars

Spec == Init /\ [][Next]_vars

\* The proxy threads poll for ever, the device executes what is enqueued, and
\* a query that keeps being made sees the end of its copy.
Fairness ==
  \A s \in Side :
    /\ WF_vars(Proxy(s))
    /\ WF_vars(DeviceCopy(s))
    /\ SF_vars(EventDone(s))

LiveSpec == Spec /\ Fairness

-----------------------------------------------------------------------------
(* Properties *)

\* How many operations the side has finished.
Over(s) == IF pc[s] = "done" THEN cur[s] ELSE cur[s] - 1

T == INSTANCE Transfer WITH
       StepsOf <- [i \in Op |-> Steps(i)],
       data <- data,
       over <- [s \in Side |-> Over(s)]

\* The same-node transport implements Transfer: a receive that is over has the
\* chunks of its own send, each in its place, and no chunk is ever written with
\* the wrong content or written twice, not even one that is corrected before the
\* receive is over.  So no FIFO position is overwritten before it is read or
\* read before it is written, and no zero-copy transfer uses a stale address or
\* a buffer the sender has given back.
ImplementsTransfer == T!Spec

\* "Publishing both offers before resolving a plan prevents mixed-registration
\* peers from choosing different paths" (p2p.h): the two sides never settle on
\* different plans for one operation.
PlansAgree ==
  \A i \in Op :
    \/ plan["send"][i] = "pending"
    \/ plan["recv"][i] = "pending"
    \/ plan["send"][i] = plan["recv"][i]

\* Neither side gives an operation up before the device has executed every
\* copy of it, its own and the peer's.
CompletionIsMutual ==
  \A s \in Side, i \in Op :
    Finished(s, i) => \/ Finished(Peer(s), i)
                      \/ cur[Peer(s)] = i /\ executed[Peer(s)] = Steps(i)

\* Every operation put on both queues comes to its end: the calls that return
\* to be retried later do not retry for ever.
OperationsComplete == <>AllDone

=============================================================================
