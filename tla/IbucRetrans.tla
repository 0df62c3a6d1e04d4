----------------------------- MODULE IbucRetrans -----------------------------
(***************************************************************************)
(* Reliable transfers over the unreliable connected queue pairs of the     *)
(* IBUC adaptor (flagcx/adaptor/net/ibuc_adaptor.cc) with the              *)
(* retransmission state of ib_retrans.cc.                                  *)
(*                                                                         *)
(* The receiver posts a receive: it takes a request slot, numbers its use  *)
(* of the slot with a generation, and writes slot and generation to the    *)
(* sender.  The sender writes the message over NQps queue pairs: on each   *)
(* its part of the data, and then a notification with sequence number,     *)
(* slot and generation.  The two are separate work requests, and the       *)
(* network may lose either.  The sender keeps an entry with the source     *)
(* request until the message is acknowledged.  After a timeout it sends    *)
(* the message again in chunks over a reliable queue pair, to bounce       *)
(* buffers of the receiver, who copies them and acknowledges.  The         *)
(* receiver knows only the next sequence number it expects: a message out  *)
(* of order is received, but not acknowledged until it comes again.        *)
(*                                                                         *)
(* Every step of a side happens in a test of one of its requests.  One     *)
(* device.  Left out: the grouping of several receives in one message, the *)
(* failure of the reliable queue pair or of a post, and sizes.  The write  *)
(* that announces a receive is taken to arrive (see README).               *)
(***************************************************************************)
EXTENDS Integers, Sequences, FiniteSets

CONSTANTS
  N,          \* messages of the run
  NQps,       \* queue pairs a message is striped over
  NSlots,     \* MAX_REQUESTS
  NChunks,    \* retransmission chunks of a message
  Depth,      \* FLAGCX_IBUC_RETRANS_RECV_DEPTH
  SeqMod,     \* FLAGCX_IB_RETRANS_SEQ_MASK + 1
  GenMod,     \* FLAGCX_IBUC_GENERATION_MASK + 1
  MaxRetry,   \* state->maxRetry
  MaxLoss     \* data writes and notifications the network loses

ASSUME IbucAssumption ==
  /\ {N, NQps, NSlots, NChunks, Depth, MaxRetry} \subseteq Nat \ {0}
  /\ MaxLoss \in Nat
  /\ SeqMod \in Nat \ {0, 1} /\ GenMod \in Nat \ {0, 1}
  /\ NSlots <= (SeqMod - 1) \div 2

Msg  == 1..N
Qp   == 1..NQps
Slot == 1..NSlots

VARIABLES
  \* the receiver
  recvReqs,  \* its requests: the message (0: unused), generation, and progress
  recvSeq,   \* retrans.recvSeq
  posted,    \* receives posted
  received,  \* receives that test has reported done
  copied,    \* chunks that were copied into the buffer of each message
  \* the sender
  sendSeq,   \* retrans.sendSeq
  buffer,    \* retrans.buffer, from bufferHead on
  events,    \* what holds each send request: "ack", "window"
  sends,     \* each send: "none", "active", "done", "error"
  window,    \* the message whose chunks are outstanding, and how many
  commError,
  \* the network
  fifo,      \* announced receives the sender has not taken
  dest,      \* the announcement each message was sent to
  written,   \* the data of each message on each queue pair
  uc,        \* its notification there
  cq,        \* the receiver's completion queue
  rc,        \* chunks on the reliable queue pair
  rcDone,    \* completions of chunks the sender has not polled
  acks,      \* acknowledgements on their way
  losses

recvVars == <<recvReqs, recvSeq, posted, received, copied>>
sendVars == <<sendSeq, buffer, events, sends, window, commError>>
netVars  == <<fifo, dest, written, uc, cq, rc, rcDone, acks, losses>>
retransVars == <<recvVars, sendVars, netVars>>

-----------------------------------------------------------------------------
(* Sequence numbers *)

Sub(a, b) == (a - b) % SeqMod

\* Mutant: sequence numbers compared as plain numbers.
SeqLess_plain(a, b) == a < b

\* flagcxIbSeqLess, flagcxIbSeqLeq
SeqLess(a, b) == Sub(a, b) > (SeqMod - 1) \div 2
SeqLeq(a, b) == a = b \/ SeqLess(a, b)

SeqOf(m) == (m - 1) % SeqMod

NoSeq == SeqMod

\* A request slot in its use of generation gen: for which message (0: none),
\* the sequence number it goes by, the notifications it awaits, and the chunks
\* it has.
RecvRequest(gen, msg, seq, data, bytes) ==
  [gen |-> gen, use |-> [msg |-> msg, seq |-> seq, data |-> data, bytes |-> bytes]]

Unused(gen) == RecvRequest(gen, 0, NoSeq, 0, 0)

RetransInit ==
  /\ recvReqs = [s \in Slot |-> Unused(0)]
  /\ recvSeq = 0 /\ posted = 0 /\ received = {}
  /\ copied = [m \in Msg |-> 0]
  /\ sendSeq = 0 /\ buffer = <<>>
  /\ events = [m \in Msg |-> {}]
  /\ sends = [m \in Msg |-> "none"]
  /\ window = [msg |-> 0, outstanding |-> 0]
  /\ commError = FALSE
  /\ fifo = <<>> /\ dest = [m \in Msg |-> [slot |-> 0, gen |-> 0]]
  /\ written = [m \in Msg |-> [q \in Qp |-> "none"]]
  /\ uc = [m \in Msg |-> [q \in Qp |-> "none"]]
  /\ cq = <<>> /\ rc = <<>> /\ rcDone = 0 /\ acks = <<>> /\ losses = 0

-----------------------------------------------------------------------------
(* The receiver *)

FreeSlots == {s \in Slot : recvReqs[s].use.msg = 0}

\* Generation 0 is skipped.
NextGeneration(g) == IF (g + 1) % GenMod = 0 THEN 1 ELSE (g + 1) % GenMod

\* flagcxIbucIrecv
Irecv ==
  LET s == CHOOSE x \in FreeSlots : \A y \in FreeSlots : x <= y
      g == NextGeneration(recvReqs[s].gen)
  IN
  /\ posted < N /\ FreeSlots # {}
  /\ posted' = posted + 1
  /\ recvReqs' = [recvReqs EXCEPT ![s] = RecvRequest(g, posted + 1, NoSeq, NQps, 0)]
  /\ fifo' = Append(fifo, [slot |-> s, gen |-> g])
  /\ UNCHANGED <<recvSeq, received, copied, sendVars, dest, written, uc, cq, rc,
                 rcDone, acks, losses>>

\* A test of an active receive polls the completion queue.
Polling == FreeSlots # Slot

\* Mutant: a stale notification or chunk is taken for one of the receive that
\* uses the slot now.
Matches_slot(w) == recvReqs[w.slot].use.msg # 0

\* flagcxIbucRequestMatchesGeneration
Matches(w) == recvReqs[w.slot].use.msg # 0 /\ recvReqs[w.slot].gen = w.gen

\* flagcxIbucAckSequence and flagcxIbRetransRecvPacket, with ackInterval 1:
\* the number is accepted when it is the expected one, and the last one that
\* was accepted is acknowledged.
AckSequence(seq) ==
  LET next == IF seq = recvSeq THEN (recvSeq + 1) % SeqMod ELSE recvSeq IN
  /\ recvSeq' = next
  /\ acks' = Append(acks, Sub(next, 1))

\* flagcxIbucProcessWc of a notification: a stale or repeated one is only
\* acknowledged, the last one of a message acknowledges it.
ProcessNotification ==
  LET w == Head(cq)
      q == recvReqs[w.slot]
      r == q.use
      old == ~Matches(w) \/ SeqLess(w.seq, recvSeq)
      again == r.seq = w.seq /\ r.bytes = NChunks
  IN
  /\ Polling /\ cq # <<>> /\ w.kind = "uc"
  /\ cq' = Tail(cq)
  /\ IF old \/ again
       THEN AckSequence(w.seq) /\ UNCHANGED recvReqs
       ELSE /\ recvReqs' = [recvReqs EXCEPT ![w.slot] =
                 RecvRequest(q.gen, r.msg, w.seq, r.data - 1, r.bytes)]
            /\ IF r.data = 1 THEN AckSequence(w.seq) ELSE UNCHANGED <<recvSeq, acks>>
  /\ UNCHANGED <<posted, received, copied, sendVars, fifo, dest, written, uc, rc,
                 rcDone, losses>>

\* Mutant: a retransmitted message still waits for its notifications.
DataEvents_kept(data, complete) == data

\* A message that was sent again as a whole waits for no notification.
DataEvents(data, complete) == IF complete THEN 0 ELSE data

\* flagcxIbucProcessWc of a chunk: it is copied when it is the next one of a
\* receive in progress; the last one completes the receive whatever
\* notifications are missing.
ProcessChunk ==
  LET w == Head(cq)
      q == recvReqs[w.slot]
      r == q.use
      current == Matches(w) /\ r.seq \in {NoSeq, w.seq}
      copy == current /\ w.chunk = r.bytes
      bytes == IF copy THEN r.bytes + 1 ELSE r.bytes
      complete == bytes = NChunks
  IN
  /\ Polling /\ cq # <<>> /\ w.kind = "rc"
  /\ cq' = Tail(cq)
  /\ recvReqs' = IF ~current THEN recvReqs ELSE
       [recvReqs EXCEPT ![w.slot] =
          RecvRequest(q.gen, r.msg, IF copy THEN w.seq ELSE r.seq,
                  DataEvents(r.data, complete), bytes)]
  /\ copied' = IF copy /\ w.msg = r.msg THEN [copied EXCEPT ![r.msg] = @ + 1] ELSE copied
  /\ IF ~current \/ complete THEN AckSequence(w.seq) ELSE UNCHANGED <<recvSeq, acks>>
  /\ UNCHANGED <<posted, received, sendVars, fifo, dest, written, uc, rc,
                 rcDone, losses>>

\* Test reports the receive done and gives the slot back.
TestRecv(s) ==
  /\ recvReqs[s].use.msg # 0 /\ recvReqs[s].use.data = 0
  /\ received' = received \cup {recvReqs[s].use.msg}
  /\ recvReqs' = [recvReqs EXCEPT ![s] = Unused(recvReqs[s].gen)]
  /\ UNCHANGED <<recvSeq, posted, copied, sendVars, netVars>>

-----------------------------------------------------------------------------
(* The sender *)

Sent == {m \in Msg : sends[m] # "none"}

\* sendTimeUs is kept as a rank among the entries.
Now == NSlots + 1
Ranked(b) ==
  [j \in DOMAIN b |->
     [b[j] EXCEPT !.sent = Cardinality({i \in DOMAIN b : b[i].sent <= b[j].sent})]]

\* flagcxIbRetransAddBatch: the entry of a message sent to the receive f.
NewEntry(m, f) ==
  [msg |-> m, seq |-> sendSeq, slot |-> f.slot, gen |-> f.gen,
   sent |-> Now, retry |-> 0, cursor |-> 0, allPosted |-> TRUE]

\* flagcxIbucIsend and flagcxIbucMultiSend: the next
\* message goes to the receive announced at the head of the fifo.
Isend ==
  LET m == Cardinality(Sent) + 1
      f == Head(fifo)
  IN
  /\ fifo # <<>>
  /\ Cardinality({k \in Sent : sends[k] = "active"}) < NSlots
  /\ fifo' = Tail(fifo)
  /\ dest' = [dest EXCEPT ![m] = f]
  /\ written' = [written EXCEPT ![m] = [q \in Qp |-> "flight"]]
  /\ uc' = [uc EXCEPT ![m] = [q \in Qp |-> "flight"]]
  /\ sends' = [sends EXCEPT ![m] = "active"]
  /\ events' = [events EXCEPT ![m] = {"ack"}]
  /\ buffer' = Ranked(Append(buffer, NewEntry(m, f)))
  /\ sendSeq' = (sendSeq + 1) % SeqMod
  /\ UNCHANGED <<recvVars, window, commError, cq, rc, rcDone, acks, losses>>

\* A test of an active send polls and looks for timeouts (flagcxIbucTestPreCheck).
Testing == ~commError /\ \E m \in Msg : sends[m] = "active"

\* How many entries at the head the acknowledgement covers.
Covered(ackSeq) ==
  CHOOSE n \in 0..Len(buffer) :
    /\ \A j \in 1..n : SeqLeq(buffer[j].seq, ackSeq)
    /\ n < Len(buffer) => ~SeqLeq(buffer[n + 1].seq, ackSeq)

\* flagcxIbRetransProcessAck: the entries it covers are dropped and release
\* their requests.
ProcessAck ==
  LET n == Covered(Head(acks))
      gone == {buffer[j].msg : j \in 1..n}
  IN
  /\ Testing /\ acks # <<>>
  /\ acks' = Tail(acks)
  /\ buffer' = Ranked(SubSeq(buffer, n + 1, Len(buffer)))
  /\ events' = [m \in Msg |-> IF m \in gone THEN events[m] \ {"ack"} ELSE events[m]]
  /\ UNCHANGED <<recvVars, sendSeq, sends, window, commError, fifo, dest, written,
                 uc, cq, rc, rcDone, losses>>

\* flagcxIbucCompleteRetransWindow: the request is held until the last chunk
\* of the window has completed.
CompleteChunk ==
  LET last == window.outstanding = 1 IN
  /\ Testing /\ rcDone > 0
  /\ rcDone' = rcDone - 1
  /\ window' = [msg |-> IF last THEN 0 ELSE window.msg,
                outstanding |-> window.outstanding - 1]
  /\ events' = IF last THEN [events EXCEPT ![window.msg] = @ \ {"window"}] ELSE events
  /\ UNCHANGED <<recvVars, sendSeq, buffer, sends, commError, fifo, dest, written,
                 uc, cq, rc, acks, losses>>

\* Mutant: the entry keeps its request, the window holds nothing.
HeldByWindow_no(m) == events[m]

\* While a window of its chunks is outstanding, a request is held for it.
HeldByWindow(m) == events[m] \cup {"window"}

\* flagcxIbRetransResendViaSend: the next window of chunks of entry j, from
\* chunk c on.
Resend(j, c) ==
  LET e == buffer[j]
      n == IF NChunks - c < Depth THEN NChunks - c ELSE Depth
      chunk(k) == [kind |-> "rc", msg |-> e.msg, seq |-> e.seq, slot |-> e.slot,
                   gen |-> e.gen, chunk |-> c + k - 1]
  IN
  /\ rc' = rc \o [k \in 1..n |-> chunk(k)]
  /\ window' = [msg |-> e.msg, outstanding |-> n]
  /\ events' = [events EXCEPT ![e.msg] = HeldByWindow(e.msg)]
  /\ buffer' = Ranked([buffer EXCEPT ![j] =
       [e EXCEPT !.sent = Now, !.cursor = c + n, !.allPosted = (c + n = NChunks),
                 !.retry = IF c = 0 THEN e.retry + 1 ELSE e.retry]])

\* flagcxIbRetransCheckTimeout goes on with an attempt that is not all posted.
Continue(j) ==
  /\ Testing /\ j \in DOMAIN buffer
  /\ window.outstanding = 0
  /\ \A i \in 1..j-1 : buffer[i].allPosted
  /\ ~buffer[j].allPosted
  /\ Resend(j, buffer[j].cursor)
  /\ UNCHANGED <<recvVars, sendSeq, sends, commError, fifo, dest, written, uc, cq,
                 rcDone, acks, losses>>

\* Entry j is the first in the ring to have timed out: those before it were
\* sent later.
TimedOut(j) ==
  /\ Testing /\ j \in DOMAIN buffer
  /\ \A i \in 1..j : buffer[i].allPosted
  /\ \A i \in 1..j-1 : buffer[i].sent > buffer[j].sent

\* It starts an attempt for an entry that timed out.
Retransmit(j) ==
  /\ TimedOut(j)
  /\ buffer[j].retry < MaxRetry
  /\ window.outstanding = 0
  /\ Resend(j, 0)
  /\ UNCHANGED <<recvVars, sendSeq, sends, commError, fifo, dest, written, uc, cq,
                 rcDone, acks, losses>>

\* The entry had its last attempt: the communicator fails.
GiveUp(j) ==
  /\ TimedOut(j)
  /\ buffer[j].retry >= MaxRetry
  /\ commError' = TRUE
  /\ UNCHANGED <<recvVars, sendSeq, buffer, events, sends, window, netVars>>

\* Test reports the send done when nothing holds it, or with the error.  The
\* local completions of its writes have come by then.
TestSend(m) ==
  /\ sends[m] = "active"
  /\ commError \/ events[m] = {}
  /\ sends' = [sends EXCEPT ![m] = IF commError THEN "error" ELSE "done"]
  /\ UNCHANGED <<recvVars, sendSeq, buffer, events, window, commError, netVars>>

-----------------------------------------------------------------------------
(* The network *)

\* A queue pair carries what is posted to it in order: the data of a message,
\* then its notification, then those of the next one.  On an unreliable
\* connection a gap stops nothing that comes after it.
DataNextOn(q, m) ==
  written[m][q] = "flight" /\ \A k \in 1..m-1 : uc[k][q] # "flight"

NextOn(q, m) ==
  /\ uc[m][q] = "flight" /\ written[m][q] # "flight"
  /\ \A k \in 1..m-1 : uc[k][q] # "flight"

\* The data of m on q is written to the receiver's buffer.
DeliverData(m, q) ==
  /\ DataNextOn(q, m)
  /\ written' = [written EXCEPT ![m][q] = "arrived"]
  /\ UNCHANGED <<recvVars, sendVars, fifo, dest, uc, cq, rc, rcDone, acks, losses>>

LoseData(m, q) ==
  /\ DataNextOn(q, m) /\ losses < MaxLoss
  /\ written' = [written EXCEPT ![m][q] = "lost"]
  /\ losses' = losses + 1
  /\ UNCHANGED <<recvVars, sendVars, fifo, dest, uc, cq, rc, rcDone, acks>>

\* The notification of m on q reaches the completion queue of the receiver,
\* whatever became of the data before it.
Deliver(m, q) ==
  /\ NextOn(q, m)
  /\ uc' = [uc EXCEPT ![m][q] = "arrived"]
  /\ cq' = Append(cq, [kind |-> "uc", msg |-> m, seq |-> SeqOf(m),
                       slot |-> dest[m].slot, gen |-> dest[m].gen])
  /\ UNCHANGED <<recvVars, sendVars, fifo, dest, written, rc, rcDone, acks, losses>>

Lose(m, q) ==
  /\ NextOn(q, m) /\ losses < MaxLoss
  /\ uc' = [uc EXCEPT ![m][q] = "lost"]
  /\ losses' = losses + 1
  /\ UNCHANGED <<recvVars, sendVars, fifo, dest, written, cq, rc, rcDone, acks>>

\* The reliable queue pair delivers a chunk to a bounce buffer and completes it.
DeliverChunk ==
  /\ rc # <<>>
  /\ rc' = Tail(rc) /\ cq' = Append(cq, Head(rc)) /\ rcDone' = rcDone + 1
  /\ UNCHANGED <<recvVars, sendVars, fifo, dest, written, uc, acks, losses>>

RetransNext ==
  \/ Irecv \/ ProcessNotification \/ ProcessChunk
  \/ \E s \in Slot : TestRecv(s)
  \/ Isend \/ ProcessAck \/ CompleteChunk
  \/ \E m \in Msg : TestSend(m)
  \/ \E j \in 1..NSlots : Continue(j) \/ Retransmit(j) \/ GiveUp(j)
  \/ \E m \in Msg, q \in Qp : DeliverData(m, q) \/ LoseData(m, q)
  \/ \E m \in Msg, q \in Qp : Deliver(m, q) \/ Lose(m, q)
  \/ DeliverChunk

RetransSpec == RetransInit /\ [][RetransNext]_retransVars

\* The proxy threads of the two ranks keep testing what they have posted, and
\* time passes; the network need not lose anything.
RetransFairness ==
  /\ WF_retransVars(Irecv)
  /\ WF_retransVars(ProcessNotification) /\ WF_retransVars(ProcessChunk)
  /\ WF_retransVars(\E s \in Slot : TestRecv(s))
  /\ WF_retransVars(Isend) /\ WF_retransVars(ProcessAck) /\ WF_retransVars(CompleteChunk)
  /\ WF_retransVars(\E m \in Msg : TestSend(m))
  /\ WF_retransVars(\E j \in 1..NSlots : Continue(j))
  /\ WF_retransVars(\E j \in 1..NSlots : Retransmit(j) \/ GiveUp(j))
  /\ WF_retransVars(\E m \in Msg, q \in Qp : DeliverData(m, q) \/ Deliver(m, q))
  /\ WF_retransVars(DeliverChunk)

LiveRetransSpec == RetransSpec /\ RetransFairness

\* A run without fairness in which numbers come around: nothing waits in the
\* completion queue so long that its generation, or its sequence number, is in
\* use again.
Timely ==
  \A k \in DOMAIN cq :
    posted - cq[k].msg < GenMod - 1 /\ posted - cq[k].msg < SeqMod - 1

TimelySpec == RetransInit /\ [][RetransNext /\ Timely']_retransVars

-----------------------------------------------------------------------------
(* Properties *)

Complete(m) ==
  m \in received \/ \E s \in Slot : recvReqs[s].use.msg = m /\ recvReqs[s].use.data = 0

\* What a receive can tell of its message: it was told of every part, or
\* copied every chunk.
Notified(m) == copied[m] = NChunks \/ \A q \in Qp : uc[m][q] = "arrived"

\* What the application is after.
Intact(m) == copied[m] = NChunks \/ \A q \in Qp : written[m][q] = "arrived"

Retained(m) == \E j \in DOMAIN buffer : buffer[j].msg = m

\* A receive completes only when every part of its own message was announced
\* to it or sent again, and the sender drops its entry for a message only when
\* the receive is complete: neither a late notification of an earlier use of
\* the slot nor the acknowledgement of a gap breaks the chain.  (That an
\* announced part has also been written is another matter: ReceivedIsIntact.)
AcknowledgedIsReceived ==
  \A m \in Msg :
    /\ Complete(m) => Notified(m)
    /\ m \in Sent /\ ~Retained(m) => Complete(m)

\* "UC does not provide reliable delivery.  IBUC therefore requires its
\* reliable RC acknowledgement and retransmission channels; running without
\* them would silently expose lossy transport semantics to collective callers"
\* (flagcxIbucInit): with them, a receive that test reports done has the data.
\* The code does not keep this: the notification says nothing of the write
\* before it.
ReceivedIsIntact == \A m \in received : Intact(m)

\* The application gets its source buffer back (the send is done) only when
\* nothing can read it any more: no notification awaits retransmission and no
\* chunk is on the reliable queue pair, even when an acknowledgement overtakes
\* the completions of the chunks.
SourceHeld ==
  \A m \in Msg : sends[m] = "done" =>
    ~Retained(m) /\ \A k \in DOMAIN rc : rc[k].msg # m

\* A retransmitted chunk is copied only into the receive its message was sent
\* to: never into memory that was returned to the application and posted anew.
CopiesHitTheirReceive ==
  [][\A s \in Slot :
       recvReqs'[s].use.bytes > recvReqs[s].use.bytes =>
         Head(cq).msg = recvReqs[s].use.msg]_retransVars

\* Every call ends: a send is done or fails with the communicator, a receive
\* ends unless the communicator of its sender failed.
CallsEnd ==
  \A m \in Msg :
    /\ sends[m] = "active" ~> sends[m] \in {"done", "error"}
    /\ posted >= m ~> (m \in received \/ commError)

=============================================================================
