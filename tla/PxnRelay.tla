------------------------------ MODULE PxnRelay ------------------------------
(***************************************************************************)
(* A PXN relay: a source rank sends through the NIC of another rank of its *)
(* node.  The relay owns a pool of staging slots, one per connection, that *)
(* the source maps.  For each chunk the source leases the slot with an RPC *)
(* (flagcx/core/net.cc, proxy.cc), copies the chunk into it and asks the   *)
(* relay to send it; the reply says whether the slot is idle again.  When  *)
(* the outcome of an RPC is uncertain the source cancels the request or    *)
(* keeps its mapping until the process exits.  At shutdown the source      *)
(* closes the mapping and acknowledges that, and the relay frees the pool  *)
(* only when it knows that nobody uses it.                                 *)
(*                                                                         *)
(* The RPCs of all connections share one socket, whose writes may fail     *)
(* after the request was delivered, and whose reads may fail.  One send    *)
(* operation per connection (only the head of a proxy queue progresses).   *)
(* Left out: the sizes of chunks, validation of malformed requests, and    *)
(* the setup of the connection.                                            *)
(***************************************************************************)
EXTENDS Integers, Sequences, FiniteSets

CONSTANTS
  Conns,       \* the relayed connections of the source
  Chunks,      \* chunks of the operation of each connection
  MaxFailures  \* socket, copy, NIC and relay failures of a run

ASSUME PxnAssumption ==
  Conns # {} /\ Chunks \in [Conns -> Nat \ {0}] /\ MaxFailures \in Nat

VARIABLES
  \* the source
  phase,      \* relaySendState->phase of the operation of each connection
  id,         \* requestId: the chunk it is at
  status,     \* "running", "failed", "done", "retired", "retained"
  writing,    \* a copy into the slot is in flight
  asyncError, \* proxyState->asyncResult is an error
  import,     \* the mapping of the pool: "open", "closed", "retained"
  stop,       \* flagcxProxyStop: "no", "releasing", "done"
  releases,   \* the acknowledgement of each connection: "none", "sent", "over"
  expected,   \* expectedResponses without an answer
  cached,     \* expectedResponses with an answer
  \* the socket
  sock, reqs, resps,
  \* the relay
  pending,    \* peer->asyncOps
  slot,       \* the requestId that holds the slot of each connection, or 0
  content,    \* the chunk in the slot
  nic,        \* the NET send of the slot: "idle", "reading", "read"
  connFailed, \* connection->state = connFailed
  relayError, \* the asyncResult of the relay is an error
  peer,       \* its end of the socket: "open", "closed"
  unsafe,     \* pool->unsafe
  sourceReleased,  \* relaySourceReleased
  pool,       \* "live", "freed", "retained"
  failures

opVars    == <<phase, id, status, writing>>
stopVars  == <<import, stop, releases>>
rpcVars   == <<expected, cached, sock, reqs, resps>>
relayVars == <<pending, slot, content, nic, connFailed, relayError, peer, unsafe,
               sourceReleased, pool>>
vars == <<opVars, asyncError, stopVars, rpcVars, relayVars, failures>>

Init ==
  /\ phase = [c \in Conns |-> "ready"]
  /\ id = [c \in Conns |-> 1]
  /\ status = [c \in Conns |-> "running"]
  /\ writing = [c \in Conns |-> FALSE]
  /\ asyncError = FALSE
  /\ import = "open" /\ stop = "no" /\ releases = [c \in Conns |-> "none"]
  /\ expected = {} /\ cached = {} /\ sock = "open" /\ reqs = <<>> /\ resps = <<>>
  /\ pending = <<>>
  /\ slot = [c \in Conns |-> 0]
  /\ content = [c \in Conns |-> 0]
  /\ nic = [c \in Conns |-> "idle"]
  /\ connFailed = [c \in Conns |-> FALSE]
  /\ relayError = FALSE /\ peer = "open" /\ unsafe = FALSE
  /\ sourceReleased = [c \in Conns |-> FALSE]
  /\ pool = "live"
  /\ failures = 0

Fault == failures < MaxFailures /\ failures' = failures + 1

-----------------------------------------------------------------------------
(* RPCs *)

\* proxyCleanupOpType
Cleanup == {"cancel", "release"}

\* flagcxProxyCallAsync: the request is written and its response expected, or
\* the call fails.  A write that fails may have delivered the request, and
\* closes the socket.
Call(r, ok) ==
  LET refused == sock # "open" \/ stop = "done" \/ (asyncError /\ r.type \notin Cleanup) IN
  IF ok
    THEN /\ ~refused
         /\ reqs' = Append(reqs, r) /\ expected' = expected \cup {r.key}
         /\ UNCHANGED <<cached, sock, resps, failures>>
    ELSE \/ refused /\ UNCHANGED <<rpcVars, failures>>
         \/ /\ ~refused /\ Fault
            /\ sock' = "closed" /\ reqs' \in {reqs, Append(reqs, r)}
            /\ UNCHANGED <<expected, cached, resps>>

Request(t, c, k) == [type |-> t, conn |-> c, id |-> id[c], key |-> <<c, k>>]

Answers(c, k) == {a \in cached : a.key = <<c, k>> /\ stop # "done"}

\* flagcxPollProxyResponseWithStatus, its answer being a.
Take(c, k, a) == a \in Answers(c, k) /\ cached' = cached \ {a}

\* Every poll reads the next response, whoever it is for; one that nobody
\* expects is an error.
ReadResponse ==
  LET a == Head(resps) IN
  /\ sock = "open" /\ resps # <<>> /\ a.key \in expected
  /\ resps' = Tail(resps)
  /\ expected' = expected \ {a.key} /\ cached' = cached \cup {a}
  /\ UNCHANGED <<opVars, asyncError, stopVars, sock, reqs, relayVars, failures>>

\* A poll gets no answer: the read failed, nobody expects the response, or the
\* RPCs were stopped.  The socket is closed.
NoAnswer(c, k) ==
  /\ Answers(c, k) = {}
  /\ \/ sock = "open" /\ Fault
     \/ /\ sock = "open" /\ resps # <<>> /\ Head(resps).key \notin expected
        /\ UNCHANGED failures
     \/ sock = "closed" /\ UNCHANGED failures
  /\ sock' = "closed"
  /\ UNCHANGED <<expected, cached, reqs, resps>>

-----------------------------------------------------------------------------
(* The source: flagcxNetProgressRelaySend *)

\* progress returns an error: the operation leaves the queue, and the
\* communicator fails.
Fail(c) == status' = [status EXCEPT ![c] = "failed"] /\ asyncError' = TRUE
GoTo(c, p) == phase' = [phase EXCEPT ![c] = p]

\* Mutant: the phase is entered after the request has been written.
Publish_after(c, p, ok) == IF ok THEN p ELSE phase[c]

\* The phase of a request is entered before any part of it is written.
Publish(c, p, ok) == p

Running(c, p) == status[c] = "running" /\ phase[c] = p

Lease(c) ==
  /\ Running(c, "ready")
  /\ \E ok \in BOOLEAN :
       /\ GoTo(c, Publish(c, "lease", ok))
       /\ Call(Request("lease", c, "state"), ok)
       /\ IF ok THEN UNCHANGED <<status, asyncError>> ELSE Fail(c)
  /\ UNCHANGED <<id, writing, stopVars, relayVars>>

LeaseReply(c) ==
  /\ Running(c, "lease")
  /\ \E a \in cached :
       /\ Take(c, "state", a)
       /\ GoTo(c, IF a.ok /\ a.val = 1 THEN "copy" ELSE "cancel")
  /\ UNCHANGED <<id, status, writing, asyncError, stopVars, expected, sock, reqs, resps,
                 relayVars, failures>>

\* The copy is started, or the device refuses it.
Copy(c) ==
  /\ Running(c, "copy")
  /\ \/ /\ GoTo(c, "copying") /\ writing' = [writing EXCEPT ![c] = TRUE]
        /\ UNCHANGED <<status, asyncError, failures>>
     \/ Fault /\ Fail(c) /\ UNCHANGED <<phase, writing>>
  /\ UNCHANGED <<id, stopVars, rpcVars, relayVars>>

\* The stream finishes the copy, whatever has become of the operation.
CopyLands(c) ==
  /\ writing[c]
  /\ writing' = [writing EXCEPT ![c] = FALSE]
  /\ content' = [content EXCEPT ![c] = id[c]]
  /\ UNCHANGED <<phase, id, status, asyncError, stopVars, rpcVars, pending, slot, nic,
                 connFailed, relayError, peer, unsafe, sourceReleased, pool, failures>>

\* Mutant: the request is sent without waiting for the event of the copy.
CopyCompleted_any(c) == TRUE

\* The event of the copy.
CopyCompleted(c) == ~writing[c]

Send(c) ==
  /\ Running(c, "copying") /\ CopyCompleted(c)
  /\ \E ok \in BOOLEAN :
       /\ GoTo(c, Publish(c, "send", ok))
       /\ Call(Request("send", c, "op"), ok)
       /\ IF ok THEN UNCHANGED <<status, asyncError>> ELSE Fail(c)
  /\ UNCHANGED <<id, writing, stopVars, relayVars>>

\* A reply that does not certify the slot idle leaves the phase as it is.
SendReply(c) ==
  /\ Running(c, "send")
  /\ \E a \in cached :
       /\ Take(c, "op", a)
       /\ IF a.ok /\ a.val = 1
            THEN /\ GoTo(c, "ready")
                 /\ IF id[c] = Chunks[c]
                      THEN status' = [status EXCEPT ![c] = "done"] /\ UNCHANGED id
                      ELSE id' = [id EXCEPT ![c] = @ + 1] /\ UNCHANGED status
                 /\ UNCHANGED asyncError
            ELSE Fail(c) /\ UNCHANGED <<phase, id>>
  /\ UNCHANGED <<writing, stopVars, expected, sock, reqs, resps, relayVars, failures>>

\* No reply to a lease or to a send: the request has to be cancelled.
ReplyLost(c) ==
  /\ \/ Running(c, "lease") /\ NoAnswer(c, "state")
     \/ Running(c, "send") /\ NoAnswer(c, "op")
  /\ GoTo(c, "cancel")
  /\ UNCHANGED <<id, status, writing, asyncError, stopVars, relayVars>>

\* Phase 3 ("send") again: ownership stays uncertain.
Cancel(c) ==
  /\ Running(c, "cancel")
  /\ \E ok \in BOOLEAN :
       /\ Call(Request("cancel", c, "state"), ok)
       /\ IF ok THEN GoTo(c, "cancelling") /\ UNCHANGED <<status, asyncError>>
                ELSE GoTo(c, "send") /\ Fail(c)
  /\ UNCHANGED <<id, writing, stopVars, relayVars>>

\* The answer to the cancel; flagcxProxyForgetResponse drops the send's.
CancelReply(c) ==
  /\ Running(c, "cancelling")
  /\ \E a \in cached :
       /\ Take(c, "state", a)
       /\ IF a.ok /\ a.val = 1 THEN GoTo(c, "ready") /\ expected' = expected \ {<<c, "op">>}
                               ELSE GoTo(c, "send") /\ UNCHANGED expected
  /\ Fail(c)
  /\ UNCHANGED <<id, writing, stopVars, sock, reqs, resps, relayVars, failures>>

\* The 30 s deadline passes, or the poll fails.
CancelLost(c) ==
  /\ Running(c, "cancelling")
  /\ NoAnswer(c, "state") \/ (Answers(c, "state") = {} /\ UNCHANGED <<rpcVars, failures>>)
  /\ GoTo(c, "send") /\ Fail(c)
  /\ UNCHANGED <<id, writing, stopVars, relayVars>>

\* flagcxProxyRetireFailedQueue: an error of one operation fails the others.
FailOther(c) ==
  /\ asyncError /\ status[c] = "running"
  /\ status' = [status EXCEPT ![c] = "failed"]
  /\ UNCHANGED <<phase, id, writing, asyncError, stopVars, rpcVars, relayVars, failures>>

\* Mutant: an operation that failed is cleaned up whatever its phase.
Certain_always(c) == TRUE

\* The relay cannot hold the slot for the operation.
Certain(c) == phase[c] = "ready"

\* flagcxNetCleanupRelaySendOp, once the stream has passed the group of the
\* operation.  An operation whose slot is uncertain stays counted for ever.
Retire(c) ==
  /\ status[c] \in {"failed", "done"}
  /\ status' = [status EXCEPT ![c] = IF Certain(c) THEN "retired" ELSE "retained"]
  /\ UNCHANGED <<phase, id, writing, asyncError, stopVars, rpcVars, relayVars, failures>>

\* flagcxNetAbandonRelaySendOp, when the progress thread stops first.
Abandon(c) ==
  /\ status[c] = "failed" /\ stop = "done"
  /\ status' = [status EXCEPT ![c] = "retained"]
  /\ UNCHANGED <<phase, id, writing, asyncError, stopVars, rpcVars, relayVars, failures>>

-----------------------------------------------------------------------------
(* flagcxProxyStop on the source *)

\* relayActiveOps
Active(c) == status[c] # "retired"

\* The mapping is closed when no operation uses it, and retained when one
\* still does at the deadline.
CloseImport ==
  /\ stop = "no"
  /\ \/ /\ \A c \in Conns : ~Active(c)
        /\ import' = "closed" /\ stop' = "releasing"
     \/ /\ \E c \in Conns : Active(c)
        /\ import' = "retained" /\ stop' = "done"
  /\ sock' = IF stop' = "done" THEN "closed" ELSE sock
  /\ UNCHANGED <<opVars, asyncError, releases, expected, cached, reqs, resps, relayVars,
                 failures>>

\* flagcxProxyAcknowledgeRelayRelease, one connection after the other.
Release(c) ==
  /\ stop = "releasing" /\ releases[c] = "none"
  /\ \A d \in Conns : releases[d] # "sent"
  /\ \E ok \in BOOLEAN :
       /\ Call(Request("release", c, "conn"), ok)
       /\ releases' = [releases EXCEPT ![c] = IF ok THEN "sent" ELSE "over"]
  /\ UNCHANGED <<opVars, asyncError, import, stop, relayVars>>

ReleaseReply(c) ==
  /\ releases[c] = "sent"
  /\ \/ /\ \E a \in cached : Take(c, "conn", a)
        /\ UNCHANGED <<expected, sock, reqs, resps, failures>>
     \/ NoAnswer(c, "conn")
     \/ \* the deadline
        /\ Answers(c, "conn") = {}
        /\ expected' = expected \ {<<c, "conn">>}
        /\ UNCHANGED <<cached, sock, reqs, resps, failures>>
  /\ releases' = [releases EXCEPT ![c] = "over"]
  /\ UNCHANGED <<opVars, asyncError, import, stop, relayVars>>

StopRpc ==
  /\ stop = "releasing" /\ \A c \in Conns : releases[c] = "over"
  /\ stop' = "done" /\ sock' = "closed"
  /\ UNCHANGED <<opVars, asyncError, import, releases, expected, cached, reqs, resps,
                 relayVars, failures>>

(* The relay: flagcxProxyService *)

Without(k) == SubSeq(pending, 1, k - 1) \o SubSeq(pending, k + 1, Len(pending))

\* proxyServiceCompleteOp and the reply at the end of proxyProgressAsync.
Reply(o, left, ok, val) ==
  /\ resps' = Append(resps, [key |-> o.key, ok |-> ok, val |-> val])
  /\ pending' = left

Lane(c) == {k \in DOMAIN pending : pending[k].conn = c}
ActiveSend(c) == {k \in Lane(c) : pending[k].type = "send" /\ pending[k].posted}

\* proxyProgressAsync for request o, the queue being left without it or kept
\* with it.  A failure of the connection, and later of the relay, fails every
\* request that is not for cleanup.
Refuses(o, checked) ==
  /\ o.type \notin Cleanup
  /\ connFailed[o.conn] \/ (checked /\ relayError)

\* Mutant: the request of a failed connection is dropped without an answer.
RefuseRequest_silent(o, left, checked) ==
  /\ Refuses(o, checked) \/ (o.type = "send" /\ slot[o.conn] # o.id)
  /\ pending' = left
  /\ connFailed' = [connFailed EXCEPT ![o.conn] = TRUE]
  /\ UNCHANGED <<resps, slot, nic, unsafe, sourceReleased, failures>>

\* Every request that was read gets an answer, an error too.
RefuseRequest(o, left, checked) ==
  /\ Refuses(o, checked) \/ (o.type = "send" /\ slot[o.conn] # o.id)
  /\ Reply(o, left, FALSE, 0)
  /\ connFailed' = [connFailed EXCEPT ![o.conn] = TRUE]
  /\ UNCHANGED <<slot, nic, unsafe, sourceReleased, failures>>

\* flagcxNetLeaseRelaySlot
ServeLease(o, left, keep) ==
  LET granted == slot[o.conn] \in {0, o.id} IN
  /\ o.type = "lease"
  /\ \/ o.cancelled /\ Reply(o, left, TRUE, 0) /\ UNCHANGED slot
     \/ /\ ~o.cancelled /\ granted
        /\ Reply(o, left, TRUE, 1)
        /\ slot' = [slot EXCEPT ![o.conn] = o.id]
     \/ ~o.cancelled /\ ~granted /\ pending' = keep /\ UNCHANGED <<resps, slot>>
  /\ UNCHANGED <<nic, connFailed, unsafe, sourceReleased, failures>>

\* flagcxNetRelaySendRpc: the send is posted, and when the NIC has read the
\* slot it is released.  A send that fails may still be reading.
ServeSend(o, left, keep) ==
  LET c == o.conn IN
  /\ o.type = "send" /\ slot[c] = o.id
  /\ ~o.posted => ActiveSend(c) = {}
  /\ \/ /\ ~o.posted
        /\ pending' = keep
        /\ nic' = [nic EXCEPT ![c] = "reading"]
        /\ UNCHANGED <<resps, slot, connFailed, unsafe, failures>>
     \/ /\ o.posted /\ nic[c] = "read"
        /\ Reply(o, left, TRUE, 1)
        /\ slot' = [slot EXCEPT ![c] = 0] /\ nic' = [nic EXCEPT ![c] = "idle"]
        /\ UNCHANGED <<connFailed, unsafe, failures>>
     \/ /\ o.posted /\ Fault
        /\ unsafe' = TRUE
        /\ Reply(o, left, FALSE, 0)
        /\ connFailed' = [connFailed EXCEPT ![c] = TRUE]
        /\ UNCHANGED <<slot, nic>>
  /\ UNCHANGED sourceReleased

\* flagcxProxyMsgCancelRelay: requests of the same id retire first.
ServeCancel(o, left, keep) ==
  LET c == o.conn
      same == {k \in Lane(c) : pending[k].type \in {"lease", "send"} /\ pending[k].id = o.id}
  IN
  /\ o.type = "cancel"
  /\ \/ /\ same # {}
        /\ pending' = [k \in DOMAIN keep |->
             IF k \in same THEN [keep[k] EXCEPT !.cancelled = TRUE] ELSE keep[k]]
        /\ UNCHANGED <<resps, slot>>
     \/ same = {} /\ unsafe /\ Reply(o, left, FALSE, 0) /\ UNCHANGED slot
     \/ /\ same = {} /\ ~unsafe
        /\ Reply(o, left, TRUE, 1)
        /\ slot' = [slot EXCEPT ![c] = IF @ = o.id THEN 0 ELSE @]
  /\ UNCHANGED <<nic, connFailed, unsafe, sourceReleased, failures>>

\* No send of the connection is active and its slot is free.
Idle(c) == ActiveSend(c) = {} /\ slot[c] = 0

\* flagcxProxyMsgReleaseRelay
ServeRelease(o, left) ==
  /\ o.type = "release"
  /\ Reply(o, left, Idle(o.conn), 0)
  /\ sourceReleased' = [sourceReleased EXCEPT ![o.conn] = @ \/ Idle(o.conn)]
  /\ UNCHANGED <<slot, nic, connFailed, unsafe, failures>>

Serve(o, left, keep, checked) ==
  /\ \/ RefuseRequest(o, left, checked)
     \/ /\ ~Refuses(o, checked)
        /\ \/ ServeLease(o, left, keep) \/ ServeSend(o, left, keep)
           \/ ServeCancel(o, left, keep) \/ ServeRelease(o, left)
  /\ UNCHANGED <<opVars, asyncError, stopVars, expected, cached, sock, content, relayError,
                 peer, pool>>

\* proxyServiceInitOp: a request is read, and served a first time.
Receive ==
  LET r == Head(reqs)
      o == [type |-> r.type, conn |-> r.conn, id |-> r.id, key |-> r.key,
            cancelled |-> FALSE, posted |-> FALSE]
      posts == o.type = "send" /\ slot[o.conn] = o.id /\ ActiveSend(o.conn) = {}
  IN
  /\ peer = "open" /\ reqs # <<>>
  /\ reqs' = Tail(reqs)
  /\ Serve(o, pending, Append(pending, [o EXCEPT !.posted = posts]), FALSE)

\* The service loop progresses a queued request.
Progress(k) ==
  /\ peer = "open" /\ k \in DOMAIN pending
  /\ UNCHANGED reqs
  /\ Serve(pending[k], Without(k), [pending EXCEPT ![k].posted = (@ \/ pending[k].type = "send")],
           TRUE)

NicReads(c) ==
  /\ nic[c] = "reading"
  /\ nic' = [nic EXCEPT ![c] = "read"]
  /\ UNCHANGED <<opVars, asyncError, stopVars, rpcVars, pending, slot, content, connFailed,
                 relayError, peer, unsafe, sourceReleased, pool, failures>>

\* Something else fails on the relay: its asyncResult.
RelayFails ==
  /\ ~relayError /\ Fault
  /\ relayError' = TRUE
  /\ UNCHANGED <<opVars, asyncError, stopVars, rpcVars, pending, slot, content, nic,
                 connFailed, peer, unsafe, sourceReleased, pool>>

\* Another request of the connection fails, such as the registration of a
\* buffer: proxyServiceInitOp records the error in the connection.
ConnectionFails(c) ==
  /\ ~connFailed[c] /\ peer = "open" /\ Fault
  /\ connFailed' = [connFailed EXCEPT ![c] = TRUE]
  /\ UNCHANGED <<opVars, asyncError, stopVars, rpcVars, pending, slot, content, nic,
                 relayError, peer, unsafe, sourceReleased, pool>>

\* The service loop finds the socket closed: it forgets the requests.
DropPeer ==
  /\ peer = "open" /\ sock = "closed"
  /\ peer' = "closed" /\ pending' = <<>> /\ reqs' = <<>>
  /\ UNCHANGED <<opVars, asyncError, stopVars, expected, cached, sock, resps, slot, content,
                 nic, connFailed, relayError, unsafe, sourceReleased, pool, failures>>

\* The pool is in doubt: poisoned, not released by the source, or leased.
MayBeUsed == unsafe \/ \E c \in Conns : ~sourceReleased[c] \/ slot[c] # 0

\* flagcxSendProxyFree of the connections, when the relay stops: the NIC is
\* detached first, unless that fails.
FreePool ==
  /\ peer = "closed" /\ pool = "live"
  /\ \/ /\ nic' = [c \in Conns |-> "idle"]
        /\ pool' = IF MayBeUsed THEN "retained" ELSE "freed"
        /\ UNCHANGED failures
     \/ Fault /\ pool' = "retained" /\ UNCHANGED nic
  /\ UNCHANGED <<opVars, asyncError, stopVars, rpcVars, pending, slot, content, connFailed,
                 relayError, peer, unsafe, sourceReleased>>

-----------------------------------------------------------------------------

SourceStep(c) ==
  \/ Lease(c) \/ LeaseReply(c) \/ Copy(c) \/ Send(c) \/ SendReply(c) \/ ReplyLost(c)
  \/ Cancel(c) \/ CancelReply(c) \/ CancelLost(c) \/ FailOther(c) \/ Retire(c)

Next ==
  \/ \E c \in Conns : Lease(c) \/ LeaseReply(c) \/ Copy(c) \/ CopyLands(c) \/ Send(c)
  \/ \E c \in Conns : SendReply(c) \/ ReplyLost(c) \/ Cancel(c) \/ CancelReply(c)
  \/ \E c \in Conns : CancelLost(c) \/ FailOther(c) \/ Retire(c) \/ Abandon(c)
  \/ ReadResponse \/ CloseImport \/ StopRpc
  \/ \E c \in Conns : Release(c) \/ ReleaseReply(c)
  \/ Receive \/ \E k \in 1..2 * Cardinality(Conns) : Progress(k)
  \/ \E c \in Conns : NicReads(c) \/ ConnectionFails(c)
  \/ RelayFails \/ DropPeer \/ FreePool

Spec == Init /\ [][Next]_vars

\* The progress and service threads run, streams and NICs finish their work,
\* and the communicator is destroyed once its operations have ended (it may be
\* earlier, but no operation relies on it).
Settled == \A c \in Conns : status[c] \in {"retired", "retained"}

Fairness ==
  /\ \A c \in Conns : WF_vars(SourceStep(c)) /\ WF_vars(CopyLands(c)) /\ WF_vars(NicReads(c))
  /\ WF_vars(ReadResponse) /\ WF_vars(Settled /\ CloseImport) /\ WF_vars(StopRpc)
  /\ \A c \in Conns : WF_vars(Release(c) \/ ReleaseReply(c))
  /\ WF_vars(Receive) /\ \A k \in 1..2 * Cardinality(Conns) : WF_vars(Progress(k))
  /\ WF_vars(DropPeer) /\ WF_vars(FreePool)

LiveSpec == Spec /\ Fairness

-----------------------------------------------------------------------------
(* Properties *)

\* The NIC of the relay reads the chunk the lease was taken for, and no copy
\* of the source is writing the slot meanwhile, whatever failed before.
NicReadsItsChunk ==
  \A c \in Conns : nic[c] = "reading" => content[c] = slot[c] /\ ~writing[c]

InFlight(c) ==
  {k \in DOMAIN reqs : reqs[k].conn = c /\ reqs[k].type \in {"lease", "send"}}
    \cup {k \in Lane(c) : pending[k].type \in {"lease", "send"}}

\* What the source is certain of is so: in phase 0 the relay neither holds the
\* slot for it nor has a request that could take or read it, although requests
\* may be delivered by writes that failed and answers may be lost or late.
ReadyMeansIdle ==
  \A c \in Conns : phase[c] = "ready" => slot[c] = 0 /\ nic[c] # "reading" /\ InFlight(c) = {}

\* The source closes its mapping of the pool only when no copy writes through
\* it, and the relay frees the pool only when the mapping is closed and the NIC
\* does not read it, although an error fails operations whose copy is still in
\* flight and answers may be lost.
ReleasedIsUnused ==
  /\ import = "closed" => \A c \in Conns : ~writing[c]
  /\ pool = "freed" => import = "closed" /\ \A c \in Conns : nic[c] # "reading"

\* Every operation ends and so does the shutdown of both sides, with lost
\* answers and operations that keep their slot.
EverythingEnds ==
  /\ \A c \in Conns : <>(status[c] \in {"retired", "retained"})
  /\ <>(stop = "done") /\ <>(pool # "live")

=============================================================================
