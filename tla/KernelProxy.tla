---------------------------- MODULE KernelProxy ----------------------------
(***************************************************************************)
(* The kernel proxy: GPU threads enqueue descriptors in a FIFO in host     *)
(* memory (fifoEnqueue, fifoFlush of default_comm_traits.h), a pool worker *)
(* takes them in order, posts them to the NIC on the queue pair of its     *)
(* context and counts the contiguous prefix that has completed             *)
(* (flagcxKernelWorkerProgressOnce and flagcxKernelWorkerFinish of         *)
(* proxy.cc, kernel_proxy_transport.cc), and the host quiesces the FIFO    *)
(* before it releases memory (defaultCommQuiesce).                         *)
(*                                                                         *)
(* One context and one peer; a terminal error of another context is an     *)
(* action of its own.  A GPU thread that gets an error goes on with its    *)
(* next operation.  Posting, flushing and completing may fail or have to   *)
(* be repeated, Troubles times in all.  Two-sided descriptors, which go to *)
(* the group launch, are left out.                                         *)
(***************************************************************************)
EXTENDS Integers, Sequences, FiniteSets, Scoreboard

CONSTANTS
    Program,      \* for each GPU thread, the operations it performs
    FifoCapacity, \* entries of the FIFO
    MaxInflight,  \* FLAGCX_KERNEL_PROXY_MAX_INFLIGHT
    StagingSlots, \* FLAGCX_KERNEL_PROXY_PUT_VALUE_SLOTS
    MaxTroubles   \* bound on failures and retries of the network

ASSUME KernelProxyAssumption ==
    /\ {FifoCapacity, MaxInflight, StagingSlots} \subseteq Nat \ {0} /\ MaxTroubles \in Nat
    /\ IsFiniteSet(DOMAIN Program)

VARIABLES
    \* the FIFO buffer
    produced, consumed, completed, terminalStatus, closed, active, fifo,
    \* GPU threads: operation, position in it, slot or snapshot, flushes that succeeded
    op, gpu, mine, flushed,
    \* kernelState
    terminalResult, stop, quiesce,
    \* the worker: position, the descriptor in hand, its tracking, completions to publish
    at, pending, tracked, nextSequence, board, requests, domain, owed, back,
    \* the network: trouble left to happen, and which operations failed, which
    \* GETs have become visible and which have been reported done
    troubles, failedOps, covered, visible, reported

fifoVars == <<produced, consumed, completed, terminalStatus, closed, active, fifo>>
gpuVars == <<op, gpu, mine, flushed>>
commVars == <<terminalResult, stop, quiesce>>
transportVars == <<nextSequence, board, requests, domain>>
workVars == <<at, pending, tracked, transportVars, owed, back>>
netVars == <<troubles, failedOps, covered, visible, reported>>
vars == <<fifoVars, gpuVars, commVars, workVars, netVars>>

Thread == DOMAIN Program
Nothing == "nothing"
Release == {"signal", "counter"}
Native == {"put", "putvalue", "get", "signal"}

Init ==
    /\ produced = 0 /\ consumed = 0 /\ completed = 0
    /\ terminalStatus = FALSE /\ closed = FALSE /\ active = 0
    /\ fifo = [i \in 0 .. FifoCapacity - 1 |-> Nothing]
    /\ op = [t \in Thread |-> 1]
    /\ gpu = [t \in Thread |-> "call"]
    /\ mine = [t \in Thread |-> 0]
    /\ flushed = [t \in Thread |-> 0]
    /\ terminalResult = FALSE /\ stop = FALSE /\ quiesce = "no"
    /\ at = "top" /\ pending = Nothing /\ tracked = FALSE
    /\ nextSequence = 1
    /\ board = NewScoreboard(MaxInflight, 1)
    /\ requests = {}
    /\ domain = [issued |-> 0, data |-> 0, target |-> 0, visible |-> 0, flush |-> "none"]
    /\ owed = 0 /\ back = "top"
    /\ troubles = 0 /\ failedOps = {} /\ covered = {} /\ visible = {} /\ reported = {}

-----------------------------------------------------------------------------
(* GPU threads.                                                             *)

Ended(t) == op[t] > Len(Program[t])
Calls(t, what) == ~Ended(t) /\ gpu[t] = "call" /\ (Program[t][op[t]] = "flush") = what

Returns(t) ==
    /\ gpu' = [gpu EXCEPT ![t] = "call"]
    /\ op' = [op EXCEPT ![t] = @ + 1]

\* flagcxFifoProducerTryEnter: one read-modify-write of the gate word.
Enter_uncounted(t) ==
    /\ Calls(t, FALSE)
    /\ active' = IF closed THEN active + 1 ELSE active
    /\ gpu' = [gpu EXCEPT ![t] = IF closed THEN "rejected" ELSE "entered"]
    /\ UNCHANGED <<produced, consumed, completed, terminalStatus, closed, fifo,
                   op, mine, flushed, commVars, workVars, netVars>>
Enter(t) ==
    /\ Calls(t, FALSE)
    /\ active' = active + 1
    /\ gpu' = [gpu EXCEPT ![t] = IF closed THEN "rejected" ELSE "entered"]
    /\ UNCHANGED <<produced, consumed, completed, terminalStatus, closed, fifo,
                   op, mine, flushed, commVars, workVars, netVars>>

\* A producer the closed gate rejects drops its reference and returns an error.
Reject_held(t) ==
    /\ gpu[t] = "rejected"
    /\ Returns(t)
    /\ UNCHANGED <<fifoVars, mine, flushed, commVars, workVars, netVars>>
Reject(t) ==
    /\ gpu[t] = "rejected"
    /\ active' = active - 1
    /\ Returns(t)
    /\ UNCHANGED <<produced, consumed, completed, terminalStatus, closed, fifo,
                   mine, flushed, commVars, workVars, netVars>>

Reserve(t) ==
    /\ gpu[t] = "entered"
    /\ mine' = [mine EXCEPT ![t] = produced]
    /\ produced' = produced + 1
    /\ gpu' = [gpu EXCEPT ![t] = "reserved"]
    /\ UNCHANGED <<consumed, completed, terminalStatus, closed, active, fifo,
                   op, flushed, commVars, workVars, netVars>>

\* The wait for space ends with space, or with the terminal error; the latter
\* leaves the reserved slot unpublished.
Space(t) ==
    /\ gpu[t] = "reserved"
    /\ \/ /\ terminalStatus
          /\ gpu' = [gpu EXCEPT ![t] = "leaving"]
       \/ /\ ~terminalStatus
          /\ mine[t] - consumed < FifoCapacity
          /\ gpu' = [gpu EXCEPT ![t] = "writing"]
    /\ UNCHANGED <<fifoVars, op, mine, flushed, commVars, workVars, netVars>>

Publish(t) ==
    /\ gpu[t] = "writing"
    /\ fifo' = [fifo EXCEPT ![mine[t] % FifoCapacity] = Program[t][op[t]]]
    /\ gpu' = [gpu EXCEPT ![t] = "leaving"]
    /\ UNCHANGED <<produced, consumed, completed, terminalStatus, closed, active,
                   op, mine, flushed, commVars, workVars, netVars>>

Leave(t) ==
    /\ gpu[t] = "leaving"
    /\ active' = active - 1
    /\ Returns(t)
    /\ UNCHANGED <<produced, consumed, completed, terminalStatus, closed, fifo,
                   mine, flushed, commVars, workVars, netVars>>

\* fifoFlush: the terminal status, then the snapshot of produced.
FlushBegin(t) ==
    /\ Calls(t, TRUE)
    /\ IF terminalStatus
       THEN Returns(t) /\ UNCHANGED mine
       ELSE /\ mine' = [mine EXCEPT ![t] = produced]
            /\ gpu' = [gpu EXCEPT ![t] = "flushing"]
            /\ UNCHANGED op
    /\ UNCHANGED <<fifoVars, flushed, commVars, workVars, netVars>>

FlushEnd(t) ==
    /\ gpu[t] = "flushing"
    /\ \/ /\ completed >= mine[t]
          /\ flushed' = [flushed EXCEPT ![t] = mine[t]]
       \/ /\ completed < mine[t] /\ terminalStatus
          /\ UNCHANGED flushed
    /\ Returns(t)
    /\ UNCHANGED <<fifoVars, mine, commVars, workVars, netVars>>

GpuStep(t) ==
    \/ Enter(t) \/ Reject(t) \/ Reserve(t) \/ Space(t) \/ Publish(t) \/ Leave(t)
    \/ FlushBegin(t) \/ FlushEnd(t)

-----------------------------------------------------------------------------
(* The network: completions of requests and flushes, and another context.   *)

Trouble == troubles < MaxTroubles /\ troubles' = troubles + 1

NicCompletes(r) ==
    /\ r.nic = "posted"
    /\ \/ /\ requests' = (requests \ {r}) \cup {[r EXCEPT !.nic = "ok"]}
          /\ UNCHANGED <<troubles, failedOps>>
       \/ /\ Trouble
          /\ requests' = (requests \ {r}) \cup {[r EXCEPT !.nic = "failed"]}
          /\ failedOps' = failedOps \cup {r.seq}
    /\ UNCHANGED <<fifoVars, gpuVars, commVars, at, pending, tracked, nextSequence,
                   board, domain, owed, back, covered, visible, reported>>

NicFlushes ==
    /\ domain.flush = "posted"
    /\ \/ /\ domain' = [domain EXCEPT !.flush = "ok"]
          /\ visible' = visible \cup covered
          /\ UNCHANGED troubles
       \/ /\ Trouble
          /\ domain' = [domain EXCEPT !.flush = "failed"]
          /\ UNCHANGED visible
    /\ UNCHANGED <<fifoVars, gpuVars, commVars, at, pending, tracked, nextSequence,
                   board, requests, owed, back, failedOps, covered, reported>>

OtherContextFails ==
    /\ ~terminalResult
    /\ Trouble
    /\ terminalResult' = TRUE
    /\ UNCHANGED <<fifoVars, gpuVars, stop, quiesce, workVars,
                   failedOps, covered, visible, reported>>

-----------------------------------------------------------------------------
(* The worker: polling (flagcxKernelProxyPoll).                             *)

Goto(s) == at' = s /\ UNCHANGED <<owed, back>>

\* flagcxKernelProxyPublishTerminal comes before flagcxKernelProxyAdvanceCompleted.
PublishTerminal(failed) ==
    /\ terminalResult' = (terminalResult \/ failed)
    /\ terminalStatus' = (terminalStatus \/ failed)

\* flagcxNetTrackCompletion of request q; the counter is advanced afterwards.
Complete(sb, q, failed, next) ==
    /\ board' = TrackCompletion(sb, {q}, failed)
    /\ owed' = board'.nextSequence - sb.nextSequence
    /\ back' = next
    /\ at' = "advance"

Advance ==
    /\ at = "advance"
    /\ completed' = completed + owed
    /\ at' = back
    /\ owed' = 0
    /\ UNCHANGED <<produced, consumed, terminalStatus, closed, active, fifo, gpuVars, commVars,
                   pending, tracked, transportVars, back, netVars>>

\* The requests that are polled for their CQE, and those that have one.
DataStage(r) == ~r.waitsFlush
Tested(r) == DataStage(r) /\ r.nic # "posted"

\* A request that is no GET to flush is completed with the CQE.
PollDone(r) ==
    /\ at \in {"top", "drain"}
    /\ Tested(r) /\ r.kind # "get"
    /\ LET failed == r.failed \/ r.nic = "failed"
       IN  /\ PublishTerminal(failed)
           /\ Complete(board, r.seq, failed, at)
    /\ requests' = requests \ {r}
    /\ UNCHANGED <<produced, consumed, completed, closed, active, fifo, gpuVars, stop, quiesce,
                   pending, tracked, nextSequence, domain, netVars>>

\* The data of a GET is complete, or has failed; it waits for its domain.
PollGetData(r) ==
    /\ at \in {"top", "drain"}
    /\ Tested(r) /\ r.kind = "get"
    /\ requests' = (requests \ {r}) \cup
           {[r EXCEPT !.waitsFlush = TRUE, !.failed = @ \/ r.nic = "failed"]}
    /\ UNCHANGED <<fifoVars, gpuVars, commVars, at, pending, tracked, nextSequence, board,
                   domain, owed, back, netVars>>

Gets(lo, hi) == {r \in requests : r.get \in lo .. hi}
FailGets(lo, hi) == {[r EXCEPT !.failed = @ \/ r.get \in lo .. hi] : r \in requests}

DataPrefix ==
    CHOOSE n \in domain.data .. domain.issued :
        /\ \A k \in domain.data + 1 .. n : \E r \in Gets(k, k) : r.waitsFlush
        /\ ~\E r \in Gets(n + 1, n + 1) : r.waitsFlush

\* A finished flush retires the range it covers, with its error if it failed.
PollFlush ==
    /\ at \in {"top", "drain"}
    /\ domain.flush \in {"ok", "failed"}
    /\ \E r \in requests : r.waitsFlush
    /\ domain' = [domain EXCEPT !.flush = "none", !.visible = domain.target]
    /\ requests' = IF domain.flush = "ok" THEN requests
                   ELSE FailGets(domain.visible + 1, domain.target)
    /\ failedOps' = IF domain.flush = "ok" THEN failedOps
                    ELSE failedOps \cup {r.seq : r \in Gets(domain.visible + 1, domain.target)}
    /\ UNCHANGED <<fifoVars, gpuVars, commVars, at, pending, tracked, nextSequence, board,
                   owed, back, troubles, covered, visible, reported>>

NeedsFlush == domain.flush = "none" /\ DataPrefix > domain.visible

\* The prefix is advanced and a flush for it posted; when no GET of the range
\* has succeeded there is nothing to flush.  The adaptor may ask to try again,
\* need no flush, or fail.
PostFlush(answer) ==
    /\ at \in {"top", "drain"}
    /\ \E r \in requests : r.waitsFlush
    /\ NeedsFlush
    /\ LET retry  == domain.target > domain.visible
           target == IF retry THEN domain.target ELSE DataPrefix
           range  == {r \in Gets(domain.visible + 1, target) : ~r.failed}
           landed == {r.seq : r \in {x \in requests : x.get # 0 /\ x.nic = "ok"}}
           d      == [domain EXCEPT !.data = DataPrefix]
       IN  CASE range = {} ->
                  /\ answer = "skip"
                  /\ domain' = [d EXCEPT !.visible = DataPrefix, !.target = DataPrefix]
                  /\ UNCHANGED <<requests, troubles, failedOps, covered, visible>>
             [] range # {} /\ answer = "posted" ->
                  /\ domain' = [d EXCEPT !.target = target, !.flush = "posted"]
                  /\ covered' = landed
                  /\ UNCHANGED <<requests, troubles, failedOps, visible>>
             [] range # {} /\ answer = "unneeded" ->
                  /\ domain' = [d EXCEPT !.target = target, !.visible = target]
                  /\ visible' = visible \cup landed
                  /\ UNCHANGED <<requests, troubles, failedOps, covered>>
             [] range # {} /\ answer = "again" ->
                  /\ Trouble
                  /\ domain' = [d EXCEPT !.target = target]
                  /\ UNCHANGED <<requests, failedOps, covered, visible>>
             [] range # {} /\ answer = "fails" ->
                  /\ Trouble
                  /\ domain' = [d EXCEPT !.target = target, !.visible = target]
                  /\ requests' = FailGets(domain.visible + 1, target)
                  /\ failedOps' = failedOps \cup {r.seq : r \in Gets(domain.visible + 1, target)}
                  /\ UNCHANGED <<covered, visible>>
             [] OTHER -> FALSE
    /\ UNCHANGED <<fifoVars, gpuVars, commVars, at, pending, tracked, nextSequence, board,
                   owed, back, reported>>

\* A GET in the visible prefix is completed.
PollGetDone(r) ==
    /\ at \in {"top", "drain"}
    /\ r.waitsFlush /\ r.get <= domain.visible
    /\ PublishTerminal(r.failed)
    /\ Complete(board, r.seq, r.failed, at)
    /\ requests' = requests \ {r}
    /\ reported' = IF r.failed THEN reported ELSE reported \cup {r.seq}
    /\ UNCHANGED <<produced, consumed, completed, closed, active, fifo, gpuVars, stop, quiesce,
                   pending, tracked, nextSequence, domain, troubles, failedOps, covered, visible>>

\* Nothing more for this pass of flagcxKernelProxyPoll to do.
Polled ==
    /\ ~\E r \in requests :
           Tested(r) \/ (r.waitsFlush /\ (r.get <= domain.visible \/ NeedsFlush
                                          \/ domain.flush \in {"ok", "failed"}))

-----------------------------------------------------------------------------
(* The worker: descriptors (flagcxKernelWorkerProgressOnce).                *)

\* The stop, the terminal error of any context, and the next descriptor.
Look ==
    /\ at = "top" /\ Polled
    /\ \/ /\ stop
          /\ requests = {}
          /\ Goto("finish")
          /\ UNCHANGED <<terminalStatus, fifo, pending>>
       \/ /\ ~stop /\ terminalResult
          /\ terminalStatus' = TRUE
          /\ Goto("finish")
          /\ UNCHANGED <<fifo, pending>>
       \/ /\ ~stop /\ ~terminalResult /\ pending # Nothing
          /\ Goto("submit")
          /\ UNCHANGED <<terminalStatus, fifo, pending>>
       \/ /\ ~stop /\ ~terminalResult /\ pending = Nothing
          /\ produced # consumed
          /\ fifo[consumed % FifoCapacity] # Nothing
          /\ pending' = fifo[consumed % FifoCapacity]
          /\ fifo' = [fifo EXCEPT ![consumed % FifoCapacity] = Nothing]
          /\ Goto("submit")
          /\ UNCHANGED terminalStatus
    /\ UNCHANGED <<produced, consumed, completed, closed, active, gpuVars, commVars,
                   tracked, transportVars, netVars>>

\* flagcxKernelProxyTrackNext: the scoreboard may have no room yet.
Sequence == IF tracked THEN nextSequence - 1 ELSE nextSequence
Board == IF tracked THEN board ELSE TrackSubmit(board, nextSequence)
CanTrack == tracked \/ TrackSubmitResult(board, nextSequence) = "success"
Track ==
    /\ tracked' = TRUE
    /\ nextSequence' = Sequence + 1

ReleaseReady_always == TRUE
ReleaseReady == board.nextSequence = Sequence

\* The next pass tries again.
Wait ==
    /\ at = "submit"
    /\ Goto("top")
    /\ \/ /\ ~CanTrack
          /\ UNCHANGED <<tracked, nextSequence, board>>
       \/ /\ CanTrack /\ pending \in Release /\ ~ReleaseReady /\ ~board.firstError
          /\ Track /\ board' = Board
    /\ UNCHANGED <<fifoVars, gpuVars, commVars, pending, requests, domain, back, netVars>>

\* The request table or the staging slots may be full.
HasRoom ==
    /\ Cardinality(requests) < MaxInflight
    /\ pending = "putvalue" =>
           Cardinality({r \in requests : r.kind = "putvalue"}) < StagingSlots

Admitted ==
    /\ at = "submit" /\ CanTrack
    /\ pending \in Release => ReleaseReady
    /\ ~(pending \in Release /\ board.firstError)

Consume ==
    /\ consumed' = consumed + 1
    /\ pending' = Nothing
    /\ tracked' = FALSE
    /\ nextSequence' = Sequence + 1

\* flagcxKernelProxyPost: a request is returned, possibly with an error, or a GET
\* is done without one and waits for its flush only, or the adaptor has no room
\* yet.
Post ==
    /\ Admitted /\ pending \in Native
    /\ \/ /\ HasRoom
          /\ \E failed, now \in BOOLEAN :
                 /\ now => pending = "get" /\ ~failed
                 /\ IF failed THEN Trouble ELSE UNCHANGED troubles
                 /\ requests' = requests \cup
                        {[seq |-> Sequence, kind |-> pending, failed |-> failed,
                          nic |-> IF now THEN "ok" ELSE "posted", waitsFlush |-> now,
                          get |-> IF pending = "get" THEN domain.issued + 1 ELSE 0]}
                 /\ failedOps' = IF failed THEN failedOps \cup {Sequence} ELSE failedOps
                 /\ PublishTerminal(failed)
          /\ domain' = IF pending = "get" THEN [domain EXCEPT !.issued = @ + 1] ELSE domain
          /\ Consume
       \/ /\ ~HasRoom \/ troubles < MaxTroubles
          /\ troubles' = IF HasRoom THEN troubles + 1 ELSE troubles
          /\ Track
          /\ UNCHANGED <<requests, domain, consumed, pending, failedOps,
                         terminalResult, terminalStatus>>
    /\ board' = Board
    /\ Goto("top")
    /\ UNCHANGED <<produced, completed, closed, active, fifo, gpuVars, stop, quiesce, back,
                   covered, visible, reported>>

\* What is not posted completes at once: a counter, a descriptor the proxy has
\* nothing to do for, an operation that succeeds without a request, a post that
\* fails, a release behind an error.
Immediate ==
    /\ at = "submit" /\ CanTrack
    /\ \E failed \in BOOLEAN :
           /\ \/ /\ pending \in Release /\ board.firstError
                 /\ failed
                 /\ UNCHANGED troubles
              \/ /\ Admitted /\ pending \in Native
                 /\ failed
                 /\ Trouble
              \/ /\ Admitted /\ pending # "get"
                 /\ pending \in Native => HasRoom
                 /\ ~failed
                 /\ UNCHANGED troubles
           /\ PublishTerminal(failed)
           /\ failedOps' = IF failed THEN failedOps \cup {Sequence} ELSE failedOps
           /\ Complete(Board, Sequence, failed, IF failed THEN "finish" ELSE "top")
    /\ Consume
    /\ UNCHANGED <<produced, completed, closed, active, fifo, gpuVars, stop, quiesce,
                   requests, domain, covered, visible, reported>>

-----------------------------------------------------------------------------
(* The worker: its end (flagcxKernelWorkerFinish).                          *)

\* The local terminal word, then the gate.
CloseGate ==
    /\ terminalStatus' = TRUE
    /\ closed' = TRUE
    /\ Goto("gate")

Finish ==
    /\ at = "finish"
    /\ IF terminalResult THEN CloseGate
       ELSE Goto("drain") /\ UNCHANGED <<terminalStatus, closed>>
    /\ UNCHANGED <<produced, consumed, completed, active, fifo, gpuVars, commVars,
                   pending, tracked, transportVars, netVars>>

GateWait ==
    /\ at = "gate"
    /\ active = 0
    /\ Goto("drain")
    /\ UNCHANGED <<fifoVars, gpuVars, commVars, pending, tracked, transportVars, netVars>>

AllRetired_no == TRUE
AllRetired == requests = {}

DrainEnd ==
    /\ at = "drain"
    /\ AllRetired
    /\ IF ~terminalResult THEN Goto("finished") /\ UNCHANGED <<terminalStatus, closed>>
       ELSE IF closed THEN Goto("finalize") /\ UNCHANGED <<terminalStatus, closed>>
       ELSE CloseGate
    /\ UNCHANGED <<produced, consumed, completed, active, fifo, gpuVars, commVars,
                   pending, tracked, transportVars, netVars>>

\* flagcxKernelProxyFinalizeTerminalFifo: refused when it meets a reference.
Finalize ==
    /\ at = "finalize"
    /\ IF active = 0
       THEN consumed' = produced /\ completed' = produced
       ELSE UNCHANGED <<consumed, completed>>
    /\ Goto("finished")
    /\ UNCHANGED <<produced, terminalStatus, closed, active, fifo, gpuVars, commVars,
                   pending, tracked, transportVars, netVars>>

-----------------------------------------------------------------------------
(* The host: defaultCommQuiesce once the kernels have ended, and the stop.  *)

Quiesce ==
    /\ quiesce = "no"
    /\ \A t \in Thread : Ended(t)
    /\ \/ completed = produced /\ quiesce' = "ok"
       \/ completed # produced /\ terminalResult /\ quiesce' = "error"
    /\ UNCHANGED <<fifoVars, gpuVars, terminalResult, stop, workVars, netVars>>

\* It also ends with an error of the RMA proxy or of the proxy threads, which
\* nothing else here looks at.
QuiesceFindsError ==
    /\ quiesce = "no"
    /\ \A t \in Thread : Ended(t)
    /\ completed # produced
    /\ Trouble
    /\ quiesce' = "error"
    /\ UNCHANGED <<fifoVars, gpuVars, terminalResult, stop, workVars,
                   failedOps, covered, visible, reported>>

Stop ==
    /\ quiesce # "no" /\ ~stop
    /\ stop' = TRUE
    /\ UNCHANGED <<fifoVars, gpuVars, terminalResult, quiesce, workVars, netVars>>

Over == at = "finished" /\ stop /\ (\A t \in Thread : Ended(t))
Done == Over /\ UNCHANGED vars

WorkerStep ==
    \/ \E r \in requests : PollDone(r) \/ PollGetData(r) \/ PollGetDone(r)
    \/ PollFlush
    \/ \E a \in {"skip", "posted", "unneeded", "again", "fails"} : PostFlush(a)
    \/ Advance \/ Look \/ Wait \/ Post \/ Immediate
    \/ Finish \/ GateWait \/ DrainEnd \/ Finalize

NicStep == NicFlushes \/ \E r \in requests : NicCompletes(r)

Next ==
    \/ WorkerStep
    \/ NicStep
    \/ OtherContextFails
    \/ \E t \in Thread : GpuStep(t)
    \/ Quiesce \/ QuiesceFindsError \/ Stop \/ Done

Spec == Init /\ [][Next]_vars

\* GPU threads and the worker run, the NIC answers, the host goes on; nothing is
\* obliged to go wrong elsewhere.
LiveSpec ==
    /\ Spec
    /\ WF_vars(WorkerStep) /\ WF_vars(NicStep) /\ WF_vars(Quiesce) /\ WF_vars(Stop)
    /\ \A t \in Thread : WF_vars(GpuStep(t))

-----------------------------------------------------------------------------
(* Properties.                                                              *)

\* A signal reaches the NIC only when every earlier descriptor of the FIFO has
\* completed, and none has failed: the peer never sees the flag before the data.
SignalAfterData ==
    \A r \in requests : r.kind = "signal" =>
        /\ \A e \in requests : e.seq >= r.seq
        /\ \A q \in failedOps : q >= r.seq

\* A flush that has returned success, and a quiesce that has, leave no native
\* request of the descriptors before it in flight: neither the counter nor the
\* terminal finalisation runs ahead of the NIC, so memory may be released.  A GET
\* that the counter counts as a success was covered by a flush of the NIC, so
\* the thread that waited sees what it fetched.
FlushedIsRetired ==
    /\ \A t \in Thread, r \in requests : r.seq > flushed[t]
    /\ quiesce = "ok" => requests = {}
    /\ reported \subseteq visible

\* Once the gate has been waited for, no GPU thread holds a slot of the FIFO it
\* could still publish: the snapshot of produced that ends the FIFO is final.
GateExcludesProducers ==
    (closed /\ at \in {"drain", "finalize", "finished"}) =>
        \A t \in Thread : gpu[t] \notin {"entered", "reserved", "writing", "leaving"}

\* No GPU thread is left waiting for space or for completions, the quiesce
\* returns and the worker ends, whatever fails and in whichever context.
EverythingEnds == <>Over
=============================================================================
