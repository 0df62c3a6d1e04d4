# A TLA+ model of FlagCX

FlagCX is a communication library for clusters of mixed accelerators. Within a
cluster of one vendor it calls the vendor's collective library; between clusters
it moves the data itself, with proxy threads that drive shared memory, RDMA and
sockets. This project models that part, FlagCX's own protocols, in TLA+: each
module translates one component, TLC explores its interleavings on small
instances, and TLAPS proves the main safety properties for every instance.

Contents

1. The system
2. What is modelled: modules, state, actions
3. The runs
4. Fairness
5. What is proved
6. Disagreements between the code and what it says of itself
7. What is only model-checked, what is not modelled
8. Plan


## 1. The system

### Parts and how they interact

An application thread calls `flagcxSend`/`flagcxRecv` between `flagcxGroupStart`
and `flagcxGroupEnd`. `groupLaunch` (`core/group.cc`) connects the peers that are
not connected, turns every send and receive into a proxy operation, saves the
operations on the proxy's producer queues and puts a host function (or a device
kernel) on the user's stream that holds the stream back until the operations are
over. The proxy of a rank (`core/proxy.cc`) consists of a *service thread*, which
answers control messages (setup, connect, register) over a local socket, and of
*workers* of a `flagcxWorkerPool` (`core/worker_pool.cc`), which make progress: one
for two-sided operations, others for kernel-initiated ones. A worker takes each
operation to its transport: shared device memory within a node (`core/p2p.cc`) or
the network (`core/net.cc` over `adaptor/net/*`). When a communicator is destroyed
the service thread retires the workers and frees the connections.

    application thread      stream             service thread
      groupLaunch --------> host function        control RPC, teardown
          | SaveProxy         ^ semaphore           | start / retire
          v                   v                     v
      producer queues --> progress thread (worker pool) --> P2P / NET transport
                                                             ^ shared memory, wire
                                                             v
                                                         peer's progress thread

### Inventory

| component | state it keeps | operations | what is hard about it | what makes it correct |
|---|---|---|---|---|
| worker pool (`worker_pool.cc`) | registrations, per worker stop, init and join flags, result | start, requestStop, join, stopAndJoin, retire, requestStopAll, joinAll, destructor; the thread's loop | control calls of several threads against each other and against threads that start, drain and exit; `pthread_join` that fails | nothing a live thread uses is released; a stop reaches every worker; success means drained; no call blocks for ever |
| P2P data path (`p2p.cc`) | slots and registration records in shared memory, FIFO in device memory, per-operation counters | one call of `flagcxP2pProxySend`/`Recv` on the head operation, again and again | two processes, publication by several stores, asynchronous copies, slot and ring reuse | the sides agree on a path, the data arrive, both finish |
| P2P teardown (`proxy.cc`, `p2p.cc`) | connection pool, imports, backing FIFOs, acknowledgement flag | retire workers, two cleanup passes | ranks end in any order; one waits for another; failures and timeouts | no use after free; no cycle of waiting; success means clean |
| group launch and collective progress (`group.cc`, `proxy.cc`) | producer and consumer queues, first error | save, take over, progress, retire | application thread, progress thread and stream at once; groups and steps queued together; an error at any point | a stream waits for exactly its operations; order of steps; errors wake everybody |
| host semaphore (`launch_kernel.h`) | per-opId counters, start flag, events | addCounter, signalStart, subCounter, pollStart, pollEnd, wait | counters changed by two threads; lifetime | exact counts; outlives its users |
| proxy control RPC (`proxy.cc`) | expected responses, per-peer sockets, deferred requests | call, poll response, service loop | abandoned calls, ids that are reused addresses, a write that fails after delivery | a response reaches its own request only |
| NET transport (`net.cc`, `coll_proxy_transport.cc`) | step counters, requests, staging slots, completion scoreboard | copy, post, poll, flush, retire | completions out of order, slots reused in order, adaptor busy at any call | what was sent arrives; nothing is reused before its chunk is over |
| PXN relay (`net.cc`, `proxy.cc`) | leased slots, cancels, mapping of the peer's pool | lease, send, cancel, release | a request that may or may not have been delivered; the end of two processes | a slot has one user; the pool outlives its users |
| IB retransmission (`ibuc_adaptor.cc`, `ib_retrans.cc`) | sequence numbers, entries of unacknowledged messages, receive slots with generations | post, send, poll, acknowledge, time out, resend | loss, sequence numbers and generations that wrap, a late retry for a slot in its next use | a completed send arrived; the source is kept until then |
| one-sided operations (`flagcx_hetero.cc`) | a ring per peer, scoreboards, release groups, visibility domains, error and quiesce flags | put, get, signal, batch, stream operations, flush, waitCounter, quiesce; the progress thread | threads, streams, progress thread and NIC at once; errors in the middle of a group | a signal follows its data; a wait covers what it says; nothing waits for ever |
| kernel proxy (`kernel_proxy_transport.cc`, `proxy.cc`, device FIFO) | FIFO in host memory, producer gate, requests, scoreboard | enqueue, flush (GPU); poll, consume, post, finish (worker); quiesce, stop (host) | GPU threads pass the gate while it closes; FIFO full; errors of other contexts | every accepted entry completes; a flush covers the thread's entries |
| bootstrap (`bootstrap.cc`) | ring of sockets, listen queue, list of unexpected connections | init, send and receive with a tag, collectives | connections that arrive before they are wanted; small or large payloads | a message reaches the receive with its tag; the collectives compute what they say |
| memory registration (`reg_pool.cc`) | items, reference counts, page maps, handles of each communicator | register, deregister, use, destroy | overlapping ranges extend an item; communicators share it; a deregistration that fails | both maps agree; a buffer in use is found and stays mapped |
| symmetric heap (`sym_heap.cc`) | windows, mappings, exchanged registrations | allocate, register, converge | a failure on one rank | all ranks take the same decision |
| device semaphore pool (`launch_kernel.h`) | slots in host-mapped memory, events | acquire, release | reuse guarded by events | no slot in use twice |
| transport setup (`transport.cc`) | connectors | select, setup, connect | | |
| P2P engine (`flagcx_p2p*.cc`, `p2p_engine_*.cc`) | endpoints, metadata exchange, transfers | connect, accept, read, write, poll | a second product with its own control plane | |
| uni-runner (`runner/uni_runner*.cc`, reduction kernel) | graph of nodes with the parents still to end, ready and in-flight queues, event pool, FIFO of the kernel | build a graph, launch, observe, free, end the kernel, clean up | every rank builds its graph alone; slices of uneven size overlap; events and FIFO slots run out; a call fails while the kernel polls | every contribution arrives once; nothing is read or overwritten too early; messages match; every call returns |
| other runners and algorithms (`runner/*`) | schedules | refresh steps, run | arithmetic over cluster sizes | |
| init, topology, tuner, adaptors, plugins | | | calls into drivers and vendor libraries | |

`PROJECT.json` lists the same components with their files, and all hazards with
the line where each one bites and the properties aimed at it.


## 2. What is modelled

Paths are under `src/flagcx/core/` (`include/` for headers) unless they name another
directory; `bootstrap.cc` is in `service/`, the IB files in `adaptor/net/`. `PROJECT.json`
maps every definition to its lines.

### WorkerPool (`worker_pool.cc`, `worker_pool.h`)

One variable per member of `Worker` (`stop`, `initDone`, `initResult`, `result`,
`retiring`, `joined`, `joinMutex`) and of the pool (`stopping`, `registered`), the
position of every worker thread in `run()`, and a program counter with the locals
for every control thread. A step is one critical section, one access to an atomic
or one callback.

| code | actions |
|---|---|
| `start` | `StartRegister`, `StartAwait`, `StartDecide`, then the join steps and `CheckJoined`, `Erase` when the worker did not come up |
| `Worker::requestStop`, `join`, `stopAndJoin` | `CallRequestStop`, `CallJoin`, `CallStopAndJoin`; `RequestStop`, `JoinAcquire`, `JoinThread`, `JoinFails` |
| `retire` | `CallRetire`, join steps, `CheckJoined`, `Erase` |
| `requestStopAll`, `joinAll`, destructor | `CallRequestStopAll`, `CallJoinAll`, `CallDestroy`, `JoinAllSnapshot`, `JoinAllNext`, `JoinAllReturn` |
| `Worker::run` | `RunInit`, `RunLoadStop`, `RunPass`, `RunPassFails`, `RunFinish`, `RunStore` |
| the business behind the callbacks | `Submit`: work is accepted until a pass has reported nothing outstanding on a stop, so also between the reading of `stop_` and that pass |

The mutex held while `pthread_join` blocks (`joinMutex_`) is explicit; the others
are never held across a wait and are part of the step. `workers_` is a set. The
preconditions that `worker_pool.h` states (no control call from a callback, no use
of a retired handle, nothing but the destructor during destruction) are guards.

### P2pSlot (`p2p.cc`, `p2p.h`, `p2p_transport.cc`)

The two ends of one connection process the same sequence of operations. State:
both sides' slots (`opHash`, `done`, `peerDone`, `sendHead`/`recvTail`) and
registration records (`offerReady`, address, flags), the operation at the head of
each queue, the transfer plan, the progress counters, and on the device side the
content of the FIFO and of the receive buffers. A chunk's content is the pair
(operation, index), so delivery of wrong or stale data shows.

| code | actions |
|---|---|
| `setP2pSlotInfo` | `OpHashCounter`, `OpHash`, `SlotIdx` |
| `resetSlot`, slot checks at the top of a call | `ResetReg`, `PublishSlot` with `ResetSlot`, `OwnsSlot`, `CheckPeer` |
| offers and plan | `PublishOffer` with `Offer`, `ResolvePlan` with `TransferPlan` |
| FIFO transfer | `MoveFifo`, `DeviceCopy`, `EventDone`, `EventPending` (the receiver publishes `recvTail` there, `RecvTail`) |
| zero-copy transfer | `MoveZeroCopy`, `AwaitCopyDone` |
| end of an operation | `MarkDone`, `Complete`, and `Dequeue` in `progressOps` |

A step is one publication to, or one observation of, shared memory. Abstracted:
sizes (an operation has a number of chunks), what a registration consists of (an
offer is registered, not registered, or registered and not importable), streams
and events (a copy is enqueued, executed by the device later, observed later).

### P2pTeardown (`proxy.cc` service thread end, `p2p.cc` resource release)

Ranks and connections are sets. Per rank: the phase of the service thread, the
connections its current pass has still to visit, whether its workers run, the first
error. Per connection: whether it was set up completely, whether the segment with the
synchronisation flags exists and the receiver has it attached, whether the sender has
the FIFO mapped, whether the receiver has it allocated, whether
`fifoImportClosed` is set, and whether device work of either end is under way.
`RetireWorkers`, `NextVisit`, `NextPass` are the service thread's loop;
`CloseImport`, `Acknowledge`, `CloseFails` the sender's cleanup; `Release`,
`ReleaseNothing`, `ReleaseUnattached`, `ReleaseTimesOut`, `ReleaseFails` the receiver's.
An acknowledgement is published only where the segment is mapped, and a receiver without it
cannot wait for one;
`EnqueueWrite`, `EnqueueRead`, `DrainWrites`, `DrainReads` the copies under way
(the drains belong to the device and are external). A visit blocks its rank's
thread, as the code does. A pool is visited in any order.

### GroupSchedule and ProxyProgress (`init.cc`, `group.cc`, `proxy.cc`, `launch_kernel.h`)

*GroupSchedule* has operators only. `P2pSchedule` are the rounds that `initTransportsRank`
gives a rank: nodes and ranks at the distances `Deltas`, sends forward and receives
backward, and one flat list where nodes have different sizes (`Flat`). `GroupOps` is what
`groupLaunch` makes of the tasks of a group: the self copy (`SelfOps`), then per round a
receive and a send (`RecvOps`, `SendOps`) with an opId per node distance (`RoundOpId`) and a
step counted within it (`RoundStep`). `Ordered` puts them in the order in which they are built
(`BuiltBefore`) or saved, by their steps (`SavedBefore`).

*ProxyProgress* runs programs of groups on one or several ranks. `GroupLaunch`,
`SaveEnqueue`, `SaveRefused` and `LaunchHostFunc` are the application thread in `groupLaunch`
and `SaveProxy`; the check of `SaveProxy` and its enqueue are told apart only by an error
that comes in between (`saving`). `SignalStart`, `WaitScan`, `WaitOpen`, `WaitReturn` are
`cpuAsyncKernel` with the host semaphore's `wait()`, one signal per step; `GetPostedOps` and
`RetirePostedOps` take over the producer queues; `OpCompletes`, `OpFails`, `RemoveHead`,
`RetireQueue` are a pass of `progressOps` over one queue. The transport is external: an
operation that may start is over at some later pass, when its other side has started as
well (`PeerReady`; an eager send does not wait), or reports a hard error. `curStep` is the
counter of the semaphore with the code's own encoding (it starts at -1, `signalStart` makes
it 0, `wait()` marks a counted signal with one more increment), because the correctness of
the count depends on it.

### Transfer

The abstract specification of a point-to-point transport: `data`, what every chunk
of every receive buffer holds, and `over`, how many operations each side has
finished. A chunk is written once, with the chunk of its own send; a receive is over
only when all its chunks are there; operations are over in order. `P2pSlot` and
`NetPipeline` both implement it (`ImplementsTransfer`).

### Scoreboard (`adaptor/net/net_transport.cc`, `adaptor/include/net_transport.h`)

Operators, no state of its own: a window of sequence numbers with a status each
(`TrackSubmit`, `TrackCancel`, `TrackCompletion`, `Retire`), of which the contiguous
completed prefix is retired, and the release group of a put-with-signal
(`SealedGroup`, `GroupComplete`, `ReleaseAllowed`). Used by the next three modules.

### NetPipeline (`net.cc`, `coll_proxy_transport.cc`)

The proxy threads of the two ends of a network connection. `pc` is the stage of the
call of `flagcxProxySend`/`Recv` that is under way; the device and the network move
between two stages of one call.

| code | actions |
|---|---|
| `flagcxProxySend` | `SendCopy`, `SendReady`, `Isend`, `SendPoll` |
| `flagcxProxyRecv` | `Irecv`, `RecvPoll`, `FlushReady`, `Flush`, `FlushDone`, `RecvCopy`, `RecvCopied`, `RecvRetire` |
| both | `SkipStage` (a stage has nothing to do), `TestFails`, `FlushFails` (a hard error of `iflush` or of the test of a flush), `Finish` |
| collective proxy transport | `TrackNext`, `Cancel`, `Complete`, `RetiredBy` |
| device and network (external) | `DeviceCopy`, `NetMove`, `NetFlush` |

`isend`, `irecv` and `iflush` answer with a request, with none ("try again"), or with an
error; the requests of one poll complete in any subset. Data written by the network
are in `landed` until a flush, where the visibility policy demands one.

### RmaProxy (`flagcx_hetero.cc`, `include/flagcx_hetero.h`)

Application threads run a program of calls; a call goes through `NextCall`, `Acquire`
(the producer mutex and the checks under it), `Publish` or `Yield` (a full ring) and,
over a stream, `StreamStep`. The progress thread's pass over a peer is
`PollOne`, `PollEnd`, `TestFlush`, `PostFlush`, `RetireGets`, `RetireAtEvent`, `Post`,
`PostFails`, `Count`, `SubmitEnd`, `Drain`, and `EndPass` after the last peer.
`Flush`, `WaitCounter` and `Quiesce` are the waiting calls. `Post` and `Count` are two
steps because the code stores `cis` before it adds to `inFlights`, and `Quiesce` reads the
ring and then the count, in two steps as well (section 6).
All puts of the checked program are off the stream: `readySeqs` is one number per peer,
and a put over a stream that is followed by one that is not would make the second one's
number count the first one as ready. The instance stays inside the use the code is
made for, in which a peer's producers do one or the other.

### IbucRetrans (`ibuc_adaptor.cc`, `ib_retrans.cc`)

| code | actions |
|---|---|
| `flagcxIbucIrecv`, polling and tests of the receiver | `Irecv`, `ProcessNotification`, `ProcessChunk`, `TestRecv` |
| `flagcxIbucIsend`, polling and tests of the sender | `Isend`, `ProcessAck`, `CompleteChunk`, `TestSend` |
| timeouts | `Retransmit`, `Continue` (the window of chunks), `GiveUp` |
| network (external) | `DeliverData`, `LoseData`, `Deliver`, `Lose`, `DeliverChunk` |

The data of a message and its notification are two work requests, and each can be lost
without the other (`written`, `uc`). Sequence numbers are modulo `SeqMod`, generations modulo
`GenMod`, with the code's comparisons. `TimelySpec` restricts the network in one respect: nothing
waits in the receiver's completion queue while `GenMod - 1` or `SeqMod - 1` receives are posted
after its own (`Timely`), 4095 with the code's fields of 12 bits. The condition is tight: with
four messages through one slot and moduli of 3 TLC agrees, and finds `AcknowledgedIsReceived`
violated when it is relaxed by one. One assumption is left: the write that announces a receive arrives,
since the code never repeats it.

### PxnRelay (`net.cc`, `proxy.cc`)

A source rank and the relay of its node, with the control RPC between them (call,
expected responses, cached responses, a socket whose write may fail after delivery).
Source: `Lease`, `LeaseReply`, `Copy`, `CopyCompleted`, `Send`, `SendReply`, `ReplyLost`,
`Cancel`, `CancelReply`, `CancelLost`, `FailOther`, `Retire`, `Abandon`, and at the end
`CloseImport`, `Release`, `ReleaseReply`, `StopRpc`. Relay: `Receive`, `Progress` with
`ServeLease`, `ServeSend`, `ServeCancel`, `ServeRelease`, `ConnectionFails`, `RelayFails`,
`DropPeer`, `FreePool`. External: `CopyLands`, `NicReads`. One of the waits of
`ServeCancel` is unreachable: a cancel is only sent when the lease or send before it has
been answered or refused.

### RegPool (`reg_pool.cc`, `flagcx.cc`, `net.cc`, `p2p.cc`, `init.cc`)

The pool is one record `pool` (items, map by first page, page maps, imported mappings);
each operation of `reg_pool.cc` is an operator from pool to pool (`RegisterBuffer` with
`Create` and `Extend`, `DeregisterBuffer` with `Uncounted` and `Unmapped`, `Destroy`,
`RemoveNet`, `RemoveP2p`) and each public call is an action: `Register`, `Deregister`,
`NetUse` and `P2pUse` (a transport attaches its handle), and `DestroyComm`.
Deregistrations of handles may fail. A registration may overlap any number of items, as in
the code; `bridged` remembers that one has overlapped two, after which the maps no longer agree
(section 6).

### Bootstrap (`bootstrap.cc`, `sym_heap.cc` convergence)

`CheckIn`, `RootAccept`, `RootTell`, `RingConnect`, `RingAccept` are the rendezvous. A
collective is a list of blocking steps (`AllGather`, `ReduceScatter`, `AlltoAll`,
`Barrier`, `Broadcast`, `Gather`, `Scatter`, `Exchange`, `Converge`); `Enter`, `Send`,
`SendReturns`, `RecvRing`, `Accept`, `Dequeue`, `NextStep` run them and `Close` ends. A
block of data is a bag of contributions, so a sum that counts a rank twice shows.
`BroadcastBootstrap` sends what `ScatterBootstrap` sends (section 6), so `Scatter`
stands for both.

### KernelProxy (`proxy.cc`, `kernel_proxy_transport.cc`, `default_comm_traits.h`)

GPU threads: `Enter`, `Reject`, `Reserve`, `Space`, `Publish`, `Leave`, `FlushBegin`,
`FlushEnd`. Worker: `Look`, polling (`PollDone`, `PollGetData`, `PollFlush`, `PostFlush`,
`PollGetDone`, `Polled`), `Advance` (publishes the counter), `Track`, `Wait`, `Consume`,
`Post`, `Immediate`, and its end (`CloseGate`, `Finish`, `GateWait`, `DrainEnd`,
`Finalize`). An operation may succeed without a native request: it is over at once
(`Immediate`), or, a GET, waits for its flush alone (`Post`). Host: `Quiesce`,
`QuiesceFindsError` (the RMA proxy or a transport has failed), `Stop`. External:
`NicCompletes`, `NicFlushes`, `OtherContextFails`.

### UniDag and UniRunner (`runner/uni_runner.cc`, `runner/uni_runner_impl.cc`, `flagcx_reduce_kernel_host.cc`, `adaptor/kernel/nvidia/flagcx_reduce_kernel_device.cu`)

`UniDag` has no state: a call is a record (algorithm, ranks, count, numbers of slices), and
`Dag(c, r)` is the graph that rank `r` builds for it. `LocRed`, `RingAG`, `RingAR`,
`SlicedAR`, `RingRS` and `TreeRed` are the builders `initUniRunnerState...`, with the code's
numbering of nodes, counts of parents and lists of children; `GroupOps` are the
collectives that are one group of sends and receives. `RingAR` is the graph of `SlicedAR`
with one reduction per step: the code writes it twice.

| code | actions |
|---|---|
| `processReadyQueue`, `launchP2pOps`, `enqueue` | `ProcessReadyQueue` with `Launch` and `Enqueue`; `LaunchFails`, before anything is on the stream or when only the recording of the event fails |
| `processInflightQueue`, `enqueueReadyQueue`, `resetEvent` | `ProcessInflightQueue` with `Freed` and `ResetEvents`; `QueryFails` |
| end of `runUniRunner`, `cleanupUniRunner` | `RunnerEnds`, `Return`; `GiveUp` after an error |
| `flagcxRunnerRunGroup` | `RunGroup` |
| `flagcxCollectiveKernel` | `KernelDequeue`, `KernelReduces`, `KernelEnds`, for each block |
| streams and network (external) | `Rendezvous`, `EagerSend`, `EagerRecv`, `CopyEnds`, `Abandon` |

An element of a buffer is a bag of contributions (rank, index), so a sum that misses or
repeats one shows. A pass that finds nothing to do is left out. The kernel takes its slot
with a mask of the capacity minus one and the host with a remainder, so the capacity is
assumed to be a power of two; the code does not check it.


## 3. The runs

| run | instance | distinct states | checks |
|---|---|---|---|
| `lifecycle` | the worker pool (1 worker, 2 callers, 1 operation, 1 failing join), the teardown (2 ranks that send to each other, failures and timeouts, connections without a segment) and the bootstrap (3 ranks, 7 programs of calls, payloads eager or not) | 73,675 | `ThreadIsRegistered`, `SuccessRetiresWork`, `JoinAllQuiesces`, `CallsReturn`; `NoUseAfterFree`, `SuccessMeansClean`, `TeardownEnds`; `ResultsAreRight`, `BarrierHolds`, `CollectivesReturn` |
| `p2p_slot_plans` | 3 operations of one key, 3 chunks each, 2 slots, FIFO of 2, every mix of offers | 560,405 | `PlansAgree`, `CompletionIsMutual`, `ImplementsTransfer`, `OperationsComplete` |
| `proxy_groups` | 7 programs: 1 rank with 1 or 2 groups and a hard error at any point; 2 or 3 ranks that wait for one another, up to all-to-all | 147,457 | `StreamWaitsForGroup`, `StepsInOrder`, `EverythingEnds` |
| `net_pipeline` | operations of 3 and 1 chunks, window of 2, registered or not, flush or not, failures | 173,556 | `ImplementsTransfer`, `TransfersEnd` |
| `rma` | 1 peer, ring of 2, batches of 2, 1 failure; 2 threads, 8 calls | 179,117 | `SignalAfterData`, `NoLiveRequestBehindWaiter`, `GetVisibleWhenDone`, `CallsReturn` |
| `ibuc` | 2 messages, 2 slots, 2 chunks, sequence numbers modulo 8, generations modulo 4, 1 retry, 2 losses of data or notification | 144,615 | `AcknowledgedIsReceived`, `SourceHeld`, `CopiesHitTheirReceive`, `CallsEnd` |
| `pxn_relay` | 2 connections with 2 and 1 chunks, 1 failure | 184,264 | `NicReadsItsChunk`, `ReadyMeansIdle`, `ReleasedIsUnused`, `EverythingEnds` |
| `reg_pool` | 2 communicators (symmetric), 3 overlapping buffers, 3 registrations, 1 failure | 457,160 | `FoundUntilBridged`, `CountedUntilBridged` |
| `kernel_proxy` | 2 GPU threads (put-value, signal, flush; get, get), FIFO of 1, 2 in flight, 1 trouble | 358,102 | `SignalAfterData`, `FlushedIsRetired`, `GateExcludesProducers`, `EverythingEnds` |
| `uni_runner` | every algorithm and every group: 18 calls on 1 to 3 ranks, trees on up to 6, 1 or 2 events, FIFO of 1 or 2, 1 or 2 blocks, 1 failure | 169,178 | `ResultCorrect`, `NoConflict`, `CallsReturn` |

`lifecycle` is three models in one state machine (`MCLifecycle`): WorkerPool, P2pTeardown and
Bootstrap share no variable and no step, and the variable `active`, chosen at the beginning, says
which of them runs while the other two stay where they begin. Its states are the 16,138, 49,892
and 7,645 of the three.

Two runs show that the code does not keep what a comment promises (section 6). Each is expected
to violate its one property:

| run | instance | violated |
|---|---|---|
| `ibuc_hole` | 1 message, 1 loss | `ReceivedIsIntact` |
| `reg_pool_bridging` | the instance of `reg_pool` | `RegisteredIsFound` |

Why the bounds are enough for the question each run asks. The theorems of section 5 lift
the safety properties of all models but Bootstrap and UniRunner to every instance that
satisfies the hypotheses named there; for these models the bounds matter to liveness alone.

- *Worker pool.* The hazards are between two control calls, and between a call and
  a thread. Two callers give every pair of calls, including two retirements of one
  registration and `joinAll` against `start`. One failing join reaches every error path.
  A call is blocked only by the mutex or the thread of its one target, so one worker is
  enough for liveness.
- *P2P slots.* Three operations on two slots reuse a slot; three chunks on a FIFO of
  two wrap the ring and make it full and empty; each side's offer is chosen freely
  for each operation, so every pair of offers meets in every order.
- *Teardown.* Both ranks are importer and exporter, which is the smallest shape in
  which a cycle of waiting threads could form, and each can fail on one connection
  while the other waits for it.
- *Groups.* The two groups of the failing rank share queues, so a queue holds operations of
  both and the error finds operations before, in and after their group. Three ranks that all
  send to all are the smallest case in which steps of different ranks could form a circle,
  and it takes all six messages; nodes of one and two ranks make the schedule flat, with
  opIds that differ between the ranks.
- *NET.* Three chunks in a window of two wrap the staging slots while chunks of the
  window complete out of order; the second operation starts on the slots and sequence
  numbers the first one left.
- *RMA.* The ring of two is full while a batch and a signal group wait; the two GETs
  share a flush; the failure meets every stage of the pass and every waiting call.
- *IBUC.* Two losses lose the notifications of both messages, or data and notification of
  one; the slot of the first message is posted again while its retransmission may still be on the
  way. The acknowledgement of "nothing yet" is the number before zero, so numbers are compared
  across the wrap. That a number is used again by a later message is a matter of the theorems,
  in which messages are unbounded.
- *PXN.* Two connections share the socket and the pool, so the end of one meets the
  uncertainty of the other; one failure reaches every retained state.
- *Registration.* Two neighbours and the buffer over both give every overlap: equal,
  contained, extending backward and forward, and with two items. `reg_pool` does not go on from a
  state in which two items have been overlapped (`UntilBridged`): its properties say nothing of
  them, and `reg_pool_bridging` shows what follows.
- *Bootstrap.* Three is the smallest number of ranks with two barrier rounds and two
  ring rounds, and with ranks whose messages can overtake each other's; each program
  repeats a call with the same tag or follows one by another pattern.
- *Kernel proxy.* A FIFO of one makes producers wait for space while the gate closes; two
  GETs with a put in between make a GET complete before and after a signal.
- *Uni-runner.* With three ranks a ring has an inner step, with a receive from one neighbour
  and a send to the other; four elements on three ranks make chunks of two and one, so with two
  slices some are empty. One event and one slot are the tightest pools; two events let the
  all-gather's copy of its own block run beside the ring. The trees of 4, 5 and 6
  ranks are a complete one and two that are not, one with a rank whose subtree is cut.

`CHECK_DEADLOCK FALSE` is set where the code really may stop: in `proxy_groups`, where the
host function of a group that starts after an error waits for ever (section 6); in `ibuc`
and `pxn_relay`, where a failed communicator or a retained slot ends the run; in
`uni_runner`, where a rank may be left waiting for one that failed (`CallsReturn` says that
it is the only reason); in `reg_pool`, where the application may destroy all
communicators and stop; and in the two runs of section 6, which are about one invariant. The other runs check deadlock, with an explicit stuttering step
only for the state in which everything is over.


## 4. Fairness

All theorems, `reg_pool` and the runs of section 6 use `Spec` without fairness. P2pTeardown,
Bootstrap, NetPipeline and
IbucRetrans call it `TeardownSpec`, `BootstrapSpec`, `PipelineSpec` and `RetransSpec`, because a module
extends each of them together with another specification. `LiveSpec` (`LiveTeardownSpec`,
`LiveBootstrapSpec`, `LivePipelineSpec`, `LiveRetransSpec`; `LifecycleSpec` has the fairness of the model
that runs) adds:

- *WorkerPool*: weak fairness for every thread that is inside a call or in `run()`
  (the scheduler runs it); strong fairness for taking a mutex that other threads take
  and release, and for the pass that retires an operation: `worker_pool.h` obliges
  `progressOnce()` to retire accepted work. Nobody is obliged to call a method, and
  nothing is obliged to fail.
- *P2pSlot*: weak fairness for each proxy thread (it polls) and for the device (it
  executes what is on a stream); strong fairness for an event query that sees the end
  of its copy, because the query is repeated and "not ready" cannot be the answer for
  ever after the copy.
- *P2pTeardown*: weak fairness for each service thread's steps in which no device call
  fails, and for the device. A timeout is relied on only when the sender is past the
  pass in which it acknowledges, so no timeout hides a cycle of waiting.
- *ProxyProgress*: weak fairness for the disjunction of all steps that are no failure. No
  step can be undone or repeated, so a behaviour has finitely many of them and every thread
  gets its turn. An operation that both sides have started ends or fails: the assumption on
  the transport, which P2pSlot and NetPipeline examine.
- *NetPipeline*: weak fairness for the calls of both sides, device copies and the
  network; strong fairness for a post that gets a request, for a poll that finds a
  completed one and for a flush: the calls are repeated, and a working adaptor does not
  refuse them for ever.
- *RmaProxy*: strong fairness for the steps of application threads (they compete for a
  mutex and retry on a full ring), weak fairness for streams and the network, and for the
  progress thread weak fairness of its pass and strong fairness of the steps that do work
  (it comes by again and again).
- *IbucRetrans*: weak fairness for every handler (the application tests its requests until
  they are done) and for delivery. Losses are bounded by `MaxLoss` and never obliged.
- *PxnRelay*: weak fairness for the source's progress, copies, the NIC, reading of answers,
  the relay's service loop and the end of both sides. The communicator is destroyed once
  its operations have ended.
- *Bootstrap*: weak fairness for each rank and for the root thread.
- *KernelProxy*: weak fairness for the worker, the NIC, each GPU thread and the host.
- *UniRunner*: weak fairness for the disjunction of all steps that are no failure. No step can
  be undone or repeated, so a behaviour has finitely many of them and each thread, block and
  stream gets its turn.


## 5. What is proved

Eight modules hold theorems. TLAPS checks them to the last leaf, and no module of the
project declares a `RECURSIVE` operator. A theorem is `Spec => []P` or
`Spec => [][A]_vars` for every value of the constants that satisfies the assumption of the
module, with a hypothesis where one is named below. Fairness is used nowhere.

| module | properties of the runs that it proves |
|---|---|
| WorkerPoolProofs | `ThreadIsRegistered`, `SuccessRetiresWork`, `JoinAllQuiesces` |
| P2pProofs | of P2pTeardown: `NoUseAfterFree`, `SuccessMeansClean`; of P2pSlot: `PlansAgree`, `CompletionIsMutual`, `ImplementsTransfer` |
| ScoreboardProofs | (facts about operators, used by the next three) |
| ProxyProofs | of ProxyProgress: `StreamWaitsForGroup`, `StepsInOrder`; of NetPipeline: `ImplementsTransfer` |
| KernelProxyProofs | `GateExcludesProducers`, `SignalAfterData`, `FlushedIsRetired` |
| RmaProxyProofs | `SignalAfterData`, `NoLiveRequestBehindWaiter`, `GetVisibleWhenDone` |
| NetProofs | of PxnRelay: `NicReadsItsChunk`, `ReadyMeansIdle`, `ReleasedIsUnused`; of IbucRetrans: `SourceHeld`, `CopiesHitTheirReceive`, `AcknowledgedIsReceived` |
| RegPoolProofs | `FoundUntilBridged`, `CountedUntilBridged` |

### WorkerPoolProofs

Assumption: `WorkerPoolAssumption` (the value `NoOne` is neither a worker nor a
caller; the two bounds are natural numbers). The sets of workers and callers are
arbitrary, also infinite.

`TypeCorrect`, `RegistrationSafety` (a thread that runs callbacks is registered),
`StopReaches` (a stopping pool has stopped every registered worker), `JoinSound` (a
joined worker has a terminal result), `DrainSound` (a worker that reports success has
nothing outstanding), `RetireExclusive` (one retirer per registration), `JoinAllSound`
(a successful `joinAll` has waited for every thread).

None of these is inductive. `IInv` adds what the code relies on silently:

- `CallShape`: which target and locals a call has at each of its steps;
- `WorkWasGiven`, `ThreadsEnd`, `EndsClean`: where in `run()` work can be left over and
  when a result is published. A loop that ended with success saw the stop flag *and* a
  pass with nothing outstanding, so nothing is handed to it any more;
- `ErasesJoined`: a call that is about to erase a registration has seen
  `threadJoined_`. This is why `start` and `retire` keep the registration of a thread
  whose join failed;
- `RetiresMarked`: a retirer has set `retiring_`, and no second call passes `MayRetire`;
- `StoppingCalls`: a call of `joinAll` that has its snapshot is in a stopping pool, in
  which no new worker can be registered (`NoNewThread`);
- `JoinsRemaining`: if such a call has met no error, every live worker is in the part
  of the snapshot it has still to join. With nothing left, `JoinAllQuiesces` follows.

The proof has one lemma per part of `IInv`, with one case per action below it.

### P2pProofs: the teardown

Assumption: `P2pTeardownAssumption` (a connection joins two different ranks). Ranks,
connections and their graph are arbitrary.

`TeardownTypeCorrect`, `FifoSafety` (no mapping and no device work refers to a freed FIFO,
whatever fails or times out), `RetirementSafety` (a FIFO is freed only after the
workers of both ends were retired), `CleanupSound` (a rank that reports success has
closed its imports and freed its FIFOs).

`TeardownIInv` adds `RunningHasWorkers` (a rank that has not begun its cleanup has its
workers), `RetiredFirst` (a rank whose workers run is in no cleanup pass and has closed
and freed nothing) and `ClosedIsUnused` (once `fifoImportClosed` is set, the sender
has no mapping and no work under way and can get neither again). The last is the
meaning of the flag: the receiver frees on the strength of it alone. `CleanupSound`
needs a further invariant, `CleanSoFar`: until an error is recorded, every connection
that a pass has behind it is clean.

The inductive invariants of WorkerPool, P2pTeardown, RegPool, ProxyProgress, NetPipeline and
IbucRetrans were checked with TLC before they were proved. `JoinedHasResult`, `StoppingReachesEveryWorker`, `OneRetirer`,
`FreedAfterBothRetired` and every `TypeOK` are proved and no longer checked by a run.

### P2pProofs: the same-node transport

Assumption: `P2pSlotAssumption` (operations have keys, keys have a positive number of chunks,
there is at least one slot and one ring position). Two hypotheses name what the code takes
for granted (section 6, `p2p.cc:105` and `p2p.cc:154`):

- `HashesDiffer`: an operation's hash is not that of the operation after it. The comment in
  the code promises more (unique hashes); this is what the argument uses, since the sides
  are never further apart than one operation;
- `PowerOfTwo`: the number of ring positions is 1, 2, 4, 8 or 16, for which the mask is the
  remainder. 16 is the largest number the model's bit mask covers.

The operations, their keys, the slots and the offers are arbitrary, so the theorems include
operations of different sizes on one slot. For those section 6 shows a deadlock; safety
holds all the same.

`LocalInvariant` and `TypeCorrect` need no hypothesis. `SidesAgree`, `PlansAgreeAlways` and
`CompletionIsMutualAlways` need `HashesDiffer`; `BuffersAreRight` and `SameNodeTransport`, which is
the refinement of `Transfer`, need both. The invariant is built in layers, each proved from
the ones before it:

- `Local`, what a side keeps by its own steps: one slot, the one of its head operation
  (`OneSlot`); which facts hold where its call is (`PcShape`); chunks enqueued, executed and
  found done in this order (`Counters`); an offer made once (`OffersStand`);
- `Joint`, what the two sides keep: a side that has met its peer finds it there or finished
  (`Meeting`); `peerDone` is set exactly when the peer is done (`PeerDoneIsTrue`); a side left
  behind has only to notice (`LeftBehind`); a plan is the one of both offers, and remains so
  when a side has gone on (`PlansFollowOffers`, `FinishedAgree`);
- `Flow`, what the published counters mean: the sender is at most a ring ahead of the
  receiver, and a zero-copy transfer is one copy with the peer's buffer of this operation;
- `RingHolds` and `DataIs`, what the ring and the receive buffers hold. With them every step
  is a step of `Transfer` or leaves its variables alone.

### ScoreboardProofs

`SubmitTracks` and `CompletionRetires` say which requests a scoreboard tracks, and which it
retires, after `flagcxNetTrackSubmit` and `flagcxNetTrackCompletion`, for any capacity,
numbers and order of completion. The proofs of the NET transport, the kernel proxy and the
RMA proxy use these two facts in place of the entries.

### ProxyProofs: groups

Assumption: `ProxyProgressAssumption` (ranks and nodes are numbered from 0, a group is a set of
messages between ranks; an error is looked at from one rank). Ranks, nodes, groups, messages,
with and without the schedule, are arbitrary; `curStep` of the model has the code's encoding.

`StreamSafety` is `StreamWaitsForGroup`: a host function lets its stream go on only when every
operation of the group is over, also after an error. `StepOrder` is `StepsInOrder`. The argument
has two parts.

- *What `GroupOps` builds.* The steps of an opId are 0, 1, ... without a gap, each of one
  operation: a step is the number of operations before in the same opId. Without the
  schedule the opIds differ, since they are places in a strict order. That the saved list
  has every operation once is a fact about `Ordered` for any finite set and strict total
  order, proved by counting and not by induction over the list.
- *What the counters mean.* `CountInv`: a signal does not run ahead of the operations that are
  over, and only the scan of `wait()` takes it past its limit. `ScanInv`: `nDone` is the number of
  signals that were scanned. So when `nDone` reaches the number of signals, each has all its
  operations over. `OrderInv`: before an error the operations of a signal that are over are
  the first ones, as many as the signal says, and nothing is over before the semaphore is
  open. `QueueInv` ties the queues to the operations.

The signal need not equal the count after an error: operations of a group whose host function
has not started are counted down and `signalStart` overwrites the count (section 6). That is why
`CountInv` has an inequality, and it is enough for safety.

### ProxyProofs: the NET transport

Assumption: `NetPipelineAssumption` (operations have a positive number of chunks and a first
sequence number, and at least one chunk can be under way). Registered buffers, flushes, refusals,
failures and the orders of device and network are arbitrary.

`NetworkTransport` is the refinement of `Transfer` and follows from `PipelineInvariant`. `Window` is
the relation the code keeps between the counters of a side, the contexts of its requests and its
scoreboard: the chunks retired to posted, and no others, are tracked, each under the context
of its slot. On it rest

- `SendInv`: the sender's counters follow each other; a chunk complete or retired was moved; a
  staging slot keeps its chunk from the copy until it is retired, since chunks in the window
  are less than a turn of the slots apart;
- `RecvInv`: of the receiver's window only the oldest chunk is completed, when its copy or flush is
  over, so its scoreboard holds pending entries alone; a request seen
  complete was moved; a chunk that is copied is visible to the device;
- `MovedInv`, `LandedInv`: what was moved was posted by both sides, and what waits for a flush
  belongs to the receive under way;
- `DataInv`: the receive buffers hold what has arrived and nothing else.

Every step then makes a set of chunks of the receive under way arrive (`Grows`, a step
`Deliver` of `Transfer`), ends the operation of a side, or leaves `data` and `over` as they are.

### KernelProxyProofs

Assumption: `KernelProxyAssumption` (positive capacities, finitely many GPU threads: `active` is a
count of them). Programs are arbitrary.

`GateHolds`, `SignalsFollowData` and `FlushesAreKept` follow from `KernelProxyInvariant`:

- `GateInv`: `active` is the number of threads that hold a reference, and after the wait for
  the closed gate no thread is inside;
- `TrackInv`: the scoreboard's numbers are those of the FIFO, and each request on the NIC is
  pending in it under a number of its own;
- `QuiesceInv`: after a successful quiesce nothing is left and nothing comes;
- `SignalInv`: the scoreboard does not pass a signal in flight, and `firstError` knows every
  failure that is no longer in flight;
- `DomainInv`: the GETs whose data arrived are a prefix, part of it is visible, and a flush
  under way covers the next part.

### RmaProxyProofs

Assumption: `RmaProxyAssumption` (at least one peer, rings of two or more, programs are
sequences of calls). Peers, threads, programs, sizes and failures are arbitrary.

`SignalsFollowTheirData`, `WaitersAreSafe` and `GetsAreVisible` follow from `RmaInvariant`. The
invariant of a peer, `PeerOK`, is a predicate on the values of the peer's variables, with
descriptors followed by what never changes of them wherever they are, in the ring or in
hand (`Outstanding`). Its parts: numbers are given in order and those in hand precede the
ring's (`SeqOK`); the scoreboard waits for each descriptor that is not over (`TrackOK`); the
adaptor has no request that is not in hand (`LiveOK`); a release group counts its members that
are not over (`GroupOK`) and its signal is posted when the count is 0 and no member failed
(`SignalOK`); the visibility domain knows the GETs in hand (`GetsOK`) and what a flush covers
(`FlushOK`). `ErrorInv` says that the error is published when nothing is in hand and that
nothing is posted then, which is what lets a waiter go on.

`TrackOK` holds of any program because a call tries again when the scoreboard has no room for
it, not only when the ring is full. None of the three properties speaks of the readiness of a
stream's data; the restriction on `readySeqs` in section 2 does not concern them.

### NetProofs: the relay

Assumption: `PxnAssumption` (at least one connection, positive numbers of chunks).

`NicReadsRight`, `ReadyIsIdle` and `PoolReleaseSafe` follow from `RelayInvariant`. `MessageInv`: an opId
is in at most one of the requests, the relay's deferred requests, the responses and the
cached responses. `ConnInv(c)` says, for each phase of an operation, which requests or answers
can be out and who has the slot (`ReadyIdle`, `CopyHeld`, `LeaseOut`, `CancelOut`, `SendOut`); its
clauses only forbid messages or say what a present one means, so a message that is lost, or a
request delivered by a write that then failed, cannot break them. `ReleaseInv`: the mapping is
closed after all operations were retired, only then is the release asked for, and the pool
is freed after that.

### NetProofs: retransmission

Assumption: `IbucAssumption` (positive numbers of messages, queue pairs, slots and chunks; moduli
of at least 2). The invariant is built in four layers, and each theorem has the hypothesis of the
layers it uses:

| theorem | layers | specification |
|---|---|---|
| `SourceSafety` (`SourceHeld`) | `RetransInv` | `RetransSpec` |
| `CopySafety` (`CopiesHitTheirReceive`) | and `AddressInv` | `TimelySpec` |
| `AcknowledgementSafety` (`AcknowledgedIsReceived`) | and `ReceiptInv`, `AckInv` | `TimelySpec` |

- `RetransInv`: messages are sent in their order to the receive announced next; what is retained
  awaits its acknowledgement; the chunks under way are those of the window, which holds their
  request. A send that is done is therefore read by nobody, however often numbers come
  around.
- `AddressInv`: from one use of a slot to a later one its generation advances by at most as many
  steps as receives were posted in between (`Adv`), a receive has its slot until it is tested done,
  and everything under way names slot, generation and number of its own message. With `Timely` a
  completion that matches a slot is therefore one of the receive that has it.
- `ReceiptInv`: a receive counts the chunks it copied and has taken no more notifications than
  have arrived.
- `AckInv`: the acknowledgements on their way, and then `recvSeq`, stand for growing numbers of
  messages, each complete (`Chain`). The sender has at most `NSlots` entries, less than half of the
  cycle (`IbucAssumption`), so its modular comparison drops only entries the acknowledgement means.

Messages are unbounded: numbers and generations come around as often as they like. What is
assumed is how long a completion may wait (`Timely`): a notification names its receive by these
numbers alone, so without a limit the properties fail. Nothing is assumed of which
writes and notifications are lost, and nothing is claimed of the data: that a notified part was
written is false (`ReceivedIsIntact`, section 6).

### RegPoolProofs

Assumption: `RegPoolAssumption` (buffers are ranges of pages). Every registration is a step, those
that overlap two items included; the theorems are about the states before the first of these
(`bridged`). Section 6 shows what it breaks.

`BuffersAreFound` and `MappingsAreExact` follow from `PoolInvariant`, which says that until then the items are disjoint ranges
which the keys of the pool and both maps name exactly (`Indexed`); a registration is within
its item, and the item's count is the number of its registrations (`Held`); an imported
mapping has as many references as items use it (`MappingsCounted`); no handle belongs to a
destroyed communicator (`OfLiveComms`). Creation and extension of an item are one relation on
pools (`Placed`). That there is always a free item is part of the proof: items begin at
different pages, so there are fewer of them than names.

### Refinement

`P2pSlot` and `NetPipeline` implement `Transfer`, with `data` as it is and `over` counting the
operations whose last call of the side has returned. A FIFO position or staging slot that
is overwritten before it is read, a stale address and a receive that is over too early are
all steps `Transfer` does not have. Both are proved (`SameNodeTransport`, `NetworkTransport`)
and checked by a run (`p2p_slot_plans`, `net_pipeline`).


## 6. Disagreements between the code and what it says of itself

Two of them are runs that TLC must find violated, listed under `findings` in `PROJECT.json`:

*A hole in a receive* (`ibuc_hole`). `ibuc_adaptor.cc:372` says that the retransmission channels are
what keeps the lossy transport from the callers. With retransmission the data of a message is an
`RDMA_WRITE` of its own and the notification a separate `RDMA_WRITE_WITH_IMM`
(`ibuc_adaptor.cc:2161-2181`), and an unreliable connection can lose the first and deliver the second.
The receiver counts notifications, so it reports the receive done and acknowledges it, and nothing
is sent again. `AcknowledgedIsReceived` states what does hold: what is acknowledged was announced or
retransmitted.

*A registration over two items* (`reg_pool_bridging`). `reg_pool.cc:212` says that a new buffer is looked
up under any of its pages, to handle partial overlaps. The search stops at the first page that
belongs to an item (221), and that item is extended over the pages of a second one, which stays in
the pool but is found no more. A later registration can then reach "unexpected duplicate key" (246)
and destroy an item in use. `FoundUntilBridged` and `CountedUntilBridged` are about all other overlaps.

On four others TLC finds a counterexample on the instance named, which is not among the runs.

*A slot that is reused.* `p2p.cc:429` says a slot is reset "only if previous
operation is done for both sides". A side resets when its own `done` and `peerDone` are set, while
the peer may still have to make its last call. If the next operation has another size and the same
slot, the reset takes away the offer the peer is about to look for, and the two sides
wait for each other for ever: P2pSlot with `KeyOf = <<0, 1>>`, one chunk, two slots and no registered buffer
violates `OperationsComplete` under `LiveSpec`. The run `p2p_slot_plans` is about operations of one key, for which the
next operation takes the next slot: there the rule does hold, because a slot comes back only after
another operation has completed on both sides.

*An all-reduce in place.* `include/flagcx.h:436` says of `flagcxAllReduce`
"In-place operation will happen if sendbuff == recvbuff." The ring all-reduce receives a partial sum
into `recvbuff` and then adds the rank's own contribution, read from the same place of `sendbuff`
(`uni_runner_impl.cc:528`, and 873 for the sliced form). In place, the receive has overwritten it:
the partial sum is added to itself and the contribution is lost: a `RingAR` call with `inPlace` on two
ranks violates `ResultCorrect`. The reduce-scatter and the tree,
which receive into a scratch buffer, are checked in place by `uni_runner`.

*A quiesce that is too early.* `flagcx_hetero.cc:1876` relies on the quiesce to "retire
accepted requests before their MRs or window mappings are released". The progress thread stores `cis`
before it increases `inFlights` (1257-1260, 1300-1304), and the quiesce reads both without a lock
(1776-1780), so it can see an empty ring and no flight while a request is with the adaptor. A put and a
quiesce on one thread of RmaProxy are enough.

*A flush that misses an error.* `proxy.cc:3039` says that "a waiter that observes the
completed counter must also observe the terminal error". The worker does publish the error first, but
`fifoFlush` (`default_comm_traits.h:471`) looks at the status before it waits and while the counter is
behind, not after: it returns success although an operation it covers has failed, as a put and a flush on one
thread of KernelProxy with one failure show. `FlushedIsRetired`
states what does hold: the buffers are free.

The remaining ones were met while modelling. The models stay on the side of the code's intended
use, or state the weaker property that holds:

| where | statement | what the code does |
|---|---|---|
| `p2p.cc:105` | "opHash is unique for each operation" | The count added to the key is not bounded by the 4 bits reserved for it. |
| `p2p.cc:154`, `init.cc:360` | any number of chunks up to the limit is accepted | The position in the ring is computed with a mask, which is wrong unless the number is a power of two. |
| `proxy.cc:636` | "process all the ProxyOps in the consumer queue" | Only the head is progressed, and it stays until its whole group is over; a second operation of a group for the same peer and direction is never progressed. |
| `launch_kernel.h:73` | the test `PermanentErrorWakesEveryQueuedWaiter` | The operations of a group whose host function has not started are counted down first; `signalStart` then overwrites the counts and `wait()` never ends. `EverythingEnds` of ProxyProgress promises the wake-up only to groups that have started. |
| `proxy.cc:711`, `launch_kernel.h:120` | the semaphore is deleted when its reference count is 0 | The host function holds no reference; the progress thread may release the semaphore between the last two stores of `wait()`. |
| `flagcx_hetero.h:157` | "Wait functions check this and return an error" | A flush can return success for a failed operation whose error is not published yet. |
| `ibuc_adaptor.cc:268` | "The final notification acknowledges the whole logical batch and releases the source requests." | Only contiguous sequence numbers are acknowledged; a batch received out of order is acknowledged when it comes again. |
| `net.cc:1379`, `reg_pool.cc:212` | | An item that is extended keeps its network handle, whose range is not checked when it is used again. |
| `bootstrap.cc:1117`, `include/flagcx.h:419` | "Copies count values from root to all other devices." | `BroadcastBootstrap` sends a different part of the buffer to every rank, as a scatter does. |
| `kernel_proxy_transport.cc:100`, `default_comm_traits.h:423` | | A producer that is rejected holds a reference for a moment, and the finalization that meets it is refused and must be repeated. |


## 7. Limits

*Only model-checked.* All liveness properties (`CallsReturn`, `CollectivesReturn`, `OperationsComplete`, `TeardownEnds`,
`EverythingEnds`, `TransfersEnd`, `CallsEnd`): TLAPS does not reason about fairness and `ENABLED`
here. Of the safety properties, `ResultsAreRight` and `BarrierHolds` (Bootstrap), `ResultCorrect` and
`NoConflict` (UniRunner): what the rounds of a collective, or a graph, compute for any number of
ranks needs an induction over data, which is out of reach of the prover.

*Memory model.* Atomics and shared-memory flags are sequentially consistent in the
models: a publication with release order and its observation with acquire order is
one step each, in program order.

*Process structure.* One process per rank; the process-wide hash map of `p2p.cc` that
several communicators of one process share without a lock (`p2pOpHashMap`) is outside the models; it
is listed as a hazard.

### Not modelled

*In the covered files.* `proxy.cc`: the setup, connect and register messages, and the
condition variable on which an idle progress thread sleeps. `group.cc`: the preconnect
jobs, several communicators or channels in one group, a self copy with one buffer, opIds
and steps given by the caller. `init.cc`: all but nodes, local ranks and the schedule. `p2p.cc`: the setup messages and the import of
registered buffers (an offer stands for the outcome). `launch_kernel.h`: the device
semaphore. `net.cc`: setup and connect of channels. `flagcx_hetero.cc`: IPC puts, the stop of
the thread and `flagcxFlushAllRma`. `ibuc_adaptor.cc`, `ib_retrans.cc`: selective
acknowledgements, grouped receives, the legacy ring; `ib_retrans_ud.cc`. Kernel proxy: one
context and one peer; two-sided descriptors. `bootstrap.cc`: the abort flag, failing
connections, in-place buffers, sizes beyond an `int`, and the point-to-point mode.
Uni-runner: `alltoallv`, `send` and `recv` (a group with counts of the caller), and a failure
while the runner is set up.

*As a whole.* About nine tenths of the 124,000 lines of the repository are outside the
protocols above:

- the vendor adaptors (`adaptor/ccl`, `adaptor/device`, `adaptor/device_api`, kernels, shmem,
  plugins) forward each call to a library of the vendor, once per vendor; they are the
  external steps of the models;
- the IB, UCX, BAREX and socket adaptors are mostly verbs and socket calls; what the core
  needs of them, a request that completes once, in any order, or fails, is an external
  step of NetPipeline, RmaProxy and KernelProxy;
- topology detection, paths, tuner, cost model and GDR visibility tables are I/O and
  data without a protocol;
- the homogeneous, host and hybrid runners dispatch to a library of the vendor or to the
  cross-cluster algorithms (`c2c_algo.cc`), which plan offsets over cluster sizes; the public
  interface dispatches to them;
- the P2P engine (about 13,000 lines) is a second product with its own control plane; it
  shares only the adaptors with the collective path;
- the device semaphore pool needs a model of stream events of several devices.


## 8. Plan

Done: WorkerPool, P2pSlot, P2pTeardown, GroupSchedule, ProxyProgress, Transfer with its two
implementations, NetPipeline, RmaProxy, IbucRetrans, PxnRelay with the control RPC,
RegPool, Bootstrap, KernelProxy, UniRunner; the safety proofs of all of them but Bootstrap and
UniRunner, with both refinements of Transfer.

Next, in this order:

1. Proofs: the mailbox part of Bootstrap (a message reaches the receive with its tag), which
   needs no induction over data.
2. The device semaphore pool; groups of several communicators.
3. The control plane of the P2P engine.
