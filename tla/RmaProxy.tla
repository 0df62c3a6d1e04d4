------------------------------ MODULE RmaProxy ------------------------------
(***************************************************************************)
(* The RMA proxy (flagcx/core/flagcx_hetero.cc): application threads put   *)
(* one-sided operations on a ring per peer, one progress thread posts them *)
(* to the network adaptor, polls their requests and retires them.  The     *)
(* requests of a peer complete in any order; a scoreboard retires the      *)
(* contiguous prefix of their sequence numbers, which is what flushes and  *)
(* streams wait for.  A put-with-signal is a group of data descriptors and *)
(* a release descriptor, posted when the group is complete.  A GET is held *)
(* until a flush has made its data visible.  A permanent error stops all   *)
(* submissions, the rings are drained, and the error is published when the *)
(* requests that were posted have been retired.                            *)
(*                                                                         *)
(* A step of the progress thread is one stage of its pass over a peer, or  *)
(* one descriptor of it.  A producer holds the mutex of its peer from the  *)
(* check of the error flags to the publication.  Addresses, sizes and the  *)
(* ordering keys of independent operations are left out: a peer has one    *)
(* visibility domain.  proxyStop, IPC puts and the kernel proxy's use of   *)
(* the rings are not modelled.                                             *)
(***************************************************************************)
EXTENDS Integers, Sequences, FiniteSets, Scoreboard

CONSTANTS
  NPeers,      \* proxy->nRanks
  Program,     \* the calls of each application thread, in order
  QueueSize,   \* proxy->queueSize
  BatchMax,    \* FLAGCX_RMA_BATCH_MAX
  MaxFailures, \* how often the adaptor fails
  MaxSeq       \* the most descriptors Program has for one peer

Thread == DOMAIN Program
Peer   == 1..NPeers

\* The calls: those that put descriptors on a ring, and the waits.
Enqueues == {"put", "batch", "signal", "get", "ipcget"}
Calls == [op : Enqueues \cup {"flush", "waitCounter", "quiesce"}, peer : Peer, n : Nat,
          stream : BOOLEAN]

ASSUME RmaProxyAssumption ==
  /\ NPeers \in Nat \ {0}
  /\ QueueSize \in Nat \ {0, 1}
  /\ BatchMax \in Nat \ {0}
  /\ MaxFailures \in Nat
  /\ MaxSeq \in Nat
  /\ \A t \in Thread : Program[t] \in Seq(Calls)

Nobody == 0

VARIABLES
  at,            \* the next call of each thread
  tpc,           \* where the thread is in it
  visit,         \* the peer its quiesce is at
  lastSeq,       \* the thread's last sequence number of each peer
  mutex,         \* peerProducerMutexes: the thread that holds it
  stream,        \* what the stream of each thread has still to do
  ring,          \* the descriptors between cis and pis of each peer
  opSeqs, doneSeqs, readySeqs, inFlights,
  scoreboard,    \* completionScoreboards
  groups,        \* the release group of each release descriptor
  inProgress,    \* inProgressQueues
  domain,        \* the peer's visibility domain
  pass,          \* the progress thread: its stage and peer
  counting,      \* posted descriptors that inFlights does not count yet
  completionCount, pendingError, rmaError, quiesced,
  nic,           \* the native request of each sequence number
  events,        \* sequence numbers whose stream event has happened
  outcome,       \* the type of each retired descriptor, or "error"
  visible,       \* GETs whose data the device can see
  failures

threadVars == <<at, tpc, visit, lastSeq>>
ringVars   == <<ring, opSeqs, scoreboard, groups>>
doneVars   == <<doneSeqs, completionCount, outcome>>
errVars    == <<pendingError, rmaError, quiesced>>
progVars   == <<inProgress, inFlights, domain, pass, counting>>
envVars    == <<nic, events, visible, failures>>
vars == <<threadVars, mutex, stream, readySeqs, ringVars, doneVars, errVars,
          progVars, envVars>>

-----------------------------------------------------------------------------
Call(t) == Program[t][at[t]]

\* The descriptors of a call.
Descs(c) == CASE c.op \in {"put", "get", "ipcget"} -> 1
              [] c.op = "batch"  -> c.n
              [] c.op = "signal" -> c.n + 1
              [] OTHER -> 0

Seqs == 1..MaxSeq

NoDomain == [issued |-> 0, dataCompleted |-> 0, target |-> 0, visible |-> 0,
             request |-> FALSE, snapshot |-> {}]

Init ==
  /\ at = [t \in Thread |-> 1]
  /\ tpc = [t \in Thread |-> "call"]
  /\ visit = [t \in Thread |-> 1]
  /\ lastSeq = [t \in Thread |-> [p \in Peer |-> 0]]
  /\ mutex = [p \in Peer |-> Nobody]
  /\ stream = [t \in Thread |-> <<>>]
  /\ ring = [p \in Peer |-> <<>>]
  /\ opSeqs = [p \in Peer |-> 0]
  /\ doneSeqs = [p \in Peer |-> 0]
  /\ readySeqs = [p \in Peer |-> 0]
  /\ inFlights = [p \in Peer |-> 0]
  /\ scoreboard = [p \in Peer |-> NewScoreboard(2 * QueueSize, 1)]
  /\ groups = [p \in Peer |-> [q \in {} |-> 0]]
  /\ inProgress = [p \in Peer |-> {}]
  /\ domain = [p \in Peer |-> NoDomain]
  /\ pass = [stage |-> "poll", peer |-> 1]
  /\ counting = {}
  /\ completionCount = 0
  /\ pendingError = FALSE /\ rmaError = FALSE /\ quiesced = FALSE
  /\ nic = [p \in Peer |-> [q \in Seqs |-> "unposted"]]
  /\ events = [p \in Peer |-> {}]
  /\ outcome = [p \in Peer |-> [q \in Seqs |-> "none"]]
  /\ visible = [p \in Peer |-> {}]
  /\ failures = 0

Poisoned == pendingError \/ rmaError

-----------------------------------------------------------------------------
(* Producers: flagcxRmaProxyEnqueueDesc, -DescBatch, -ReleaseGroup and the *)
(* IPC path of flagcxHeteroGetStream.                                      *)

Running(t) == at[t] \in DOMAIN Program[t]
Calling(t, ops) == Running(t) /\ Call(t).op \in ops

NextCall(t) ==
  /\ at' = [at EXCEPT ![t] = @ + 1]
  /\ tpc' = [tpc EXCEPT ![t] = "call"]

Refuses == quiesced \/ Poisoned

\* The mutex is taken and the flags are read.
Acquire(t) ==
  LET p == Call(t).peer IN
  /\ Calling(t, Enqueues)
  /\ tpc[t] = "call"
  /\ mutex[p] = Nobody
  /\ IF Refuses
       THEN NextCall(t) /\ UNCHANGED mutex
       ELSE /\ mutex' = [mutex EXCEPT ![p] = t]
            /\ tpc' = [tpc EXCEPT ![t] = "hold"]
            /\ UNCHANGED at
  /\ UNCHANGED <<visit, lastSeq, stream, readySeqs, ringVars, doneVars, errVars,
                 progVars, envVars>>

\* The descriptors of call c with sequence numbers from q on.
NewDescs(c, q) ==
  LET n == Descs(c)
      group == IF c.op = "signal" THEN q + n - 1 ELSE 0
  IN  [j \in 1..n |->
        [seq |-> q + j - 1,
         type |-> CASE c.op \in {"get", "ipcget"} -> c.op
                    [] c.op = "signal" /\ j = n -> "release"
                    [] OTHER -> "put",
         group |-> group,
         event |-> c.op = "ipcget" \/ (c.op = "get" /\ c.stream)]]

\* flagcxRmaProxyPrepareDesc for all of them: the scoreboard takes every
\* number, or the call rolls all of them back and tries again.
TrackAll(sb, Q) ==
  [sb EXCEPT !.entries = [e \in DOMAIN @ |->
     IF \E q \in Q : q % Capacity(sb) = e
       THEN [state |-> "pending", sequence |-> CHOOSE q \in Q : q % Capacity(sb) = e]
       ELSE @[e]]]

\* Mutant: one slot of the ring is always kept free.
HasRoomFor_strict(p, n) ==
  /\ Len(ring[p]) + n < QueueSize
  /\ \A j \in 1..n : TrackSubmitResult(scoreboard[p], opSeqs[p] + j) = "success"

HasRoomFor(p, n) ==
  /\ Len(ring[p]) + n <= QueueSize
  /\ \A j \in 1..n : TrackSubmitResult(scoreboard[p], opSeqs[p] + j) = "success"

\* What the calls of t put on its stream: the signal that the source is
\* ready, the copy of an IPC GET and its event, the wait for the end.
StreamWork(c, q) ==
  CASE ~c.stream -> <<>>
    [] c.op = "ipcget" -> <<[do |-> "wait", peer |-> c.peer, seq |-> q - 1],
                            [do |-> "event", peer |-> c.peer, seq |-> q]>>
    [] c.op = "get" -> <<[do |-> "event", peer |-> c.peer, seq |-> q],
                         [do |-> "wait", peer |-> c.peer, seq |-> q]>>
    [] OTHER -> <<[do |-> "ready", peer |-> c.peer, seq |-> q],
                  [do |-> "wait", peer |-> c.peer, seq |-> q]>>

\* The descriptors are published and the mutex is given back.
Publish(t) ==
  LET c == Call(t)
      p == c.peer
      n == Descs(c)
      q == opSeqs[p] + 1
      last == opSeqs[p] + n
  IN
  /\ tpc[t] = "hold"
  /\ HasRoomFor(p, n)
  /\ opSeqs' = [opSeqs EXCEPT ![p] = last]
  /\ scoreboard' = [scoreboard EXCEPT ![p] = TrackAll(@, q..last)]
  /\ groups' = IF c.op # "signal" THEN groups
               ELSE [groups EXCEPT ![p] = [r \in DOMAIN @ \cup {last} |->
                       IF r = last THEN SealedGroup(c.n) ELSE @[r]]]
  /\ ring' = [ring EXCEPT ![p] = @ \o NewDescs(c, q)]
  /\ readySeqs' = IF c.stream THEN readySeqs
                  ELSE [readySeqs EXCEPT ![p] = last]
  /\ stream' = [stream EXCEPT ![t] = @ \o StreamWork(c, last)]
  /\ lastSeq' = [lastSeq EXCEPT ![t][p] = last]
  /\ mutex' = [mutex EXCEPT ![p] = Nobody]
  /\ NextCall(t)
  /\ UNCHANGED <<visit, doneVars, errVars, progVars, envVars>>

\* No room: the mutex is given back and the call starts again.
Yield(t) ==
  /\ tpc[t] = "hold"
  /\ ~HasRoomFor(Call(t).peer, Descs(Call(t)))
  /\ mutex' = [mutex EXCEPT ![Call(t).peer] = Nobody]
  /\ tpc' = [tpc EXCEPT ![t] = "call"]
  /\ UNCHANGED <<at, visit, lastSeq, stream, readySeqs, ringVars, doneVars, errVars,
                 progVars, envVars>>

\* The next item of the stream of t: flagcxRmaReadyHostFunc, the event, or
\* flagcxRmaDoneWaitHostFunc.
StreamStep(t) ==
  LET w == Head(stream[t]) IN
  /\ stream[t] # <<>>
  /\ w.do = "wait" => doneSeqs[w.peer] >= w.seq \/ rmaError
  /\ stream' = [stream EXCEPT ![t] = Tail(@)]
  /\ readySeqs' = IF w.do = "ready" THEN [readySeqs EXCEPT ![w.peer] = w.seq]
                                    ELSE readySeqs
  /\ events' = IF w.do = "event" THEN [events EXCEPT ![w.peer] = @ \cup {w.seq}]
                                 ELSE events
  /\ UNCHANGED <<threadVars, mutex, ringVars, doneVars, errVars, progVars,
                 nic, visible, failures>>

-----------------------------------------------------------------------------
(* Waiters *)

\* flagcxHeteroFlushRma of the thread's last operation on the peer.  Its last
\* look at rmaError only chooses what it returns, and the thread goes on.
Flush(t) ==
  LET p == Call(t).peer IN
  /\ Calling(t, {"flush"})
  /\ doneSeqs[p] >= lastSeq[t][p] \/ rmaError
  /\ NextCall(t)
  /\ UNCHANGED <<visit, lastSeq, mutex, stream, readySeqs, ringVars, doneVars, errVars,
                 progVars, envVars>>

\* flagcxHeteroWaitCounter
WaitCounter(t) ==
  /\ Calling(t, {"waitCounter"})
  /\ completionCount >= Call(t).n \/ rmaError
  /\ NextCall(t)
  /\ UNCHANGED <<visit, lastSeq, mutex, stream, readySeqs, ringVars, doneVars, errVars,
                 progVars, envVars>>

\* flagcxHeteroRmaProxyQuiesce: producers are refused, each mutex is taken
\* once, and each peer's ring and then its counter are read, from the first
\* peer again when one is not idle.  The progress thread moves in between, and
\* pis does not any more.
Visit(t, pc, p) ==
  /\ tpc' = [tpc EXCEPT ![t] = pc]
  /\ visit' = [visit EXCEPT ![t] = p]
  /\ UNCHANGED at

Quiesce(t) ==
  LET p == visit[t]
      consumed == ring[p] = <<>>
      retired == inFlights[p] = 0
  IN
  /\ Calling(t, {"quiesce"})
  /\ \/ /\ tpc[t] = "call"
        /\ quiesced' = TRUE
        /\ Visit(t, "lock", 1)
     \/ /\ tpc[t] = "lock"
        /\ mutex[p] = Nobody
        /\ IF p < NPeers THEN Visit(t, "lock", p + 1) ELSE Visit(t, "read", 1)
        /\ UNCHANGED quiesced
     \/ /\ tpc[t] = "read"
        /\ IF consumed THEN Visit(t, "count", p) ELSE Visit(t, "read", 1)
        /\ UNCHANGED quiesced
     \/ /\ tpc[t] = "count"
        /\ retired => p < NPeers
        /\ Visit(t, "read", IF retired THEN p + 1 ELSE 1)
        /\ UNCHANGED quiesced
     \/ /\ tpc[t] = "count"
        /\ retired /\ p = NPeers
        /\ NextCall(t)
        /\ UNCHANGED <<visit, quiesced>>
  /\ UNCHANGED <<lastSeq, mutex, stream, readySeqs, ringVars, doneVars,
                 pendingError, rmaError, progVars, envVars>>

-----------------------------------------------------------------------------
(* flagcxRmaProxyCompleteDesc for the descriptors of D, one after the      *)
(* other, each with the result it carries.                                 *)

Failed(D) == {d \in D : d.failed}
MembersOf(r, D) == {d \in D : d.group = r /\ d.type # "release"}

\* What completionCount counts: a put with signal is counted once.
CompletesApiOperation(d) == d.group = 0 \/ d.type = "release"

Outcome(q, D) ==
  LET d == CHOOSE e \in D : e.seq = q IN IF d.failed THEN "error" ELSE d.type

CompleteDescs(p, D) ==
  LET numbers == {d.seq : d \in D} IN
  /\ scoreboard' = [scoreboard EXCEPT ![p] =
                      TrackCompletion(@, numbers, Failed(D) # {})]
  /\ groups' = [groups EXCEPT ![p] = [r \in DOMAIN @ |->
        GroupComplete(@[r], Cardinality(MembersOf(r, D)), Failed(MembersOf(r, D)) # {})]]
  /\ doneSeqs' = [doneSeqs EXCEPT ![p] = scoreboard'[p].nextSequence - 1]
  /\ completionCount' = completionCount
       + Cardinality({d \in D \ Failed(D) : CompletesApiOperation(d)})
  /\ outcome' = [outcome EXCEPT ![p] = [q \in Seqs |->
                   IF q \in numbers THEN Outcome(q, D) ELSE @[q]]]
  /\ pendingError' = (pendingError \/ Failed(D) # {})

-----------------------------------------------------------------------------
(* One pass of the progress thread: flagcxRmaProxyProgress *)

Stage(s) == pass.stage = s
To(s) == pass' = [pass EXCEPT !.stage = s]

NextPeer ==
  pass' = IF pass.peer < NPeers THEN [stage |-> "poll", peer |-> pass.peer + 1]
                                ELSE [stage |-> "end", peer |-> 1]

\* A request that test reports done, and whether it failed.  A descriptor
\* without a native request is done with the result it carries.
TestDone(p, d) == nic[p][d.seq] \in {"unposted", "ok", "failed"}
TestFailed(p, d) == d.failed \/ nic[p][d.seq] = "failed"

Pollable(p) == {d \in inProgress[p] : ~d.flushPending /\ TestDone(p, d)}

\* flagcxRmaProxyPollNonPersistCompletion, first loop: a finished request is
\* retired; a GET, which needs a flush, is kept.
PollOne ==
  LET p == pass.peer IN
  /\ Stage("poll")
  /\ \E d \in Pollable(p) :
       LET done == [d EXCEPT !.failed = TestFailed(p, d)] IN
       IF d.getSequence # 0
         THEN /\ inProgress' = [inProgress EXCEPT ![p] =
                   (@ \ {d}) \cup {[done EXCEPT !.flushPending = TRUE]}]
              /\ pendingError' = (pendingError \/ done.failed)
              /\ UNCHANGED <<doneVars, scoreboard, groups, inFlights>>
         ELSE /\ inProgress' = [inProgress EXCEPT ![p] = @ \ {d}]
              /\ inFlights' = [inFlights EXCEPT ![p] = @ - 1]
              /\ CompleteDescs(p, {done})
  /\ UNCHANGED <<threadVars, mutex, stream, readySeqs, ring, opSeqs, rmaError,
                 quiesced, domain, pass, counting, envVars>>

\* The walk is over.  A request that ended after its test is left for the
\* next pass; a descriptor without a native request never is.
PollEnd ==
  /\ Stage("poll")
  /\ \A d \in Pollable(pass.peer) : nic[pass.peer][d.seq] # "unposted"
  /\ To("domain")
  /\ UNCHANGED <<threadVars, mutex, stream, readySeqs, ringVars, doneVars, errVars,
                 inProgress, inFlights, domain, counting, envVars>>

\* The live GETs of p with numbers in the range.
Gets(p, lo, hi) == {d \in inProgress[p] : d.getSequence \in lo..hi}

\* A failed flush fails the GETs it covers.
FailGets(p, lo, hi) ==
  {IF d \in Gets(p, lo, hi) THEN [d EXCEPT !.failed = TRUE] ELSE d : d \in inProgress[p]}

\* The contiguous prefix of the issued GETs whose data is complete.
DataCompleted(p) ==
  LET m == domain[p] IN
  CHOOSE c \in m.dataCompleted..m.issued :
    /\ \A g \in m.dataCompleted+1..c : \E d \in Gets(p, g, g) : d.flushPending
    /\ c < m.issued => ~\E d \in Gets(p, c + 1, c + 1) : d.flushPending

\* flagcxRmaProxyProgressGetVisibilityDomain, first part: the flush that was
\* posted, and the prefix of complete GETs.
TestFlush(answer) ==
  LET p == pass.peer
      m == domain[p]
      done == m.request /\ answer # "pending"
      m2 == [m EXCEPT !.dataCompleted = DataCompleted(p),
                      !.visible = IF done THEN m.target ELSE @,
                      !.request = m.request /\ ~done]
  IN
  /\ Stage("domain")
  /\ IF m.request THEN answer # "none" ELSE answer = "none"
  /\ answer = "failed" => failures < MaxFailures
  /\ domain' = [domain EXCEPT ![p] = m2]
  /\ IF answer = "failed"
       THEN /\ inProgress' = [inProgress EXCEPT ![p] = FailGets(p, m.visible + 1, m.target)]
            /\ pendingError' = TRUE
            /\ failures' = failures + 1
            /\ UNCHANGED visible
       ELSE /\ visible' = IF done THEN [visible EXCEPT ![p] = @ \cup m.snapshot] ELSE visible
            /\ UNCHANGED <<inProgress, pendingError, failures>>
  /\ To("flush")
  /\ UNCHANGED <<threadVars, mutex, stream, readySeqs, ringVars, doneVars, rmaError,
                 quiesced, inFlights, counting, nic, events>>

Flushable(p, lo, hi) == {d \in Gets(p, lo, hi) : ~d.failed}

\* What a flush that is posted now makes visible.
Arrived(p) == {q \in Seqs : nic[p][q] = "ok"}

\* Mutant: the flush covers every issued GET.
FlushTarget_issued(m) == IF m.target > m.visible THEN m.target ELSE m.issued

FlushTarget(m) == IF m.target > m.visible THEN m.target ELSE m.dataCompleted

\* Second part: a flush of the complete GETs is posted, unless one is under
\* way.  The adaptor's flush is asynchronous, done at once, refused for now,
\* or fails.  Failed GETs alone need no flush.
PostFlush(answer) ==
  LET p == pass.peer
      m == domain[p]
      idle == m.request \/ m.dataCompleted <= m.visible
      target == FlushTarget(m)
      range == Flushable(p, m.visible + 1, target)
  IN
  /\ Stage("flush")
  /\ CASE idle -> answer = "none" /\ UNCHANGED <<domain, inProgress, visible, failures, pendingError>>
       [] ~idle /\ range = {} ->
            /\ answer = "none"
            /\ domain' = [domain EXCEPT ![p].visible = m.dataCompleted,
                                        ![p].target = m.dataCompleted]
            /\ UNCHANGED <<inProgress, visible, failures, pendingError>>
       [] OTHER ->
            /\ answer \in {"pending", "request", "done"}
                          \cup (IF failures < MaxFailures THEN {"failed"} ELSE {})
            /\ domain' = [domain EXCEPT ![p] =
                 [m EXCEPT !.target = target,
                           !.request = (answer = "request"),
                           !.snapshot = Arrived(p),
                           !.visible = IF answer \in {"done", "failed"} THEN target ELSE m.visible]]
            /\ visible' = IF answer = "done" THEN [visible EXCEPT ![p] = @ \cup Arrived(p)]
                                             ELSE visible
            /\ IF answer = "failed"
                 THEN /\ inProgress' = [inProgress EXCEPT ![p] = FailGets(p, m.visible + 1, target)]
                      /\ pendingError' = TRUE
                      /\ failures' = failures + 1
                 ELSE UNCHANGED <<inProgress, pendingError, failures>>
  /\ To("gets")
  /\ UNCHANGED <<threadVars, mutex, stream, readySeqs, ringVars, doneVars, rmaError,
                 quiesced, inFlights, counting, nic, events>>

\* The GETs that are visible are retired; a domain without GETs is reset.
RetireGets ==
  LET p == pass.peer
      m == domain[p]
      D == {d \in inProgress[p] : d.flushPending /\ d.getSequence <= m.visible}
      rest == inProgress[p] \ D
  IN
  /\ Stage("gets")
  /\ inProgress' = [inProgress EXCEPT ![p] = rest]
  /\ inFlights' = [inFlights EXCEPT ![p] = @ - Cardinality(D)]
  /\ CompleteDescs(p, D)
  /\ domain' = IF ~m.request /\ m.issued = m.visible /\ Gets(p, 1, m.issued) \cap rest = {}
               THEN [domain EXCEPT ![p] = NoDomain] ELSE domain
  /\ To("submit")
  /\ UNCHANGED <<threadVars, mutex, stream, readySeqs, ring, opSeqs, rmaError,
                 quiesced, counting, envVars>>

-----------------------------------------------------------------------------
(* flagcxRmaProxyPollNonPersistDesc *)

Queued(d, failed) ==
  [seq |-> d.seq, type |-> d.type, group |-> d.group,
   failed |-> failed, flushPending |-> FALSE, getSequence |-> 0]

GroupReady(p, d) == d.type = "release" => GroupDone(groups[p][d.group])

\* The head of the ring may be looked at: its group is done, its event has
\* happened or its source is ready, and there is room in flight.
HeadReady(p) ==
  LET d == Head(ring[p]) IN
  /\ ring[p] # <<>>
  /\ inFlights[p] < QueueSize
  /\ GroupReady(p, d)
  /\ IF d.event THEN d.seq \in events[p] ELSE readySeqs[p] >= d.seq
  /\ d.type = "ipcget" => doneSeqs[p] >= d.seq - 1

\* The event of the head has happened.  An IPC GET, copied by the stream, is
\* retired without a request; when the copy or the event failed, so is a GET.
RetireAtEvent(failed) ==
  LET p == pass.peer
      d == Head(ring[p])
  IN
  /\ Stage("submit") /\ ~Poisoned
  /\ HeadReady(p)
  /\ d.event /\ (d.type = "ipcget" \/ failed)
  /\ failed => failures < MaxFailures
  /\ ring' = [ring EXCEPT ![p] = Tail(@)]
  /\ failures' = IF failed THEN failures + 1 ELSE failures
  /\ CompleteDescs(p, {Queued(d, failed)})
  /\ IF failed THEN NextPeer ELSE UNCHANGED pass
  /\ UNCHANGED <<threadVars, mutex, stream, readySeqs, opSeqs, rmaError, quiesced,
                 inProgress, inFlights, domain, counting, nic, events, visible>>

\* The descriptors one submission takes: a run of PUTs of one group that are
\* all ready, or the head alone.
Batch(p) ==
  LET d == Head(ring[p])
      fits(n) == /\ n <= Len(ring[p]) /\ n <= BatchMax
                 /\ n <= QueueSize - inFlights[p]
                 /\ \A j \in 1..n : /\ ring[p][j].type = "put"
                                    /\ ring[p][j].group = d.group
                                    /\ ring[p][j].seq <= readySeqs[p]
  IN  IF d.type # "put" THEN 1 ELSE CHOOSE n \in 1..Len(ring[p]) : fits(n) /\ ~fits(n + 1)

GroupFailed(p, d) == d.type = "release" /\ ~ReleaseAllowed(groups[p][d.group])

Postable(p) ==
  HeadReady(p) /\ Head(ring[p]).type # "ipcget" /\ ~GroupFailed(p, Head(ring[p]))

\* The adaptor takes the first n descriptors of the batch, with or without a
\* permanent error for the rest.  They leave the ring before they are counted
\* in inFlights.
Post(n, fatal) ==
  LET p == pass.peer
      k == Batch(p)
      D == {ring[p][j] : j \in 1..n}
      get == Head(ring[p]).type = "get"
  IN
  /\ Stage("submit") /\ ~Poisoned
  /\ Postable(p)
  /\ n \in 1..k /\ (fatal => n < k /\ failures < MaxFailures)
  /\ ring' = [ring EXCEPT ![p] = SubSeq(@, n + 1, Len(@))]
  /\ nic' = [nic EXCEPT ![p] = [q \in Seqs |-> IF \E d \in D : d.seq = q THEN "live" ELSE @[q]]]
  /\ domain' = IF get THEN [domain EXCEPT ![p].issued = @ + 1] ELSE domain
  /\ counting' = {IF get THEN [Queued(d, FALSE) EXCEPT !.getSequence = domain[p].issued + 1]
                         ELSE Queued(d, FALSE) : d \in D}
  /\ pendingError' = (pendingError \/ fatal)
  /\ failures' = IF fatal THEN failures + 1 ELSE failures
  /\ To("count")
  /\ UNCHANGED <<threadVars, mutex, stream, readySeqs, opSeqs, scoreboard, groups,
                 doneVars, rmaError, quiesced, inProgress, inFlights, events, visible>>

\* The adaptor fails for good: a single descriptor is queued with the error,
\* a batch stays in the ring to be drained.  (The release of a failed group is
\* queued with the error too; it never gets that far, because the failure of a
\* member has set pendingError and the ring is drained.)
PostFails ==
  LET p == pass.peer
      single == Batch(p) = 1
  IN
  /\ Stage("submit") /\ ~Poisoned
  /\ HeadReady(p) /\ Head(ring[p]).type # "ipcget"
  /\ IF GroupFailed(p, Head(ring[p])) THEN UNCHANGED <<failures, pendingError>>
     ELSE /\ failures < MaxFailures
          /\ failures' = failures + 1
          /\ pendingError' = TRUE
  /\ IF single
       THEN /\ ring' = [ring EXCEPT ![p] = Tail(@)]
            /\ counting' = {Queued(Head(ring[p]), TRUE)}
            /\ To("count")
       ELSE /\ NextPeer
            /\ UNCHANGED <<ring, counting>>
  /\ UNCHANGED <<threadVars, mutex, stream, readySeqs, opSeqs, scoreboard, groups,
                 doneVars, rmaError, quiesced, inProgress, inFlights, domain,
                 nic, events, visible>>

\* inProgressQueues and inFlights get what was taken from the ring.
Count ==
  LET p == pass.peer IN
  /\ Stage("count")
  /\ inProgress' = [inProgress EXCEPT ![p] = @ \cup counting]
  /\ inFlights' = [inFlights EXCEPT ![p] = @ + Cardinality(counting)]
  /\ counting' = {}
  /\ IF Poisoned THEN NextPeer ELSE To("submit")
  /\ UNCHANGED <<threadVars, mutex, stream, readySeqs, ringVars, doneVars, errVars,
                 domain, envVars>>

\* The head cannot be posted now, or the adaptor has no room for it.
SubmitEnd ==
  LET p == pass.peer IN
  /\ Stage("submit") /\ ~Poisoned
  /\ HeadReady(p) => Postable(p)
  /\ NextPeer
  /\ UNCHANGED <<threadVars, mutex, stream, readySeqs, ringVars, doneVars, errVars,
                 inProgress, inFlights, domain, counting, envVars>>

\* After an error: the ring is drained under the producer mutex, every
\* descriptor is retired with an error.
Drain ==
  LET p == pass.peer IN
  /\ Stage("submit") /\ Poisoned
  /\ mutex[p] = Nobody
  /\ CompleteDescs(p, {Queued(ring[p][j], TRUE) : j \in DOMAIN ring[p]})
  /\ ring' = [ring EXCEPT ![p] = <<>>]
  /\ NextPeer
  /\ UNCHANGED <<threadVars, mutex, stream, readySeqs, opSeqs, rmaError, quiesced,
                 inProgress, inFlights, domain, counting, envVars>>

\* Mutant: the error is published at once.
AllNativeRequestsRetired_no == TRUE

AllNativeRequestsRetired == \A p \in Peer : inFlights[p] = 0

\* The end of the pass: flagcxRmaProxyPublishError.
EndPass ==
  /\ Stage("end")
  /\ rmaError' = (rmaError \/ (pendingError /\ AllNativeRequestsRetired))
  /\ pass' = [stage |-> "poll", peer |-> 1]
  /\ UNCHANGED <<threadVars, mutex, stream, readySeqs, ringVars, doneVars, pendingError,
                 quiesced, inProgress, inFlights, domain, counting, envVars>>

-----------------------------------------------------------------------------
\* The network: a posted request ends, well or not.
NicComplete(p, q, result) ==
  /\ nic[p][q] = "live"
  /\ result = "failed" => failures < MaxFailures
  /\ nic' = [nic EXCEPT ![p][q] = result]
  /\ failures' = IF result = "failed" THEN failures + 1 ELSE failures
  /\ UNCHANGED <<threadVars, mutex, stream, readySeqs, ringVars, doneVars, errVars,
                 progVars, events, visible>>

Network == \E p \in Peer, q \in Seqs, r \in {"ok", "failed"} : NicComplete(p, q, r)

ThreadStep(t) ==
  \/ Acquire(t) \/ Publish(t) \/ Yield(t)
  \/ Flush(t) \/ WaitCounter(t) \/ Quiesce(t)

\* The steps of the progress thread that bring an operation to its end.
Work ==
  \/ PollOne \/ TestFlush("done") \/ PostFlush("request") \/ PostFlush("done")
  \/ \E n \in 1..BatchMax : Post(n, FALSE)

Walk ==
  \/ PollEnd \/ RetireGets \/ Count \/ SubmitEnd \/ Drain \/ EndPass
  \/ \E a \in {"none", "pending", "failed"} : TestFlush(a)
  \/ \E a \in {"none", "pending", "failed"} : PostFlush(a)
  \/ \E f \in BOOLEAN : RetireAtEvent(f)
  \/ \E n \in 1..BatchMax : Post(n, TRUE)
  \/ PostFails

Next ==
  \/ \E t \in Thread : ThreadStep(t) \/ StreamStep(t)
  \/ Work \/ Walk
  \/ Network

Spec == Init /\ [][Next]_vars

\* The threads run and get the mutex in the end, streams and the network do
\* what they were given, and the adaptor does not refuse a request or a flush,
\* or hide its end, for ever.
Fairness ==
  /\ \A t \in Thread : SF_vars(ThreadStep(t)) /\ WF_vars(StreamStep(t))
  /\ WF_vars(Work \/ Walk) /\ SF_vars(Work)
  /\ WF_vars(Network)

LiveSpec == Spec /\ Fairness

-----------------------------------------------------------------------------
(* Properties *)

\* "the signal-only release is submitted only after every member completes
\* successfully" (flagcx_hetero.h): a signal never reaches the peer before the
\* data it announces, nor when a part of the data failed.
SignalAfterData ==
  \A p \in Peer, r \in Seqs :
    r \in DOMAIN groups[p] /\ nic[p][r] # "unposted" =>
      groups[p][r].pending = 0 /\ ~groups[p][r].firstError

\* "rmaError is published only after accepted native requests retire, so
\* stream waiters cannot release their source buffers prematurely"
\* (flagcx_hetero.h): what a flush or a stream waits for, a done sequence
\* number or the error, never holds while the adaptor still uses the buffers
\* of the operation.
NoLiveRequestBehindWaiter ==
  \A p \in Peer, q \in Seqs :
    nic[p][q] = "live" => q > doneSeqs[p] /\ ~rmaError

\* A GET that is retired with success is visible to the device: a flush that
\* was posted after its data had arrived has ended.
GetVisibleWhenDone ==
  \A p \in Peer, q \in Seqs : outcome[p][q] = "get" => q \in visible[p]

AllReturned == \A t \in Thread : ~Running(t) /\ stream[t] = <<>>

\* Every call returns and every stream goes on, whatever fails: no descriptor
\* is lost between the ring, the queue in progress and the scoreboard, and no
\* waiter misses both the done number and the error.
CallsReturn == <>AllReturned

=============================================================================
