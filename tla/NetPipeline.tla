----------------------------- MODULE NetPipeline -----------------------------
(***************************************************************************)
(* The NET transport (flagcx/core/net.cc): the proxy threads of two ranks  *)
(* move the operations of one connection chunk by chunk over a network     *)
(* adaptor.  A chunk goes through a staging slot on each side, unless the  *)
(* side has registered the user buffer: the sender copies it to its slot   *)
(* on a device stream, posts it and polls the request; the receiver posts  *)
(* a receive, polls it, flushes the written data to make it visible to the *)
(* device and copies it out of its slot.  Up to Chunks chunks are under    *)
(* way on a side.  A scoreboard of the operation retires them in order,    *)
(* although the requests of different queue pairs complete in any order.   *)
(*                                                                         *)
(* A call of flagcxProxySend or flagcxProxyRecv runs through its stages;   *)
(* the device and the network move between two stages of one call.  Sizes  *)
(* and addresses are left out: a buffer's chunk holds the number of the    *)
(* operation and of the chunk it was filled with.                          *)
(***************************************************************************)
EXTENDS Integers, Sequences, FiniteSets, Scoreboard

CONSTANTS
  StepsOf,   \* args.chunkSteps of each operation, in order
  BaseOf,    \* args.sequenceBase of each send: not 0 for a relayed chunk
  Chunks,    \* flagcxNetChunks, a power of two
  MayFail    \* whether the adaptor may return a hard error

Op == DOMAIN StepsOf
N  == Len(StepsOf)

ASSUME NetPipelineAssumption ==
  /\ StepsOf \in Seq(Nat \ {0})
  /\ BaseOf \in [Op -> Nat]
  /\ Chunks \in Nat \ {0}
  /\ MayFail \in BOOLEAN

Side == {"send", "recv"}
Slot == 0..Chunks-1
Empty == <<0, 0>>

\* sequence & sendStepMask: Chunks is a power of two.
SlotOf(k) == k % Chunks

VARIABLES
  regBufFlag,     \* whether the side's user buffers are registered
  flushRequired,  \* flagcxGetCollectiveWriteVisibilityPolicy
  cur,            \* the operation at the head of the side's queue
  pc,             \* the stage of the call on it
  args,           \* its counters of chunks
  transport,      \* its scoreboard: args.collTransport
  requests,       \* args.subs[slot].requests[0]
  netCompleted,   \* args.netCompleted, of the receiver
  failed,         \* whether the side's call returned an error
  staging,        \* what each staging slot holds
  executed,       \* chunks of the head whose staging copy was executed
  moved,          \* chunks the network has moved
  landed,         \* chunks written by the network, not visible to the device
  data            \* what each chunk of each receive buffer holds

callVars == <<cur, pc, args, transport, requests, netCompleted, failed>>
devVars  == <<staging, executed, data>>
netVars  == <<moved, landed>>
setVars  == <<regBufFlag, flushRequired>>
pipelineVars == <<setVars, callVars, devVars, netVars>>

-----------------------------------------------------------------------------
\* posted, waitCopy and postFlush are the code's; retired is args.transmitted
\* of the sender and args.copied of the receiver.
NewArgs == [waitCopy |-> 0, posted |-> 0, postFlush |-> 0, retired |-> 0]

Base(s, i) == IF s = "send" THEN BaseOf[i] ELSE 0

\* flagcxCollProxyTransportInit
NewTransport(s, i) ==
  [nextSubmit |-> Base(s, i),
   contexts |-> [e \in Slot |-> 0],
   scoreboard |-> NewScoreboard(Chunks, Base(s, i))]

FirstStage(s) == IF s = "send" THEN "copy" ELSE "post"

PipelineInit ==
  /\ regBufFlag \in [Side -> BOOLEAN]
  /\ flushRequired \in BOOLEAN
  /\ cur = [s \in Side |-> 1]
  /\ pc = [s \in Side |-> FirstStage(s)]
  /\ args = [s \in Side |-> NewArgs]
  /\ transport = [s \in Side |-> NewTransport(s, 1)]
  /\ requests = [s \in Side |-> [x \in Slot |-> "null"]]
  /\ netCompleted = [x \in Slot |-> FALSE]
  /\ failed = [s \in Side |-> FALSE]
  /\ staging = [s \in Side |-> [x \in Slot |-> Empty]]
  /\ executed = [s \in Side |-> 0]
  /\ moved = {}
  /\ landed = {}
  /\ data = [i \in Op |-> [k \in 0..StepsOf[i]-1 |-> Empty]]

At(s, p) == pc[s] = p /\ cur[s] \in Op /\ ~failed[s]
Goto(s, p) == pc' = [pc EXCEPT ![s] = p]
Return(s) == Goto(s, FirstStage(s))
Fail(s) == failed' = [failed EXCEPT ![s] = TRUE] /\ UNCHANGED pc

Steps(s) == StepsOf[cur[s]]
Retiring(s) == args[s].retired < Steps(s)

\* The event of slot x was recorded after the last copy that used x;
\* eventQuery tells whether the device has executed that copy.
EventDone(s, k) ==
  \A j \in 0..args[s].waitCopy-1 : SlotOf(j) = SlotOf(k) => executed[s] > j

-----------------------------------------------------------------------------
(* flagcxCollProxyTrackNext, flagcxCollProxyCancel, flagcxCollProxyComplete *)

TrackNextResult(s) ==
  TrackSubmitResult(transport[s].scoreboard, transport[s].nextSubmit)

TrackNext(t) ==
  [nextSubmit |-> t.nextSubmit + 1,
   contexts |-> [t.contexts EXCEPT ![SlotOf(t.nextSubmit)] = t.nextSubmit],
   scoreboard |-> TrackSubmit(t.scoreboard, t.nextSubmit)]

\* A chunk that the scoreboard does not take: the window is full and the call
\* returns, or the number is wrong and the call fails.
Refused(s) ==
  IF TrackNextResult(s) = "inProgress" THEN Return(s) /\ UNCHANGED failed ELSE Fail(s)

Cancel(t) ==
  [t EXCEPT !.nextSubmit = @ - 1,
            !.scoreboard = TrackCancel(@, t.nextSubmit - 1)]

\* The context the code picks for the completion of chunk k.  The scoreboard
\* refuses a context that is not pending; it would then never retire the chunk,
\* and TransfersEnd would fail.
Context(s, k) == transport[s].contexts[SlotOf(Base(s, cur[s]) + k)]

\* The transport of the side after the completions of all chunks of D.
Complete(s, D) ==
  [transport[s] EXCEPT !.scoreboard = TrackCompletion(@, {Context(s, k) : k \in D}, FALSE)]

RetiredBy(s, t) ==
  t.scoreboard.nextSequence - transport[s].scoreboard.nextSequence

-----------------------------------------------------------------------------
(* flagcxProxySend *)

\* Mutant: the slot of a chunk that is still being transmitted is reused.
HasRoom_posted(s, count) == count - args[s].posted < Chunks

\* Fewer than Chunks chunks are under way.
HasRoom(s, count) == count - args[s].retired < Chunks

\* A free slot is filled: the copy is put on the stream.  A registered buffer
\* is sent from where it is.
SendCopy ==
  LET a == args["send"] IN
  /\ At("send", "copy")
  /\ Retiring("send")
  /\ IF a.waitCopy < Steps("send") /\ HasRoom("send", a.waitCopy)
       THEN args' = [args EXCEPT !["send"].waitCopy = @ + 1]
       ELSE UNCHANGED args
  /\ Goto("send", "post")
  /\ UNCHANGED <<setVars, cur, transport, requests, netCompleted, failed,
                 devVars, netVars>>

SendReady(k) ==
  /\ k < args["send"].waitCopy
  /\ regBufFlag["send"] \/ EventDone("send", k)

\* isend of the next chunk that is ready.  A full scoreboard ends the call.
\* The adaptor takes the chunk, or has no room for it (no request), or fails.
Isend(answer) ==
  LET k == args["send"].posted
      t == TrackNext(transport["send"])
  IN
  /\ At("send", "post")
  /\ SendReady(k)
  /\ CASE TrackNextResult("send") # "success" ->
            /\ Refused("send")
            /\ UNCHANGED <<transport, requests, args>>
       [] OTHER -> CASE answer = "request" ->
            /\ transport' = [transport EXCEPT !["send"] = t]
            /\ requests' = [requests EXCEPT !["send"][SlotOf(k)] = "net"]
            /\ args' = [args EXCEPT !["send"].posted = @ + 1]
            /\ Goto("send", "poll")
            /\ UNCHANGED failed
       [] answer = "none" ->
            /\ transport' = [transport EXCEPT !["send"] = Cancel(t)]
            /\ Goto("send", "poll")
            /\ UNCHANGED <<requests, args, failed>>
       [] answer = "error" ->
            /\ transport' = [transport EXCEPT !["send"] = Cancel(t)]
            /\ Fail("send")
            /\ UNCHANGED <<requests, args>>
  /\ UNCHANGED <<setVars, cur, netCompleted, devVars, netVars>>

\* Mutant: the loop skips the oldest chunk.
Testable_newer(s, lo) ==
  {k \in lo+1..args[s].posted-1 :
     requests[s][SlotOf(k)] = "net" /\ <<cur[s], k>> \in moved}

\* The chunks from lo on whose network request may be reported done.
Testable(s, lo) ==
  {k \in lo..args[s].posted-1 :
     requests[s][SlotOf(k)] = "net" /\ <<cur[s], k>> \in moved}

\* The accepted requests are polled; D are those that are done.
SendPoll(D) ==
  LET t == Complete("send", D) IN
  /\ At("send", "poll")
  /\ D \subseteq Testable("send", args["send"].retired)
  /\ requests' = [requests EXCEPT !["send"] = [x \in Slot |->
                    IF \E k \in D : SlotOf(k) = x THEN "null" ELSE @[x]]]
  /\ transport' = [transport EXCEPT !["send"] = t]
  /\ args' = [args EXCEPT !["send"].retired = @ + RetiredBy("send", t)]
  /\ Return("send")
  /\ UNCHANGED <<setVars, cur, netCompleted, failed, devVars, netVars>>

\* A request fails.
TestFails(s) ==
  /\ MayFail
  /\ At(s, "poll")
  /\ \E x \in Slot : requests[s][x] = "net"
  /\ Fail(s)
  /\ UNCHANGED <<setVars, cur, args, transport, requests, netCompleted,
                 devVars, netVars>>

-----------------------------------------------------------------------------
(* flagcxProxyRecv *)

RecvHasRoom == args["recv"].posted < Steps("recv") /\ HasRoom("recv", args["recv"].posted)

\* irecv into the next free slot, or into the registered buffer.  A receive
\* that is taken ends the call.
Irecv(answer) ==
  LET k == args["recv"].posted
      t == TrackNext(transport["recv"])
  IN
  /\ At("recv", "post")
  /\ Retiring("recv")
  /\ RecvHasRoom
  /\ CASE TrackNextResult("recv") # "success" ->
            /\ Refused("recv")
            /\ UNCHANGED <<transport, requests, netCompleted, args>>
       [] OTHER -> CASE answer = "request" ->
            /\ transport' = [transport EXCEPT !["recv"] = t]
            /\ requests' = [requests EXCEPT !["recv"][SlotOf(k)] = "net"]
            /\ netCompleted' = [netCompleted EXCEPT ![SlotOf(k)] = FALSE]
            /\ args' = [args EXCEPT !["recv"].posted = @ + 1]
            /\ Return("recv")
            /\ UNCHANGED failed
       [] answer = "none" ->
            /\ transport' = [transport EXCEPT !["recv"] = Cancel(t)]
            /\ Goto("recv", "poll")
            /\ UNCHANGED <<requests, netCompleted, args, failed>>
       [] answer = "error" ->
            /\ transport' = [transport EXCEPT !["recv"] = Cancel(t)]
            /\ Fail("recv")
            /\ UNCHANGED <<requests, netCompleted, args>>
  /\ UNCHANGED <<setVars, cur, devVars, netVars>>

\* The requests that are not known to be complete are polled.
RecvPoll(D) ==
  /\ At("recv", "poll")
  /\ D \subseteq {k \in Testable("recv", args["recv"].postFlush) :
                    ~netCompleted[SlotOf(k)]}
  /\ requests' = [requests EXCEPT !["recv"] = [x \in Slot |->
                    IF \E k \in D : SlotOf(k) = x THEN "null" ELSE @[x]]]
  /\ netCompleted' = [x \in Slot |->
                        netCompleted[x] \/ \E k \in D : SlotOf(k) = x]
  /\ Goto("recv", "flush")
  /\ UNCHANGED <<setVars, cur, args, transport, failed, devVars, netVars>>

FlushReady(k) == k < args["recv"].posted /\ netCompleted[SlotOf(k)]

\* What makes chunk <<i, k>> visible to the device: the bytes are in the
\* registered buffer or in the staging slot.
Land(c, v) ==
  IF regBufFlag["recv"]
    THEN /\ data' = [data EXCEPT ![c[1]][c[2]] = v]
         /\ UNCHANGED staging
    ELSE /\ staging' = [staging EXCEPT !["recv"][SlotOf(c[2])] = v]
         /\ UNCHANGED data

LandAll(C) ==
  IF C = {} THEN UNCHANGED <<staging, data>>
  ELSE \E l \in C : Land(l.chunk, l.value)

LandedAs(c) == {l \in landed : l.chunk = c}

\* The next complete chunk is flushed, if the policy asks for it.  The
\* adaptor's flush is asynchronous, done at once, or refused for now.
Flush(answer) ==
  LET k == args["recv"].postFlush
      now == LandedAs(<<cur["recv"], k>>)
  IN
  /\ At("recv", "flush")
  /\ FlushReady(k)
  /\ IF flushRequired THEN answer \in {"request", "done", "none"} ELSE answer = "skip"
  /\ IF answer = "none"
       THEN UNCHANGED <<args, requests, landed, staging, data>>
       ELSE /\ args' = [args EXCEPT !["recv"].postFlush = @ + 1]
            /\ requests' = [requests EXCEPT !["recv"][SlotOf(k)] =
                 IF answer = "request" THEN "flush" ELSE "0x1"]
            /\ IF answer = "done"
                 THEN LandAll(now) /\ landed' = landed \ now
                 ELSE UNCHANGED <<landed, staging, data>>
  /\ Return("recv")
  /\ UNCHANGED <<setVars, cur, transport, netCompleted, failed, executed, moved>>

\* test of the flush request; 0x1 stands for a flush that is not needed.
FlushDone(k) ==
  /\ k < args["recv"].postFlush
  /\ \/ requests["recv"][SlotOf(k)] = "0x1"
     \/ LandedAs(<<cur["recv"], k>>) = {}

\* iflush of the next complete chunk, or a flush request that is tested, fails.
FlushFails ==
  /\ MayFail
  /\ \/ /\ At("recv", "flush")
        /\ flushRequired
        /\ FlushReady(args["recv"].postFlush)
     \/ /\ At("recv", "wait")
        /\ args["recv"].waitCopy < args["recv"].postFlush
        /\ requests["recv"][SlotOf(args["recv"].waitCopy)] = "flush"
  /\ Fail("recv")
  /\ UNCHANGED <<setVars, cur, args, transport, requests, netCompleted,
                 devVars, netVars>>

\* The chunk is visible: it is copied to the user buffer.
RecvCopy ==
  /\ At("recv", "wait")
  /\ FlushDone(args["recv"].waitCopy)
  /\ args' = [args EXCEPT !["recv"].waitCopy = @ + 1]
  /\ Return("recv")
  /\ UNCHANGED <<setVars, cur, transport, requests, netCompleted, failed,
                 devVars, netVars>>

RecvCopied(k) ==
  /\ k < args["recv"].waitCopy
  /\ regBufFlag["recv"] \/ EventDone("recv", k)

\* The oldest copy that was executed is retired.  The receiver picks the
\* context by the number of the chunk alone.
RecvRetire ==
  LET k == args["recv"].retired
      t == IF RecvCopied(k) THEN Complete("recv", {k})
                            ELSE transport["recv"]
  IN
  /\ At("recv", "retire")
  /\ transport' = [transport EXCEPT !["recv"] = t]
  /\ args' = [args EXCEPT !["recv"].retired = @ + RetiredBy("recv", t)]
  /\ Return("recv")
  /\ UNCHANGED <<setVars, cur, requests, netCompleted, failed, devVars, netVars>>

-----------------------------------------------------------------------------
\* A stage with nothing to do: the call goes on to its next stage.
SkipStage(s) ==
  LET skip(p, q, idle) == pc[s] = p /\ idle /\ Goto(s, q)
      a == args[s]
  IN
  /\ cur[s] \in Op /\ ~failed[s] /\ Retiring(s)
  /\ IF s = "send"
       THEN skip("post", "poll", ~SendReady(a.posted))
       ELSE \/ skip("post", "poll", ~RecvHasRoom)
            \/ skip("flush", "wait", ~FlushReady(a.postFlush))
            \/ skip("wait", "retire", ~FlushDone(a.waitCopy))
  /\ UNCHANGED <<setVars, cur, args, transport, requests, netCompleted, failed,
                 devVars, netVars>>

\* Every chunk is retired: subCounter, done = 1, and progressOps takes the
\* next operation of the queue, prepared by flagcxNetPrepareProxyOp.
Finish(s) ==
  LET i == cur[s] + 1 IN
  /\ At(s, FirstStage(s))
  /\ ~Retiring(s)
  /\ cur' = [cur EXCEPT ![s] = i]
  /\ args' = [args EXCEPT ![s] = NewArgs]
  /\ transport' = IF i \in Op THEN [transport EXCEPT ![s] = NewTransport(s, i)]
                              ELSE transport
  /\ requests' = [requests EXCEPT ![s] = [x \in Slot |-> "null"]]
  /\ netCompleted' = IF s = "recv" THEN [x \in Slot |-> FALSE] ELSE netCompleted
  /\ executed' = [executed EXCEPT ![s] = 0]
  /\ UNCHANGED <<setVars, pc, failed, staging, data, netVars>>

-----------------------------------------------------------------------------
(* The device and the network *)

\* The send buffer may be overwritten once its send is over.
SendData(i, k) == IF cur["send"] <= i THEN <<i, k>> ELSE Empty

\* The stream of side s executes its next staging copy.
DeviceCopy(s) ==
  LET i == cur[s]
      k == executed[s]
  IN
  /\ i \in Op
  /\ ~regBufFlag[s]
  /\ k < args[s].waitCopy
  /\ executed' = [executed EXCEPT ![s] = k + 1]
  /\ IF s = "send"
       THEN /\ staging' = [staging EXCEPT !["send"][SlotOf(k)] = SendData(i, k)]
            /\ UNCHANGED data
       ELSE /\ data' = [data EXCEPT ![i][k] = staging["recv"][SlotOf(k)]]
            /\ UNCHANGED staging
  /\ UNCHANGED <<setVars, callVars, netVars>>

Posted(s, c) == c[1] < cur[s] \/ (c[1] = cur[s] /\ c[2] < args[s].posted)

\* The network moves a chunk that both sides have posted: the adaptor matches
\* the n-th send of the connection with its n-th receive, and the chunks of
\* different queue pairs overtake each other.  It reads the sender's buffer
\* and writes the receiver's; what the device reads there is undefined until
\* the flush, where one is required.
NetMove(c) ==
  LET v == IF regBufFlag["send"] THEN SendData(c[1], c[2])
                                 ELSE staging["send"][SlotOf(c[2])]
  IN
  /\ c \notin moved
  /\ \A s \in Side : Posted(s, c)
  /\ moved' = moved \cup {c}
  /\ IF flushRequired
       THEN Land(c, Empty) /\ landed' = landed \cup {[chunk |-> c, value |-> v]}
       ELSE Land(c, v) /\ UNCHANGED landed
  /\ UNCHANGED <<setVars, callVars, executed>>

\* An asynchronous flush makes the chunk visible.
NetFlush ==
  \E k \in 0..args["recv"].postFlush-1 :
    LET now == LandedAs(<<cur["recv"], k>>) IN
    /\ requests["recv"][SlotOf(k)] = "flush"
    /\ now # {}
    /\ LandAll(now)
    /\ landed' = landed \ now
    /\ UNCHANGED <<setVars, callVars, executed, moved>>

-----------------------------------------------------------------------------
Answer == {"request", "none"} \cup (IF MayFail THEN {"error"} ELSE {})
Chunk == UNION {{i} \X (0..StepsOf[i]-1) : i \in Op}
Windows == UNION {SUBSET (0..StepsOf[i]-1) : i \in Op}

Send ==
  \/ SendCopy \/ SkipStage("send")
  \/ \E a \in Answer : Isend(a)
  \/ \E D \in Windows : SendPoll(D)
  \/ TestFails("send") \/ Finish("send")

Recv ==
  \/ RecvCopy \/ RecvRetire \/ SkipStage("recv")
  \/ \E a \in Answer : Irecv(a)
  \/ \E D \in Windows : RecvPoll(D)
  \/ \E a \in {"request", "done", "none", "skip"} : Flush(a)
  \/ FlushFails \/ TestFails("recv") \/ Finish("recv")

AllDone == \A s \in Side : cur[s] = N + 1
AnyFailed == \E s \in Side : failed[s]

PipelineNext ==
  \/ Send \/ Recv
  \/ \E s \in Side : DeviceCopy(s)
  \/ \E c \in Chunk : NetMove(c)
  \/ NetFlush
  \/ (AllDone \/ AnyFailed) /\ UNCHANGED pipelineVars

PipelineSpec == PipelineInit /\ [][PipelineNext]_pipelineVars

\* The proxy threads poll for ever, the device and the network do what was
\* posted.  The adaptor does not refuse a request for ever, and a request
\* that is done is reported in the end.
PipelineFairness ==
  /\ WF_pipelineVars(Send) /\ WF_pipelineVars(Recv)
  /\ \A s \in Side : WF_pipelineVars(DeviceCopy(s))
  /\ \A c \in Chunk : WF_pipelineVars(NetMove(c))
  /\ WF_pipelineVars(NetFlush)
  /\ SF_pipelineVars(Isend("request")) /\ SF_pipelineVars(Irecv("request"))
  /\ SF_pipelineVars(\E D \in Windows : D # {} /\ SendPoll(D))
  /\ SF_pipelineVars(\E D \in Windows : D # {} /\ RecvPoll(D))
  /\ SF_pipelineVars(\E a \in {"request", "done"} : Flush(a))

LivePipelineSpec == PipelineSpec /\ PipelineFairness

-----------------------------------------------------------------------------
(* Properties *)

T == INSTANCE Transfer WITH
       data <- data,
       over <- [s \in Side |-> cur[s] - 1]

\* The NET transport implements Transfer.  A staging slot that is filled again
\* before the network has read it, a chunk that is copied out before it is
\* there or visible, a send that gives its buffer back too early, or a receive
\* that ends before its last copy, shows as a chunk with the wrong content or
\* as a receive that is over too soon.
ImplementsTransfer == T!Spec

\* Every operation comes to its end unless the adaptor fails: no request is
\* lost from the window that is polled, and the stages of the two sides do not
\* wait for each other in a circle.
TransfersEnd == <>(AllDone \/ AnyFailed)

=============================================================================
