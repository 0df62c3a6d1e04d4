----------------------------- MODULE WorkerPool -----------------------------
(***************************************************************************)
(* flagcxWorkerPool (flagcx/core/worker_pool.cc): a registry of worker     *)
(* threads.  start() registers a worker, creates its thread and blocks     *)
(* until initOnThread() is over; the thread then calls progressOnce()      *)
(* until it has seen the stop flag and a pass reports nothing outstanding, *)
(* calls finishOnThread() and publishes its result.  retire() stops, joins *)
(* and erases one registration; joinAll() (also the destructor) stops the  *)
(* pool and joins a snapshot of the registrations.                         *)
(*                                                                         *)
(* A step is one critical section of the pool mutex, of a joinMutex_ or of *)
(* an initMutex_, one access to an atomic, or one callback.  joinMutex_ is *)
(* explicit, because it is held while pthread_join blocks; the other       *)
(* mutexes are never held across a wait.  The vector workers_ is the set   *)
(* registered: its order only decides which of several errors joinAll      *)
(* reports.  Calls are made outside worker callbacks and never on a handle *)
(* that has been retired, as worker_pool.h requires.                       *)
(***************************************************************************)
EXTENDS Integers

CONSTANTS
  Worker,           \* the Worker objects start() may create, one call each
  Caller,           \* the threads that call the pool's control methods
  NoOne,            \* the owner of a free joinMutex_, the target of no call
  MaxWork,          \* bound: operations the business hands to one worker
  MaxJoinFailures   \* bound: how often pthread_join may fail

ASSUME WorkerPoolAssumption ==
  /\ NoOne \notin Worker \cup Caller
  /\ MaxWork \in Nat
  /\ MaxJoinFailures \in Nat

VARIABLES
  \* The pool.
  stopping,      \* stopping_
  registered,    \* workers_
  destroyed,     \* the destructor has run to its end
  \* One Worker object each.
  thread,        \* where run() is
  stop,          \* stop_
  initDone,      \* initDone_
  initResult,    \* initResult_
  result,        \* result_
  retiring,      \* retiring_
  joined,        \* threadJoined_
  joinMutex,     \* the caller that holds joinMutex_
  sawStop,       \* the local `stopping` of the latest pass of run()
  exitResult,    \* the local `result` of run()
  \* The business behind the callbacks.
  work,          \* operations accepted and not retired
  given,         \* operations handed over so far, at most MaxWork
  \* One control thread each.
  pc,            \* the next step of the call
  op,            \* the method called
  target,        \* its worker
  todo,          \* the part of joinAll's snapshot that is not joined yet
  sawJoined,     \* the threadJoined_ that start and retire read after join()
  ret,           \* initResult, joinResult or firstError of the call
  handle,        \* workers whose handle start() has returned
  joinFailures   \* pthread_join calls that have failed

poolVars   == <<stopping, registered, destroyed>>
flagVars   == <<stop, initDone, initResult, result, retiring>>
joinVars   == <<joined, joinMutex, joinFailures>>
threadVars == <<thread, sawStop, exitResult>>
workVars   == <<work, given>>
callVars   == <<pc, op, target, todo, sawJoined, ret, handle>>
vars == <<poolVars, flagVars, joinVars, threadVars, workVars, callVars>>

Result == {"Success", "InProgress", "InvalidUsage", "Error", "SystemError"}

PoolType ==
  /\ stopping \in BOOLEAN
  /\ registered \in SUBSET Worker
  /\ destroyed \in BOOLEAN

FlagType ==
  /\ stop \in [Worker -> BOOLEAN]
  /\ initDone \in [Worker -> BOOLEAN]
  /\ initResult \in [Worker -> Result]
  /\ result \in [Worker -> Result]
  /\ retiring \in [Worker -> BOOLEAN]

JoinType ==
  /\ joined \in [Worker -> BOOLEAN]
  /\ joinMutex \in [Worker -> Caller \cup {NoOne}]
  /\ joinFailures \in 0..MaxJoinFailures

ThreadType ==
  /\ thread \in [Worker -> {"none", "init", "load", "pass", "finish",
                            "store", "exited"}]
  /\ sawStop \in [Worker -> BOOLEAN]
  /\ exitResult \in [Worker -> Result]

WorkType ==
  /\ work \in [Worker -> 0..MaxWork]
  /\ given \in [Worker -> 0..MaxWork]

CallType ==
  /\ pc \in [Caller -> {"idle", "await", "decide", "stop", "join", "joining",
                        "check", "erase", "snapshot", "next"}]
  /\ op \in [Caller -> {"none", "start", "retire", "join", "joinAll",
                        "destroy"}]
  /\ target \in [Caller -> Worker \cup {NoOne}]
  /\ todo \in [Caller -> SUBSET Worker]
  /\ sawJoined \in [Caller -> BOOLEAN]
  /\ ret \in [Caller -> Result]
  /\ handle \in SUBSET Worker

TypeOK ==
  PoolType /\ FlagType /\ JoinType /\ ThreadType /\ WorkType /\ CallType

Init ==
  /\ stopping = FALSE
  /\ registered = {}
  /\ destroyed = FALSE
  /\ thread = [w \in Worker |-> "none"]
  /\ stop = [w \in Worker |-> FALSE]
  /\ initDone = [w \in Worker |-> FALSE]
  /\ initResult = [w \in Worker |-> "Success"]
  /\ result = [w \in Worker |-> "InProgress"]
  /\ retiring = [w \in Worker |-> FALSE]
  /\ joined = [w \in Worker |-> FALSE]
  /\ joinMutex = [w \in Worker |-> NoOne]
  /\ sawStop = [w \in Worker |-> FALSE]
  /\ exitResult = [w \in Worker |-> "Success"]
  /\ work = [w \in Worker |-> 0]
  /\ given = [w \in Worker |-> 0]
  /\ pc = [c \in Caller |-> "idle"]
  /\ op = [c \in Caller |-> "none"]
  /\ target = [c \in Caller |-> NoOne]
  /\ todo = [c \in Caller |-> {}]
  /\ sawJoined = [c \in Caller |-> FALSE]
  /\ ret = [c \in Caller |-> "Success"]
  /\ handle = {}
  /\ joinFailures = 0

-----------------------------------------------------------------------------
(* Moving a caller through its method. *)

\* c begins the method m on worker w at the step p.
Begin(c, p, m, w) ==
  /\ pc' = [pc EXCEPT ![c] = p]
  /\ op' = [op EXCEPT ![c] = m]
  /\ target' = [target EXCEPT ![c] = w]

\* c goes on to the step p of the method it is in.
Continue(c, p) ==
  /\ pc' = [pc EXCEPT ![c] = p]
  /\ UNCHANGED <<op, target>>

\* The call of c returns; its local variables are gone.
Return(c) ==
  /\ Begin(c, "idle", "none", NoOne)
  /\ ret' = [ret EXCEPT ![c] = "Success"]
  /\ sawJoined' = [sawJoined EXCEPT ![c] = FALSE]

\* The thread of w runs.
Alive(w) == thread[w] \notin {"none", "exited"}

\* No call may race with the destructor or come after it.
MayCall(c) ==
  /\ pc[c] = "idle"
  /\ ~destroyed
  /\ \A d \in Caller : op[d] # "destroy"

-----------------------------------------------------------------------------
(* start() *)

Accepting == ~stopping

\* The candidate is registered and its thread created, under the pool mutex.
\* A call that finds the pool stopping, or whose pthread_create fails, returns
\* an error and leaves no trace.
StartRegister(c, w) ==
  /\ MayCall(c)
  /\ Accepting
  /\ thread[w] = "none"
  /\ registered' = registered \cup {w}
  /\ thread' = [thread EXCEPT ![w] = "init"]
  /\ Begin(c, "await", "start", w)
  /\ UNCHANGED <<stopping, destroyed, flagVars, joinVars, sawStop, exitResult,
                 workVars, todo, sawJoined, ret, handle>>

\* The wait on initCond_ is over.
StartAwait(c) ==
  /\ pc[c] = "await"
  /\ initDone[target[c]]
  /\ ret' = [ret EXCEPT ![c] = initResult[target[c]]]
  /\ Continue(c, "decide")
  /\ UNCHANGED <<poolVars, flagVars, joinVars, threadVars, workVars, todo,
                 handle, sawJoined>>

\* Under the pool mutex again: a pool that began to stop meanwhile turns a
\* good initialization into flagcxInvalidUsage.
StartDecide(c) ==
  /\ pc[c] = "decide"
  /\ IF ret[c] = "Success" /\ ~stopping
       THEN /\ handle' = handle \cup {target[c]}
            /\ Return(c)
       ELSE /\ ret' = [ret EXCEPT ![c] = IF @ = "Success" THEN "InvalidUsage"
                                                          ELSE @]
            /\ Continue(c, "stop")
            /\ UNCHANGED <<handle, sawJoined>>
  /\ UNCHANGED <<poolVars, flagVars, joinVars, threadVars, workVars, todo>>

-----------------------------------------------------------------------------
(* requestStop() and join(), called by start, retire, joinAll and clients. *)

\* Mutant: the store is lost.
Stopped_lost(w) == stop

\* stop_ of w is set.
Stopped(w) == [stop EXCEPT ![w] = TRUE]

RequestStop(c) ==
  /\ pc[c] = "stop"
  /\ stop' = Stopped(target[c])
  /\ Continue(c, "join")
  /\ UNCHANGED <<poolVars, initDone, initResult, result, retiring, joinVars,
                 threadVars, workVars, todo, ret, handle, sawJoined>>

\* What each method does with the value r of join(): joinAll keeps its first
\* error, start keeps initResult, retire keeps r, stopAndJoin returns it.
AfterJoin(c, r) ==
  \/ /\ op[c] \in {"joinAll", "destroy"}
     /\ ret' = [ret EXCEPT ![c] = IF @ = "Success" THEN r ELSE @]
     /\ Continue(c, "next")
     /\ UNCHANGED sawJoined
  \/ /\ op[c] \in {"start", "retire"}
     /\ ret' = [ret EXCEPT ![c] = IF op[c] = "start" THEN @ ELSE r]
     /\ Continue(c, "check")
     /\ UNCHANGED sawJoined
  \/ /\ op[c] = "join"
     /\ Return(c)

\* join() takes joinMutex_; a worker already joined returns its result.
JoinAcquire(c) ==
  LET w == target[c] IN
  /\ pc[c] = "join"
  /\ joinMutex[w] = NoOne
  /\ IF joined[w]
       THEN /\ AfterJoin(c, result[w])
            /\ UNCHANGED joinMutex
       ELSE /\ joinMutex' = [joinMutex EXCEPT ![w] = c]
            /\ Continue(c, "joining")
            /\ UNCHANGED <<ret, sawJoined>>
  /\ UNCHANGED <<poolVars, flagVars, joined, joinFailures, threadVars,
                 workVars, todo, handle>>

ThreadOver(w) == thread[w] = "exited"

\* pthread_join returns once the thread has terminated.
JoinThread(c) ==
  LET w == target[c] IN
  /\ pc[c] = "joining"
  /\ ThreadOver(w)
  /\ joined' = [joined EXCEPT ![w] = TRUE]
  /\ joinMutex' = [joinMutex EXCEPT ![w] = NoOne]
  /\ AfterJoin(c, result[w])
  /\ UNCHANGED <<poolVars, flagVars, joinFailures, threadVars, workVars, todo,
                 handle>>

\* pthread_join fails at once; the thread stays joinable.
JoinFails(c) ==
  LET w == target[c] IN
  /\ pc[c] = "joining"
  /\ joinFailures < MaxJoinFailures
  /\ joinFailures' = joinFailures + 1
  /\ joinMutex' = [joinMutex EXCEPT ![w] = NoOne]
  /\ AfterJoin(c, "SystemError")
  /\ UNCHANGED <<poolVars, flagVars, joined, threadVars, workVars, todo,
                 handle>>

\* start and retire look at threadJoined_ under joinMutex_.  start returns
\* the handle of a worker it could not join; retire goes on in any case.
CheckJoined(c) ==
  LET w == target[c] IN
  /\ pc[c] = "check"
  /\ joinMutex[w] = NoOne
  /\ IF op[c] = "start" /\ ~joined[w]
       THEN /\ handle' = handle \cup {w}
            /\ Return(c)
       ELSE /\ sawJoined' = [sawJoined EXCEPT ![c] = joined[w]]
            /\ Continue(c, "erase")
            /\ UNCHANGED <<ret, handle>>
  /\ UNCHANGED <<poolVars, flagVars, joinVars, threadVars, workVars, todo>>

\* Mutant: the registration is erased whether or not the thread was joined.
MayErase_always(c) == TRUE

MayErase(c) == sawJoined[c]

\* Under the pool mutex: a worker that was seen joined is erased, one that was
\* not may be retired again.
Erase(c) ==
  LET w == target[c] IN
  /\ pc[c] = "erase"
  /\ IF MayErase(c)
       THEN /\ registered' = registered \ {w}
            /\ handle' = handle \ {w}
            /\ UNCHANGED retiring
       ELSE /\ retiring' = [retiring EXCEPT ![w] = FALSE]
            /\ UNCHANGED <<registered, handle>>
  /\ Return(c)
  /\ UNCHANGED <<stopping, destroyed, stop, initDone, initResult, result,
                 joinVars, threadVars, workVars, todo>>

-----------------------------------------------------------------------------
(* Methods on a handle: requestStop, join, stopAndJoin, retire. *)

\* Uses of a handle other than retire() keep it from being retired.
InUse(w) == \E c \in Caller : op[c] = "join" /\ target[c] = w

CallRequestStop(c, w) ==
  /\ MayCall(c)
  /\ w \in handle
  /\ ~retiring[w]
  /\ stop' = Stopped(w)
  /\ UNCHANGED <<poolVars, initDone, initResult, result, retiring, joinVars,
                 threadVars, workVars, callVars>>

\* join() alone waits until somebody stops the worker or it fails.
CallJoin(c, w) ==
  /\ MayCall(c)
  /\ w \in handle
  /\ ~retiring[w]
  /\ Begin(c, "join", "join", w)
  /\ UNCHANGED <<poolVars, flagVars, joinVars, threadVars, workVars, todo, ret,
                 handle, sawJoined>>

CallStopAndJoin(c, w) ==
  /\ MayCall(c)
  /\ w \in handle
  /\ ~retiring[w]
  /\ Begin(c, "stop", "join", w)
  /\ UNCHANGED <<poolVars, flagVars, joinVars, threadVars, workVars, todo, ret,
                 handle, sawJoined>>

MayRetire(w) == ~retiring[w]

\* retire() marks the registration; a second caller is refused.
CallRetire(c, w) ==
  /\ MayCall(c)
  /\ w \in handle
  /\ ~InUse(w)
  /\ MayRetire(w)
  /\ retiring' = [retiring EXCEPT ![w] = TRUE]
  /\ Begin(c, "stop", "retire", w)
  /\ UNCHANGED <<poolVars, stop, initDone, initResult, result, joinVars,
                 threadVars, workVars, todo, sawJoined, ret, handle>>

-----------------------------------------------------------------------------
(* requestStopAll(), joinAll() and the destructor. *)

RequestStopAll ==
  /\ stopping' = TRUE
  /\ stop' = [w \in Worker |-> stop[w] \/ w \in registered]
  /\ UNCHANGED <<registered, destroyed, initDone, initResult, result,
                 retiring>>

CallRequestStopAll(c) ==
  /\ MayCall(c)
  /\ RequestStopAll
  /\ UNCHANGED <<joinVars, threadVars, workVars, callVars>>

\* joinAll() begins with requestStopAll().
CallJoinAll(c) ==
  /\ MayCall(c)
  /\ RequestStopAll
  /\ Begin(c, "snapshot", "joinAll", NoOne)
  /\ UNCHANGED <<joinVars, threadVars, workVars, todo, ret, handle, sawJoined>>

\* ~flagcxWorkerPool(), when every other call has returned.
CallDestroy(c) ==
  /\ MayCall(c)
  /\ \A d \in Caller : pc[d] = "idle"
  /\ RequestStopAll
  /\ Begin(c, "snapshot", "destroy", NoOne)
  /\ UNCHANGED <<joinVars, threadVars, workVars, todo, ret, handle, sawJoined>>

\* Mutant: only the workers whose start() has returned.
Snapshot_started == registered \cap handle

Snapshot == registered

JoinAllSnapshot(c) ==
  /\ pc[c] = "snapshot"
  /\ todo' = [todo EXCEPT ![c] = Snapshot]
  /\ Continue(c, "next")
  /\ UNCHANGED <<poolVars, flagVars, joinVars, threadVars, workVars, ret,
                 handle, sawJoined>>

JoinAllNext(c) ==
  /\ pc[c] = "next"
  /\ \E w \in todo[c] :
       /\ todo' = [todo EXCEPT ![c] = @ \ {w}]
       /\ Begin(c, "join", op[c], w)
  /\ UNCHANGED <<poolVars, flagVars, joinVars, threadVars, workVars, ret,
                 handle, sawJoined>>

\* joinAll() returns firstError; the destructor then drops workers_.
JoinAllReturn(c) ==
  /\ pc[c] = "next"
  /\ todo[c] = {}
  /\ Return(c)
  /\ IF op[c] = "destroy"
       THEN /\ destroyed' = TRUE
            /\ registered' = {}
            /\ handle' = {}
       ELSE UNCHANGED <<destroyed, registered, handle>>
  /\ UNCHANGED <<stopping, flagVars, joinVars, threadVars, workVars, todo>>

-----------------------------------------------------------------------------
(* run(), on the worker's own thread. *)

\* initOnThread() and the publication of its result under initMutex_.
RunInit(w) ==
  /\ thread[w] = "init"
  /\ \E r \in {"Success", "Error"} :
       /\ initResult' = [initResult EXCEPT ![w] = r]
       /\ exitResult' = [exitResult EXCEPT ![w] = r]
       /\ thread' = [thread EXCEPT ![w] =
                       IF r = "Success" THEN "load" ELSE "finish"]
  /\ initDone' = [initDone EXCEPT ![w] = TRUE]
  /\ UNCHANGED <<poolVars, stop, result, retiring, joinVars, sawStop, workVars,
                 callVars>>

\* stop_ is read before the pass that is told of it.
RunLoadStop(w) ==
  /\ thread[w] = "load"
  /\ sawStop' = [sawStop EXCEPT ![w] = stop[w]]
  /\ thread' = [thread EXCEPT ![w] = "pass"]
  /\ UNCHANGED <<poolVars, flagVars, joinVars, exitResult, workVars, callVars>>

\* Mutant: the loop ends as soon as a pass has been told to stop.
PassEnds_onStop(w, outstanding) == sawStop[w]

\* The loop ends after a pass that was told to stop and left nothing behind.
PassEnds(w, outstanding) == sawStop[w] /\ ~outstanding

\* The operations of w after a pass that retired n.
Retired(w, n) == work[w] - n

\* progressOnce() retires n operations, none or one, and reports whether any
\* is outstanding.
RunPass(w, n) ==
  /\ thread[w] = "pass"
  /\ n <= work[w]
  /\ work' = [work EXCEPT ![w] = Retired(w, n)]
  /\ LET outstanding == Retired(w, n) > 0 IN
       IF PassEnds(w, outstanding)
         THEN /\ thread' = [thread EXCEPT ![w] = "finish"]
              /\ exitResult' = [exitResult EXCEPT ![w] = "Success"]
         ELSE /\ thread' = [thread EXCEPT ![w] = "load"]
              /\ UNCHANGED exitResult
  /\ UNCHANGED <<poolVars, flagVars, joinVars, sawStop, given, callVars>>

\* progressOnce() fails or throws.
RunPassFails(w) ==
  /\ thread[w] = "pass"
  /\ thread' = [thread EXCEPT ![w] = "finish"]
  /\ exitResult' = [exitResult EXCEPT ![w] = "Error"]
  /\ UNCHANGED <<poolVars, flagVars, joinVars, sawStop, workVars, callVars>>

\* finishOnThread(); an exception makes a good result an error.
RunFinish(w) ==
  /\ thread[w] = "finish"
  /\ thread' = [thread EXCEPT ![w] = "store"]
  /\ \E r \in {exitResult[w], "Error"} :
       exitResult' = [exitResult EXCEPT ![w] = r]
  /\ UNCHANGED <<poolVars, flagVars, joinVars, sawStop, workVars, callVars>>

\* result_ is published and the thread terminates.
RunStore(w) ==
  /\ thread[w] = "store"
  /\ thread' = [thread EXCEPT ![w] = "exited"]
  /\ result' = [result EXCEPT ![w] = exitResult[w]]
  /\ UNCHANGED <<poolVars, stop, initDone, initResult, retiring, joinVars,
                 sawStop, exitResult, workVars, callVars>>

\* The business accepts an operation, also between run()'s reading of stop_ and
\* the pass that is told of it: only the pass that reports nothing outstanding
\* on a stop, or that fails, ends it.
Submit(w) ==
  /\ w \in handle
  /\ given[w] < MaxWork
  /\ thread[w] \in {"load", "pass"}
  /\ work' = [work EXCEPT ![w] = @ + 1]
  /\ given' = [given EXCEPT ![w] = @ + 1]
  /\ UNCHANGED <<poolVars, flagVars, joinVars, threadVars, callVars>>

-----------------------------------------------------------------------------
RunStep(w) ==
  \/ RunInit(w) \/ RunLoadStop(w) \/ RunPass(w, 0) \/ RunPass(w, 1)
  \/ RunPassFails(w)
  \/ RunFinish(w) \/ RunStore(w)

\* The steps inside a call that has begun.
CallStep(c) ==
  \/ StartAwait(c) \/ StartDecide(c) \/ RequestStop(c)
  \/ JoinAcquire(c) \/ JoinThread(c) \/ JoinFails(c)
  \/ CheckJoined(c) \/ Erase(c)
  \/ JoinAllSnapshot(c) \/ JoinAllNext(c) \/ JoinAllReturn(c)

Call(c) ==
  \/ \E w \in Worker :
       \/ StartRegister(c, w) \/ CallRequestStop(c, w)
       \/ CallJoin(c, w) \/ CallStopAndJoin(c, w) \/ CallRetire(c, w)
  \/ CallRequestStopAll(c) \/ CallJoinAll(c) \/ CallDestroy(c)

\* Nothing happens any more once the pool is gone and its threads are over.
Terminated ==
  /\ destroyed
  /\ \A w \in Worker : ~Alive(w)
  /\ UNCHANGED vars

Next ==
  \/ \E c \in Caller : Call(c) \/ CallStep(c)
  \/ \E w \in Worker : RunStep(w) \/ Submit(w)
  \/ Terminated

Spec == Init /\ [][Next]_vars

\* The steps of a call, and of a thread, that do not depend on a failure.
CallProgress(c) ==
  \/ StartAwait(c) \/ StartDecide(c) \/ RequestStop(c)
  \/ JoinAcquire(c) \/ JoinThread(c) \/ CheckJoined(c) \/ Erase(c)
  \/ JoinAllSnapshot(c) \/ JoinAllNext(c) \/ JoinAllReturn(c)

RunProgress(w) ==
  \/ RunInit(w) \/ RunLoadStop(w) \/ RunPass(w, 0) \/ RunPass(w, 1)
  \/ RunFinish(w) \/ RunStore(w)

\* The scheduler runs every thread, a mutex that is released again and again
\* is acquired in the end, and a worker that keeps making passes retires its
\* operations, as progressOnce() must.  Nobody is obliged to call a method,
\* and nothing is obliged to fail.
Fairness ==
  /\ \A c \in Caller : WF_vars(CallProgress(c))
  /\ \A c \in Caller : SF_vars(JoinAcquire(c)) /\ SF_vars(CheckJoined(c))
  /\ \A w \in Worker : WF_vars(RunProgress(w)) /\ SF_vars(RunPass(w, 1))

LiveSpec == Spec /\ Fairness

-----------------------------------------------------------------------------
(* Properties *)

\* "state must outlive the worker thread" (worker_pool.h): a Worker object is
\* released only by leaving workers_, so a thread that still runs callbacks
\* is registered, unless the destructor's own pthread_join failed.
ThreadIsRegistered ==
  \A w \in Worker :
    Alive(w) => w \in registered \/ (destroyed /\ joinFailures > 0)

\* requestStopAll() leaves no worker behind: from the moment the pool is
\* stopping every registered worker has its stop flag set, however start()
\* and requestStopAll() interleave.
StoppingReachesEveryWorker ==
  stopping => \A w \in registered : stop[w]

\* join() hands out terminal results only: whoever reads result_ after
\* threadJoined_ sees the value finishOnThread()'s outcome has left there.
JoinedHasResult ==
  \A w \in Worker : joined[w] => thread[w] = "exited" /\ result[w] # "InProgress"

\* "keep reporting outstanding=true until accepted work is retired": a worker
\* that reports success has retired every operation it accepted.
SuccessRetiresWork ==
  \A w \in Worker : result[w] = "Success" => work[w] = 0

\* At most one retire() of a registration is under way, and none returns
\* to erase what another one erased.
OneRetirer ==
  \A c, d \in Caller :
    op[c] = "retire" /\ op[d] = "retire" /\ target[c] = target[d] => c = d

\* joinAll() that returns success has waited for every thread of the pool,
\* those whose start() was under way included.
JoinAllQuiesces ==
  [][\A c \in Caller :
       JoinAllReturn(c) /\ ret[c] = "Success" => \A w \in Worker : ~Alive(w)]_vars

\* Every call returns, but for a join() of a worker nobody stops: start() is
\* woken after initOnThread(), and no order of stop, join and retire makes two
\* callers wait for each other.
CallsReturn ==
  \A c \in Caller :
    pc[c] # "idle" ~> pc[c] = "idle" \/ (op[c] = "join" /\ ~stop[target[c]])

=============================================================================
