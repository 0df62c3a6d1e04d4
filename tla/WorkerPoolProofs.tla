-------------------------- MODULE WorkerPoolProofs --------------------------
(***************************************************************************)
(* The safety of WorkerPool for any workers, control threads, operations   *)
(* and failures of pthread_join.                                           *)
(***************************************************************************)
EXTENDS WorkerPool, TLAPS

\* Which method a caller is in, at each step of it, and that the method has a
\* worker where it uses one.
CallShape ==
  \A c \in Caller :
    /\ pc[c] = "idle" <=> op[c] = "none"
    /\ pc[c] \in {"await", "decide"} => op[c] = "start"
    /\ pc[c] = "stop" => op[c] \in {"start", "retire", "join"}
    /\ pc[c] \in {"check", "erase"} => op[c] \in {"start", "retire"}
    /\ pc[c] \in {"snapshot", "next"} => op[c] \in {"joinAll", "destroy"}
    /\ pc[c] \notin {"idle", "snapshot", "next"} => target[c] \in Worker

WorkWasGiven == \A w \in Worker : work[w] <= given[w]

\* A thread whose result is published, or that was joined, is over.
ThreadsEnd ==
  \A w \in Worker :
    /\ exitResult[w] # "InProgress"
    /\ result[w] # "InProgress" <=> thread[w] = "exited"
    /\ joined[w] => thread[w] = "exited"

\* A worker that ends well was told to stop and has nothing left, so nothing
\* is handed to it any more.
EndsClean ==
  \A w \in Worker :
    /\ thread[w] \in {"finish", "store", "exited"} /\ exitResult[w] = "Success"
         => sawStop[w] /\ work[w] = 0
    /\ result[w] = "Success" => exitResult[w] = "Success"

\* Whoever erases a registration has seen its thread joined.
ErasesJoined ==
  \A c \in Caller : pc[c] = "erase" =>
    /\ sawJoined[c] => joined[target[c]]
    /\ op[c] = "start" => sawJoined[c]

RetiresMarked ==
  \A c \in Caller : op[c] = "retire" => retiring[target[c]]

\* A joinAll() keeps the pool stopping, and the destructor is alone with it.
StoppingCalls ==
  \A c \in Caller :
    /\ op[c] \in {"joinAll", "destroy"} => stopping
    /\ op[c] = "destroy" => \A d \in Caller : d # c => pc[d] = "idle"
    /\ destroyed => pc[c] = "idle"

\* The workers joinAll() has still to join after its snapshot.
ToJoin(c) == todo[c] \cup (IF pc[c] = "next" THEN {} ELSE {target[c]})

Joining(c) ==
  op[c] \in {"joinAll", "destroy"} /\ pc[c] \in {"next", "join", "joining"}

\* Every thread that still runs is one that joinAll() has still to join, or
\* its firstError is set, which only a failure does.
JoinsRemaining ==
  \A c \in Caller : Joining(c) =>
    /\ ret[c] = "Success" => \A w \in Worker : Alive(w) => w \in ToJoin(c)
    /\ \A w \in Worker : Alive(w) => w \in ToJoin(c) \/ joinFailures > 0

IInv ==
  /\ TypeOK /\ CallShape /\ WorkWasGiven /\ ThreadsEnd /\ EndsClean
  /\ ErasesJoined /\ RetiresMarked /\ StoppingCalls /\ JoinsRemaining
  /\ ThreadIsRegistered /\ StoppingReachesEveryWorker /\ OneRetirer

-----------------------------------------------------------------------------
(* Type correctness *)

\* What leaves a group of variables alone keeps their types.
LEMMA TypeFrame ==
  ASSUME TypeOK
  PROVE  /\ UNCHANGED poolVars => PoolType'
         /\ UNCHANGED flagVars => FlagType'
         /\ UNCHANGED joinVars => JoinType'
         /\ UNCHANGED threadVars => ThreadType'
         /\ UNCHANGED workVars => WorkType'
         /\ UNCHANGED callVars => CallType'
<1>1. UNCHANGED poolVars => PoolType' BY DEF TypeOK, PoolType, poolVars
<1>2. UNCHANGED flagVars => FlagType' BY DEF TypeOK, FlagType, flagVars
<1>3. UNCHANGED joinVars => JoinType' BY DEF TypeOK, JoinType, joinVars
<1>4. UNCHANGED threadVars => ThreadType' BY DEF TypeOK, ThreadType, threadVars
<1>5. UNCHANGED workVars => WorkType' BY DEF TypeOK, WorkType, workVars
<1>6. UNCHANGED callVars => CallType' BY DEF TypeOK, CallType, callVars
<1> QED BY <1>1, <1>2, <1>3, <1>4, <1>5, <1>6

\* Moving a caller to a step of a method keeps the types of its variables.
LEMMA BeginType ==
  ASSUME CallType, NEW c \in Caller, NEW m, NEW p, NEW w \in Worker \cup {NoOne},
         m \in {"none", "start", "retire", "join", "joinAll", "destroy"},
         p \in {"idle", "await", "decide", "stop", "join", "joining",
                "check", "erase", "snapshot", "next"},
         Begin(c, p, m, w)
  PROVE  /\ pc' \in [Caller -> {"idle", "await", "decide", "stop", "join",
                        "joining", "check", "erase", "snapshot", "next"}]
         /\ op' \in [Caller -> {"none", "start", "retire", "join", "joinAll",
                        "destroy"}]
         /\ target' \in [Caller -> Worker \cup {NoOne}]
  BY DEF CallType, Begin

LEMMA ReturnType ==
  ASSUME CallType, NEW c \in Caller, Return(c), todo' = todo,
         handle' \in SUBSET Worker
  PROVE  CallType'
<1>1. Begin(c, "idle", "none", NoOne) BY DEF Return
<1> QED BY <1>1, BeginType DEF CallType, Return, Result

LEMMA AfterJoinType ==
  ASSUME CallType, NEW c \in Caller, NEW r \in Result, AfterJoin(c, r),
         todo' = todo, handle' = handle
  PROVE  CallType'
<1>1. CASE op[c] = "join" /\ Return(c)
  BY <1>1, ReturnType DEF CallType
<1>2. CASE ~(op[c] = "join" /\ Return(c))
  BY <1>2 DEF AfterJoin, Continue, CallType
<1> QED BY <1>1, <1>2

LEMMA TypeStep ==
  ASSUME TypeOK, CallShape, WorkWasGiven, [Next]_vars
  PROVE  TypeOK'
<1> USE TypeFrame DEF TypeOK
<1>1. ASSUME NEW c \in Caller, NEW w \in Worker, StartRegister(c, w) PROVE TypeOK'
  <2>1. CallType' BY <1>1, BeginType DEF StartRegister, CallType
  <2>2. (PoolType /\ ThreadType)' BY <1>1 DEF StartRegister, PoolType, ThreadType
  <2> QED BY <1>1, <2>1, <2>2 DEF StartRegister
<1>2. ASSUME NEW c \in Caller, NEW w \in Worker, CallRequestStop(c, w) PROVE TypeOK'
  <2>1. FlagType' BY <1>2 DEF CallRequestStop, Stopped, FlagType
  <2> QED BY <1>2, <2>1 DEF CallRequestStop
<1>3. ASSUME NEW c \in Caller, NEW w \in Worker,
             CallJoin(c, w) \/ CallStopAndJoin(c, w)
      PROVE  TypeOK'
  <2>1. CallType' BY <1>3, BeginType DEF CallJoin, CallStopAndJoin, CallType
  <2> QED BY <1>3, <2>1 DEF CallJoin, CallStopAndJoin
<1>4. ASSUME NEW c \in Caller, NEW w \in Worker, CallRetire(c, w) PROVE TypeOK'
  <2>1. CallType' BY <1>4, BeginType DEF CallRetire, CallType
  <2>2. FlagType' BY <1>4 DEF CallRetire, FlagType
  <2> QED BY <1>4, <2>1, <2>2 DEF CallRetire
<1>5. ASSUME RequestStopAll PROVE (PoolType /\ FlagType)'
  BY <1>5 DEF RequestStopAll, PoolType, FlagType
<1>6. ASSUME NEW c \in Caller, CallRequestStopAll(c) PROVE TypeOK'
  BY <1>5, <1>6 DEF CallRequestStopAll
<1>7. ASSUME NEW c \in Caller, CallJoinAll(c) \/ CallDestroy(c) PROVE TypeOK'
  <2>1. CallType' BY <1>7, BeginType DEF CallJoinAll, CallDestroy, CallType
  <2> QED BY <1>5, <1>7, <2>1 DEF CallJoinAll, CallDestroy
<1>8. ASSUME NEW c \in Caller, StartAwait(c) PROVE TypeOK'
  <2>1. CallType'
    BY <1>8 DEF StartAwait, Continue, CallShape, CallType, FlagType
  <2> QED BY <1>8, <2>1 DEF StartAwait
<1>9. ASSUME NEW c \in Caller, StartDecide(c) PROVE TypeOK'
  <2>1. CASE ret[c] = "Success" /\ ~stopping
    BY <1>9, <2>1, ReturnType DEF StartDecide, CallShape, CallType
  <2>2. CASE ~(ret[c] = "Success" /\ ~stopping)
    BY <1>9, <2>2 DEF StartDecide, Continue, CallType, Result
  <2> QED BY <1>9, <2>1, <2>2 DEF StartDecide
<1>10. ASSUME NEW c \in Caller, RequestStop(c) PROVE TypeOK'
  <2>1. FlagType' BY <1>10 DEF RequestStop, Stopped, FlagType
  <2>2. CallType' BY <1>10 DEF RequestStop, Continue, CallType
  <2> QED BY <1>10, <2>1, <2>2 DEF RequestStop
<1>11. ASSUME NEW c \in Caller, JoinAcquire(c) PROVE TypeOK'
  <2>1. result[target[c]] \in Result
    BY <1>11 DEF JoinAcquire, CallShape, FlagType
  <2>2. CallType'
    BY <1>11, <2>1, AfterJoinType DEF JoinAcquire, Continue, CallType
  <2>3. JoinType' BY <1>11 DEF JoinAcquire, JoinType
  <2> QED BY <1>11, <2>2, <2>3 DEF JoinAcquire
<1>12. ASSUME NEW c \in Caller, JoinThread(c) PROVE TypeOK'
  <2>1. result[target[c]] \in Result
    BY <1>12 DEF JoinThread, CallShape, FlagType
  <2>2. CallType' BY <1>12, <2>1, AfterJoinType DEF JoinThread
  <2>3. JoinType' BY <1>12 DEF JoinThread, JoinType
  <2> QED BY <1>12, <2>2, <2>3 DEF JoinThread
<1>13. ASSUME NEW c \in Caller, JoinFails(c) PROVE TypeOK'
  <2>1. CallType' BY <1>13, AfterJoinType DEF JoinFails, Result
  <2>2. joinFailures' \in 0..MaxJoinFailures
    BY <1>13, WorkerPoolAssumption DEF JoinFails, JoinType
  <2>3. (joinMutex \in [Worker -> Caller \cup {NoOne}])'
    BY <1>13 DEF JoinFails, JoinType
  <2>4. JoinType' BY <1>13, <2>2, <2>3 DEF JoinFails, JoinType
  <2> QED BY <1>13, <2>1, <2>4 DEF JoinFails
<1>14. ASSUME NEW c \in Caller, CheckJoined(c) PROVE TypeOK'
  <2>1. CASE op[c] = "start" /\ ~joined[target[c]]
    BY <1>14, <2>1, ReturnType DEF CheckJoined, CallShape, CallType
  <2>2. CASE ~(op[c] = "start" /\ ~joined[target[c]])
    BY <1>14, <2>2 DEF CheckJoined, Continue, CallShape, CallType, JoinType
  <2> QED BY <1>14, <2>1, <2>2 DEF CheckJoined
<1>15. ASSUME NEW c \in Caller, Erase(c) PROVE TypeOK'
  <2>1. CallType' BY <1>15, ReturnType DEF Erase, CallType
  <2>2. (PoolType /\ FlagType)' BY <1>15 DEF Erase, PoolType, FlagType
  <2> QED BY <1>15, <2>1, <2>2 DEF Erase
<1>16. ASSUME NEW c \in Caller, JoinAllSnapshot(c) PROVE TypeOK'
  <2>1. CallType'
    BY <1>16 DEF JoinAllSnapshot, Snapshot, Continue, CallType, PoolType
  <2> QED BY <1>16, <2>1 DEF JoinAllSnapshot
<1>17. ASSUME NEW c \in Caller, JoinAllNext(c) PROVE TypeOK'
  <2>1. CallType' BY <1>17 DEF JoinAllNext, Begin, CallType
  <2> QED BY <1>17, <2>1 DEF JoinAllNext
<1>18. ASSUME NEW c \in Caller, JoinAllReturn(c) PROVE TypeOK'
  <2>1. CallType' BY <1>18, ReturnType DEF JoinAllReturn, CallType
  <2>2. PoolType' BY <1>18 DEF JoinAllReturn, PoolType
  <2> QED BY <1>18, <2>1, <2>2 DEF JoinAllReturn
<1>19. ASSUME NEW w \in Worker, RunInit(w) PROVE TypeOK'
  <2>1. (FlagType /\ ThreadType)' BY <1>19 DEF RunInit, FlagType, ThreadType, Result
  <2> QED BY <1>19, <2>1 DEF RunInit
<1>20. ASSUME NEW w \in Worker, RunLoadStop(w) PROVE TypeOK'
  <2>1. ThreadType' BY <1>20 DEF RunLoadStop, FlagType, ThreadType
  <2> QED BY <1>20, <2>1 DEF RunLoadStop
<1>21. ASSUME NEW w \in Worker, NEW n \in {0, 1}, RunPass(w, n) PROVE TypeOK'
  <2>1. ThreadType' BY <1>21 DEF RunPass, ThreadType, Result
  <2>2. WorkType' BY <1>21, WorkerPoolAssumption DEF RunPass, Retired, WorkType
  <2> QED BY <1>21, <2>1, <2>2 DEF RunPass
<1>22. ASSUME NEW w \in Worker, RunPassFails(w) \/ RunFinish(w) PROVE TypeOK'
  <2>1. ThreadType' BY <1>22 DEF RunPassFails, RunFinish, ThreadType, Result
  <2> QED BY <1>22, <2>1 DEF RunPassFails, RunFinish
<1>23. ASSUME NEW w \in Worker, RunStore(w) PROVE TypeOK'
  <2>1. (FlagType /\ ThreadType)' BY <1>23 DEF RunStore, FlagType, ThreadType
  <2> QED BY <1>23, <2>1 DEF RunStore
<1>24. ASSUME NEW w \in Worker, Submit(w) PROVE TypeOK'
  <2>1. WorkType' BY <1>24, WorkerPoolAssumption DEF Submit, WorkType, WorkWasGiven
  <2> QED BY <1>24, <2>1 DEF Submit
<1>25. CASE UNCHANGED vars
  BY <1>25 DEF vars
<1> QED
  BY <1>1, <1>2, <1>3, <1>4, <1>6, <1>7, <1>8, <1>9, <1>10, <1>11, <1>12, <1>13,
     <1>14, <1>15, <1>16, <1>17, <1>18, <1>19, <1>20, <1>21, <1>22, <1>23, <1>24,
     <1>25
  DEF Next, Call, CallStep, RunStep, Terminated

-----------------------------------------------------------------------------
(* The steps of a method *)

LEMMA ShapeStep ==
  ASSUME TypeOK, CallShape, [Next]_vars
  PROVE  CallShape'
<1> USE DEF TypeOK, CallType, CallShape
<1>1. ASSUME NEW c \in Caller, NEW w \in Worker,
             StartRegister(c, w) \/ CallJoin(c, w) \/ CallStopAndJoin(c, w)
             \/ CallRetire(c, w)
      PROVE  CallShape'
  BY <1>1 DEF StartRegister, CallJoin, CallStopAndJoin, CallRetire, Begin
<1>2. ASSUME NEW c \in Caller, CallJoinAll(c) \/ CallDestroy(c) PROVE CallShape'
  BY <1>2 DEF CallJoinAll, CallDestroy, Begin
<1>3. ASSUME NEW c \in Caller, StartAwait(c) \/ RequestStop(c) \/ JoinAllSnapshot(c)
      PROVE  CallShape'
  BY <1>3 DEF StartAwait, RequestStop, JoinAllSnapshot, Continue
<1>4. ASSUME NEW c \in Caller, StartDecide(c) \/ CheckJoined(c) PROVE CallShape'
  BY <1>4 DEF StartDecide, CheckJoined, Return, Begin, Continue
<1>5. ASSUME NEW c \in Caller, NEW r, pc[c] \in {"join", "joining"}, AfterJoin(c, r)
      PROVE  CallShape'
  BY <1>5 DEF AfterJoin, Return, Begin, Continue
<1>6. ASSUME NEW c \in Caller, JoinAcquire(c) \/ JoinThread(c) \/ JoinFails(c)
      PROVE  CallShape'
  BY <1>5, <1>6 DEF JoinAcquire, JoinThread, JoinFails, Continue
<1>7. ASSUME NEW c \in Caller, JoinAllNext(c) PROVE CallShape'
  BY <1>7 DEF JoinAllNext, Begin
<1>8. ASSUME NEW c \in Caller, Erase(c) \/ JoinAllReturn(c) PROVE CallShape'
  BY <1>8 DEF Erase, JoinAllReturn, Return, Begin
<1>9. CASE UNCHANGED callVars
  BY <1>9 DEF callVars
<1> QED
  BY <1>1, <1>2, <1>3, <1>4, <1>6, <1>7, <1>8, <1>9
  DEF Next, Call, CallStep, RunStep, Terminated, CallRequestStop,
      CallRequestStopAll, RunInit, RunLoadStop, RunPass, RunPassFails, RunFinish,
      RunStore, Submit, vars

-----------------------------------------------------------------------------
(* The worker's thread *)

LEMMA WorkerStep ==
  ASSUME IInv, [Next]_vars
  PROVE  (WorkWasGiven /\ ThreadsEnd /\ EndsClean)'
<1> DEFINE Ends == WorkWasGiven /\ ThreadsEnd /\ EndsClean
<1> USE DEF IInv, TypeOK, WorkWasGiven, ThreadsEnd, EndsClean
<1>1. ASSUME UNCHANGED <<threadVars, workVars, result, joined>> PROVE Ends'
  BY <1>1 DEF threadVars, workVars
<1>2. ASSUME NEW c \in Caller, NEW w \in Worker, StartRegister(c, w) PROVE Ends'
  BY <1>2 DEF StartRegister, ThreadType, flagVars, joinVars, workVars
<1>3. ASSUME NEW c \in Caller, JoinThread(c) PROVE Ends'
  BY <1>3 DEF JoinThread, ThreadOver, CallShape, JoinType, flagVars, threadVars,
              workVars
<1>4. ASSUME NEW w \in Worker, RunInit(w) \/ RunLoadStop(w) PROVE Ends'
  BY <1>4 DEF RunInit, RunLoadStop, ThreadType, flagVars, joinVars, workVars
<1>5. ASSUME NEW w \in Worker, NEW n \in {0, 1}, RunPass(w, n) PROVE Ends'
  BY <1>5 DEF RunPass, PassEnds, Retired, ThreadType, WorkType, flagVars, joinVars
<1>6. ASSUME NEW w \in Worker, RunPassFails(w) \/ RunFinish(w) PROVE Ends'
  BY <1>6 DEF RunPassFails, RunFinish, ThreadType, flagVars, joinVars, workVars
<1>7. ASSUME NEW w \in Worker, RunStore(w) PROVE Ends'
  BY <1>7 DEF RunStore, ThreadType, FlagType, joinVars, workVars
<1>8. ASSUME NEW w \in Worker, Submit(w) PROVE Ends'
  BY <1>8 DEF Submit, WorkType, ThreadType, flagVars, joinVars, threadVars
<1>9. ASSUME NEW c \in Caller,
             \/ \E w \in Worker : CallRequestStop(c, w) \/ CallJoin(c, w)
                                 \/ CallStopAndJoin(c, w) \/ CallRetire(c, w)
             \/ CallRequestStopAll(c) \/ CallJoinAll(c) \/ CallDestroy(c)
      PROVE  UNCHANGED <<threadVars, workVars, result, joined>>
  BY <1>9 DEF CallRequestStop, CallJoin, CallStopAndJoin, CallRetire,
              CallRequestStopAll, CallJoinAll, CallDestroy, RequestStopAll,
              flagVars, joinVars
<1>10. ASSUME NEW c \in Caller,
              \/ StartAwait(c) \/ StartDecide(c) \/ RequestStop(c)
              \/ JoinAcquire(c) \/ JoinFails(c) \/ CheckJoined(c) \/ Erase(c)
              \/ JoinAllSnapshot(c) \/ JoinAllNext(c) \/ JoinAllReturn(c)
       PROVE  UNCHANGED <<threadVars, workVars, result, joined>>
  BY <1>10 DEF StartAwait, StartDecide, RequestStop, JoinAcquire, JoinFails,
               CheckJoined, Erase, JoinAllSnapshot, JoinAllNext, JoinAllReturn,
               flagVars, joinVars
<1>11. CASE UNCHANGED vars
  BY <1>1, <1>11 DEF vars, flagVars, joinVars
<1> QED
  BY <1>1, <1>2, <1>3, <1>4, <1>5, <1>6, <1>7, <1>8, <1>9, <1>10, <1>11
  DEF Next, Call, CallStep, RunStep, Terminated

-----------------------------------------------------------------------------
(* Retirement *)

LEMMA RetireStep ==
  ASSUME IInv, [Next]_vars
  PROVE  (ErasesJoined /\ RetiresMarked /\ OneRetirer)'
<1> DEFINE Retires == ErasesJoined /\ RetiresMarked /\ OneRetirer
<1> USE DEF IInv, TypeOK, CallType, CallShape, ErasesJoined, RetiresMarked, OneRetirer
<1>1. ASSUME UNCHANGED <<callVars, joined, retiring>> PROVE Retires'
  BY <1>1 DEF callVars
<1>2. ASSUME NEW c \in Caller, NEW w \in Worker,
             StartRegister(c, w) \/ CallJoin(c, w) \/ CallStopAndJoin(c, w)
      PROVE  Retires'
  BY <1>2 DEF StartRegister, CallJoin, CallStopAndJoin, Begin, flagVars, joinVars
<1>3. ASSUME NEW c \in Caller, NEW w \in Worker, CallRetire(c, w) PROVE Retires'
  BY <1>3 DEF CallRetire, MayRetire, Begin, FlagType, joinVars
<1>4. ASSUME NEW c \in Caller, CallJoinAll(c) \/ CallDestroy(c) PROVE Retires'
  BY <1>4 DEF CallJoinAll, CallDestroy, RequestStopAll, Begin, joinVars
<1>5. ASSUME NEW c \in Caller, StartAwait(c) \/ RequestStop(c) \/ JoinAllSnapshot(c)
      PROVE  Retires'
  BY <1>5 DEF StartAwait, RequestStop, JoinAllSnapshot, Continue, flagVars, joinVars
<1>6. ASSUME NEW c \in Caller, StartDecide(c) PROVE Retires'
  BY <1>6 DEF StartDecide, Return, Begin, Continue, flagVars, joinVars
<1>7. ASSUME NEW c \in Caller, NEW r, AfterJoin(c, r), UNCHANGED flagVars,
             \A w \in Worker : joined[w] => joined'[w]
      PROVE  Retires'
  BY <1>7 DEF AfterJoin, Return, Begin, Continue, flagVars
<1>8. ASSUME NEW c \in Caller, JoinAcquire(c) PROVE Retires'
  <2>1. CASE joined[target[c]]
    BY <1>7, <1>8, <2>1 DEF JoinAcquire
  <2>2. CASE ~joined[target[c]]
    BY <1>8, <2>2 DEF JoinAcquire, Continue, flagVars
  <2> QED BY <2>1, <2>2
<1>9. ASSUME NEW c \in Caller, JoinThread(c) \/ JoinFails(c) PROVE Retires'
  BY <1>7, <1>9 DEF JoinThread, JoinFails, JoinType
<1>10. ASSUME NEW c \in Caller, CheckJoined(c) PROVE Retires'
  BY <1>10 DEF CheckJoined, Return, Begin, Continue, JoinType, flagVars, joinVars
<1>11. ASSUME NEW c \in Caller, Erase(c) PROVE Retires'
  <2>1. MayErase(c) \/ op[c] = "retire"
    BY <1>11 DEF Erase, MayErase
  <2> QED BY <1>11, <2>1 DEF Erase, MayErase, Return, Begin, FlagType, joinVars
<1>12. ASSUME NEW c \in Caller, JoinAllNext(c) PROVE Retires'
  BY <1>12 DEF JoinAllNext, Begin, flagVars, joinVars
<1>13. ASSUME NEW c \in Caller, JoinAllReturn(c) PROVE Retires'
  BY <1>13 DEF JoinAllReturn, Return, Begin, flagVars, joinVars
<1>14. ASSUME NEW w \in Worker, RunStep(w) \/ Submit(w)
       PROVE  UNCHANGED <<callVars, joined, retiring>>
  BY <1>14 DEF RunStep, RunInit, RunLoadStop, RunPass, RunPassFails, RunFinish,
               RunStore, Submit, flagVars, joinVars
<1>15. ASSUME NEW c \in Caller,
              CallRequestStopAll(c) \/ \E w \in Worker : CallRequestStop(c, w)
       PROVE  UNCHANGED <<callVars, joined, retiring>>
  BY <1>15 DEF CallRequestStop, CallRequestStopAll, RequestStopAll, joinVars
<1>16. CASE UNCHANGED vars
  BY <1>1, <1>16 DEF vars, flagVars, joinVars
<1> QED
  BY <1>1, <1>2, <1>3, <1>4, <1>5, <1>6, <1>8, <1>9, <1>10, <1>11, <1>12, <1>13,
     <1>14, <1>15, <1>16
  DEF Next, Call, CallStep, Terminated

-----------------------------------------------------------------------------
(* Stopping and joining the pool *)

\* A caller inside a method, other than the destructor itself, keeps the
\* destructor out.
LEMMA StoppingStep ==
  ASSUME IInv, [Next]_vars
  PROVE  (StoppingCalls /\ StoppingReachesEveryWorker)'
<1> DEFINE Stops == StoppingCalls /\ StoppingReachesEveryWorker
<1> USE DEF IInv, TypeOK, CallType, CallShape, StoppingCalls,
            StoppingReachesEveryWorker
<1>1. ASSUME UNCHANGED <<poolVars, stop, callVars>> PROVE Stops'
  BY <1>1 DEF poolVars, callVars
<1>2. ASSUME NEW c \in Caller, NEW w \in Worker, StartRegister(c, w) PROVE Stops'
  BY <1>2 DEF StartRegister, Accepting, MayCall, Begin, flagVars
<1>3. ASSUME NEW c \in Caller, NEW w \in Worker,
             CallJoin(c, w) \/ CallStopAndJoin(c, w) \/ CallRetire(c, w)
      PROVE  Stops'
  BY <1>3 DEF CallJoin, CallStopAndJoin, CallRetire, MayCall, Begin, poolVars, flagVars
<1>4. ASSUME NEW c \in Caller, NEW w \in Worker, CallRequestStop(c, w) PROVE Stops'
  BY <1>4 DEF CallRequestStop, Stopped, FlagType, PoolType, poolVars, callVars
<1>5. ASSUME NEW c \in Caller,
             CallRequestStopAll(c) \/ CallJoinAll(c) \/ CallDestroy(c)
      PROVE  Stops'
  <2>1. StoppingReachesEveryWorker' /\ stopping' /\ destroyed' = destroyed
    BY <1>5 DEF CallRequestStopAll, CallJoinAll, CallDestroy, RequestStopAll, PoolType
  <2>2. StoppingCalls'
    BY <1>5, <2>1 DEF CallRequestStopAll, CallJoinAll, CallDestroy, MayCall, Begin,
                      callVars
  <2> QED BY <2>1, <2>2
<1>6. ASSUME NEW c \in Caller,
             StartAwait(c) \/ JoinAllSnapshot(c) \/ JoinAllNext(c)
      PROVE  Stops'
  BY <1>6 DEF StartAwait, JoinAllSnapshot, JoinAllNext, Begin, Continue, poolVars,
              flagVars
<1>7. ASSUME NEW c \in Caller, StartDecide(c) \/ CheckJoined(c) PROVE Stops'
  BY <1>7 DEF StartDecide, CheckJoined, Return, Begin, Continue, poolVars, flagVars
<1>8. ASSUME NEW c \in Caller, RequestStop(c) PROVE Stops'
  BY <1>8 DEF RequestStop, Stopped, Continue, FlagType, PoolType, poolVars
<1>9. ASSUME NEW c \in Caller, NEW r, pc[c] # "idle", AfterJoin(c, r),
             UNCHANGED <<poolVars, flagVars>>
      PROVE  Stops'
  BY <1>9 DEF AfterJoin, Return, Begin, Continue, poolVars, flagVars
<1>10. ASSUME NEW c \in Caller, JoinAcquire(c) PROVE Stops'
  <2>1. CASE joined[target[c]]
    BY <1>9, <1>10, <2>1 DEF JoinAcquire
  <2>2. CASE ~joined[target[c]]
    BY <1>10, <2>2 DEF JoinAcquire, Continue, poolVars, flagVars
  <2> QED BY <2>1, <2>2
<1>11. ASSUME NEW c \in Caller, JoinThread(c) \/ JoinFails(c) PROVE Stops'
  BY <1>9, <1>11 DEF JoinThread, JoinFails
<1>12. ASSUME NEW c \in Caller, Erase(c) \/ JoinAllReturn(c) PROVE Stops'
  BY <1>12 DEF Erase, JoinAllReturn, Return, Begin, FlagType, PoolType, flagVars
<1>13. ASSUME NEW w \in Worker, RunStep(w) \/ Submit(w)
       PROVE  UNCHANGED <<poolVars, stop, callVars>>
  BY <1>13 DEF RunStep, RunInit, RunLoadStop, RunPass, RunPassFails, RunFinish,
               RunStore, Submit, flagVars
<1>14. CASE UNCHANGED vars
  BY <1>1, <1>14 DEF vars, flagVars
<1> QED
  BY <1>1, <1>2, <1>3, <1>4, <1>5, <1>6, <1>7, <1>8, <1>10, <1>11, <1>12, <1>13,
     <1>14
  DEF Next, Call, CallStep, Terminated

\* A step other than start()'s registration makes no thread run.
LEMMA NoNewThread ==
  ASSUME IInv, [Next]_vars,
         ~\E c \in Caller, w \in Worker : StartRegister(c, w)
  PROVE  \A w \in Worker : Alive(w)' => Alive(w)
<1> USE DEF IInv, TypeOK, ThreadType, Alive
<1>1. ASSUME NEW v \in Worker, RunStep(v) PROVE \A w \in Worker : Alive(w)' => Alive(w)
  BY <1>1 DEF RunStep, RunInit, RunLoadStop, RunPass, RunPassFails, RunFinish, RunStore
<1>2. ASSUME NEW v \in Worker, Submit(v) PROVE UNCHANGED thread
  BY <1>2 DEF Submit, threadVars
<1>3. ASSUME NEW c \in Caller, CallStep(c) PROVE UNCHANGED thread
  BY <1>3 DEF CallStep, StartAwait, StartDecide, RequestStop, JoinAcquire,
              JoinThread, JoinFails, CheckJoined, Erase, JoinAllSnapshot,
              JoinAllNext, JoinAllReturn, threadVars
<1>4. ASSUME NEW c \in Caller, Call(c) PROVE UNCHANGED thread
  BY <1>4 DEF Call, CallRequestStop, CallJoin, CallStopAndJoin, CallRetire,
              CallRequestStopAll, CallJoinAll, CallDestroy, threadVars
<1>5. CASE UNCHANGED vars
  BY <1>5 DEF vars, threadVars
<1> QED BY <1>1, <1>2, <1>3, <1>4, <1>5 DEF Next, Terminated

LEMMA JoinStep ==
  ASSUME IInv, [Next]_vars
  PROVE  JoinsRemaining'
<1> USE DEF IInv, TypeOK, CallType, JoinsRemaining, Joining, ToJoin
<1>1. ASSUME NEW c \in Caller, NEW w \in Worker, StartRegister(c, w)
      PROVE  JoinsRemaining'
  <2>1. \A d \in Caller : op'[d] \notin {"joinAll", "destroy"}
    BY <1>1 DEF StartRegister, Accepting, Begin, StoppingCalls
  <2> QED BY <2>1
<1>2. SUFFICES ASSUME ~\E c \in Caller, w \in Worker : StartRegister(c, w)
               PROVE  JoinsRemaining'
  BY <1>1
<1>3. \A w \in Worker : Alive(w)' => Alive(w)
  BY <1>2, NoNewThread
<1>4. ASSUME UNCHANGED <<callVars, joinFailures>> PROVE JoinsRemaining'
  BY <1>3, <1>4 DEF callVars
<1>5. ASSUME NEW c \in Caller, NEW w \in Worker,
             CallJoin(c, w) \/ CallStopAndJoin(c, w) \/ CallRetire(c, w)
      PROVE  JoinsRemaining'
  BY <1>3, <1>5 DEF CallJoin, CallStopAndJoin, CallRetire, Begin, joinVars
<1>6. ASSUME NEW c \in Caller, CallJoinAll(c) \/ CallDestroy(c) PROVE JoinsRemaining'
  BY <1>3, <1>6 DEF CallJoinAll, CallDestroy, Begin, joinVars
<1>7. ASSUME NEW c \in Caller, StartAwait(c) \/ RequestStop(c) PROVE JoinsRemaining'
  BY <1>3, <1>7 DEF StartAwait, RequestStop, Continue, CallShape, joinVars
<1>8. ASSUME NEW c \in Caller, StartDecide(c) \/ CheckJoined(c) \/ Erase(c)
      PROVE  JoinsRemaining'
  BY <1>3, <1>8 DEF StartDecide, CheckJoined, Erase, Return, Begin, Continue,
                    CallShape, joinVars
<1>9. ASSUME NEW c \in Caller, NEW r, AfterJoin(c, r), todo' = todo,
             pc[c] \in {"join", "joining"},
             \/ ~Alive(target[c]) /\ joinFailures' = joinFailures
             \/ r # "Success" /\ joinFailures' > 0
      PROVE  JoinsRemaining'
  BY <1>3, <1>9 DEF AfterJoin, Return, Begin, Continue
<1>10. ASSUME NEW c \in Caller, JoinAcquire(c) PROVE JoinsRemaining'
  <2>1. CASE joined[target[c]]
    <3>1. ~Alive(target[c])
      BY <1>10, <2>1 DEF JoinAcquire, CallShape, ThreadsEnd, Alive
    <3> QED BY <1>9, <1>10, <2>1, <3>1 DEF JoinAcquire
  <2>2. CASE ~joined[target[c]]
    BY <1>3, <1>10, <2>2 DEF JoinAcquire, Continue
  <2> QED BY <2>1, <2>2
<1>11. ASSUME NEW c \in Caller, JoinThread(c) PROVE JoinsRemaining'
  BY <1>9, <1>11 DEF JoinThread, ThreadOver, Alive
<1>12. ASSUME NEW c \in Caller, JoinFails(c) PROVE JoinsRemaining'
  <2>1. joinFailures' > 0 BY <1>12 DEF JoinFails, JoinType
  <2> QED BY <1>9, <1>12, <2>1 DEF JoinFails
<1>13. ASSUME NEW c \in Caller, JoinAllSnapshot(c) PROVE JoinsRemaining'
  <2>1. ~destroyed BY <1>13 DEF JoinAllSnapshot, StoppingCalls
  <2>2. \A w \in Worker : Alive(w) => w \in registered
    BY <2>1 DEF ThreadIsRegistered
  <2> QED BY <1>3, <1>13, <2>2 DEF JoinAllSnapshot, Snapshot, Continue, joinVars
<1>14. ASSUME NEW c \in Caller, JoinAllNext(c) PROVE JoinsRemaining'
  BY <1>3, <1>14 DEF JoinAllNext, Begin, CallShape, joinVars
<1>15. ASSUME NEW c \in Caller, JoinAllReturn(c) PROVE JoinsRemaining'
  BY <1>3, <1>15 DEF JoinAllReturn, Return, Begin, joinVars
<1>16. ASSUME NEW w \in Worker, RunStep(w) \/ Submit(w)
       PROVE  UNCHANGED <<callVars, joinFailures>>
  BY <1>16 DEF RunStep, RunInit, RunLoadStop, RunPass, RunPassFails, RunFinish,
               RunStore, Submit, joinVars
<1>17. ASSUME NEW c \in Caller,
              CallRequestStopAll(c) \/ \E w \in Worker : CallRequestStop(c, w)
       PROVE  UNCHANGED <<callVars, joinFailures>>
  BY <1>17 DEF CallRequestStop, CallRequestStopAll, joinVars
<1>18. CASE UNCHANGED vars
  BY <1>4, <1>18 DEF vars, joinVars
<1> QED
  BY <1>2, <1>4, <1>5, <1>6, <1>7, <1>8, <1>10, <1>11, <1>12, <1>13, <1>14, <1>15,
     <1>16, <1>17, <1>18
  DEF Next, Call, CallStep, Terminated

\* A registration leaves the pool after its thread, or with the destructor.
LEMMA RegistrationStep ==
  ASSUME IInv, [Next]_vars
  PROVE  ThreadIsRegistered'
<1> USE DEF IInv, TypeOK, ThreadIsRegistered
<1>1. ASSUME NEW c \in Caller, NEW w \in Worker, StartRegister(c, w)
      PROVE  ThreadIsRegistered'
  BY <1>1 DEF StartRegister, Alive, ThreadType, joinVars
<1>2. SUFFICES ASSUME ~\E c \in Caller, w \in Worker : StartRegister(c, w)
               PROVE  ThreadIsRegistered'
  BY <1>1
<1>3. \A w \in Worker : Alive(w)' => Alive(w)
  BY <1>2, NoNewThread
<1>4. ASSUME NEW c \in Caller, Erase(c) PROVE ThreadIsRegistered'
  <2>1. sawJoined[c] => ~Alive(target[c])
    BY <1>4 DEF Erase, CallShape, ErasesJoined, ThreadsEnd, Alive
  <2> QED BY <1>3, <1>4, <2>1 DEF Erase, MayErase, joinVars
<1>5. ASSUME NEW c \in Caller, JoinAllReturn(c) PROVE ThreadIsRegistered'
  <2>1. CASE op[c] = "destroy"
    BY <1>3, <1>5, <2>1 DEF JoinAllReturn, JoinsRemaining, Joining, ToJoin, joinVars
  <2>2. CASE op[c] # "destroy"
    BY <1>3, <1>5, <2>2 DEF JoinAllReturn, joinVars
  <2> QED BY <2>1, <2>2
<1>6. ASSUME UNCHANGED <<registered, destroyed>>,
             joinFailures' \in {joinFailures, joinFailures + 1}
      PROVE  ThreadIsRegistered'
  BY <1>3, <1>6 DEF JoinType
<1>7. ASSUME NEW c \in Caller,
             \/ StartAwait(c) \/ StartDecide(c) \/ RequestStop(c)
             \/ JoinAcquire(c) \/ JoinThread(c) \/ JoinFails(c) \/ CheckJoined(c)
             \/ JoinAllSnapshot(c) \/ JoinAllNext(c)
      PROVE  ThreadIsRegistered'
  BY <1>6, <1>7 DEF StartAwait, StartDecide, RequestStop, JoinAcquire, JoinThread,
                    JoinFails, CheckJoined, JoinAllSnapshot, JoinAllNext, poolVars,
                    joinVars
<1>8. ASSUME NEW c \in Caller, Call(c) PROVE ThreadIsRegistered'
  BY <1>2, <1>6, <1>8 DEF Call, CallRequestStop, CallJoin, CallStopAndJoin,
        CallRetire, CallRequestStopAll, CallJoinAll, CallDestroy, RequestStopAll,
        poolVars, joinVars
<1>9. ASSUME NEW w \in Worker, RunStep(w) \/ Submit(w) PROVE ThreadIsRegistered'
  BY <1>6, <1>9 DEF RunStep, RunInit, RunLoadStop, RunPass, RunPassFails, RunFinish,
                    RunStore, Submit, poolVars, joinVars
<1>10. CASE UNCHANGED vars
  BY <1>6, <1>10 DEF vars, poolVars, joinVars
<1> QED
  BY <1>4, <1>5, <1>7, <1>8, <1>9, <1>10 DEF Next, CallStep, Terminated

-----------------------------------------------------------------------------
(* The theorems *)

LEMMA InitIInv == Init => IInv
<1> SUFFICES ASSUME Init PROVE IInv
  OBVIOUS
<1>1. PoolType /\ FlagType /\ ThreadType
  BY DEF Init, PoolType, FlagType, ThreadType, Result
<1>2. JoinType /\ WorkType
  BY WorkerPoolAssumption DEF Init, JoinType, WorkType
<1>3. CallType
  BY DEF Init, CallType, Result
<1>4. CallShape /\ WorkWasGiven /\ ThreadsEnd /\ EndsClean
  BY DEF Init, CallShape, WorkWasGiven, ThreadsEnd, EndsClean
<1>5. ErasesJoined /\ RetiresMarked /\ StoppingCalls /\ JoinsRemaining
  BY DEF Init, ErasesJoined, RetiresMarked, StoppingCalls, JoinsRemaining, Joining
<1>6. ThreadIsRegistered /\ StoppingReachesEveryWorker /\ OneRetirer
  BY DEF Init, ThreadIsRegistered, StoppingReachesEveryWorker, OneRetirer, Alive
<1> QED BY <1>1, <1>2, <1>3, <1>4, <1>5, <1>6 DEF IInv, TypeOK

LEMMA IInvStep == IInv /\ [Next]_vars => IInv'
<1> SUFFICES ASSUME IInv, [Next]_vars PROVE IInv'
  OBVIOUS
<1>1. (TypeOK /\ CallShape)' BY TypeStep, ShapeStep DEF IInv
<1> QED
  BY <1>1, WorkerStep, RetireStep, StoppingStep, JoinStep, RegistrationStep DEF IInv

LEMMA Invariance == Spec => []IInv
<1>1. Init => IInv BY InitIInv
<1>2. IInv /\ [Next]_vars => IInv' BY IInvStep
<1> QED BY <1>1, <1>2, PTL DEF Spec

\* The pool's state has its type, for any number of workers, callers and
\* operations.
THEOREM TypeCorrect == Spec => []TypeOK
<1>1. IInv => TypeOK BY DEF IInv
<1> QED BY <1>1, Invariance, PTL

\* The Worker object of a running thread is never released by start() or
\* retire(), and by the destructor only when its pthread_join failed.
THEOREM RegistrationSafety == Spec => []ThreadIsRegistered
<1>1. IInv => ThreadIsRegistered BY DEF IInv
<1> QED BY <1>1, Invariance, PTL

\* No worker misses requestStopAll(), whenever its start() began.
THEOREM StopReaches == Spec => []StoppingReachesEveryWorker
<1>1. IInv => StoppingReachesEveryWorker BY DEF IInv
<1> QED BY <1>1, Invariance, PTL

\* A worker that was joined has published its terminal result.
THEOREM JoinSound == Spec => []JoinedHasResult
<1>1. IInv => JoinedHasResult BY DEF IInv, ThreadsEnd, JoinedHasResult
<1> QED BY <1>1, Invariance, PTL

\* A worker that reports success has retired all that was handed to it.
THEOREM DrainSound == Spec => []SuccessRetiresWork
<1>1. IInv => SuccessRetiresWork
  BY DEF IInv, ThreadsEnd, EndsClean, SuccessRetiresWork
<1> QED BY <1>1, Invariance, PTL

\* No two calls of retire() work on one registration at a time.
THEOREM RetireExclusive == Spec => []OneRetirer
<1>1. IInv => OneRetirer BY DEF IInv
<1> QED BY <1>1, Invariance, PTL

\* joinAll() returns success only when no thread of the pool runs any more,
\* however many calls of start() it overtook.
THEOREM JoinAllSound == Spec => JoinAllQuiesces
<1>1. ASSUME IInv, NEW c \in Caller, JoinAllReturn(c), ret[c] = "Success"
      PROVE  \A w \in Worker : ~Alive(w)
  BY <1>1 DEF IInv, JoinAllReturn, CallShape, JoinsRemaining, Joining, ToJoin
<1>2. IInv => \A c \in Caller :
                JoinAllReturn(c) /\ ret[c] = "Success" => \A w \in Worker : ~Alive(w)
  BY <1>1
<1>3. Spec => []IInv BY Invariance
<1> QED BY <1>2, <1>3, PTL DEF JoinAllQuiesces

=============================================================================
