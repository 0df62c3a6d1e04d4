---------------------------- MODULE ProxyProgress ----------------------------
(***************************************************************************)
(* Group launch and proxy progress (flagcx/core/group.cc, proxy.cc,        *)
(* launch_kernel.h).                                                       *)
(*                                                                         *)
(* On each rank groupLaunch turns the sends and receives of a group into   *)
(* proxy operations that share one semaphore (GroupSchedule), saves them   *)
(* on the producer queues and launches a host function on the stream.  The *)
(* host function opens the semaphore (signalStart) and blocks the stream   *)
(* until every operation has counted down (wait).  The progress thread     *)
(* moves the operations to one consumer queue per peer and direction, and  *)
(* progresses the head of each queue.  The first hard error of a transport *)
(* makes the progress thread retire every operation it has and will get.   *)
(*                                                                         *)
(* Steps: a pass over one queue, one critical section of the proxy mutex,  *)
(* and in the host function the scan of one signal.  The transport behind  *)
(* progressProxyOp is external: an operation that may start is over at     *)
(* some later pass, when the peer has started its side too, or fails.      *)
(* Peers that are not among the ranks of a program are always ready.  The  *)
(* semaphore is the host semaphore.                                        *)
(***************************************************************************)
EXTENDS GroupSchedule, FiniteSetsExt

CONSTANT Programs  \* what the ranks do: records
                   \*   nodeOf, scheduled: see GroupSchedule
                   \*   ranks: those whose threads are modelled
                   \*   groups: a sequence of sets of messages <<from, to>>
                   \*   eager: a send does not wait for its receive
                   \*   mayFail: the transport may report a hard error

ASSUME ProxyProgressAssumption ==
  \A p \in Programs :
    /\ NRanks(p) \in Nat /\ RankOf(p) = 0..(NRanks(p) - 1)
    /\ Nodes(p) = 0..(Cardinality(Nodes(p)) - 1)
    /\ p.ranks \subseteq RankOf(p) /\ p.ranks # {}
    /\ p.groups \in Seq(SUBSET (RankOf(p) \X RankOf(p)))
    /\ {p.scheduled, p.eager, p.mayFail} \subseteq BOOLEAN
    \* What a rank sees of the failure of another is an error of its own.
    /\ p.mayFail => Cardinality(p.ranks) = 1

VARIABLES
  prog,         \* the program
  ops,          \* the operations groupLaunch builds on a rank, group by group
  saved,        \* how many of them are saved
  saving,       \* the error came when SaveProxy had seen none and was to enqueue
  prod,         \* producer queues, as one sequence
  cons,         \* consumer queues
  done,         \* operations with args.done
  asyncResult,  \* the first hard error: "Success" or "Error"
  curStep,      \* signals[].first of each group's semaphore
  nDone,        \* the local nDone of wait()
  host          \* where the launch or the host function of a group is

opVars   == <<prod, cons, done, asyncResult>>
saveVars == <<prog, ops, saved, saving>>
vars == <<saveVars, opVars, curStep, nDone, host>>

Ranks == prog.ranks
Group == DOMAIN prog.groups
Queue == {"send", "recv"} \X RankOf(prog)

\* The operations of a group, and those of one opId in it, by their number.
OpsOf(r, g) == {o \in DOMAIN ops[r] : ops[r][o].group = g}
Signal(r, g, i) == {o \in OpsOf(r, g) : ops[r][o].opId = i}
OpIdsOf(r, g) == {ops[r][o].opId : o \in OpsOf(r, g)}

QueueOf(r, o) == <<ops[r][o].dir, ops[r][o].peer>>

\* The operations of all groups, each with its group, in the order of the
\* calls of SaveProxy.
GroupedOps(r) ==
  UNION {{[group |-> g, dir |-> o.dir, peer |-> o.peer, opId |-> o.opId, step |-> o.step,
           round |-> o.round] :
            o \in GroupOps(prog, P2pSchedule(prog, r), r, prog.groups[g])} : g \in Group}

CalledBefore(p, o) == p.group < o.group \/ (p.group = o.group /\ SavedBefore(p, o))

BuildAll(r) == Ordered(GroupedOps(r), CalledBefore)

Init ==
  /\ prog \in Programs
  /\ ops = [r \in Ranks |-> BuildAll(r)]
  /\ saved = [r \in Ranks |-> 0]
  /\ saving = [r \in Ranks |-> FALSE]
  /\ prod = [r \in Ranks |-> <<>>]
  /\ cons = [r \in Ranks |-> [q \in Queue |-> <<>>]]
  /\ done = [r \in Ranks |-> {}]
  /\ asyncResult = [r \in Ranks |-> "Success"]
  /\ curStep = [r \in Ranks |-> [g \in Group |-> [i \in OpIdsOf(r, g) |-> -1]]]
  /\ nDone = [r \in Ranks |-> [g \in Group |-> 0]]
  /\ host = [r \in Ranks |-> [g \in Group |-> "none"]]

-----------------------------------------------------------------------------
(* flagcxHostSemaphore *)

Failed(r) == asyncResult[r] = "Error"

\* addCounter has been called once for each operation before any is saved.
NSteps(r, g, i) == Cardinality(Signal(r, g, i))

\* Mutant: the step is not looked at.
PollStart_anyStep(r, o) == curStep[r][ops[r][o].group][ops[r][o].opId] >= 0

\* pollStart: the operation's step has come.
PollStart(r, o) == curStep[r][ops[r][o].group][ops[r][o].opId] >= ops[r][o].step

\* pollEnd: wait() has stored 0 in counter.
PollEnd(r, o) == host[r][ops[r][o].group] \in {"open", "returned"}

\* subCounter, for a set of operations.
SubCounter(r, S) ==
  curStep' = [curStep EXCEPT ![r] = [g \in Group |->
                [i \in OpIdsOf(r, g) |-> @[g][i] + Cardinality(S \cap Signal(r, g, i))]]]

-----------------------------------------------------------------------------
(* groupLaunch and SaveProxy: the application thread of a rank *)

\* groupLaunch of the next group builds its operations and counts them in its
\* semaphore.  A rank without tasks has nothing to launch.
GroupLaunch(r, g) ==
  /\ host[r][g] = "none"
  /\ \A h \in Group : h < g => host[r][h] \notin {"none", "saving"}
  /\ host' = [host EXCEPT ![r][g] = IF OpsOf(r, g) = {} THEN "returned" ELSE "saving"]
  /\ UNCHANGED <<saveVars, opVars, curStep, nDone>>

MaySave(r) ==
  /\ saved[r] < Len(ops[r])
  /\ host[r][ops[r][saved[r] + 1].group] = "saving"

\* SaveProxy looks at asyncResult first and then puts the operation on its
\* producer queue, under the mutex.  Only an error that comes in between tells
\* the two apart: `saving' says that the check was passed before the error.
SaveEnqueue(r) ==
  /\ MaySave(r)
  /\ ~Failed(r) \/ saving[r]
  /\ prod' = [prod EXCEPT ![r] = Append(@, saved[r] + 1)]
  /\ saved' = [saved EXCEPT ![r] = @ + 1]
  /\ saving' = [saving EXCEPT ![r] = FALSE]
  /\ UNCHANGED <<prog, ops, cons, done, asyncResult, curStep, nDone, host>>

\* SaveProxy refuses after an error; groupLaunch returns without a host
\* function, and leaves what it has saved on the queues.
SaveRefused(r) ==
  /\ MaySave(r)
  /\ Failed(r) /\ ~saving[r]
  /\ host' = [host EXCEPT ![r][ops[r][saved[r] + 1].group] = "refused"]
  /\ saved' = [saved EXCEPT ![r] = Max(OpsOf(r, ops[r][@ + 1].group))]
  /\ UNCHANGED <<prog, ops, saving, opVars, curStep, nDone>>

\* All operations are saved: the host function goes on the stream.
LaunchHostFunc(r, g) ==
  /\ host[r][g] = "saving"
  /\ \A o \in OpsOf(r, g) : o <= saved[r]
  /\ host' = [host EXCEPT ![r][g] = "queued"]
  /\ UNCHANGED <<saveVars, opVars, curStep, nDone>>

-----------------------------------------------------------------------------
(* cpuAsyncKernel: the host functions of the stream, one after another *)

SignalStart(r, g) ==
  /\ host[r][g] = "queued"
  /\ \A h \in Group : h < g => host[r][h] \in {"returned", "refused"}
  /\ curStep' = [curStep EXCEPT ![r][g] = [i \in OpIdsOf(r, g) |-> 0]]
  /\ host' = [host EXCEPT ![r][g] = "wait"]
  /\ UNCHANGED <<saveVars, opVars, nDone>>

ScanHit(r, g, i) == curStep[r][g][i] = NSteps(r, g, i)

\* wait() counts a signal once: the extra increment keeps it from being hit
\* again.
WaitScan(r, g) ==
  /\ host[r][g] = "wait"
  /\ \E i \in OpIdsOf(r, g) :
       /\ ScanHit(r, g, i)
       /\ curStep' = [curStep EXCEPT ![r][g][i] = @ + 1]
  /\ nDone' = [nDone EXCEPT ![r][g] = @ + 1]
  /\ UNCHANGED <<saveVars, opVars, host>>

\* Mutant: the first signal ends the wait.
AllScanned_first(r, g) == nDone[r][g] > 0

\* Every signal was counted: counter is set to 0.
AllScanned(r, g) == nDone[r][g] >= Cardinality(OpIdsOf(r, g))

WaitOpen(r, g) ==
  /\ host[r][g] = "wait"
  /\ AllScanned(r, g)
  /\ host' = [host EXCEPT ![r][g] = "open"]
  /\ UNCHANGED <<saveVars, opVars, curStep, nDone>>

\* wait() stores frozen and the host function returns.
WaitReturn(r, g) ==
  /\ host[r][g] = "open"
  /\ host' = [host EXCEPT ![r][g] = "returned"]
  /\ UNCHANGED <<saveVars, opVars, curStep, nDone>>

-----------------------------------------------------------------------------
(* The progress thread of a rank *)

\* An operation that is done has counted down before.
CountsAtRetirement(r, S) == S \ done[r]

\* flagcxProxyRetireFailedQueue: every operation of the queue counts down,
\* unless it has, and is deleted.
RetireOps(r, S) ==
  /\ SubCounter(r, CountsAtRetirement(r, S))
  /\ done' = [done EXCEPT ![r] = @ \cup S]

\* The numbers of the operations are in the order of their calls of SaveProxy.
Earlier(p, o) == p < o

\* flagcxProxyGetPostedOps: everything posted goes to the consumer queues.
GetPostedOps(r) ==
  /\ prod[r] # <<>>
  /\ ~Failed(r)
  /\ cons' = [cons EXCEPT ![r] = [q \in Queue |->
                @[q] \o Ordered({o \in Range(prod[r]) : QueueOf(r, o) = q}, Earlier)]]
  /\ prod' = [prod EXCEPT ![r] = <<>>]
  /\ UNCHANGED <<saveVars, done, asyncResult, curStep, nDone, host>>

\* After an error what was posted is retired at once, sends and receives.
RetirePostedOps(r) ==
  /\ prod[r] # <<>>
  /\ Failed(r)
  /\ RetireOps(r, Range(prod[r]))
  /\ prod' = [prod EXCEPT ![r] = <<>>]
  /\ UNCHANGED <<saveVars, cons, asyncResult, nDone, host>>

\* progressOps on a queue after an error.
RetireQueue(r, q) ==
  /\ cons[r][q] # <<>>
  /\ Failed(r)
  /\ RetireOps(r, Range(cons[r][q]))
  /\ cons' = [cons EXCEPT ![r][q] = <<>>]
  /\ UNCHANGED <<saveVars, prod, asyncResult, nDone, host>>

\* The head of a queue, which is not over yet and whose step has come, is with
\* the transport.
Started(r, q) ==
  /\ cons[r][q] # <<>>
  /\ LET o == Head(cons[r][q]) IN o \notin done[r] /\ PollStart(r, o)

\* The other side of an operation has been started, or is over.
PeerReady(r, o) ==
  LET p   == ops[r][o].peer
      q   == <<IF ops[r][o].dir = "send" THEN "recv" ELSE "send", r>>
      External == p = r \/ p \notin Ranks \/ (prog.eager /\ ops[r][o].dir = "send")
  IN ~External =>
       \E m \in OpsOf(p, ops[r][o].group) :
         QueueOf(p, m) = q /\ (m \in done[p] \/ (Started(p, q) /\ Head(cons[p][q]) = m))

\* progressProxyOp completes the head: it counts down and is done.
OpCompletes(r, q) ==
  /\ ~Failed(r)
  /\ Started(r, q)
  /\ LET o == Head(cons[r][q]) IN
       /\ PeerReady(r, o)
       /\ done' = [done EXCEPT ![r] = @ \cup {o}]
       /\ SubCounter(r, {o})
  /\ UNCHANGED <<saveVars, prod, cons, asyncResult, nDone, host>>

\* progressProxyOp reports a hard error: flagcxProxyFailProgressQueue records
\* it and retires the queue.  The application thread may be in SaveProxy.
OpFails(r, q) ==
  /\ prog.mayFail
  /\ ~Failed(r)
  /\ Started(r, q)
  /\ asyncResult' = [asyncResult EXCEPT ![r] = "Error"]
  /\ RetireOps(r, Range(cons[r][q]))
  /\ cons' = [cons EXCEPT ![r][q] = <<>>]
  /\ \E b \in BOOLEAN :
       /\ b => MaySave(r)
       /\ saving' = [saving EXCEPT ![r] = b]
  /\ UNCHANGED <<prog, ops, saved, prod, nDone, host>>

\* A head that is done leaves the queue once its whole group is over.
MayRemove(r, o) == o \in done[r] /\ PollEnd(r, o)

RemoveHead(r, q) ==
  /\ cons[r][q] # <<>>
  /\ ~Failed(r)
  /\ MayRemove(r, Head(cons[r][q]))
  /\ cons' = [cons EXCEPT ![r][q] = Tail(@)]
  /\ UNCHANGED <<saveVars, prod, done, asyncResult, curStep, nDone, host>>

-----------------------------------------------------------------------------
Launch(r) ==
  \/ SaveEnqueue(r) \/ SaveRefused(r)
  \/ \E g \in Group : GroupLaunch(r, g) \/ LaunchHostFunc(r, g)

HostFunc(r) ==
  \E g \in Group : SignalStart(r, g) \/ WaitScan(r, g) \/ WaitOpen(r, g) \/ WaitReturn(r, g)

Pass(r, q) == RetireQueue(r, q) \/ OpCompletes(r, q) \/ RemoveHead(r, q)

\* What a rank does that is no failure.
Step(r) ==
  \/ Launch(r) \/ HostFunc(r)
  \/ GetPostedOps(r) \/ RetirePostedOps(r)
  \/ \E q \in Queue : Pass(r, q)

\* Every group is over on every rank and the queues are empty.
Quiet ==
  \A r \in Ranks :
    /\ \A g \in Group : host[r][g] \in {"returned", "refused"}
    /\ prod[r] = <<>>
    /\ \A q \in Queue : cons[r][q] = <<>>

Next ==
  \/ \E r \in Ranks : Step(r) \/ \E q \in Queue : OpFails(r, q)
  \/ Quiet /\ UNCHANGED vars

Spec == Init /\ [][Next]_vars

\* The application threads finish their launches, the streams run their host
\* functions, the progress threads pass over every queue again and again, and
\* an operation that both sides have started completes or fails.  No step can
\* be undone or repeated, so a behaviour has finitely many of them and each
\* thread gets its turn.
Fairness == WF_vars(\E r \in Ranks : Step(r))

LiveSpec == Spec /\ Fairness

-----------------------------------------------------------------------------
(* Properties *)

\* The stream goes on only when every operation of the group is over, also
\* after an error: what comes after the group on the stream sees its data.
StreamWaitsForGroup ==
  \A r \in Ranks, g \in Group :
    host[r][g] \in {"open", "returned"} => OpsOf(r, g) \subseteq done[r]

\* No operation touches its buffers before the stream has reached its group,
\* and the steps of one opId run one after another.
StepsInOrder ==
  [][\A r \in Ranks : \A o \in done'[r] \ done[r] : asyncResult'[r] = "Success" =>
       /\ host[r][ops[r][o].group] \notin {"none", "saving", "queued"}
       /\ \A p \in Signal(r, ops[r][o].group, ops[r][o].opId) :
            ops[r][p].step < ops[r][o].step => p \in done[r]]_vars

\* A group for which a host function waits when no error has come.
Waiting(g) ==
  g \in Group /\ \E r \in Ranks : host[r][g] = "wait" /\ ~Failed(r)

\* Every group comes to its end on every rank, unless there is an error: the
\* ranks, which order their operations alone, never wait for one another in a
\* circle, and no step is left out.  A group whose host function waits when an
\* error comes ends too: each of its operations counts down exactly once, by
\* completing or by being retired, wherever the error finds it.  After an error
\* nothing stays queued, not even what SaveProxy was about to enqueue.
EverythingEnds ==
  /\ \A g \in UNION {DOMAIN p.groups : p \in Programs} :
       Waiting(g) ~> (g \in Group => \A r \in Ranks : host[r][g] = "returned")
  /\ <>[]\A r \in Ranks :
       /\ prod[r] = <<>> /\ \A q \in Queue : cons[r][q] = <<>>
       /\ ~Failed(r) => \A g \in Group : host[r][g] = "returned"
=============================================================================
