------------------------- MODULE KernelProxyProofs -------------------------
(***************************************************************************)
(* The safety of KernelProxy for any programs of the GPU threads, any      *)
(* capacities and any number of failures.  What the scoreboard does is     *)
(* taken from ScoreboardProofs.                                            *)
(***************************************************************************)
EXTENDS KernelProxy, ScoreboardProofs

-----------------------------------------------------------------------------
(* The invariant *)

\* A producer that is counted in active; one that got through the gate.
Holding == {"rejected", "entered", "reserved", "writing", "leaving"}
Inside == {"entered", "reserved", "writing", "leaving"}
Holders == {t \in Thread : gpu[t] \in Holding}

Request == [seq : Nat, kind : Native, nic : {"posted", "ok", "failed"}, failed : BOOLEAN,
            waitsFlush : BOOLEAN, get : Nat]
Domain == [issued : Nat, data : Nat, target : Nat, visible : Nat,
           flush : {"none", "posted", "ok", "failed"}]

FlagType ==
  /\ terminalStatus \in BOOLEAN /\ closed \in BOOLEAN
  /\ terminalResult \in BOOLEAN /\ stop \in BOOLEAN

FifoType ==
  /\ produced \in Nat /\ consumed \in Nat /\ completed \in Nat
  /\ quiesce \in {"no", "ok", "error"}

GpuType ==
  /\ op \in [Thread -> Nat] /\ mine \in [Thread -> Nat] /\ flushed \in [Thread -> Nat]
  /\ gpu \in [Thread -> Holding \cup {"call", "flushing"}]

WorkerType ==
  /\ at \in {"top", "advance", "submit", "finish", "gate", "drain", "finalize", "finished"}
  /\ back \in {"top", "finish", "drain"}
  /\ tracked \in BOOLEAN /\ nextSequence \in Nat /\ owed \in Nat
  /\ IsScoreboard(board, MaxInflight)

NetType ==
  /\ requests \in SUBSET Request /\ domain \in Domain
  /\ failedOps \in SUBSET Nat /\ covered \in SUBSET Nat /\ visible \in SUBSET Nat
  /\ reported \in SUBSET Nat

TypeOK == FlagType /\ FifoType /\ GpuType /\ WorkerType /\ NetType

\* active counts the producers that hold a reference, and no producer is inside
\* once the closed gate has been waited for.
GateInv ==
  /\ active = Cardinality(Holders)
  /\ at = "gate" => closed
  /\ closed => \/ at \in {"gate", "drain", "finalize", "finished"}
               \/ at = "advance" /\ back = "drain"
  /\ (closed /\ at # "gate") => \A t \in Thread : gpu[t] \notin Inside

\* The sequence numbers are those of the FIFO: the descriptor in hand is the one
\* after consumed, the scoreboard has retired completed of them, up to what the
\* worker is about to add.
CountersAgree ==
  /\ nextSequence = IF tracked THEN consumed + 2 ELSE consumed + 1
  /\ tracked => Tracks(board, "pending", consumed + 1)
  /\ \A n \in Nat : (n >= board.nextSequence /\ Tracks(board, "complete", n)) => n <= consumed
  /\ board.nextSequence <= consumed + 1
  /\ completed + owed = board.nextSequence - 1
  /\ at # "advance" => owed = 0
  /\ \A t \in Thread : flushed[t] <= completed

\* A request in flight is pending in the scoreboard, under a number of its own.
RequestsTracked ==
  /\ \A r \in requests : /\ Tracks(board, "pending", r.seq)
                         /\ board.nextSequence <= r.seq /\ r.seq <= consumed
  /\ \A r, e \in requests : r.seq = e.seq => r = e
  /\ at \in {"finalize", "finished"} => requests = {}

TrackInv == (at # "finished" => CountersAgree) /\ RequestsTracked

\* When the quiesce has succeeded nothing is left and nothing comes.
QuiesceInv ==
  /\ consumed <= produced
  /\ at # "finished" => /\ pending # Nothing => consumed < produced
                        /\ tracked \/ at = "submit" => pending # Nothing
  /\ \A t \in Thread : gpu[t] # "call" => ~Ended(t)
  /\ quiesce = "ok" => /\ requests = {} /\ \A t \in Thread : Ended(t)
                       /\ at # "finished" => consumed = produced

\* The scoreboard does not advance past a signal in flight, and its firstError
\* tells of every failure that is no longer in flight.
SignalInv ==
  /\ \A r \in requests : r.kind = "signal" =>
       /\ board.nextSequence = r.seq
       /\ \A q \in failedOps : q >= r.seq
  /\ \A q \in failedOps : q <= consumed
  /\ \A q \in failedOps : board.firstError \/ \E r \in requests : r.seq = q
  /\ \A r \in requests : r.seq \in failedOps => r.failed \/ r.nic = "failed"
  /\ \A r \in requests : (r.waitsFlush /\ r.nic = "failed") => r.failed

\* The GETs of that range that have not failed are in S.
Within(lo, hi, S) == \A r \in requests : (r.get \in lo..hi /\ ~r.failed) => r.seq \in S

\* The GETs are numbered, and the data of a prefix of them is complete.
GetsKnown ==
  /\ domain.visible <= domain.target /\ domain.target <= domain.data
  /\ domain.data <= domain.issued
  /\ \A r \in requests :
       /\ (r.get # 0) <=> (r.kind = "get")
       /\ r.get <= domain.issued
       /\ r.waitsFlush => r.get # 0 /\ r.nic # "posted"
       /\ (r.waitsFlush /\ ~r.failed) => r.nic = "ok"
       /\ r.get \in 1..domain.data => r.waitsFlush
  /\ \A r, e \in requests : (r.get # 0 /\ r.get = e.get) => r = e

\* A part of the prefix is visible, and a flush covers the next part of it.  A
\* flush that has to be repeated still has a GET to flush.
FlushCovers ==
  /\ Within(1, domain.visible, visible)
  /\ domain.flush = "posted" => Within(domain.visible + 1, domain.target, covered)
  /\ domain.flush = "ok" => Within(domain.visible + 1, domain.target, visible)
  /\ (domain.flush = "none" /\ domain.target > domain.visible) =>
       \E r \in Gets(domain.visible + 1, domain.target) : ~r.failed

DomainInv == GetsKnown /\ FlushCovers /\ reported \subseteq visible

IInv == TypeOK /\ GateInv /\ TrackInv /\ QuiesceInv /\ SignalInv /\ DomainInv

-----------------------------------------------------------------------------
(* The GPU threads *)

\* What a GPU thread leaves alone.
GpuFrame == UNCHANGED <<consumed, completed, terminalStatus, closed, commVars, workVars, netVars>>

\* A thread takes its reference with the step that finds the gate open or closed,
\* drops it when it returns, and moves inside the gate only if it found it open.
GateStep(t) ==
  \/ /\ gpu[t] = "call" /\ gpu'[t] = IF closed THEN "rejected" ELSE "entered"
     /\ active' = active + 1
  \/ gpu[t] \in Holding /\ gpu'[t] = "call" /\ active' = active - 1
  \/ gpu[t] \in Inside /\ gpu'[t] \in Inside /\ active' = active
  \/ gpu[t] \notin Holding /\ gpu'[t] \in {"call", "flushing"} /\ active' = active

LEMMA GpuEffect ==
  ASSUME TypeOK, NEW t \in Thread, GpuStep(t)
  PROVE  /\ GpuFrame /\ GpuType' /\ produced' \in Nat /\ produced <= produced'
         /\ \A u \in Thread \ {t} : gpu'[u] = gpu[u] /\ op'[u] = op[u] /\ flushed'[u] = flushed[u]
         /\ flushed'[t] = flushed[t] \/ flushed'[t] <= completed
         /\ gpu'[t] # "call" => op'[t] = op[t]
         /\ gpu[t] # "call" \/ ~Ended(t)
         /\ GateStep(t)
<1> USE DEF TypeOK, FifoType, GpuType, GpuFrame, GateStep, Holding, Inside, fifoVars, gpuVars
<1>1. CASE Enter(t) BY <1>1 DEF Enter, Calls
<1>2. CASE Reject(t) BY <1>2 DEF Reject, Returns
<1>3. CASE Reserve(t) BY <1>3 DEF Reserve
<1>4. CASE Space(t) BY <1>4 DEF Space
<1>5. CASE Publish(t) BY <1>5 DEF Publish
<1>6. CASE Leave(t) BY <1>6 DEF Leave, Returns
<1>7. CASE FlushBegin(t) BY <1>7 DEF FlushBegin, Returns, Calls
<1>8. CASE FlushEnd(t) BY <1>8 DEF FlushEnd, Returns
<1> QED BY <1>1, <1>2, <1>3, <1>4, <1>5, <1>6, <1>7, <1>8 DEF GpuStep

-----------------------------------------------------------------------------
(* The gate *)

LEMMA HoldersFinite == IsFiniteSet(Holders) /\ Cardinality(Holders) \in Nat
<1>1. IsFiniteSet(Thread) BY KernelProxyAssumption DEF Thread
<1>2. Holders \subseteq Thread BY DEF Holders
<1> QED BY <1>1, <1>2, FS_Subset, FS_CardinalityType

LEMMA GateByGpu ==
  ASSUME TypeOK, GateInv, NEW t \in Thread, GpuStep(t)
  PROVE  GateInv'
<1>1. /\ GpuFrame /\ GpuType' /\ GateStep(t)
      /\ \A u \in Thread \ {t} : gpu'[u] = gpu[u]
  BY GpuEffect
<1>2. closed' = closed /\ at' = at /\ back' = back BY <1>1 DEF GpuFrame, workVars
<1>3. active' = Cardinality(Holders')
  <2>1. active = Cardinality(Holders) BY DEF GateInv
  <2>2. CASE gpu[t] = "call" /\ gpu'[t] \in Holding /\ active' = active + 1
    <3>1. Holders' = Holders \cup {t} BY <1>1, <2>2 DEF Holders
    <3>2. t \notin Holders BY <2>2 DEF Holders, Holding
    <3> QED BY <2>1, <2>2, <3>1, <3>2, HoldersFinite, FS_AddElement
  <2>3. CASE gpu[t] \in Holding /\ gpu'[t] = "call" /\ active' = active - 1
    <3>1. Holders' = Holders \ {t} BY <1>1, <2>3 DEF Holders, Holding
    <3>2. t \in Holders BY <2>3 DEF Holders
    <3> QED BY <2>1, <2>3, <3>1, <3>2, HoldersFinite, FS_RemoveElement
  <2>4. CASE active' = active /\ (gpu[t] \in Holding <=> gpu'[t] \in Holding)
    <3>1. Holders' = Holders BY <1>1, <2>4 DEF Holders
    <3> QED BY <2>1, <2>4, <3>1
  <2> QED BY <1>1, <2>2, <2>3, <2>4 DEF GateStep, Holding, Inside
<1>4. (closed' /\ at' # "gate") => \A u \in Thread : gpu'[u] \notin Inside
  <2> SUFFICES ASSUME closed', at' # "gate", NEW u \in Thread PROVE gpu'[u] \notin Inside
    OBVIOUS
  <2>1. closed /\ \A v \in Thread : gpu[v] \notin Inside BY <1>2 DEF GateInv
  <2>2. CASE u # t BY <1>1, <2>1, <2>2
  <2>3. CASE u = t BY <1>1, <2>1, <2>3 DEF GateStep, Inside, Holding
  <2> QED BY <2>2, <2>3
<1> QED BY <1>2, <1>3, <1>4 DEF GateInv

\* A step of the others leaves the producers alone, so that only the position of
\* the worker and the gate matter.
LEMMA GateByOthers ==
  ASSUME TypeOK, GateInv, UNCHANGED <<active, gpu>>,
         \/ UNCHANGED <<at, back, closed>>
         \/ /\ at \in {"top", "drain"} /\ at' = "advance" /\ back' = at /\ closed' = closed
         \/ at = "advance" /\ at' = back /\ UNCHANGED <<back, closed>>
         \/ at \in {"top", "submit"} /\ at' # "gate" /\ closed' = closed
         \/ at = "finish" /\ at' = "drain" /\ closed' = closed
         \/ at \in {"finish", "drain"} /\ ~closed /\ at' = "gate" /\ closed'
         \/ at = "gate" /\ active = 0 /\ at' = "drain" /\ closed' = closed
         \/ at = "drain" /\ at' \in {"finalize", "finished"} /\ closed' = closed
         \/ at = "finalize" /\ at' = "finished" /\ closed' = closed
  PROVE  GateInv'
<1>1. Holders' = Holders /\ active' = active BY DEF Holders
<1>2. active = 0 => \A t \in Thread : gpu[t] \notin Inside
  <2> SUFFICES ASSUME active = 0 PROVE Holders = {} BY DEF Holders, Holding, Inside
  <2> QED BY HoldersFinite, FS_EmptySet DEF GateInv
<1>3. active' = Cardinality(Holders') BY <1>1 DEF GateInv
<1>4. /\ at' = "gate" => closed'
      /\ closed' => \/ at' \in {"gate", "drain", "finalize", "finished"}
                    \/ at' = "advance" /\ back' = "drain"
      /\ (closed' /\ at' # "gate") => (closed /\ at # "gate") \/ active = 0
  BY DEF GateInv, TypeOK, FlagType, WorkerType
<1>5. (closed' /\ at' # "gate") => \A t \in Thread : gpu'[t] \notin Inside
  BY <1>2, <1>4 DEF GateInv
<1> QED BY <1>3, <1>4, <1>5 DEF GateInv

LEMMA GateInductive ==
  ASSUME TypeOK, GateInv, [Next]_vars
  PROVE  GateInv'
<1> USE DEF fifoVars, gpuVars, commVars, workVars, transportVars, netVars, Goto
<1>1. ASSUME NEW r \in requests, PollDone(r) PROVE GateInv'
  BY <1>1, GateByOthers DEF PollDone, Complete
<1>2. ASSUME NEW r \in requests, PollGetData(r) PROVE GateInv'
  BY <1>2, GateByOthers DEF PollGetData
<1>3. ASSUME NEW r \in requests, PollGetDone(r) PROVE GateInv'
  BY <1>3, GateByOthers DEF PollGetDone, Complete
<1>4. CASE PollFlush BY <1>4, GateByOthers DEF PollFlush
<1>5. ASSUME NEW a, PostFlush(a) PROVE GateInv' BY <1>5, GateByOthers DEF PostFlush
<1>6. CASE Advance BY <1>6, GateByOthers DEF Advance
<1>7. CASE Look BY <1>7, GateByOthers DEF Look
<1>8. CASE Wait BY <1>8, GateByOthers DEF Wait
<1>9. CASE Post BY <1>9, GateByOthers DEF Post, Admitted
<1>10. CASE Immediate BY <1>10, GateByOthers DEF Immediate, Complete
<1>11. CASE Finish
  <2>1. ~closed BY <1>11 DEF Finish, GateInv
  <2> QED BY <1>11, <2>1, GateByOthers DEF Finish, CloseGate
<1>12. CASE GateWait BY <1>12, GateByOthers DEF GateWait
<1>13. CASE DrainEnd BY <1>13, GateByOthers DEF DrainEnd, CloseGate
<1>14. CASE Finalize BY <1>14, GateByOthers DEF Finalize
<1>15. CASE NicFlushes BY <1>15, GateByOthers DEF NicFlushes
<1>16. ASSUME NEW r \in requests, NicCompletes(r) PROVE GateInv'
  BY <1>16, GateByOthers DEF NicCompletes
<1>17. CASE OtherContextFails BY <1>17, GateByOthers DEF OtherContextFails
<1>18. CASE Quiesce \/ QuiesceFindsError BY <1>18, GateByOthers DEF Quiesce, QuiesceFindsError
<1>19. CASE Stop BY <1>19, GateByOthers DEF Stop
<1>20. CASE UNCHANGED vars BY <1>20, GateByOthers DEF vars
<1>21. ASSUME NEW t \in Thread, GpuStep(t) PROVE GateInv' BY <1>21, GateByGpu
<1> QED
  BY <1>1, <1>2, <1>3, <1>4, <1>5, <1>6, <1>7, <1>8, <1>9, <1>10, <1>11, <1>12, <1>13, <1>14,
     <1>15, <1>16, <1>17, <1>18, <1>19, <1>20, <1>21 DEF Next, WorkerStep, NicStep, Done

-----------------------------------------------------------------------------
(* What the worker's calls do *)

\* flagcxKernelProxyTrackNext: the descriptor in hand has the number after
\* consumed, and the scoreboard tracks it from then on.
LEMMA BoardIs ==
  ASSUME TypeOK, CountersAgree, CanTrack
  PROVE  /\ Sequence = consumed + 1 /\ Sequence \in Nat
         /\ IsScoreboard(Board, MaxInflight)
         /\ Board.nextSequence = board.nextSequence /\ Board.firstError = board.firstError
         /\ \A n \in Nat : Tracks(Board, "pending", n) <=> Tracks(board, "pending", n) \/ n = consumed + 1
         /\ \A n \in Nat : Tracks(Board, "complete", n) <=> Tracks(board, "complete", n)
<1>1. /\ consumed \in Nat /\ nextSequence \in Nat /\ tracked \in BOOLEAN
      /\ IsScoreboard(board, MaxInflight)
  BY DEF TypeOK, FifoType, WorkerType
<1>2. Sequence = consumed + 1 /\ Sequence \in Nat BY <1>1 DEF CountersAgree, Sequence
<1>3. CASE tracked
  <2>1. Board = board /\ Tracks(board, "pending", consumed + 1) BY <1>3 DEF Board, CountersAgree
  <2> QED BY <1>1, <1>2, <2>1
<1>4. CASE ~tracked
  <2>1. /\ Board = TrackSubmit(board, nextSequence) /\ nextSequence = consumed + 1
        /\ TrackSubmitResult(board, nextSequence) = "success"
    BY <1>4 DEF Board, CanTrack, CountersAgree
  <2> QED BY <1>1, <1>2, <2>1, SubmitTracks
<1> QED BY <1>3, <1>4

\* flagcxNetTrackCompletion of a request that is pending: it is not tracked any
\* more, the others are as before, and the scoreboard stops before them.
CompletedOne(sb, q, failed) ==
  /\ IsScoreboard(board', MaxInflight) /\ board'.firstError = (sb.firstError \/ failed)
  /\ sb.nextSequence <= board'.nextSequence
  /\ owed' = board'.nextSequence - sb.nextSequence /\ owed' \in Nat
  /\ \A n \in Nat : (sb.nextSequence <= n /\ n < board'.nextSequence) =>
       Tracks(sb, "complete", n) \/ n = q
  /\ \A n \in Nat : n >= board'.nextSequence =>
       /\ Tracks(board', "complete", n) => Tracks(sb, "complete", n) \/ n = q
       /\ Tracks(sb, "pending", n) /\ n # q => Tracks(board', "pending", n)

LEMMA CompleteEffect ==
  ASSUME NEW sb, IsScoreboard(sb, MaxInflight), NEW q \in Nat, NEW failed \in BOOLEAN, NEW next,
         Complete(sb, q, failed, next)
  PROVE  CompletedOne(sb, q, failed)
<1>1. board' = TrackCompletion(sb, {q}, failed) /\ owed' = board'.nextSequence - sb.nextSequence
  BY DEF Complete
<1> DEFINE sb2 == TrackCompletion(sb, {q}, failed)
<1>2. /\ IsScoreboard(sb2, MaxInflight) /\ sb2.firstError = (sb.firstError \/ failed)
      /\ sb.nextSequence <= sb2.nextSequence
      /\ \A n \in sb.nextSequence..sb2.nextSequence-1 :
           Tracks(sb, "complete", n) \/ (Tracks(sb, "pending", n) /\ n \in {q})
      /\ \A n \in Nat : n >= sb2.nextSequence =>
           /\ Tracks(sb2, "pending", n) <=> Tracks(sb, "pending", n) /\ n \notin {q}
           /\ Tracks(sb2, "complete", n) <=>
                Tracks(sb, "complete", n) \/ (Tracks(sb, "pending", n) /\ n \in {q})
  BY CompletionRetires
<1>3. sb.nextSequence \in Nat /\ sb2.nextSequence \in Nat BY <1>2, CapacityIs
<1> HIDE DEF sb2
<1>4. ASSUME NEW n \in Nat, sb.nextSequence <= n, n < sb2.nextSequence
      PROVE  Tracks(sb, "complete", n) \/ n = q
  <2>1. n \in sb.nextSequence..sb2.nextSequence-1 BY <1>3, <1>4
  <2> QED BY <1>2, <2>1
<1>5. board' = sb2 BY <1>1 DEF sb2
<1>6. owed' \in Nat BY <1>1, <1>2, <1>3, <1>5
<1> QED BY <1>1, <1>2, <1>4, <1>5, <1>6 DEF CompletedOne

\* A pending request other than q is still ahead of the scoreboard.
LEMMA StillPending ==
  ASSUME NEW sb, IsScoreboard(sb, MaxInflight), NEW q, NEW failed, CompletedOne(sb, q, failed),
         NEW n \in Nat, Tracks(sb, "pending", n), sb.nextSequence <= n, n # q
  PROVE  Tracks(board', "pending", n) /\ board'.nextSequence <= n
<1>1. sb.nextSequence \in Nat /\ board'.nextSequence \in Nat BY CapacityIs DEF CompletedOne
<1>2. ~Tracks(sb, "complete", n) BY DEF Tracks
<1>3. board'.nextSequence <= n BY <1>1, <1>2 DEF CompletedOne
<1> QED BY <1>1, <1>3 DEF CompletedOne

\* The prefix of the GETs whose data is complete ends somewhere, and a GET in it
\* waits for its flush.
LEMMA DataPrefixIs ==
  ASSUME TypeOK, DomainInv
  PROVE  /\ DataPrefix \in domain.data..domain.issued /\ DataPrefix \in Nat
         /\ \A k \in domain.data + 1 .. DataPrefix : \E r \in Gets(k, k) : r.waitsFlush
<1>1. /\ domain.data \in Nat /\ domain.issued \in Nat /\ domain.data <= domain.issued
      /\ \A r \in requests : r.get \in Nat /\ r.get <= domain.issued
  BY DEF TypeOK, NetType, Domain, Request, DomainInv, GetsKnown
<1> DEFINE W(k) == \E r \in Gets(k, k) : r.waitsFlush
           S == {n \in Nat : domain.data <= n /\ ~W(n + 1)}
<1>2. ~W(domain.issued + 1) BY <1>1 DEF Gets
<1>3. domain.issued \in S BY <1>1, <1>2
<1>4. PICK n \in S : \A y \in S : n <= y BY <1>3, LeastNatural
<1>5. n \in domain.data..domain.issued /\ n \in Nat /\ ~W(n + 1) BY <1>1, <1>3, <1>4
<1>6. ASSUME NEW k \in domain.data + 1 .. n PROVE W(k)
  <2>1. k - 1 \in Nat /\ domain.data <= k - 1 /\ k - 1 < n /\ (k - 1) + 1 = k BY <1>1, <1>5
  <2>2. k - 1 \notin S BY <1>4, <1>5, <2>1
  <2> HIDE DEF W
  <2> QED BY <2>1, <2>2
<1>7. \E m \in domain.data..domain.issued :
        /\ \A k \in domain.data + 1 .. m : \E r \in Gets(k, k) : r.waitsFlush
        /\ ~\E r \in Gets(m + 1, m + 1) : r.waitsFlush
  BY <1>5, <1>6
<1> QED BY <1>1, <1>7 DEF DataPrefix

-----------------------------------------------------------------------------
(* Steps that change what is known of requests, and no request's identity *)

Same(e, r) == e.seq = r.seq /\ e.kind = r.kind /\ e.get = r.get

Renews ==
  /\ requests' \in SUBSET Request
  /\ \A e \in requests' : \E r \in requests : Same(e, r)
  /\ \A r \in requests : \E e \in requests' : Same(e, r)
  /\ \A e, f \in requests' : e.seq = f.seq => e = f

\* One request is replaced.
LEMMA ReplaceRenews ==
  ASSUME requests \in SUBSET Request, RequestsTracked, NEW r \in requests,
         NEW e \in Request, Same(e, r), requests' = (requests \ {r}) \cup {e}
  PROVE  Renews
<1>1. requests' \in SUBSET Request OBVIOUS
<1>2. \A x \in requests' : \E y \in requests : Same(x, y) BY DEF Same
<1>3. \A x \in requests : \E y \in requests' : Same(y, x) BY DEF Same
<1>4. ASSUME NEW x \in requests', NEW y \in requests', x.seq = y.seq PROVE x = y
  BY <1>4 DEF RequestsTracked, Same
<1> QED BY <1>1, <1>2, <1>3, <1>4 DEF Renews

Fail(r, lo, hi) == [r EXCEPT !.failed = @ \/ r.get \in lo .. hi]

LEMMA FailIs ==
  ASSUME NEW r \in Request, NEW lo, NEW hi
  PROVE  LET e == Fail(r, lo, hi) IN
         /\ e \in Request /\ Same(e, r) /\ e.nic = r.nic /\ e.waitsFlush = r.waitsFlush
         /\ e.failed <=> r.failed \/ r.get \in lo .. hi
<1> DEFINE e == Fail(r, lo, hi)
<1>1. r.failed \in BOOLEAN BY DEF Request
<1>2. (r.failed \/ r.get \in lo .. hi) \in BOOLEAN BY <1>1
<1>3. PICK b \in BOOLEAN : b = (r.failed \/ r.get \in lo .. hi) BY <1>2
<1>4. e = [r EXCEPT !.failed = b] BY <1>3 DEF Fail, Request
<1> HIDE DEF e
<1>5. e \in Request /\ e.seq = r.seq /\ e.kind = r.kind /\ e.get = r.get /\ e.nic = r.nic
      /\ e.waitsFlush = r.waitsFlush /\ e.failed = b
  BY <1>4 DEF Request
<1>6. e.failed <=> r.failed \/ r.get \in lo .. hi BY <1>3, <1>5
<1> QED BY <1>5, <1>6 DEF e, Same

\* A range of GETs is failed.
LEMMA FailRenews ==
  ASSUME requests \in SUBSET Request, RequestsTracked, NEW lo, NEW hi,
         requests' = FailGets(lo, hi)
  PROVE  /\ Renews
         /\ \A e \in requests' : \E r \in requests : e = Fail(r, lo, hi)
<1>1. requests' = {Fail(r, lo, hi) : r \in requests} BY DEF FailGets, Fail
<1>2. \A r \in requests : Fail(r, lo, hi) \in Request /\ Same(Fail(r, lo, hi), r) BY FailIs
<1>3. ASSUME NEW x \in requests', NEW y \in requests', x.seq = y.seq PROVE x = y
  <2>1. PICK r \in requests : x = Fail(r, lo, hi) BY <1>1
  <2>2. PICK q \in requests : y = Fail(q, lo, hi) BY <1>1
  <2>3. r.seq = q.seq BY <1>2, <1>3, <2>1, <2>2 DEF Same
  <2> QED BY <2>1, <2>2, <2>3 DEF RequestsTracked
<1> QED BY <1>1, <1>2, <1>3 DEF Renews

\* The NIC completes a request.
NicAnswer(e, r) ==
  /\ e \in Request /\ Same(e, r) /\ r.nic = "posted" /\ e.waitsFlush = r.waitsFlush
  /\ e.failed = r.failed
  /\ \/ e.nic = "ok" /\ failedOps' = failedOps
     \/ e.nic = "failed" /\ failedOps' = failedOps \cup {r.seq}

LEMMA NicCompletesEffect ==
  ASSUME TypeOK, NEW r \in requests, NicCompletes(r)
  PROVE  \E e : NicAnswer(e, r) /\ requests' = (requests \ {r}) \cup {e}
<1>1. r \in Request BY DEF TypeOK, NetType
<1>2. ASSUME NEW v \in {"ok", "failed"}
      PROVE  LET e == [r EXCEPT !.nic = v] IN
             /\ e \in Request /\ Same(e, r) /\ e.nic = v
             /\ e.waitsFlush = r.waitsFlush /\ e.failed = r.failed
  BY <1>1 DEF Request, Same
<1>3. \/ /\ requests' = (requests \ {r}) \cup {[r EXCEPT !.nic = "ok"]} /\ failedOps' = failedOps
      \/ /\ requests' = (requests \ {r}) \cup {[r EXCEPT !.nic = "failed"]}
         /\ failedOps' = failedOps \cup {r.seq}
  BY DEF NicCompletes
<1>4. r.nic = "posted" BY DEF NicCompletes
<1> QED BY <1>2, <1>3, <1>4 DEF NicAnswer

\* A GET with a CQE waits for its flush.
Waiting(e, r) ==
  /\ e \in Request /\ Same(e, r) /\ e.nic = r.nic /\ e.waitsFlush
  /\ e.failed <=> r.failed \/ r.nic = "failed"

LEMMA PollGetDataEffect ==
  ASSUME TypeOK, NEW r \in requests, PollGetData(r)
  PROVE  \E e : Waiting(e, r) /\ requests' = (requests \ {r}) \cup {e}
<1> DEFINE e == [r EXCEPT !.waitsFlush = TRUE, !.failed = @ \/ r.nic = "failed"]
<1>1. r \in Request BY DEF TypeOK, NetType
<1>2. r.failed \in BOOLEAN BY <1>1 DEF Request
<1>3. (r.failed \/ r.nic = "failed") \in BOOLEAN BY <1>2
<1>4. PICK b \in BOOLEAN : b = (r.failed \/ r.nic = "failed") BY <1>3
<1>5. e = [r EXCEPT !.waitsFlush = TRUE, !.failed = b] BY <1>1, <1>4 DEF Request
<1>6. requests' = (requests \ {r}) \cup {e} BY DEF PollGetData
<1> HIDE DEF e
<1>7. e \in Request /\ e.seq = r.seq /\ e.kind = r.kind /\ e.get = r.get /\ e.nic = r.nic
      /\ e.waitsFlush = TRUE /\ e.failed = b
  BY <1>1, <1>5 DEF Request
<1>8. Waiting(e, r) BY <1>4, <1>7 DEF Waiting, Same
<1> QED BY <1>6, <1>8

\* The flush domain gets these counters.
DomainGets(d, data, target, seen, flush) ==
  /\ d \in Domain /\ d.issued = domain.issued /\ d.data = data /\ d.target = target
  /\ d.visible = seen /\ d.flush = flush

\* The GETs that the flush up to target is for, and what it makes visible.
ToFlush(target) == {r \in Gets(domain.visible + 1, target) : ~r.failed}
Landed == {r.seq : r \in {x \in requests : x.get # 0 /\ x.nic = "ok"}}

FlushOutcome(target) ==
  \/ /\ ToFlush(target) = {} /\ target = DataPrefix
     /\ DomainGets(domain', DataPrefix, target, target, "none")
     /\ UNCHANGED <<requests, failedOps, covered, visible>>
  \/ /\ DomainGets(domain', DataPrefix, target, domain.visible, "posted")
     /\ covered' = Landed
     /\ UNCHANGED <<requests, failedOps, visible>>
  \/ /\ DomainGets(domain', DataPrefix, target, target, "none")
     /\ visible' = visible \cup Landed
     /\ UNCHANGED <<requests, failedOps, covered>>
  \/ /\ ToFlush(target) # {}
     /\ DomainGets(domain', DataPrefix, target, domain.visible, "none")
     /\ UNCHANGED <<requests, failedOps, covered, visible>>
  \/ /\ DomainGets(domain', DataPrefix, target, target, "none")
     /\ requests' = FailGets(domain.visible + 1, target)
     /\ failedOps' = failedOps \cup {r.seq : r \in Gets(domain.visible + 1, target)}
     /\ UNCHANGED <<covered, visible>>

\* When nothing of the range is to be flushed the range is that of the prefix: a
\* flush is repeated only for a range with a GET to flush.
LEMMA PostFlushEffect ==
  ASSUME TypeOK, DomainInv, NEW a, PostFlush(a)
  PROVE  \E target \in Nat :
           /\ domain.visible <= target /\ target <= DataPrefix
           /\ FlushOutcome(target)
<1> DEFINE retry == domain.target > domain.visible
           target == IF retry THEN domain.target ELSE DataPrefix
<1>1. /\ domain \in Domain
      /\ domain.data \in Nat /\ domain.issued \in Nat /\ domain.target \in Nat
      /\ domain.visible \in Nat
      /\ domain.visible <= domain.target /\ domain.target <= domain.data
      /\ DataPrefix \in Nat /\ domain.data <= DataPrefix
  <2>1. DataPrefix \in domain.data..domain.issued /\ DataPrefix \in Nat BY DataPrefixIs
  <2>2. domain \in Domain BY DEF TypeOK, NetType
  <2>3. domain.data \in Nat /\ domain.issued \in Nat /\ domain.target \in Nat
        /\ domain.visible \in Nat
    BY <2>2 DEF Domain
  <2> QED BY <2>1, <2>2, <2>3 DEF DomainInv, GetsKnown
<1>2. target \in Nat /\ domain.visible <= target /\ target <= DataPrefix BY <1>1
<1>3. domain.flush = "none" BY DEF PostFlush, NeedsFlush
<1>4. ToFlush(target) = {} => target = DataPrefix
  <2> SUFFICES ASSUME retry PROVE ToFlush(target) # {} OBVIOUS
  <2>1. target = domain.target OBVIOUS
  <2> QED BY <1>3, <2>1 DEF DomainInv, FlushCovers, ToFlush
<1> DEFINE d == [domain EXCEPT !.data = DataPrefix]
<1>5. /\ DomainGets([d EXCEPT !.visible = DataPrefix, !.target = DataPrefix],
                    DataPrefix, DataPrefix, DataPrefix, "none")
      /\ DomainGets([d EXCEPT !.target = target, !.flush = "posted"],
                    DataPrefix, target, domain.visible, "posted")
      /\ DomainGets([d EXCEPT !.target = target, !.visible = target],
                    DataPrefix, target, target, "none")
      /\ DomainGets([d EXCEPT !.target = target], DataPrefix, target, domain.visible, "none")
  <2>1. d \in Domain /\ d.issued = domain.issued /\ d.data = DataPrefix /\ d.target = domain.target
        /\ d.visible = domain.visible /\ d.flush = "none"
    BY <1>1, <1>3 DEF Domain
  <2> HIDE DEF target, d
  <2> QED BY <1>1, <1>2, <2>1 DEF DomainGets, Domain
<1>6. FlushOutcome(target)
  <2>1. \/ /\ ToFlush(target) = {}
           /\ domain' = [d EXCEPT !.visible = DataPrefix, !.target = DataPrefix]
           /\ UNCHANGED <<requests, failedOps, covered, visible>>
        \/ /\ domain' = [d EXCEPT !.target = target, !.flush = "posted"]
           /\ covered' = Landed
           /\ UNCHANGED <<requests, failedOps, visible>>
        \/ /\ domain' = [d EXCEPT !.target = target, !.visible = target]
           /\ visible' = visible \cup Landed
           /\ UNCHANGED <<requests, failedOps, covered>>
        \/ /\ ToFlush(target) # {}
           /\ domain' = [d EXCEPT !.target = target]
           /\ UNCHANGED <<requests, failedOps, covered, visible>>
        \/ /\ domain' = [d EXCEPT !.target = target, !.visible = target]
           /\ requests' = FailGets(domain.visible + 1, target)
           /\ failedOps' = failedOps \cup {r.seq : r \in Gets(domain.visible + 1, target)}
           /\ UNCHANGED <<covered, visible>>
    <3> DEFINE range == ToFlush(target)
    <3>1. CASE range = {} /\ a = "skip" BY <3>1 DEF PostFlush, ToFlush, Landed
    <3>2. CASE range # {} /\ a = "posted" BY <3>2 DEF PostFlush, ToFlush, Landed
    <3>3. CASE range # {} /\ a = "unneeded" BY <3>3 DEF PostFlush, ToFlush, Landed
    <3>4. CASE range # {} /\ a = "again" BY <3>4 DEF PostFlush, ToFlush, Landed
    <3>5. CASE range # {} /\ a = "fails" BY <3>5 DEF PostFlush, ToFlush, Landed
    <3>6. \/ range = {} /\ a = "skip"
          \/ range # {} /\ a \in {"posted", "unneeded", "again", "fails"}
      BY DEF PostFlush, ToFlush
    <3> QED BY <3>1, <3>2, <3>3, <3>4, <3>5, <3>6
  <2> HIDE DEF d, target
  <2> QED BY <1>4, <1>5, <2>1 DEF FlushOutcome
<1> QED BY <1>2, <1>6

LEMMA PollFlushEffect ==
  ASSUME TypeOK, PollFlush
  PROVE  DomainGets(domain', domain.data, domain.target, domain.target, "none")
<1>1. domain \in Domain BY DEF TypeOK, NetType
<1>2. domain' = [domain EXCEPT !.flush = "none", !.visible = domain.target] BY DEF PollFlush
<1> QED BY <1>1, <1>2 DEF DomainGets, Domain

LEMMA NicFlushesEffect ==
  ASSUME TypeOK, NicFlushes
  PROVE  /\ domain.flush = "posted"
         /\ \/ /\ DomainGets(domain', domain.data, domain.target, domain.visible, "ok")
               /\ visible' = visible \cup covered
            \/ /\ DomainGets(domain', domain.data, domain.target, domain.visible, "failed")
               /\ visible' = visible
<1>1. domain \in Domain BY DEF TypeOK, NetType
<1> QED BY <1>1 DEF NicFlushes, DomainGets, Domain

\* The request that Post adds.
NewRequest(failed, now) ==
  [seq |-> Sequence, kind |-> pending, failed |-> failed,
   nic |-> IF now THEN "ok" ELSE "posted", waitsFlush |-> now,
   get |-> IF pending = "get" THEN domain.issued + 1 ELSE 0]

Posted(failed, now) ==
  /\ Admitted /\ pending \in Native
  /\ now => pending = "get" /\ ~failed
  /\ requests' = requests \cup {NewRequest(failed, now)}
  /\ failedOps' = IF failed THEN failedOps \cup {Sequence} ELSE failedOps
  /\ domain' \in Domain
  /\ domain'.issued = domain.issued + (IF pending = "get" THEN 1 ELSE 0)
  /\ domain'.data = domain.data /\ domain'.target = domain.target
  /\ domain'.visible = domain.visible /\ domain'.flush = domain.flush
  /\ consumed' = consumed + 1 /\ pending' = Nothing /\ tracked' = FALSE
  /\ nextSequence' = Sequence + 1 /\ board' = Board /\ at' = "top"
  /\ UNCHANGED <<produced, completed, gpuVars, stop, quiesce, back, owed, covered, visible, reported>>

\* The adaptor had no room: the descriptor stays in hand, tracked.
TrackedOnly ==
  /\ at = "submit" /\ CanTrack /\ tracked' = TRUE /\ nextSequence' = Sequence + 1 /\ board' = Board
  /\ at' = "top"
  /\ UNCHANGED <<produced, consumed, completed, gpuVars, stop, quiesce, back, owed, pending,
                 requests, domain, failedOps, covered, visible, reported>>

LEMMA PostEffect ==
  ASSUME TypeOK, CountersAgree, Post
  PROVE  (\E failed, now \in BOOLEAN : Posted(failed, now) /\ NewRequest(failed, now) \in Request) \/ TrackedOnly
<1>1. domain \in Domain /\ domain.issued \in Nat BY DEF TypeOK, NetType, Domain
<1>2. CASE HasRoom /\ consumed' = consumed + 1
  <2>1. at = "submit" /\ CanTrack /\ pending \in Native BY DEF Post, Admitted
  <2>2. Sequence \in Nat BY <2>1, BoardIs
  <2>3. Consume /\ domain' = IF pending = "get" THEN [domain EXCEPT !.issued = @ + 1] ELSE domain
    BY <1>2 DEF Post, TypeOK, FifoType
  <2>4. PICK failed \in BOOLEAN, now \in BOOLEAN :
           /\ now => pending = "get" /\ ~failed
           /\ requests' = requests \cup {NewRequest(failed, now)}
           /\ failedOps' = IF failed THEN failedOps \cup {Sequence} ELSE failedOps
    BY <1>2 DEF Post, NewRequest, TypeOK, FifoType
  <2>5. /\ domain' \in Domain
        /\ domain'.issued = domain.issued + (IF pending = "get" THEN 1 ELSE 0)
        /\ domain'.data = domain.data /\ domain'.target = domain.target
        /\ domain'.visible = domain.visible /\ domain'.flush = domain.flush
    BY <1>1, <2>3 DEF Domain
  <2>6. NewRequest(failed, now) \in Request BY <1>1, <2>1, <2>2 DEF NewRequest, Request
  <2>7. Posted(failed, now)
    BY <2>1, <2>3, <2>4, <2>5 DEF Posted, Post, Consume, Goto
  <2> QED BY <2>6, <2>7
<1>3. CASE ~(HasRoom /\ consumed' = consumed + 1)
  BY <1>3 DEF Post, Admitted, TrackedOnly, Track, Goto, Consume
<1> QED BY <1>2, <1>3

LEMMA WaitEffect ==
  ASSUME Wait
  PROVE  \/ TrackedOnly
         \/ /\ at = "submit" /\ at' = "top"
            /\ UNCHANGED <<fifoVars, gpuVars, commVars, pending, tracked, transportVars, owed, back,
                           netVars>>
BY DEF Wait, TrackedOnly, Track, Goto, fifoVars, commVars, transportVars, netVars

-----------------------------------------------------------------------------
(* The steps, as the rest of the proof sees them *)

\* A request is completed, and leaves the table.
Retired(r, failed) ==
  /\ at \in {"top", "drain"} /\ at' = "advance" /\ back' = at
  /\ failed <=> r.failed \/ (r.nic = "failed" /\ ~r.waitsFlush)
  /\ r.kind = "get" => r.waitsFlush /\ r.get <= domain.visible
  /\ CompletedOne(board, r.seq, failed)
  /\ requests' = requests \ {r}
  /\ \/ reported' = reported
     \/ r.waitsFlush /\ ~failed /\ reported' = reported \cup {r.seq}
  /\ UNCHANGED <<produced, consumed, completed, gpuVars, quiesce, pending, tracked, nextSequence,
                 domain, failedOps, covered, visible>>

\* A descriptor is completed without a request.
Skipped(failed) ==
  /\ at = "submit" /\ CanTrack /\ at' = "advance" /\ back' \in {"top", "finish"}
  /\ CompletedOne(Board, Sequence, failed)
  /\ failedOps' = IF failed THEN failedOps \cup {Sequence} ELSE failedOps
  /\ consumed' = consumed + 1 /\ pending' = Nothing /\ tracked' = FALSE
  /\ nextSequence' = Sequence + 1
  /\ UNCHANGED <<produced, completed, gpuVars, quiesce, requests, domain, covered, visible, reported>>

\* Requests or the flush domain are answered or polled.
PollStep ==
  \/ \E r \in requests : PollGetData(r) \/ NicCompletes(r)
  \/ PollFlush \/ NicFlushes \/ \E a : PostFlush(a)

Polls ==
  /\ Renews /\ domain' \in Domain
  /\ failedOps' \in SUBSET Nat /\ covered' \in SUBSET Nat /\ visible' \in SUBSET Nat
  /\ \A q \in failedOps' : q \in failedOps \/ \E r \in requests : r.seq = q
  /\ UNCHANGED <<produced, consumed, completed, gpuVars, quiesce, at, pending, tracked, nextSequence,
                 board, owed, back, reported>>

\* The worker goes on, and leaves the transport alone.
Moves ==
  /\ UNCHANGED <<produced, gpuVars, quiesce, tracked, transportVars, back, failedOps, covered,
                 visible, reported>>
  /\ \/ /\ at = "advance" /\ at' = back /\ completed' = completed + owed /\ owed' = 0
        /\ UNCHANGED <<consumed, pending>>
     \/ /\ at = "top" /\ at' \in {"finish", "submit"} /\ (at' = "submit" => pending' # Nothing)
        /\ pending' = pending \/ (produced # consumed /\ pending' # Nothing)
        /\ UNCHANGED <<consumed, completed, owed>>
     \/ /\ at \in {"submit", "finish", "gate", "drain"} /\ at' \in {"top", "drain", "gate"}
        /\ UNCHANGED <<consumed, completed, owed, pending>>
     \/ /\ at = "drain" /\ requests = {} /\ at' \in {"finalize", "finished"}
        /\ UNCHANGED <<consumed, completed, owed, pending>>
     \/ /\ at = "finalize" /\ at' = "finished"
        /\ consumed' \in {consumed, produced} /\ completed' \in {completed, produced}
        /\ UNCHANGED <<owed, pending>>

\* The host, and the rest of the world.
HostMoves ==
  /\ UNCHANGED <<produced, consumed, completed, gpuVars, at, pending, tracked, transportVars, owed,
                 back, failedOps, covered, visible, reported>>
  /\ \/ quiesce' = quiesce
     \/ /\ \A t \in Thread : Ended(t)
        /\ quiesce' = "error" \/ (quiesce' = "ok" /\ completed = produced)

LEMMA RetiredEffect ==
  ASSUME TypeOK, NEW r \in requests, PollDone(r) \/ PollGetDone(r)
  PROVE  \E failed \in BOOLEAN : Retired(r, failed)
<1>1. /\ r.seq \in Nat /\ r.failed \in BOOLEAN /\ r.waitsFlush \in BOOLEAN
      /\ IsScoreboard(board, MaxInflight)
  BY DEF TypeOK, NetType, Request, WorkerType
<1>2. CASE PollDone(r)
  <2>1. (r.failed \/ r.nic = "failed") \in BOOLEAN BY <1>1
  <2>2. PICK b \in BOOLEAN : b = (r.failed \/ r.nic = "failed") BY <2>1
  <2>3. Complete(board, r.seq, b, at) BY <1>2, <2>2 DEF PollDone
  <2>4. CompletedOne(board, r.seq, b) BY <1>1, <2>3, CompleteEffect
  <2>5. Retired(r, b)
    BY <1>1, <1>2, <2>2, <2>3, <2>4
       DEF Retired, PollDone, Tested, DataStage, Complete, netVars, gpuVars
  <2> QED BY <2>5
<1>3. CASE PollGetDone(r)
  <2>1. Complete(board, r.seq, r.failed, at) BY <1>3 DEF PollGetDone
  <2>2. CompletedOne(board, r.seq, r.failed) BY <1>1, <2>1, CompleteEffect
  <2>3. Retired(r, r.failed)
    BY <1>1, <1>3, <2>1, <2>2 DEF Retired, PollGetDone, Complete, gpuVars
  <2> QED BY <1>1, <2>3
<1> QED BY <1>2, <1>3

LEMMA ImmediateEffect ==
  ASSUME TypeOK, CountersAgree, Immediate
  PROVE  \E failed \in BOOLEAN : Skipped(failed)
<1>3. PICK b \in BOOLEAN :
        /\ Complete(Board, Sequence, b, IF b THEN "finish" ELSE "top")
        /\ failedOps' = IF b THEN failedOps \cup {Sequence} ELSE failedOps
        /\ at = "submit" /\ CanTrack /\ Consume
  BY DEF Immediate
<1>4. Sequence \in Nat /\ IsScoreboard(Board, MaxInflight) BY <1>3, BoardIs
<1>5. CompletedOne(Board, Sequence, b) BY <1>3, <1>4, CompleteEffect
<1>6. Skipped(b) BY <1>3, <1>5 DEF Skipped, Consume, Complete, Immediate, gpuVars
<1> QED BY <1>6

LEMMA RenewsSame ==
  ASSUME TypeOK, RequestsTracked, requests' = requests
  PROVE  Renews
BY DEF TypeOK, NetType, RequestsTracked, Renews, Same

LEMMA PollsEffect ==
  ASSUME TypeOK, RequestsTracked, DomainInv, PollStep
  PROVE  Polls
<1> USE DEF fifoVars, gpuVars, commVars, netVars
<1>1. /\ requests \in SUBSET Request /\ domain \in Domain
      /\ failedOps \in SUBSET Nat /\ covered \in SUBSET Nat /\ visible \in SUBSET Nat
      /\ \A r \in requests : r.seq \in Nat
  BY DEF TypeOK, NetType, Request
<1>2. ASSUME NEW r \in requests, PollGetData(r) PROVE Polls
  <2>1. PICK e : Waiting(e, r) /\ requests' = (requests \ {r}) \cup {e} BY <1>2, PollGetDataEffect
  <2>2. e \in Request /\ Same(e, r) BY <2>1 DEF Waiting
  <2>3. Renews BY <1>1, <2>1, <2>2, ReplaceRenews
  <2> QED BY <1>1, <1>2, <2>3 DEF PollGetData, Polls
<1>3. ASSUME NEW r \in requests, NicCompletes(r) PROVE Polls
  <2>1. PICK e : NicAnswer(e, r) /\ requests' = (requests \ {r}) \cup {e} BY <1>3, NicCompletesEffect
  <2>2. e \in Request /\ Same(e, r) BY <2>1 DEF NicAnswer
  <2>3. Renews BY <1>1, <2>1, <2>2, ReplaceRenews
  <2>4. failedOps' \in SUBSET Nat /\ \A q \in failedOps' : q \in failedOps \/ \E x \in requests : x.seq = q
    BY <1>1, <2>1 DEF NicAnswer
  <2> QED BY <1>1, <1>3, <2>3, <2>4 DEF NicCompletes, Polls
<1>4. CASE PollFlush
  <2>1. Renews BY <1>1, <1>4, RenewsSame, FailRenews DEF PollFlush
  <2>2. domain' \in Domain BY <1>4, PollFlushEffect DEF DomainGets
  <2>3. failedOps' \in SUBSET Nat /\ \A q \in failedOps' : q \in failedOps \/ \E x \in requests : x.seq = q
    BY <1>1, <1>4 DEF PollFlush, Gets
  <2> QED BY <1>1, <1>4, <2>1, <2>2, <2>3 DEF PollFlush, Polls
<1>5. CASE NicFlushes
  <2>1. Renews BY <1>5, RenewsSame DEF NicFlushes
  <2>2. domain' \in Domain /\ visible' \in SUBSET Nat BY <1>1, <1>5, NicFlushesEffect DEF DomainGets
  <2> QED BY <1>1, <1>5, <2>1, <2>2 DEF NicFlushes, Polls
<1>6. ASSUME NEW a, PostFlush(a) PROVE Polls
  <2>1. PICK target \in Nat : FlushOutcome(target) BY <1>6, PostFlushEffect
  <2>2. Renews BY <1>1, <2>1, RenewsSame, FailRenews DEF FlushOutcome
  <2>3. Landed \in SUBSET Nat BY <1>1 DEF Landed
  <2>4. domain' \in Domain /\ covered' \in SUBSET Nat /\ visible' \in SUBSET Nat
    BY <1>1, <2>1, <2>3 DEF FlushOutcome, DomainGets
  <2>5. failedOps' \in SUBSET Nat /\ \A q \in failedOps' : q \in failedOps \/ \E x \in requests : x.seq = q
    BY <1>1, <2>1 DEF FlushOutcome, Gets
  <2> QED BY <1>6, <2>2, <2>4, <2>5 DEF PostFlush, Polls
<1> QED BY <1>2, <1>3, <1>4, <1>5, <1>6 DEF PollStep

LEMMA MovesEffect ==
  ASSUME Advance \/ Look \/ Finish \/ GateWait \/ DrainEnd \/ Finalize
  PROVE  Moves
<1> USE DEF fifoVars, gpuVars, commVars, netVars, transportVars, Goto, Moves
<1>1. CASE Advance BY <1>1 DEF Advance
<1>2. CASE Look BY <1>2 DEF Look
<1>3. CASE Finish BY <1>3 DEF Finish, CloseGate
<1>4. CASE GateWait BY <1>4 DEF GateWait
<1>5. CASE DrainEnd BY <1>5 DEF DrainEnd, CloseGate, AllRetired
<1>6. CASE Finalize BY <1>6 DEF Finalize
<1> QED BY <1>1, <1>2, <1>3, <1>4, <1>5, <1>6

LEMMA HostEffect ==
  ASSUME OtherContextFails \/ Quiesce \/ QuiesceFindsError \/ Stop \/ UNCHANGED vars
  PROVE  HostMoves
BY DEF OtherContextFails, Quiesce, QuiesceFindsError, Stop, vars, HostMoves, fifoVars, gpuVars, commVars, netVars,
       transportVars, workVars

LEMMA Steps ==
  ASSUME TypeOK, TrackInv, DomainInv, [Next]_vars
  PROVE  \/ \E t \in Thread : GpuStep(t)
         \/ \E r \in requests, failed \in BOOLEAN : Retired(r, failed)
         \/ \E failed \in BOOLEAN : Skipped(failed)
         \/ \E failed, now \in BOOLEAN : Posted(failed, now) /\ NewRequest(failed, now) \in Request
         \/ TrackedOnly \/ (PollStep /\ Polls) \/ Moves \/ HostMoves
<1>1. RequestsTracked /\ (at = "submit" => CountersAgree) BY DEF TrackInv
<1>2. ASSUME NEW r \in requests, PollDone(r) \/ PollGetDone(r)
      PROVE  \E failed \in BOOLEAN : Retired(r, failed)
  BY <1>2, RetiredEffect
<1>3. PollStep => Polls BY <1>1, PollsEffect
<1>4. Advance \/ Look \/ Finish \/ GateWait \/ DrainEnd \/ Finalize => Moves BY MovesEffect
<1>5. Wait => TrackedOnly \/ Moves
  <2> SUFFICES ASSUME Wait PROVE TrackedOnly \/ Moves OBVIOUS
  <2> QED BY WaitEffect DEF Moves, fifoVars, gpuVars, commVars, netVars, transportVars
<1>6. Post => \/ \E failed, now \in BOOLEAN : Posted(failed, now) /\ NewRequest(failed, now) \in Request
              \/ TrackedOnly
  <2> SUFFICES ASSUME Post PROVE CountersAgree BY PostEffect
  <2> QED BY <1>1 DEF Post, Admitted
<1>7. Immediate => \E failed \in BOOLEAN : Skipped(failed)
  <2> SUFFICES ASSUME Immediate PROVE CountersAgree BY ImmediateEffect
  <2> QED BY <1>1 DEF Immediate
<1>8. OtherContextFails \/ Quiesce \/ QuiesceFindsError \/ Stop \/ UNCHANGED vars => HostMoves BY HostEffect
<1> QED
  <2>1. CASE WorkerStep BY <1>2, <1>3, <1>4, <1>5, <1>6, <1>7, <2>1 DEF WorkerStep, PollStep
  <2>2. CASE NicStep BY <1>3, <2>2 DEF NicStep, PollStep
  <2> QED BY <1>8, <2>1, <2>2 DEF Next, Done

-----------------------------------------------------------------------------
(* Types *)

LEMMA FlagsTyped ==
  ASSUME TypeOK, [Next]_vars
  PROVE  FlagType'
<1> USE DEF TypeOK, FlagType, NetType, Request, fifoVars, gpuVars, commVars, workVars, netVars
<1>1. ASSUME NEW r \in requests, PollDone(r) \/ PollGetDone(r) PROVE FlagType'
  <2>1. r.failed \in BOOLEAN OBVIOUS
  <2> QED BY <1>1, <2>1 DEF PollDone, PollGetDone, PublishTerminal
<1>2. ASSUME NEW r \in requests, PollGetData(r) \/ NicCompletes(r) PROVE FlagType'
  BY <1>2 DEF PollGetData, NicCompletes
<1>3. ASSUME NEW a, PostFlush(a) PROVE FlagType' BY <1>3 DEF PostFlush
<1>4. CASE PollFlush \/ NicFlushes BY <1>4 DEF PollFlush, NicFlushes
<1>5. CASE Advance \/ Wait \/ GateWait \/ Finalize BY <1>5 DEF Advance, Wait, GateWait, Finalize
<1>6. CASE Look BY <1>6 DEF Look
<1>7. CASE Post BY <1>7 DEF Post, PublishTerminal
<1>8. CASE Immediate BY <1>8 DEF Immediate, PublishTerminal
<1>9. CASE Finish \/ DrainEnd BY <1>9 DEF Finish, DrainEnd, CloseGate
<1>10. CASE OtherContextFails \/ Quiesce \/ QuiesceFindsError \/ Stop \/ UNCHANGED vars
  BY <1>10 DEF OtherContextFails, Quiesce, QuiesceFindsError, Stop, vars
<1>11. ASSUME NEW t \in Thread, GpuStep(t) PROVE FlagType'
  BY <1>11, GpuEffect DEF GpuFrame
<1> QED
  BY <1>1, <1>2, <1>3, <1>4, <1>5, <1>6, <1>7, <1>8, <1>9, <1>10, <1>11
     DEF Next, WorkerStep, NicStep, Done

LEMMA TypeInductive ==
  ASSUME TypeOK, TrackInv, DomainInv, [Next]_vars
  PROVE  TypeOK'
<1>0. FlagType' BY FlagsTyped
<1>t. FifoType /\ GpuType /\ WorkerType /\ NetType BY DEF TypeOK
<1>1. ASSUME NEW t \in Thread, GpuStep(t) PROVE TypeOK'
  <2>1. GpuFrame /\ GpuType' /\ produced' \in Nat BY <1>1, GpuEffect
  <2>2. FifoType' /\ WorkerType' /\ NetType'
    BY <1>t, <2>1 DEF GpuFrame, commVars, workVars, transportVars, netVars, FifoType, WorkerType,
                      NetType
  <2> QED BY <1>0, <2>1, <2>2 DEF TypeOK
<1>2. ASSUME NEW r \in requests, NEW failed \in BOOLEAN, Retired(r, failed) PROVE TypeOK'
  <2>1. r.seq \in Nat BY <1>t DEF NetType, Request
  <2>2. FifoType' BY <1>t, <1>2, <2>1 DEF FifoType, Retired, CompletedOne, gpuVars
  <2>3. GpuType' BY <1>t, <1>2, <2>1 DEF GpuType, Retired, CompletedOne, gpuVars
  <2>4. WorkerType' BY <1>t, <1>2, <2>1 DEF WorkerType, Retired, CompletedOne, gpuVars
  <2>5. NetType' BY <1>t, <1>2, <2>1 DEF NetType, Retired, CompletedOne, gpuVars
  <2> QED BY <1>0, <2>2, <2>3, <2>4, <2>5 DEF TypeOK
<1>3. ASSUME NEW failed \in BOOLEAN, Skipped(failed) PROVE TypeOK'
  <2>1. Sequence \in Nat BY <1>3, BoardIs DEF Skipped, TrackInv
  <2>2. FifoType' BY <1>t, <1>3, <2>1 DEF FifoType, Skipped, CompletedOne, gpuVars
  <2>3. GpuType' BY <1>t, <1>3, <2>1 DEF GpuType, Skipped, CompletedOne, gpuVars
  <2>4. WorkerType'
    <3>1. /\ at' = "advance" /\ back' \in {"top", "finish"} /\ tracked' = FALSE
          /\ nextSequence' = Sequence + 1 /\ owed' \in Nat /\ IsScoreboard(board', MaxInflight)
      BY <1>3 DEF Skipped, CompletedOne
    <3>2. tracked' \in BOOLEAN BY <1>3, Zenon DEF Skipped
    <3> QED BY <2>1, <3>1, <3>2 DEF WorkerType
  <2>5. NetType' BY <1>t, <1>3, <2>1 DEF NetType, Skipped, CompletedOne, gpuVars
  <2> QED BY <1>0, <2>2, <2>3, <2>4, <2>5 DEF TypeOK
<1>4. ASSUME NEW failed \in BOOLEAN, NEW now \in BOOLEAN, Posted(failed, now), NewRequest(failed, now) \in Request PROVE TypeOK'
  <2>1. Sequence \in Nat /\ IsScoreboard(Board, MaxInflight)
    BY <1>4, BoardIs DEF Posted, Admitted, TrackInv
  <2>2. FifoType' BY <1>t, <1>4, <2>1 DEF FifoType, Posted, gpuVars
  <2>3. GpuType' BY <1>t, <1>4, <2>1 DEF GpuType, Posted, gpuVars
  <2>4. WorkerType'
    <3>1. /\ at' = "top" /\ tracked' = FALSE /\ nextSequence' = Sequence + 1 /\ board' = Board
          /\ UNCHANGED <<back, owed>>
      BY <1>4 DEF Posted
    <3>2. tracked' \in BOOLEAN BY <1>4, Zenon DEF Posted
    <3> QED BY <1>t, <2>1, <3>1, <3>2 DEF WorkerType
  <2>5. NetType' BY <1>t, <1>4, <2>1 DEF NetType, Posted, gpuVars
  <2> QED BY <1>0, <2>2, <2>3, <2>4, <2>5 DEF TypeOK
<1>5. CASE TrackedOnly
  <2>1. Sequence \in Nat /\ IsScoreboard(Board, MaxInflight)
    BY <1>5, BoardIs DEF TrackedOnly, TrackInv
  <2>2. FifoType' BY <1>t, <1>5, <2>1 DEF FifoType, TrackedOnly, gpuVars
  <2>3. GpuType' BY <1>t, <1>5, <2>1 DEF GpuType, TrackedOnly, gpuVars
  <2>4. WorkerType' BY <1>t, <1>5, <2>1 DEF WorkerType, TrackedOnly, gpuVars
  <2>5. NetType' BY <1>t, <1>5, <2>1 DEF NetType, TrackedOnly, gpuVars
  <2> QED BY <1>0, <2>2, <2>3, <2>4, <2>5 DEF TypeOK
<1>6. CASE Polls
  <2>1. FifoType' BY <1>t, <1>6 DEF FifoType, Polls
  <2>2. GpuType' BY <1>t, <1>6 DEF GpuType, Polls, gpuVars
  <2>3. WorkerType' BY <1>t, <1>6 DEF WorkerType, Polls
  <2>4. NetType' BY <1>t, <1>6 DEF NetType, Polls, Renews
  <2> QED BY <1>0, <2>1, <2>2, <2>3, <2>4 DEF TypeOK
<1>7. CASE Moves
  <2>1. FifoType' BY <1>t, <1>7 DEF FifoType, WorkerType, Moves
  <2>2. GpuType' BY <1>t, <1>7 DEF GpuType, Moves, gpuVars, transportVars
  <2>3. WorkerType' BY <1>t, <1>7 DEF WorkerType, Moves, gpuVars, transportVars
  <2>4. NetType' BY <1>t, <1>7 DEF NetType, Moves, gpuVars, transportVars
  <2> QED BY <1>0, <2>1, <2>2, <2>3, <2>4 DEF TypeOK
<1>8. CASE HostMoves
  <2>1. FifoType' BY <1>t, <1>8 DEF FifoType, HostMoves, gpuVars, transportVars
  <2>2. GpuType' BY <1>t, <1>8 DEF GpuType, HostMoves, gpuVars, transportVars
  <2>3. WorkerType' BY <1>t, <1>8 DEF WorkerType, HostMoves, gpuVars, transportVars
  <2>4. NetType' BY <1>t, <1>8 DEF NetType, HostMoves, gpuVars, transportVars
  <2> QED BY <1>0, <2>1, <2>2, <2>3, <2>4 DEF TypeOK
<1> QED BY <1>1, <1>2, <1>3, <1>4, <1>5, <1>6, <1>7, <1>8, Steps

-----------------------------------------------------------------------------
(* Sequence numbers *)

LEMMA TrackByRetired ==
  ASSUME TypeOK, TrackInv, NEW r \in requests, NEW failed \in BOOLEAN, Retired(r, failed)
  PROVE  TrackInv'
<1>1. /\ consumed \in Nat /\ completed \in Nat /\ owed \in Nat
      /\ IsScoreboard(board, MaxInflight)
      /\ board.nextSequence \in Nat /\ \A e \in requests : e.seq \in Nat
  <2>1. IsScoreboard(board, MaxInflight) BY DEF TypeOK, WorkerType
  <2>2. board.nextSequence \in Nat BY <2>1, CapacityIs
  <2> QED BY <2>1, <2>2 DEF TypeOK, FifoType, WorkerType, NetType, Request
<1>2. /\ CompletedOne(board, r.seq, failed) /\ at \in {"top", "drain"} /\ at' = "advance"
      /\ requests' = requests \ {r}
      /\ UNCHANGED <<consumed, completed, flushed, tracked, nextSequence>>
  BY DEF Retired, gpuVars
<1>3. /\ CountersAgree /\ RequestsTracked /\ r.seq <= consumed /\ board.nextSequence <= r.seq
      /\ owed = 0
  BY <1>2 DEF TrackInv, RequestsTracked, CountersAgree
<1>4. /\ IsScoreboard(board', MaxInflight) /\ board'.nextSequence \in Nat
      /\ board.nextSequence <= board'.nextSequence
      /\ owed' = board'.nextSequence - board.nextSequence
  <2>1. IsScoreboard(board', MaxInflight) BY <1>2 DEF CompletedOne
  <2> QED BY <1>2, <2>1, CapacityIs DEF CompletedOne
<1>5. ASSUME NEW n \in Nat, Tracks(board, "pending", n), board.nextSequence <= n, n # r.seq
      PROVE  Tracks(board', "pending", n) /\ board'.nextSequence <= n
  BY <1>1, <1>2, <1>5, StillPending
<1>6. board'.nextSequence <= consumed + 1
  <2> SUFFICES ASSUME consumed + 1 < board'.nextSequence PROVE FALSE BY <1>1, <1>4
  <2>1. consumed + 1 \in Nat /\ board.nextSequence <= consumed + 1 /\ consumed + 1 # r.seq
    BY <1>1, <1>3 DEF CountersAgree
  <2>2. Tracks(board, "complete", consumed + 1) BY <1>2, <2>1 DEF CompletedOne
  <2> QED BY <1>1, <1>3, <2>1, <2>2 DEF CountersAgree
<1>7. tracked => Tracks(board', "pending", consumed + 1)
  BY <1>1, <1>3, <1>5 DEF CountersAgree
<1>8. ASSUME NEW n \in Nat, n >= board'.nextSequence, Tracks(board', "complete", n)
      PROVE  n <= consumed
  <2>1. Tracks(board, "complete", n) \/ n = r.seq BY <1>2, <1>8 DEF CompletedOne
  <2>2. n >= board.nextSequence BY <1>1, <1>4, <1>8
  <2> QED BY <1>3, <2>1, <2>2 DEF CountersAgree
<1>9. completed + owed' = board'.nextSequence - 1 BY <1>1, <1>3, <1>4 DEF CountersAgree
<1>10. CountersAgree' BY <1>2, <1>3, <1>6, <1>7, <1>8, <1>9 DEF CountersAgree
<1>11. RequestsTracked' BY <1>1, <1>2, <1>3, <1>5 DEF RequestsTracked
<1> QED BY <1>10, <1>11 DEF TrackInv

LEMMA TrackBySkipped ==
  ASSUME TypeOK, TrackInv, NEW failed \in BOOLEAN, Skipped(failed)
  PROVE  TrackInv'
<1>1. /\ consumed \in Nat /\ completed \in Nat /\ owed \in Nat
      /\ board.nextSequence \in Nat /\ \A e \in requests : e.seq \in Nat
  <2>1. IsScoreboard(board, MaxInflight) BY DEF TypeOK, WorkerType
  <2>2. board.nextSequence \in Nat BY <2>1, CapacityIs
  <2> QED BY <2>1, <2>2 DEF TypeOK, FifoType, WorkerType, NetType, Request
<1>2. /\ CompletedOne(Board, Sequence, failed) /\ at = "submit" /\ at' = "advance" /\ CanTrack
      /\ consumed' = consumed + 1 /\ tracked' = FALSE /\ nextSequence' = Sequence + 1
      /\ UNCHANGED <<completed, flushed, requests>>
  BY DEF Skipped, gpuVars
<1>3. CountersAgree /\ RequestsTracked /\ owed = 0 BY <1>2 DEF TrackInv, CountersAgree
<1>4. /\ Sequence = consumed + 1 /\ Sequence \in Nat /\ IsScoreboard(Board, MaxInflight)
      /\ Board.nextSequence = board.nextSequence
      /\ \A n \in Nat : Tracks(Board, "pending", n) <=> Tracks(board, "pending", n) \/ n = consumed + 1
      /\ \A n \in Nat : Tracks(Board, "complete", n) <=> Tracks(board, "complete", n)
  BY <1>2, <1>3, BoardIs
<1>5. /\ IsScoreboard(board', MaxInflight) /\ board'.nextSequence \in Nat
      /\ board.nextSequence <= board'.nextSequence
      /\ owed' = board'.nextSequence - board.nextSequence
  <2>1. IsScoreboard(board', MaxInflight) BY <1>2 DEF CompletedOne
  <2> QED BY <1>2, <1>4, <2>1, CapacityIs DEF CompletedOne
<1>6. ASSUME NEW n \in Nat, Tracks(board, "pending", n), board.nextSequence <= n, n # consumed + 1
      PROVE  Tracks(board', "pending", n) /\ board'.nextSequence <= n
  BY <1>2, <1>4, <1>6, StillPending
<1>7. board'.nextSequence <= consumed + 2
  <2> SUFFICES ASSUME consumed + 2 < board'.nextSequence PROVE FALSE BY <1>1, <1>5
  <2>1. /\ consumed + 2 \in Nat /\ Board.nextSequence <= consumed + 2 /\ consumed + 2 # Sequence
        /\ ~(consumed + 2 <= consumed)
    BY <1>1, <1>3, <1>4 DEF CountersAgree
  <2>2. Tracks(Board, "complete", consumed + 2) BY <1>2, <2>1 DEF CompletedOne
  <2>3. Tracks(board, "complete", consumed + 2) BY <1>4, <2>1, <2>2
  <2> QED BY <1>3, <1>4, <2>1, <2>3 DEF CountersAgree
<1>8. ASSUME NEW n \in Nat, n >= board'.nextSequence, Tracks(board', "complete", n)
      PROVE  n <= consumed + 1
  <2>1. Tracks(board, "complete", n) \/ n = consumed + 1 BY <1>2, <1>4, <1>8 DEF CompletedOne
  <2>2. n >= board.nextSequence BY <1>1, <1>5, <1>8
  <2> QED BY <1>1, <1>3, <2>1, <2>2 DEF CountersAgree
<1>9. completed + owed' = board'.nextSequence - 1 BY <1>1, <1>3, <1>5 DEF CountersAgree
<1>10. CountersAgree'
  <2>1. nextSequence' = consumed' + 1 /\ consumed' = consumed + 1 BY <1>1, <1>2, <1>4
  <2>2. board'.nextSequence <= consumed' + 1 BY <1>1, <1>2, <1>7
  <2> QED BY <1>2, <1>3, <1>8, <1>9, <2>1, <2>2 DEF CountersAgree
<1>11. RequestsTracked'
  <2>1. ASSUME NEW e \in requests PROVE Tracks(board', "pending", e.seq) /\ board'.nextSequence <= e.seq
    <3>1. e.seq \in Nat /\ e.seq # consumed + 1 BY <1>1, <1>3 DEF RequestsTracked
    <3> QED BY <1>3, <1>6, <3>1 DEF RequestsTracked
  <2>2. \A e \in requests : e.seq <= consumed + 1 BY <1>1, <1>3 DEF RequestsTracked
  <2> QED BY <1>2, <1>3, <2>1, <2>2 DEF RequestsTracked
<1> QED BY <1>10, <1>11 DEF TrackInv

\* A descriptor is tracked, and posted or kept.
LEMMA TrackByPosted ==
  ASSUME TypeOK, TrackInv, NEW failed \in BOOLEAN, NEW now \in BOOLEAN, Posted(failed, now), NewRequest(failed, now) \in Request
  PROVE  TrackInv'
<1>1. /\ consumed \in Nat /\ board.nextSequence \in Nat /\ \A e \in requests : e.seq \in Nat
  <2>1. board.nextSequence \in Nat BY CapacityIs DEF TypeOK, WorkerType
  <2> QED BY <2>1 DEF TypeOK, FifoType, NetType, Request
<1>2. /\ at = "submit" /\ CanTrack /\ at' = "top"
      /\ requests' = requests \cup {NewRequest(failed, now)}
      /\ consumed' = consumed + 1 /\ ~tracked' /\ nextSequence' = Sequence + 1
      /\ board' = Board /\ UNCHANGED <<completed, flushed, owed>>
  BY DEF Posted, Admitted, gpuVars
<1>3. CountersAgree /\ RequestsTracked BY <1>2 DEF TrackInv
<1>4. /\ Sequence = consumed + 1
      /\ board'.nextSequence = board.nextSequence
      /\ \A n \in Nat : Tracks(board', "pending", n) <=> Tracks(board, "pending", n) \/ n = consumed + 1
      /\ \A n \in Nat : Tracks(board', "complete", n) <=> Tracks(board, "complete", n)
  BY <1>2, <1>3, BoardIs
<1>5. NewRequest(failed, now).seq = consumed + 1 BY <1>4 DEF NewRequest
<1>6. CountersAgree' BY <1>1, <1>2, <1>3, <1>4 DEF CountersAgree
<1>7. RequestsTracked'
  <2>1. ASSUME NEW e \in requests'
        PROVE  /\ Tracks(board', "pending", e.seq)
               /\ board'.nextSequence <= e.seq /\ e.seq <= consumed'
    <3>1. CASE e \in requests
      BY <1>1, <1>2, <1>3, <1>4, <3>1 DEF RequestsTracked
    <3>2. CASE e = NewRequest(failed, now)
      BY <1>1, <1>2, <1>3, <1>4, <1>5, <3>2 DEF CountersAgree
    <3> QED BY <1>2, <3>1, <3>2
  <2>2. \A e \in requests : e.seq # consumed + 1 BY <1>1, <1>3 DEF RequestsTracked
  <2>3. \A r, e \in requests' : r.seq = e.seq => r = e
    BY <1>2, <1>3, <1>5, <2>2 DEF RequestsTracked
  <2> QED BY <1>2, <2>1, <2>3 DEF RequestsTracked
<1> QED BY <1>6, <1>7 DEF TrackInv

LEMMA TrackByTrackedOnly ==
  ASSUME TypeOK, TrackInv, TrackedOnly
  PROVE  TrackInv'
<1>1. /\ consumed \in Nat /\ board.nextSequence \in Nat /\ \A e \in requests : e.seq \in Nat
  <2>1. board.nextSequence \in Nat BY CapacityIs DEF TypeOK, WorkerType
  <2> QED BY <2>1 DEF TypeOK, FifoType, NetType, Request
<1>2. /\ at = "submit" /\ CanTrack /\ at' = "top" /\ tracked' /\ nextSequence' = Sequence + 1
      /\ board' = Board /\ UNCHANGED <<consumed, completed, flushed, owed, requests>>
  BY DEF TrackedOnly, gpuVars
<1>3. CountersAgree /\ RequestsTracked BY <1>2 DEF TrackInv
<1>4. /\ Sequence = consumed + 1
      /\ board'.nextSequence = board.nextSequence
      /\ \A n \in Nat : Tracks(board', "pending", n) <=> Tracks(board, "pending", n) \/ n = consumed + 1
      /\ \A n \in Nat : Tracks(board', "complete", n) <=> Tracks(board, "complete", n)
  BY <1>2, <1>3, BoardIs
<1>5. CountersAgree' BY <1>1, <1>2, <1>3, <1>4 DEF CountersAgree
<1>6. RequestsTracked' BY <1>1, <1>2, <1>3, <1>4 DEF RequestsTracked
<1> QED BY <1>5, <1>6 DEF TrackInv

LEMMA TrackByPolls ==
  ASSUME TrackInv, Polls
  PROVE  TrackInv'
<1>1. UNCHANGED <<at, tracked, nextSequence, board, consumed, completed, owed, flushed>> /\ Renews
  BY DEF Polls, gpuVars
<1>2. CountersAgree => CountersAgree' BY <1>1 DEF CountersAgree
<1>3. RequestsTracked' BY <1>1 DEF TrackInv, RequestsTracked, Renews, Same
<1> QED BY <1>1, <1>2, <1>3 DEF TrackInv

LEMMA TrackByMoves ==
  ASSUME TypeOK, TrackInv, QuiesceInv, Moves
  PROVE  TrackInv'
<1>1. /\ produced \in Nat /\ consumed \in Nat /\ completed \in Nat /\ owed \in Nat /\ consumed <= produced
      /\ board.nextSequence \in Nat /\ \A e \in requests : e.seq \in Nat
      /\ \A t \in Thread : flushed[t] \in Nat
      /\ back \in {"top", "finish", "drain"}
  <2>1. board.nextSequence \in Nat BY CapacityIs DEF TypeOK, WorkerType
  <2> QED BY <2>1 DEF TypeOK, FifoType, NetType, Request, WorkerType, GpuType, QuiesceInv
<1>2. UNCHANGED <<tracked, nextSequence, board, requests, flushed>>
  BY DEF Moves, transportVars, gpuVars
<1>3. ASSUME at' # "finished" PROVE CountersAgree'
  <2>1. /\ CountersAgree /\ consumed' = consumed
        /\ \/ completed' = completed + owed /\ owed' = 0
           \/ at # "advance" /\ UNCHANGED <<completed, owed>>
    BY <1>3 DEF Moves, TrackInv
  <2> QED BY <1>1, <1>2, <2>1 DEF CountersAgree
<1>4. RequestsTracked'
  <2>1. consumed <= consumed' BY <1>1 DEF Moves
  <2>2. consumed' \in Nat BY <1>1 DEF Moves
  <2>3. at' \in {"finalize", "finished"} => requests = {}
    BY <1>1 DEF Moves, TrackInv, RequestsTracked
  <2> QED BY <1>1, <1>2, <2>1, <2>2, <2>3 DEF TrackInv, RequestsTracked
<1> QED BY <1>3, <1>4 DEF TrackInv

LEMMA TrackByGpu ==
  ASSUME TypeOK, TrackInv, NEW t \in Thread, GpuStep(t)
  PROVE  TrackInv'
<1>1. /\ UNCHANGED <<at, tracked, nextSequence, board, consumed, completed, owed, requests>>
      /\ \A u \in Thread \ {t} : flushed'[u] = flushed[u]
      /\ flushed'[t] = flushed[t] \/ flushed'[t] <= completed
  BY GpuEffect DEF GpuFrame, workVars, transportVars
<1>2. CountersAgree => CountersAgree'
  <2> SUFFICES ASSUME CountersAgree PROVE CountersAgree' OBVIOUS
  <2>1. \A u \in Thread : flushed'[u] <= completed BY <1>1 DEF CountersAgree
  <2> QED BY <1>1, <2>1 DEF CountersAgree
<1> QED BY <1>1, <1>2 DEF TrackInv, RequestsTracked

LEMMA TrackInductive ==
  ASSUME TypeOK, TrackInv, QuiesceInv, DomainInv, [Next]_vars
  PROVE  TrackInv'
<1>1. HostMoves => TrackInv'
  BY DEF HostMoves, TrackInv, CountersAgree, RequestsTracked, gpuVars, transportVars
<1> QED
  BY <1>1, Steps, TrackByGpu, TrackByRetired, TrackBySkipped, TrackByPosted, TrackByTrackedOnly,
     TrackByPolls, TrackByMoves

-----------------------------------------------------------------------------
(* The quiesce *)

LEMMA QuiesceInductive ==
  ASSUME TypeOK, TrackInv, QuiesceInv, DomainInv, [Next]_vars
  PROVE  QuiesceInv'
<1>1. /\ produced \in Nat /\ consumed \in Nat /\ completed \in Nat /\ owed \in Nat
      /\ consumed <= produced
      /\ board.nextSequence \in Nat /\ \A e \in requests : e.seq \in Nat
      /\ back \in {"top", "finish", "drain"}
  <2>1. board.nextSequence \in Nat BY CapacityIs DEF TypeOK, WorkerType
  <2> QED BY <2>1 DEF TypeOK, FifoType, NetType, Request, WorkerType, QuiesceInv
<1>2. ASSUME NEW t \in Thread, GpuStep(t) PROVE QuiesceInv'
  <2>1. /\ UNCHANGED <<consumed, at, pending, tracked, requests, quiesce>>
        /\ produced' \in Nat /\ produced <= produced'
        /\ \A u \in Thread \ {t} : gpu'[u] = gpu[u] /\ op'[u] = op[u]
        /\ gpu'[t] # "call" => op'[t] = op[t]
        /\ gpu[t] # "call" \/ ~Ended(t)
    BY <1>2, GpuEffect DEF GpuFrame, workVars, transportVars, commVars
  <2>2. ~Ended(t) BY <2>1 DEF QuiesceInv
  <2>3. quiesce # "ok" BY <2>2 DEF QuiesceInv
  <2>4. \A u \in Thread : gpu'[u] # "call" => ~Ended(u)'
    <3> TAKE u \in Thread
    <3>1. CASE u = t BY <2>1, <2>2, <3>1 DEF Ended
    <3>2. CASE u # t BY <2>1, <3>2 DEF QuiesceInv, Ended
    <3> QED BY <3>1, <3>2
  <2>5. consumed' <= produced' /\ (at' # "finished" =>
           /\ pending' # Nothing => consumed' < produced'
           /\ tracked' \/ at' = "submit" => pending' # Nothing)
    BY <1>1, <2>1 DEF QuiesceInv
  <2> QED BY <2>1, <2>3, <2>4, <2>5 DEF QuiesceInv
<1>3. ASSUME UNCHANGED gpuVars PROVE \A t \in Thread : gpu'[t] # "call" => ~Ended(t)'
  BY <1>3 DEF gpuVars, QuiesceInv, Ended
<1>4. ASSUME UNCHANGED <<gpuVars, quiesce>>, quiesce' = "ok"
      PROVE  requests = {} /\ (at # "finished" => consumed = produced) /\ \A t \in Thread : Ended(t)'
  BY <1>4 DEF gpuVars, QuiesceInv, Ended
<1>5. ASSUME NEW r \in requests, NEW failed \in BOOLEAN, Retired(r, failed) PROVE QuiesceInv'
  <2>1. /\ at \in {"top", "drain"} /\ at' = "advance" /\ requests' \subseteq requests
        /\ UNCHANGED <<produced, consumed, gpuVars, quiesce, pending, tracked>>
    BY <1>5 DEF Retired
  <2> QED BY <1>3, <1>4, <2>1 DEF QuiesceInv
<1>6. ASSUME at = "submit" PROVE consumed < produced /\ quiesce # "ok"
  BY <1>1, <1>6 DEF QuiesceInv
<1>7. ASSUME NEW failed \in BOOLEAN, NEW now \in BOOLEAN, Skipped(failed) \/ Posted(failed, now) PROVE QuiesceInv'
  <2>1. /\ at = "submit" /\ consumed' = consumed + 1 /\ pending' = Nothing /\ ~tracked'
        /\ at' # "submit" /\ UNCHANGED <<produced, gpuVars, quiesce>>
    BY <1>7 DEF Skipped, Posted, Admitted
  <2> QED BY <1>1, <1>3, <1>6, <2>1 DEF QuiesceInv
<1>8. CASE TrackedOnly
  <2>1. /\ at = "submit" /\ at' = "top" /\ UNCHANGED <<produced, consumed, pending, gpuVars, quiesce>>
    BY <1>8 DEF TrackedOnly
  <2> QED BY <1>3, <1>6, <2>1 DEF QuiesceInv
<1>9. CASE Polls
  <2>1. UNCHANGED <<produced, consumed, gpuVars, quiesce, at, pending, tracked>> /\ Renews
    BY <1>9 DEF Polls
  <2>2. requests = {} => requests' = {} BY <2>1 DEF Renews
  <2> QED BY <1>3, <1>4, <2>1, <2>2 DEF QuiesceInv
<1>10. CASE Moves
  <2>1. UNCHANGED <<produced, gpuVars, quiesce, tracked, requests>>
    BY <1>10 DEF Moves, transportVars
  <2>2. consumed' <= produced BY <1>1, <1>10 DEF Moves
  <2>3. ASSUME at' # "finished"
        PROVE  /\ consumed' = consumed /\ at # "finished"
               /\ pending' # Nothing => consumed < produced
               /\ tracked \/ at' = "submit" => pending' # Nothing
    BY <1>1, <1>10, <2>3 DEF Moves, QuiesceInv
  <2> QED BY <1>3, <1>4, <2>1, <2>2, <2>3 DEF QuiesceInv
<1>11. CASE HostMoves
  <2>1. UNCHANGED <<produced, consumed, gpuVars, at, pending, tracked, requests>>
    BY <1>11 DEF HostMoves, transportVars
  <2>2. ASSUME quiesce' = "ok"
        PROVE  /\ requests = {} /\ (\A t \in Thread : Ended(t)')
               /\ at # "finished" => consumed = produced
    <3>1. CASE quiesce = "ok" BY <1>4, <2>1, <2>2, <3>1
    <3>2. CASE quiesce # "ok"
      <4>1. completed = produced /\ (\A t \in Thread : Ended(t)) BY <1>11, <2>2, <3>2 DEF HostMoves
      <4>2. \A t \in Thread : Ended(t)' BY <2>1, <4>1 DEF gpuVars, Ended
      <4>3. CASE at = "finished" BY <4>2, <4>3 DEF TrackInv, RequestsTracked
      <4>4. CASE at # "finished"
        <5>1. consumed = produced /\ board.nextSequence = consumed + 1
          BY <1>1, <4>1, <4>4 DEF TrackInv, CountersAgree
        <5>2. \A r \in requests : FALSE BY <1>1, <5>1 DEF TrackInv, RequestsTracked
        <5> QED BY <4>2, <5>1, <5>2
      <4> QED BY <4>3, <4>4
    <3> QED BY <3>1, <3>2
  <2> QED BY <1>3, <2>1, <2>2 DEF QuiesceInv
<1> QED BY <1>2, <1>5, <1>7, <1>8, <1>9, <1>10, <1>11, Steps

-----------------------------------------------------------------------------
(* Signals *)

\* A request in flight knows that its operation failed.
FailureKnown ==
  /\ \A r \in requests : r.seq \in failedOps => r.failed \/ r.nic = "failed"
  /\ \A r \in requests : (r.waitsFlush /\ r.nic = "failed") => r.failed

LEMMA FailedGets ==
  ASSUME requests \in SUBSET Request, RequestsTracked, FailureKnown, NEW lo, NEW hi,
         requests' = FailGets(lo, hi),
         failedOps' = failedOps \cup {r.seq : r \in Gets(lo, hi)}
  PROVE  FailureKnown'
<1>1. ASSUME NEW e \in requests'
      PROVE  /\ e.seq \in failedOps' => e.failed \/ e.nic = "failed"
             /\ (e.waitsFlush /\ e.nic = "failed") => e.failed
  <2>1. PICK r \in requests : e = Fail(r, lo, hi) BY FailRenews
  <2>2. /\ e.seq = r.seq /\ e.nic = r.nic /\ e.waitsFlush = r.waitsFlush
        /\ e.failed <=> r.failed \/ r.get \in lo .. hi
    BY <2>1, FailIs DEF Same
  <2>3. (e.waitsFlush /\ e.nic = "failed") => e.failed BY <2>2 DEF FailureKnown
  <2>4. ASSUME e.seq \in failedOps' PROVE e.failed \/ e.nic = "failed"
    <3>1. CASE r.seq \in failedOps BY <2>2, <3>1 DEF FailureKnown
    <3>2. CASE \E x \in Gets(lo, hi) : x.seq = r.seq
      BY <2>2, <3>2 DEF Gets, RequestsTracked
    <3> QED BY <2>2, <2>4, <3>1, <3>2
  <2> QED BY <2>3, <2>4
<1> QED BY <1>1 DEF FailureKnown

LEMMA FailureKnownByPolls ==
  ASSUME TypeOK, RequestsTracked, DomainInv, FailureKnown, PollStep
  PROVE  FailureKnown'
<1>1. requests \in SUBSET Request BY DEF TypeOK, NetType
<1>2. ASSUME NEW r \in requests, PollGetData(r) PROVE FailureKnown'
  <2>1. PICK e : Waiting(e, r) /\ requests' = (requests \ {r}) \cup {e} BY <1>2, PollGetDataEffect
  <2>2. failedOps' = failedOps BY <1>2 DEF PollGetData, netVars
  <2> QED BY <2>1, <2>2 DEF FailureKnown, Waiting, Same
<1>3. ASSUME NEW r \in requests, NicCompletes(r) PROVE FailureKnown'
  <2>1. PICK e : NicAnswer(e, r) /\ requests' = (requests \ {r}) \cup {e} BY <1>3, NicCompletesEffect
  <2>2. e.nic = "failed" \/ failedOps' = failedOps BY <2>1 DEF NicAnswer
  <2>3. failedOps' \subseteq failedOps \cup {r.seq} BY <2>1 DEF NicAnswer
  <2>4. ~r.waitsFlush BY <2>1 DEF NicAnswer, DomainInv, GetsKnown
  <2>5. e.seq = r.seq /\ ~e.waitsFlush /\ (r.failed => e.failed) /\ r.nic # "failed"
    BY <2>1, <2>4 DEF NicAnswer, Same
  <2>6. \A x \in requests \ {r} : x.seq # r.seq BY DEF RequestsTracked
  <2> QED BY <2>1, <2>2, <2>3, <2>5, <2>6 DEF FailureKnown
<1>4. CASE PollFlush
  <2>1. CASE domain.flush = "ok" BY <1>4, <2>1 DEF PollFlush, FailureKnown
  <2>2. CASE domain.flush # "ok" BY <1>1, <1>4, <2>2, FailedGets DEF PollFlush
  <2> QED BY <2>1, <2>2
<1>5. CASE NicFlushes BY <1>5 DEF NicFlushes, FailureKnown
<1>6. ASSUME NEW a, PostFlush(a) PROVE FailureKnown'
  <2>1. PICK target \in Nat : FlushOutcome(target) BY <1>6, PostFlushEffect
  <2>2. CASE UNCHANGED <<requests, failedOps>> BY <2>2 DEF FailureKnown
  <2>3. CASE ~UNCHANGED <<requests, failedOps>>
    <3>1. /\ requests' = FailGets(domain.visible + 1, target)
          /\ failedOps' = failedOps \cup {r.seq : r \in Gets(domain.visible + 1, target)}
      BY <2>1, <2>3 DEF FlushOutcome
    <3> QED BY <1>1, <3>1, FailedGets
  <2> QED BY <2>2, <2>3
<1> QED BY <1>2, <1>3, <1>4, <1>5, <1>6 DEF PollStep

LEMMA SignalByRetired ==
  ASSUME TypeOK, TrackInv, SignalInv, NEW r \in requests, NEW failed \in BOOLEAN,
         Retired(r, failed)
  PROVE  SignalInv'
<1>1. /\ IsScoreboard(board, MaxInflight) /\ board.nextSequence \in Nat
      /\ \A e \in requests : e.seq \in Nat
  <2>1. IsScoreboard(board, MaxInflight) BY DEF TypeOK, WorkerType
  <2> QED BY <2>1, CapacityIs DEF TypeOK, NetType, Request
<1>2. /\ CompletedOne(board, r.seq, failed) /\ requests' = requests \ {r}
      /\ failed <=> r.failed \/ (r.nic = "failed" /\ ~r.waitsFlush)
      /\ UNCHANGED <<failedOps, consumed>>
  BY DEF Retired
<1>3. RequestsTracked BY DEF TrackInv
<1>4. board'.firstError <=> board.firstError \/ failed BY <1>2 DEF CompletedOne
<1>5. ASSUME NEW e \in requests', e.kind = "signal" PROVE board'.nextSequence = e.seq
  <2>1. e \in requests /\ e.seq # r.seq /\ e.seq = board.nextSequence /\ e.seq \in Nat
    BY <1>1, <1>2, <1>3, <1>5 DEF RequestsTracked, SignalInv
  <2>2. board'.nextSequence <= e.seq BY <1>1, <1>2, <1>3, <2>1, StillPending DEF RequestsTracked
  <2>3. board.nextSequence <= board'.nextSequence BY <1>2 DEF CompletedOne
  <2>4. board'.nextSequence \in Nat BY <1>2, CapacityIs DEF CompletedOne
  <2> QED BY <1>1, <2>1, <2>2, <2>3, <2>4
<1>6. ASSUME NEW q \in failedOps PROVE board'.firstError \/ \E e \in requests' : e.seq = q
  <2>1. CASE q = r.seq
    <3>1. failed BY <1>2, <2>1 DEF SignalInv
    <3> QED BY <1>4, <3>1
  <2>2. CASE q # r.seq BY <1>2, <1>4, <2>2 DEF SignalInv
  <2> QED BY <2>1, <2>2
<1> QED BY <1>2, <1>5, <1>6 DEF SignalInv

LEMMA SignalBySkipped ==
  ASSUME TypeOK, TrackInv, SignalInv, NEW failed \in BOOLEAN, Skipped(failed)
  PROVE  SignalInv'
<1>1. /\ consumed \in Nat /\ board.nextSequence \in Nat /\ \A e \in requests : e.seq \in Nat
      /\ failedOps \in SUBSET Nat
  <2>1. board.nextSequence \in Nat BY CapacityIs DEF TypeOK, WorkerType
  <2> QED BY <2>1 DEF TypeOK, FifoType, NetType, Request
<1>2. /\ CompletedOne(Board, Sequence, failed) /\ at = "submit" /\ CanTrack
      /\ consumed' = consumed + 1 /\ requests' = requests
      /\ failedOps' = IF failed THEN failedOps \cup {Sequence} ELSE failedOps
  BY DEF Skipped
<1>3. CountersAgree /\ RequestsTracked BY <1>2 DEF TrackInv
<1>4. /\ Sequence = consumed + 1 /\ IsScoreboard(Board, MaxInflight)
      /\ Board.nextSequence = board.nextSequence /\ Board.firstError = board.firstError
      /\ \A n \in Nat : Tracks(Board, "pending", n) <=> Tracks(board, "pending", n) \/ n = consumed + 1
  BY <1>2, <1>3, BoardIs
<1>5. board'.firstError <=> board.firstError \/ failed BY <1>2, <1>4 DEF CompletedOne
<1>6. ASSUME NEW e \in requests, e.kind = "signal" PROVE board'.nextSequence = e.seq
  <2>1. e.seq # Sequence /\ e.seq = board.nextSequence /\ e.seq \in Nat
    BY <1>1, <1>3, <1>4, <1>6 DEF RequestsTracked, SignalInv
  <2>2. Tracks(Board, "pending", e.seq) BY <1>3, <1>4, <2>1 DEF RequestsTracked
  <2>3. board'.nextSequence <= e.seq BY <1>1, <1>2, <1>4, <2>1, <2>2, StillPending
  <2>4. board.nextSequence <= board'.nextSequence BY <1>2, <1>4 DEF CompletedOne
  <2>5. board'.nextSequence \in Nat BY <1>2, CapacityIs DEF CompletedOne
  <2> QED BY <1>1, <2>1, <2>3, <2>4, <2>5
<1>7. failedOps' \subseteq failedOps \cup {consumed + 1} /\ (consumed + 1 \in failedOps' => failed)
  BY <1>1, <1>2, <1>4 DEF SignalInv
<1>8. \A q \in failedOps' : board'.firstError \/ \E e \in requests : e.seq = q
  BY <1>5, <1>7 DEF SignalInv
<1>9. \A e \in requests : e.seq <= consumed /\ e.seq # consumed + 1
  BY <1>1, <1>3 DEF RequestsTracked
<1>10. \A e \in requests : e.kind = "signal" => \A q \in failedOps' : q >= e.seq
  BY <1>1, <1>7, <1>9 DEF SignalInv
<1>11. \A q \in failedOps' : q <= consumed' BY <1>1, <1>2, <1>7 DEF SignalInv
<1>12. \A e \in requests : e.seq \in failedOps' => e.failed \/ e.nic = "failed"
  BY <1>7, <1>9 DEF SignalInv
<1> QED BY <1>2, <1>6, <1>8, <1>10, <1>11, <1>12 DEF SignalInv

LEMMA SignalByPosted ==
  ASSUME TypeOK, TrackInv, SignalInv, NEW failed \in BOOLEAN, NEW now \in BOOLEAN, Posted(failed, now)
  PROVE  SignalInv'
<1> DEFINE r == NewRequest(failed, now)
<1>1. /\ consumed \in Nat /\ board.nextSequence \in Nat /\ \A e \in requests : e.seq \in Nat
      /\ failedOps \in SUBSET Nat
  <2>1. board.nextSequence \in Nat BY CapacityIs DEF TypeOK, WorkerType
  <2> QED BY <2>1 DEF TypeOK, FifoType, NetType, Request
<1>2. /\ Admitted /\ consumed' = consumed + 1 /\ requests' = requests \cup {r} /\ board' = Board
      /\ failedOps' = IF failed THEN failedOps \cup {Sequence} ELSE failedOps
  BY DEF Posted
<1>3. CountersAgree /\ RequestsTracked /\ CanTrack BY <1>2 DEF TrackInv, Admitted
<1>4. /\ Sequence = consumed + 1
      /\ Board.nextSequence = board.nextSequence /\ Board.firstError = board.firstError
  BY <1>3, BoardIs
<1>5. r.seq = consumed + 1 /\ r.kind = pending /\ r.failed = failed /\ r.nic # "failed"
  BY <1>4 DEF NewRequest
<1> HIDE DEF r
<1>6. r.kind = "signal" => board.nextSequence = consumed + 1 /\ ~board.firstError
  BY <1>2, <1>4, <1>5 DEF Admitted, Release, ReleaseReady
<1>7. failedOps' \subseteq failedOps \cup {consumed + 1} /\ (consumed + 1 \in failedOps' => failed)
  BY <1>1, <1>2, <1>4 DEF SignalInv
<1>8. \A e \in requests : e.seq <= consumed /\ e.seq # consumed + 1 /\ board.nextSequence <= e.seq
  BY <1>1, <1>3 DEF RequestsTracked
<1>9. ASSUME NEW e \in requests', e.kind = "signal"
      PROVE  board'.nextSequence = e.seq /\ \A q \in failedOps' : q >= e.seq
  <2>1. CASE e \in requests
    BY <1>1, <1>2, <1>4, <1>7, <1>8, <1>9, <2>1 DEF SignalInv
  <2>2. CASE e = r
    <3>1. board.nextSequence = consumed + 1 /\ ~board.firstError BY <1>6, <1>9, <2>2
    <3>2. \A q \in failedOps : q >= consumed + 1 BY <1>8, <3>1 DEF SignalInv
    <3> QED BY <1>1, <1>2, <1>4, <1>5, <1>7, <2>2, <3>1, <3>2
  <2> QED BY <1>2, <2>1, <2>2
<1>10. \A q \in failedOps' : board'.firstError \/ \E e \in requests' : e.seq = q
  BY <1>2, <1>4, <1>5, <1>7 DEF SignalInv
<1>11. \A q \in failedOps' : q <= consumed' BY <1>1, <1>2, <1>7 DEF SignalInv
<1>12. \A e \in requests' : e.seq \in failedOps' => e.failed \/ e.nic = "failed"
  BY <1>2, <1>5, <1>7, <1>8 DEF SignalInv
<1>13. \A e \in requests' : (e.waitsFlush /\ e.nic = "failed") => e.failed
  BY <1>2, <1>5 DEF SignalInv
<1> QED BY <1>9, <1>10, <1>11, <1>12, <1>13 DEF SignalInv

LEMMA SignalInductive ==
  ASSUME TypeOK, TrackInv, QuiesceInv, SignalInv, DomainInv, [Next]_vars
  PROVE  SignalInv'
<1>0. RequestsTracked /\ FailureKnown BY DEF TrackInv, SignalInv, FailureKnown
<1>1. ASSUME NEW t \in Thread, GpuStep(t) PROVE SignalInv'
  <2>1. UNCHANGED <<requests, board, failedOps, consumed>>
    BY <1>1, GpuEffect DEF GpuFrame, workVars, transportVars, netVars
  <2> QED BY <2>1 DEF SignalInv
<1>2. CASE TrackedOnly
  <2>1. /\ at = "submit" /\ CanTrack /\ board' = Board
        /\ UNCHANGED <<requests, failedOps, consumed>>
    BY <1>2 DEF TrackedOnly
  <2>2. CountersAgree BY <2>1 DEF TrackInv
  <2>3. board'.nextSequence = board.nextSequence /\ board'.firstError = board.firstError
    BY <2>1, <2>2, BoardIs
  <2> QED BY <2>1, <2>3 DEF SignalInv
<1>3. CASE PollStep /\ Polls
  <2>1. FailureKnown' BY <1>0, <1>3, FailureKnownByPolls
  <2>2. /\ Renews /\ UNCHANGED <<board, consumed>>
        /\ \A q \in failedOps' : q \in failedOps \/ \E r \in requests : r.seq = q
    BY <1>3 DEF Polls
  <2>3. \A e \in requests' : \E r \in requests : e.seq = r.seq /\ e.kind = r.kind
    BY <2>2 DEF Renews, Same
  <2>4. \A r \in requests : \E e \in requests' : e.seq = r.seq BY <2>2 DEF Renews, Same
  <2>5. \A r \in requests : board.nextSequence <= r.seq /\ r.seq <= consumed /\ r.seq \in Nat
    BY <1>0 DEF RequestsTracked, TypeOK, NetType, Request
  <2>6. board.nextSequence \in Nat BY CapacityIs DEF TypeOK, WorkerType
  <2>7. \A e \in requests' : e.kind = "signal" =>
          board'.nextSequence = e.seq /\ \A q \in failedOps' : q >= e.seq
    BY <2>2, <2>3, <2>5, <2>6 DEF SignalInv
  <2>8. \A q \in failedOps' : q <= consumed' BY <2>2, <2>5 DEF SignalInv
  <2>9. \A q \in failedOps' : board'.firstError \/ \E e \in requests' : e.seq = q
    BY <2>2, <2>4 DEF SignalInv
  <2> QED BY <2>1, <2>7, <2>8, <2>9 DEF SignalInv, FailureKnown
<1>4. CASE Moves
  <2>1. UNCHANGED <<requests, board, failedOps>> BY <1>4 DEF Moves, transportVars
  <2>2. consumed <= consumed' /\ consumed \in Nat /\ consumed' \in Nat
    BY <1>4 DEF Moves, TypeOK, FifoType, QuiesceInv
  <2>3. failedOps \in SUBSET Nat BY DEF TypeOK, NetType
  <2> QED BY <2>1, <2>2, <2>3 DEF SignalInv
<1>5. CASE HostMoves BY <1>5 DEF HostMoves, transportVars, SignalInv
<1> QED BY <1>1, <1>2, <1>3, <1>4, <1>5, Steps, SignalByRetired, SignalBySkipped, SignalByPosted

-----------------------------------------------------------------------------
(* The flush domain *)

LEMMA DomainTyped ==
  ASSUME TypeOK
  PROVE  /\ requests \in SUBSET Request /\ domain \in Domain
         /\ domain.issued \in Nat /\ domain.data \in Nat /\ domain.target \in Nat
         /\ domain.visible \in Nat
         /\ \A r \in requests : /\ r.get \in Nat /\ r.nic \in {"posted", "ok", "failed"}
                                /\ r.waitsFlush \in BOOLEAN /\ r.failed \in BOOLEAN
BY DEF TypeOK, NetType, Domain, Request

LEMMA DomainByRetired ==
  ASSUME TypeOK, DomainInv, NEW r \in requests, NEW failed \in BOOLEAN, Retired(r, failed)
  PROVE  DomainInv'
<1>1. /\ requests' = requests \ {r} /\ UNCHANGED <<domain, covered, visible>>
      /\ r.kind = "get" => r.waitsFlush /\ r.get <= domain.visible
      /\ r.failed => failed
      /\ \/ reported' = reported
         \/ r.waitsFlush /\ ~failed /\ reported' = reported \cup {r.seq}
  BY DEF Retired
<1>2. GetsKnown' BY <1>1 DEF DomainInv, GetsKnown
<1>3. r.get = 0 \/ (r.waitsFlush /\ r.get \in 1..domain.visible)
  BY <1>1, DomainTyped DEF DomainInv, GetsKnown
<1>4. FlushCovers'
  <2>1. r \notin Gets(domain.visible + 1, domain.target) BY <1>3, DomainTyped DEF Gets
  <2>2. requests' \subseteq requests BY <1>1
  <2>3. /\ Within(1, domain.visible, visible)'
        /\ domain'.flush = "posted" => Within(domain.visible + 1, domain.target, covered)'
        /\ domain'.flush = "ok" => Within(domain.visible + 1, domain.target, visible)'
    <3>1. Within(1, domain.visible, visible)'
      BY <1>1, <2>2 DEF DomainInv, FlushCovers, Within
    <3>2. domain'.flush = "posted" => Within(domain.visible + 1, domain.target, covered)'
      BY <1>1, <2>2 DEF DomainInv, FlushCovers, Within
    <3>3. domain'.flush = "ok" => Within(domain.visible + 1, domain.target, visible)'
      BY <1>1, <2>2 DEF DomainInv, FlushCovers, Within
    <3> QED BY <3>1, <3>2, <3>3
  <2>4. (domain'.flush = "none" /\ domain'.target > domain'.visible) =>
          \E e \in Gets(domain.visible + 1, domain.target)' : ~e.failed
    BY <1>1, <2>1 DEF DomainInv, FlushCovers, Gets
  <2> QED BY <2>3, <2>4 DEF FlushCovers
<1>5. reported' \subseteq visible'
  <2>1. CASE reported' = reported BY <1>1, <2>1 DEF DomainInv
  <2>2. CASE reported' # reported
    <3>1. r.waitsFlush /\ ~r.failed /\ r.get # 0 BY <1>1, <2>2 DEF DomainInv, GetsKnown
    <3>2. r.seq \in visible BY <1>3, <3>1 DEF DomainInv, FlushCovers, Within
    <3> QED BY <1>1, <3>2 DEF DomainInv
  <2> QED BY <2>1, <2>2
<1> QED BY <1>2, <1>4, <1>5 DEF DomainInv

LEMMA DomainByPosted ==
  ASSUME TypeOK, DomainInv, NEW failed \in BOOLEAN, NEW now \in BOOLEAN, Posted(failed, now), NewRequest(failed, now) \in Request
  PROVE  DomainInv'
<1> DEFINE r == NewRequest(failed, now)
<1>1. /\ requests' = requests \cup {r}
      /\ domain'.issued = domain.issued + (IF pending = "get" THEN 1 ELSE 0)
      /\ domain'.data = domain.data /\ domain'.target = domain.target
      /\ domain'.visible = domain.visible /\ domain'.flush = domain.flush
      /\ UNCHANGED <<covered, visible, reported>>
  BY DEF Posted
<1>2. /\ r.kind = pending
      /\ r.waitsFlush => pending = "get" /\ r.nic = "ok"
      /\ r.get = IF pending = "get" THEN domain.issued + 1 ELSE 0
  BY DEF NewRequest, Posted
<1> HIDE DEF r
<1>3. /\ domain.visible <= domain.target /\ domain.target <= domain.data
      /\ domain.data <= domain.issued
  BY DEF DomainInv, GetsKnown
<1>4. r.get \notin 1..domain.data /\ (\A e \in requests : e.get # 0 => e.get # r.get)
  BY <1>2, <1>3, DomainTyped DEF DomainInv, GetsKnown
<1>5. GetsKnown'
  <2>1. ASSUME NEW e \in requests'
        PROVE  /\ (e.get # 0) <=> (e.kind = "get")
               /\ e.get <= domain'.issued
               /\ e.waitsFlush => e.get # 0 /\ e.nic # "posted"
               /\ (e.waitsFlush /\ ~e.failed) => e.nic = "ok"
               /\ e.get \in 1..domain'.data => e.waitsFlush
    <3>1. CASE e \in requests BY <1>1, <3>1, DomainTyped DEF DomainInv, GetsKnown
    <3>2. CASE e = r BY <1>1, <1>2, <1>4, <3>2, DomainTyped
    <3> QED BY <1>1, <3>1, <3>2
  <2>2. \A x, e \in requests' : (x.get # 0 /\ x.get = e.get) => x = e
    BY <1>1, <1>4 DEF DomainInv, GetsKnown
  <2>3. domain'.data <= domain'.issued BY <1>1, <1>3, DomainTyped
  <2> QED BY <1>1, <1>3, <2>1, <2>2, <2>3 DEF GetsKnown
<1>6. ASSUME NEW lo \in Nat, NEW hi \in Nat, NEW S, lo >= 1, hi <= domain.data,
             Within(lo, hi, S)
      PROVE  \A e \in requests' : (e.get \in lo..hi /\ ~e.failed) => e.seq \in S
  <2>1. r.get \notin lo..hi BY <1>4, <1>6, DomainTyped
  <2> QED BY <1>1, <1>6, <2>1 DEF Within
<1>7. FlushCovers'
  <2>a. /\ 1 \in Nat /\ domain.visible \in Nat /\ domain.visible + 1 \in Nat /\ domain.target \in Nat
        /\ domain.visible + 1 >= 1 /\ domain.visible <= domain.data /\ domain.target <= domain.data
    BY <1>3, DomainTyped
  <2>b. /\ Within(1, domain.visible, visible)
        /\ domain.flush = "posted" => Within(domain.visible + 1, domain.target, covered)
        /\ domain.flush = "ok" => Within(domain.visible + 1, domain.target, visible)
    BY DEF DomainInv, FlushCovers
  <2>1. Within(1, domain.visible, visible)'
    <3>1. \A e \in requests' : (e.get \in 1..domain.visible /\ ~e.failed) => e.seq \in visible
      BY <1>6, <2>a, <2>b
    <3> QED BY <1>1, <3>1 DEF Within
  <2>2. domain'.flush = "posted" => Within(domain.visible + 1, domain.target, covered)'
    <3>1. SUFFICES ASSUME domain'.flush = "posted"
                   PROVE  Within(domain.visible + 1, domain.target, covered)'
      OBVIOUS
    <3>2. Within(domain.visible + 1, domain.target, covered) BY <1>1, <2>b, <3>1
    <3>3. \A e \in requests' :
            (e.get \in domain.visible + 1..domain.target /\ ~e.failed) => e.seq \in covered
      BY <1>6, <2>a, <3>2
    <3> QED BY <1>1, <3>3 DEF Within
  <2>3. domain'.flush = "ok" => Within(domain.visible + 1, domain.target, visible)'
    <3>1. SUFFICES ASSUME domain'.flush = "ok"
                   PROVE  Within(domain.visible + 1, domain.target, visible)'
      OBVIOUS
    <3>2. Within(domain.visible + 1, domain.target, visible) BY <1>1, <2>b, <3>1
    <3>3. \A e \in requests' :
            (e.get \in domain.visible + 1..domain.target /\ ~e.failed) => e.seq \in visible
      BY <1>6, <2>a, <3>2
    <3> QED BY <1>1, <3>3 DEF Within
  <2>4. (domain'.flush = "none" /\ domain'.target > domain'.visible) =>
          \E e \in Gets(domain.visible + 1, domain.target)' : ~e.failed
    BY <1>1 DEF DomainInv, FlushCovers, Gets
  <2> QED BY <2>1, <2>2, <2>3, <2>4 DEF FlushCovers
<1> QED BY <1>1, <1>5, <1>7 DEF DomainInv

\* A request outside the prefix is replaced.
LEMMA DomainByReplace ==
  ASSUME TypeOK, DomainInv, NEW r \in requests, NEW e \in Request, Same(e, r),
         requests' = (requests \ {r}) \cup {e},
         UNCHANGED <<domain, covered, visible, reported>>,
         ~r.waitsFlush,
         e.waitsFlush => e.get # 0 /\ e.nic # "posted" /\ (~e.failed => e.nic = "ok")
  PROVE  DomainInv'
<1>1. r.get \notin 1..domain.data /\ e.get = r.get /\ e.kind = r.kind
  BY DEF DomainInv, GetsKnown, Same
<1>2. GetsKnown' BY <1>1 DEF DomainInv, GetsKnown
<1>3. /\ domain.visible <= domain.target /\ domain.target <= domain.data
  BY DEF DomainInv, GetsKnown
<1>4. ASSUME NEW lo \in Nat, NEW hi \in Nat, NEW S, lo >= 1, hi <= domain.data,
             Within(lo, hi, S)
      PROVE  \A x \in requests' : (x.get \in lo..hi /\ ~x.failed) => x.seq \in S
  <2>1. e.get \notin lo..hi BY <1>1, <1>4, DomainTyped
  <2> QED BY <1>4, <2>1 DEF Within
<1>5. FlushCovers'
  <2>1. Within(1, domain.visible, visible)'
    <3>1. domain.visible \in Nat /\ domain.visible <= domain.data BY <1>3, DomainTyped
    <3>2. \A x \in requests' : (x.get \in 1..domain.visible /\ ~x.failed) => x.seq \in visible
      BY <1>4, <3>1 DEF DomainInv, FlushCovers
    <3> QED BY <3>2 DEF Within
  <2>2. domain'.flush = "posted" => Within(domain.visible + 1, domain.target, covered)'
    <3>1. domain.target \in Nat /\ domain.visible + 1 \in Nat /\ domain.visible + 1 >= 1
      BY DomainTyped
    <3>2. domain.flush = "posted" => \A x \in requests' :
            (x.get \in domain.visible + 1 .. domain.target /\ ~x.failed) => x.seq \in covered
      BY <1>3, <1>4, <3>1 DEF DomainInv, FlushCovers
    <3> QED BY <3>2 DEF Within
  <2>3. domain'.flush = "ok" => Within(domain.visible + 1, domain.target, visible)'
    <3>1. domain.target \in Nat /\ domain.visible + 1 \in Nat /\ domain.visible + 1 >= 1
      BY DomainTyped
    <3>2. domain.flush = "ok" => \A x \in requests' :
            (x.get \in domain.visible + 1 .. domain.target /\ ~x.failed) => x.seq \in visible
      BY <1>3, <1>4, <3>1 DEF DomainInv, FlushCovers
    <3> QED BY <3>2 DEF Within
  <2>4. (domain'.flush = "none" /\ domain'.target > domain'.visible) =>
          \E x \in Gets(domain.visible + 1, domain.target)' : ~x.failed
    <3>1. r \notin Gets(domain.visible + 1, domain.target) BY <1>1, <1>3, DomainTyped DEF Gets
    <3> QED BY <3>1 DEF DomainInv, FlushCovers, Gets
  <2> QED BY <2>1, <2>2, <2>3, <2>4 DEF FlushCovers
<1> QED BY <1>2, <1>5 DEF DomainInv

\* The GETs of a range are failed, and the range passes for visible.
LEMMA DomainByFailing ==
  ASSUME TypeOK, RequestsTracked, DomainInv, NEW data \in Nat, NEW target \in Nat,
         domain.visible <= target, target <= data, data <= domain.issued,
         \A r \in requests : r.get \in 1..data => r.waitsFlush,
         requests' = FailGets(domain.visible + 1, target),
         DomainGets(domain', data, target, target, "none"),
         UNCHANGED <<visible, reported>>
  PROVE  DomainInv'
<1>1. /\ domain'.issued = domain.issued /\ domain'.data = data /\ domain'.target = target
      /\ domain'.visible = target /\ domain'.flush = "none"
  BY DEF DomainGets
<1>2. ASSUME NEW e \in requests'
      PROVE  \E r \in requests :
               /\ Same(e, r) /\ e.nic = r.nic /\ e.waitsFlush = r.waitsFlush
               /\ e.failed <=> r.failed \/ r.get \in domain.visible + 1 .. target
               /\ e = Fail(r, domain.visible + 1, target)
  <2>1. PICK r \in requests : e = Fail(r, domain.visible + 1, target) BY FailRenews, DomainTyped
  <2>2. r \in Request BY DomainTyped
  <2> QED BY <2>1, <2>2, FailIs
<1>3. GetsKnown'
  <2>1. ASSUME NEW e \in requests'
        PROVE  /\ (e.get # 0) <=> (e.kind = "get")
               /\ e.get <= domain.issued
               /\ e.waitsFlush => e.get # 0 /\ e.nic # "posted"
               /\ (e.waitsFlush /\ ~e.failed) => e.nic = "ok"
               /\ e.get \in 1..data => e.waitsFlush
    <3>1. PICK r \in requests :
               /\ e.get = r.get /\ e.kind = r.kind /\ e.nic = r.nic /\ e.waitsFlush = r.waitsFlush
               /\ r.failed => e.failed
      BY <1>2 DEF Same
    <3> QED BY <3>1 DEF DomainInv, GetsKnown
  <2>2. ASSUME NEW x \in requests', NEW e \in requests', x.get # 0, x.get = e.get PROVE x = e
    <3>1. PICK r \in requests : x.get = r.get /\ x = Fail(r, domain.visible + 1, target)
      BY <1>2 DEF Same
    <3>2. PICK q \in requests : e.get = q.get /\ e = Fail(q, domain.visible + 1, target)
      BY <1>2 DEF Same
    <3>3. r = q BY <2>2, <3>1, <3>2 DEF DomainInv, GetsKnown
    <3> QED BY <3>1, <3>2, <3>3
  <2> QED BY <1>1, <2>1, <2>2 DEF GetsKnown
<1>4. \A e \in requests' : (e.get \in 1..target /\ ~e.failed) => e.seq \in visible
  <2> SUFFICES ASSUME NEW e \in requests', e.get \in 1..target, ~e.failed PROVE e.seq \in visible
    OBVIOUS
  <2>1. PICK r \in requests :
               /\ e.get = r.get /\ e.seq = r.seq
               /\ ~r.failed /\ r.get \notin domain.visible + 1 .. target
    BY <1>2 DEF Same
  <2>2. r.get \in 1..domain.visible BY <2>1, DomainTyped
  <2> QED BY <2>1, <2>2 DEF DomainInv, FlushCovers, Within
<1>5. FlushCovers' BY <1>1, <1>4 DEF FlushCovers, Within
<1> QED BY <1>3, <1>5 DEF DomainInv

\* The requests stay, and the counters of the domain advance.
LEMMA DomainByCounters ==
  ASSUME TypeOK, DomainInv, NEW data \in Nat, NEW target \in Nat, NEW seen \in Nat, NEW flush,
         seen <= target, target <= data, data <= domain.issued,
         \A r \in requests : r.get \in 1..data => r.waitsFlush,
         DomainGets(domain', data, target, seen, flush),
         Within(1, seen, visible'),
         flush = "posted" => Within(seen + 1, target, covered'),
         flush = "ok" => Within(seen + 1, target, visible'),
         (flush = "none" /\ target > seen) => \E r \in Gets(seen + 1, target) : ~r.failed,
         visible \subseteq visible', UNCHANGED <<requests, reported>>
  PROVE  DomainInv'
<1>1. /\ domain'.issued = domain.issued /\ domain'.data = data /\ domain'.target = target
      /\ domain'.visible = seen /\ domain'.flush = flush
  BY DEF DomainGets
<1>2. GetsKnown' BY <1>1 DEF DomainInv, GetsKnown
<1>3. FlushCovers'
  <2>1. Within(1, domain.visible, visible)' BY <1>1 DEF Within
  <2>2. domain'.flush = "posted" => Within(domain.visible + 1, domain.target, covered)'
    BY <1>1 DEF Within
  <2>3. domain'.flush = "ok" => Within(domain.visible + 1, domain.target, visible)'
    BY <1>1 DEF Within
  <2>4. (domain'.flush = "none" /\ domain'.target > domain'.visible) =>
          \E e \in Gets(domain.visible + 1, domain.target)' : ~e.failed
    BY <1>1 DEF Gets
  <2> QED BY <2>1, <2>2, <2>3, <2>4 DEF FlushCovers
<1>4. reported' \subseteq visible' BY DEF DomainInv
<1> QED BY <1>2, <1>3, <1>4 DEF DomainInv

LEMMA WithinGrows ==
  ASSUME NEW lo, NEW hi, NEW S, NEW T, Within(lo, hi, S), S \subseteq T
  PROVE  Within(lo, hi, T)
BY DEF Within

\* What is visible and what the flush covers make up the range up to its target.
LEMMA WithinJoins ==
  ASSUME TypeOK, NEW mid \in Nat, NEW hi \in Nat, NEW S, Within(1, mid, S), Within(mid + 1, hi, S)
  PROVE  Within(1, hi, S)
<1> SUFFICES ASSUME NEW r \in requests, r.get \in 1..hi, ~r.failed PROVE r.seq \in S BY DEF Within
<1>1. r.get \in 1..mid \/ r.get \in mid + 1 .. hi BY DomainTyped
<1> QED BY <1>1 DEF Within

LEMMA DomainByPolls ==
  ASSUME TypeOK, RequestsTracked, DomainInv, PollStep
  PROVE  DomainInv'
<1>1. /\ domain.visible <= domain.target /\ domain.target <= domain.data
      /\ domain.data <= domain.issued
      /\ \A r \in requests : r.get \in 1..domain.data => r.waitsFlush
  BY DEF DomainInv, GetsKnown
<1>2. ASSUME NEW r \in requests, PollGetData(r) PROVE DomainInv'
  <2>1. PICK e : Waiting(e, r) /\ requests' = (requests \ {r}) \cup {e} BY <1>2, PollGetDataEffect
  <2>2. /\ ~r.waitsFlush /\ r.nic # "posted" /\ r.kind = "get"
        /\ UNCHANGED <<domain, covered, visible, reported>>
    BY <1>2 DEF PollGetData, Tested, DataStage, netVars
  <2>3. r.get # 0 /\ r.nic \in {"ok", "failed"} BY <2>2, DomainTyped DEF DomainInv, GetsKnown
  <2>4. /\ e \in Request /\ Same(e, r) /\ e.get # 0 /\ e.nic # "posted"
        /\ ~e.failed => e.nic = "ok"
    BY <2>1, <2>2, <2>3 DEF Waiting, Same
  <2> QED BY <2>1, <2>2, <2>4, DomainByReplace
<1>3. ASSUME NEW r \in requests, NicCompletes(r) PROVE DomainInv'
  <2>1. PICK e : NicAnswer(e, r) /\ requests' = (requests \ {r}) \cup {e} BY <1>3, NicCompletesEffect
  <2>2. UNCHANGED <<domain, covered, visible, reported>> BY <1>3 DEF NicCompletes
  <2>3. ~r.waitsFlush BY <2>1 DEF NicAnswer, DomainInv, GetsKnown
  <2>4. e \in Request /\ Same(e, r) /\ ~e.waitsFlush BY <2>1, <2>3 DEF NicAnswer
  <2> QED BY <2>1, <2>2, <2>3, <2>4, DomainByReplace
<1>4. CASE PollFlush
  <2>1. /\ DomainGets(domain', domain.data, domain.target, domain.target, "none")
        /\ UNCHANGED <<visible, reported>> /\ domain.flush \in {"ok", "failed"}
    BY <1>4, PollFlushEffect DEF PollFlush
  <2>2. CASE domain.flush = "ok"
    <3>1. requests' = requests BY <1>4, <2>2 DEF PollFlush
    <3>2. /\ Within(1, domain.visible, visible)
          /\ Within(domain.visible + 1, domain.target, visible)
      BY <2>2 DEF DomainInv, FlushCovers
    <3>3. Within(1, domain.target, visible) BY <3>2, WithinJoins, DomainTyped
    <3>4. ~(domain.target > domain.target) BY DomainTyped
    <3> QED BY <1>1, <2>1, <3>1, <3>3, <3>4, DomainByCounters, DomainTyped
  <2>3. CASE domain.flush = "failed"
    <3>1. requests' = FailGets(domain.visible + 1, domain.target) BY <1>4, <2>3 DEF PollFlush
    <3> QED BY <1>1, <2>1, <3>1, DomainByFailing, DomainTyped
  <2> QED BY <2>1, <2>2, <2>3
<1>5. CASE NicFlushes
  <2>1. UNCHANGED <<requests, covered, reported>> BY <1>5 DEF NicFlushes
  <2>2. PICK f \in {"ok", "failed"} :
           /\ DomainGets(domain', domain.data, domain.target, domain.visible, f)
           /\ visible' = IF f = "ok" THEN visible \cup covered ELSE visible
    BY <1>5, NicFlushesEffect
  <2>3. /\ Within(1, domain.visible, visible)
        /\ Within(domain.visible + 1, domain.target, covered)
    BY <1>5, NicFlushesEffect DEF DomainInv, FlushCovers
  <2>4. visible \subseteq visible' /\ (f = "ok" => covered \subseteq visible') BY <2>2
  <2>5. /\ Within(1, domain.visible, visible')
        /\ f = "ok" => Within(domain.visible + 1, domain.target, visible')
    BY <2>3, <2>4, WithinGrows
  <2> QED BY <1>1, <2>1, <2>2, <2>4, <2>5, DomainByCounters, DomainTyped
<1>6. ASSUME NEW a, PostFlush(a) PROVE DomainInv'
  <2>1. PICK target \in Nat :
           domain.visible <= target /\ target <= DataPrefix /\ FlushOutcome(target)
    BY <1>6, PostFlushEffect
  <2>2. /\ DataPrefix \in Nat /\ domain.data <= DataPrefix /\ DataPrefix <= domain.issued
        /\ \A k \in domain.data + 1 .. DataPrefix : \E r \in Gets(k, k) : r.waitsFlush
    BY DataPrefixIs, DomainTyped
  <2>3. \A r \in requests : r.get \in 1..DataPrefix => r.waitsFlush
    <3> SUFFICES ASSUME NEW r \in requests, r.get \in 1..DataPrefix PROVE r.waitsFlush OBVIOUS
    <3>1. CASE r.get \in 1..domain.data BY <1>1, <3>1
    <3>2. CASE r.get \in domain.data + 1 .. DataPrefix
      <4>1. PICK x \in Gets(r.get, r.get) : x.waitsFlush BY <2>2, <3>2
      <4>2. x \in requests /\ x.get = r.get /\ r.get # 0 BY <4>1, DomainTyped DEF Gets
      <4>3. x = r BY <4>2 DEF DomainInv, GetsKnown
      <4> QED BY <4>1, <4>3
    <3> QED BY <2>2, <3>1, <3>2, DomainTyped
  <2>4. reported' = reported BY <1>6 DEF PostFlush
  <2>5. Within(1, domain.visible, visible) BY DEF DomainInv, FlushCovers
  <2>6. Within(domain.visible + 1, target, Landed)
    <3> SUFFICES ASSUME NEW r \in requests, r.get \in domain.visible + 1 .. target, ~r.failed
                 PROVE  r.seq \in Landed
      BY DEF Within
    <3>1. r.get \in 1..DataPrefix /\ r.get # 0 BY <2>1, <2>2, DomainTyped
    <3>2. r.nic = "ok" BY <2>3, <3>1 DEF DomainInv, GetsKnown
    <3> QED BY <3>1, <3>2 DEF Landed
  <2>7. ~(target > target) BY <2>1
  <2>8. CASE /\ ToFlush(target) = {} /\ target = DataPrefix
             /\ DomainGets(domain', DataPrefix, target, target, "none")
             /\ UNCHANGED <<requests, failedOps, covered, visible>>
    <3>1. Within(domain.visible + 1, target, visible) BY <2>8 DEF ToFlush, Gets, Within
    <3>2. Within(1, target, visible) BY <2>5, <3>1, WithinJoins, DomainTyped
    <3>3. Within(1, target, visible') BY <2>8, <3>2
    <3> QED BY <2>1, <2>2, <2>3, <2>4, <2>7, <2>8, <3>3, DomainByCounters
  <2>9. CASE /\ DomainGets(domain', DataPrefix, target, domain.visible, "posted")
             /\ covered' = Landed /\ UNCHANGED <<requests, failedOps, visible>>
    BY <2>1, <2>2, <2>3, <2>4, <2>5, <2>6, <2>9, DomainByCounters, DomainTyped
  <2>10. CASE /\ DomainGets(domain', DataPrefix, target, target, "none")
              /\ visible' = visible \cup Landed /\ UNCHANGED <<requests, failedOps, covered>>
    <3>1. Within(1, domain.visible, visible') /\ Within(domain.visible + 1, target, visible')
      BY <2>5, <2>6, <2>10, WithinGrows
    <3>2. Within(1, target, visible') BY <3>1, WithinJoins, DomainTyped
    <3>3. visible \subseteq visible' BY <2>10
    <3>4. DomainGets(domain', DataPrefix, target, target, "none") /\ UNCHANGED requests BY <2>10
    <3> QED BY <2>1, <2>2, <2>3, <2>4, <2>7, <3>2, <3>3, <3>4, DomainByCounters
  <2>11. CASE /\ ToFlush(target) # {}
              /\ DomainGets(domain', DataPrefix, target, domain.visible, "none")
              /\ UNCHANGED <<requests, failedOps, covered, visible>>
    <3>1. \E r \in Gets(domain.visible + 1, target) : ~r.failed BY <2>11 DEF ToFlush
    <3> QED BY <2>1, <2>2, <2>3, <2>4, <2>5, <2>11, <3>1, DomainByCounters, DomainTyped
  <2>12. CASE /\ DomainGets(domain', DataPrefix, target, target, "none")
              /\ requests' = FailGets(domain.visible + 1, target)
              /\ failedOps' = failedOps \cup {r.seq : r \in Gets(domain.visible + 1, target)}
              /\ UNCHANGED <<covered, visible>>
    BY <2>1, <2>2, <2>3, <2>4, <2>12, DomainByFailing
  <2> QED BY <2>1, <2>8, <2>9, <2>10, <2>11, <2>12 DEF FlushOutcome
<1> QED BY <1>2, <1>3, <1>4, <1>5, <1>6 DEF PollStep

LEMMA DomainInductive ==
  ASSUME TypeOK, TrackInv, DomainInv, [Next]_vars
  PROVE  DomainInv'
<1>1. ASSUME UNCHANGED <<requests, domain, covered, visible, reported>> PROVE DomainInv'
  BY <1>1 DEF DomainInv, GetsKnown, FlushCovers, Within, Gets
<1>2. ASSUME NEW t \in Thread, GpuStep(t) PROVE DomainInv'
  BY <1>1, <1>2, GpuEffect DEF GpuFrame, workVars, transportVars, netVars
<1>3. ASSUME NEW failed \in BOOLEAN, Skipped(failed) PROVE DomainInv' BY <1>1, <1>3 DEF Skipped
<1>4. CASE TrackedOnly BY <1>1, <1>4 DEF TrackedOnly
<1>5. CASE Moves BY <1>1, <1>5 DEF Moves, transportVars
<1>6. CASE HostMoves BY <1>1, <1>6 DEF HostMoves, transportVars
<1>7. CASE PollStep BY <1>7, DomainByPolls DEF TrackInv
<1> QED BY <1>2, <1>3, <1>4, <1>5, <1>6, <1>7, Steps, DomainByRetired, DomainByPosted

-----------------------------------------------------------------------------
(* The theorems *)

LEMMA InitIInv == Init => IInv
<1> SUFFICES ASSUME Init PROVE IInv OBVIOUS
<1> DEFINE C == MaxInflight
           free == [state |-> "free", sequence |-> 0]
<1>1. C \in Nat \ {0} BY KernelProxyAssumption
<1>2. board = [nextSequence |-> 1, entries |-> [e \in 0..C-1 |-> free], firstError |-> FALSE]
  BY DEF Init, NewScoreboard
<1>3. IsScoreboard(board, MaxInflight)
  <2>1. free \in Entry BY DEF Entry
  <2> QED BY <1>1, <1>2, <2>1 DEF IsScoreboard
<1>4. \A n \in Nat : ~Tracks(board, "complete", n)
  <2> TAKE n \in Nat
  <2>1. n % C \in 0..C-1 /\ EntryOf(board, n) = board.entries[n % C] BY <1>3, CapacityIs
  <2>2. board.entries[n % C] = free BY <1>2, <2>1
  <2> QED BY <2>1, <2>2 DEF Tracks
<1>5. TypeOK
  <2>1. FlagType BY DEF Init, FlagType
  <2>2. FifoType BY DEF Init, FifoType
  <2>3. GpuType BY DEF Init, GpuType
  <2>4. WorkerType BY <1>3 DEF Init, WorkerType
  <2>5. NetType BY DEF Init, NetType, Domain
  <2> QED BY <2>1, <2>2, <2>3, <2>4, <2>5 DEF TypeOK
<1>6. GateInv
  <2>1. Holders = {} BY DEF Init, Holders, Holding
  <2>2. Cardinality(Holders) = 0 BY <2>1, FS_EmptySet
  <2> QED BY <2>2 DEF Init, GateInv
<1>7. TrackInv
  <2>1. board.nextSequence = 1 BY <1>2
  <2> QED BY <1>4, <2>1 DEF Init, TrackInv, CountersAgree, RequestsTracked
<1>8. QuiesceInv BY DEF Init, QuiesceInv
<1>9. SignalInv BY DEF Init, SignalInv
<1>10. DomainInv BY DEF Init, DomainInv, GetsKnown, FlushCovers, Within
<1> QED BY <1>5, <1>6, <1>7, <1>8, <1>9, <1>10 DEF IInv

\* The invariant holds in every reachable state, whatever the GPU threads do and
\* whatever fails.
THEOREM KernelProxyInvariant == Spec => []IInv
<1>1. IInv /\ [Next]_vars => IInv'
  BY TypeInductive, GateInductive, TrackInductive, QuiesceInductive, SignalInductive,
     DomainInductive DEF IInv
<1> QED BY <1>1, InitIInv, PTL DEF Spec

\* A worker that has waited for the closed gate is alone with the FIFO.
THEOREM GateHolds == Spec => []GateExcludesProducers
<1>1. IInv => GateExcludesProducers BY DEF IInv, GateInv, GateExcludesProducers, Inside
<1> QED BY <1>1, KernelProxyInvariant, PTL

\* A signal is on the wire only when all that comes before it in the FIFO has
\* completed without an error.
THEOREM SignalsFollowData == Spec => []SignalAfterData
<1>1. IInv => SignalAfterData
  BY DEF IInv, TrackInv, RequestsTracked, SignalInv, SignalAfterData
<1> QED BY <1>1, KernelProxyInvariant, PTL

\* A flush or a quiesce that succeeded left nothing in flight, and a GET that was
\* reported is visible.
THEOREM FlushesAreKept == Spec => []FlushedIsRetired
<1>1. IInv => FlushedIsRetired
  <2> SUFFICES ASSUME IInv PROVE FlushedIsRetired OBVIOUS
  <2>1. /\ completed \in Nat /\ owed \in Nat /\ board.nextSequence \in Nat
        /\ \A r \in requests : r.seq \in Nat
        /\ \A t \in Thread : flushed[t] \in Nat
    <3>1. board.nextSequence \in Nat BY CapacityIs DEF IInv, TypeOK, WorkerType
    <3> QED BY <3>1 DEF IInv, TypeOK, FifoType, WorkerType, NetType, Request, GpuType
  <2>2. ASSUME NEW t \in Thread, NEW r \in requests PROVE r.seq > flushed[t]
    <3>1. at # "finished" BY DEF IInv, TrackInv, RequestsTracked
    <3>2. flushed[t] <= completed /\ completed + owed = board.nextSequence - 1
      BY <3>1 DEF IInv, TrackInv, CountersAgree
    <3>3. board.nextSequence <= r.seq BY DEF IInv, TrackInv, RequestsTracked
    <3> QED BY <2>1, <3>2, <3>3
  <2>3. (quiesce = "ok" => requests = {}) /\ reported \subseteq visible
    BY DEF IInv, QuiesceInv, DomainInv
  <2> QED BY <2>2, <2>3 DEF FlushedIsRetired
<1> QED BY <1>1, KernelProxyInvariant, PTL

=============================================================================
