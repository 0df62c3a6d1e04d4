--------------------------- MODULE RmaProxyProofs ---------------------------
(***************************************************************************)
(* What holds of the RMA proxy for any number of peers, any programs of    *)
(* any number of threads, any sizes of the rings and batches and any       *)
(* number of failures: a signal is posted after its data, no waiter is     *)
(* released while the adaptor uses the buffers behind it, and a GET that   *)
(* is over is visible.                                                     *)
(*                                                                         *)
(* The invariant of a peer is a predicate on the values of the peer's      *)
(* variables: the requests in hand H, the ring R, the last number n, the   *)
(* scoreboard sb, the groups G, the native requests N, the visibility      *)
(* domain m.  The descriptors that are not over are followed by what never *)
(* changes of them (Core), wherever they are: a step of the proxy then     *)
(* adds some, retires some, or leaves them all.                            *)
(***************************************************************************)
EXTENDS RmaProxy, ScoreboardProofs, SequenceTheorems

DescTypes == {"put", "get", "ipcget", "release"}
Desc == [seq : Nat, type : DescTypes, group : Nat, event : BOOLEAN]
Request == [seq : Nat, type : DescTypes, group : Nat, failed : BOOLEAN,
            flushPending : BOOLEAN, getSequence : Nat]
Group == [state : {"sealed", "complete"}, pending : Nat, firstError : BOOLEAN]
Domain == [issued : Nat, dataCompleted : Nat, target : Nat, visible : Nat,
           request : BOOLEAN, snapshot : SUBSET Seqs]
NicStates == {"unposted", "live", "ok", "failed"}
Item == [do : {"ready", "event", "wait"}, peer : Peer, seq : Int]

\* What is posted for a peer, counted or not.
InHand(p) == inProgress[p] \cup (IF pass.peer = p THEN counting ELSE {})

Core(d) == [seq |-> d.seq, type |-> d.type, group |-> d.group]

\* The descriptors that are not over.
Outstanding(H, R) == {Core(d) : d \in H} \cup {Core(R[j]) : j \in 1..Len(R)}

\* Numbers are given once and in order; those in hand come before the ring's.
SeqOK(H, R, n) ==
  /\ n \in Nat /\ R \in Seq(Desc) /\ Len(R) <= n /\ H \in SUBSET Request
  /\ \A d, e \in H : d.seq = e.seq => d = e
  /\ \A d \in H : 1 <= d.seq /\ d.seq <= n - Len(R)
  /\ \A j \in 1..Len(R) : R[j].seq = n - Len(R) + j
  /\ \A j \in 1..Len(R) : R[j].type = "put" => ~R[j].event

\* The scoreboard waits for all of them.
TrackOK(O, sb, done) ==
  /\ IsScoreboard(sb, 2 * QueueSize)
  /\ done = sb.nextSequence - 1
  /\ \A o \in O : Tracks(sb, "pending", o.seq) /\ sb.nextSequence <= o.seq

\* The adaptor has only requests that are in hand.
LiveOK(H, R, n, N) ==
  /\ N \in [Seqs -> NicStates]
  /\ \A q \in Seqs : N[q] = "live" => \E d \in H : d.seq = q /\ ~d.flushPending
  /\ \A q \in Seqs : N[q] # "unposted" => q <= n - Len(R)

\* A release group waits for its members, and for those only.
Members(O, r) == {o \in O : o.group = r /\ o.type # "release"}

GroupOK(O, n, G) ==
  /\ IsFiniteSet(O)
  /\ DOMAIN G \subseteq 1..n
  /\ \A o \in O : /\ o.group \in Nat /\ o.group <= n
                  /\ o.type = "release" <=> o.seq \in DOMAIN G
                  /\ o.type = "release" => o.group = o.seq
  /\ \A r \in DOMAIN G : /\ G[r] \in Group
                         /\ G[r].state = "complete" <=> G[r].pending = 0
                         /\ G[r].pending = Cardinality(Members(O, r))

\* A release is posted when its group is complete.
SignalOK(G, N) ==
  \A r \in Seqs : r \in DOMAIN G /\ N[r] # "unposted" => G[r].pending = 0 /\ ~G[r].firstError

\* The GETs of the range that have not failed are in S.
Within(H, lo, hi, S) ==
  \A d \in H : (d.getSequence \in lo..hi /\ ~d.failed /\ d.seq \in Seqs) => d.seq \in S

\* What the visibility domain knows of the GETs in hand.
GetsOK(H, m, N) ==
  /\ m \in Domain
  /\ m.visible <= m.target /\ m.target <= m.dataCompleted /\ m.dataCompleted <= m.issued
  /\ \A d, e \in H : d.getSequence = e.getSequence /\ d.getSequence # 0 => d = e
  /\ \A d \in H :
       /\ d.getSequence <= m.issued
       /\ d.getSequence \in 1..m.dataCompleted => d.flushPending
       /\ d.flushPending => d.getSequence # 0
       /\ d.type = "get" /\ ~d.failed => d.getSequence # 0
       /\ d.getSequence # 0 /\ d.seq \in Seqs => N[d.seq] # "unposted"
       /\ d.flushPending /\ ~d.failed /\ d.seq \in Seqs => N[d.seq] = "ok"

\* What a flush covers.  A flush that was refused for now has something to do.
FlushOK(H, m, V) ==
  /\ Within(H, 1, m.visible, V)
  /\ m.request => Within(H, 1, m.target, m.snapshot \cup V)
  /\ ~m.request /\ m.target > m.visible =>
       \E d \in H : d.getSequence \in m.visible+1..m.target /\ ~d.failed

OutcomeOK(V, out) == \A q \in Seqs : out[q] = "get" => q \in V

PeerOK(H, R, n, sb, done, G, N, m, V, out) ==
  /\ SeqOK(H, R, n)
  /\ TrackOK(Outstanding(H, R), sb, done)
  /\ LiveOK(H, R, n, N)
  /\ GroupOK(Outstanding(H, R), n, G)
  /\ SignalOK(G, N)
  /\ GetsOK(H, m, N)
  /\ FlushOK(H, m, V)
  /\ OutcomeOK(V, out)

PeerInv(p) ==
  PeerOK(InHand(p), ring[p], opSeqs[p], scoreboard[p], doneSeqs[p], groups[p], nic[p],
         domain[p], visible[p], outcome[p])

Stages == {"poll", "domain", "flush", "gets", "submit", "count", "end"}

ThreadType ==
  /\ at \in [Thread -> Nat] /\ DOMAIN tpc = Thread
  /\ \A t \in Thread : tpc[t] = "hold" => Calling(t, Enqueues)

StreamType == stream \in [Thread -> Seq(Item)] /\ readySeqs \in [Peer -> Int]

PassType ==
  /\ pass \in [stage : Stages, peer : Peer]
  /\ pendingError \in BOOLEAN /\ rmaError \in BOOLEAN

PeerType ==
  /\ DOMAIN ring = Peer /\ DOMAIN opSeqs = Peer /\ DOMAIN scoreboard = Peer
  /\ DOMAIN doneSeqs = Peer /\ DOMAIN groups = Peer /\ DOMAIN inProgress = Peer
  /\ DOMAIN inFlights = Peer /\ DOMAIN nic = Peer /\ DOMAIN domain = Peer
  /\ DOMAIN visible = Peer /\ DOMAIN outcome = Peer

TypeOK == ThreadType /\ StreamType /\ PassType /\ PeerType

\* inFlights counts the requests in progress; what is posted and not counted
\* belongs to the peer at hand.
CountInv ==
  /\ IsFiniteSet(counting) /\ (pass.stage # "count" => counting = {})
  /\ counting \cap inProgress[pass.peer] = {}
  /\ \A p \in Peer : IsFiniteSet(inProgress[p]) /\ inFlights[p] = Cardinality(inProgress[p])

\* The error is published when nothing is in hand, and nothing is posted then.
ErrorInv == rmaError => pendingError /\ counting = {} /\ \A p \in Peer : inProgress[p] = {}

IInv == TypeOK /\ CountInv /\ ErrorInv /\ \A p \in Peer : PeerInv(p)

-----------------------------------------------------------------------------
(* The scoreboard *)

\* Two numbers of one window have entries of their own.
LEMMA OneEntryEach ==
  ASSUME NEW c \in Nat \ {0}, NEW a \in Nat, NEW b \in Nat, a % c = b % c,
         a - b < c, b - a < c
  PROVE  a = b
<1> DEFINE k == a \div c
           l == b \div c
<1>1. k \in Int /\ l \in Int /\ a = c * k + (a % c) /\ b = c * l + (b % c) /\ a % c \in Int BY SMT
<1> HIDE DEF k, l
<1>2. a - b = c * (k - l) BY <1>1
<1>3. CASE k - l >= 1
  <2>1. c * (k - l) >= c BY <1>1, <1>3
  <2> QED BY <1>2, <2>1
<1>4. CASE l - k >= 1
  <2>1. c * (l - k) >= c BY <1>1, <1>4
  <2>2. b - a = c * (l - k) BY <1>1
  <2> QED BY <2>1, <2>2
<1>5. CASE k = l BY <1>1, <1>5
<1> QED BY <1>1, <1>3, <1>4, <1>5

\* flagcxRmaProxyPrepareDesc of several descriptors at once.
LEMMA TrackAllTracks ==
  ASSUME NEW sb, NEW c, IsScoreboard(sb, c), NEW Q \in SUBSET Nat,
         \A q \in Q : TrackSubmitResult(sb, q) = "success"
  PROVE  LET sb2 == TrackAll(sb, Q) IN
         /\ IsScoreboard(sb2, c)
         /\ sb2.nextSequence = sb.nextSequence
         /\ \A q \in Q : sb.nextSequence <= q
         /\ \A n \in Nat : Tracks(sb2, "pending", n) <=> Tracks(sb, "pending", n) \/ n \in Q
<1> DEFINE sb2 == TrackAll(sb, Q)
           V(e) == IF \E q \in Q : q % c = e
                   THEN [state |-> "pending", sequence |-> CHOOSE q \in Q : q % c = e]
                   ELSE sb.entries[e]
           F == [e \in 0..c-1 |-> V(e)]
<1>1. /\ Capacity(sb) = c /\ c \in Nat \ {0} /\ DOMAIN sb.entries = 0..c-1
      /\ sb.nextSequence \in Nat
      /\ \A q \in Nat : q % c \in 0..c-1 /\ EntryOf(sb, q) = sb.entries[q % c]
                        /\ EntryOf(sb, q) \in Entry
  BY CapacityIs
<1>2. ASSUME NEW q \in Q
      PROVE  sb.nextSequence <= q /\ q - sb.nextSequence < c /\ sb.entries[q % c].state = "free"
             /\ q \in Nat
  BY <1>1 DEF TrackSubmitResult, InWindow
<1>3. ASSUME NEW q \in Q, NEW r \in Q, q % c = r % c PROVE q = r
  <2>0. /\ q \in Nat /\ sb.nextSequence <= q /\ q - sb.nextSequence < c
        /\ r \in Nat /\ sb.nextSequence <= r /\ r - sb.nextSequence < c
    BY <1>2
  <2>1. q - r < c /\ r - q < c
    <3>1. sb.nextSequence \in Nat /\ c \in Nat BY <1>1
    <3> QED BY <2>0, <3>1
  <2> QED BY <1>1, <1>2, <1>3, <2>1, OneEntryEach
<1>4. DOMAIN sb = {"nextSequence", "entries", "firstError"} BY DEF IsScoreboard
<1>5. sb2 = [sb EXCEPT !.entries = F] BY <1>1, <1>4 DEF TrackAll
<1>6. \A e \in 0..c-1 : V(e) \in Entry
  <2> TAKE e \in 0..c-1
  <2>1. CASE \E q \in Q : q % c = e
    <3>1. (CHOOSE q \in Q : q % c = e) \in Nat BY <2>1
    <3> QED BY <2>1, <3>1 DEF Entry
  <2>2. CASE ~\E q \in Q : q % c = e
    <3>1. sb.entries[e] \in Entry BY DEF IsScoreboard
    <3> QED BY <2>2, <3>1
  <2> QED BY <2>1, <2>2
<1>7. ASSUME NEW n \in Nat
      PROVE  LET v == [state |-> "pending", sequence |-> n] IN
             V(n % c) = v <=> sb.entries[n % c] = v \/ n \in Q
  <2> DEFINE x == n % c
  <2>1. CASE \E q \in Q : q % c = x
    <3> DEFINE w == CHOOSE q \in Q : q % c = x
    <3>1. w \in Q /\ w % c = x BY <2>1
    <3>2. sb.entries[x].state = "free" BY <1>2, <3>1
    <3>3. V(x) = [state |-> "pending", sequence |-> w] BY <2>1
    <3> HIDE DEF w
    <3>4. n \in Q <=> w = n BY <1>3, <3>1
    <3> QED BY <3>2, <3>3, <3>4
  <2>2. CASE ~\E q \in Q : q % c = x BY <2>2
  <2> QED BY <2>1, <2>2
<1> HIDE DEF V, sb2
<1>8. F \in [0..c-1 -> Entry] BY <1>6
<1>9. sb2.entries = F /\ sb2.nextSequence = sb.nextSequence /\ IsScoreboard(sb2, c)
  <2> HIDE DEF F
  <2> QED BY <1>4, <1>5, <1>8 DEF IsScoreboard
<1>10. ASSUME NEW n \in Nat
       PROVE  Tracks(sb2, "pending", n) <=> Tracks(sb, "pending", n) \/ n \in Q
  <2>1. n % c \in 0..c-1 /\ EntryOf(sb, n) = sb.entries[n % c] BY <1>1
  <2>2. EntryOf(sb2, n) = sb2.entries[n % c] BY <1>9, CapacityIs
  <2>3. EntryOf(sb2, n) = V(n % c) BY <1>9, <2>1, <2>2
  <2> QED BY <1>7, <2>1, <2>3 DEF Tracks
<1> QED BY <1>2, <1>9, <1>10 DEF sb2

-----------------------------------------------------------------------------
(* Descriptors that are not over *)

LEMMA OutstandingIs ==
  ASSUME NEW H, NEW R, NEW n, SeqOK(H, R, n)
  PROVE  /\ \A o \in Outstanding(H, R) : /\ o.seq \in Nat /\ 1 <= o.seq /\ o.seq <= n
                                         /\ o.type \in DescTypes /\ o.group \in Nat
         /\ \A o, u \in Outstanding(H, R) : o.seq = u.seq => o = u
         /\ \A d \in H : Core(d) \in Outstanding(H, R)
         /\ \A j \in 1..Len(R) : Core(R[j]) \in Outstanding(H, R)
<1>1. /\ n \in Nat /\ R \in Seq(Desc) /\ Len(R) \in Nat /\ Len(R) <= n /\ H \in SUBSET Request
      /\ \A d, e \in H : d.seq = e.seq => d = e
      /\ \A d \in H : 1 <= d.seq /\ d.seq <= n - Len(R)
      /\ \A j \in 1..Len(R) : R[j].seq = n - Len(R) + j
  BY DEF SeqOK
<1>2. ASSUME NEW d \in H
      PROVE  /\ Core(d).seq = d.seq /\ Core(d).type = d.type /\ Core(d).group = d.group
             /\ d.seq \in Nat /\ d.type \in DescTypes /\ d.group \in Nat
             /\ 1 <= d.seq /\ d.seq <= n - Len(R)
  BY <1>1 DEF Core, Request
<1>3. ASSUME NEW j \in 1..Len(R)
      PROVE  /\ Core(R[j]).seq = n - Len(R) + j /\ R[j].type \in DescTypes /\ R[j].group \in Nat
             /\ Core(R[j]).type = R[j].type /\ Core(R[j]).group = R[j].group /\ j \in Nat /\ j >= 1
             /\ j <= Len(R)
  <2>1. R[j] \in Desc BY <1>1
  <2> QED BY <1>1, <2>1 DEF Core, Desc
<1> DEFINE O == Outstanding(H, R)
<1>4. \A d \in H : Core(d) \in O BY DEF Outstanding
<1>5. \A j \in 1..Len(R) : Core(R[j]) \in O BY DEF Outstanding
<1>6. \A o \in O : (\E d \in H : o = Core(d)) \/ (\E j \in 1..Len(R) : o = Core(R[j]))
  BY DEF Outstanding
<1> HIDE DEF O
<1>7. ASSUME NEW o \in O
      PROVE  o.seq \in Nat /\ 1 <= o.seq /\ o.seq <= n /\ o.type \in DescTypes /\ o.group \in Nat
  <2>1. CASE \E d \in H : o = Core(d)
    <3>1. PICK d \in H : o = Core(d) BY <2>1
    <3> QED BY <1>1, <1>2, <3>1
  <2>2. CASE \E j \in 1..Len(R) : o = Core(R[j])
    <3>1. PICK j \in 1..Len(R) : o = Core(R[j]) BY <2>2
    <3>2. /\ o.seq = n - Len(R) + j /\ j \in Nat /\ j >= 1 /\ j <= Len(R)
          /\ o.type \in DescTypes /\ o.group \in Nat
      BY <1>3, <3>1
    <3>3. n \in Nat /\ Len(R) \in Nat /\ Len(R) <= n BY <1>1
    <3> QED BY <3>2, <3>3
  <2> QED BY <1>6, <2>1, <2>2
<1>8. ASSUME NEW o \in O, NEW u \in O, o.seq = u.seq PROVE o = u
  <2>1. CASE (\E d \in H : o = Core(d)) /\ (\E d \in H : u = Core(d))
    <3>1. PICK d \in H : o = Core(d) BY <2>1
    <3>2. PICK e \in H : u = Core(e) BY <2>1
    <3> QED BY <1>1, <1>2, <1>8, <3>1, <3>2
  <2>2. CASE (\E d \in H : o = Core(d)) /\ (\E j \in 1..Len(R) : u = Core(R[j]))
    <3>1. PICK d \in H : o = Core(d) BY <2>2
    <3>2. PICK j \in 1..Len(R) : u = Core(R[j]) BY <2>2
    <3> QED BY <1>1, <1>2, <1>3, <1>8, <3>1, <3>2
  <2>3. CASE (\E j \in 1..Len(R) : o = Core(R[j])) /\ (\E d \in H : u = Core(d))
    <3>1. PICK d \in H : u = Core(d) BY <2>3
    <3>2. PICK j \in 1..Len(R) : o = Core(R[j]) BY <2>3
    <3> QED BY <1>1, <1>2, <1>3, <1>8, <3>1, <3>2
  <2>4. CASE (\E j \in 1..Len(R) : o = Core(R[j])) /\ (\E j \in 1..Len(R) : u = Core(R[j]))
    <3>1. PICK i \in 1..Len(R) : o = Core(R[i]) BY <2>4
    <3>2. PICK j \in 1..Len(R) : u = Core(R[j]) BY <2>4
    <3>3. i = j
      <4>1. /\ o.seq = n - Len(R) + i /\ i \in Nat
            /\ u.seq = n - Len(R) + j /\ j \in Nat
        BY <1>3, <3>1, <3>2
      <4>2. n \in Nat /\ Len(R) \in Nat BY <1>1
      <4>3. n - Len(R) + i = n - Len(R) + j BY <1>8, <4>1
      <4> QED BY <4>1, <4>2, <4>3
    <3> QED BY <3>1, <3>2, <3>3
  <2> QED BY <1>6, <2>1, <2>2, <2>3, <2>4
<1> QED BY <1>4, <1>5, <1>7, <1>8 DEF O

\* A one-to-one map counts.
LEMMA SameCount ==
  ASSUME NEW S, NEW T, IsFiniteSet(T), NEW f \in [S -> T],
         \A a, b \in S : f[a] = f[b] => a = b, \A t \in T : \E s \in S : f[s] = t
  PROVE  IsFiniteSet(S) /\ Cardinality(S) = Cardinality(T)
<1>1. f \in Injection(S, T) BY DEF Injection, IsInjective
<1>2. f \in Surjection(S, T) BY DEF Surjection
<1> QED BY <1>1, <1>2, FS_Injection

\* The numbers of D, and the members of S with other numbers.
NumbersOf(D) == {d.seq : d \in D}
Without(S, Q, S2) == S2 = {d \in S : d.seq \notin Q}

\* One descriptor has a number.
Numbered(S) ==
  /\ \A o \in S : o.seq \in Nat
  /\ \A o, u \in S : o.seq = u.seq => o = u

\* The scoreboard after flagcxRmaProxyCompleteDesc.
LEMMA RetireTrack ==
  ASSUME NEW O, NEW sb, NEW done, TrackOK(O, sb, done), Numbered(O),
         NEW Q, NEW failed \in BOOLEAN, NEW O2, Without(O, Q, O2)
  PROVE  TrackOK(O2, TrackCompletion(sb, Q, failed),
                 TrackCompletion(sb, Q, failed).nextSequence - 1)
<1> DEFINE sb2 == TrackCompletion(sb, Q, failed)
<1>1. IsScoreboard(sb, 2 * QueueSize) /\ sb.nextSequence \in Nat
  BY CapacityIs DEF TrackOK
<1>2. /\ IsScoreboard(sb2, 2 * QueueSize)
      /\ sb.nextSequence <= sb2.nextSequence
      /\ \A n \in sb.nextSequence..sb2.nextSequence-1 :
           Tracks(sb, "complete", n) \/ (Tracks(sb, "pending", n) /\ n \in Q)
      /\ \A n \in Nat : n >= sb2.nextSequence =>
           (Tracks(sb2, "pending", n) <=> Tracks(sb, "pending", n) /\ n \notin Q)
  BY <1>1, CompletionRetires
<1> HIDE DEF sb2
<1>3. sb2.nextSequence \in Nat BY <1>2, CapacityIs
<1>4. ASSUME NEW o \in O, o.seq \notin Q
      PROVE  Tracks(sb2, "pending", o.seq) /\ sb2.nextSequence <= o.seq
  <2>1. Tracks(sb, "pending", o.seq) /\ sb.nextSequence <= o.seq /\ o.seq \in Nat
    BY DEF TrackOK, Numbered
  <2>2. ~Tracks(sb, "complete", o.seq) BY <2>1 DEF Tracks
  <2>3. o.seq \notin sb.nextSequence..sb2.nextSequence-1 BY <1>2, <1>4, <2>2
  <2>4. sb2.nextSequence <= o.seq BY <1>1, <1>3, <2>1, <2>3
  <2> QED BY <1>2, <1>4, <2>1, <2>4
<1>5. TrackOK(O2, sb2, sb2.nextSequence - 1) BY <1>2, <1>4 DEF TrackOK, Without
<1> QED BY <1>5 DEF sb2

\* D are descriptors that are not over.
AreOf(D, O) ==
  /\ \A d \in D : Core(d) \in O
  /\ \A d, e \in D : d.seq = e.seq => d = e

\* The groups after it.
Regrouped(G, D) ==
  [r \in DOMAIN G |-> GroupComplete(G[r], Cardinality(MembersOf(r, D)),
                                    Failed(MembersOf(r, D)) # {})]

LEMMA RetireGroups ==
  ASSUME NEW O, NEW n, NEW G, NEW N, GroupOK(O, n, G), SignalOK(G, N), Numbered(O),
         NEW D, AreOf(D, O), NEW O2, Without(O, NumbersOf(D), O2)
  PROVE  GroupOK(O2, n, Regrouped(G, D)) /\ SignalOK(Regrouped(G, D), N)
<1> DEFINE G2 == Regrouped(G, D)
<1>0. /\ \A o, u \in O : o.seq = u.seq => o = u
      /\ \A d \in D : Core(d) \in O
      /\ \A d, e \in D : d.seq = e.seq => d = e
      /\ O2 = {o \in O : o.seq \notin {d.seq : d \in D}}
      /\ G2 = [r \in DOMAIN G |-> GroupComplete(G[r], Cardinality(MembersOf(r, D)),
                                                Failed(MembersOf(r, D)) # {})]
  BY DEF AreOf, Numbered, Without, NumbersOf, Regrouped
<1> HIDE DEF G2
<1>1. O2 \subseteq O /\ IsFiniteSet(O) /\ DOMAIN G2 = DOMAIN G BY <1>0 DEF GroupOK
<1>2. \A d \in D : Core(d).seq = d.seq /\ Core(d).group = d.group /\ Core(d).type = d.type
  BY DEF Core
<1>3. IsFiniteSet(O2) BY <1>1, FS_Subset
<1>4. ASSUME NEW r \in DOMAIN G
      PROVE  LET k == Cardinality(MembersOf(r, D)) IN
             /\ k \in Nat /\ k <= G[r].pending
             /\ G[r].pending - k = Cardinality(Members(O2, r))
             /\ G[r].pending = 0 => MembersOf(r, D) = {}
  <2> DEFINE S == MembersOf(r, D)
             T == {o \in Members(O, r) : o.seq \in {d.seq : d \in D}}
             M == Members(O, r)
             f == [d \in S |-> Core(d)]
  <2>1. IsFiniteSet(M) /\ T \subseteq M BY <1>1, FS_Subset DEF Members
  <2>2. IsFiniteSet(T) BY <2>1, FS_Subset
  <2>3. ASSUME NEW d \in S PROVE Core(d) \in T /\ d \in D
    BY <1>0, <1>2 DEF MembersOf, Members
  <2>4. f \in [S -> T] BY <2>3
  <2>5. \A a, b \in S : f[a] = f[b] => a = b
    <3> TAKE a, b \in S
    <3>1. a \in D /\ b \in D BY <2>3
    <3> QED BY <1>0, <1>2, <3>1
  <2>6. ASSUME NEW o \in T PROVE \E d \in S : f[d] = o
    <3>1. PICK d \in D : d.seq = o.seq OBVIOUS
    <3>2. o \in O /\ o.group = r /\ o.type # "release" BY DEF Members
    <3>3. Core(d) = o BY <1>0, <1>2, <3>1, <3>2
    <3>4. d \in S BY <1>2, <3>2, <3>3 DEF MembersOf
    <3> QED BY <3>3, <3>4
  <2> HIDE DEF f
  <2>7. Cardinality(S) = Cardinality(T) /\ IsFiniteSet(S) BY <2>2, <2>4, <2>5, <2>6, SameCount
  <2>8. Members(O2, r) = M \ T BY <1>0 DEF Members
  <2>9. M \cap T = T BY <2>1
  <2>10. /\ Cardinality(M \ T) = Cardinality(M) - Cardinality(T)
         /\ Cardinality(T) <= Cardinality(M)
    <3>1. IsFiniteSet(M) /\ T \subseteq M BY <2>1
    <3>2. Cardinality(M \ T) = Cardinality(M) - Cardinality(M \cap T) BY <3>1, FS_Difference
    <3>3. Cardinality(T) <= Cardinality(M) BY <3>1, FS_Subset
    <3> QED BY <2>9, <3>2, <3>3
  <2>11. Cardinality(T) \in Nat /\ Cardinality(M) \in Nat BY <2>1, <2>2, FS_CardinalityType
  <2>12. G[r].pending = Cardinality(M) BY DEF GroupOK
  <2>13. G[r].pending = 0 => S = {}
    <3>1. G[r].pending = 0 => Cardinality(S) = 0 BY <2>7, <2>10, <2>11, <2>12
    <3> QED BY <2>7, <3>1, FS_EmptySet
  <2> QED BY <2>7, <2>8, <2>10, <2>11, <2>12, <2>13
<1>5. ASSUME NEW r \in DOMAIN G
      PROVE  /\ G2[r] \in Group
             /\ G2[r].state = "complete" <=> G2[r].pending = 0
             /\ G2[r].pending = Cardinality(Members(O2, r))
             /\ G[r].pending = 0 /\ ~G[r].firstError => G2[r].pending = 0 /\ ~G2[r].firstError
  <2> DEFINE k == Cardinality(MembersOf(r, D))
             b == Failed(MembersOf(r, D)) # {}
             g == G[r]
  <2>1. /\ k \in Nat /\ k <= g.pending /\ g.pending - k = Cardinality(Members(O2, r))
        /\ g.pending = 0 => MembersOf(r, D) = {}
    BY <1>4
  <2>2. g \in Group /\ (g.state = "complete" <=> g.pending = 0) BY DEF GroupOK
  <2>3. G2[r] = GroupComplete(g, k, b) BY <1>0
  <2>4. g.pending = 0 => ~b BY <2>1 DEF Failed
  <2>5. b \in BOOLEAN OBVIOUS
  <2> HIDE DEF k, b, g
  <2>6. /\ G2[r].pending = g.pending - k /\ G2[r].firstError = (g.firstError \/ b)
        /\ G2[r].state = IF g.pending = k /\ g.state = "sealed" THEN "complete" ELSE g.state
    BY <2>3 DEF GroupComplete
  <2>7. G2[r] = [state |-> G2[r].state, pending |-> G2[r].pending, firstError |-> G2[r].firstError]
    BY <2>3 DEF GroupComplete
  <2>8. g.pending \in Nat /\ g.state \in {"sealed", "complete"} /\ g.firstError \in BOOLEAN
    BY <2>2 DEF Group
  <2>9. G2[r].pending \in Nat /\ G2[r].state \in {"sealed", "complete"} BY <2>1, <2>6, <2>8
  <2>10. G2[r].firstError \in BOOLEAN BY <2>5, <2>6, <2>8
  <2>11. G2[r] \in Group BY <2>7, <2>9, <2>10 DEF Group
  <2>12. G2[r].state = "complete" <=> G2[r].pending = 0 BY <2>1, <2>2, <2>6, <2>8
  <2>13. g.pending = 0 => G2[r].pending = 0 BY <2>1, <2>6, <2>8
  <2>14. (g.pending = 0 /\ ~g.firstError) => ~G2[r].firstError BY <2>4, <2>6
  <2> QED BY <2>1, <2>6, <2>11, <2>12, <2>13, <2>14 DEF g
<1>6. GroupOK(O2, n, G2)
  <2>1. /\ DOMAIN G2 \subseteq 1..n
        /\ \A o \in O2 : /\ o.group \in Nat /\ o.group <= n
                         /\ o.type = "release" <=> o.seq \in DOMAIN G2
                         /\ o.type = "release" => o.group = o.seq
    BY <1>1 DEF GroupOK
  <2> QED BY <1>1, <1>3, <1>5, <2>1 DEF GroupOK
<1>7. SignalOK(G2, N) BY <1>1, <1>5 DEF SignalOK
<1> QED BY <1>6, <1>7 DEF G2

-----------------------------------------------------------------------------
(* Descriptors leave the ring *)

\* R2 is R without its first k descriptors.
Dropped(R, k, R2) ==
  /\ k \in 0..Len(R) /\ R2 \in Seq(Desc) /\ Len(R2) = Len(R) - k
  /\ \A j \in 1..Len(R2) : R2[j] = R[k + j]

LEMMA DropSome ==
  ASSUME NEW R \in Seq(Desc), NEW k \in 0..Len(R)
  PROVE  Dropped(R, k, SubSeq(R, k + 1, Len(R)))
<1> DEFINE l == Len(R)
           R2 == SubSeq(R, k + 1, l)
<1>1. l \in Nat /\ k \in Nat /\ k <= l BY LenProperties
<1> HIDE DEF Desc
<1>2. R2 \in Seq(Desc) /\ Len(R2) = l - k /\ \A j \in 1..l - k : R2[j] = R[k + j]
  BY <1>1
<1> QED BY <1>1, <1>2 DEF Dropped

LEMMA DropHead ==
  ASSUME NEW R \in Seq(Desc), R # <<>>
  PROVE  Dropped(R, 1, Tail(R)) /\ Head(R) = R[1] /\ 1 \in 1..Len(R) /\ R[1] \in Desc
<1>1. /\ Tail(R) \in Seq(Desc) /\ Len(Tail(R)) = Len(R) - 1
      /\ \A i \in 1 .. Len(Tail(R)) : Tail(R)[i] = R[i + 1]
  BY HeadTailProperties
<1>2. Len(R) \in Nat /\ Len(R) # 0 BY EmptySeq, LenProperties
<1>3. \A j \in 1..Len(Tail(R)) : Tail(R)[j] = R[1 + j]
  <2> TAKE j \in 1..Len(Tail(R))
  <2>1. 1 + j = j + 1 OBVIOUS
  <2> QED BY <1>1, <2>1
<1> QED BY <1>1, <1>2, <1>3 DEF Dropped

LEMMA DropAll ==
  ASSUME NEW R \in Seq(Desc)
  PROVE  Dropped(R, Len(R), <<>>)
<1>1. Len(R) \in Nat /\ Len(R) - Len(R) = 0 BY LenProperties
<1> QED BY <1>1 DEF Dropped

\* The numbers of Q are those of the first k descriptors of the ring, and of
\* requests in hand: what is over with them.
FirstOf(R, k, Q) == \A j \in 1..Len(R) : R[j].seq \in Q <=> j <= k

LEMMA RetireSeq ==
  ASSUME NEW H, NEW R, NEW n, SeqOK(H, R, n), NEW k, NEW R2, Dropped(R, k, R2), NEW Q,
         FirstOf(R, k, Q), NEW H2, Without(H, Q, H2)
  PROVE  /\ SeqOK(H2, R2, n)
         /\ Without(Outstanding(H, R), Q, Outstanding(H2, R2))
<1> USE DEF FirstOf, Without
<1> DEFINE l == Len(R)
           l2 == Len(R2)
<1>1. /\ n \in Nat /\ l \in Nat /\ l <= n /\ k \in Nat /\ k <= l /\ l2 = l - k /\ l2 \in Nat
      /\ R \in Seq(Desc) /\ R2 \in Seq(Desc)
  BY LenProperties DEF SeqOK, Dropped
<1>2. ASSUME NEW j \in 1..l2 PROVE k + j \in 1..l /\ R2[j] = R[k + j] /\ j \in Nat /\ j >= 1
  BY <1>1 DEF Dropped
<1>3. ASSUME NEW i \in 1..l, ~(i <= k) PROVE \E j \in 1..l2 : i = k + j
  <2>1. i - k \in 1..l2 /\ i = k + (i - k) BY <1>1, <1>3
  <2> QED BY <2>1
<1>4. SeqOK(H2, R2, n)
  <2>1. \A d \in H2 : 1 <= d.seq /\ d.seq <= n - l2
    <3> TAKE d \in H2
    <3>1. d \in H /\ d.seq \in Nat /\ 1 <= d.seq /\ d.seq <= n - l BY DEF SeqOK, Request
    <3> QED BY <1>1, <3>1
  <2>2. ASSUME NEW j \in 1..l2
        PROVE  R2[j].seq = n - l2 + j /\ (R2[j].type = "put" => ~R2[j].event)
    <3>1. /\ k + j \in 1..l /\ R2[j] = R[k + j] /\ j \in Nat BY <1>2
    <3>2. R2[j].seq = n - l + (k + j) /\ (R2[j].type = "put" => ~R2[j].event) BY <3>1 DEF SeqOK
    <3> QED BY <1>1, <3>1, <3>2
  <2>3. l2 <= n /\ H2 \in SUBSET Request /\ (\A d, e \in H2 : d.seq = e.seq => d = e)
    BY <1>1 DEF SeqOK
  <2> QED BY <1>1, <2>1, <2>2, <2>3 DEF SeqOK
<1>5. ASSUME NEW o \in Outstanding(H2, R2) PROVE o \in Outstanding(H, R) /\ o.seq \notin Q
  <2>1. CASE \E d \in H2 : o = Core(d)
    <3>1. PICK d \in H2 : o = Core(d) BY <2>1
    <3> QED BY <3>1, OutstandingIs DEF Core
  <2>2. CASE \E j \in 1..l2 : o = Core(R2[j])
    <3>1. PICK j \in 1..l2 : o = Core(R2[j]) BY <2>2
    <3>2. k + j \in 1..l /\ o = Core(R[k + j]) /\ ~(k + j <= k) BY <1>1, <1>2, <3>1
    <3>3. o.seq = R[k + j].seq BY <3>2 DEF Core
    <3> QED BY <3>2, <3>3, OutstandingIs
  <2> QED BY <2>1, <2>2 DEF Outstanding
<1>6. ASSUME NEW o \in Outstanding(H, R), o.seq \notin Q PROVE o \in Outstanding(H2, R2)
  <2>1. CASE \E d \in H : o = Core(d)
    <3>1. PICK d \in H : o = Core(d) BY <2>1
    <3>2. d \in H2 BY <1>6, <3>1 DEF Core
    <3> QED BY <1>4, <3>1, <3>2, OutstandingIs
  <2>2. CASE \E j \in 1..l : o = Core(R[j])
    <3>1. PICK i \in 1..l : o = Core(R[i]) BY <2>2
    <3>2. ~(i <= k) BY <1>6, <3>1 DEF Core
    <3>3. PICK j \in 1..l2 : i = k + j BY <1>3, <3>2
    <3>4. o = Core(R2[j]) BY <1>2, <3>1, <3>3
    <3> QED BY <1>4, <3>4, OutstandingIs
  <2> QED BY <2>1, <2>2 DEF Outstanding
<1> QED BY <1>4, <1>5, <1>6

\* A are the first k descriptors of the ring, as they are queued in progress.
Taken(A, R, k) ==
  /\ A \in SUBSET Request
  /\ \A a \in A : \E j \in 1..k : Core(a) = Core(R[j])
  /\ \A j \in 1..k : \E a \in A : Core(a) = Core(R[j])
  /\ \A a, b \in A : a.seq = b.seq => a = b

After(A, R, R2, n) == \A a \in A : n - Len(R) < a.seq /\ a.seq <= n - Len(R2)

Joined(H, A, H2) == H2 = H \cup A
Apart(H, A) == H \cap A = {}

LEMMA TakeSeq ==
  ASSUME NEW H, NEW R, NEW n, SeqOK(H, R, n), NEW k, NEW R2, Dropped(R, k, R2),
         NEW A, Taken(A, R, k), NEW H2, Joined(H, A, H2)
  PROVE  /\ SeqOK(H2, R2, n) /\ Outstanding(H2, R2) = Outstanding(H, R)
         /\ After(A, R, R2, n) /\ Apart(H, A)
<1> USE DEF Joined
<1> DEFINE l == Len(R)
           l2 == Len(R2)
<1>1. /\ n \in Nat /\ l \in Nat /\ l <= n /\ k \in Nat /\ k <= l /\ l2 = l - k /\ l2 \in Nat
      /\ R \in Seq(Desc) /\ R2 \in Seq(Desc) /\ n - l \in Nat
  BY LenProperties DEF SeqOK, Dropped
<1>2. ASSUME NEW j \in 1..l2 PROVE k + j \in 1..l /\ R2[j] = R[k + j] /\ j \in Nat /\ j >= 1
  BY <1>1 DEF Dropped
<1>3. ASSUME NEW i \in 1..l, ~(i <= k) PROVE \E j \in 1..l2 : i = k + j
  <2>1. i - k \in 1..l2 /\ i = k + (i - k) BY <1>1, <1>3
  <2> QED BY <2>1
<1>4. ASSUME NEW d \in H PROVE d.seq \in Nat /\ 1 <= d.seq /\ d.seq <= n - l
  BY DEF SeqOK, Request
<1>5. ASSUME NEW a \in A
      PROVE  a.seq \in Nat /\ n - l < a.seq /\ a.seq <= n - l2 /\ 1 <= a.seq
  <2>1. PICK j \in 1..k : Core(a) = Core(R[j]) BY DEF Taken
  <2>2. a.seq = R[j].seq BY <2>1 DEF Core
  <2>3. j \in 1..l /\ j \in Nat /\ 1 <= j /\ j <= k BY <1>1
  <2>4. a.seq = n - l + j BY <2>2, <2>3 DEF SeqOK
  <2> QED BY <1>1, <2>3, <2>4
<1>6. SeqOK(H2, R2, n)
  <2>1. \A d \in H2 : 1 <= d.seq /\ d.seq <= n - l2
    <3> TAKE d \in H2
    <3>1. CASE d \in H BY <1>1, <1>4, <3>1
    <3>2. CASE d \in A BY <1>5, <3>2
    <3> QED BY <3>1, <3>2
  <2>2. ASSUME NEW j \in 1..l2
        PROVE  R2[j].seq = n - l2 + j /\ (R2[j].type = "put" => ~R2[j].event)
    <3>1. /\ k + j \in 1..l /\ R2[j] = R[k + j] /\ j \in Nat BY <1>2
    <3>2. R2[j].seq = n - l + (k + j) /\ (R2[j].type = "put" => ~R2[j].event) BY <3>1 DEF SeqOK
    <3> QED BY <1>1, <3>1, <3>2
  <2>3. ASSUME NEW d \in H2, NEW e \in H2, d.seq = e.seq PROVE d = e
    <3>1. CASE d \in H /\ e \in H BY <2>3, <3>1 DEF SeqOK
    <3>2. CASE d \in A /\ e \in A BY <2>3, <3>2 DEF Taken
    <3>3. CASE d \in H /\ e \in A
      <4>1. d.seq \in Nat /\ d.seq <= n - l /\ n - l < e.seq BY <1>4, <1>5, <3>3
      <4> QED BY <1>1, <2>3, <4>1
    <3>4. CASE d \in A /\ e \in H
      <4>1. e.seq \in Nat /\ e.seq <= n - l /\ n - l < d.seq BY <1>4, <1>5, <3>4
      <4> QED BY <1>1, <2>3, <4>1
    <3> QED BY <3>1, <3>2, <3>3, <3>4
  <2>4. l2 <= n /\ H2 \in SUBSET Request BY <1>1 DEF SeqOK, Taken
  <2> QED BY <1>1, <2>1, <2>2, <2>3, <2>4 DEF SeqOK
<1>7. ASSUME NEW o \in Outstanding(H2, R2) PROVE o \in Outstanding(H, R)
  <2>1. CASE \E d \in H : o = Core(d) BY <2>1, OutstandingIs
  <2>2. CASE \E a \in A : o = Core(a)
    <3>1. PICK a \in A : o = Core(a) BY <2>2
    <3>2. PICK j \in 1..k : Core(a) = Core(R[j]) BY DEF Taken
    <3>3. j \in 1..l BY <1>1
    <3> QED BY <3>1, <3>2, <3>3, OutstandingIs
  <2>3. CASE \E j \in 1..l2 : o = Core(R2[j])
    <3>1. PICK j \in 1..l2 : o = Core(R2[j]) BY <2>3
    <3>2. k + j \in 1..l /\ o = Core(R[k + j]) BY <1>2, <3>1
    <3> QED BY <3>2, OutstandingIs
  <2> QED BY <2>1, <2>2, <2>3 DEF Outstanding
<1>8. ASSUME NEW o \in Outstanding(H, R) PROVE o \in Outstanding(H2, R2)
  <2>1. CASE \E d \in H : o = Core(d)
    <3>1. PICK d \in H : o = Core(d) BY <2>1
    <3>2. d \in H2 OBVIOUS
    <3> QED BY <1>6, <3>1, <3>2, OutstandingIs
  <2>2. CASE \E j \in 1..l : o = Core(R[j])
    <3>1. PICK i \in 1..l : o = Core(R[i]) BY <2>2
    <3>2. CASE i <= k
      <4>1. i \in 1..k BY <1>1, <3>2
      <4>2. PICK a \in A : Core(a) = Core(R[i]) BY <4>1 DEF Taken
      <4>3. a \in H2 OBVIOUS
      <4> QED BY <1>6, <3>1, <4>2, <4>3, OutstandingIs
    <3>3. CASE ~(i <= k)
      <4>1. PICK j \in 1..l2 : i = k + j BY <1>3, <3>3
      <4>2. o = Core(R2[j]) BY <1>2, <3>1, <4>1
      <4> QED BY <1>6, <4>2, OutstandingIs
    <3> QED BY <3>2, <3>3
  <2> QED BY <2>1, <2>2 DEF Outstanding
<1>9. H \cap A = {}
  <2>1. ASSUME NEW d \in H, d \in A PROVE FALSE
    <3>1. d.seq \in Nat /\ d.seq <= n - l /\ n - l < d.seq BY <1>4, <1>5, <2>1
    <3> QED BY <1>1, <3>1
  <2> QED BY <2>1
<1>10. After(A, R, R2, n) BY <1>5 DEF After
<1> QED BY <1>6, <1>7, <1>8, <1>9, <1>10 DEF Apart

-----------------------------------------------------------------------------
(* The steps of a peer *)

\* flagcxRmaProxyCompleteDesc of the descriptors D: they are in hand, or the
\* first k of the ring.
Retires(H, R, N, m, V, D, k, R2, H2) ==
  LET Q == NumbersOf(D) IN
  /\ Dropped(R, k, R2) /\ AreOf(D, Outstanding(H, R)) /\ FirstOf(R, k, Q) /\ Without(H, Q, H2)
  /\ \A h \in H : h.seq \in Q => h.getSequence <= m.visible
  /\ \A h \in H : h.seq \in Q /\ h.seq \in Seqs => N[h.seq] # "live"
  /\ \A d \in D : d.type = "get" /\ ~d.failed /\ d.seq \in Seqs => d.seq \in V

Tracked(sb, D) == TrackCompletion(sb, NumbersOf(D), Failed(D) # {})
Recorded(out, D) == [q \in Seqs |-> IF q \in NumbersOf(D) THEN Outcome(q, D) ELSE out[q]]

LEMMA RetireOK ==
  ASSUME NEW H, NEW R, NEW n, NEW sb, NEW done, NEW G, NEW N, NEW m, NEW V, NEW out,
         PeerOK(H, R, n, sb, done, G, N, m, V, out),
         NEW D, NEW k, NEW R2, NEW H2, Retires(H, R, N, m, V, D, k, R2, H2)
  PROVE  PeerOK(H2, R2, n, Tracked(sb, D), Tracked(sb, D).nextSequence - 1, Regrouped(G, D), N,
                m, V, Recorded(out, D))
<1> DEFINE Q == NumbersOf(D)
           sb2 == Tracked(sb, D)
           G2 == Regrouped(G, D)
           out2 == Recorded(out, D)
<1>0. /\ Dropped(R, k, R2) /\ AreOf(D, Outstanding(H, R)) /\ FirstOf(R, k, Q) /\ Without(H, Q, H2)
      /\ \A h \in H : h.seq \in Q => h.getSequence <= m.visible
      /\ \A h \in H : h.seq \in Q /\ h.seq \in Seqs => N[h.seq] # "live"
      /\ \A d \in D : d.type = "get" /\ ~d.failed /\ d.seq \in Seqs => d.seq \in V
  BY DEF Retires
<1> DEFINE O == Outstanding(H, R)
           O2 == Outstanding(H2, R2)
<1>1. /\ SeqOK(H, R, n) /\ TrackOK(O, sb, done) /\ LiveOK(H, R, n, N) /\ GroupOK(O, n, G)
      /\ SignalOK(G, N) /\ GetsOK(H, m, N) /\ FlushOK(H, m, V) /\ OutcomeOK(V, out)
  BY DEF PeerOK
<1>2. SeqOK(H2, R2, n) /\ Without(O, Q, O2) BY <1>0, <1>1, RetireSeq
<1>3. Numbered(O) /\ n \in Nat BY <1>1, OutstandingIs DEF SeqOK, Numbered
<1> HIDE DEF O, O2
<1>4. TrackOK(O2, sb2, sb2.nextSequence - 1)
  <2>1. (Failed(D) # {}) \in BOOLEAN OBVIOUS
  <2> QED BY <1>1, <1>2, <1>3, <2>1, RetireTrack DEF Tracked
<1>5. GroupOK(O2, n, G2) /\ SignalOK(G2, N)
  <2>1. AreOf(D, O) BY <1>0 DEF O
  <2> QED BY <1>1, <1>2, <1>3, <2>1, RetireGroups
<1>6. LiveOK(H2, R2, n, N)
  <2>1. ASSUME NEW q \in Seqs, N[q] = "live" PROVE \E d \in H2 : d.seq = q /\ ~d.flushPending
    <3>1. PICK d \in H : d.seq = q /\ ~d.flushPending BY <1>1, <2>1 DEF LiveOK
    <3>2. d.seq \notin Q BY <1>0, <2>1, <3>1
    <3> QED BY <1>0, <3>1, <3>2 DEF Without
  <2>2. ASSUME NEW q \in Seqs, N[q] # "unposted" PROVE q <= n - Len(R2)
    <3>1. q <= n - Len(R) BY <1>1, <2>2 DEF LiveOK
    <3>2. Len(R2) = Len(R) - k /\ k \in 0..Len(R) BY <1>0 DEF Dropped
    <3>3. Len(R) \in Nat /\ q \in Int BY <1>1, LenProperties DEF SeqOK, Seqs
    <3>4. k \in Nat BY <3>2, <3>3
    <3> QED BY <1>3, <3>1, <3>2, <3>3, <3>4
  <2>3. N \in [Seqs -> NicStates] BY <1>1 DEF LiveOK
  <2> QED BY <2>1, <2>2, <2>3 DEF LiveOK
<1>7. H2 \subseteq H BY <1>0 DEF Without
<1>8. GetsOK(H2, m, N) BY <1>1, <1>7 DEF GetsOK
<1>9. FlushOK(H2, m, V)
  <2>1. Within(H2, 1, m.visible, V) BY <1>1, <1>7 DEF FlushOK, Within
  <2>2. m.request => Within(H2, 1, m.target, m.snapshot \cup V) BY <1>1, <1>7 DEF FlushOK, Within
  <2>3. ASSUME ~m.request, m.target > m.visible
        PROVE  \E d \in H2 : d.getSequence \in m.visible+1..m.target /\ ~d.failed
    <3>1. PICK d \in H : d.getSequence \in m.visible+1..m.target /\ ~d.failed
      BY <1>1, <2>3 DEF FlushOK
    <3>2. m.visible \in Nat /\ m.target \in Nat BY <1>1 DEF GetsOK, Domain
    <3>3. ~(d.getSequence <= m.visible) BY <3>1, <3>2
    <3> QED BY <1>0, <3>1, <3>3 DEF Without
  <2> QED BY <2>1, <2>2, <2>3 DEF FlushOK
<1>10. OutcomeOK(V, out2)
  <2>1. ASSUME NEW q \in Seqs, out2[q] = "get" PROVE q \in V
    <3>1. CASE q \in Q
      <4> DEFINE d == CHOOSE e \in D : e.seq = q
      <4>1. d \in D /\ d.seq = q BY <3>1 DEF NumbersOf
      <4>2. out2[q] = IF d.failed THEN "error" ELSE d.type BY <3>1 DEF Outcome, Recorded
      <4> HIDE DEF d
      <4>3. ~d.failed /\ d.type = "get" BY <2>1, <4>2
      <4> QED BY <1>0, <4>1, <4>3
    <3>2. CASE q \notin Q BY <1>1, <2>1, <3>2 DEF OutcomeOK, Recorded
    <3> QED BY <3>1, <3>2
  <2> QED BY <2>1 DEF OutcomeOK
<1> QED BY <1>2, <1>4, <1>5, <1>6, <1>8, <1>9, <1>10 DEF PeerOK, O2

\* The adaptor takes descriptors, or one is queued with the error of its post.
Takes(H, R, G, N, m, A, k, R2, H2, N2, m2) ==
  /\ Dropped(R, k, R2) /\ Taken(A, R, k) /\ Joined(H, A, H2)
  /\ N2 \in [Seqs -> NicStates]
  /\ \A q \in Seqs : q \notin NumbersOf(A) => N2[q] = N[q]
  /\ \A a \in A : a.seq \in Seqs /\ a.seq \in DOMAIN G /\ N2[a.seq] # "unposted" =>
                   G[a.seq].pending = 0 /\ ~G[a.seq].firstError
  /\ m2 \in Domain /\ m2 = [m EXCEPT !.issued = m2.issued]
  /\ m.issued <= m2.issued /\ m2.issued <= m.issued + 1
  /\ \A a \in A : /\ ~a.flushPending
                  /\ a.getSequence = 0 \/ (A = {a} /\ a.getSequence = m.issued + 1
                                            /\ m2.issued = m.issued + 1)
                  /\ a.getSequence # 0 /\ a.seq \in Seqs => N2[a.seq] # "unposted"
                  /\ a.type = "get" /\ ~a.failed => a.getSequence # 0

LEMMA TakeOK ==
  ASSUME NEW H, NEW R, NEW n, NEW sb, NEW done, NEW G, NEW N, NEW m, NEW V, NEW out,
         PeerOK(H, R, n, sb, done, G, N, m, V, out),
         NEW A, NEW k, NEW R2, NEW H2, NEW N2, NEW m2, Takes(H, R, G, N, m, A, k, R2, H2, N2, m2)
  PROVE  PeerOK(H2, R2, n, sb, done, G, N2, m2, V, out) /\ Apart(H, A)
<1> USE DEF Takes, NumbersOf
<1>0. H2 = H \cup A BY DEF Joined
<1> DEFINE O == Outstanding(H, R)
           O2 == Outstanding(H2, R2)
<1>1. /\ SeqOK(H, R, n) /\ TrackOK(O, sb, done) /\ LiveOK(H, R, n, N) /\ GroupOK(O, n, G)
      /\ SignalOK(G, N) /\ GetsOK(H, m, N) /\ FlushOK(H, m, V) /\ OutcomeOK(V, out)
  BY DEF PeerOK
<1>2. /\ SeqOK(H2, R2, n) /\ O2 = O /\ H \cap A = {}
      /\ \A a \in A : n - Len(R) < a.seq /\ a.seq <= n - Len(R2)
  <2>1. SeqOK(H, R, n) /\ Dropped(R, k, R2) /\ Taken(A, R, k) /\ Joined(H, A, H2)
    BY <1>1
  <2> HIDE DEF Takes
  <2>2. SeqOK(H2, R2, n) /\ O2 = O /\ After(A, R, R2, n) /\ Apart(H, A)
    BY <2>1, TakeSeq
  <2> QED BY <2>2 DEF After, Apart
<1>3. /\ n \in Nat /\ Len(R) \in Nat /\ Len(R2) \in Nat /\ Len(R2) <= Len(R)
  <2>1. n \in Nat /\ Len(R) \in Nat BY <1>1, LenProperties DEF SeqOK
  <2>2. k \in 0..Len(R) /\ Len(R2) = Len(R) - k BY DEF Dropped
  <2> QED BY <2>1, <2>2
<1>4. ASSUME NEW d \in H PROVE d.seq \in Nat /\ d.getSequence \in Nat /\ d.seq <= n - Len(R)
  BY <1>1 DEF SeqOK, Request
<1>5. ASSUME NEW a \in A PROVE a.seq \in Nat /\ a.getSequence \in Nat BY DEF Taken, Request
<1>6. ASSUME NEW d \in H, d.seq \in Seqs PROVE N2[d.seq] = N[d.seq]
  <2>1. ASSUME NEW a \in A, d.seq = a.seq PROVE FALSE
    <3>1. n - Len(R) < a.seq /\ a.seq \in Nat BY <1>2, <1>5
    <3> QED BY <1>3, <1>4, <2>1, <3>1
  <2> QED BY <1>6, <2>1
<1>7. /\ m \in Domain /\ m.visible = m2.visible /\ m.target = m2.target
      /\ m.dataCompleted = m2.dataCompleted /\ m.request = m2.request
      /\ m.snapshot = m2.snapshot
  <2>1. m \in Domain BY <1>1 DEF GetsOK
  <2> QED BY <2>1 DEF Domain
<1>8. /\ m.visible \in Nat /\ m.target \in Nat /\ m.dataCompleted \in Nat /\ m.issued \in Nat
      /\ m2.issued \in Nat
      /\ m.visible <= m.target /\ m.target <= m.dataCompleted /\ m.dataCompleted <= m.issued
  BY <1>1 DEF GetsOK, Domain
<1> HIDE DEF O, O2
<1>9. LiveOK(H2, R2, n, N2)
  <2>1. ASSUME NEW q \in Seqs, N2[q] = "live" PROVE \E d \in H2 : d.seq = q /\ ~d.flushPending
    <3>1. CASE \E a \in A : a.seq = q BY <1>0, <3>1
    <3>2. CASE ~\E a \in A : a.seq = q
      <4>1. N[q] = "live" BY <2>1, <3>2
      <4>2. PICK d \in H : d.seq = q /\ ~d.flushPending BY <1>1, <4>1 DEF LiveOK
      <4> QED BY <1>0, <4>2
    <3> QED BY <3>1, <3>2
  <2>2. ASSUME NEW q \in Seqs, N2[q] # "unposted" PROVE q <= n - Len(R2)
    <3>1. CASE \E a \in A : a.seq = q BY <1>2, <3>1
    <3>2. CASE ~\E a \in A : a.seq = q
      <4>1. q <= n - Len(R) /\ q \in Int BY <1>1, <2>2, <3>2 DEF LiveOK, Seqs
      <4> QED BY <1>3, <4>1
    <3> QED BY <3>1, <3>2
  <2> QED BY <2>1, <2>2 DEF LiveOK
<1>10. SignalOK(G, N2)
  <2>1. ASSUME NEW r \in Seqs, r \in DOMAIN G, N2[r] # "unposted"
        PROVE  G[r].pending = 0 /\ ~G[r].firstError
    <3>1. CASE \E a \in A : a.seq = r BY <2>1, <3>1
    <3>2. CASE ~\E a \in A : a.seq = r BY <1>1, <2>1, <3>2 DEF SignalOK
    <3> QED BY <3>1, <3>2
  <2> QED BY <2>1 DEF SignalOK
<1>11. GetsOK(H2, m2, N2)
  <2>1. ASSUME NEW d \in H2, NEW e \in H2, d.getSequence = e.getSequence, d.getSequence # 0
        PROVE  d = e
    <3>1. CASE d \in H /\ e \in H BY <1>1, <2>1, <3>1 DEF GetsOK
    <3>2. CASE d \in A /\ e \in A BY <2>1, <3>2
    <3>3. CASE d \in H /\ e \in A
      <4>1. d.getSequence <= m.issued /\ e.getSequence = m.issued + 1
        BY <1>1, <2>1, <3>3 DEF GetsOK
      <4> QED BY <1>8, <2>1, <4>1
    <3>4. CASE d \in A /\ e \in H
      <4>1. e.getSequence <= m.issued /\ d.getSequence = m.issued + 1
        BY <1>1, <2>1, <3>4 DEF GetsOK
      <4> QED BY <1>8, <2>1, <4>1
    <3> QED BY <1>0, <3>1, <3>2, <3>3, <3>4
  <2>2. ASSUME NEW d \in H
        PROVE  /\ d.getSequence <= m2.issued
               /\ d.getSequence \in 1..m.dataCompleted => d.flushPending
               /\ d.flushPending => d.getSequence # 0
               /\ d.type = "get" /\ ~d.failed => d.getSequence # 0
               /\ d.getSequence # 0 /\ d.seq \in Seqs => N2[d.seq] # "unposted"
               /\ d.flushPending /\ ~d.failed /\ d.seq \in Seqs => N2[d.seq] = "ok"
    <3>1. /\ d.getSequence <= m.issued
          /\ d.getSequence \in 1..m.dataCompleted => d.flushPending
          /\ d.flushPending => d.getSequence # 0
          /\ d.type = "get" /\ ~d.failed => d.getSequence # 0
          /\ d.getSequence # 0 /\ d.seq \in Seqs => N[d.seq] # "unposted"
          /\ d.flushPending /\ ~d.failed /\ d.seq \in Seqs => N[d.seq] = "ok"
      BY <1>1 DEF GetsOK
    <3>2. d.getSequence <= m2.issued BY <1>4, <1>8, <3>1
    <3> QED BY <1>6, <3>1, <3>2
  <2>3. ASSUME NEW d \in A
        PROVE  /\ d.getSequence <= m2.issued
               /\ ~(d.getSequence \in 1..m.dataCompleted)
    <3>1. d.getSequence = 0 \/ (d.getSequence = m.issued + 1 /\ m2.issued = m.issued + 1)
      OBVIOUS
    <3> QED BY <1>8, <3>1
  <2>4. m2.visible <= m2.target /\ m2.target <= m2.dataCompleted /\ m2.dataCompleted <= m2.issued
    BY <1>7, <1>8
  <2>5. ASSUME NEW d \in H2
        PROVE  /\ d.getSequence <= m2.issued
               /\ d.getSequence \in 1..m2.dataCompleted => d.flushPending
               /\ d.flushPending => d.getSequence # 0
               /\ d.type = "get" /\ ~d.failed => d.getSequence # 0
               /\ d.getSequence # 0 /\ d.seq \in Seqs => N2[d.seq] # "unposted"
               /\ d.flushPending /\ ~d.failed /\ d.seq \in Seqs => N2[d.seq] = "ok"
    <3>1. CASE d \in H BY <1>7, <2>2, <3>1
    <3>2. CASE d \in A BY <1>7, <2>3, <3>2
    <3> QED BY <1>0, <3>1, <3>2
  <2> QED BY <2>1, <2>4, <2>5 DEF GetsOK
<1>12. FlushOK(H2, m2, V)
  <2>1. ASSUME NEW hi \in Nat, hi <= m.issued, NEW S, Within(H, 1, hi, S)
        PROVE  Within(H2, 1, hi, S)
    <3>1. ASSUME NEW d \in A PROVE d.getSequence \notin 1..hi
      <4>1. d.getSequence = 0 \/ d.getSequence = m.issued + 1 OBVIOUS
      <4> QED BY <1>8, <2>1, <4>1
    <3> QED BY <1>0, <2>1, <3>1 DEF Within
  <2>2. m.visible <= m.issued /\ m.target <= m.issued BY <1>8
  <2>3. Within(H2, 1, m.visible, V) BY <1>1, <1>8, <2>1, <2>2 DEF FlushOK
  <2>4. m.request => Within(H2, 1, m.target, m.snapshot \cup V)
    BY <1>1, <1>8, <2>1, <2>2 DEF FlushOK
  <2>5. ~m.request /\ m.target > m.visible =>
          \E d \in H2 : d.getSequence \in m.visible+1..m.target /\ ~d.failed
    BY <1>0, <1>1 DEF FlushOK
  <2> QED BY <1>7, <2>3, <2>4, <2>5 DEF FlushOK
<1> QED BY <1>1, <1>2, <1>9, <1>10, <1>11, <1>12 DEF PeerOK, O, O2, Apart

-----------------------------------------------------------------------------
(* Requests in hand change, and none comes or goes *)

Same(e, d) == Core(e) = Core(d) /\ e.getSequence = d.getSequence

Renewed(H, H2) ==
  /\ H2 \in SUBSET Request
  /\ \A e \in H2 : \E d \in H : Same(e, d)
  /\ \A d \in H : \E e \in H2 : Same(e, d)
  /\ \A d, e \in H2 : d.seq = e.seq => d = e

LEMMA RenewSeq ==
  ASSUME NEW H, NEW R, NEW n, SeqOK(H, R, n), NEW H2, Renewed(H, H2)
  PROVE  SeqOK(H2, R, n) /\ Outstanding(H2, R) = Outstanding(H, R)
<1>1. \A d \in H2 : 1 <= d.seq /\ d.seq <= n - Len(R)
  <2> TAKE e \in H2
  <2>1. PICK d \in H : Same(e, d) BY DEF Renewed
  <2>2. e.seq = d.seq BY <2>1 DEF Same, Core
  <2> QED BY <2>2 DEF SeqOK
<1>2. SeqOK(H2, R, n) BY <1>1 DEF SeqOK, Renewed
<1>3. {Core(d) : d \in H2} = {Core(d) : d \in H} BY DEF Renewed, Same
<1> QED BY <1>2, <1>3 DEF Outstanding

LEMMA RenewOK ==
  ASSUME NEW H, NEW R, NEW n, NEW sb, NEW done, NEW G, NEW N, NEW m, NEW V, NEW out,
         PeerOK(H, R, n, sb, done, G, N, m, V, out), NEW H2, Renewed(H, H2), NEW m2, NEW V2,
         LiveOK(H2, R, n, N), GetsOK(H2, m2, N), FlushOK(H2, m2, V2), V \subseteq V2
  PROVE  PeerOK(H2, R, n, sb, done, G, N, m2, V2, out)
<1>1. SeqOK(H2, R, n) /\ Outstanding(H2, R) = Outstanding(H, R) BY RenewSeq DEF PeerOK
<1>2. OutcomeOK(V2, out) BY DEF PeerOK, OutcomeOK
<1> QED BY <1>1, <1>2 DEF PeerOK

LEMMA SameRenews ==
  ASSUME NEW H, NEW R, NEW n, SeqOK(H, R, n)
  PROVE  Renewed(H, H)
BY DEF SeqOK, Renewed, Same

\* The first loop of flagcxRmaProxyPollNonPersistCompletion keeps a GET.
Kept(H, N, d, e, H2) ==
  /\ d \in H /\ ~d.flushPending /\ d.getSequence # 0 /\ e \in Request /\ Same(e, d)
  /\ d.seq \in Seqs => N[d.seq] \in {"unposted", "ok", "failed"}
  /\ e.failed <=> d.failed \/ N[d.seq] = "failed"
  /\ e.flushPending /\ H2 = (H \ {d}) \cup {e}

LEMMA KeepOK ==
  ASSUME NEW H, NEW R, NEW n, NEW sb, NEW done, NEW G, NEW N, NEW m, NEW V, NEW out,
         PeerOK(H, R, n, sb, done, G, N, m, V, out),
         NEW d, NEW e, NEW H2, Kept(H, N, d, e, H2)
  PROVE  PeerOK(H2, R, n, sb, done, G, N, m, V, out)
<1>1. /\ d \in H /\ ~d.flushPending /\ d.getSequence # 0 /\ e \in Request
      /\ d.seq \in Seqs => N[d.seq] \in {"unposted", "ok", "failed"}
      /\ e.failed <=> d.failed \/ N[d.seq] = "failed"
      /\ e.flushPending /\ H2 = (H \ {d}) \cup {e}
      /\ e.seq = d.seq /\ e.type = d.type /\ e.getSequence = d.getSequence /\ Same(e, d)
  BY DEF Kept, Same, Core
<1>2. /\ SeqOK(H, R, n) /\ LiveOK(H, R, n, N) /\ GetsOK(H, m, N) /\ FlushOK(H, m, V)
      /\ H \in SUBSET Request /\ \A x, y \in H : x.seq = y.seq => x = y
  BY DEF PeerOK, SeqOK
<1>3. Renewed(H, H2)
  <2>1. \A x \in H : Same(x, x) BY DEF Same
  <2>2. \A x \in H2 : \E y \in H : Same(x, y) BY <1>1, <2>1
  <2>3. \A y \in H : \E x \in H2 : Same(x, y) BY <1>1, <2>1
  <2>4. \A x, y \in H2 : x.seq = y.seq => x = y BY <1>1, <1>2
  <2>5. H2 \in SUBSET Request BY <1>1, <1>2
  <2> QED BY <2>2, <2>3, <2>4, <2>5 DEF Renewed
<1>4. LiveOK(H2, R, n, N)
  <2>1. ASSUME NEW q \in Seqs, N[q] = "live" PROVE \E x \in H2 : x.seq = q /\ ~x.flushPending
    <3>1. PICK x \in H : x.seq = q /\ ~x.flushPending BY <1>2, <2>1 DEF LiveOK
    <3>2. x # d BY <1>1, <2>1, <3>1
    <3> QED BY <1>1, <3>1, <3>2
  <2> QED BY <1>2, <2>1 DEF LiveOK
<1>5. GetsOK(H2, m, N)
  <2>1. ASSUME NEW x \in H2
        PROVE  /\ x.getSequence <= m.issued
               /\ x.getSequence \in 1..m.dataCompleted => x.flushPending
               /\ x.flushPending => x.getSequence # 0
               /\ x.type = "get" /\ ~x.failed => x.getSequence # 0
               /\ x.getSequence # 0 /\ x.seq \in Seqs => N[x.seq] # "unposted"
               /\ x.flushPending /\ ~x.failed /\ x.seq \in Seqs => N[x.seq] = "ok"
    <3>1. CASE x \in H BY <1>2, <3>1 DEF GetsOK
    <3>2. CASE x = e
      <4>1. /\ d.getSequence <= m.issued
            /\ d.seq \in Seqs => N[d.seq] # "unposted"
        BY <1>1, <1>2 DEF GetsOK
      <4>2. ~e.failed /\ e.seq \in Seqs => N[e.seq] = "ok" BY <1>1, <4>1
      <4> QED BY <1>1, <3>2, <4>1, <4>2
    <3> QED BY <1>1, <3>1, <3>2
  <2>2. ASSUME NEW x \in H2, NEW y \in H2, x.getSequence = y.getSequence, x.getSequence # 0
        PROVE  x = y
    <3>1. \A u, v \in H : u.getSequence = v.getSequence /\ u.getSequence # 0 => u = v
      BY <1>2 DEF GetsOK
    <3> QED BY <1>1, <2>2, <3>1
  <2> QED BY <1>2, <2>1, <2>2 DEF GetsOK
<1>6. FlushOK(H2, m, V)
  <2>1. ASSUME NEW lo, NEW hi, NEW S, Within(H, lo, hi, S) PROVE Within(H2, lo, hi, S)
    <3>1. ~e.failed => ~d.failed BY <1>1
    <3> QED BY <1>1, <2>1, <3>1 DEF Within
  <2>2. ASSUME ~m.request, m.target > m.visible
        PROVE  \E x \in H2 : x.getSequence \in m.visible+1..m.target /\ ~x.failed
    <3>1. PICK x \in H : x.getSequence \in m.visible+1..m.target /\ ~x.failed
      BY <1>2, <2>2 DEF FlushOK
    <3>2. x # d
      <4>1. /\ m.visible \in Nat /\ m.target \in Nat /\ m.dataCompleted \in Nat
            /\ m.target <= m.dataCompleted
        BY <1>2 DEF GetsOK, Domain
      <4>2. x.getSequence \in 1..m.dataCompleted BY <3>1, <4>1
      <4>3. x.flushPending BY <1>2, <4>2 DEF GetsOK
      <4> QED BY <1>1, <4>3
    <3> QED BY <1>1, <3>1, <3>2
  <2> QED BY <1>2, <2>1, <2>2 DEF FlushOK
<1> QED BY <1>3, <1>4, <1>5, <1>6, RenewOK

\* A flush fails the GETs it covers.
FailsIn(H, lo, hi, H2) ==
  H2 = {IF d.getSequence \in lo..hi THEN [d EXCEPT !.failed = TRUE] ELSE d : d \in H}

Fail(d, lo, hi) == IF d.getSequence \in lo..hi THEN [d EXCEPT !.failed = TRUE] ELSE d

LEMMA FailIs ==
  ASSUME NEW d \in Request, NEW lo, NEW hi
  PROVE  LET e == Fail(d, lo, hi) IN
         /\ e \in Request /\ Same(e, d) /\ e.seq = d.seq /\ e.type = d.type
         /\ e.getSequence = d.getSequence /\ e.flushPending = d.flushPending
         /\ ~e.failed => ~d.failed /\ d.getSequence \notin lo..hi
<1>1. CASE d.getSequence \in lo..hi
  <2>1. Fail(d, lo, hi) = [d EXCEPT !.failed = TRUE] BY <1>1 DEF Fail
  <2> QED BY <2>1 DEF Request, Same, Core
<1>2. CASE d.getSequence \notin lo..hi BY <1>2 DEF Fail, Same
<1> QED BY <1>1, <1>2

LEMMA FailOK ==
  ASSUME NEW H, NEW R, NEW n, NEW N, NEW m, SeqOK(H, R, n), LiveOK(H, R, n, N), GetsOK(H, m, N),
         NEW lo, NEW hi, NEW H2, FailsIn(H, lo, hi, H2)
  PROVE  /\ Renewed(H, H2) /\ LiveOK(H2, R, n, N) /\ GetsOK(H2, m, N)
         /\ \A e \in H2 : \E d \in H :
              /\ e.seq = d.seq /\ e.getSequence = d.getSequence
              /\ ~e.failed => ~d.failed /\ d.getSequence \notin lo..hi
<1>1. H \in SUBSET Request /\ \A d, e \in H : d.seq = e.seq => d = e BY DEF SeqOK
<1>2. H2 = {Fail(d, lo, hi) : d \in H} BY DEF FailsIn, Fail
<1>3. ASSUME NEW d \in H
      PROVE  LET e == Fail(d, lo, hi) IN
             /\ e \in Request /\ Same(e, d) /\ e.seq = d.seq /\ e.type = d.type
             /\ e.getSequence = d.getSequence /\ e.flushPending = d.flushPending
             /\ ~e.failed => ~d.failed /\ d.getSequence \notin lo..hi
             /\ e \in H2
  BY <1>1, <1>2, FailIs
<1>4. \A e \in H2 : \E d \in H : e = Fail(d, lo, hi) BY <1>2
<1>5. ASSUME NEW e \in H2
      PROVE  \E d \in H : /\ e \in Request /\ Same(e, d) /\ e.seq = d.seq /\ e.type = d.type
                          /\ e.getSequence = d.getSequence /\ e.flushPending = d.flushPending
                          /\ ~e.failed => ~d.failed /\ d.getSequence \notin lo..hi
                          /\ e = Fail(d, lo, hi)
  <2>1. PICK d \in H : e = Fail(d, lo, hi) BY <1>4
  <2> QED BY <1>3, <2>1
<1>6. Renewed(H, H2)
  <2>1. H2 \in SUBSET Request BY <1>5
  <2>2. \A e \in H2 : \E d \in H : Same(e, d) BY <1>5
  <2>3. \A d \in H : \E e \in H2 : Same(e, d) BY <1>3
  <2>4. \A d, e \in H2 : d.seq = e.seq => d = e BY <1>1, <1>5
  <2> QED BY <2>1, <2>2, <2>3, <2>4 DEF Renewed
<1>7. LiveOK(H2, R, n, N)
  <2>1. ASSUME NEW q \in Seqs, N[q] = "live" PROVE \E x \in H2 : x.seq = q /\ ~x.flushPending
    <3>1. PICK x \in H : x.seq = q /\ ~x.flushPending BY <2>1 DEF LiveOK
    <3> QED BY <1>3, <3>1
  <2> QED BY <2>1 DEF LiveOK
<1>8. GetsOK(H2, m, N)
  <2>1. ASSUME NEW e \in H2
        PROVE  /\ e.getSequence <= m.issued
               /\ e.getSequence \in 1..m.dataCompleted => e.flushPending
               /\ e.flushPending => e.getSequence # 0
               /\ e.type = "get" /\ ~e.failed => e.getSequence # 0
               /\ e.getSequence # 0 /\ e.seq \in Seqs => N[e.seq] # "unposted"
               /\ e.flushPending /\ ~e.failed /\ e.seq \in Seqs => N[e.seq] = "ok"
    <3>1. PICK d \in H : /\ e.seq = d.seq /\ e.type = d.type
                         /\ e.getSequence = d.getSequence /\ e.flushPending = d.flushPending
                         /\ ~e.failed => ~d.failed
      BY <1>5
    <3>2. /\ d.getSequence <= m.issued
          /\ d.getSequence \in 1..m.dataCompleted => d.flushPending
          /\ d.flushPending => d.getSequence # 0
          /\ d.type = "get" /\ ~d.failed => d.getSequence # 0
          /\ d.getSequence # 0 /\ d.seq \in Seqs => N[d.seq] # "unposted"
          /\ d.flushPending /\ ~d.failed /\ d.seq \in Seqs => N[d.seq] = "ok"
      BY DEF GetsOK
    <3> QED BY <3>1, <3>2
  <2>2. ASSUME NEW x \in H2, NEW y \in H2, x.getSequence = y.getSequence, x.getSequence # 0
        PROVE  x = y
    <3>1. PICK d \in H : x = Fail(d, lo, hi) /\ x.getSequence = d.getSequence BY <1>5
    <3>2. PICK e \in H : y = Fail(e, lo, hi) /\ y.getSequence = e.getSequence BY <1>5
    <3>3. d = e BY <2>2, <3>1, <3>2 DEF GetsOK
    <3> QED BY <3>1, <3>2, <3>3
  <2> QED BY <2>1, <2>2 DEF GetsOK
<1> QED BY <1>5, <1>6, <1>7, <1>8

-----------------------------------------------------------------------------
(* The visibility domain *)

DomainIs(m, issued, dataCompleted, target, vis, request, snapshot) ==
  m = [issued |-> issued, dataCompleted |-> dataCompleted, target |-> target,
       visible |-> vis, request |-> request, snapshot |-> snapshot]

\* All GETs up to number c are complete.
PrefixIs(H, m, c) ==
  /\ c \in Nat /\ m.dataCompleted <= c /\ c <= m.issued
  /\ \A g \in m.dataCompleted+1..c : \E d \in H : d.getSequence = g /\ d.flushPending

\* The domain's new numbers are in order.
LEMMA NewNumbers ==
  ASSUME NEW H, NEW m, NEW N, GetsOK(H, m, N), H \in SUBSET Request,
         NEW c, PrefixIs(H, m, c), NEW t \in Nat, NEW v \in Nat, v <= t, t <= c,
         NEW b \in BOOLEAN, NEW S \in SUBSET Seqs, NEW m2, DomainIs(m2, m.issued, c, t, v, b, S)
  PROVE  GetsOK(H, m2, N)
<1>1. /\ m2.issued = m.issued /\ m2.dataCompleted = c /\ m2.target = t /\ m2.visible = v
      /\ m.issued \in Nat /\ m.dataCompleted \in Nat /\ c \in Nat /\ c <= m.issued
  BY DEF DomainIs, GetsOK, Domain, PrefixIs
<1>2. m2 \in Domain BY <1>1 DEF DomainIs, Domain
<1>3. ASSUME NEW d \in H, d.getSequence \in 1..c PROVE d.flushPending
  <2>1. d.getSequence \in Nat BY DEF Request
  <2>2. CASE d.getSequence <= m.dataCompleted
    <3>1. d.getSequence \in 1..m.dataCompleted BY <1>1, <1>3, <2>1, <2>2
    <3> QED BY <3>1 DEF GetsOK
  <2>3. CASE d.getSequence > m.dataCompleted
    <3>1. d.getSequence \in m.dataCompleted+1..c /\ d.getSequence # 0 BY <1>1, <1>3, <2>1, <2>3
    <3>2. PICK e \in H : e.getSequence = d.getSequence /\ e.flushPending BY <3>1 DEF PrefixIs
    <3>3. d = e BY <3>1, <3>2 DEF GetsOK
    <3> QED BY <3>2, <3>3
  <2> QED BY <1>1, <2>1, <2>2, <2>3
<1> QED BY <1>1, <1>2, <1>3 DEF GetsOK

\* flagcxRmaProxyProgressGetVisibilityDomain, first part.
TestSteps(H, m, V, H2, m2, V2) ==
  \E c :
    /\ PrefixIs(H, m, c)
    /\ \/ /\ H2 = H /\ V2 = V
          /\ DomainIs(m2, m.issued, c, m.target, m.visible, m.request, m.snapshot)
       \/ /\ m.request /\ H2 = H /\ V2 = V \cup m.snapshot
          /\ DomainIs(m2, m.issued, c, m.target, m.target, FALSE, m.snapshot)
       \/ /\ m.request /\ FailsIn(H, m.visible + 1, m.target, H2) /\ V2 = V
          /\ DomainIs(m2, m.issued, c, m.target, m.target, FALSE, m.snapshot)

LEMMA TestOK ==
  ASSUME NEW H, NEW R, NEW n, NEW sb, NEW done, NEW G, NEW N, NEW m, NEW V, NEW out,
         PeerOK(H, R, n, sb, done, G, N, m, V, out),
         NEW H2, NEW m2, NEW V2, TestSteps(H, m, V, H2, m2, V2)
  PROVE  PeerOK(H2, R, n, sb, done, G, N, m2, V2, out)
<1>1. /\ SeqOK(H, R, n) /\ LiveOK(H, R, n, N) /\ GetsOK(H, m, N) /\ FlushOK(H, m, V)
      /\ H \in SUBSET Request /\ Renewed(H, H)
  BY SameRenews DEF PeerOK, SeqOK
<1>2. /\ m.issued \in Nat /\ m.dataCompleted \in Nat /\ m.target \in Nat /\ m.visible \in Nat
      /\ m.request \in BOOLEAN /\ m.snapshot \in SUBSET Seqs
      /\ m.visible <= m.target /\ m.target <= m.dataCompleted
  BY <1>1 DEF GetsOK, Domain
<1>3. PICK c :
        /\ PrefixIs(H, m, c)
        /\ \/ /\ H2 = H /\ V2 = V
              /\ DomainIs(m2, m.issued, c, m.target, m.visible, m.request, m.snapshot)
           \/ /\ m.request /\ H2 = H /\ V2 = V \cup m.snapshot
              /\ DomainIs(m2, m.issued, c, m.target, m.target, FALSE, m.snapshot)
           \/ /\ m.request /\ FailsIn(H, m.visible + 1, m.target, H2) /\ V2 = V
              /\ DomainIs(m2, m.issued, c, m.target, m.target, FALSE, m.snapshot)
  BY DEF TestSteps
<1>4. m.target <= c /\ m.target <= m.target
  <2>1. c \in Nat /\ m.dataCompleted <= c BY <1>3 DEF PrefixIs
  <2> QED BY <1>2, <2>1
<1>5. CASE /\ H2 = H /\ V2 = V
           /\ DomainIs(m2, m.issued, c, m.target, m.visible, m.request, m.snapshot)
  <2>1. GetsOK(H, m2, N) BY <1>1, <1>2, <1>3, <1>4, <1>5, NewNumbers
  <2>2. FlushOK(H, m2, V) BY <1>1, <1>5 DEF FlushOK, DomainIs
  <2> QED BY <1>1, <1>5, <2>1, <2>2, RenewOK
<1>6. CASE /\ m.request /\ H2 = H /\ V2 = V \cup m.snapshot
           /\ DomainIs(m2, m.issued, c, m.target, m.target, FALSE, m.snapshot)
  <2>1. GetsOK(H, m2, N)
    <3>1. FALSE \in BOOLEAN OBVIOUS
    <3> QED BY <1>1, <1>2, <1>3, <1>4, <1>6, <3>1, NewNumbers
  <2>2. m2.target = m.target /\ m2.visible = m.target /\ ~m2.request BY <1>6 DEF DomainIs
  <2>3. Within(H, 1, m.target, V2) BY <1>1, <1>6 DEF FlushOK, Within
  <2>4. ~(m2.target > m2.visible) BY <1>2, <2>2
  <2>5. FlushOK(H, m2, V2) BY <2>2, <2>3, <2>4 DEF FlushOK
  <2>6. V \subseteq V2 BY <1>6
  <2> QED BY <1>1, <1>6, <2>1, <2>5, <2>6, RenewOK
<1>7. CASE /\ m.request /\ FailsIn(H, m.visible + 1, m.target, H2) /\ V2 = V
           /\ DomainIs(m2, m.issued, c, m.target, m.target, FALSE, m.snapshot)
  <2>1. /\ Renewed(H, H2) /\ LiveOK(H2, R, n, N)
        /\ \A e \in H2 : \E d \in H :
             /\ e.seq = d.seq /\ e.getSequence = d.getSequence
             /\ ~e.failed => ~d.failed /\ d.getSequence \notin m.visible + 1..m.target
    BY <1>1, <1>7, FailOK
  <2>2. GetsOK(H, m2, N)
    <3>1. FALSE \in BOOLEAN OBVIOUS
    <3> QED BY <1>1, <1>2, <1>3, <1>4, <1>7, <3>1, NewNumbers
  <2>3. GetsOK(H2, m2, N) BY <1>1, <1>7, <2>2, FailOK
  <2>4. m2.target = m.target /\ m2.visible = m.target /\ ~m2.request BY <1>7 DEF DomainIs
  <2>5. Within(H2, 1, m.target, V)
    <3>1. ASSUME NEW e \in H2, e.getSequence \in 1..m.target, ~e.failed, e.seq \in Seqs
          PROVE  e.seq \in V
      <4>1. PICK d \in H : /\ e.seq = d.seq /\ e.getSequence = d.getSequence
                           /\ ~e.failed => ~d.failed /\ d.getSequence \notin m.visible + 1..m.target
        BY <2>1
      <4>2. d.getSequence \in 1..m.visible BY <1>2, <3>1, <4>1
      <4> QED BY <1>1, <3>1, <4>1, <4>2 DEF FlushOK, Within
    <3> QED BY <3>1 DEF Within
  <2>6. ~(m2.target > m2.visible) BY <1>2, <2>4
  <2>7. FlushOK(H2, m2, V2) BY <1>7, <2>4, <2>5, <2>6 DEF FlushOK
  <2>8. V \subseteq V2 BY <1>7
  <2> QED BY <2>1, <2>3, <2>7, <2>8, RenewOK
<1> QED BY <1>3, <1>5, <1>6, <1>7

\* Second part: nothing is left to flush, or a flush is refused for now, under
\* way, done at once, or fails.
PostSteps(H, N, m, V, H2, m2, V2) ==
  LET target == FlushTarget(m)
      range == {d \in H : d.getSequence \in m.visible + 1 .. target /\ ~d.failed}
      arrived == {q \in Seqs : N[q] = "ok"}
      c == m.dataCompleted
  IN
  /\ ~m.request /\ m.visible < c
  /\ \/ /\ range = {} /\ H2 = H /\ V2 = V
        /\ DomainIs(m2, m.issued, c, c, c, m.request, m.snapshot)
     \/ /\ range # {} /\ H2 = H /\ V2 = V
        /\ DomainIs(m2, m.issued, c, target, m.visible, FALSE, arrived)
     \/ /\ H2 = H /\ V2 = V
        /\ DomainIs(m2, m.issued, c, target, m.visible, TRUE, arrived)
     \/ /\ H2 = H /\ V2 = V \cup arrived
        /\ DomainIs(m2, m.issued, c, target, target, FALSE, arrived)
     \/ /\ FailsIn(H, m.visible + 1, target, H2) /\ V2 = V
        /\ DomainIs(m2, m.issued, c, target, target, FALSE, arrived)

LEMMA PostOK ==
  ASSUME NEW H, NEW R, NEW n, NEW sb, NEW done, NEW G, NEW N, NEW m, NEW V, NEW out,
         PeerOK(H, R, n, sb, done, G, N, m, V, out),
         NEW H2, NEW m2, NEW V2, PostSteps(H, N, m, V, H2, m2, V2)
  PROVE  PeerOK(H2, R, n, sb, done, G, N, m2, V2, out)
<1> DEFINE target == FlushTarget(m)
           range == {d \in H : d.getSequence \in m.visible + 1 .. target /\ ~d.failed}
           arrived == {q \in Seqs : N[q] = "ok"}
           c == m.dataCompleted
<1>1. /\ SeqOK(H, R, n) /\ LiveOK(H, R, n, N) /\ GetsOK(H, m, N) /\ FlushOK(H, m, V)
      /\ H \in SUBSET Request /\ Renewed(H, H) /\ V \subseteq V
  BY SameRenews DEF PeerOK, SeqOK
<1>2. /\ m.issued \in Nat /\ c \in Nat /\ m.target \in Nat /\ m.visible \in Nat
      /\ m.request \in BOOLEAN /\ m.snapshot \in SUBSET Seqs
      /\ m.visible <= m.target /\ m.target <= c /\ c <= m.issued
  BY <1>1 DEF GetsOK, Domain
<1>3. ~m.request /\ m.visible < c BY DEF PostSteps
<1>4. target \in Nat /\ m.visible < target /\ target <= c /\ m.visible <= target
  BY <1>2, <1>3 DEF FlushTarget
<1>5. PrefixIs(H, m, c) /\ c <= c /\ target <= target BY <1>2, <1>4 DEF PrefixIs
<1>6. arrived \in SUBSET Seqs /\ TRUE \in BOOLEAN /\ FALSE \in BOOLEAN OBVIOUS
<1>7. Within(H, m.visible + 1, target, arrived)
  <2>1. ASSUME NEW d \in H, d.getSequence \in m.visible + 1 .. target, ~d.failed, d.seq \in Seqs
        PROVE  d.seq \in arrived
    <3>1. d.getSequence \in 1..c BY <1>2, <1>4, <2>1
    <3>2. d.flushPending BY <1>1, <3>1 DEF GetsOK
    <3> QED BY <1>1, <2>1, <3>2 DEF GetsOK
  <2> QED BY <2>1 DEF Within
<1>8. ASSUME NEW hi \in Nat, NEW S, Within(H, m.visible + 1, hi, S) PROVE Within(H, 1, hi, S \cup V)
  <2>1. ASSUME NEW d \in H, d.getSequence \in 1..hi, ~d.failed, d.seq \in Seqs
        PROVE  d.seq \in S \cup V
    <3>1. CASE d.getSequence <= m.visible
      <4>1. d.getSequence \in 1..m.visible BY <1>2, <2>1, <3>1
      <4> QED BY <1>1, <2>1, <4>1 DEF FlushOK, Within
    <3>2. CASE ~(d.getSequence <= m.visible)
      <4>1. d.getSequence \in m.visible + 1..hi BY <1>2, <2>1, <3>2
      <4> QED BY <1>8, <2>1, <4>1 DEF Within
    <3> QED BY <3>1, <3>2
  <2> QED BY <2>1 DEF Within
<1> HIDE DEF target
<1>9. CASE /\ range = {} /\ H2 = H /\ V2 = V
           /\ DomainIs(m2, m.issued, c, c, c, m.request, m.snapshot)
  <2>1. ~(m.target > m.visible)
    <3>1. ASSUME m.target > m.visible PROVE FALSE
      <4>1. target = m.target BY <3>1 DEF FlushTarget, target
      <4>2. \E d \in H : d.getSequence \in m.visible+1..m.target /\ ~d.failed
        BY <1>1, <1>3, <3>1 DEF FlushOK
      <4> QED BY <1>9, <4>1, <4>2
    <3> QED BY <3>1
  <2>2. target = c BY <2>1 DEF FlushTarget, target
  <2>3. Within(H, m.visible + 1, c, {}) BY <1>9, <2>2 DEF Within
  <2>4. Within(H, 1, c, {} \cup V) BY <1>2, <1>8, <2>3
  <2>5. {} \cup V = V OBVIOUS
  <2>6. m2.target = c /\ m2.visible = c /\ m2.request = m.request BY <1>9 DEF DomainIs
  <2>7. ~(m2.target > m2.visible) BY <1>2, <2>6
  <2>8. FlushOK(H, m2, V) BY <1>3, <2>4, <2>5, <2>6, <2>7 DEF FlushOK
  <2>9. GetsOK(H, m2, N) BY <1>1, <1>2, <1>5, <1>9, NewNumbers
  <2> QED BY <1>1, <1>9, <2>8, <2>9, RenewOK
<1>10. CASE /\ range # {} /\ H2 = H /\ V2 = V
            /\ DomainIs(m2, m.issued, c, target, m.visible, FALSE, arrived)
  <2>1. m2.target = target /\ m2.visible = m.visible /\ ~m2.request BY <1>10 DEF DomainIs
  <2>2. \E d \in H : d.getSequence \in m.visible+1..target /\ ~d.failed BY <1>10
  <2>3. FlushOK(H, m2, V) BY <1>1, <2>1, <2>2 DEF FlushOK
  <2>4. GetsOK(H, m2, N) BY <1>1, <1>2, <1>4, <1>5, <1>6, <1>10, NewNumbers
  <2> QED BY <1>1, <1>10, <2>3, <2>4, RenewOK
<1>11. CASE /\ H2 = H /\ V2 = V
            /\ DomainIs(m2, m.issued, c, target, m.visible, TRUE, arrived)
  <2>1. /\ m2.target = target /\ m2.visible = m.visible /\ m2.request /\ m2.snapshot = arrived
    BY <1>11 DEF DomainIs
  <2>2. Within(H, 1, target, arrived \cup V) BY <1>4, <1>7, <1>8
  <2>3. Within(H, 1, m.visible, V) BY <1>1 DEF FlushOK
  <2>4. FlushOK(H, m2, V) BY <2>1, <2>2, <2>3 DEF FlushOK
  <2>5. GetsOK(H, m2, N) BY <1>1, <1>2, <1>4, <1>5, <1>6, <1>11, NewNumbers
  <2> QED BY <1>1, <1>11, <2>4, <2>5, RenewOK
<1>12. CASE /\ H2 = H /\ V2 = V \cup arrived
            /\ DomainIs(m2, m.issued, c, target, target, FALSE, arrived)
  <2>1. m2.target = target /\ m2.visible = target /\ ~m2.request BY <1>12 DEF DomainIs
  <2>2. Within(H, 1, target, arrived \cup V) BY <1>4, <1>7, <1>8
  <2>3. arrived \cup V = V2 /\ V \subseteq V2 BY <1>12
  <2>4. ~(m2.target > m2.visible) BY <1>4, <2>1
  <2>5. FlushOK(H, m2, V2) BY <2>1, <2>2, <2>3, <2>4 DEF FlushOK
  <2>6. GetsOK(H, m2, N) BY <1>1, <1>2, <1>4, <1>5, <1>6, <1>12, NewNumbers
  <2> QED BY <1>1, <1>12, <2>3, <2>5, <2>6, RenewOK
<1>13. CASE /\ FailsIn(H, m.visible + 1, target, H2) /\ V2 = V
            /\ DomainIs(m2, m.issued, c, target, target, FALSE, arrived)
  <2>1. /\ Renewed(H, H2) /\ LiveOK(H2, R, n, N)
        /\ \A e \in H2 : \E d \in H :
             /\ e.seq = d.seq /\ e.getSequence = d.getSequence
             /\ ~e.failed => ~d.failed /\ d.getSequence \notin m.visible + 1..target
    BY <1>1, <1>13, FailOK
  <2>2. GetsOK(H, m2, N) BY <1>1, <1>2, <1>4, <1>5, <1>6, <1>13, NewNumbers
  <2>3. GetsOK(H2, m2, N) BY <1>1, <1>13, <2>2, FailOK
  <2>4. m2.target = target /\ m2.visible = target /\ ~m2.request BY <1>13 DEF DomainIs
  <2>5. Within(H2, 1, target, V)
    <3>1. ASSUME NEW e \in H2, e.getSequence \in 1..target, ~e.failed, e.seq \in Seqs
          PROVE  e.seq \in V
      <4>1. PICK d \in H : /\ e.seq = d.seq /\ e.getSequence = d.getSequence
                           /\ ~e.failed => ~d.failed /\ d.getSequence \notin m.visible + 1..target
        BY <2>1
      <4>2. d.getSequence \in 1..m.visible BY <1>2, <1>4, <3>1, <4>1
      <4> QED BY <1>1, <3>1, <4>1, <4>2 DEF FlushOK, Within
    <3> QED BY <3>1 DEF Within
  <2>6. ~(m2.target > m2.visible) BY <1>4, <2>4
  <2>7. FlushOK(H2, m2, V2) BY <1>13, <2>4, <2>5, <2>6 DEF FlushOK
  <2>8. V \subseteq V2 BY <1>13
  <2> QED BY <2>1, <2>3, <2>7, <2>8, RenewOK
<1> QED BY <1>9, <1>10, <1>11, <1>12, <1>13 DEF PostSteps, target

\* A domain without GETs starts again.
LEMMA ResetOK ==
  ASSUME NEW H, NEW R, NEW n, NEW sb, NEW done, NEW G, NEW N, NEW m, NEW V, NEW out,
         PeerOK(H, R, n, sb, done, G, N, m, V, out),
         \A d \in H : d.getSequence \notin 1..m.issued
  PROVE  PeerOK(H, R, n, sb, done, G, N, NoDomain, V, out)
<1>1. SeqOK(H, R, n) /\ GetsOK(H, m, N) /\ LiveOK(H, R, n, N) /\ H \in SUBSET Request
      /\ Renewed(H, H) /\ V \subseteq V
  BY SameRenews DEF PeerOK, SeqOK
<1>2. ASSUME NEW d \in H PROVE d.getSequence = 0
  <2>1. d.getSequence \in Nat /\ d.getSequence <= m.issued BY <1>1 DEF GetsOK, Request
  <2>2. d.getSequence \notin 1..m.issued /\ m.issued \in Nat BY <1>1 DEF GetsOK, Domain
  <2> QED BY <2>1, <2>2
<1>3. /\ NoDomain.issued = 0 /\ NoDomain.dataCompleted = 0 /\ NoDomain.target = 0
      /\ NoDomain.visible = 0 /\ ~NoDomain.request
  BY DEF NoDomain
<1>4. NoDomain \in Domain BY DEF NoDomain, Domain
<1>5. GetsOK(H, NoDomain, N)
  <2>1. ASSUME NEW d \in H
        PROVE  /\ d.getSequence <= 0
               /\ d.getSequence \in 1..0 => d.flushPending
               /\ d.flushPending => d.getSequence # 0
               /\ d.type = "get" /\ ~d.failed => d.getSequence # 0
               /\ d.getSequence # 0 /\ d.seq \in Seqs => N[d.seq] # "unposted"
               /\ d.flushPending /\ ~d.failed /\ d.seq \in Seqs => N[d.seq] = "ok"
    <3>1. /\ d.flushPending => d.getSequence # 0
          /\ d.type = "get" /\ ~d.failed => d.getSequence # 0
      BY <1>1 DEF GetsOK
    <3>2. d.getSequence = 0 BY <1>2
    <3> QED BY <3>1, <3>2
  <2>2. \A d, e \in H : d.getSequence = e.getSequence /\ d.getSequence # 0 => d = e BY <1>2
  <2> QED BY <1>3, <1>4, <2>1, <2>2 DEF GetsOK
<1>6. FlushOK(H, NoDomain, V)
  <2>1. Within(H, 1, 0, V) BY <1>2 DEF Within
  <2> QED BY <1>3, <2>1 DEF FlushOK
<1> QED BY <1>1, <1>5, <1>6, RenewOK

-----------------------------------------------------------------------------
(* The network and the producers *)

LEMMA NicOK ==
  ASSUME NEW H, NEW R, NEW n, NEW sb, NEW done, NEW G, NEW N, NEW m, NEW V, NEW out,
         PeerOK(H, R, n, sb, done, G, N, m, V, out),
         NEW q \in Seqs, N[q] = "live", NEW r \in {"ok", "failed"},
         NEW N2, N2 = [N EXCEPT ![q] = r]
  PROVE  PeerOK(H, R, n, sb, done, G, N2, m, V, out)
<1>1. /\ SeqOK(H, R, n) /\ LiveOK(H, R, n, N) /\ GetsOK(H, m, N) /\ SignalOK(G, N)
      /\ \A x, y \in H : x.seq = y.seq => x = y
  BY DEF PeerOK, SeqOK
<1>2. N \in [Seqs -> NicStates] BY <1>1 DEF LiveOK
<1>3. /\ N2 \in [Seqs -> NicStates] /\ N2[q] = r /\ \A x \in Seqs : x # q => N2[x] = N[x]
  BY <1>2 DEF NicStates
<1>4. \A x \in Seqs : /\ N2[x] = "live" => N[x] = "live"
                      /\ N2[x] # "unposted" <=> N[x] # "unposted"
  BY <1>3
<1>5. LiveOK(H, R, n, N2) BY <1>1, <1>3, <1>4 DEF LiveOK
<1>6. SignalOK(G, N2) BY <1>1, <1>4 DEF SignalOK
<1>7. PICK h \in H : h.seq = q /\ ~h.flushPending BY <1>1 DEF LiveOK
<1>8. ASSUME NEW d \in H, d.flushPending, ~d.failed, d.seq \in Seqs PROVE N2[d.seq] = "ok"
  <2>1. d.seq # q BY <1>1, <1>7, <1>8
  <2>2. N[d.seq] = "ok" BY <1>1, <1>8 DEF GetsOK
  <2> QED BY <1>3, <1>8, <2>1, <2>2
<1>9. GetsOK(H, m, N2)
  <2>1. ASSUME NEW d \in H
        PROVE  /\ d.getSequence <= m.issued
               /\ d.getSequence \in 1..m.dataCompleted => d.flushPending
               /\ d.flushPending => d.getSequence # 0
               /\ d.type = "get" /\ ~d.failed => d.getSequence # 0
               /\ d.getSequence # 0 /\ d.seq \in Seqs => N2[d.seq] # "unposted"
               /\ d.flushPending /\ ~d.failed /\ d.seq \in Seqs => N2[d.seq] = "ok"
    BY <1>1, <1>4, <1>8 DEF GetsOK
  <2> QED BY <1>1, <2>1 DEF GetsOK
<1> QED BY <1>5, <1>6, <1>9 DEF PeerOK

\* The descriptors of a call.
LEMMA NewDescsAre ==
  ASSUME NEW c \in Calls, c.op \in Enqueues, NEW n \in Nat
  PROVE  LET k == Descs(c)
             S == NewDescs(c, n + 1)
         IN  /\ k \in Nat /\ (c.op = "signal" => k = c.n + 1) /\ c.n \in Nat
             /\ S \in Seq(Desc) /\ Len(S) = k
             /\ \A j \in 1..k :
                  /\ S[j].seq = n + j
                  /\ S[j].type = "put" => ~S[j].event
                  /\ S[j].group = IF c.op = "signal" THEN n + k ELSE 0
                  /\ S[j].type = "release" <=> c.op = "signal" /\ j = k
<1> DEFINE k == Descs(c)
           q == n + 1
           S == NewDescs(c, q)
           group == IF c.op = "signal" THEN q + k - 1 ELSE 0
           ev == c.op = "ipcget" \/ (c.op = "get" /\ c.stream)
           ty(j) == CASE c.op \in {"get", "ipcget"} -> c.op
                      [] c.op = "signal" /\ j = k -> "release"
                      [] OTHER -> "put"
           d(j) == [seq |-> q + j - 1, type |-> ty(j), group |-> group, event |-> ev]
<1>1. c.n \in Nat /\ c.stream \in BOOLEAN BY DEF Calls
<1>2. k \in Nat /\ (c.op = "signal" => k = c.n + 1) BY <1>1 DEF Descs, Enqueues
<1>3. ev \in BOOLEAN BY <1>1
<1>4. S = [j \in 1..k |-> d(j)] BY DEF NewDescs
<1>5. group \in Nat /\ group = IF c.op = "signal" THEN n + k ELSE 0
  <2> HIDE DEF k
  <2> QED BY <1>2
<1>6. ASSUME NEW j \in 1..k
      PROVE  /\ ty(j) \in DescTypes /\ (ty(j) = "put" => ~ev)
             /\ ty(j) = "release" <=> c.op = "signal" /\ j = k
  <2> HIDE DEF k
  <2> QED BY DEF DescTypes, Enqueues
<1> HIDE DEF k, group, ev, ty, S
<1>7. ASSUME NEW j \in 1..k
      PROVE  /\ d(j) \in Desc /\ d(j).seq = n + j /\ d(j).type = ty(j) /\ d(j).group = group
             /\ d(j).event = ev
  <2>1. q + j - 1 = n + j /\ n + j \in Nat BY <1>2
  <2> QED BY <1>3, <1>5, <1>6, <2>1 DEF Desc
<1>8. S \in [1..k -> Desc] /\ \A j \in 1..k : S[j] = d(j) BY <1>4, <1>7
<1> HIDE DEF d
<1>9. S \in Seq(Desc) /\ Len(S) = k BY <1>2, <1>8, SeqDef
<1> QED BY <1>1, <1>2, <1>5, <1>6, <1>7, <1>8, <1>9 DEF k, S, q

\* S are k new descriptors, after number n.
Follows(S, n, k) ==
  /\ n \in Nat /\ k \in Nat /\ S \in Seq(Desc) /\ Len(S) = k
  /\ \A j \in 1..k : S[j].seq = n + j /\ (S[j].type = "put" => ~S[j].event)

LEMMA AppendSeq ==
  ASSUME NEW H, NEW R, NEW n, SeqOK(H, R, n), NEW S, NEW k, Follows(S, n, k)
  PROVE  /\ SeqOK(H, R \o S, n + k) /\ Len(R \o S) = Len(R) + k
         /\ Outstanding(H, R \o S) = Outstanding(H, R) \cup {Core(S[j]) : j \in 1..k}
<1> DEFINE l == Len(R)
           R2 == R \o S
<1>1. /\ n \in Nat /\ k \in Nat /\ R \in Seq(Desc) /\ S \in Seq(Desc) /\ Len(S) = k
      /\ l \in Nat /\ l <= n
  BY LenProperties DEF SeqOK, Follows
<1>2. R2 \in Seq(Desc) /\ Len(R2) = l + k BY <1>1, ConcatProperties
<1>3. \A i \in 1 .. Len(R) + Len(S) : (R \o S)[i] = IF i <= Len(R) THEN R[i] ELSE S[i - Len(R)]
  BY <1>1, ConcatProperties, Zenon
<1>4. ASSUME NEW i \in 1..l PROVE R2[i] = R[i] /\ i \in 1..l + k
  <2>1. i \in 1 .. Len(R) + Len(S) /\ i <= Len(R) BY <1>1
  <2> QED BY <1>1, <1>3, <2>1
<1>5. ASSUME NEW j \in 1..k PROVE R2[l + j] = S[j] /\ l + j \in 1..l + k
  <2>1. l + j \in 1 .. Len(R) + Len(S) /\ ~(l + j <= Len(R)) /\ (l + j) - Len(R) = j BY <1>1
  <2>2. R2[l + j] = S[(l + j) - Len(R)] BY <1>3, <2>1
  <2> QED BY <1>1, <2>1, <2>2
<1>6. ASSUME NEW i \in 1..l + k PROVE i \in 1..l \/ \E j \in 1..k : i = l + j
  <2>1. CASE i <= l BY <1>1, <2>1
  <2>2. CASE ~(i <= l)
    <3>1. i - l \in 1..k /\ i = l + (i - l) BY <1>1, <2>2
    <3> QED BY <3>1
  <2> QED BY <2>1, <2>2
<1> HIDE DEF R2
<1>7. SeqOK(H, R2, n + k)
  <2>2. ASSUME NEW i \in 1..l + k
        PROVE  R2[i].seq = n - l + i /\ (R2[i].type = "put" => ~R2[i].event)
    <3>1. CASE i \in 1..l
      <4>1. R[i].seq = n - l + i /\ (R[i].type = "put" => ~R[i].event) BY <3>1 DEF SeqOK
      <4> QED BY <1>4, <3>1, <4>1
    <3>2. CASE \E j \in 1..k : i = l + j
      <4>1. PICK j \in 1..k : i = l + j BY <3>2
      <4>2. S[j].seq = n + j /\ (S[j].type = "put" => ~S[j].event) BY DEF Follows
      <4>3. n - l + (l + j) = n + j BY <1>1
      <4> QED BY <1>5, <4>1, <4>2, <4>3
    <3> QED BY <1>6, <3>1, <3>2
  <2>3. \A d \in H : 1 <= d.seq /\ d.seq <= n - l BY DEF SeqOK
  <2>4. l + k <= n + k /\ n + k \in Nat BY <1>1
  <2>5. H \in SUBSET Request /\ \A d, e \in H : d.seq = e.seq => d = e BY DEF SeqOK
  <2>6. PICK n2 \in Nat : n2 = n + k BY <2>4
  <2>7. /\ \A i \in 1..Len(R2) : R2[i].seq = n2 - Len(R2) + i
        /\ \A i \in 1..Len(R2) : R2[i].type = "put" => ~R2[i].event
        /\ \A d \in H : 1 <= d.seq /\ d.seq <= n2 - Len(R2)
        /\ Len(R2) <= n2
    <3>1. Len(R2) = l + k /\ n2 - Len(R2) = n - l /\ Len(R2) <= n2 BY <1>1, <1>2, <2>6
    <3> QED BY <2>2, <2>3, <3>1
  <2>8. SeqOK(H, R2, n2) BY <1>2, <2>5, <2>7 DEF SeqOK
  <2> QED BY <2>6, <2>8
<1>8. {Core(R2[i]) : i \in 1..Len(R2)} = {Core(R[i]) : i \in 1..l} \cup {Core(S[j]) : j \in 1..k}
  <2>1. ASSUME NEW i \in 1..l + k
        PROVE  Core(R2[i]) \in {Core(R[a]) : a \in 1..l} \cup {Core(S[j]) : j \in 1..k}
    <3>1. CASE i \in 1..l BY <1>4, <3>1
    <3>2. CASE \E j \in 1..k : i = l + j BY <1>5, <3>2
    <3> QED BY <1>6, <3>1, <3>2
  <2>2. \A i \in 1..l : Core(R[i]) \in {Core(R2[a]) : a \in 1..l + k} BY <1>4
  <2>3. \A j \in 1..k : Core(S[j]) \in {Core(R2[a]) : a \in 1..l + k} BY <1>5
  <2> QED BY <1>2, <2>1, <2>2, <2>3
<1>9. Outstanding(H, R2) = Outstanding(H, R) \cup {Core(S[j]) : j \in 1..k}
  BY <1>8 DEF Outstanding
<1> QED BY <1>2, <1>7, <1>9 DEF R2

\* The group of a put with signal waits for its members.
Announced(G, c, last) ==
  IF c.op # "signal" THEN G
  ELSE [r \in DOMAIN G \cup {last} |-> IF r = last THEN SealedGroup(c.n) ELSE G[r]]

LEMMA PublishOK ==
  ASSUME NEW H, NEW R, NEW n, NEW sb, NEW done, NEW G, NEW N, NEW m, NEW V, NEW out,
         PeerOK(H, R, n, sb, done, G, N, m, V, out),
         NEW c \in Calls, c.op \in Enqueues, NEW k, k = Descs(c), NEW S, S = NewDescs(c, n + 1),
         \A j \in 1..k : TrackSubmitResult(sb, n + j) = "success"
  PROVE  PeerOK(H, R \o S, n + k, TrackAll(sb, n + 1 .. n + k), done, Announced(G, c, n + k),
                N, m, V, out)
<1> DEFINE O == Outstanding(H, R)
           New == {Core(S[j]) : j \in 1..k}
           O2 == Outstanding(H, R \o S)
           G2 == Announced(G, c, n + k)
           sb2 == TrackAll(sb, n + 1 .. n + k)
<1>1. /\ SeqOK(H, R, n) /\ TrackOK(O, sb, done) /\ LiveOK(H, R, n, N) /\ GroupOK(O, n, G)
      /\ SignalOK(G, N) /\ n \in Nat /\ Len(R) \in Nat
  BY LenProperties DEF PeerOK, SeqOK
<1>2. /\ k \in Nat /\ (c.op = "signal" => k = c.n + 1) /\ c.n \in Nat
      /\ S \in Seq(Desc) /\ Len(S) = k
      /\ \A j \in 1..k : /\ S[j].seq = n + j
                         /\ S[j].type = "put" => ~S[j].event
                         /\ S[j].group = IF c.op = "signal" THEN n + k ELSE 0
                         /\ S[j].type = "release" <=> c.op = "signal" /\ j = k
  BY <1>1, NewDescsAre
<1>3. Follows(S, n, k) BY <1>1, <1>2 DEF Follows
<1>4. SeqOK(H, R \o S, n + k) /\ Len(R \o S) = Len(R) + k /\ O2 = O \cup New
  BY <1>1, <1>3, AppendSeq
<1>5. \A o \in O : o.seq \in Nat /\ 1 <= o.seq /\ o.seq <= n BY <1>1, OutstandingIs
<1>6. ASSUME NEW o \in New
      PROVE  \E j \in 1..k : /\ o = Core(S[j]) /\ o.seq = n + j /\ o.seq \in n + 1 .. n + k
                             /\ o.group = (IF c.op = "signal" THEN n + k ELSE 0)
                             /\ o.type = "release" <=> c.op = "signal" /\ j = k
  <2>1. PICK j \in 1..k : o = Core(S[j]) OBVIOUS
  <2>2. o.seq = S[j].seq /\ o.group = S[j].group /\ o.type = S[j].type BY <2>1 DEF Core
  <2>3. /\ S[j].seq = n + j
        /\ S[j].group = IF c.op = "signal" THEN n + k ELSE 0
        /\ S[j].type = "release" <=> c.op = "signal" /\ j = k
    BY <1>2
  <2>4. n + j \in n + 1 .. n + k BY <1>1, <1>2
  <2> QED BY <2>1, <2>2, <2>3, <2>4
<1> HIDE DEF O, O2, New
<1>7. TrackOK(O2, sb2, done)
  <2> DEFINE Q == n + 1 .. n + k
  <2>1. IsScoreboard(sb, 2 * QueueSize) /\ done = sb.nextSequence - 1 BY <1>1 DEF TrackOK
  <2>2. Q \in SUBSET Nat BY <1>1, <1>2
  <2>3. ASSUME NEW q \in Q PROVE TrackSubmitResult(sb, q) = "success"
    <3>1. q - n \in 1..k /\ n + (q - n) = q BY <1>1, <1>2
    <3> QED BY <3>1
  <2>4. \A o \in New : o.seq \in Q BY <1>6
  <2> HIDE DEF Q
  <2>5. /\ IsScoreboard(TrackAll(sb, Q), 2 * QueueSize)
        /\ TrackAll(sb, Q).nextSequence = sb.nextSequence
        /\ \A q \in Q : sb.nextSequence <= q
        /\ \A x \in Nat : Tracks(TrackAll(sb, Q), "pending", x) <=>
                            Tracks(sb, "pending", x) \/ x \in Q
    BY <2>1, <2>2, <2>3, TrackAllTracks
  <2>6. \A o \in O : Tracks(sb, "pending", o.seq) /\ sb.nextSequence <= o.seq BY <1>1 DEF TrackOK
  <2>7. ASSUME NEW o \in O2
        PROVE  Tracks(TrackAll(sb, Q), "pending", o.seq) /\ sb.nextSequence <= o.seq
    <3>1. CASE o \in O BY <1>5, <2>5, <2>6, <3>1
    <3>2. CASE o \in New BY <2>2, <2>4, <2>5, <3>2
    <3> QED BY <1>4, <3>1, <3>2
  <2> QED BY <2>1, <2>5, <2>7 DEF TrackOK, Q
<1>8. LiveOK(H, R \o S, n + k, N)
  <2>2. PICK n2 : n2 = n + k OBVIOUS
  <2>3. PICK R2 : R2 = R \o S OBVIOUS
  <2>4. Len(R2) = Len(R) + k BY <1>4, <2>3
  <2>5. n2 - Len(R2) = n - Len(R) BY <1>1, <1>2, <2>2, <2>4
  <2>6. LiveOK(H, R2, n2, N) BY <1>1, <2>5 DEF LiveOK
  <2> QED BY <2>2, <2>3, <2>6
<1>9. IsFiniteSet(New)
  <2> DEFINE f == [j \in 1..k |-> Core(S[j])]
  <2>1. IsFiniteSet(1..k) BY <1>2, FS_Interval
  <2>2. f \in Surjection(1..k, New) BY DEF Surjection, New
  <2> QED BY <2>1, <2>2, FS_Surjection
<1>10. IsFiniteSet(O2) BY <1>1, <1>4, <1>9, FS_Union DEF GroupOK
<1>11. DOMAIN G2 = (IF c.op = "signal" THEN DOMAIN G \cup {n + k} ELSE DOMAIN G)
       /\ DOMAIN G \subseteq 1..n
  BY <1>1 DEF Announced, GroupOK
<1>12. \A r \in DOMAIN G : G2[r] = G[r] /\ r \in DOMAIN G2
  <2>1. c.op = "signal" => n + k \notin DOMAIN G BY <1>1, <1>2, <1>11
  <2> QED BY <2>1 DEF Announced
<1>13. c.op = "signal" => G2[n + k] = SealedGroup(c.n) /\ n + k \in DOMAIN G2 BY DEF Announced
<1> HIDE DEF G2
<1>14. ASSUME NEW r \in DOMAIN G PROVE Members(O2, r) = Members(O, r)
  <2>1. ASSUME NEW o \in New PROVE o.group # r
    <3>1. r \in 1..n BY <1>11
    <3>2. o.group = (IF c.op = "signal" THEN n + k ELSE 0) BY <1>6
    <3>3. c.op = "signal" => k \in Nat \ {0} BY <1>2
    <3> QED BY <1>1, <1>2, <3>1, <3>2, <3>3
  <2> QED BY <1>4, <2>1 DEF Members
<1>15. ASSUME c.op = "signal" PROVE Cardinality(Members(O2, n + k)) = c.n
  <2> DEFINE T == Members(O2, n + k)
             f == [j \in 1..c.n |-> Core(S[j])]
  <2>1. IsFiniteSet(T) BY <1>10, FS_Subset DEF Members
  <2>2. \A o \in O : o.group <= n /\ o.group \in Nat BY <1>1 DEF GroupOK
  <2>3. k = c.n + 1 /\ c.n \in Nat BY <1>2, <1>15
  <2>4. \A o \in O : o.group # n + k BY <1>1, <2>2, <2>3
  <2>5. ASSUME NEW j \in 1..c.n PROVE Core(S[j]) \in T /\ Core(S[j]).seq = n + j
    <3>1. j \in 1..k /\ j # k BY <2>3
    <3>2. S[j].seq = n + j /\ S[j].group = n + k /\ S[j].type # "release" BY <1>2, <1>15, <3>1
    <3>3. Core(S[j]) \in O2 BY <1>4, <3>1 DEF New
    <3>4. Core(S[j]).group = n + k /\ Core(S[j]).type # "release" /\ Core(S[j]).seq = n + j
      BY <3>2 DEF Core
    <3> QED BY <3>3, <3>4 DEF Members
  <2>6. f \in [1..c.n -> T] BY <2>5
  <2>7. ASSUME NEW a \in 1..c.n, NEW b \in 1..c.n, f[a] = f[b] PROVE a = b
    <3>1. n + a = n + b BY <2>5, <2>7
    <3>2. a \in Int /\ b \in Int BY <2>3
    <3> QED BY <1>1, <3>1, <3>2
  <2>8. ASSUME NEW o \in T PROVE \E j \in 1..c.n : f[j] = o
    <3>1. o \in O2 /\ o.group = n + k /\ o.type # "release" BY DEF Members
    <3>2. o \in New BY <1>4, <2>4, <3>1
    <3>3. PICK j \in 1..k : o = Core(S[j]) /\ (o.type = "release" <=> c.op = "signal" /\ j = k)
      BY <1>6, <3>2
    <3>4. j # k BY <1>15, <3>1, <3>3
    <3>5. j \in 1..c.n BY <2>3, <3>4
    <3> QED BY <3>3, <3>5
  <2> HIDE DEF f, T
  <2>9. Cardinality(1..c.n) = Cardinality(T)
    <3>1. PICK U : U = 1..c.n OBVIOUS
    <3>2. f \in [U -> T] /\ (\A a, b \in U : f[a] = f[b] => a = b) /\ \A o \in T : \E j \in U : f[j] = o
      BY <2>6, <2>7, <2>8, <3>1
    <3>3. Cardinality(U) = Cardinality(T) BY <2>1, <3>2, SameCount
    <3> QED BY <3>1, <3>3
  <2>10. Cardinality(1..c.n) = c.n BY <2>3, FS_Interval
  <2> QED BY <2>9, <2>10 DEF T
<1>16. GroupOK(O2, n + k, G2)
  <2>1. DOMAIN G2 \subseteq 1..n + k BY <1>1, <1>2, <1>11
  <2>2. ASSUME NEW o \in O2
        PROVE  /\ o.group \in Nat /\ o.group <= n + k
               /\ o.type = "release" <=> o.seq \in DOMAIN G2
               /\ o.type = "release" => o.group = o.seq
    <3>1. CASE o \in O
      <4>1. /\ o.group \in Nat /\ o.group <= n
            /\ o.type = "release" <=> o.seq \in DOMAIN G
            /\ o.type = "release" => o.group = o.seq
        BY <1>1, <3>1 DEF GroupOK
      <4>2. o.group <= n + k BY <1>1, <1>2, <4>1
      <4>3. c.op = "signal" => o.seq # n + k BY <1>1, <1>2, <1>5, <3>1
      <4> QED BY <1>11, <4>1, <4>2, <4>3
    <3>2. CASE o \in New
      <4>1. PICK j \in 1..k : /\ o.seq = n + j
                              /\ o.group = (IF c.op = "signal" THEN n + k ELSE 0)
                              /\ o.type = "release" <=> c.op = "signal" /\ j = k
        BY <1>6, <3>2
      <4>2. o.group \in Nat /\ o.group <= n + k BY <1>1, <1>2, <4>1
      <4>3. o.seq \notin DOMAIN G BY <1>1, <1>2, <1>11, <4>1
      <4>4. o.seq = n + k <=> j = k BY <1>1, <1>2, <4>1
      <4>5. o.type = "release" <=> o.seq \in DOMAIN G2 BY <1>11, <4>1, <4>3, <4>4
      <4>6. o.type = "release" => o.group = o.seq BY <4>1
      <4> QED BY <4>2, <4>5, <4>6
    <3> QED BY <1>4, <3>1, <3>2
  <2>3. ASSUME NEW r \in DOMAIN G2
        PROVE  /\ G2[r] \in Group
               /\ G2[r].state = "complete" <=> G2[r].pending = 0
               /\ G2[r].pending = Cardinality(Members(O2, r))
    <3>1. CASE r \in DOMAIN G BY <1>1, <1>12, <1>14, <3>1 DEF GroupOK
    <3>2. CASE r \notin DOMAIN G
      <4>1. c.op = "signal" /\ r = n + k BY <1>11, <3>2
      <4>2. G2[r] = SealedGroup(c.n) /\ Cardinality(Members(O2, r)) = c.n BY <1>13, <1>15, <4>1
      <4>3. SealedGroup(c.n) \in Group /\ SealedGroup(c.n).pending = c.n
            /\ (SealedGroup(c.n).state = "complete" <=> c.n = 0)
        BY <1>2 DEF SealedGroup, Group
      <4> QED BY <4>2, <4>3
    <3> QED BY <3>1, <3>2
  <2> QED BY <1>10, <2>1, <2>2, <2>3 DEF GroupOK
<1>17. SignalOK(G2, N)
  <2>1. ASSUME NEW r \in Seqs, r \in DOMAIN G2, N[r] # "unposted" PROVE r \in DOMAIN G
    <3>1. r <= n - Len(R) BY <1>1, <2>1 DEF LiveOK
    <3>2. c.op = "signal" => r # n + k
      <4>1. c.op = "signal" => k \in Nat \ {0} BY <1>2
      <4> QED BY <1>1, <3>1, <4>1
    <3> QED BY <1>11, <2>1, <3>2
  <2> QED BY <1>1, <1>12, <2>1 DEF SignalOK
<1>18. TrackOK(Outstanding(H, R \o S), sb2, done) /\ GroupOK(Outstanding(H, R \o S), n + k, G2)
  BY <1>7, <1>16 DEF O2
<1>19. GetsOK(H, m, N) /\ FlushOK(H, m, V) /\ OutcomeOK(V, out) BY DEF PeerOK
<1> QED BY <1>4, <1>8, <1>17, <1>18, <1>19 DEF PeerOK, G2

-----------------------------------------------------------------------------
(* Frames *)

\* What the invariant says of peer r is not touched.
Frame(r) ==
  /\ InHand(r)' = InHand(r) /\ ring'[r] = ring[r] /\ opSeqs'[r] = opSeqs[r]
  /\ scoreboard'[r] = scoreboard[r] /\ doneSeqs'[r] = doneSeqs[r] /\ groups'[r] = groups[r]
  /\ nic'[r] = nic[r] /\ domain'[r] = domain[r] /\ visible'[r] = visible[r]
  /\ outcome'[r] = outcome[r]

PeersOK == \A p \in Peer : PeerInv(p)

LEMMA FrameKeeps ==
  ASSUME NEW r \in Peer, PeerInv(r), Frame(r)
  PROVE  PeerInv(r)'
BY DEF Frame, PeerInv

LEMMA OnePeer ==
  ASSUME PeersOK, NEW p \in Peer, PeerInv(p)', \A r \in Peer \ {p} : Frame(r)
  PROVE  PeersOK'
<1> SUFFICES ASSUME NEW r \in Peer PROVE PeerInv(r)'
  BY DEF PeersOK, Peer
<1>1. CASE r = p BY <1>1
<1>2. CASE r # p BY <1>2, FrameKeeps DEF PeersOK
<1> QED BY <1>1, <1>2

\* No peer is touched.
Quiet == UNCHANGED <<ringVars, doneSeqs, outcome, nic, domain, visible, inProgress>>

LEMMA QuietPeers ==
  ASSUME PeersOK, Quiet, \A r \in Peer : InHand(r)' = InHand(r)
  PROVE  PeersOK'
<1>1. \A r \in Peer : Frame(r) BY DEF Quiet, Frame, ringVars
<1> QED BY <1>1, FrameKeeps DEF PeersOK, Peer

LEMMA NobodyCounts ==
  ASSUME counting = {}, NEW p \in Peer
  PROVE  InHand(p) = inProgress[p]
BY DEF InHand

\* A step that does not touch what the progress thread has.
Rest == UNCHANGED <<inProgress, inFlights, pass, counting, pendingError, rmaError>>

LEMMA RestKeeps ==
  ASSUME PassType, CountInv, ErrorInv, Rest
  PROVE  PassType' /\ CountInv' /\ ErrorInv' /\ \A r \in Peer : InHand(r)' = InHand(r)
BY DEF Rest, PassType, CountInv, ErrorInv, InHand

LEMMA InvParts ==
  ASSUME IInv
  PROVE  ThreadType /\ StreamType /\ PassType /\ PeerType /\ CountInv /\ ErrorInv /\ PeersOK
BY DEF IInv, TypeOK, PeersOK

LEMMA PartsInv ==
  ASSUME ThreadType', StreamType', PassType', PeerType', CountInv', ErrorInv', PeersOK'
  PROVE  IInv'
BY DEF IInv, TypeOK, PeersOK

-----------------------------------------------------------------------------
(* The application's threads, the streams and the network *)

LEMMA CallIs ==
  ASSUME NEW t \in Thread, Calling(t, Enqueues)
  PROVE  Call(t) \in Calls /\ Call(t).op \in Enqueues /\ Call(t).peer \in Peer
<1>1. Program[t] \in Seq(Calls) /\ at[t] \in DOMAIN Program[t] /\ Call(t).op \in Enqueues
  BY RmaProxyAssumption DEF Calling, Running
<1>2. Call(t) \in Calls BY <1>1, LenProperties, ElementOfSeq DEF Call
<1>3. Call(t).peer \in Peer BY <1>2 DEF Calls
<1> QED BY <1>1, <1>2, <1>3

\* A thread goes on; it holds a mutex only within a call that enqueues.
LEMMA ThreadMoves ==
  ASSUME ThreadType, NEW t \in Thread,
         \/ NextCall(t)
         \/ at' = at /\ \E pc : /\ tpc' = [tpc EXCEPT ![t] = pc]
                                /\ pc = "hold" => Calling(t, Enqueues)
  PROVE  ThreadType'
<1>1. CASE NextCall(t)
  <2>1. at' \in [Thread -> Nat] /\ DOMAIN tpc' = Thread BY <1>1 DEF NextCall, ThreadType
  <2>2. ASSUME NEW u \in Thread, tpc'[u] = "hold" PROVE Calling(u, Enqueues)'
    <3>1. u # t /\ at'[u] = at[u] /\ tpc'[u] = tpc[u] BY <1>1, <2>2 DEF NextCall, ThreadType
    <3> QED BY <2>2, <3>1 DEF ThreadType, Calling, Running, Call
  <2> QED BY <2>1, <2>2 DEF ThreadType, Thread
<1>2. ASSUME at' = at, NEW pc, tpc' = [tpc EXCEPT ![t] = pc], pc = "hold" => Calling(t, Enqueues)
      PROVE  ThreadType'
  <2>1. at' \in [Thread -> Nat] /\ DOMAIN tpc' = Thread BY <1>2 DEF ThreadType
  <2>2. ASSUME NEW u \in Thread, tpc'[u] = "hold" PROVE Calling(u, Enqueues)'
    <3>1. tpc'[u] = IF u = t THEN pc ELSE tpc[u] BY <1>2 DEF ThreadType
    <3>2. Calling(u, Enqueues) BY <1>2, <2>2, <3>1 DEF ThreadType
    <3> QED BY <1>2, <3>2 DEF Calling, Running, Call
  <2> QED BY <2>1, <2>2 DEF ThreadType, Thread
<1> QED BY <1>1, <1>2

\* The steps of the threads that leave the peers alone.
LEMMA WaitersKeep ==
  ASSUME IInv, NEW t \in Thread,
         Acquire(t) \/ Yield(t) \/ Flush(t) \/ WaitCounter(t) \/ Quiesce(t)
  PROVE  IInv'
<1>0. ThreadType /\ StreamType /\ PassType /\ PeerType /\ CountInv /\ ErrorInv /\ PeersOK
  BY InvParts
<1>1. UNCHANGED <<stream, readySeqs, ringVars, doneVars, pendingError, rmaError, progVars, envVars>>
  BY DEF Acquire, Yield, Flush, WaitCounter, Quiesce, errVars
<1>2. \/ NextCall(t)
      \/ at' = at /\ \E pc : /\ tpc' = [tpc EXCEPT ![t] = pc]
                             /\ pc = "hold" => Calling(t, Enqueues)
  <2>1. CASE Acquire(t)
    <3>1. \/ NextCall(t)
          \/ tpc' = [tpc EXCEPT ![t] = "hold"] /\ at' = at /\ Calling(t, Enqueues)
      BY <2>1 DEF Acquire
    <3> QED BY <3>1
  <2>2. CASE Yield(t)
    <3>1. tpc' = [tpc EXCEPT ![t] = "call"] /\ at' = at BY <2>2 DEF Yield
    <3>2. "call" = "hold" => Calling(t, Enqueues) OBVIOUS
    <3> QED BY <3>1, <3>2, Zenon
  <2>3. CASE Flush(t) BY <2>3 DEF Flush
  <2>4. CASE WaitCounter(t) BY <2>4 DEF WaitCounter
  <2>5. CASE Quiesce(t) BY <2>5 DEF Quiesce, Visit
  <2> QED BY <2>1, <2>2, <2>3, <2>4, <2>5
<1>3. ThreadType' BY <1>0, <1>2, ThreadMoves
<1>4. StreamType' /\ PeerType'
  BY <1>0, <1>1 DEF StreamType, PeerType, ringVars, doneVars, progVars, envVars
<1>5. Rest /\ Quiet BY <1>1 DEF Rest, Quiet, ringVars, doneVars, progVars, envVars
<1>6. PassType' /\ CountInv' /\ ErrorInv' /\ PeersOK' BY <1>0, <1>5, RestKeeps, QuietPeers
<1> QED BY <1>3, <1>4, <1>6, PartsInv

LEMMA StreamKeeps ==
  ASSUME IInv, NEW t \in Thread, StreamStep(t)
  PROVE  IInv'
<1>0. ThreadType /\ StreamType /\ PassType /\ PeerType /\ CountInv /\ ErrorInv /\ PeersOK
  BY InvParts
<1>1. UNCHANGED <<threadVars, ringVars, doneVars, errVars, progVars, nic, visible>>
  BY DEF StreamStep
<1>2. ThreadType' /\ PeerType'
  BY <1>0, <1>1 DEF ThreadType, PeerType, Calling, Running, Call, threadVars, ringVars, doneVars,
                    progVars
<1>3. Rest /\ Quiet BY <1>1 DEF Rest, Quiet, ringVars, doneVars, progVars, errVars
<1>4. PassType' /\ CountInv' /\ ErrorInv' /\ PeersOK' BY <1>0, <1>3, RestKeeps, QuietPeers
<1>5. StreamType'
  <2> DEFINE w == Head(stream[t])
  <2>1. stream[t] \in Seq(Item) /\ stream[t] # <<>> BY <1>0 DEF StreamType, StreamStep
  <2>2. w \in Item /\ Tail(stream[t]) \in Seq(Item) BY <2>1, HeadTailProperties
  <2>3. stream' \in [Thread -> Seq(Item)] BY <1>0, <2>2 DEF StreamType, StreamStep
  <2>4. w.seq \in Int /\ w.peer \in Peer BY <2>2 DEF Item
  <2>5. readySeqs' \in [Peer -> Int] BY <1>0, <2>4 DEF StreamType, StreamStep
  <2> QED BY <2>3, <2>5 DEF StreamType, Thread, Peer, Item
<1> QED BY <1>2, <1>4, <1>5, PartsInv

LEMMA NetworkKeeps ==
  ASSUME IInv, NEW p \in Peer, NEW q \in Seqs, NEW r \in {"ok", "failed"}, NicComplete(p, q, r)
  PROVE  IInv'
<1>0. ThreadType /\ StreamType /\ PassType /\ PeerType /\ CountInv /\ ErrorInv /\ PeersOK
  BY InvParts
<1>1. UNCHANGED <<threadVars, stream, readySeqs, ringVars, doneVars, errVars, progVars, visible>>
  BY DEF NicComplete
<1>2. nic[p][q] = "live" /\ nic' = [nic EXCEPT ![p] = [nic[p] EXCEPT ![q] = r]]
  BY DEF NicComplete
<1>3. ThreadType' /\ StreamType' /\ PeerType'
  BY <1>0, <1>1, <1>2 DEF ThreadType, StreamType, PeerType, Calling, Running, Call, threadVars,
                          ringVars, doneVars, progVars
<1>4. Rest BY <1>1 DEF Rest, progVars, errVars
<1>5. PassType' /\ CountInv' /\ ErrorInv' /\ \A u \in Peer : InHand(u)' = InHand(u)
  BY <1>0, <1>4, RestKeeps
<1>6. /\ nic'[p] = [nic[p] EXCEPT ![q] = r]
      /\ \A u \in Peer \ {p} : nic'[u] = nic[u]
  BY <1>0, <1>2 DEF PeerType
<1>7. \A u \in Peer \ {p} : Frame(u)
  BY <1>1, <1>5, <1>6 DEF Frame, ringVars, doneVars, progVars
<1>8. PeerOK(InHand(p), ring[p], opSeqs[p], scoreboard[p], doneSeqs[p], groups[p], nic'[p],
             domain[p], visible[p], outcome[p])
  <2>1. PeerOK(InHand(p), ring[p], opSeqs[p], scoreboard[p], doneSeqs[p], groups[p], nic[p],
               domain[p], visible[p], outcome[p])
    BY <1>0 DEF PeersOK, PeerInv
  <2> QED BY <1>2, <1>6, <2>1, NicOK
<1>9. PeerInv(p)'
  <2>1. /\ InHand(p)' = InHand(p) /\ ring' = ring /\ opSeqs' = opSeqs /\ scoreboard' = scoreboard
        /\ doneSeqs' = doneSeqs /\ groups' = groups /\ domain' = domain /\ visible' = visible
        /\ outcome' = outcome
    BY <1>1, <1>5 DEF ringVars, doneVars, progVars
  <2> QED BY <1>8, <2>1 DEF PeerInv
<1>10. PeersOK' BY <1>0, <1>7, <1>9, OnePeer
<1> QED BY <1>3, <1>5, <1>10, PartsInv

LEMMA StreamWorkIs ==
  ASSUME NEW c \in Calls, NEW q \in Nat
  PROVE  StreamWork(c, q) \in Seq(Item)
<1>1. c.peer \in Peer /\ q - 1 \in Int /\ q \in Int BY DEF Calls
<1> DEFINE i(a, x) == [do |-> a, peer |-> c.peer, seq |-> x]
<1>2. \A a \in {"ready", "event", "wait"}, x \in {q - 1, q} : i(a, x) \in Item BY <1>1 DEF Item
<1>3. /\ i("wait", q - 1) \in Item /\ i("event", q) \in Item /\ i("wait", q) \in Item
      /\ i("ready", q) \in Item
  BY <1>2
<1>4. ASSUME NEW a \in Item, NEW b \in Item PROVE <<a, b>> \in Seq(Item) OBVIOUS
<1>5. <<>> \in Seq(Item) OBVIOUS
<1>6. \/ StreamWork(c, q) = <<>>
      \/ StreamWork(c, q) = <<i("wait", q - 1), i("event", q)>>
      \/ StreamWork(c, q) = <<i("event", q), i("wait", q)>>
      \/ StreamWork(c, q) = <<i("ready", q), i("wait", q)>>
  BY DEF StreamWork
<1> HIDE DEF i
<1> QED BY <1>3, <1>4, <1>5, <1>6

LEMMA PublishKeeps ==
  ASSUME IInv, NEW t \in Thread, Publish(t), NEW c, c = Call(t), NEW p, p = c.peer,
         NEW n, n = opSeqs[p]
  PROVE  IInv'
<1> DEFINE k == Descs(c)
           S == NewDescs(c, n + 1)
<1>0. ThreadType /\ StreamType /\ PassType /\ PeerType /\ CountInv /\ ErrorInv /\ PeersOK
  BY InvParts
<1>1. /\ tpc[t] = "hold" /\ HasRoomFor(p, k)
      /\ opSeqs' = [opSeqs EXCEPT ![p] = n + k]
      /\ scoreboard' = [scoreboard EXCEPT ![p] = TrackAll(@, n + 1 .. n + k)]
      /\ groups' = IF c.op # "signal" THEN groups
                   ELSE [groups EXCEPT ![p] = [r \in DOMAIN @ \cup {n + k} |->
                           IF r = n + k THEN SealedGroup(c.n) ELSE @[r]]]
      /\ ring' = [ring EXCEPT ![p] = @ \o S]
      /\ readySeqs' = IF c.stream THEN readySeqs ELSE [readySeqs EXCEPT ![p] = n + k]
      /\ stream' = [stream EXCEPT ![t] = @ \o StreamWork(c, n + k)]
      /\ NextCall(t)
      /\ UNCHANGED <<doneVars, errVars, progVars, envVars>>
  BY DEF Publish
<1>2. c \in Calls /\ c.op \in Enqueues /\ p \in Peer BY <1>0, <1>1, CallIs DEF ThreadType
<1>3. PeerOK(InHand(p), ring[p], n, scoreboard[p], doneSeqs[p], groups[p], nic[p],
             domain[p], visible[p], outcome[p])
  BY <1>0, <1>2 DEF PeersOK, PeerInv
<1>4. n \in Nat /\ k \in Nat
  <2>1. n \in Nat BY <1>3 DEF PeerOK, SeqOK
  <2> QED BY <1>2, <2>1, NewDescsAre
<1> HIDE DEF k, S
<1>5. ThreadType' BY <1>0, <1>1, ThreadMoves
<1>6. StreamType'
  <2>1. StreamWork(c, n + k) \in Seq(Item) BY <1>2, <1>4, StreamWorkIs
  <2>2. stream[t] \o StreamWork(c, n + k) \in Seq(Item)
    <3>1. stream[t] \in Seq(Item) BY <1>0 DEF StreamType
    <3> QED BY <2>1, <3>1, ConcatProperties
  <2>3. stream' \in [Thread -> Seq(Item)] BY <1>0, <1>1, <2>2 DEF StreamType
  <2>4. n + k \in Int /\ readySeqs \in [Peer -> Int] BY <1>0, <1>4 DEF StreamType
  <2>5. readySeqs' = readySeqs \/ readySeqs' = [readySeqs EXCEPT ![p] = n + k] BY <1>1
  <2>6. readySeqs' \in [Peer -> Int] BY <2>4, <2>5
  <2> QED BY <2>3, <2>6 DEF StreamType, Thread, Peer, Item
<1>7. PeerType' BY <1>0, <1>1 DEF PeerType, doneVars, progVars, envVars
<1>8. Rest BY <1>1 DEF Rest, progVars, errVars
<1>9. PassType' /\ CountInv' /\ ErrorInv' /\ \A u \in Peer : InHand(u)' = InHand(u)
  BY <1>0, <1>8, RestKeeps
<1>10. /\ opSeqs'[p] = n + k /\ scoreboard'[p] = TrackAll(scoreboard[p], n + 1 .. n + k)
       /\ groups'[p] = Announced(groups[p], c, n + k) /\ ring'[p] = ring[p] \o S
  BY <1>0, <1>1, <1>2 DEF PeerType, Announced
<1>11. \A u \in Peer \ {p} : /\ opSeqs'[u] = opSeqs[u] /\ scoreboard'[u] = scoreboard[u]
                             /\ groups'[u] = groups[u] /\ ring'[u] = ring[u]
  BY <1>0, <1>1 DEF PeerType
<1>12. \A u \in Peer \ {p} : Frame(u)
  BY <1>1, <1>9, <1>11 DEF Frame, doneVars, progVars, envVars
<1>13. \A j \in 1..k : TrackSubmitResult(scoreboard[p], n + j) = "success"
  BY <1>1 DEF HasRoomFor
<1>14. PeerOK(InHand(p), ring'[p], opSeqs'[p], scoreboard'[p], doneSeqs[p], groups'[p], nic[p],
              domain[p], visible[p], outcome[p])
  <2>1. k = Descs(c) /\ S = NewDescs(c, n + 1) BY DEF k, S
  <2> QED BY <1>2, <1>3, <1>10, <1>13, <2>1, PublishOK
<1>15. PeerInv(p)'
  <2>1. /\ InHand(p)' = InHand(p) /\ doneSeqs' = doneSeqs /\ domain' = domain
        /\ visible' = visible /\ outcome' = outcome /\ nic' = nic
    BY <1>1, <1>2, <1>9 DEF doneVars, progVars, envVars
  <2> QED BY <1>14, <2>1 DEF PeerInv
<1>16. PeersOK' BY <1>0, <1>2, <1>12, <1>15, OnePeer
<1> QED BY <1>5, <1>6, <1>7, <1>9, <1>16, PartsInv

-----------------------------------------------------------------------------
(* Steps of the progress thread: what they do to its peer *)

\* f2 is f with v at p.
Sets(f, f2, p, v) ==
  DOMAIN f2 = Peer /\ f2[p] = v /\ \A u \in Peer \ {p} : f2[u] = f[u]

LEMMA SetsExcept ==
  ASSUME NEW f, DOMAIN f = Peer, NEW p \in Peer, NEW v
  PROVE  Sets(f, [f EXCEPT ![p] = v], p, v)
BY DEF Sets

LEMMA SetsSame ==
  ASSUME NEW f, DOMAIN f = Peer, NEW p \in Peer
  PROVE  Sets(f, f, p, f[p])
BY DEF Sets

HandIs(p, H2) == InHand(p)' = H2 /\ \A u \in Peer \ {p} : InHand(u)' = InHand(u)

\* A step at peer p.
StepAt(p, H2, R2, sb2, done2, G2, N2, m2, V2, out2) ==
  /\ HandIs(p, H2) /\ opSeqs' = opSeqs
  /\ Sets(ring, ring', p, R2) /\ Sets(scoreboard, scoreboard', p, sb2)
  /\ Sets(doneSeqs, doneSeqs', p, done2) /\ Sets(groups, groups', p, G2)
  /\ Sets(nic, nic', p, N2) /\ Sets(domain, domain', p, m2)
  /\ Sets(visible, visible', p, V2) /\ Sets(outcome, outcome', p, out2)

LEMMA StepPeers ==
  ASSUME PeersOK, NEW p \in Peer, NEW H2, NEW R2, NEW sb2, NEW done2, NEW G2, NEW N2, NEW m2,
         NEW V2, NEW out2, StepAt(p, H2, R2, sb2, done2, G2, N2, m2, V2, out2),
         PeerOK(H2, R2, opSeqs[p], sb2, done2, G2, N2, m2, V2, out2)
  PROVE  PeersOK'
<1>1. PeerInv(p)' BY DEF StepAt, HandIs, Sets, PeerInv
<1>2. \A r \in Peer \ {p} : Frame(r) BY DEF StepAt, HandIs, Sets, Frame
<1> QED BY <1>1, <1>2, OnePeer

LEMMA StepTypes ==
  ASSUME PeerType, NEW p \in Peer, NEW H2, NEW R2, NEW sb2, NEW done2, NEW G2, NEW N2, NEW m2,
         NEW V2, NEW out2, StepAt(p, H2, R2, sb2, done2, G2, N2, m2, V2, out2),
         DOMAIN inProgress' = Peer, DOMAIN inFlights' = Peer
  PROVE  PeerType'
BY DEF StepAt, Sets, PeerType, Peer

\* Nothing is on its way into inProgressQueues before and after the step.
LEMMA HandStep ==
  ASSUME counting = {}, counting' = {}, NEW p \in Peer, NEW H2,
         Sets(inProgress, inProgress', p, H2)
  PROVE  HandIs(p, H2)
BY DEF HandIs, Sets, InHand

LEMMA CountStep ==
  ASSUME CountInv, NEW p \in Peer, counting' = {}, NEW H2, IsFiniteSet(H2),
         Sets(inProgress, inProgress', p, H2), Sets(inFlights, inFlights', p, Cardinality(H2))
  PROVE  CountInv'
<1>1. \A u \in Peer : IsFiniteSet(inProgress'[u]) /\ inFlights'[u] = Cardinality(inProgress'[u])
  BY DEF Sets, CountInv
<1>2. IsFiniteSet(counting') BY FS_EmptySet
<1> QED BY <1>1, <1>2 DEF CountInv, Peer

LEMMA ErrorStep ==
  ASSUME ErrorInv, NEW p \in Peer, counting' = {}, NEW H2,
         Sets(inProgress, inProgress', p, H2), rmaError => H2 = {},
         rmaError' = rmaError, pendingError => pendingError'
  PROVE  ErrorInv'
<1>1. ASSUME rmaError' PROVE \A u \in Peer : inProgress'[u] = {} BY <1>1 DEF ErrorInv, Sets
<1> QED BY <1>1 DEF ErrorInv, Peer

\* The threads and the streams are not touched.
ProgressOnly == UNCHANGED <<threadVars, stream, readySeqs>>

LEMMA ThreadsKeep ==
  ASSUME ThreadType, StreamType, ProgressOnly
  PROVE  ThreadType' /\ StreamType'
BY DEF ProgressOnly, ThreadType, StreamType, Calling, Running, Call, threadVars

LEMMA NextPeerIs ==
  ASSUME PassType, NextPeer
  PROVE  pass' \in [stage : Stages, peer : Peer]
<1>1. pass.peer \in Peer /\ NPeers \in Nat \ {0} BY RmaProxyAssumption DEF PassType
<1>2. pass.peer < NPeers => pass.peer + 1 \in Peer BY <1>1 DEF Peer
<1>3. 1 \in Peer BY <1>1 DEF Peer
<1> QED BY <1>1, <1>2, <1>3 DEF NextPeer, Stages

LEMMA ToIs ==
  ASSUME PassType, NEW s \in Stages, To(s)
  PROVE  pass' \in [stage : Stages, peer : Peer] /\ pass'.stage = s /\ pass'.peer = pass.peer
BY DEF PassType, To, Stages

\* flagcxRmaProxyCompleteDesc.
LEMMA CompleteIs ==
  ASSUME PeerType, NEW p \in Peer, NEW D, CompleteDescs(p, D)
  PROVE  /\ Sets(scoreboard, scoreboard', p, Tracked(scoreboard[p], D))
         /\ Sets(groups, groups', p, Regrouped(groups[p], D))
         /\ Sets(doneSeqs, doneSeqs', p, Tracked(scoreboard[p], D).nextSequence - 1)
         /\ Sets(outcome, outcome', p, Recorded(outcome[p], D))
         /\ pendingError => pendingError'
         /\ pendingError \in BOOLEAN => pendingError' \in BOOLEAN
<1>1. /\ scoreboard' = [scoreboard EXCEPT ![p] = Tracked(scoreboard[p], D)]
      /\ groups' = [groups EXCEPT ![p] = Regrouped(groups[p], D)]
      /\ outcome' = [outcome EXCEPT ![p] = Recorded(outcome[p], D)]
      /\ doneSeqs' = [doneSeqs EXCEPT ![p] = scoreboard'[p].nextSequence - 1]
      /\ pendingError' = (pendingError \/ Failed(D) # {})
  BY DEF CompleteDescs, Tracked, Regrouped, Recorded, NumbersOf
<1>2. /\ Sets(scoreboard, scoreboard', p, Tracked(scoreboard[p], D))
      /\ Sets(groups, groups', p, Regrouped(groups[p], D))
      /\ Sets(outcome, outcome', p, Recorded(outcome[p], D))
      /\ Sets(doneSeqs, doneSeqs', p, scoreboard'[p].nextSequence - 1)
  BY <1>1, SetsExcept DEF PeerType
<1>3. scoreboard'[p] = Tracked(scoreboard[p], D) BY <1>2 DEF Sets
<1>4. pendingError => pendingError' BY <1>1
<1>5. pendingError \in BOOLEAN => pendingError' \in BOOLEAN BY <1>1
<1> QED BY <1>2, <1>3, <1>4, <1>5

\* A step that retires descriptors.
LEMMA RetireStep ==
  ASSUME PassType, PeerType, PeersOK, CountInv, ErrorInv, NEW p \in Peer,
         counting = {}, counting' = {}, NEW D, CompleteDescs(p, D), NEW k, NEW R2, NEW H2,
         Retires(inProgress[p], ring[p], nic[p], domain[p], visible[p], D, k, R2, H2),
         Sets(inProgress, inProgress', p, H2), Sets(ring, ring', p, R2),
         IsFiniteSet(H2), Sets(inFlights, inFlights', p, Cardinality(H2)),
         NEW m2, Sets(domain, domain', p, m2),
         \/ m2 = domain[p]
         \/ m2 = NoDomain /\ \A d \in H2 : d.getSequence \notin 1..domain[p].issued,
         UNCHANGED <<opSeqs, nic, visible, rmaError>>,
         pass' \in [stage : Stages, peer : Peer]
  PROVE  PassType' /\ PeerType' /\ PeersOK' /\ CountInv' /\ ErrorInv'
<1> DEFINE sb2 == Tracked(scoreboard[p], D)
           G2 == Regrouped(groups[p], D)
           out2 == Recorded(outcome[p], D)
           done2 == sb2.nextSequence - 1
<1>1. /\ Sets(scoreboard, scoreboard', p, sb2) /\ Sets(groups, groups', p, G2)
      /\ Sets(doneSeqs, doneSeqs', p, done2) /\ Sets(outcome, outcome', p, out2)
      /\ pendingError => pendingError'
      /\ pendingError \in BOOLEAN => pendingError' \in BOOLEAN
  BY CompleteIs
<1>2. InHand(p) = inProgress[p] BY NobodyCounts
<1>3. PeerOK(inProgress[p], ring[p], opSeqs[p], scoreboard[p], doneSeqs[p], groups[p], nic[p],
             domain[p], visible[p], outcome[p])
  BY <1>2 DEF PeersOK, PeerInv
<1>4. PeerOK(H2, R2, opSeqs[p], sb2, done2, G2, nic[p], domain[p], visible[p], out2)
  BY <1>3, RetireOK
<1> HIDE DEF sb2, G2, out2, done2
<1>5. PeerOK(H2, R2, opSeqs[p], sb2, done2, G2, nic[p], m2, visible[p], out2)
  <2>1. CASE m2 = domain[p] BY <1>4, <2>1
  <2>2. CASE m2 = NoDomain /\ \A d \in H2 : d.getSequence \notin 1..domain[p].issued
    BY <1>4, <2>2, ResetOK
  <2> QED BY <2>1, <2>2
<1>6. Sets(nic, nic', p, nic[p]) /\ Sets(visible, visible', p, visible[p])
  BY SetsSame DEF PeerType
<1>7. HandIs(p, H2) BY HandStep
<1>8. StepAt(p, H2, R2, sb2, done2, G2, nic[p], m2, visible[p], out2) BY <1>1, <1>6, <1>7 DEF StepAt
<1>9. PeersOK' BY <1>5, <1>8, StepPeers
<1>10. PeerType'
  <2>1. DOMAIN inProgress' = Peer /\ DOMAIN inFlights' = Peer BY DEF Sets
  <2> QED BY <1>8, <2>1, StepTypes
<1>11. CountInv' BY CountStep
<1>12. ErrorInv'
  <2>1. rmaError => H2 = {} BY DEF ErrorInv, Retires, Without
  <2> QED BY <1>1, <2>1, ErrorStep
<1>13. PassType' BY <1>1 DEF PassType, Peer
<1> QED BY <1>9, <1>10, <1>11, <1>12, <1>13

-----------------------------------------------------------------------------
(* flagcxRmaProxyPollNonPersistCompletion *)

\* What is known of the peer at hand outside the stage "count".
LEMMA PassFacts ==
  ASSUME IInv, pass.stage # "count", NEW p, p = pass.peer
  PROVE  /\ p \in Peer /\ counting = {} /\ InHand(p) = inProgress[p]
         /\ IsFiniteSet(inProgress[p]) /\ inFlights[p] = Cardinality(inProgress[p])
         /\ PeerOK(inProgress[p], ring[p], opSeqs[p], scoreboard[p], doneSeqs[p], groups[p],
                   nic[p], domain[p], visible[p], outcome[p])
<1>1. PassType /\ CountInv /\ PeersOK BY InvParts
<1>2. p \in Peer /\ counting = {} BY <1>1 DEF PassType, CountInv
<1>3. InHand(p) = inProgress[p] BY <1>2, NobodyCounts
<1>4. IsFiniteSet(inProgress[p]) /\ inFlights[p] = Cardinality(inProgress[p])
  BY <1>1, <1>2 DEF CountInv
<1> QED BY <1>1, <1>2, <1>3, <1>4 DEF PeersOK, PeerInv

\* The request with the result x of its test, and as a GET that is kept.
LEMMA DoneIs ==
  ASSUME NEW d \in Request, NEW x \in BOOLEAN
  PROVE  LET done == [d EXCEPT !.failed = x]
             e == [done EXCEPT !.flushPending = TRUE]
         IN  /\ done \in Request /\ Same(done, d) /\ done.seq = d.seq /\ done.type = d.type
             /\ done.failed = x
             /\ e \in Request /\ Same(e, d) /\ e.seq = d.seq /\ e.flushPending /\ e.failed = x
<1> DEFINE done == [d EXCEPT !.failed = x]
           e == [done EXCEPT !.flushPending = TRUE]
<1>2. /\ done \in Request /\ done.seq = d.seq /\ done.type = d.type /\ done.group = d.group
      /\ done.getSequence = d.getSequence /\ done.failed = x
  BY DEF Request
<1>3. /\ e \in Request /\ e.seq = d.seq /\ e.type = d.type /\ e.group = d.group
      /\ e.getSequence = d.getSequence /\ e.failed = x /\ e.flushPending = TRUE
  BY DEF Request
<1>4. Same(done, d) /\ Same(e, d) BY <1>2, <1>3 DEF Same, Core
<1> QED BY <1>2, <1>3, <1>4

\* A finished request that is no GET is retired.
LEMMA PollRetires ==
  ASSUME NEW H, NEW R, NEW n, NEW sb, NEW done, NEW G, NEW N, NEW m, NEW V, NEW out,
         PeerOK(H, R, n, sb, done, G, N, m, V, out),
         NEW d \in H, d.getSequence = 0, d.seq \in Seqs => N[d.seq] # "live",
         NEW e \in Request, Same(e, d), ~e.failed => ~d.failed
  PROVE  Retires(H, R, N, m, V, {e}, 0, R, H \ {d})
<1>1. /\ SeqOK(H, R, n) /\ GetsOK(H, m, N) /\ R \in Seq(Desc) /\ n \in Nat /\ Len(R) \in Nat
      /\ \A x, y \in H : x.seq = y.seq => x = y
      /\ d.seq \in Nat /\ d.seq <= n - Len(R)
      /\ \A j \in 1..Len(R) : R[j].seq = n - Len(R) + j
  BY LenProperties DEF PeerOK, SeqOK, Request
<1>2. e.seq = d.seq /\ e.type = d.type /\ Core(e) = Core(d) BY DEF Same, Core
<1>3. NumbersOf({e}) = {d.seq} BY <1>2 DEF NumbersOf
<1>4. Dropped(R, 0, R)
  <2>1. 0 \in 0..Len(R) /\ Len(R) = Len(R) - 0 BY <1>1
  <2>2. \A j \in 1..Len(R) : R[j] = R[0 + j] BY <1>1
  <2> QED BY <1>1, <2>1, <2>2 DEF Dropped
<1>5. AreOf({e}, Outstanding(H, R)) BY <1>1, <1>2, OutstandingIs DEF AreOf
<1>6. FirstOf(R, 0, {d.seq})
  <2>1. ASSUME NEW j \in 1..Len(R) PROVE R[j].seq # d.seq /\ ~(j <= 0)
    <3>1. R[j].seq = n - Len(R) + j BY <1>1
    <3> QED BY <1>1, <3>1
  <2> QED BY <2>1 DEF FirstOf
<1>7. Without(H, {d.seq}, H \ {d}) BY <1>1 DEF Without
<1>8. \A h \in H : h.seq \in {d.seq} => h = d BY <1>1
<1>9. d.getSequence <= m.visible
  <2>1. m.visible \in Nat BY <1>1 DEF GetsOK, Domain
  <2> QED BY <2>1
<1>10. ~(e.type = "get" /\ ~e.failed) BY <1>1, <1>2 DEF GetsOK
<1> QED BY <1>3, <1>4, <1>5, <1>6, <1>7, <1>8, <1>9, <1>10 DEF Retires

LEMMA PollKeeps ==
  ASSUME IInv, PollOne, NEW p, p = pass.peer
  PROVE  IInv'
<1> DEFINE H == inProgress[p]
           N == nic[p]
<1>0. ThreadType /\ StreamType /\ PassType /\ PeerType /\ CountInv /\ ErrorInv /\ PeersOK
  BY InvParts
<1>1. pass.stage # "count" BY DEF PollOne, Stage
<1>2. /\ p \in Peer /\ counting = {} /\ InHand(p) = H /\ IsFiniteSet(H)
      /\ inFlights[p] = Cardinality(H)
      /\ PeerOK(H, ring[p], opSeqs[p], scoreboard[p], doneSeqs[p], groups[p], N, domain[p],
                visible[p], outcome[p])
  BY <1>1, PassFacts
<1>3. H \in SUBSET Request /\ \A x, y \in H : x.seq = y.seq => x = y BY <1>2 DEF PeerOK, SeqOK
<1>4. PICK d \in Pollable(p) :
        LET done == [d EXCEPT !.failed = TestFailed(p, d)] IN
        IF d.getSequence # 0
          THEN /\ inProgress' = [inProgress EXCEPT ![p] =
                    (@ \ {d}) \cup {[done EXCEPT !.flushPending = TRUE]}]
               /\ pendingError' = (pendingError \/ done.failed)
               /\ UNCHANGED <<doneVars, scoreboard, groups, inFlights>>
          ELSE /\ inProgress' = [inProgress EXCEPT ![p] = @ \ {d}]
               /\ inFlights' = [inFlights EXCEPT ![p] = @ - 1]
               /\ CompleteDescs(p, {done})
  BY DEF PollOne
<1>5. UNCHANGED <<threadVars, stream, readySeqs, ring, opSeqs, rmaError, domain, pass, counting,
                  envVars>>
  BY DEF PollOne
<1>6. d \in H /\ d \in Request /\ ~d.flushPending /\ N[d.seq] \in {"unposted", "ok", "failed"}
  BY <1>3 DEF Pollable, TestDone
<1>7. PICK x \in BOOLEAN : x = TestFailed(p, d)
  <2>1. d.failed \in BOOLEAN BY <1>6 DEF Request
  <2>2. TestFailed(p, d) \in BOOLEAN BY <2>1 DEF TestFailed
  <2> QED BY <2>2
<1>8. x <=> d.failed \/ N[d.seq] = "failed" BY <1>7 DEF TestFailed
<1> DEFINE done == [d EXCEPT !.failed = x]
           e == [done EXCEPT !.flushPending = TRUE]
<1>9. /\ done \in Request /\ Same(done, d) /\ done.failed = x
      /\ e \in Request /\ Same(e, d) /\ e.seq = d.seq /\ e.flushPending /\ e.failed = x
  BY <1>6, DoneIs
<1>10. ThreadType' /\ StreamType'
  <2>1. ProgressOnly BY <1>5 DEF ProgressOnly
  <2> QED BY <1>0, <2>1, ThreadsKeep
<1>11. pass' \in [stage : Stages, peer : Peer] /\ pass' = pass /\ counting' = {}
  BY <1>0, <1>2, <1>5 DEF PassType
<1>12. CASE d.getSequence # 0
  <2> DEFINE H2 == (H \ {d}) \cup {e}
  <2>1. /\ inProgress' = [inProgress EXCEPT ![p] = H2]
        /\ pendingError' = (pendingError \/ done.failed)
        /\ UNCHANGED <<doneVars, scoreboard, groups, inFlights>>
    BY <1>4, <1>7, <1>12
  <2>2. Kept(H, N, d, e, H2) BY <1>6, <1>8, <1>9, <1>12 DEF Kept
  <2> HIDE DEF H2, e, done
  <2>3. PeerOK(H2, ring[p], opSeqs[p], scoreboard[p], doneSeqs[p], groups[p], N, domain[p],
               visible[p], outcome[p])
    BY <1>2, <2>2, KeepOK
  <2>4. Sets(inProgress, inProgress', p, H2) BY <1>0, <1>2, <2>1, SetsExcept DEF PeerType
  <2>5. HandIs(p, H2) BY <1>2, <1>11, <2>4, HandStep
  <2>6. /\ Sets(ring, ring', p, ring[p]) /\ Sets(scoreboard, scoreboard', p, scoreboard[p])
        /\ Sets(doneSeqs, doneSeqs', p, doneSeqs[p]) /\ Sets(groups, groups', p, groups[p])
        /\ Sets(nic, nic', p, N) /\ Sets(domain, domain', p, domain[p])
        /\ Sets(visible, visible', p, visible[p]) /\ Sets(outcome, outcome', p, outcome[p])
    <3>1. /\ ring' = ring /\ scoreboard' = scoreboard /\ doneSeqs' = doneSeqs /\ groups' = groups
          /\ nic' = nic /\ domain' = domain /\ visible' = visible /\ outcome' = outcome
      BY <1>5, <2>1 DEF doneVars, envVars
    <3> QED BY <1>0, <1>2, <3>1, SetsSame DEF PeerType
  <2>7. StepAt(p, H2, ring[p], scoreboard[p], doneSeqs[p], groups[p], N, domain[p], visible[p],
               outcome[p])
    BY <1>5, <2>5, <2>6 DEF StepAt
  <2>8. PeersOK' BY <1>0, <1>2, <2>3, <2>7, StepPeers
  <2>9. PeerType'
    <3>1. DOMAIN inProgress' = Peer /\ DOMAIN inFlights' = Peer
      BY <1>0, <2>1, <2>4 DEF Sets, PeerType
    <3> QED BY <1>0, <1>2, <2>7, <3>1, StepTypes
  <2>10. IsFiniteSet(H2) /\ Cardinality(H2) = Cardinality(H)
    <3>1. e \notin H \ {d} BY <1>3, <1>6, <1>9
    <3>2. IsFiniteSet(H \ {d}) /\ Cardinality(H \ {d}) = Cardinality(H) - 1
      BY <1>2, <1>6, FS_RemoveElement
    <3>3. Cardinality(H) \in Nat BY <1>2, FS_CardinalityType
    <3>4. IsFiniteSet(H2) /\ Cardinality(H2) = Cardinality(H \ {d}) + 1
      BY <3>1, <3>2, FS_AddElement DEF H2
    <3> QED BY <3>2, <3>3, <3>4
  <2>11. Sets(inFlights, inFlights', p, Cardinality(H2))
    <3>1. inFlights' = inFlights /\ inFlights[p] = Cardinality(H2) BY <1>2, <2>1, <2>10
    <3> QED BY <1>0, <1>2, <3>1, SetsSame DEF PeerType
  <2>12. CountInv' BY <1>0, <1>2, <1>11, <2>4, <2>10, <2>11, CountStep
  <2>13. ErrorInv'
    <3>1. rmaError => H2 = {} BY <1>0, <1>2, <1>6 DEF ErrorInv
    <3> QED BY <1>0, <1>2, <1>5, <1>11, <2>1, <2>4, <3>1, ErrorStep
  <2>14. PassType'
    <3>1. pendingError' \in BOOLEAN BY <1>0, <1>9, <2>1 DEF PassType
    <3> QED BY <1>0, <1>5, <1>11, <3>1 DEF PassType, Peer
  <2> QED BY <1>10, <2>8, <2>9, <2>12, <2>13, <2>14, PartsInv
<1>13. CASE d.getSequence = 0
  <2>1. /\ inProgress' = [inProgress EXCEPT ![p] = H \ {d}]
        /\ inFlights' = [inFlights EXCEPT ![p] = @ - 1]
        /\ CompleteDescs(p, {done})
    BY <1>4, <1>7, <1>13
  <2>2. Retires(H, ring[p], N, domain[p], visible[p], {done}, 0, ring[p], H \ {d})
    <3> HIDE DEF done, e
    <3> QED BY <1>2, <1>6, <1>8, <1>9, <1>13, PollRetires
  <2> HIDE DEF done, e
  <2>3. IsFiniteSet(H \ {d}) /\ Cardinality(H \ {d}) = inFlights[p] - 1
    <3>1. IsFiniteSet(H \ {d}) /\ Cardinality(H \ {d}) = Cardinality(H) - 1
      BY <1>2, <1>6, FS_RemoveElement
    <3> QED BY <1>2, <3>1
  <2>4. /\ Sets(inProgress, inProgress', p, H \ {d})
        /\ Sets(inFlights, inFlights', p, Cardinality(H \ {d}))
        /\ Sets(ring, ring', p, ring[p]) /\ Sets(domain, domain', p, domain[p])
    <3>1. inFlights' = [inFlights EXCEPT ![p] = Cardinality(H \ {d})] BY <2>1, <2>3
    <3>2. ring' = ring /\ domain' = domain BY <1>5
    <3>3. Sets(inProgress, inProgress', p, H \ {d}) BY <1>0, <1>2, <2>1, SetsExcept DEF PeerType
    <3>4. Sets(inFlights, inFlights', p, Cardinality(H \ {d}))
      BY <1>0, <1>2, <3>1, SetsExcept DEF PeerType
    <3> QED BY <1>0, <1>2, <3>2, <3>3, <3>4, SetsSame DEF PeerType
  <2>5. UNCHANGED <<opSeqs, nic, visible, rmaError>> BY <1>5 DEF envVars
  <2>6. PassType' /\ PeerType' /\ PeersOK' /\ CountInv' /\ ErrorInv'
    BY <1>0, <1>2, <1>11, <2>1, <2>2, <2>3, <2>4, <2>5, RetireStep
  <2> QED BY <1>10, <2>6, PartsInv
<1> QED BY <1>12, <1>13

\* The progress thread goes on to another stage or peer.
LEMMA WalkKeeps ==
  ASSUME IInv, PollEnd \/ SubmitEnd
  PROVE  IInv'
<1>0. ThreadType /\ StreamType /\ PassType /\ PeerType /\ CountInv /\ ErrorInv /\ PeersOK
  BY InvParts
<1>1. /\ UNCHANGED <<threadVars, stream, readySeqs, ringVars, doneVars, errVars, inProgress,
                     inFlights, domain, counting, envVars>>
      /\ counting = {}
  BY <1>0 DEF PollEnd, SubmitEnd, CountInv, Stage
<1>2. pass' \in [stage : Stages, peer : Peer]
  <2>1. CASE PollEnd
    <3>1. To("domain") /\ "domain" \in Stages BY <2>1 DEF PollEnd, Stages
    <3> QED BY <1>0, <3>1, ToIs
  <2>2. CASE SubmitEnd BY <1>0, <2>2, NextPeerIs DEF SubmitEnd
  <2> QED BY <2>1, <2>2
<1>3. ThreadType' /\ StreamType'
  <2>1. ProgressOnly BY <1>1 DEF ProgressOnly
  <2> QED BY <1>0, <2>1, ThreadsKeep
<1>4. PassType' BY <1>0, <1>1, <1>2 DEF PassType, errVars, Peer
<1>5. PeerType' BY <1>0, <1>1 DEF PeerType, ringVars, doneVars, envVars
<1>6. CountInv' /\ ErrorInv' BY <1>0, <1>1 DEF CountInv, ErrorInv, errVars
<1>7. PeersOK'
  <2>1. Quiet BY <1>1 DEF Quiet, ringVars, doneVars, envVars
  <2>2. \A r \in Peer : InHand(r)' = InHand(r) BY <1>1 DEF InHand
  <2> QED BY <1>0, <2>1, <2>2, QuietPeers
<1> QED BY <1>3, <1>4, <1>5, <1>6, <1>7, PartsInv

\* flagcxRmaProxyPublishError.
LEMMA EndKeeps ==
  ASSUME IInv, EndPass
  PROVE  IInv'
<1>0. ThreadType /\ StreamType /\ PassType /\ PeerType /\ CountInv /\ ErrorInv /\ PeersOK
  BY InvParts
<1>1. /\ UNCHANGED <<threadVars, stream, readySeqs, ringVars, doneVars, pendingError, inProgress,
                     inFlights, domain, counting, envVars>>
      /\ counting = {} /\ pass' = [stage |-> "poll", peer |-> 1]
      /\ rmaError' = (rmaError \/ (pendingError /\ AllNativeRequestsRetired))
  BY <1>0 DEF EndPass, CountInv, Stage
<1>2. pass' \in [stage : Stages, peer : Peer]
  <2>1. 1 \in Peer BY RmaProxyAssumption DEF Peer
  <2> QED BY <1>1, <2>1 DEF Stages
<1>3. ThreadType' /\ StreamType'
  <2>1. ProgressOnly BY <1>1 DEF ProgressOnly
  <2> QED BY <1>0, <2>1, ThreadsKeep
<1>4. PassType'
  <2>1. rmaError' \in BOOLEAN BY <1>0, <1>1 DEF PassType
  <2> QED BY <1>0, <1>1, <1>2, <2>1 DEF PassType, Peer
<1>5. PeerType' BY <1>0, <1>1 DEF PeerType, ringVars, doneVars, envVars
<1>6. CountInv' BY <1>0, <1>1 DEF CountInv
<1>7. ErrorInv'
  <2>1. AllNativeRequestsRetired => \A u \in Peer : inProgress[u] = {}
    BY <1>0, FS_EmptySet DEF AllNativeRequestsRetired, CountInv
  <2> QED BY <1>0, <1>1, <2>1 DEF ErrorInv
<1>8. PeersOK'
  <2>1. Quiet BY <1>1 DEF Quiet, ringVars, doneVars, envVars
  <2>2. \A r \in Peer : InHand(r)' = InHand(r) BY <1>1 DEF InHand
  <2> QED BY <1>0, <2>1, <2>2, QuietPeers
<1> QED BY <1>3, <1>4, <1>5, <1>6, <1>7, <1>8, PartsInv

-----------------------------------------------------------------------------
(* flagcxRmaProxyProgressGetVisibilityDomain *)

LEMMA DataCompletedIs ==
  ASSUME NEW p \in Peer, NEW H, H = inProgress[p], NEW m, m = domain[p], NEW N, GetsOK(H, m, N),
         H \in SUBSET Request
  PROVE  PrefixIs(H, m, DataCompleted(p))
<1>1. /\ m.dataCompleted \in Nat /\ m.issued \in Nat /\ m.dataCompleted <= m.issued
      /\ \A d \in H : d.getSequence \in Nat /\ d.getSequence <= m.issued
  BY DEF GetsOK, Domain, Request
<1> DEFINE W(g) == \E d \in Gets(p, g, g) : d.flushPending
           S == {x \in Nat : m.dataCompleted <= x /\ ~W(x + 1)}
<1>2. ~W(m.issued + 1) BY <1>1 DEF Gets
<1>3. m.issued \in S BY <1>1, <1>2
<1>4. PICK x \in S : \A y \in S : x <= y BY <1>3, LeastNatural
<1>5. x \in m.dataCompleted..m.issued /\ x \in Nat /\ ~W(x + 1) BY <1>1, <1>3, <1>4
<1>6. ASSUME NEW g \in m.dataCompleted+1..x PROVE W(g)
  <2>1. g - 1 \in Nat /\ m.dataCompleted <= g - 1 /\ g - 1 < x /\ (g - 1) + 1 = g BY <1>1, <1>5
  <2>2. g - 1 \notin S BY <1>4, <1>5, <2>1
  <2> HIDE DEF W
  <2> QED BY <2>1, <2>2
<1>7. \E c \in m.dataCompleted..m.issued :
        /\ \A g \in m.dataCompleted+1..c : \E d \in Gets(p, g, g) : d.flushPending
        /\ c < m.issued => ~\E d \in Gets(p, c + 1, c + 1) : d.flushPending
  BY <1>5, <1>6
<1> DEFINE c == DataCompleted(p)
<1>8. /\ c \in m.dataCompleted..m.issued
      /\ \A g \in m.dataCompleted+1..c : \E d \in Gets(p, g, g) : d.flushPending
  BY <1>7 DEF DataCompleted
<1> HIDE DEF c
<1>9. c \in Nat /\ m.dataCompleted <= c /\ c <= m.issued BY <1>1, <1>8
<1>10. ASSUME NEW g \in m.dataCompleted+1..c
       PROVE  \E d \in H : d.getSequence = g /\ d.flushPending
  <2>1. PICK d \in Gets(p, g, g) : d.flushPending BY <1>8
  <2>2. d \in H /\ d.getSequence \in g..g BY DEF Gets
  <2>3. d.getSequence = g
    <3>1. g \in Int /\ d.getSequence \in Nat BY <1>1, <1>9, <2>2
    <3> QED BY <2>2, <3>1
  <2> QED BY <2>1, <2>2, <2>3
<1> QED BY <1>9, <1>10 DEF PrefixIs, c

\* A step at the domain keeps the number of requests.
LEMMA DomainStep ==
  ASSUME IInv, pass.stage # "count", NEW p, p = pass.peer,
         NEW H2, Sets(inProgress, inProgress', p, H2), IsFiniteSet(H2),
         Cardinality(H2) = Cardinality(inProgress[p]), inProgress[p] = {} => H2 = {},
         NEW m2, Sets(domain, domain', p, m2), NEW V2, Sets(visible, visible', p, V2),
         PeerOK(H2, ring[p], opSeqs[p], scoreboard[p], doneSeqs[p], groups[p], nic[p], m2, V2,
                outcome[p]),
         UNCHANGED <<threadVars, stream, readySeqs, ringVars, doneVars, rmaError, inFlights,
                     counting, nic>>,
         pass' \in [stage : Stages, peer : Peer],
         pendingError => pendingError', pendingError' \in BOOLEAN
  PROVE  IInv'
<1>0. ThreadType /\ StreamType /\ PassType /\ PeerType /\ CountInv /\ ErrorInv /\ PeersOK
  BY InvParts
<1>1. /\ p \in Peer /\ counting = {} /\ inFlights[p] = Cardinality(inProgress[p]) BY PassFacts
<1>2. /\ ring' = ring /\ opSeqs' = opSeqs /\ scoreboard' = scoreboard /\ doneSeqs' = doneSeqs
      /\ groups' = groups /\ nic' = nic /\ outcome' = outcome /\ counting' = {}
      /\ inFlights' = inFlights
  BY <1>1 DEF ringVars, doneVars
<1>3. HandIs(p, H2) BY <1>1, <1>2, HandStep
<1>4. /\ Sets(ring, ring', p, ring[p]) /\ Sets(scoreboard, scoreboard', p, scoreboard[p])
      /\ Sets(doneSeqs, doneSeqs', p, doneSeqs[p]) /\ Sets(groups, groups', p, groups[p])
      /\ Sets(nic, nic', p, nic[p]) /\ Sets(outcome, outcome', p, outcome[p])
      /\ Sets(inFlights, inFlights', p, Cardinality(H2))
  BY <1>0, <1>1, <1>2, SetsSame DEF PeerType
<1>5. StepAt(p, H2, ring[p], scoreboard[p], doneSeqs[p], groups[p], nic[p], m2, V2, outcome[p])
  BY <1>2, <1>3, <1>4 DEF StepAt
<1>6. PeersOK' BY <1>0, <1>1, <1>5, StepPeers
<1>7. PeerType'
  <2>1. DOMAIN inProgress' = Peer /\ DOMAIN inFlights' = Peer BY <1>4 DEF Sets
  <2> QED BY <1>0, <1>1, <1>5, <2>1, StepTypes
<1>8. CountInv' BY <1>0, <1>1, <1>2, <1>4, CountStep
<1>9. ErrorInv'
  <2>1. rmaError => H2 = {} BY <1>0, <1>1 DEF ErrorInv
  <2> QED BY <1>0, <1>1, <1>2, <2>1, ErrorStep
<1>10. ThreadType' /\ StreamType'
  <2>1. ProgressOnly BY DEF ProgressOnly
  <2> QED BY <1>0, <2>1, ThreadsKeep
<1>11. PassType' BY <1>0 DEF PassType, Peer
<1> QED BY <1>6, <1>7, <1>8, <1>9, <1>10, <1>11, PartsInv

\* A failed flush changes no number of requests.
LEMMA FailsCount ==
  ASSUME NEW H, IsFiniteSet(H), H \in SUBSET Request, \A d, e \in H : d.seq = e.seq => d = e,
         NEW lo, NEW hi, NEW H2, FailsIn(H, lo, hi, H2)
  PROVE  IsFiniteSet(H2) /\ Cardinality(H2) = Cardinality(H) /\ (H = {} => H2 = {})
<1> DEFINE f == [d \in H |-> Fail(d, lo, hi)]
<1>1. H2 = {Fail(d, lo, hi) : d \in H} BY DEF FailsIn, Fail
<1>2. \A d \in H : Fail(d, lo, hi).seq = d.seq BY FailIs
<1>3. f \in Surjection(H, H2) BY <1>1 DEF Surjection
<1>4. f \in Injection(H, H2) BY <1>1, <1>2 DEF Injection, IsInjective
<1> HIDE DEF f
<1>5. IsFiniteSet(H2) /\ Cardinality(H2) = Cardinality(H) BY <1>3, <1>4, FS_Surjection
<1> QED BY <1>1, <1>5

LEMMA FailGetsIs ==
  ASSUME NEW p, NEW lo, NEW hi
  PROVE  FailsIn(inProgress[p], lo, hi, FailGets(p, lo, hi))
<1>1. \A d \in inProgress[p] : d \in Gets(p, lo, hi) <=> d.getSequence \in lo..hi BY DEF Gets
<1>2. FailGets(p, lo, hi)
        = {IF d \in Gets(p, lo, hi) THEN [d EXCEPT !.failed = TRUE] ELSE d : d \in inProgress[p]}
  BY DEF FailGets
<1>3. FailGets(p, lo, hi)
        = {IF d.getSequence \in lo..hi THEN [d EXCEPT !.failed = TRUE] ELSE d : d \in inProgress[p]}
  BY <1>1, <1>2
<1> QED BY <1>3 DEF FailsIn

\* The domain after its flush was tested.
LEMMA TestedIs ==
  ASSUME NEW m, m \in Domain, NEW c, NEW v, NEW b,
         NEW m2, m2 = [m EXCEPT !.dataCompleted = c, !.visible = v, !.request = b]
  PROVE  DomainIs(m2, m.issued, c, m.target, v, b, m.snapshot)
<1>1. DOMAIN m = {"issued", "dataCompleted", "target", "visible", "request", "snapshot"}
  BY DEF Domain
<1>2. /\ DOMAIN m2 = DOMAIN m /\ m2.issued = m.issued /\ m2.dataCompleted = c
      /\ m2.target = m.target /\ m2.visible = v /\ m2.request = b /\ m2.snapshot = m.snapshot
  BY <1>1
<1>3. m2 = [x \in DOMAIN m |-> m2[x]] OBVIOUS
<1>4. m2 = [issued |-> m2.issued, dataCompleted |-> m2.dataCompleted, target |-> m2.target,
            visible |-> m2.visible, request |-> m2.request, snapshot |-> m2.snapshot]
  BY <1>1, <1>2, <1>3
<1>5. DomainIs(m2, m2.issued, m2.dataCompleted, m2.target, m2.visible, m2.request, m2.snapshot)
  BY <1>4 DEF DomainIs
<1> QED BY <1>2, <1>5

LEMMA TestKeeps ==
  ASSUME IInv, NEW answer \in {"none", "pending", "done", "failed"}, TestFlush(answer),
         NEW p, p = pass.peer
  PROVE  IInv'
<1> DEFINE H == inProgress[p]
           m == domain[p]
           V == visible[p]
<1>0. PassType /\ PeerType BY InvParts
<1>1. pass.stage # "count" BY DEF TestFlush, Stage
<1>2. /\ p \in Peer /\ IsFiniteSet(H)
      /\ PeerOK(H, ring[p], opSeqs[p], scoreboard[p], doneSeqs[p], groups[p], nic[p], m, V,
                outcome[p])
  BY <1>1, PassFacts
<1>3. /\ H \in SUBSET Request /\ (\A d, e \in H : d.seq = e.seq => d = e) /\ GetsOK(H, m, nic[p])
      /\ m \in Domain /\ m.request \in BOOLEAN
  BY <1>2 DEF PeerOK, SeqOK, GetsOK, Domain
<1>4. PICK c : c = DataCompleted(p) OBVIOUS
<1>5. PrefixIs(H, m, c) BY <1>2, <1>3, <1>4, DataCompletedIs
<1>6. PICK b \in BOOLEAN : b = (m.request /\ answer # "pending") BY <1>3
<1>7. PICK r \in BOOLEAN : r = (m.request /\ ~b) BY <1>3
<1>8. PICK v : v = IF b THEN m.target ELSE m.visible OBVIOUS
<1>a. PICK m2 : m2 = [m EXCEPT !.dataCompleted = c, !.visible = v, !.request = r] OBVIOUS
<1>9. /\ domain' = [domain EXCEPT ![p] = m2]
      /\ IF m.request THEN answer # "none" ELSE answer = "none"
      /\ IF answer = "failed"
           THEN /\ inProgress' = [inProgress EXCEPT ![p] = FailGets(p, m.visible + 1, m.target)]
                /\ pendingError' = TRUE
                /\ UNCHANGED visible
           ELSE /\ visible' = IF b THEN [visible EXCEPT ![p] = @ \cup m.snapshot] ELSE visible
                /\ UNCHANGED <<inProgress, pendingError>>
  BY <1>4, <1>6, <1>7, <1>8, <1>a DEF TestFlush
<1>10. /\ UNCHANGED <<threadVars, stream, readySeqs, ringVars, doneVars, rmaError, inFlights,
                      counting, nic>>
       /\ To("flush")
  BY DEF TestFlush
<1>11. pass' \in [stage : Stages, peer : Peer]
  <2>1. "flush" \in Stages BY DEF Stages
  <2> QED BY <1>0, <1>10, <2>1, ToIs
<1>12. DomainIs(m2, m.issued, c, m.target, v, r, m.snapshot)
  <2>1. m \in Domain BY <1>3
  <2>2. m2 = [m EXCEPT !.dataCompleted = c, !.visible = v, !.request = r] BY <1>a
  <2> HIDE DEF m
  <2> QED BY <2>1, <2>2, TestedIs
<1>13. Sets(domain, domain', p, m2) BY <1>0, <1>2, <1>9, SetsExcept DEF PeerType
<1>14. pendingError \in BOOLEAN BY <1>0 DEF PassType
<1>15. CASE ~b
  <2>1. /\ answer # "failed" /\ v = m.visible /\ (r <=> m.request) /\ r = m.request
    BY <1>3, <1>6, <1>7, <1>8, <1>9, <1>15
  <2>2. inProgress' = inProgress /\ visible' = visible /\ pendingError' = pendingError
    BY <1>9, <1>15, <2>1
  <2>3. TestSteps(H, m, V, H, m2, V) BY <1>5, <1>12, <2>1 DEF TestSteps
  <2>4. PeerOK(H, ring[p], opSeqs[p], scoreboard[p], doneSeqs[p], groups[p], nic[p], m2, V,
               outcome[p])
    BY <1>2, <2>3, TestOK
  <2>5. Sets(inProgress, inProgress', p, H) /\ Sets(visible, visible', p, V)
    BY <1>0, <1>2, <2>2, SetsSame DEF PeerType
  <2> QED BY <1>1, <1>2, <1>10, <1>11, <1>13, <1>14, <2>2, <2>4, <2>5, DomainStep
<1>16. CASE b /\ answer # "failed"
  <2> DEFINE V2 == V \cup m.snapshot
  <2>1. m.request /\ v = m.target /\ r = FALSE BY <1>6, <1>7, <1>8, <1>16
  <2>2. /\ inProgress' = inProgress /\ visible' = [visible EXCEPT ![p] = V2]
        /\ pendingError' = pendingError
    BY <1>9, <1>16
  <2>3. TestSteps(H, m, V, H, m2, V2) BY <1>5, <1>12, <2>1 DEF TestSteps
  <2> HIDE DEF V2
  <2>4. PeerOK(H, ring[p], opSeqs[p], scoreboard[p], doneSeqs[p], groups[p], nic[p], m2, V2,
               outcome[p])
    BY <1>2, <2>3, TestOK
  <2>5. Sets(inProgress, inProgress', p, H) BY <1>0, <1>2, <2>2, SetsSame DEF PeerType
  <2>6. Sets(visible, visible', p, V2) BY <1>0, <1>2, <2>2, SetsExcept DEF PeerType
  <2> QED BY <1>1, <1>2, <1>10, <1>11, <1>13, <1>14, <2>2, <2>4, <2>5, <2>6, DomainStep
<1>17. CASE b /\ answer = "failed"
  <2> DEFINE H2 == FailGets(p, m.visible + 1, m.target)
  <2>1. m.request /\ v = m.target /\ r = FALSE BY <1>6, <1>7, <1>8, <1>17
  <2>2. /\ inProgress' = [inProgress EXCEPT ![p] = H2] /\ visible' = visible
        /\ pendingError' = TRUE
    BY <1>9, <1>17
  <2>3. FailsIn(H, m.visible + 1, m.target, H2) BY FailGetsIs
  <2> HIDE DEF H2
  <2>4. TestSteps(H, m, V, H2, m2, V) BY <1>5, <1>12, <2>1, <2>3 DEF TestSteps
  <2>5. PeerOK(H2, ring[p], opSeqs[p], scoreboard[p], doneSeqs[p], groups[p], nic[p], m2, V,
               outcome[p])
    BY <1>2, <2>4, TestOK
  <2>6. Sets(inProgress, inProgress', p, H2) BY <1>0, <1>2, <2>2, SetsExcept DEF PeerType
  <2>7. Sets(visible, visible', p, V) BY <1>0, <1>2, <2>2, SetsSame DEF PeerType
  <2>8. IsFiniteSet(H2) /\ Cardinality(H2) = Cardinality(H) /\ (H = {} => H2 = {})
    BY <1>2, <1>3, <2>3, FailsCount
  <2>9. pendingError' \in BOOLEAN /\ (pendingError => pendingError') BY <2>2
  <2> QED BY <1>1, <1>2, <1>10, <1>11, <1>13, <2>5, <2>6, <2>7, <2>8, <2>9, DomainStep
<1> QED BY <1>15, <1>16, <1>17

\* The domain when failed GETs alone are left, and after a flush was posted.
LEMMA SkippedIs ==
  ASSUME NEW m, m \in Domain, NEW c,
         NEW m2, m2 = [m EXCEPT !.visible = c, !.target = c]
  PROVE  DomainIs(m2, m.issued, m.dataCompleted, c, c, m.request, m.snapshot)
<1>1. DOMAIN m = {"issued", "dataCompleted", "target", "visible", "request", "snapshot"}
  BY DEF Domain
<1>2. /\ DOMAIN m2 = DOMAIN m /\ m2.issued = m.issued /\ m2.dataCompleted = m.dataCompleted
      /\ m2.target = c /\ m2.visible = c /\ m2.request = m.request /\ m2.snapshot = m.snapshot
  BY <1>1
<1>3. m2 = [x \in DOMAIN m |-> m2[x]] OBVIOUS
<1>4. m2 = [issued |-> m2.issued, dataCompleted |-> m2.dataCompleted, target |-> m2.target,
            visible |-> m2.visible, request |-> m2.request, snapshot |-> m2.snapshot]
  BY <1>1, <1>2, <1>3
<1>5. DomainIs(m2, m2.issued, m2.dataCompleted, m2.target, m2.visible, m2.request, m2.snapshot)
  BY <1>4 DEF DomainIs
<1> QED BY <1>2, <1>5

LEMMA PostedIs ==
  ASSUME NEW m, m \in Domain, NEW t, NEW b, NEW s, NEW v,
         NEW m2, m2 = [m EXCEPT !.target = t, !.request = b, !.snapshot = s, !.visible = v]
  PROVE  DomainIs(m2, m.issued, m.dataCompleted, t, v, b, s)
<1>1. DOMAIN m = {"issued", "dataCompleted", "target", "visible", "request", "snapshot"}
  BY DEF Domain
<1>2. /\ DOMAIN m2 = DOMAIN m /\ m2.issued = m.issued /\ m2.dataCompleted = m.dataCompleted
      /\ m2.target = t /\ m2.visible = v /\ m2.request = b /\ m2.snapshot = s
  BY <1>1
<1>3. m2 = [x \in DOMAIN m |-> m2[x]] OBVIOUS
<1>4. m2 = [issued |-> m2.issued, dataCompleted |-> m2.dataCompleted, target |-> m2.target,
            visible |-> m2.visible, request |-> m2.request, snapshot |-> m2.snapshot]
  BY <1>1, <1>2, <1>3
<1>5. DomainIs(m2, m2.issued, m2.dataCompleted, m2.target, m2.visible, m2.request, m2.snapshot)
  BY <1>4 DEF DomainIs
<1> QED BY <1>2, <1>5

LEMMA PostFlushKeeps ==
  ASSUME IInv, NEW answer, PostFlush(answer), NEW p, p = pass.peer
  PROVE  IInv'
<1> DEFINE H == inProgress[p]
           m == domain[p]
           V == visible[p]
           N == nic[p]
           c == m.dataCompleted
           idle == m.request \/ c <= m.visible
           target == FlushTarget(m)
           range == {d \in H : d.getSequence \in m.visible + 1 .. target /\ ~d.failed}
           arrived == {q \in Seqs : N[q] = "ok"}
<1>0. PassType /\ PeerType BY InvParts
<1>1. pass.stage # "count" BY DEF PostFlush, Stage
<1>2. /\ p \in Peer /\ IsFiniteSet(H)
      /\ PeerOK(H, ring[p], opSeqs[p], scoreboard[p], doneSeqs[p], groups[p], N, m, V, outcome[p])
  BY <1>1, PassFacts
<1>3. /\ H \in SUBSET Request /\ (\A d, e \in H : d.seq = e.seq => d = e) /\ GetsOK(H, m, N)
      /\ m \in Domain /\ m.request \in BOOLEAN /\ c \in Nat /\ m.visible \in Nat
  BY <1>2 DEF PeerOK, SeqOK, GetsOK, Domain
<1>4. Flushable(p, m.visible + 1, target) = range /\ Arrived(p) = arrived
  BY DEF Flushable, Gets, Arrived
<1>5. /\ UNCHANGED <<threadVars, stream, readySeqs, ringVars, doneVars, rmaError, inFlights,
                     counting, nic>>
      /\ To("gets")
  BY DEF PostFlush
<1>6. pass' \in [stage : Stages, peer : Peer]
  <2>1. "gets" \in Stages BY DEF Stages
  <2> QED BY <1>0, <1>5, <2>1, ToIs
<1>7. pendingError \in BOOLEAN BY <1>0 DEF PassType
<1>8. CASE idle
  <2>1. inProgress' = inProgress /\ visible' = visible /\ pendingError' = pendingError
        /\ domain' = domain
    BY <1>8 DEF PostFlush
  <2>2. Sets(inProgress, inProgress', p, H) /\ Sets(visible, visible', p, V)
        /\ Sets(domain, domain', p, m)
    BY <1>0, <1>2, <2>1, SetsSame DEF PeerType
  <2> HIDE DEF H, V, m, N
  <2> QED BY <1>1, <1>2, <1>5, <1>6, <1>7, <2>1, <2>2, DomainStep DEF H, N
<1>9. CASE ~idle /\ range = {}
  <2>1. /\ domain' = [domain EXCEPT ![p].visible = c, ![p].target = c]
        /\ UNCHANGED <<inProgress, visible, pendingError>>
    BY <1>4, <1>9 DEF PostFlush
  <2>2. PICK m2 : m2 = [m EXCEPT !.visible = c, !.target = c] OBVIOUS
  <2>3. domain' = [domain EXCEPT ![p] = m2] BY <1>0, <1>2, <2>1, <2>2 DEF PeerType
  <2>4. Sets(inProgress, inProgress', p, H) /\ Sets(visible, visible', p, V)
    <3>1. inProgress' = inProgress /\ visible' = visible BY <2>1
    <3> QED BY <1>0, <1>2, <3>1, SetsSame DEF PeerType
  <2>5. Sets(domain, domain', p, m2) BY <1>0, <1>2, <2>3, SetsExcept DEF PeerType
  <2>6. DomainIs(m2, m.issued, c, c, c, m.request, m.snapshot)
    <3>1. m \in Domain BY <1>3
    <3> HIDE DEF m
    <3> QED BY <2>2, <3>1, SkippedIs
  <2>7. ~m.request /\ m.visible < c BY <1>3, <1>9
  <2>8. PostSteps(H, N, m, V, H, m2, V) BY <1>9, <2>6, <2>7 DEF PostSteps
  <2>9. PeerOK(H, ring[p], opSeqs[p], scoreboard[p], doneSeqs[p], groups[p], N, m2, V, outcome[p])
    BY <1>2, <2>8, PostOK
  <2>10. pendingError' = pendingError BY <2>1
  <2> QED BY <1>1, <1>2, <1>5, <1>6, <1>7, <2>4, <2>5, <2>9, <2>10, DomainStep
<1>10. CASE ~idle /\ range # {}
  <2>1. PICK b \in BOOLEAN : b = (answer = "request") OBVIOUS
  <2>2. PICK v : v = IF answer \in {"done", "failed"} THEN target ELSE m.visible OBVIOUS
  <2>3. PICK m2 : m2 = [m EXCEPT !.target = target, !.request = b, !.snapshot = arrived,
                                 !.visible = v]
    OBVIOUS
  <2>4. /\ answer \in {"pending", "request", "done", "failed"}
        /\ domain' = [domain EXCEPT ![p] = m2]
        /\ visible' = IF answer = "done" THEN [visible EXCEPT ![p] = @ \cup arrived] ELSE visible
        /\ IF answer = "failed"
             THEN /\ inProgress' = [inProgress EXCEPT ![p] = FailGets(p, m.visible + 1, target)]
                  /\ pendingError' = TRUE
             ELSE UNCHANGED <<inProgress, pendingError>>
    <3>1. /\ answer \in {"pending", "request", "done"}
                          \cup (IF failures < MaxFailures THEN {"failed"} ELSE {})
          /\ domain' = [domain EXCEPT ![p] =
               [m EXCEPT !.target = target,
                         !.request = (answer = "request"),
                         !.snapshot = Arrived(p),
                         !.visible = IF answer \in {"done", "failed"} THEN target ELSE m.visible]]
          /\ visible' = IF answer = "done" THEN [visible EXCEPT ![p] = @ \cup Arrived(p)]
                                           ELSE visible
          /\ IF answer = "failed"
               THEN /\ inProgress' = [inProgress EXCEPT ![p] = FailGets(p, m.visible + 1, target)]
                    /\ pendingError' = TRUE
               ELSE UNCHANGED <<inProgress, pendingError>>
      BY <1>4, <1>10 DEF PostFlush
    <3>2. answer \in {"pending", "request", "done", "failed"} BY <3>1
    <3>3. domain' = [domain EXCEPT ![p] = m2]
      <4>1. domain' = [domain EXCEPT ![p] =
               [m EXCEPT !.target = target,
                         !.request = (answer = "request"),
                         !.snapshot = Arrived(p),
                         !.visible = IF answer \in {"done", "failed"} THEN target ELSE m.visible]]
        BY <3>1
      <4> HIDE DEF m, target, arrived
      <4> QED BY <1>4, <2>1, <2>2, <2>3, <4>1
    <3> QED BY <1>4, <3>1, <3>2, <3>3
  <2>5. Sets(domain, domain', p, m2) BY <1>0, <1>2, <2>4, SetsExcept DEF PeerType
  <2>6. DomainIs(m2, m.issued, c, target, v, b, arrived)
    <3>1. m \in Domain BY <1>3
    <3> HIDE DEF m, target, arrived
    <3> QED BY <2>3, <3>1, PostedIs
  <2>7. ~m.request /\ m.visible < c BY <1>3, <1>10
  <2>8. CASE answer \in {"pending", "request"}
    <3>1. inProgress' = inProgress /\ visible' = visible /\ pendingError' = pendingError
      BY <2>4, <2>8
    <3>2. v = m.visible /\ (b = FALSE \/ b = TRUE) BY <2>1, <2>2, <2>8
    <3>3. PostSteps(H, N, m, V, H, m2, V) BY <1>10, <2>6, <2>7, <3>2 DEF PostSteps
    <3>4. PeerOK(H, ring[p], opSeqs[p], scoreboard[p], doneSeqs[p], groups[p], N, m2, V, outcome[p])
      BY <1>2, <3>3, PostOK
    <3>5. Sets(inProgress, inProgress', p, H) /\ Sets(visible, visible', p, V)
      BY <1>0, <1>2, <3>1, SetsSame DEF PeerType
    <3> QED BY <1>1, <1>2, <1>5, <1>6, <1>7, <2>5, <3>1, <3>4, <3>5, DomainStep
  <2>9. CASE answer = "done"
    <3> DEFINE V2 == V \cup arrived
    <3>1. inProgress' = inProgress /\ visible' = [visible EXCEPT ![p] = V2]
          /\ pendingError' = pendingError
      BY <2>4, <2>9
    <3>2. v = target /\ b = FALSE BY <2>1, <2>2, <2>9
    <3>3. PostSteps(H, N, m, V, H, m2, V2) BY <1>10, <2>6, <2>7, <3>2 DEF PostSteps
    <3> HIDE DEF V2
    <3>4. PeerOK(H, ring[p], opSeqs[p], scoreboard[p], doneSeqs[p], groups[p], N, m2, V2, outcome[p])
      BY <1>2, <3>3, PostOK
    <3>5. Sets(inProgress, inProgress', p, H) BY <1>0, <1>2, <3>1, SetsSame DEF PeerType
    <3>6. Sets(visible, visible', p, V2) BY <1>0, <1>2, <3>1, SetsExcept DEF PeerType
    <3> QED BY <1>1, <1>2, <1>5, <1>6, <1>7, <2>5, <3>1, <3>4, <3>5, <3>6, DomainStep
  <2>10. CASE answer = "failed"
    <3> DEFINE H2 == FailGets(p, m.visible + 1, target)
    <3>1. inProgress' = [inProgress EXCEPT ![p] = H2] /\ visible' = visible
          /\ pendingError' = TRUE
      BY <2>4, <2>10
    <3>2. v = target /\ b = FALSE BY <2>1, <2>2, <2>10
    <3>3. FailsIn(H, m.visible + 1, target, H2) BY FailGetsIs
    <3> HIDE DEF H2
    <3>4. PostSteps(H, N, m, V, H2, m2, V) BY <1>10, <2>6, <2>7, <3>2, <3>3 DEF PostSteps
    <3>5. PeerOK(H2, ring[p], opSeqs[p], scoreboard[p], doneSeqs[p], groups[p], N, m2, V, outcome[p])
      BY <1>2, <3>4, PostOK
    <3>6. Sets(inProgress, inProgress', p, H2) BY <1>0, <1>2, <3>1, SetsExcept DEF PeerType
    <3>7. Sets(visible, visible', p, V) BY <1>0, <1>2, <3>1, SetsSame DEF PeerType
    <3>8. IsFiniteSet(H2) /\ Cardinality(H2) = Cardinality(H) /\ (H = {} => H2 = {})
      BY <1>2, <1>3, <3>3, FailsCount
    <3>9. pendingError' \in BOOLEAN /\ (pendingError => pendingError') BY <3>1
    <3> QED BY <1>1, <1>2, <1>5, <1>6, <2>5, <3>5, <3>6, <3>7, <3>8, <3>9, DomainStep
  <2> QED BY <2>4, <2>8, <2>9, <2>10
<1> QED BY <1>8, <1>9, <1>10

\* The GETs that are visible are retired.
LEMMA GetsRetire ==
  ASSUME NEW H, NEW R, NEW n, NEW sb, NEW done, NEW G, NEW N, NEW m, NEW V, NEW out,
         PeerOK(H, R, n, sb, done, G, N, m, V, out),
         NEW D, D = {d \in H : d.flushPending /\ d.getSequence <= m.visible}
  PROVE  Retires(H, R, N, m, V, D, 0, R, H \ D)
<1> DEFINE Q == NumbersOf(D)
<1>1. /\ SeqOK(H, R, n) /\ GetsOK(H, m, N) /\ FlushOK(H, m, V) /\ LiveOK(H, R, n, N)
      /\ R \in Seq(Desc) /\ n \in Nat /\ Len(R) \in Nat
      /\ \A x, y \in H : x.seq = y.seq => x = y
      /\ \A j \in 1..Len(R) : R[j].seq = n - Len(R) + j
      /\ \A d \in H : d.seq \in Nat /\ d.seq <= n - Len(R) /\ d.getSequence \in Nat
      /\ m.visible \in Nat
  BY LenProperties DEF PeerOK, SeqOK, GetsOK, Request, Domain
<1>2. /\ \A q \in Q : \E d \in D : d.seq = q
      /\ \A d \in D : d.seq \in Q /\ d \in H
  BY DEF NumbersOf
<1>3. \A h \in H : h.seq \in Q => h \in D BY <1>1, <1>2
<1>4. Dropped(R, 0, R)
  <2>1. 0 \in 0..Len(R) /\ Len(R) = Len(R) - 0 BY <1>1
  <2>2. \A j \in 1..Len(R) : R[j] = R[0 + j] BY <1>1
  <2> QED BY <1>1, <2>1, <2>2 DEF Dropped
<1>5. AreOf(D, Outstanding(H, R)) BY <1>1, <1>2, OutstandingIs DEF AreOf
<1>6. FirstOf(R, 0, Q)
  <2>1. ASSUME NEW j \in 1..Len(R) PROVE R[j].seq \notin Q /\ ~(j <= 0)
    <3>1. R[j].seq = n - Len(R) + j BY <1>1
    <3>2. ASSUME NEW d \in D, d.seq = R[j].seq PROVE FALSE
      <4>1. d.seq \in Nat /\ d.seq <= n - Len(R) BY <1>1, <1>2
      <4> QED BY <1>1, <3>1, <3>2, <4>1
    <3> QED BY <1>2, <3>2
  <2> QED BY <2>1 DEF FirstOf
<1>7. Without(H, Q, H \ D) BY <1>2, <1>3 DEF Without
<1>8. \A h \in H : h.seq \in Q => h.getSequence <= m.visible BY <1>3
<1>9. ASSUME NEW h \in H, h.seq \in Q, h.seq \in Seqs PROVE N[h.seq] # "live"
  <2>1. h.flushPending BY <1>3, <1>9
  <2> QED BY <1>1, <1>9, <2>1 DEF LiveOK
<1>10. ASSUME NEW d \in D, ~d.failed, d.seq \in Seqs PROVE d.seq \in V
  <2>1. d \in H /\ d.getSequence # 0 /\ d.getSequence <= m.visible /\ d.getSequence \in Nat
    BY <1>1, <1>2 DEF GetsOK
  <2>2. d.getSequence \in 1..m.visible BY <1>1, <2>1
  <2> QED BY <1>1, <1>10, <2>1, <2>2 DEF FlushOK, Within
<1> HIDE DEF Q
<1> QED BY <1>4, <1>5, <1>6, <1>7, <1>8, <1>9, <1>10 DEF Retires, Q

LEMMA RetireGetsKeeps ==
  ASSUME IInv, RetireGets, NEW p, p = pass.peer
  PROVE  IInv'
<1> DEFINE H == inProgress[p]
           m == domain[p]
<1>0. ThreadType /\ StreamType /\ PassType /\ PeerType /\ CountInv /\ ErrorInv /\ PeersOK
  BY InvParts
<1>1. pass.stage # "count" BY DEF RetireGets, Stage
<1>2. /\ p \in Peer /\ counting = {} /\ IsFiniteSet(H) /\ inFlights[p] = Cardinality(H)
      /\ PeerOK(H, ring[p], opSeqs[p], scoreboard[p], doneSeqs[p], groups[p], nic[p], m,
                visible[p], outcome[p])
  BY <1>1, PassFacts
<1>3. PICK D : D = {d \in H : d.flushPending /\ d.getSequence <= m.visible} OBVIOUS
<1> DEFINE H2 == H \ D
<1>4. /\ inProgress' = [inProgress EXCEPT ![p] = H2]
      /\ inFlights' = [inFlights EXCEPT ![p] = @ - Cardinality(D)]
      /\ CompleteDescs(p, D)
      /\ domain' = IF ~m.request /\ m.issued = m.visible /\ Gets(p, 1, m.issued) \cap H2 = {}
                   THEN [domain EXCEPT ![p] = NoDomain] ELSE domain
  BY <1>3 DEF RetireGets
<1>5. /\ UNCHANGED <<threadVars, stream, readySeqs, ring, opSeqs, rmaError, counting, envVars>>
      /\ To("submit")
  BY DEF RetireGets
<1>6. ThreadType' /\ StreamType'
  <2>1. ProgressOnly BY <1>5 DEF ProgressOnly
  <2> QED BY <1>0, <2>1, ThreadsKeep
<1>7. pass' \in [stage : Stages, peer : Peer]
  <2>1. "submit" \in Stages BY DEF Stages
  <2> QED BY <1>0, <1>5, <2>1, ToIs
<1>8. Retires(H, ring[p], nic[p], m, visible[p], D, 0, ring[p], H2)
  BY <1>2, <1>3, GetsRetire
<1>9. IsFiniteSet(H2) /\ Cardinality(H2) = inFlights[p] - Cardinality(D)
  <2>1. D \subseteq H BY <1>3
  <2>2. H \cap D = D BY <2>1
  <2>3. IsFiniteSet(H2) /\ Cardinality(H2) = Cardinality(H) - Cardinality(H \cap D)
    BY <1>2, FS_Difference
  <2> QED BY <1>2, <2>2, <2>3
<1>10. PICK m2 :
         /\ Sets(domain, domain', p, m2)
         /\ m2 = m \/ (m2 = NoDomain /\ \A d \in H2 : d.getSequence \notin 1..m.issued)
  <2>1. CASE ~m.request /\ m.issued = m.visible /\ Gets(p, 1, m.issued) \cap H2 = {}
    <3>1. domain' = [domain EXCEPT ![p] = NoDomain] BY <1>4, <2>1
    <3>2. Sets(domain, domain', p, NoDomain) BY <1>0, <1>2, <3>1, SetsExcept DEF PeerType
    <3>3. \A d \in H2 : d.getSequence \notin 1..m.issued BY <2>1 DEF Gets
    <3> QED BY <3>2, <3>3
  <2>2. CASE ~(~m.request /\ m.issued = m.visible /\ Gets(p, 1, m.issued) \cap H2 = {})
    <3>1. domain' = domain BY <1>4, <2>2
    <3>2. Sets(domain, domain', p, m) BY <1>0, <1>2, <3>1, SetsSame DEF PeerType
    <3> QED BY <3>2
  <2> QED BY <2>1, <2>2
<1> HIDE DEF H2
<1>11. Sets(inProgress, inProgress', p, H2) BY <1>0, <1>2, <1>4, SetsExcept DEF PeerType
<1>12. Sets(inFlights, inFlights', p, Cardinality(H2))
  <2>1. inFlights' = [inFlights EXCEPT ![p] = Cardinality(H2)] BY <1>4, <1>9
  <2> QED BY <1>0, <1>2, <2>1, SetsExcept DEF PeerType
<1>13. Sets(ring, ring', p, ring[p]) BY <1>0, <1>2, <1>5, SetsSame DEF PeerType
<1>14. UNCHANGED <<opSeqs, nic, visible, rmaError>> /\ counting' = {} BY <1>2, <1>5 DEF envVars
<1>15. PassType' /\ PeerType' /\ PeersOK' /\ CountInv' /\ ErrorInv'
  BY <1>0, <1>2, <1>4, <1>7, <1>8, <1>9, <1>10, <1>11, <1>12, <1>13, <1>14, RetireStep
<1> QED BY <1>6, <1>15, PartsInv

-----------------------------------------------------------------------------
(* flagcxRmaProxyPollNonPersistDesc: descriptors that are retired from the *)
(* ring                                                                    *)

LEMMA QueuedIs ==
  ASSUME NEW d \in Desc, NEW b \in BOOLEAN
  PROVE  LET e == Queued(d, b) IN
         /\ e \in Request /\ Core(e) = Core(d) /\ e.seq = d.seq /\ e.type = d.type
         /\ e.failed = b /\ e.flushPending = FALSE /\ e.getSequence = 0
<1>1. d.seq \in Nat /\ d.type \in DescTypes /\ d.group \in Nat BY DEF Desc
<1> QED BY <1>1 DEF Queued, Request, Core

\* The requests of the first k descriptors of the ring.
FirstQueued(R, k, b, D) == D = {Queued(R[j], b) : j \in 1..k}

LEMMA QueuedTaken ==
  ASSUME NEW H, NEW R, NEW n, SeqOK(H, R, n), NEW k \in 0..Len(R), NEW b \in BOOLEAN,
         NEW D, FirstQueued(R, k, b, D)
  PROVE  Taken(D, R, k) /\ \A d \in D : d.failed = b /\ d.getSequence = 0 /\ ~d.flushPending
<1>1. /\ R \in Seq(Desc) /\ Len(R) \in Nat /\ n \in Nat
      /\ \A j \in 1..Len(R) : R[j].seq = n - Len(R) + j
  BY LenProperties DEF SeqOK
<1>2. ASSUME NEW j \in 1..k
      PROVE  j \in 1..Len(R) /\ R[j] \in Desc
  BY <1>1
<1>3. /\ \A j \in 1..k : Queued(R[j], b) \in D
      /\ \A d \in D : \E j \in 1..k : d = Queued(R[j], b)
  BY DEF FirstQueued
<1>4. ASSUME NEW j \in 1..k
      PROVE  LET e == Queued(R[j], b) IN
             /\ e \in Request /\ Core(e) = Core(R[j]) /\ e.seq = R[j].seq
             /\ e.failed = b /\ e.flushPending = FALSE /\ e.getSequence = 0
  BY <1>2, QueuedIs
<1>5. ASSUME NEW d \in D
      PROVE  /\ d \in Request /\ d.failed = b /\ d.flushPending = FALSE /\ d.getSequence = 0
             /\ \E j \in 1..k : Core(d) = Core(R[j])
  <2>1. PICK j \in 1..k : d = Queued(R[j], b) BY <1>3
  <2> QED BY <1>4, <2>1
<1>6. ASSUME NEW j \in 1..k PROVE \E d \in D : Core(d) = Core(R[j]) BY <1>3, <1>4
<1>7. ASSUME NEW d \in D, NEW e \in D, d.seq = e.seq PROVE d = e
  <2>1. PICK i \in 1..k : d = Queued(R[i], b) BY <1>3
  <2>2. PICK j \in 1..k : e = Queued(R[j], b) BY <1>3
  <2>3. n - Len(R) + i = n - Len(R) + j BY <1>1, <1>2, <1>4, <1>7, <2>1, <2>2
  <2>4. i = j BY <1>1, <2>3
  <2> QED BY <2>1, <2>2, <2>4
<1>8. Taken(D, R, k) BY <1>5, <1>6, <1>7 DEF Taken
<1> QED BY <1>5, <1>8

LEMMA RingRetires ==
  ASSUME NEW H, NEW R, NEW n, NEW sb, NEW done, NEW G, NEW N, NEW m, NEW V, NEW out,
         PeerOK(H, R, n, sb, done, G, N, m, V, out),
         NEW D, NEW k, Taken(D, R, k), NEW R2, Dropped(R, k, R2),
         \A d \in D : d.type = "get" => d.failed
  PROVE  Retires(H, R, N, m, V, D, k, R2, H)
<1> DEFINE Q == NumbersOf(D)
<1>1. /\ SeqOK(H, R, n) /\ R \in Seq(Desc) /\ n \in Nat /\ Len(R) \in Nat
      /\ \A j \in 1..Len(R) : R[j].seq = n - Len(R) + j
      /\ \A d \in H : d.seq \in Nat /\ d.seq <= n - Len(R)
      /\ k \in Nat /\ k <= Len(R)
  BY LenProperties DEF PeerOK, SeqOK, Request, Dropped
<1>2. /\ \A q \in Q : \E d \in D : d.seq = q
      /\ \A d \in D : d.seq \in Q
  BY DEF NumbersOf
<1>3. ASSUME NEW j \in 1..k PROVE j \in 1..Len(R) /\ j \in Nat /\ j >= 1 /\ j <= k BY <1>1
<1>4. ASSUME NEW d \in D
      PROVE  \E j \in 1..k : Core(d) = Core(R[j]) /\ d.seq = n - Len(R) + j
  <2>1. PICK j \in 1..k : Core(d) = Core(R[j]) BY DEF Taken
  <2>2. d.seq = R[j].seq BY <2>1 DEF Core
  <2> QED BY <1>1, <1>3, <2>1, <2>2
<1>5. AreOf(D, Outstanding(H, R))
  <2>1. \A d \in D : Core(d) \in Outstanding(H, R)
    <3> TAKE d \in D
    <3>1. PICK j \in 1..k : Core(d) = Core(R[j]) BY <1>4
    <3> QED BY <1>1, <1>3, <3>1, OutstandingIs
  <2> QED BY <2>1 DEF AreOf, Taken
<1>6. ASSUME NEW i \in 1..Len(R) PROVE R[i].seq \in Q <=> i <= k
  <2>1. i \in Nat /\ i >= 1 /\ R[i].seq = n - Len(R) + i BY <1>1
  <2>2. ASSUME R[i].seq \in Q PROVE i <= k
    <3>1. PICK d \in D : d.seq = R[i].seq BY <1>2, <2>2
    <3>2. PICK j \in 1..k : d.seq = n - Len(R) + j BY <1>4
    <3>3. i = j BY <1>1, <1>3, <2>1, <3>1, <3>2
    <3> QED BY <1>3, <3>3
  <2>3. ASSUME i <= k PROVE R[i].seq \in Q
    <3>1. i \in 1..k BY <1>1, <2>1, <2>3
    <3>2. PICK d \in D : Core(d) = Core(R[i]) BY <3>1 DEF Taken
    <3>3. d.seq = R[i].seq BY <3>2 DEF Core
    <3> QED BY <1>2, <3>3
  <2> QED BY <2>2, <2>3
<1>7. ASSUME NEW h \in H PROVE h.seq \notin Q
  <2>1. ASSUME NEW d \in D, d.seq = h.seq PROVE FALSE
    <3>1. PICK j \in 1..k : d.seq = n - Len(R) + j BY <1>4
    <3>2. h.seq \in Nat /\ h.seq <= n - Len(R) BY <1>1
    <3> QED BY <1>1, <1>3, <2>1, <3>1, <3>2
  <2> QED BY <1>2, <2>1
<1>8. Without(H, Q, H) BY <1>7 DEF Without
<1>9. FirstOf(R, k, Q) BY <1>6 DEF FirstOf
<1> HIDE DEF Q
<1> QED BY <1>5, <1>7, <1>8, <1>9 DEF Retires, Q

\* A step that retires the first k descriptors of the ring.
LEMMA RingStep ==
  ASSUME IInv, pass.stage # "count", NEW p, p = pass.peer, NEW D, CompleteDescs(p, D), NEW k,
         Taken(D, ring[p], k), NEW R2, Dropped(ring[p], k, R2),
         \A d \in D : d.type = "get" => d.failed,
         ring' = [ring EXCEPT ![p] = R2],
         UNCHANGED <<threadVars, stream, readySeqs, opSeqs, rmaError, inProgress, inFlights, domain,
                     counting, nic, visible>>,
         pass' \in [stage : Stages, peer : Peer]
  PROVE  IInv'
<1>0. ThreadType /\ StreamType /\ PassType /\ PeerType /\ CountInv /\ ErrorInv /\ PeersOK
  BY InvParts
<1> DEFINE H == inProgress[p]
<1>1. /\ p \in Peer /\ counting = {} /\ IsFiniteSet(H) /\ inFlights[p] = Cardinality(H)
      /\ PeerOK(H, ring[p], opSeqs[p], scoreboard[p], doneSeqs[p], groups[p], nic[p], domain[p],
                visible[p], outcome[p])
  BY PassFacts
<1>2. ThreadType' /\ StreamType'
  <2>1. ProgressOnly BY DEF ProgressOnly
  <2> QED BY <1>0, <2>1, ThreadsKeep
<1>3. Retires(H, ring[p], nic[p], domain[p], visible[p], D, k, R2, H) BY <1>1, RingRetires
<1>4. Sets(ring, ring', p, R2) BY <1>0, <1>1, SetsExcept DEF PeerType
<1>5. Sets(inProgress, inProgress', p, H) /\ Sets(inFlights, inFlights', p, Cardinality(H))
      /\ Sets(domain, domain', p, domain[p])
  <2>1. inProgress' = inProgress /\ inFlights' = inFlights /\ domain' = domain OBVIOUS
  <2> QED BY <1>0, <1>1, <2>1, SetsSame DEF PeerType
<1>6. UNCHANGED <<opSeqs, nic, visible, rmaError>> /\ counting' = {} BY <1>1
<1>7. PassType' /\ PeerType' /\ PeersOK' /\ CountInv' /\ ErrorInv'
  BY <1>0, <1>1, <1>3, <1>4, <1>5, <1>6, RetireStep
<1> QED BY <1>2, <1>7, PartsInv

LEMMA RetireAtEventKeeps ==
  ASSUME IInv, NEW failed \in BOOLEAN, RetireAtEvent(failed), NEW p, p = pass.peer
  PROVE  IInv'
<1> DEFINE R == ring[p]
           D == {Queued(Head(R), failed)}
<1>0. PassType BY InvParts
<1>1. pass.stage # "count" BY DEF RetireAtEvent, Stage
<1>2. R # <<>> /\ (Head(R).type = "ipcget" \/ failed) BY DEF RetireAtEvent, HeadReady
<1>3. /\ CompleteDescs(p, D) /\ ring' = [ring EXCEPT ![p] = Tail(R)]
      /\ NextPeer \/ pass' = pass
      /\ UNCHANGED <<threadVars, stream, readySeqs, opSeqs, rmaError, inProgress, inFlights,
                     domain, counting, nic, visible>>
  BY DEF RetireAtEvent
<1>4. pass' \in [stage : Stages, peer : Peer] BY <1>0, <1>3, NextPeerIs DEF PassType
<1>5. SeqOK(inProgress[p], R, opSeqs[p]) /\ R \in Seq(Desc)
  BY <1>1, PassFacts DEF PeerOK, SeqOK
<1>6. Dropped(R, 1, Tail(R)) /\ Head(R) = R[1] /\ 1 \in 1..Len(R) /\ R[1] \in Desc
  BY <1>2, <1>5, DropHead
<1>7. FirstQueued(R, 1, failed, D)
  <2>1. 1..1 = {1} OBVIOUS
  <2> QED BY <1>6, <2>1 DEF FirstQueued
<1>8. Taken(D, R, 1) /\ \A d \in D : d.failed = failed
  <2>1. 1 \in 0..Len(R) BY <1>6
  <2> HIDE DEF D
  <2> QED BY <1>5, <1>7, <2>1, QueuedTaken
<1>9. \A d \in D : d.type = "get" => d.failed
  <2>1. Queued(Head(R), failed).type = Head(R).type BY <1>6, QueuedIs
  <2> QED BY <1>2, <1>8, <2>1
<1> HIDE DEF D
<1> QED BY <1>1, <1>3, <1>4, <1>6, <1>8, <1>9, RingStep

LEMMA DrainKeeps ==
  ASSUME IInv, Drain, NEW p, p = pass.peer
  PROVE  IInv'
<1> DEFINE R == ring[p]
           k == Len(R)
           D == {Queued(R[j], TRUE) : j \in DOMAIN R}
<1>0. PassType BY InvParts
<1>1. pass.stage # "count" BY DEF Drain, Stage
<1>2. /\ CompleteDescs(p, D) /\ ring' = [ring EXCEPT ![p] = <<>>] /\ NextPeer
      /\ UNCHANGED <<threadVars, stream, readySeqs, opSeqs, rmaError, inProgress, inFlights,
                     domain, counting, nic, visible>>
  BY DEF Drain, envVars
<1>3. pass' \in [stage : Stages, peer : Peer] BY <1>0, <1>2, NextPeerIs
<1>4. SeqOK(inProgress[p], R, opSeqs[p]) /\ R \in Seq(Desc)
  BY <1>1, PassFacts DEF PeerOK, SeqOK
<1>5. k \in 0..Len(R) /\ DOMAIN R = 1..k BY <1>4, LenProperties
<1>6. FirstQueued(R, k, TRUE, D) BY <1>5 DEF FirstQueued
<1>7. Dropped(R, k, <<>>) BY <1>4, DropAll
<1> HIDE DEF D
<1>8. Taken(D, R, k) /\ \A d \in D : d.failed = TRUE BY <1>4, <1>5, <1>6, QueuedTaken
<1> HIDE DEF k
<1> QED BY <1>1, <1>2, <1>3, <1>7, <1>8, RingStep

-----------------------------------------------------------------------------
(* Submission *)

\* What one submission takes: the head alone, or a run of PUTs.
LEMMA BatchIs ==
  ASSUME NEW p \in Peer, HeadReady(p), NEW R, R = ring[p], R \in Seq(Desc),
         \A j \in 1..Len(R) : R[j].type = "put" => ~R[j].event,
         inFlights[p] \in Nat, readySeqs[p] \in Int
  PROVE  LET k == Batch(p) IN
         /\ k \in 1..Len(R) /\ Head(R) = R[1] /\ 1 \in 1..Len(R)
         /\ Head(R).type # "put" => k = 1
         /\ Head(R).type = "put" => \A j \in 1..k : R[j].type = "put"
<1> DEFINE d == Head(R)
           fits(n) == /\ n <= Len(R) /\ n <= BatchMax
                      /\ n <= QueueSize - inFlights[p]
                      /\ \A j \in 1..n : /\ R[j].type = "put"
                                         /\ R[j].group = d.group
                                         /\ R[j].seq <= readySeqs[p]
<1>1. /\ R # <<>> /\ inFlights[p] < QueueSize
      /\ IF d.event THEN d.seq \in events[p] ELSE readySeqs[p] >= d.seq
  BY DEF HeadReady
<1>2. d = R[1] /\ 1 \in 1..Len(R) /\ R[1] \in Desc /\ Len(R) \in Nat
  BY <1>1, DropHead, LenProperties
<1>3. Batch(p) = IF d.type # "put" THEN 1 ELSE CHOOSE n \in 1..Len(R) : fits(n) /\ ~fits(n + 1)
  BY DEF Batch
<1>4. CASE d.type # "put" BY <1>2, <1>3, <1>4
<1>5. CASE d.type = "put"
  <2>1. fits(1)
    <3>1. /\ QueueSize \in Nat /\ BatchMax \in Nat \ {0} BY RmaProxyAssumption
    <3>2. 1 <= Len(R) /\ 1 <= BatchMax /\ 1 <= QueueSize - inFlights[p] BY <1>1, <1>2, <3>1
    <3>3. ~d.event /\ d.seq \in Nat BY <1>2, <1>5 DEF Desc
    <3>4. R[1].seq <= readySeqs[p] BY <1>1, <1>2, <3>3
    <3>5. \A j \in 1..1 : j = 1 OBVIOUS
    <3> QED BY <1>2, <1>5, <3>2, <3>4, <3>5
  <2>2. ~fits(Len(R) + 1) BY <1>2
  <2> DEFINE S == {x \in Nat : 1 <= x /\ ~fits(x + 1)}
  <2> HIDE DEF fits
  <2>3. Len(R) \in S BY <1>2, <2>2
  <2>4. PICK x \in S : \A y \in S : x <= y BY <2>3, LeastNatural
  <2>5. x \in Nat /\ 1 <= x /\ x <= Len(R) /\ ~fits(x + 1) BY <2>3, <2>4
  <2>6. fits(x)
    <3>1. CASE x = 1 BY <2>1, <3>1
    <3>2. CASE x # 1
      <4>1. x - 1 \in Nat /\ 1 <= x - 1 /\ ~(x <= x - 1) /\ (x - 1) + 1 = x BY <2>5, <3>2
      <4>2. x - 1 \notin S BY <2>4, <4>1
      <4> QED BY <4>1, <4>2
    <3> QED BY <3>1, <3>2
  <2>7. x \in 1..Len(R) BY <1>2, <2>5
  <2>8. \E n \in 1..Len(R) : fits(n) /\ ~fits(n + 1) BY <2>5, <2>6, <2>7
  <2>9. Batch(p) \in 1..Len(R) /\ fits(Batch(p)) BY <1>3, <1>5, <2>8
  <2> QED BY <1>2, <1>5, <2>9 DEF fits
<1> QED BY <1>4, <1>5

\* The adaptor has a native request for each of them.
Posted(N, A, N2) ==
  N2 = [q \in Seqs |-> IF q \in NumbersOf(A) THEN "live" ELSE N[q]]

LEMMA PostedNic ==
  ASSUME NEW N \in [Seqs -> NicStates], NEW A, NEW N2, Posted(N, A, N2)
  PROVE  /\ N2 \in [Seqs -> NicStates]
         /\ \A q \in Seqs : q \notin NumbersOf(A) => N2[q] = N[q]
         /\ \A a \in A : a.seq \in Seqs => N2[a.seq] # "unposted"
<1>1. \A a \in A : a.seq \in NumbersOf(A) BY DEF NumbersOf
<1>2. \A q \in Seqs : N2[q] = IF q \in NumbersOf(A) THEN "live" ELSE N[q] BY DEF Posted
<1>3. \A q \in Seqs : N2[q] \in NicStates BY <1>2 DEF NicStates
<1>4. N2 \in [Seqs -> NicStates] BY <1>3 DEF Posted
<1> QED BY <1>1, <1>2, <1>4

\* A release at the head may be posted when its group is complete.
LEMMA ReleaseIs ==
  ASSUME NEW H, NEW R, NEW n, NEW G, GroupOK(Outstanding(H, R), n, G), SeqOK(H, R, n),
         NEW j \in 1..Len(R), NEW a, Core(a) = Core(R[j]), a.seq \in DOMAIN G,
         R[j].type = "release" => ReleaseAllowed(G[R[j].group])
  PROVE  G[a.seq].pending = 0 /\ ~G[a.seq].firstError
<1>1. Core(R[j]) \in Outstanding(H, R) BY OutstandingIs
<1>2. Core(R[j]).type = R[j].type /\ Core(R[j]).group = R[j].group /\ Core(R[j]).seq = a.seq
  BY DEF Core
<1>3. R[j].type = "release" /\ R[j].group = a.seq BY <1>1, <1>2 DEF GroupOK
<1>4. G[a.seq].state = "complete" /\ ~G[a.seq].firstError
  BY <1>3 DEF ReleaseAllowed, GroupDone
<1> QED BY <1>4 DEF GroupOK

\* A step that takes descriptors from the ring.
LEMMA TakeStep ==
  ASSUME IInv, pass.stage # "count", ~rmaError, NEW p, p = pass.peer, NEW A, counting' = A,
         IsFiniteSet(A), NEW k, NEW R2, NEW H2, NEW N2, NEW m2,
         Takes(inProgress[p], ring[p], groups[p], nic[p], domain[p], A, k, R2, H2, N2, m2),
         Sets(ring, ring', p, R2), Sets(nic, nic', p, N2), Sets(domain, domain', p, m2),
         UNCHANGED <<threadVars, stream, readySeqs, opSeqs, scoreboard, groups, doneVars, rmaError,
                     inProgress, inFlights, visible>>,
         To("count"), pendingError' \in BOOLEAN
  PROVE  IInv'
<1> DEFINE H == inProgress[p]
<1>0. ThreadType /\ StreamType /\ PassType /\ PeerType /\ CountInv /\ ErrorInv /\ PeersOK
  BY InvParts
<1>1. /\ p \in Peer /\ counting = {}
      /\ PeerOK(H, ring[p], opSeqs[p], scoreboard[p], doneSeqs[p], groups[p], nic[p], domain[p],
                visible[p], outcome[p])
  BY PassFacts
<1>2. /\ PeerOK(H2, R2, opSeqs[p], scoreboard[p], doneSeqs[p], groups[p], N2, m2, visible[p],
                outcome[p])
      /\ Apart(H, A)
  BY <1>1, TakeOK
<1>3. pass' \in [stage : Stages, peer : Peer] /\ pass'.stage = "count" /\ pass'.peer = p
  <2>1. "count" \in Stages BY DEF Stages
  <2> QED BY <1>0, <2>1, ToIs
<1>4. HandIs(p, H2)
  <2>1. H2 = H \cup A BY DEF Takes, Joined
  <2>2. InHand(p)' = H2 BY <1>3, <2>1 DEF InHand
  <2>3. \A u \in Peer \ {p} : InHand(u)' = InHand(u) BY <1>1, <1>3 DEF InHand
  <2> QED BY <2>2, <2>3 DEF HandIs
<1>5. /\ Sets(scoreboard, scoreboard', p, scoreboard[p])
      /\ Sets(doneSeqs, doneSeqs', p, doneSeqs[p]) /\ Sets(groups, groups', p, groups[p])
      /\ Sets(visible, visible', p, visible[p]) /\ Sets(outcome, outcome', p, outcome[p])
  <2>1. /\ scoreboard' = scoreboard /\ doneSeqs' = doneSeqs /\ groups' = groups
        /\ visible' = visible /\ outcome' = outcome
    BY DEF doneVars
  <2> QED BY <1>0, <1>1, <2>1, SetsSame DEF PeerType
<1>6. StepAt(p, H2, R2, scoreboard[p], doneSeqs[p], groups[p], N2, m2, visible[p], outcome[p])
  BY <1>4, <1>5 DEF StepAt
<1>7. PeersOK' BY <1>0, <1>1, <1>2, <1>6, StepPeers
<1>8. PeerType'
  <2>1. DOMAIN inProgress' = Peer /\ DOMAIN inFlights' = Peer BY <1>0 DEF PeerType
  <2> QED BY <1>0, <1>1, <1>6, <2>1, StepTypes
<1>9. CountInv'
  <2>1. counting' \cap inProgress'[pass'.peer] = {} BY <1>2, <1>3 DEF Apart
  <2>2. \A u \in Peer : IsFiniteSet(inProgress'[u]) /\ inFlights'[u] = Cardinality(inProgress'[u])
    BY <1>0 DEF CountInv
  <2> QED BY <1>3, <2>1, <2>2 DEF CountInv, Peer
<1>10. ErrorInv' BY DEF ErrorInv
<1>11. ThreadType' /\ StreamType'
  <2>1. ProgressOnly BY DEF ProgressOnly
  <2> QED BY <1>0, <2>1, ThreadsKeep
<1>12. PassType' BY <1>0, <1>3 DEF PassType, Peer
<1> QED BY <1>7, <1>8, <1>9, <1>10, <1>11, <1>12, PartsInv

\* No GET is issued.
LEMMA SameDomain ==
  ASSUME NEW m \in Domain
  PROVE  m = [m EXCEPT !.issued = m.issued] /\ m.issued <= m.issued /\ m.issued <= m.issued + 1
BY DEF Domain

LEMMA QueueTakes ==
  ASSUME NEW H, NEW R, NEW n, NEW sb, NEW done, NEW G, NEW N, NEW m, NEW V, NEW out,
         PeerOK(H, R, n, sb, done, G, N, m, V, out),
         NEW k \in 1..Len(R), NEW R2, Dropped(R, k, R2), NEW A, FirstQueued(R, k, FALSE, A),
         NEW H2, Joined(H, A, H2), NEW N2, Posted(N, A, N2),
         \A j \in 1..k : R[j].type # "get",
         \A j \in 1..k : R[j].type = "release" => ReleaseAllowed(G[R[j].group])
  PROVE  Takes(H, R, G, N, m, A, k, R2, H2, N2, m)
<1>1. SeqOK(H, R, n) /\ GroupOK(Outstanding(H, R), n, G) /\ m \in Domain
      /\ N \in [Seqs -> NicStates] /\ Len(R) \in Nat
  BY LenProperties DEF PeerOK, SeqOK, GetsOK, LiveOK
<1>2. Taken(A, R, k) /\ \A a \in A : a.failed = FALSE /\ a.getSequence = 0 /\ ~a.flushPending
  <2>1. k \in 0..Len(R) BY <1>1
  <2> QED BY <1>1, <2>1, QueuedTaken
<1>3. /\ N2 \in [Seqs -> NicStates]
      /\ \A q \in Seqs : q \notin NumbersOf(A) => N2[q] = N[q]
  BY <1>1, PostedNic
<1>4. ASSUME NEW a \in A PROVE \E j \in 1..k : j \in 1..Len(R) /\ Core(a) = Core(R[j])
  <2>1. PICK j \in 1..k : Core(a) = Core(R[j]) BY <1>2 DEF Taken
  <2>2. j \in 1..Len(R) BY <1>1
  <2> QED BY <2>1, <2>2
<1>5. ASSUME NEW a \in A, a.seq \in DOMAIN G PROVE G[a.seq].pending = 0 /\ ~G[a.seq].firstError
  <2>1. PICK j \in 1..k : j \in 1..Len(R) /\ Core(a) = Core(R[j]) BY <1>4
  <2>2. R[j].type = "release" => ReleaseAllowed(G[R[j].group]) OBVIOUS
  <2> QED BY <1>1, <1>5, <2>1, <2>2, ReleaseIs
<1>6. ASSUME NEW a \in A PROVE a.type # "get"
  <2>1. PICK j \in 1..k : Core(a) = Core(R[j]) BY <1>4
  <2>2. a.type = R[j].type BY <2>1 DEF Core
  <2> QED BY <2>2
<1>7. m = [m EXCEPT !.issued = m.issued] /\ m.issued <= m.issued /\ m.issued <= m.issued + 1
  BY <1>1, SameDomain
<1> QED BY <1>1, <1>2, <1>3, <1>5, <1>6, <1>7 DEF Takes

\* The head is a GET: it has the next number of its domain.
Numbers(d, g, a) == a = [Queued(d, FALSE) EXCEPT !.getSequence = g]

LEMMA NumbersIs ==
  ASSUME NEW d \in Desc, NEW g \in Nat, NEW a, Numbers(d, g, a)
  PROVE  /\ a \in Request /\ Core(a) = Core(d) /\ a.seq = d.seq /\ a.type = d.type
         /\ ~a.flushPending /\ a.getSequence = g
<1>1. d.seq \in Nat /\ d.type \in DescTypes /\ d.group \in Nat BY DEF Desc
<1>2. a = [seq |-> d.seq, type |-> d.type, group |-> d.group, failed |-> FALSE,
           flushPending |-> FALSE, getSequence |-> g]
  BY DEF Numbers, Queued
<1> QED BY <1>1, <1>2 DEF Request, Core

LEMMA GetTakes ==
  ASSUME NEW H, NEW R, NEW n, NEW sb, NEW done, NEW G, NEW N, NEW m, NEW V, NEW out,
         PeerOK(H, R, n, sb, done, G, N, m, V, out),
         1 \in 1..Len(R), R[1].type = "get",
         NEW R2, Dropped(R, 1, R2), NEW a, Numbers(R[1], m.issued + 1, a), NEW A, A = {a},
         NEW H2, Joined(H, A, H2), NEW N2, Posted(N, A, N2),
         NEW m2, m2 = [m EXCEPT !.issued = m.issued + 1]
  PROVE  Takes(H, R, G, N, m, A, 1, R2, H2, N2, m2)
<1>1. SeqOK(H, R, n) /\ GroupOK(Outstanding(H, R), n, G) /\ m \in Domain
      /\ N \in [Seqs -> NicStates] /\ R[1] \in Desc /\ m.issued \in Nat
  BY DEF PeerOK, SeqOK, GetsOK, LiveOK, Domain
<1>2. /\ a \in Request /\ Core(a) = Core(R[1]) /\ a.type = "get" /\ ~a.flushPending
      /\ a.getSequence = m.issued + 1 /\ a.getSequence # 0
  <2>1. m.issued + 1 \in Nat /\ m.issued + 1 # 0 BY <1>1
  <2> QED BY <1>1, <2>1, NumbersIs
<1>3. Taken(A, R, 1)
  <2>1. \A j \in 1..1 : j = 1 OBVIOUS
  <2>2. 1 \in 1..1 OBVIOUS
  <2> QED BY <1>2, <2>1, <2>2 DEF Taken
<1>4. /\ N2 \in [Seqs -> NicStates]
      /\ \A q \in Seqs : q \notin NumbersOf(A) => N2[q] = N[q]
      /\ a.seq \in Seqs => N2[a.seq] # "unposted"
  BY <1>1, PostedNic
<1>5. a.seq \in DOMAIN G => G[a.seq].pending = 0 /\ ~G[a.seq].firstError
  BY <1>1, <1>2, ReleaseIs
<1>6. m2 \in Domain /\ m2 = [m EXCEPT !.issued = m2.issued] /\ m2.issued = m.issued + 1
  BY <1>1 DEF Domain
<1>7. m.issued <= m2.issued /\ m2.issued <= m.issued + 1 BY <1>1, <1>6
<1> QED BY <1>2, <1>3, <1>4, <1>5, <1>6, <1>7 DEF Takes

\* A single descriptor is queued with the error of its post.
LEMMA FailTakes ==
  ASSUME NEW H, NEW R, NEW n, NEW sb, NEW done, NEW G, NEW N, NEW m, NEW V, NEW out,
         PeerOK(H, R, n, sb, done, G, N, m, V, out),
         1 \in 1..Len(R), NEW R2, Dropped(R, 1, R2), NEW A, FirstQueued(R, 1, TRUE, A),
         NEW H2, Joined(H, A, H2)
  PROVE  Takes(H, R, G, N, m, A, 1, R2, H2, N, m)
<1>1. /\ SeqOK(H, R, n) /\ LiveOK(H, R, n, N) /\ m \in Domain /\ N \in [Seqs -> NicStates]
      /\ Len(R) \in Nat /\ n \in Nat /\ R[1].seq = n - Len(R) + 1
  BY LenProperties DEF PeerOK, SeqOK, GetsOK, LiveOK
<1>2. Taken(A, R, 1) /\ \A a \in A : a.failed = TRUE /\ a.getSequence = 0 /\ ~a.flushPending
  <2>1. 1 \in 0..Len(R) BY <1>1
  <2> QED BY <1>1, <2>1, QueuedTaken
<1>3. ASSUME NEW a \in A, a.seq \in Seqs PROVE N[a.seq] = "unposted"
  <2>1. PICK j \in 1..1 : Core(a) = Core(R[j]) BY <1>2 DEF Taken
  <2>2. j = 1 OBVIOUS
  <2>3. a.seq = n - Len(R) + 1 BY <1>1, <2>1, <2>2 DEF Core
  <2>4. ~(a.seq <= n - Len(R)) BY <1>1, <2>3
  <2> QED BY <1>1, <1>3, <2>4 DEF LiveOK
<1>4. m = [m EXCEPT !.issued = m.issued] /\ m.issued <= m.issued /\ m.issued <= m.issued + 1
  BY <1>1, SameDomain
<1> QED BY <1>1, <1>2, <1>3, <1>4 DEF Takes

LEMMA FiniteQueue ==
  ASSUME NEW R, NEW k \in Nat, NEW b, NEW A, FirstQueued(R, k, b, A)
  PROVE  IsFiniteSet(A)
<1>1. IsFiniteSet(1..k) BY FS_Interval
<1> DEFINE f == [j \in 1..k |-> Queued(R[j], b)]
<1>2. f \in Surjection(1..k, A) BY DEF FirstQueued, Surjection
<1> HIDE DEF f
<1> QED BY <1>1, <1>2, FS_Surjection

LEMMA PostKeeps ==
  ASSUME IInv, NEW n, NEW fatal \in BOOLEAN, Post(n, fatal), NEW p, p = pass.peer
  PROVE  IInv'
<1> DEFINE H == inProgress[p]
           R == ring[p]
           N == nic[p]
           m == domain[p]
           G == groups[p]
           get == Head(R).type = "get"
           D == {R[j] : j \in 1..n}
<1>0. StreamType /\ PassType /\ PeerType /\ CountInv BY InvParts
<1>1. pass.stage # "count" /\ ~rmaError BY DEF Post, Stage, Poisoned
<1>2. /\ p \in Peer /\ IsFiniteSet(H) /\ inFlights[p] = Cardinality(H)
      /\ PeerOK(H, R, opSeqs[p], scoreboard[p], doneSeqs[p], G, N, m, visible[p], outcome[p])
  BY <1>1, PassFacts
<1>3. /\ SeqOK(H, R, opSeqs[p]) /\ R \in Seq(Desc) /\ Len(R) \in Nat
      /\ \A j \in 1..Len(R) : R[j].type = "put" => ~R[j].event
      /\ N \in [Seqs -> NicStates] /\ m \in Domain
  BY <1>2, LenProperties DEF PeerOK, SeqOK, LiveOK, GetsOK
<1>4. inFlights[p] \in Nat /\ readySeqs[p] \in Int
  BY <1>0, <1>2, FS_CardinalityType DEF StreamType
<1>5. /\ HeadReady(p) /\ Head(R).type # "ipcget" /\ ~GroupFailed(p, Head(R))
      /\ n \in 1..Batch(p)
  BY DEF Post, Postable
<1>6. PICK k : k = Batch(p) OBVIOUS
<1>7. /\ k \in 1..Len(R) /\ Head(R) = R[1] /\ 1 \in 1..Len(R)
      /\ Head(R).type # "put" => k = 1
      /\ Head(R).type = "put" => \A j \in 1..k : R[j].type = "put"
  BY <1>2, <1>3, <1>4, <1>5, <1>6, BatchIs
<1>8. n \in 1..k /\ n \in 1..Len(R) /\ n \in Nat BY <1>3, <1>5, <1>6, <1>7
<1>9. ASSUME NEW j \in 1..n
      PROVE  R[j].type = "put" \/ (n = 1 /\ j = 1 /\ R[j] = Head(R))
  <2>1. j \in 1..k BY <1>7, <1>8
  <2>2. k = 1 => n = 1 /\ j = 1 BY <1>8
  <2> QED BY <1>7, <2>1, <2>2
<1>10. PICK A : A = counting' OBVIOUS
<1>11. PICK R2 : R2 = SubSeq(R, n + 1, Len(R)) OBVIOUS
<1>12. PICK N2 : N2 = [q \in Seqs |-> IF \E d \in D : d.seq = q THEN "live" ELSE N[q]] OBVIOUS
<1>13. PICK H2 : Joined(H, A, H2) BY DEF Joined
<1>14. Dropped(R, n, R2)
  <2>1. n \in 0..Len(R) BY <1>3, <1>8
  <2> QED BY <1>3, <1>11, <2>1, DropSome
<1>15. /\ ring' = [ring EXCEPT ![p] = R2] /\ nic' = [nic EXCEPT ![p] = N2]
       /\ domain' = IF get THEN [domain EXCEPT ![p].issued = @ + 1] ELSE domain
       /\ A = {IF get THEN [Queued(d, FALSE) EXCEPT !.getSequence = m.issued + 1]
                      ELSE Queued(d, FALSE) : d \in D}
       /\ pendingError' = (pendingError \/ fatal)
  BY <1>10, <1>11, <1>12 DEF Post
<1>16. /\ UNCHANGED <<threadVars, stream, readySeqs, opSeqs, scoreboard, groups, doneVars, rmaError,
                      inProgress, inFlights, visible>>
       /\ To("count")
  BY DEF Post
<1>17. pendingError' \in BOOLEAN BY <1>0, <1>15 DEF PassType
<1>18. Sets(ring, ring', p, R2) BY <1>0, <1>2, <1>15, SetsExcept DEF PeerType
<1>19. Sets(nic, nic', p, N2) BY <1>0, <1>2, <1>15, SetsExcept DEF PeerType
<1>20. CASE ~get
  <2>1. A = {Queued(d, FALSE) : d \in D} BY <1>15, <1>20
  <2>2. FirstQueued(R, n, FALSE, A) BY <2>1 DEF FirstQueued
  <2>3. NumbersOf(A) = {d.seq : d \in D}
    <3>1. ASSUME NEW d \in D PROVE Queued(d, FALSE).seq = d.seq BY DEF Queued
    <3> QED BY <2>1, <3>1 DEF NumbersOf
  <2>4. Posted(N, A, N2)
    <3>1. \A q : q \in NumbersOf(A) <=> \E d \in D : d.seq = q BY <2>3
    <3> HIDE DEF D, N
    <3> QED BY <1>12, <3>1 DEF Posted
  <2>5. \A j \in 1..n : R[j].type # "get" BY <1>9, <1>20
  <2>6. \A j \in 1..n : R[j].type = "release" => ReleaseAllowed(G[R[j].group])
    BY <1>5, <1>9 DEF GroupFailed
  <2>7. Takes(H, R, G, N, m, A, n, R2, H2, N2, m)
    <3> HIDE DEF H, R, G, N, m
    <3> QED BY <1>2, <1>8, <1>13, <1>14, <2>2, <2>4, <2>5, <2>6, QueueTakes
  <2>8. IsFiniteSet(A) BY <1>8, <2>2, FiniteQueue
  <2>9. Sets(domain, domain', p, m)
    <3>1. domain' = domain BY <1>15, <1>20
    <3> QED BY <1>0, <1>2, <3>1, SetsSame DEF PeerType
  <2> QED BY <1>1, <1>10, <1>16, <1>17, <1>18, <1>19, <2>7, <2>8, <2>9, TakeStep
<1>21. CASE get
  <2>1. n = 1 BY <1>7, <1>8, <1>21
  <2>2. D = {R[1]} BY <2>1
  <2>3. PICK a : a = [Queued(R[1], FALSE) EXCEPT !.getSequence = m.issued + 1] OBVIOUS
  <2>4. A = {a}
    <3> DEFINE x == m.issued + 1
               g(d) == [Queued(d, FALSE) EXCEPT !.getSequence = x]
    <3>1. A = {g(d) : d \in D} BY <1>15, <1>21
    <3>2. a = g(R[1]) BY <2>3
    <3> HIDE DEF D, g
    <3> QED BY <2>2, <3>1, <3>2
  <2>5. Numbers(R[1], m.issued + 1, a) BY <2>3 DEF Numbers
  <2>6. R[1] \in Desc /\ m.issued + 1 \in Nat BY <1>3, <1>7 DEF Domain
  <2>7. a.seq = R[1].seq BY <2>5, <2>6, NumbersIs
  <2>8. Posted(N, A, N2)
    <3>1. NumbersOf(A) = {R[1].seq} BY <2>4, <2>7 DEF NumbersOf
    <3>2. \A q : q \in NumbersOf(A) <=> \E d \in D : d.seq = q BY <2>2, <3>1
    <3> HIDE DEF D, N
    <3> QED BY <1>12, <3>2 DEF Posted
  <2>9. PICK m2 : m2 = [m EXCEPT !.issued = m.issued + 1] OBVIOUS
  <2>10. domain' = [domain EXCEPT ![p] = m2] BY <1>0, <1>2, <1>15, <1>21, <2>9 DEF PeerType
  <2>11. Sets(domain, domain', p, m2) BY <1>0, <1>2, <2>10, SetsExcept DEF PeerType
  <2>12. R[1].type = "get" BY <1>7, <1>21
  <2>13. Takes(H, R, G, N, m, A, n, R2, H2, N2, m2)
    <3>1. Dropped(R, 1, R2) BY <1>14, <2>1
    <3>2. Takes(H, R, G, N, m, A, 1, R2, H2, N2, m2)
      <4> HIDE DEF H, R, G, N, m
      <4> QED BY <1>2, <1>7, <1>13, <2>4, <2>5, <2>8, <2>9, <2>12, <3>1, GetTakes
    <3> QED BY <2>1, <3>2
  <2>14. IsFiniteSet(A) BY <2>4, FS_Singleton
  <2> QED BY <1>1, <1>10, <1>16, <1>17, <1>18, <1>19, <2>11, <2>13, <2>14, TakeStep
<1> QED BY <1>20, <1>21

LEMMA PostFailsKeeps ==
  ASSUME IInv, PostFails, NEW p, p = pass.peer
  PROVE  IInv'
<1> DEFINE H == inProgress[p]
           R == ring[p]
           N == nic[p]
           m == domain[p]
           G == groups[p]
<1>0. StreamType /\ PassType /\ PeerType /\ CountInv BY InvParts
<1>1. pass.stage # "count" /\ ~rmaError BY DEF PostFails, Stage, Poisoned
<1>2. /\ p \in Peer /\ IsFiniteSet(H)
      /\ PeerOK(H, R, opSeqs[p], scoreboard[p], doneSeqs[p], G, N, m, visible[p], outcome[p])
  BY <1>1, PassFacts
<1>3. R \in Seq(Desc) /\ R # <<>> BY <1>2 DEF PeerOK, SeqOK, PostFails, HeadReady
<1>4. Dropped(R, 1, Tail(R)) /\ Head(R) = R[1] /\ 1 \in 1..Len(R) BY <1>3, DropHead
<1>5. UNCHANGED <<threadVars, stream, readySeqs, opSeqs, scoreboard, groups, doneVars, rmaError,
                  inProgress, inFlights, domain, nic, visible>>
  BY DEF PostFails
<1>6. pendingError' \in BOOLEAN /\ (pendingError => pendingError')
  BY <1>0 DEF PassType, PostFails
<1>7. CASE Batch(p) = 1
  <2>1. PICK A : A = {Queued(Head(R), TRUE)} OBVIOUS
  <2>2. ring' = [ring EXCEPT ![p] = Tail(R)] /\ counting' = A /\ To("count")
    BY <1>7, <2>1 DEF PostFails
  <2>3. FirstQueued(R, 1, TRUE, A)
    <3>1. 1..1 = {1} OBVIOUS
    <3> QED BY <1>4, <2>1, <3>1 DEF FirstQueued
  <2>4. PICK H2 : Joined(H, A, H2) BY DEF Joined
  <2>5. Takes(H, R, G, N, m, A, 1, Tail(R), H2, N, m)
    <3> HIDE DEF H, R, G, N, m
    <3> QED BY <1>2, <1>4, <2>3, <2>4, FailTakes
  <2>6. IsFiniteSet(A) BY <2>1, FS_Singleton
  <2>7. Sets(ring, ring', p, Tail(R)) BY <1>0, <1>2, <2>2, SetsExcept DEF PeerType
  <2>8. Sets(nic, nic', p, N) /\ Sets(domain, domain', p, m)
    <3>1. nic' = nic /\ domain' = domain BY <1>5
    <3> QED BY <1>0, <1>2, <3>1, SetsSame DEF PeerType
  <2> QED BY <1>1, <1>5, <1>6, <2>2, <2>5, <2>6, <2>7, <2>8, TakeStep
<1>8. CASE Batch(p) # 1
  <2>1. NextPeer /\ UNCHANGED <<ring, counting>> BY <1>8 DEF PostFails
  <2>2. pass' \in [stage : Stages, peer : Peer] BY <1>0, <2>1, NextPeerIs
  <2>3. UNCHANGED <<threadVars, stream, readySeqs, ringVars, doneVars, rmaError, inFlights,
                    counting, nic>>
    BY <1>5, <2>1 DEF ringVars
  <2>4. Sets(inProgress, inProgress', p, H) /\ Sets(domain, domain', p, m)
        /\ Sets(visible, visible', p, visible[p])
    <3>1. inProgress' = inProgress /\ domain' = domain /\ visible' = visible BY <1>5
    <3> QED BY <1>0, <1>2, <3>1, SetsSame DEF PeerType
  <2> QED BY <1>1, <1>2, <1>6, <2>2, <2>3, <2>4, DomainStep
<1> QED BY <1>7, <1>8

LEMMA CountKeeps ==
  ASSUME IInv, Count, NEW p, p = pass.peer
  PROVE  IInv'
<1> DEFINE H == inProgress[p]
           H2 == H \cup counting
<1>0. ThreadType /\ StreamType /\ PassType /\ PeerType /\ CountInv /\ ErrorInv /\ PeersOK
  BY InvParts
<1>1. p \in Peer BY <1>0 DEF PassType
<1>2. /\ inProgress' = [inProgress EXCEPT ![p] = H2]
      /\ inFlights' = [inFlights EXCEPT ![p] = @ + Cardinality(counting)]
      /\ counting' = {}
      /\ NextPeer \/ To("submit")
      /\ UNCHANGED <<threadVars, stream, readySeqs, ringVars, doneVars, errVars, domain, envVars>>
  BY DEF Count
<1>3. pass' \in [stage : Stages, peer : Peer]
  <2>1. "submit" \in Stages BY DEF Stages
  <2> QED BY <1>0, <1>2, <2>1, NextPeerIs, ToIs
<1>4. /\ IsFiniteSet(H) /\ IsFiniteSet(counting) /\ H \cap counting = {}
      /\ inFlights[p] = Cardinality(H)
  BY <1>0, <1>1 DEF CountInv
<1>5. IsFiniteSet(H2) /\ Cardinality(H2) = inFlights[p] + Cardinality(counting)
  <2>1. /\ IsFiniteSet(H2)
        /\ Cardinality(H2) = Cardinality(H) + Cardinality(counting) - Cardinality(H \cap counting)
    BY <1>4, FS_Union
  <2>2. Cardinality(H \cap counting) = 0 BY <1>4, FS_EmptySet
  <2>3. Cardinality(H) \in Nat /\ Cardinality(counting) \in Nat BY <1>4, FS_CardinalityType
  <2> QED BY <1>4, <2>1, <2>2, <2>3
<1>6. HandIs(p, H2)
  <2>1. \A u \in Peer : InHand(u)' = inProgress'[u] BY <1>2 DEF InHand
  <2>2. inProgress'[p] = H2 /\ \A u \in Peer \ {p} : inProgress'[u] = inProgress[u]
    BY <1>0, <1>1, <1>2 DEF PeerType
  <2>3. \A u \in Peer \ {p} : InHand(u) = inProgress[u] BY DEF InHand
  <2> QED BY <1>1, <2>1, <2>2, <2>3 DEF HandIs
<1>7. InHand(p) = H2 BY DEF InHand
<1>8. PeersOK'
  <2>1. \A r \in Peer : InHand(r)' = InHand(r) BY <1>6, <1>7 DEF HandIs
  <2>2. \A r \in Peer : Frame(r) BY <1>2, <2>1 DEF Frame, ringVars, doneVars, envVars
  <2> QED BY <1>0, <2>2, FrameKeeps DEF PeersOK, Peer
<1> HIDE DEF H2
<1>9. Sets(inProgress, inProgress', p, H2) BY <1>0, <1>1, <1>2, SetsExcept DEF PeerType
<1>10. Sets(inFlights, inFlights', p, Cardinality(H2))
  <2>1. inFlights' = [inFlights EXCEPT ![p] = Cardinality(H2)] BY <1>2, <1>5
  <2> QED BY <1>0, <1>1, <2>1, SetsExcept DEF PeerType
<1>11. CountInv' BY <1>0, <1>1, <1>2, <1>5, <1>9, <1>10, CountStep
<1>12. ErrorInv'
  <2>1. rmaError => H2 = {} BY <1>0, <1>1 DEF ErrorInv, H2
  <2>2. rmaError' = rmaError /\ pendingError' = pendingError BY <1>2 DEF errVars
  <2> QED BY <1>0, <1>1, <1>2, <1>9, <2>1, <2>2, ErrorStep
<1>13. ThreadType' /\ StreamType'
  <2>1. ProgressOnly BY <1>2 DEF ProgressOnly
  <2> QED BY <1>0, <2>1, ThreadsKeep
<1>14. PassType' BY <1>0, <1>2, <1>3 DEF PassType, errVars, Peer
<1>15. PeerType'
  <2>1. DOMAIN inProgress' = Peer /\ DOMAIN inFlights' = Peer BY <1>9, <1>10 DEF Sets
  <2> QED BY <1>0, <1>2, <2>1 DEF PeerType, ringVars, doneVars, envVars, Peer
<1> QED BY <1>8, <1>11, <1>12, <1>13, <1>14, <1>15, PartsInv

-----------------------------------------------------------------------------
(* The theorems *)

LEMMA FirstPeerOK ==
  ASSUME NEW out, \A q \in Seqs : out[q] # "get", NEW N, N = [q \in Seqs |-> "unposted"],
         NEW G, DOMAIN G = {}
  PROVE  PeerOK({}, <<>>, 0, NewScoreboard(2 * QueueSize, 1), 0, G, N, NoDomain, {}, out)
<1> DEFINE sb == NewScoreboard(2 * QueueSize, 1)
<1>1. 2 * QueueSize \in Nat \ {0} BY RmaProxyAssumption
<1>2. IsScoreboard(sb, 2 * QueueSize) /\ 0 = sb.nextSequence - 1
  <2>1. PICK c \in Nat \ {0} : c = 2 * QueueSize BY <1>1
  <2>2. [state |-> "free", sequence |-> 0] \in Entry BY DEF Entry
  <2>3. IsScoreboard(NewScoreboard(c, 1), c) /\ NewScoreboard(c, 1).nextSequence = 1
    BY <2>2 DEF NewScoreboard, IsScoreboard
  <2> QED BY <2>1, <2>3
<1>3. Outstanding({}, <<>>) = {} BY DEF Outstanding
<1>4. SeqOK({}, <<>>, 0) BY DEF SeqOK
<1>5. TrackOK({}, sb, 0) BY <1>2 DEF TrackOK
<1>6. LiveOK({}, <<>>, 0, N) BY DEF LiveOK, NicStates
<1>7. GroupOK({}, 0, G) BY FS_EmptySet DEF GroupOK
<1>8. SignalOK(G, N) BY DEF SignalOK
<1>9. NoDomain \in Domain /\ NoDomain.visible = 0 /\ NoDomain.target = 0
      /\ NoDomain.dataCompleted = 0 /\ NoDomain.issued = 0 /\ NoDomain.request = FALSE
  BY DEF NoDomain, Domain
<1>10. GetsOK({}, NoDomain, N) BY <1>9 DEF GetsOK
<1>11. FlushOK({}, NoDomain, {}) BY <1>9 DEF FlushOK, Within
<1>12. OutcomeOK({}, out) BY DEF OutcomeOK
<1> HIDE DEF sb
<1> QED BY <1>3, <1>4, <1>5, <1>6, <1>7, <1>8, <1>10, <1>11, <1>12 DEF PeerOK, sb

LEMMA InitIInv == Init => IInv
<1> SUFFICES ASSUME Init PROVE IInv OBVIOUS
<1>1. NPeers \in Nat \ {0} /\ 1 \in Peer BY RmaProxyAssumption DEF Peer
<1>2. ThreadType BY DEF Init, ThreadType
<1>3. StreamType
  <2>1. <<>> \in Seq(Item) OBVIOUS
  <2> QED BY <2>1 DEF Init, StreamType
<1>4. PassType BY <1>1 DEF Init, PassType, Stages
<1>5. PeerType BY DEF Init, PeerType
<1>6. CountInv
  <2>1. IsFiniteSet({}) /\ Cardinality({}) = 0 BY FS_EmptySet
  <2> QED BY <1>1, <2>1 DEF Init, CountInv
<1>7. ErrorInv BY DEF Init, ErrorInv
<1>8. ASSUME NEW p \in Peer PROVE PeerInv(p)
  <2>1. /\ InHand(p) = {} /\ ring[p] = <<>> /\ opSeqs[p] = 0
        /\ scoreboard[p] = NewScoreboard(2 * QueueSize, 1) /\ doneSeqs[p] = 0
        /\ domain[p] = NoDomain /\ visible[p] = {}
    BY DEF Init, InHand
  <2>2. nic[p] = [q \in Seqs |-> "unposted"] BY DEF Init
  <2>3. DOMAIN groups[p] = {} BY DEF Init
  <2>4. \A q \in Seqs : outcome[p][q] # "get" BY DEF Init
  <2> HIDE DEF Init
  <2>5. PeerOK({}, <<>>, 0, NewScoreboard(2 * QueueSize, 1), 0, groups[p], nic[p], NoDomain, {},
               outcome[p])
    BY <2>2, <2>3, <2>4, FirstPeerOK
  <2> QED BY <2>1, <2>5 DEF PeerInv
<1> QED BY <1>2, <1>3, <1>4, <1>5, <1>6, <1>7, <1>8 DEF IInv, TypeOK

LEMMA StutterKeeps ==
  ASSUME IInv, UNCHANGED vars
  PROVE  IInv'
<1>0. ThreadType /\ StreamType /\ PassType /\ PeerType /\ CountInv /\ ErrorInv /\ PeersOK
  BY InvParts
<1>1. /\ UNCHANGED <<threadVars, stream, readySeqs, ringVars, doneVars, errVars, progVars, envVars>>
  BY DEF vars
<1>2. ThreadType' /\ StreamType'
  <2>1. ProgressOnly BY <1>1 DEF ProgressOnly
  <2> QED BY <1>0, <2>1, ThreadsKeep
<1>3. PassType' /\ CountInv' /\ ErrorInv' /\ \A r \in Peer : InHand(r)' = InHand(r)
  <2>1. Rest BY <1>1 DEF Rest, errVars, progVars
  <2> QED BY <1>0, <2>1, RestKeeps
<1>4. PeersOK'
  <2>1. Quiet BY <1>1 DEF Quiet, ringVars, doneVars, progVars, envVars
  <2> QED BY <1>0, <1>3, <2>1, QuietPeers
<1>5. PeerType' BY <1>0, <1>1 DEF PeerType, ringVars, doneVars, progVars, envVars
<1> QED BY <1>2, <1>3, <1>4, <1>5, PartsInv

LEMMA NextKeeps == IInv /\ [Next]_vars => IInv'
<1> SUFFICES ASSUME IInv, [Next]_vars PROVE IInv' OBVIOUS
<1>0. PICK p : p = pass.peer OBVIOUS
<1>1. ASSUME NEW t \in Thread, ThreadStep(t) PROVE IInv'
  <2>1. CASE Publish(t)
    <3>1. PICK c : c = Call(t) OBVIOUS
    <3>2. PICK q : q = c.peer OBVIOUS
    <3>3. PICK n : n = opSeqs[q] OBVIOUS
    <3> QED BY <2>1, <3>1, <3>2, <3>3, PublishKeeps
  <2>2. CASE Acquire(t) \/ Yield(t) \/ Flush(t) \/ WaitCounter(t) \/ Quiesce(t)
    BY <2>2, WaitersKeep
  <2> QED BY <1>1, <2>1, <2>2 DEF ThreadStep
<1>2. ASSUME NEW t \in Thread, StreamStep(t) PROVE IInv' BY <1>2, StreamKeeps
<1>3. CASE Work
  <2>1. CASE PollOne BY <1>0, <2>1, PollKeeps
  <2>2. CASE TestFlush("done") BY <1>0, <2>2, TestKeeps
  <2>3. CASE PostFlush("request") \/ PostFlush("done") BY <1>0, <2>3, PostFlushKeeps
  <2>4. ASSUME NEW n \in 1..BatchMax, Post(n, FALSE) PROVE IInv' BY <1>0, <2>4, PostKeeps
  <2> QED BY <1>3, <2>1, <2>2, <2>3, <2>4 DEF Work
<1>4. CASE Walk
  <2>1. CASE PollEnd \/ SubmitEnd BY <2>1, WalkKeeps
  <2>2. CASE RetireGets BY <1>0, <2>2, RetireGetsKeeps
  <2>3. CASE Count BY <1>0, <2>3, CountKeeps
  <2>4. CASE Drain BY <1>0, <2>4, DrainKeeps
  <2>5. CASE EndPass BY <2>5, EndKeeps
  <2>6. ASSUME NEW a \in {"none", "pending", "failed"}, TestFlush(a) PROVE IInv'
    BY <1>0, <2>6, TestKeeps
  <2>7. ASSUME NEW a \in {"none", "pending", "failed"}, PostFlush(a) PROVE IInv'
    BY <1>0, <2>7, PostFlushKeeps
  <2>8. ASSUME NEW f \in BOOLEAN, RetireAtEvent(f) PROVE IInv' BY <1>0, <2>8, RetireAtEventKeeps
  <2>9. ASSUME NEW n \in 1..BatchMax, Post(n, TRUE) PROVE IInv' BY <1>0, <2>9, PostKeeps
  <2>10. CASE PostFails BY <1>0, <2>10, PostFailsKeeps
  <2> QED BY <1>4, <2>1, <2>2, <2>3, <2>4, <2>5, <2>6, <2>7, <2>8, <2>9, <2>10 DEF Walk
<1>5. CASE Network
  <2>1. PICK q \in Peer, s \in Seqs, r \in {"ok", "failed"} : NicComplete(q, s, r)
    BY <1>5 DEF Network
  <2> QED BY <2>1, NetworkKeeps
<1>6. CASE UNCHANGED vars BY <1>6, StutterKeeps
<1> QED BY <1>1, <1>2, <1>3, <1>4, <1>5, <1>6 DEF Next

\* The proxy keeps its invariant, whatever its threads call, the streams and
\* the network do, and whatever fails: numbers are given once and in order,
\* the scoreboard waits for every descriptor that is not over, a release group
\* counts its members, and the visibility domain knows the GETs in hand
\* (flagcxRmaProxyProgress, flagcxRmaProxyCompleteDesc).
THEOREM RmaInvariant == Spec => []IInv
<1>1. Init => IInv BY InitIInv
<1>2. IInv /\ [Next]_vars => IInv' BY NextKeeps
<1> QED BY <1>1, <1>2, PTL DEF Spec

\* A signal reaches the peer after all the data it announces, and never when a
\* part of the data failed (the release groups of flagcxRmaProxyPollNonPersistDesc).
THEOREM SignalsFollowTheirData == Spec => []SignalAfterData
<1>1. IInv => SignalAfterData BY DEF IInv, PeerInv, PeerOK, SignalOK, SignalAfterData
<1> QED BY <1>1, RmaInvariant, PTL

\* Neither the done number nor the error releases a waiter while the adaptor
\* has a request of the operation (flagcxRmaProxyPublishError and the
\* scoreboard's prefix).
THEOREM WaitersAreSafe == Spec => []NoLiveRequestBehindWaiter
<1>1. ASSUME IInv PROVE NoLiveRequestBehindWaiter
  <2> SUFFICES ASSUME NEW p \in Peer, NEW q \in Seqs, nic[p][q] = "live"
               PROVE  q > doneSeqs[p] /\ ~rmaError
    BY DEF NoLiveRequestBehindWaiter
  <2>1. PeerInv(p) /\ ErrorInv BY <1>1 DEF IInv
  <2> DEFINE H == InHand(p)
             sb == scoreboard[p]
  <2>2. /\ SeqOK(H, ring[p], opSeqs[p]) /\ TrackOK(Outstanding(H, ring[p]), sb, doneSeqs[p])
        /\ LiveOK(H, ring[p], opSeqs[p], nic[p])
    BY <2>1 DEF PeerInv, PeerOK
  <2>3. PICK d \in H : d.seq = q BY <2>2 DEF LiveOK
  <2>4. Core(d) \in Outstanding(H, ring[p]) /\ Core(d).seq = q
    <3>1. Core(d) \in Outstanding(H, ring[p]) BY <2>2, OutstandingIs
    <3> QED BY <2>3, <3>1 DEF Core
  <2>5. doneSeqs[p] = sb.nextSequence - 1 /\ sb.nextSequence <= q /\ sb.nextSequence \in Nat
    BY <2>2, <2>4 DEF TrackOK, IsScoreboard
  <2>6. q \in Nat BY RmaProxyAssumption DEF Seqs
  <2>7. q > doneSeqs[p] BY <2>5, <2>6
  <2>8. ~rmaError BY <2>1 DEF ErrorInv, InHand
  <2> QED BY <2>7, <2>8
<1> QED BY <1>1, RmaInvariant, PTL

\* A GET that ended well is visible to the device: a flush that was posted after
\* its data had arrived is over (flagcxRmaProxyProgressGetVisibilityDomain).
THEOREM GetsAreVisible == Spec => []GetVisibleWhenDone
<1>1. IInv => GetVisibleWhenDone
  BY DEF IInv, PeerInv, PeerOK, OutcomeOK, GetVisibleWhenDone
<1> QED BY <1>1, RmaInvariant, PTL

=============================================================================
