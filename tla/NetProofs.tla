------------------------------ MODULE NetProofs ------------------------------
(***************************************************************************)
(* Proofs about the two protocols of the network transport: the PXN relay, *)
(* for any connections, any numbers of chunks and any failures, and the    *)
(* retransmission of the IBUC adaptor, for any numbers of slots, queue     *)
(* pairs, chunks, retries and losses.                                      *)
(*                                                                         *)
(* The argument about the relay has two layers.  The first is about        *)
(* messages: a key (the opId of an RPC) is in at most one place at a time, *)
(* a request that was written, a request the relay has queued, an answer   *)
(* on its way or an answer that was read.  So the four queues amount to    *)
(* two sets, what was asked and what was answered, and a step of the relay *)
(* answers one request or leaves both sets alone.  The second is about a   *)
(* connection: what its phase says of the requests that are out, of the    *)
(* slot and of the NIC.  All its clauses forbid messages, so that losing   *)
(* one cannot break them.                                                  *)
(*                                                                         *)
(* The argument about retransmission has four layers, each used by the     *)
(* next: who holds the source of a send (RetransInv), which use of a slot  *)
(* a packet names (AddressInv), what a receive has of its message          *)
(* (ReceiptInv), and what the receiver has acknowledged (AckInv).  The     *)
(* first needs nothing.  The second and third need that no generation      *)
(* comes around within the run, and the last also that no sequence number  *)
(* does: a notification may come as late as the network likes, and names   *)
(* its receive only by these two numbers.                                  *)
(***************************************************************************)
EXTENDS PxnRelay, IbucRetrans, FiniteSetTheorems, SequenceTheorems, WellFoundedInduction, TLAPS

-----------------------------------------------------------------------------
(* The PXN relay *)

Kind(t) == IF t = "send" THEN "op" ELSE IF t = "release" THEN "conn" ELSE "state"

RequestType == {"lease", "send", "cancel", "release"}
KeySet == Conns \X {"state", "op", "conn"}

RequestSet ==
  {r \in [type : RequestType, conn : Conns, id : Nat, key : KeySet] :
     r.key = <<r.conn, Kind(r.type)>>}

PendingSet ==
  {o \in [type : RequestType, conn : Conns, id : Nat, key : KeySet,
          cancelled : BOOLEAN, posted : BOOLEAN] :
     o.key = <<o.conn, Kind(o.type)>>}

AnswerSet == [key : KeySet, ok : BOOLEAN, val : {0, 1}]

\* The request a queued one came from.
Core(o) == [type |-> o.type, conn |-> o.conn, id |-> o.id, key |-> o.key]

Elems(s) == {s[k] : k \in DOMAIN s}
Cores(s) == {Core(s[k]) : k \in DOMAIN s}
Keys(s) == {s[k].key : k \in DOMAIN s}
KeysIn(S) == {a.key : a \in S}
Distinct(s) == \A k, l \in DOMAIN s : s[k].key = s[l].key => k = l

\* No key is in two places of the queues r, p, s and the set A.
Apart(r, p, s, A) ==
  /\ Distinct(r) /\ Distinct(p) /\ Distinct(s)
  /\ \A a, b \in A : a.key = b.key => a = b
  /\ Keys(r) \cap Keys(p) = {} /\ Keys(r) \cap Keys(s) = {} /\ Keys(r) \cap KeysIn(A) = {}
  /\ Keys(p) \cap Keys(s) = {} /\ Keys(p) \cap KeysIn(A) = {} /\ Keys(s) \cap KeysIn(A) = {}

Queues(r, p, s, A) ==
  /\ r \in Seq(RequestSet) /\ p \in Seq(PendingSet) /\ s \in Seq(AnswerSet)
  /\ A \in SUBSET AnswerSet

\* Every opId is outstanding at most once.
MessageInv == Queues(reqs, pending, resps, cached) /\ Apart(reqs, pending, resps, cached)

AskedIn(r, p) == Elems(r) \cup Cores(p)
Asked == AskedIn(reqs, pending)
Answered == Elems(resps) \cup cached

\* No message has that key.
Quiet(c, k) ==
  /\ \A q \in Asked : q.key # <<c, k>>
  /\ \A a \in Answered : a.key # <<c, k>>

\* The answer that certifies what was asked for.
Granted(a) == a.ok /\ a.val = 1

Phase == {"ready", "lease", "copy", "copying", "send", "cancel", "cancelling"}

StateType ==
  /\ phase \in [Conns -> Phase] /\ id \in [Conns -> Nat]
  /\ status \in [Conns -> {"running", "failed", "done", "retired", "retained"}]
  /\ writing \in [Conns -> BOOLEAN]
  /\ import \in {"open", "closed", "retained"} /\ stop \in {"no", "releasing", "done"}
  /\ releases \in [Conns -> {"none", "sent", "over"}]
  /\ sock \in {"open", "closed"}
  /\ slot \in [Conns -> Nat] /\ content \in [Conns -> Nat]
  /\ nic \in [Conns -> {"idle", "reading", "read"}]
  /\ peer \in {"open", "closed"} /\ sourceReleased \in [Conns -> BOOLEAN]
  /\ pool \in {"live", "freed", "retained"}

-----------------------------------------------------------------------------
(* What the phase of a connection says *)

\* Requests out are for the current chunk, and so is a lease.
Current(c) ==
  /\ \A q \in Asked : q.conn = c /\ q.type # "release" => q.id = id[c]
  /\ slot[c] \in {0, id[c]}

\* Nothing is out and the slot is free.
ReadyIdle(c) ==
  phase[c] = "ready" =>
    Quiet(c, "state") /\ Quiet(c, "op") /\ slot[c] = 0 /\ nic[c] = "idle"

\* Nothing is out and the slot is leased; a finished copy is in it.
CopyHeld(c) ==
  /\ phase[c] \in {"copy", "copying"} =>
       Quiet(c, "state") /\ Quiet(c, "op") /\ slot[c] = id[c] /\ nic[c] = "idle"
  /\ phase[c] = "copying" /\ ~writing[c] => content[c] = id[c]
  /\ writing[c] => phase[c] = "copying"

\* At most the lease is out, and its granting answer means that the slot is held.
LeaseOut(c) ==
  phase[c] = "lease" =>
    /\ Quiet(c, "op") /\ nic[c] = "idle"
    /\ \A q \in Asked : q.key = <<c, "state">> => q.type = "lease"
    /\ \A a \in Answered : a.key = <<c, "state">> /\ Granted(a) => slot[c] = id[c]

\* At most the cancel is out, and its granting answer means that the slot is free.
CancelOut(c) ==
  /\ phase[c] = "cancelling" =>
       /\ Quiet(c, "op") /\ nic[c] = "idle"
       /\ \A q \in Asked : q.key = <<c, "state">> => q.type = "cancel"
       /\ \A a \in Answered : a.key = <<c, "state">> /\ Granted(a) => slot[c] = 0
  /\ phase[c] = "cancel" /\ sock = "open" =>
       Quiet(c, "state") /\ Quiet(c, "op") /\ nic[c] = "idle"

\* While a send is out or the NIC is at work, nothing else is out, the slot is
\* held and holds the chunk; the granting answer means that it is free.
SendOut(c) ==
  /\ ~Quiet(c, "op") \/ nic[c] # "idle" => Quiet(c, "state") /\ content[c] = id[c]
  /\ nic[c] # "idle" => slot[c] = id[c]
  /\ \A q \in Asked : q.key = <<c, "op">> => slot[c] = id[c]
  /\ \A a \in Answered : a.key = <<c, "op">> /\ Granted(a) => slot[c] = 0 /\ nic[c] = "idle"

ConnInv(c) ==
  Current(c) /\ ReadyIdle(c) /\ CopyHeld(c) /\ LeaseOut(c) /\ CancelOut(c) /\ SendOut(c)

\* The mapping is closed once every operation was retired, only then is a
\* release asked for, and the pool is freed only by a relay that has stopped.
ReleaseInv ==
  /\ \A c \in Conns : status[c] = "retired" => phase[c] = "ready"
  /\ import = "closed" => stop # "no" /\ \A c \in Conns : status[c] = "retired"
  /\ stop = "releasing" => import = "closed"
  /\ \A q \in Asked : q.type = "release" => import = "closed"
  /\ \A c \in Conns : sourceReleased[c] => import = "closed"
  /\ \A c \in Conns : releases[c] = "none" => Quiet(c, "conn")
  /\ pool # "live" => peer = "closed"
  /\ pool = "freed" => import = "closed" /\ \A c \in Conns : nic[c] # "reading"

IInv == StateType /\ MessageInv /\ (\A c \in Conns : ConnInv(c)) /\ ReleaseInv

-----------------------------------------------------------------------------
(* Queues and keys *)

LEMMA AppendKeys ==
  ASSUME NEW S, NEW s \in Seq(S), NEW e \in S
  PROVE  /\ Append(s, e) \in Seq(S)
         /\ Elems(Append(s, e)) = Elems(s) \cup {e}
         /\ Cores(Append(s, e)) = Cores(s) \cup {Core(e)}
         /\ Keys(Append(s, e)) = Keys(s) \cup {e.key}
         /\ Distinct(s) /\ e.key \notin Keys(s) => Distinct(Append(s, e))
<1> DEFINE t == Append(s, e)
<1>1. /\ t \in Seq(S) /\ DOMAIN t = DOMAIN s \cup {Len(s) + 1} /\ Len(s) + 1 \notin DOMAIN s
      /\ \A k \in DOMAIN s : t[k] = s[k]
      /\ t[Len(s) + 1] = e
  OBVIOUS
<1> HIDE DEF t
<1>2. Elems(t) = Elems(s) \cup {e} BY <1>1 DEF Elems
<1>3. Cores(t) = Cores(s) \cup {Core(e)} BY <1>1 DEF Cores
<1>4. Keys(t) = Keys(s) \cup {e.key} BY <1>1 DEF Keys
<1>5. ASSUME Distinct(s), e.key \notin Keys(s) PROVE Distinct(t)
  BY <1>1, <1>5 DEF Distinct, Keys
<1>6. QED BY <1>1, <1>2, <1>3, <1>4, <1>5 DEF t

\* Sequence t has the elements of s but the one at m, in some order of theirs.
Cut(s, t, m) ==
  \E f \in [DOMAIN t -> DOMAIN s] :
    /\ \A k \in DOMAIN t : t[k] = s[f[k]] /\ f[k] # m
    /\ \A k, l \in DOMAIN t : f[k] = f[l] => k = l
    /\ \A l \in DOMAIN s : l # m => \E k \in DOMAIN t : f[k] = l

LEMMA CutKeys ==
  ASSUME NEW s, NEW t, NEW m \in DOMAIN s, Distinct(s), Cut(s, t, m),
         \A k \in DOMAIN s : Core(s[k]).key = s[k].key
  PROVE  /\ Elems(t) = Elems(s) \ {s[m]}
         /\ Cores(t) = Cores(s) \ {Core(s[m])}
         /\ Keys(t) = Keys(s) \ {s[m].key}
         /\ Distinct(t)
<1>1. PICK f \in [DOMAIN t -> DOMAIN s] :
        /\ \A k \in DOMAIN t : t[k] = s[f[k]] /\ f[k] # m
        /\ \A k, l \in DOMAIN t : f[k] = f[l] => k = l
        /\ \A l \in DOMAIN s : l # m => \E k \in DOMAIN t : f[k] = l
  BY DEF Cut
<1>2. \A k \in DOMAIN s : k # m => s[k].key # s[m].key /\ s[k] # s[m] /\ Core(s[k]) # Core(s[m])
  BY DEF Distinct
<1>3. Elems(t) = Elems(s) \ {s[m]} BY <1>1, <1>2 DEF Elems
<1>4. Cores(t) = Cores(s) \ {Core(s[m])} BY <1>1, <1>2 DEF Cores
<1>5. Keys(t) = Keys(s) \ {s[m].key} BY <1>1, <1>2 DEF Keys
<1>6. Distinct(t) BY <1>1 DEF Distinct
<1> QED BY <1>3, <1>4, <1>5, <1>6

LEMMA TailCut ==
  ASSUME NEW S, NEW s \in Seq(S), s # <<>>
  PROVE  Tail(s) \in Seq(S) /\ Head(s) = s[1] /\ 1 \in DOMAIN s /\ Cut(s, Tail(s), 1)
<1> DEFINE f == [k \in DOMAIN Tail(s) |-> k + 1]
<1>1. /\ Tail(s) \in Seq(S) /\ Head(s) = s[1] /\ 1 \in DOMAIN s
      /\ DOMAIN Tail(s) = 1..Len(s) - 1 /\ DOMAIN s = 1..Len(s) /\ Len(s) \in Nat
      /\ \A k \in DOMAIN Tail(s) : Tail(s)[k] = s[k + 1]
  OBVIOUS
<1>2. f \in [DOMAIN Tail(s) -> DOMAIN s] BY <1>1
<1>3. \A k \in DOMAIN Tail(s) : Tail(s)[k] = s[f[k]] /\ f[k] # 1 BY <1>1
<1>4. \A k, l \in DOMAIN Tail(s) : f[k] = f[l] => k = l BY <1>1
<1>5. ASSUME NEW l \in DOMAIN s, l # 1 PROVE \E k \in DOMAIN Tail(s) : f[k] = l
  <2>1. l - 1 \in DOMAIN Tail(s) /\ f[l - 1] = l BY <1>1, <1>5
  <2> QED BY <2>1
<1> HIDE DEF f
<1> QED BY <1>1, <1>2, <1>3, <1>4, <1>5 DEF Cut

LEMMA WithoutCut ==
  ASSUME NEW S, pending \in Seq(S), NEW m \in DOMAIN pending
  PROVE  Without(m) \in Seq(S) /\ Cut(pending, Without(m), m)
<1> DEFINE n == Len(pending)
           t == Without(m)
           f == [k \in 1..n - 1 |-> IF k < m THEN k ELSE k + 1]
<1>1. n \in Nat /\ DOMAIN pending = 1..n /\ m \in 1..n OBVIOUS
<1>2. /\ t \in Seq(S) /\ Len(t) = n - 1 /\ DOMAIN t = 1..n - 1
      /\ \A k \in 1..n - 1 : t[k] = IF k < m THEN pending[k] ELSE pending[k + 1]
  <2> DEFINE a == SubSeq(pending, 1, m - 1)
             b == SubSeq(pending, m + 1, n)
  <2>1. a \in Seq(S) /\ Len(a) = m - 1 /\ \A k \in 1..m - 1 : a[k] = pending[k]
    BY <1>1
  <2>2. b \in Seq(S) /\ Len(b) = n - m /\ \A k \in 1..n - m : b[k] = pending[m + k]
    BY <1>1
  <2>3. t = a \o b BY DEF Without
  <2> HIDE DEF a, b, n, t
  <2>4. t \in Seq(S) /\ Len(t) = n - 1 /\ DOMAIN t = 1..n - 1
    <3>1. /\ a \o b \in Seq(S) /\ Len(a \o b) = Len(a) + Len(b)
          /\ DOMAIN (a \o b) = 1..Len(a) + Len(b)
      BY <2>1, <2>2
    <3>2. Len(a) + Len(b) = n - 1 BY <1>1, <2>1, <2>2
    <3> QED BY <2>3, <3>1, <3>2
  <2>5. ASSUME NEW k \in 1..n - 1
        PROVE  t[k] = IF k < m THEN pending[k] ELSE pending[k + 1]
    <3>1. CASE k < m
      <4>1. k \in 1..Len(a) BY <1>1, <2>1, <3>1
      <4>2. (a \o b)[k] = a[k] BY <2>1, <2>2, <4>1
      <4> QED BY <2>1, <2>3, <3>1, <4>1, <4>2
    <3>2. CASE k >= m
      <4>1. t[k] = b[k - (m - 1)]
        <5>1. k \in Len(a) + 1 .. Len(a) + Len(b) BY <1>1, <2>1, <2>2, <3>2
        <5>2. \A i \in 1..Len(a) + Len(b) :
                (a \o b)[i] = IF i <= Len(a) THEN a[i] ELSE b[i - Len(a)]
          BY <2>1, <2>2, ConcatProperties, Zenon
        <5>3. k \in 1..Len(a) + Len(b) /\ ~(k <= Len(a)) BY <1>1, <2>1, <2>2, <5>1
        <5>4. (a \o b)[k] = b[k - Len(a)] BY <5>2, <5>3
        <5> QED BY <2>1, <2>3, <5>4
      <4>2. k - (m - 1) \in 1..n - m /\ m + (k - (m - 1)) = k + 1 BY <1>1, <3>2
      <4> QED BY <1>1, <2>2, <3>2, <4>1, <4>2
    <3> QED BY <1>1, <3>1, <3>2
  <2> QED BY <2>4, <2>5
<1> HIDE DEF n, t
<1>3. f \in [DOMAIN t -> DOMAIN pending] BY <1>1, <1>2
<1>4. \A k \in DOMAIN t : t[k] = pending[f[k]] /\ f[k] # m BY <1>1, <1>2
<1>5. \A k, l \in DOMAIN t : f[k] = f[l] => k = l BY <1>1, <1>2
<1>6. ASSUME NEW l \in DOMAIN pending, l # m PROVE \E k \in DOMAIN t : f[k] = l
  <2>1. CASE l < m
    <3>1. l \in DOMAIN t /\ f[l] = l BY <1>1, <1>2, <1>6, <2>1
    <3> QED BY <3>1
  <2>2. CASE l > m
    <3>1. l - 1 \in DOMAIN t /\ f[l - 1] = l BY <1>1, <1>2, <1>6, <2>2
    <3> QED BY <3>1
  <2> QED BY <1>1, <1>6, <2>1, <2>2
<1> HIDE DEF f
<1>7. t \in Seq(S) /\ Cut(pending, t, m) BY <1>2, <1>3, <1>4, <1>5, <1>6 DEF Cut
<1> QED BY <1>7 DEF t

\* Marking queued requests changes neither the requests nor their keys.
LEMMA MarkKeys ==
  ASSUME NEW s \in Seq(PendingSet), NEW t, DOMAIN t = DOMAIN s,
         \A k \in DOMAIN s : t[k] \in PendingSet /\ Core(t[k]) = Core(s[k]),
         t = [k \in DOMAIN s |-> t[k]]
  PROVE  /\ t \in Seq(PendingSet) /\ Cores(t) = Cores(s) /\ Keys(t) = Keys(s)
         /\ Distinct(s) => Distinct(t)
<1>1. DOMAIN s = 1..Len(s) /\ Len(s) \in Nat OBVIOUS
<1>2. t \in [1..Len(s) -> PendingSet] BY <1>1
<1>3. t \in Seq(PendingSet) BY <1>1, <1>2
<1>4. \A k \in DOMAIN s : t[k].key = s[k].key BY DEF Core
<1> QED BY <1>3, <1>4 DEF Cores, Keys, Distinct

-----------------------------------------------------------------------------
(* What the steps do to the messages *)

LEMMA CoreType ==
  ASSUME NEW o \in PendingSet
  PROVE  /\ Core(o) \in RequestSet /\ Core(o).key = o.key /\ Core(o).type = o.type
         /\ Core(o).conn = o.conn /\ Core(o).id = o.id
  BY DEF PendingSet, RequestSet, Core

\* The keys of the sets are the keys of the queues.
LEMMA QuietKeys ==
  ASSUME Queues(reqs, pending, resps, cached), NEW c, NEW k
  PROVE  /\ Quiet(c, k) <=> /\ <<c, k>> \notin Keys(reqs) /\ <<c, k>> \notin Keys(pending)
                            /\ <<c, k>> \notin Keys(resps) /\ <<c, k>> \notin KeysIn(cached)
         /\ \A q \in Asked : q \in RequestSet
         /\ \A a \in Answered : a \in AnswerSet
<1>1. \A m \in DOMAIN pending : pending[m] \in PendingSet BY DEF Queues
<1>2. \A m \in DOMAIN pending : Core(pending[m]).key = pending[m].key
                               /\ Core(pending[m]) \in RequestSet
  BY <1>1, CoreType
<1>3. \A m \in DOMAIN reqs : reqs[m] \in RequestSet BY DEF Queues
<1>4. \A m \in DOMAIN resps : resps[m] \in AnswerSet BY DEF Queues
<1>5. \A q \in Asked : q \in RequestSet BY <1>2, <1>3 DEF Asked, AskedIn, Elems, Cores
<1>6. \A a \in Answered : a \in AnswerSet BY <1>4 DEF Answered, Elems, Queues
<1>7. (\A q \in Asked : q.key # <<c, k>>)
        <=> <<c, k>> \notin Keys(reqs) /\ <<c, k>> \notin Keys(pending)
  BY <1>2 DEF Asked, AskedIn, Elems, Cores, Keys
<1>8. (\A a \in Answered : a.key # <<c, k>>)
        <=> <<c, k>> \notin Keys(resps) /\ <<c, k>> \notin KeysIn(cached)
  BY DEF Answered, Elems, Keys, KeysIn
<1> QED BY <1>5, <1>6, <1>7, <1>8 DEF Quiet

\* A request is answered, or kept.
Replied(q, a) ==
  a \in AnswerSet /\ a.key = q.key /\ Asked' = Asked \ {q} /\ Answered' = Answered \cup {a}
SameMessages == Asked' = Asked /\ Answered' = Answered

\* A step of the relay on request q.
Refused(q) ==
  /\ \E a : Replied(q, a) /\ ~Granted(a)
  /\ UNCHANGED <<slot, nic>>
  /\ \/ UNCHANGED sourceReleased
     \/ q.type = "release" /\ sourceReleased' = [sourceReleased EXCEPT ![q.conn] = TRUE]
Leased(q) ==
  /\ q.type = "lease" /\ \E a : Replied(q, a)
  /\ slot' = [slot EXCEPT ![q.conn] = q.id]
  /\ UNCHANGED <<nic, sourceReleased>>
SendOver(q) ==
  /\ q.type = "send" /\ \E a : Replied(q, a)
  /\ slot' = [slot EXCEPT ![q.conn] = 0] /\ nic' = [nic EXCEPT ![q.conn] = "idle"]
  /\ UNCHANGED sourceReleased
Cancelled(q) ==
  /\ q.type = "cancel" /\ \E a : Replied(q, a)
  /\ slot' = [slot EXCEPT ![q.conn] = IF @ = q.id THEN 0 ELSE @]
  /\ UNCHANGED <<nic, sourceReleased>>
KeptBack(q) ==
  /\ SameMessages /\ UNCHANGED <<slot, sourceReleased>>
  /\ \/ UNCHANGED nic
     \/ q.type = "send" /\ slot[q.conn] = q.id /\ nic' = [nic EXCEPT ![q.conn] = "reading"]

ServeStep(q) ==
  /\ q \in Asked /\ peer = "open"
  /\ UNCHANGED <<opVars, stopVars, sock, content, peer, pool>>
  /\ Refused(q) \/ Leased(q) \/ SendOver(q) \/ Cancelled(q) \/ KeptBack(q)

\* The queues r and p hold what was asked, without the request q or with it.
Left(r, p, q) ==
  /\ Queues(r, p, resps, cached) /\ Apart(r, p, resps, cached)
  /\ q.key \notin Keys(r) /\ q.key \notin Keys(p)
  /\ q.key \notin Keys(resps) /\ q.key \notin KeysIn(cached)
  /\ AskedIn(r, p) = Asked \ {q}
With(r, p) ==
  /\ Queues(r, p, resps, cached) /\ Apart(r, p, resps, cached)
  /\ AskedIn(r, p) = Asked

LEMMA ReplyEffect ==
  ASSUME MessageInv, NEW o \in PendingSet, NEW left, Left(reqs', left, Core(o)),
         NEW ok \in BOOLEAN, NEW val \in {0, 1}, Reply(o, left, ok, val), cached' = cached
  PROVE  /\ MessageInv'
         /\ \E a : Replied(Core(o), a) /\ (Granted(a) <=> ok /\ val = 1)
<1> DEFINE a == [key |-> o.key, ok |-> ok, val |-> val]
<1>1. Core(o).key = o.key BY CoreType
<1>2. a \in AnswerSet /\ a.key = o.key BY DEF PendingSet, AnswerSet
<1>3. Granted(a) <=> ok /\ val = 1 BY DEF Granted
<1>4. resps' = Append(resps, a) /\ pending' = left BY DEF Reply
<1> HIDE DEF a
<1>5. /\ resps' \in Seq(AnswerSet) /\ Elems(resps') = Elems(resps) \cup {a}
      /\ Keys(resps') = Keys(resps) \cup {a.key} /\ Distinct(resps')
  BY <1>1, <1>2, <1>4, AppendKeys DEF Left, Queues, Apart
<1>6. Queues(reqs', pending', resps', cached') BY <1>4, <1>5 DEF Left, Queues
<1>7. Apart(reqs', pending', resps', cached')
  BY <1>1, <1>2, <1>4, <1>5 DEF Left, Apart
<1>8. MessageInv' BY <1>6, <1>7 DEF MessageInv
<1>9. Asked' = Asked \ {Core(o)} /\ Answered' = Answered \cup {a}
  BY <1>4, <1>5 DEF Left, Asked, Answered
<1> QED BY <1>1, <1>2, <1>3, <1>8, <1>9 DEF Replied

LEMMA KeepEffect ==
  ASSUME MessageInv, NEW keep, With(reqs', keep), pending' = keep, UNCHANGED <<resps, cached>>
  PROVE  MessageInv' /\ SameMessages
<1>1. Queues(reqs', pending', resps', cached') /\ Apart(reqs', pending', resps', cached')
  BY DEF With
<1>2. Asked' = Asked /\ Answered' = Answered BY DEF With, Asked, Answered
<1> QED BY <1>1, <1>2 DEF MessageInv, SameMessages

LEMMA ServeEffect ==
  ASSUME StateType, MessageInv, NEW o \in PendingSet, Core(o) \in Asked, peer = "open",
         NEW left, NEW keep, NEW checked,
         Left(reqs', left, Core(o)), With(reqs', keep), Serve(o, left, keep, checked)
  PROVE  MessageInv' /\ ServeStep(Core(o))
<1> DEFINE q == Core(o)
<1>1. q.type = o.type /\ q.conn = o.conn /\ q.id = o.id /\ o.conn \in Conns
  BY CoreType DEF PendingSet
<1>2. UNCHANGED <<opVars, stopVars, sock, content, peer, pool, cached>> BY DEF Serve
<1> HIDE DEF q
<1>3. SUFFICES MessageInv' /\ (Refused(q) \/ Leased(q) \/ SendOver(q) \/ Cancelled(q) \/ KeptBack(q))
  BY <1>2 DEF ServeStep, q
<1>4. ASSUME NEW ok \in BOOLEAN, NEW val \in {0, 1}, Reply(o, left, ok, val)
      PROVE  MessageInv' /\ \E a : Replied(q, a) /\ (Granted(a) <=> ok /\ val = 1)
  BY <1>2, <1>4, ReplyEffect DEF q
<1>5. CASE RefuseRequest(o, left, checked)
  <2>1. Reply(o, left, FALSE, 0) /\ UNCHANGED <<slot, nic, sourceReleased>>
    BY <1>5 DEF RefuseRequest
  <2>2. MessageInv' /\ \E a : Replied(q, a) /\ ~Granted(a) BY <1>4, <2>1
  <2> QED BY <2>1, <2>2 DEF Refused
<1>6. CASE ServeLease(o, left, keep)
  <2>1. o.type = "lease" /\ UNCHANGED <<nic, sourceReleased>> BY <1>6 DEF ServeLease
  <2>2. CASE Reply(o, left, TRUE, 0) /\ UNCHANGED slot
    <3>0. TRUE \in BOOLEAN /\ 0 \in {0, 1} /\ 0 # 1 OBVIOUS
    <3>1. MessageInv' /\ \E a : Replied(q, a) /\ ~Granted(a) BY <1>4, <2>2, <3>0, Zenon
    <3> QED BY <2>1, <2>2, <3>1 DEF Refused
  <2>3. CASE Reply(o, left, TRUE, 1) /\ slot' = [slot EXCEPT ![o.conn] = o.id]
    <3>1. MessageInv' /\ \E a : Replied(q, a) BY <1>4, <2>3
    <3> QED BY <1>1, <2>1, <2>3, <3>1 DEF Leased
  <2>4. CASE pending' = keep /\ UNCHANGED <<resps, slot>>
    <3>1. MessageInv' /\ SameMessages BY <1>2, <2>4, KeepEffect
    <3> QED BY <2>1, <2>4, <3>1 DEF KeptBack
  <2> QED BY <1>6, <2>2, <2>3, <2>4 DEF ServeLease
<1>7. CASE ServeSend(o, left, keep)
  <2>1. o.type = "send" /\ slot[o.conn] = o.id /\ UNCHANGED sourceReleased
    BY <1>7 DEF ServeSend
  <2>2. CASE /\ pending' = keep /\ nic' = [nic EXCEPT ![o.conn] = "reading"]
             /\ UNCHANGED <<resps, slot>>
    <3>1. MessageInv' /\ SameMessages BY <1>2, <2>2, KeepEffect
    <3> QED BY <1>1, <2>1, <2>2, <3>1 DEF KeptBack
  <2>3. CASE /\ Reply(o, left, TRUE, 1)
             /\ slot' = [slot EXCEPT ![o.conn] = 0] /\ nic' = [nic EXCEPT ![o.conn] = "idle"]
    <3>1. MessageInv' /\ \E a : Replied(q, a) BY <1>4, <2>3
    <3> QED BY <1>1, <2>1, <2>3, <3>1 DEF SendOver
  <2>4. CASE Reply(o, left, FALSE, 0) /\ UNCHANGED <<slot, nic>>
    <3>1. MessageInv' /\ \E a : Replied(q, a) /\ ~Granted(a) BY <1>4, <2>4
    <3> QED BY <2>1, <2>4, <3>1 DEF Refused
  <2> QED BY <1>7, <2>2, <2>3, <2>4 DEF ServeSend
<1>8. CASE ServeCancel(o, left, keep)
  <2> DEFINE same == {k \in Lane(o.conn) : pending[k].type \in {"lease", "send"}
                                           /\ pending[k].id = o.id}
             m == [k \in DOMAIN keep |->
                     IF k \in same THEN [keep[k] EXCEPT !.cancelled = TRUE] ELSE keep[k]]
  <2>1. o.type = "cancel" /\ UNCHANGED <<nic, sourceReleased>> BY <1>8 DEF ServeCancel
  <2>2. CASE pending' = m /\ UNCHANGED <<resps, slot>>
    <3> HIDE DEF same
    <3>1. keep \in Seq(PendingSet) BY DEF With, Queues
    <3>2. ASSUME NEW k \in DOMAIN keep
          PROVE  m[k] \in PendingSet /\ Core(m[k]) = Core(keep[k])
      <4>1. keep[k] \in PendingSet BY <3>1
      <4>2. [keep[k] EXCEPT !.cancelled = TRUE] \in PendingSet
        BY <4>1 DEF PendingSet
      <4>3. Core([keep[k] EXCEPT !.cancelled = TRUE]) = Core(keep[k])
        BY <4>1 DEF PendingSet, Core
      <4> QED BY <4>1, <4>2, <4>3
    <3>3. DOMAIN m = DOMAIN keep /\ m = [k \in DOMAIN keep |-> m[k]] OBVIOUS
    <3> HIDE DEF m
    <3>4. /\ m \in Seq(PendingSet) /\ Cores(m) = Cores(keep) /\ Keys(m) = Keys(keep)
          /\ Distinct(keep) => Distinct(m)
      BY <3>1, <3>2, <3>3, MarkKeys
    <3>5. With(reqs', m) BY <3>4 DEF With, Queues, Apart, AskedIn
    <3>6. MessageInv' /\ SameMessages BY <1>2, <2>2, <3>5, KeepEffect
    <3> QED BY <2>1, <2>2, <3>6 DEF KeptBack
  <2>3. CASE Reply(o, left, FALSE, 0) /\ UNCHANGED slot
    <3>1. MessageInv' /\ \E a : Replied(q, a) /\ ~Granted(a) BY <1>4, <2>3
    <3> QED BY <2>1, <2>3, <3>1 DEF Refused
  <2>4. CASE /\ Reply(o, left, TRUE, 1)
             /\ slot' = [slot EXCEPT ![o.conn] = IF @ = o.id THEN 0 ELSE @]
    <3>1. MessageInv' /\ \E a : Replied(q, a) BY <1>4, <2>4
    <3> QED BY <1>1, <2>1, <2>4, <3>1 DEF Cancelled
  <2> QED BY <1>8, <2>2, <2>3, <2>4 DEF ServeCancel
<1>9. CASE ServeRelease(o, left)
  <2>1. PICK b \in BOOLEAN : b = Idle(o.conn) BY DEF Idle
  <2>2. /\ o.type = "release" /\ Reply(o, left, b, 0) /\ UNCHANGED <<slot, nic>>
        /\ sourceReleased' = [sourceReleased EXCEPT ![o.conn] = @ \/ b]
    BY <1>9, <2>1 DEF ServeRelease
  <2>3. MessageInv' /\ \E a : Replied(q, a) /\ ~Granted(a) BY <1>4, <2>2
  <2>4. sourceReleased \in [Conns -> BOOLEAN] BY DEF StateType
  <2>5. CASE b = TRUE
    <3>1. sourceReleased' = [sourceReleased EXCEPT ![o.conn] = TRUE] BY <2>2, <2>5
    <3> QED BY <1>1, <2>2, <2>3, <3>1 DEF Refused
  <2>6. CASE b = FALSE
    <3>1. (sourceReleased[o.conn] \/ b) = sourceReleased[o.conn] BY <1>1, <2>4, <2>6, Zenon
    <3>2. sourceReleased' = [sourceReleased EXCEPT ![o.conn] = sourceReleased[o.conn]]
      BY <2>2, <3>1
    <3>3. UNCHANGED sourceReleased BY <2>4, <3>2
    <3> QED BY <2>2, <2>3, <3>3 DEF Refused
  <2> QED BY <2>1, <2>5, <2>6
<1> QED BY <1>5, <1>6, <1>7, <1>8, <1>9 DEF Serve

\* A request that is read is served at once.
LEMMA ReceiveEffect ==
  ASSUME StateType, MessageInv, Receive
  PROVE  MessageInv' /\ \E q : ServeStep(q)
<1> DEFINE r == Head(reqs)
           o == [type |-> r.type, conn |-> r.conn, id |-> r.id, key |-> r.key,
                 cancelled |-> FALSE, posted |-> FALSE]
<1>1. PICK b \in BOOLEAN : b = (o.type = "send" /\ slot[o.conn] = o.id /\ ActiveSend(o.conn) = {})
  OBVIOUS
<1> DEFINE p == [o EXCEPT !.posted = b]
           keep == Append(pending, p)
<1>2. /\ peer = "open" /\ reqs # <<>> /\ reqs' = Tail(reqs)
      /\ Serve(o, pending, keep, FALSE)
  BY <1>1 DEF Receive
<1>3. /\ reqs \in Seq(RequestSet) /\ pending \in Seq(PendingSet)
      /\ Queues(reqs, pending, resps, cached) /\ Apart(reqs, pending, resps, cached)
  BY DEF MessageInv, Queues
<1>4. /\ reqs' \in Seq(RequestSet) /\ r = reqs[1] /\ 1 \in DOMAIN reqs /\ Cut(reqs, reqs', 1)
  BY <1>2, <1>3, TailCut
<1>5. r \in RequestSet BY <1>3, <1>4
<1>6. o \in PendingSet /\ p \in PendingSet /\ Core(o) = r /\ Core(p) = r
  BY <1>5 DEF PendingSet, RequestSet, Core
<1>7. p.key = r.key /\ r \in Asked BY <1>4, <1>5, <1>6 DEF RequestSet, Asked, AskedIn, Elems
<1> HIDE DEF r, o, p
<1>8. \A k \in DOMAIN reqs : Core(reqs[k]).key = reqs[k].key BY DEF Core
<1>9. /\ Elems(reqs') = Elems(reqs) \ {r} /\ Keys(reqs') = Keys(reqs) \ {r.key}
      /\ Distinct(reqs')
  BY <1>3, <1>4, <1>8, CutKeys DEF Apart
<1>10. r.key \in Keys(reqs) BY <1>4 DEF Keys
<1>11. /\ keep \in Seq(PendingSet) /\ Cores(keep) = Cores(pending) \cup {r}
       /\ Keys(keep) = Keys(pending) \cup {r.key} /\ Distinct(keep)
  BY <1>3, <1>6, <1>7, <1>10, AppendKeys DEF Apart
<1>12. r \notin Cores(pending)
  <2>1. \A k \in DOMAIN pending : Core(pending[k]).key = pending[k].key BY DEF Core
  <2>2. r.key \notin Keys(pending) BY <1>3, <1>10 DEF Apart
  <2> QED BY <2>1, <2>2 DEF Cores, Keys
<1>13. AskedIn(reqs', pending) = Asked \ {r} BY <1>9, <1>12 DEF AskedIn, Asked
<1>14. Left(reqs', pending, r) BY <1>3, <1>4, <1>9, <1>10, <1>13 DEF Left, Queues, Apart
<1>15. AskedIn(reqs', keep) = Asked BY <1>4, <1>7, <1>9, <1>11 DEF AskedIn, Asked, Elems
<1> HIDE DEF keep
<1>16. With(reqs', keep) BY <1>3, <1>4, <1>9, <1>10, <1>11, <1>15 DEF With, Queues, Apart
<1> QED BY <1>2, <1>6, <1>7, <1>14, <1>16, ServeEffect

\* A queued request is served again.
LEMMA ProgressEffect ==
  ASSUME StateType, MessageInv, NEW k, Progress(k)
  PROVE  MessageInv' /\ \E q : ServeStep(q)
<1> DEFINE o == pending[k]
           left == Without(k)
<1>1. /\ pending \in Seq(PendingSet)
      /\ Queues(reqs, pending, resps, cached) /\ Apart(reqs, pending, resps, cached)
  BY DEF MessageInv, Queues
<1>2. k \in DOMAIN pending /\ peer = "open" /\ reqs' = reqs BY DEF Progress
<1>3. o \in PendingSet BY <1>1, <1>2
<1>4. PICK b \in BOOLEAN : b = (pending[k].posted \/ pending[k].type = "send") OBVIOUS
<1> DEFINE p == [o EXCEPT !.posted = b]
           keep == [pending EXCEPT ![k] = p]
<1>5. Serve(o, left, keep, TRUE) BY <1>4 DEF Progress
<1>6. p \in PendingSet /\ Core(p) = Core(o) BY <1>3 DEF PendingSet, Core
<1>7. Core(o).key = o.key /\ Core(o) \in RequestSet BY <1>3, CoreType
<1>8. Core(o) \in Asked BY <1>2 DEF Asked, AskedIn, Cores
<1> HIDE DEF p
<1>9. /\ keep \in Seq(PendingSet) /\ Cores(keep) = Cores(pending) /\ Keys(keep) = Keys(pending)
      /\ Distinct(keep)
  <2>1. /\ DOMAIN keep = DOMAIN pending /\ keep = [m \in DOMAIN pending |-> keep[m]]
        /\ \A m \in DOMAIN pending : keep[m] = IF m = k THEN p ELSE pending[m]
    BY <1>2
  <2>2. \A m \in DOMAIN pending : keep[m] \in PendingSet /\ Core(keep[m]) = Core(pending[m])
    BY <1>1, <1>6, <2>1
  <2> HIDE DEF keep
  <2> QED BY <1>1, <2>1, <2>2, MarkKeys DEF Apart
<1>10. left \in Seq(PendingSet) /\ Cut(pending, left, k) BY <1>1, <1>2, WithoutCut
<1>11. \A m \in DOMAIN pending : Core(pending[m]).key = pending[m].key BY DEF Core
<1> HIDE DEF left, keep
<1>12. /\ Cores(left) = Cores(pending) \ {Core(o)} /\ Keys(left) = Keys(pending) \ {o.key}
       /\ Distinct(left)
  BY <1>1, <1>2, <1>10, <1>11, CutKeys DEF Apart
<1>13. o.key \in Keys(pending) BY <1>2 DEF Keys
<1>14. Core(o) \notin Elems(reqs) BY <1>1, <1>7, <1>13 DEF Elems, Keys, Apart
<1>15. AskedIn(reqs', left) = Asked \ {Core(o)} BY <1>2, <1>12, <1>14 DEF AskedIn, Asked
<1> HIDE DEF o
<1>16. Left(reqs', left, Core(o))
  BY <1>1, <1>2, <1>7, <1>10, <1>12, <1>13, <1>15 DEF Left, Queues, Apart
<1>17. With(reqs', keep) BY <1>1, <1>2, <1>9 DEF With, Queues, Apart, AskedIn, Asked
<1> QED BY <1>2, <1>3, <1>5, <1>8, <1>16, <1>17, ServeEffect

\* A key is in one place.
LEMMA KeysOnce ==
  ASSUME NEW r, NEW p, NEW s, NEW A, Queues(r, p, s, A), Apart(r, p, s, A)
  PROVE  /\ \A q1, q2 \in AskedIn(r, p) : q1.key = q2.key => q1 = q2
         /\ \A q \in AskedIn(r, p), a \in Elems(s) \cup A : q.key # a.key
         /\ \A a, b \in Elems(s) \cup A : a.key = b.key => a = b
         /\ \A q \in AskedIn(r, p) : q \in RequestSet
         /\ \A a \in Elems(s) \cup A : a \in AnswerSet
<1>1. \A k \in DOMAIN p : Core(p[k]).key = p[k].key BY DEF Core
<1>2. \A k \in DOMAIN p : Core(p[k]) \in RequestSet BY CoreType DEF Queues
<1>3. \A q1, q2 \in Elems(r) : q1.key = q2.key => q1 = q2 BY DEF Apart, Distinct, Elems
<1>4. \A q1, q2 \in Cores(p) : q1.key = q2.key => q1 = q2
  BY <1>1 DEF Apart, Distinct, Cores
<1>5. \A q \in Elems(r) : q.key \in Keys(r) /\ q \in RequestSet BY DEF Elems, Keys, Queues
<1>6. \A q \in Cores(p) : q.key \in Keys(p) /\ q \in RequestSet BY <1>1, <1>2 DEF Cores, Keys
<1>7. \A a \in Elems(s) : a.key \in Keys(s) /\ a \in AnswerSet BY DEF Elems, Keys, Queues
<1>8. \A a \in A : a.key \in KeysIn(A) /\ a \in AnswerSet BY DEF KeysIn, Queues
<1>9. \A q1, q2 \in AskedIn(r, p) : q1.key = q2.key => q1 = q2
  BY <1>3, <1>4, <1>5, <1>6 DEF AskedIn, Apart
<1>10. \A q \in AskedIn(r, p), a \in Elems(s) \cup A : q.key # a.key
  BY <1>5, <1>6, <1>7, <1>8 DEF AskedIn, Apart
<1>11. \A a, b \in Elems(s) : a.key = b.key => a = b BY DEF Apart, Distinct, Elems
<1>12. \A a, b \in Elems(s) \cup A : a.key = b.key => a = b
  BY <1>7, <1>8, <1>11 DEF Apart
<1> QED BY <1>5, <1>6, <1>7, <1>8, <1>9, <1>10, <1>12 DEF AskedIn

LEMMA UniqueKeys ==
  ASSUME MessageInv
  PROVE  /\ \A q1, q2 \in Asked : q1.key = q2.key => q1 = q2
         /\ \A q \in Asked, a \in Answered : q.key # a.key
         /\ \A a, b \in Answered : a.key = b.key => a = b
         /\ \A q \in Asked : q \in RequestSet
         /\ \A a \in Answered : a \in AnswerSet
  BY KeysOnce DEF MessageInv, Asked, Answered

LEMMA UniqueKeysNext ==
  ASSUME MessageInv'
  PROVE  /\ \A q1, q2 \in Asked' : q1.key = q2.key => q1 = q2
         /\ \A q \in Asked', a \in Answered' : q.key # a.key
         /\ \A a, b \in Answered' : a.key = b.key => a = b
         /\ \A q \in Asked' : q \in RequestSet
         /\ \A a \in Answered' : a \in AnswerSet
<1>1. Queues(reqs', pending', resps', cached') /\ Apart(reqs', pending', resps', cached')
  BY DEF MessageInv
<1>2. Asked' = AskedIn(reqs', pending') /\ Answered' = Elems(resps') \cup cached'
  BY DEF Asked, Answered
<1> QED BY <1>1, <1>2, KeysOnce

LEMMA SameEffect ==
  ASSUME MessageInv, UNCHANGED <<reqs, pending, resps, cached>>
  PROVE  MessageInv' /\ SameMessages
  BY DEF MessageInv, SameMessages, Asked, Answered

LEMMA CallEffect ==
  ASSUME MessageInv, StateType, NEW r \in RequestSet, NEW c, NEW k, r.key = <<c, k>>,
         sock = "open" => Quiet(c, k),
         NEW ok \in BOOLEAN, Call(r, ok), pending' = pending
  PROVE  /\ MessageInv' /\ Answered' = Answered /\ sock' \in {sock, "closed"}
         /\ Asked' = Asked \/ (sock = "open" /\ Asked' = Asked \cup {r})
         /\ ok => sock = "open"
<1>1. /\ Apart(reqs, pending, resps, cached) /\ Queues(reqs, pending, resps, cached)
      /\ reqs \in Seq(RequestSet)
  BY DEF MessageInv, Queues
<1>2. UNCHANGED <<cached, resps>> /\ sock' \in {sock, "closed"} BY DEF Call, rpcVars
<1>3. Answered' = Answered BY <1>2 DEF Answered
<1>4. CASE reqs' = reqs
  <2>1. MessageInv' /\ SameMessages BY <1>2, <1>4, SameEffect
  <2> QED BY <1>2, <1>3, <2>1 DEF SameMessages, Call
<1>5. CASE reqs' = Append(reqs, r) /\ sock = "open"
  <2>1. /\ r.key \notin Keys(reqs) /\ r.key \notin Keys(pending)
        /\ r.key \notin Keys(resps) /\ r.key \notin KeysIn(cached)
    BY <1>1, <1>5, QuietKeys
  <2>2. /\ reqs' \in Seq(RequestSet) /\ Elems(reqs') = Elems(reqs) \cup {r}
        /\ Keys(reqs') = Keys(reqs) \cup {r.key} /\ Distinct(reqs')
    BY <1>1, <1>5, <2>1, AppendKeys DEF Apart
  <2>3. Queues(reqs', pending', resps', cached') BY <1>1, <1>2, <2>2 DEF Queues
  <2>4. Apart(reqs', pending', resps', cached') BY <1>1, <1>2, <2>1, <2>2 DEF Apart
  <2>5. Asked' = Asked \cup {r} BY <2>2 DEF Asked, AskedIn
  <2> QED BY <1>2, <1>3, <1>5, <2>3, <2>4, <2>5 DEF MessageInv
<1> QED BY <1>4, <1>5 DEF Call, rpcVars

LEMMA TakeEffect ==
  ASSUME MessageInv, NEW c, NEW k, NEW a, Take(c, k, a), UNCHANGED <<reqs, pending, resps>>
  PROVE  /\ MessageInv' /\ Asked' = Asked /\ Answered' \subseteq Answered
         /\ a \in Answered /\ a.key = <<c, k>> /\ Quiet(c, k)'
<1>1. a \in cached /\ a.key = <<c, k>> /\ cached' = cached \ {a} BY DEF Take, Answers
<1>2. a \in Answered /\ Answered' \subseteq Answered /\ Asked' = Asked
  BY <1>1 DEF Answered, Asked
<1>3. Queues(reqs, pending, resps, cached)' BY <1>1 DEF MessageInv, Queues
<1>4. Apart(reqs, pending, resps, cached)' BY <1>1 DEF MessageInv, Apart, KeysIn
<1>5. Quiet(c, k)'
  <2>1. \A q \in Asked' : q.key # <<c, k>> BY <1>1, <1>2, UniqueKeys
  <2>2. \A b \in Answered' : b # a
    <3>1. a.key \in KeysIn(cached) BY <1>1 DEF KeysIn
    <3>2. a.key \notin Keys(resps) BY <3>1 DEF MessageInv, Apart
    <3> QED BY <1>1, <3>2 DEF Answered, Elems, Keys
  <2>3. \A b \in Answered' : b.key # <<c, k>> BY <1>1, <1>2, <2>2, UniqueKeys
  <2> QED BY <2>1, <2>3 DEF Quiet
<1> QED BY <1>1, <1>2, <1>3, <1>4, <1>5 DEF MessageInv

LEMMA ReadEffect ==
  ASSUME MessageInv, ReadResponse
  PROVE  MessageInv' /\ SameMessages
<1> DEFINE a == Head(resps)
<1>1. /\ resps # <<>> /\ resps' = Tail(resps) /\ cached' = cached \cup {a}
      /\ UNCHANGED <<reqs, pending>>
  BY DEF ReadResponse, relayVars
<1>2. /\ Apart(reqs, pending, resps, cached) /\ Queues(reqs, pending, resps, cached)
      /\ resps \in Seq(AnswerSet)
  BY DEF MessageInv, Queues
<1>3. /\ resps' \in Seq(AnswerSet) /\ a = resps[1] /\ 1 \in DOMAIN resps
      /\ Cut(resps, resps', 1)
  BY <1>1, <1>2, TailCut
<1>4. a \in AnswerSet /\ a \in Elems(resps) /\ a.key \in Keys(resps)
  BY <1>2, <1>3 DEF Elems, Keys
<1> HIDE DEF a
<1>5. \A k \in DOMAIN resps : Core(resps[k]).key = resps[k].key BY DEF Core
<1>6. /\ Elems(resps') = Elems(resps) \ {a} /\ Keys(resps') = Keys(resps) \ {a.key}
      /\ Distinct(resps')
  BY <1>2, <1>3, <1>5, CutKeys DEF Apart
<1>7. KeysIn(cached') = KeysIn(cached) \cup {a.key} BY <1>1 DEF KeysIn
<1>8. \A x, y \in cached' : x.key = y.key => x = y
  BY <1>1, <1>2, <1>4 DEF Apart, KeysIn
<1>9. Queues(reqs', pending', resps', cached') BY <1>1, <1>2, <1>3, <1>4 DEF Queues
<1>10. Apart(reqs', pending', resps', cached')
  <2>1. /\ Distinct(reqs) /\ Distinct(pending) /\ Keys(reqs) \cap Keys(pending) = {}
        /\ Keys(reqs) \cap Keys(resps) = {} /\ Keys(reqs) \cap KeysIn(cached) = {}
        /\ Keys(pending) \cap Keys(resps) = {} /\ Keys(pending) \cap KeysIn(cached) = {}
        /\ Keys(resps) \cap KeysIn(cached) = {}
    BY <1>2 DEF Apart
  <2>2. /\ Keys(reqs) \cap Keys(resps') = {} /\ Keys(reqs) \cap KeysIn(cached') = {}
        /\ Keys(pending) \cap Keys(resps') = {} /\ Keys(pending) \cap KeysIn(cached') = {}
        /\ Keys(resps') \cap KeysIn(cached') = {}
    BY <1>4, <1>6, <1>7, <2>1
  <2>3. reqs' = reqs /\ pending' = pending BY <1>1
  <2> QED BY <1>6, <1>8, <2>1, <2>2, <2>3 DEF Apart
<1>11. Answered' = Answered BY <1>1, <1>4, <1>6 DEF Answered
<1>12. Asked' = Asked BY <1>1 DEF Asked
<1> QED BY <1>9, <1>10, <1>11, <1>12 DEF MessageInv, SameMessages

LEMMA DropEffect ==
  ASSUME MessageInv, DropPeer
  PROVE  MessageInv' /\ Asked' = {} /\ Answered' = Answered
<1>1. pending' = <<>> /\ reqs' = <<>> /\ UNCHANGED <<resps, cached>> BY DEF DropPeer
<1>2. /\ Keys(reqs') = {} /\ Keys(pending') = {} /\ Elems(reqs') = {} /\ Cores(pending') = {}
      /\ Distinct(reqs') /\ Distinct(pending')
  <2>1. DOMAIN reqs' = {} /\ DOMAIN pending' = {} BY <1>1
  <2>2. Keys(reqs') = {} /\ Keys(pending') = {} BY <2>1 DEF Keys
  <2>3. Elems(reqs') = {} /\ Cores(pending') = {} BY <2>1 DEF Elems, Cores
  <2>4. Distinct(reqs') /\ Distinct(pending') BY <2>1 DEF Distinct
  <2> QED BY <2>2, <2>3, <2>4
<1>3. Queues(reqs', pending', resps', cached') BY <1>1 DEF MessageInv, Queues
<1>4. Apart(reqs', pending', resps', cached') BY <1>1, <1>2 DEF MessageInv, Apart
<1> QED BY <1>1, <1>2, <1>3, <1>4 DEF MessageInv, Asked, AskedIn, Answered

-----------------------------------------------------------------------------
(* What the steps do to a connection *)

\* The invariant of a connection survives a step that adds no message of its
\* own, changes nothing of it, closes the socket or ends the work of the NIC.
LEMMA Frame ==
  ASSUME NEW d \in Conns, ConnInv(d), MessageInv', StateType,
         phase'[d] = phase[d], id'[d] = id[d], writing'[d] = writing[d],
         slot'[d] = slot[d], content'[d] = content[d],
         nic'[d] # "idle" => nic[d] # "idle", sock' \in {sock, "closed"},
         \A q \in Asked' : q \in Asked \/ q.conn # d,
         \A a \in Answered' : a \in Answered \/ \A k : a.key # <<d, k>>
  PROVE  ConnInv(d)'
<1>1. \A q \in Asked' : q \in RequestSet BY UniqueKeysNext
<1>2. \A q \in Asked' : \A k : q.key = <<d, k>> => q \in Asked
  BY <1>1 DEF RequestSet
<1>3. \A a \in Answered' : \A k : a.key = <<d, k>> => a \in Answered OBVIOUS
<1>4. \A k : Quiet(d, k) => Quiet(d, k)' BY <1>2, <1>3 DEF Quiet
<1>5. Current(d)' BY DEF ConnInv, Current
<1>6. ReadyIdle(d)' BY <1>4 DEF ConnInv, ReadyIdle
<1>7. CopyHeld(d)' BY <1>4 DEF ConnInv, CopyHeld
<1>8. LeaseOut(d)' BY <1>2, <1>3, <1>4 DEF ConnInv, LeaseOut
<1>9. CancelOut(d)' BY <1>2, <1>3, <1>4 DEF ConnInv, CancelOut
<1>10. SendOut(d)' BY <1>2, <1>3, <1>4 DEF ConnInv, SendOut
<1> QED BY <1>5, <1>6, <1>7, <1>8, <1>9, <1>10 DEF ConnInv

\* The relay serves a request of connection c.
LEMMA ServeConn ==
  ASSUME IInv, MessageInv', NEW q, ServeStep(q)
  PROVE  ConnInv(q.conn)'
<1> DEFINE c == q.conn
<1>1. q \in RequestSet /\ q \in Asked BY UniqueKeys DEF IInv, ServeStep
<1>2. /\ c \in Conns /\ q.key = <<c, Kind(q.type)>> /\ q.type \in RequestType
      /\ q.type # "release" => q.id = id[c]
  BY <1>1 DEF RequestSet, IInv, ConnInv, Current
<1>3. ConnInv(c) /\ StateType BY <1>2 DEF IInv
<1>4. UNCHANGED <<phase, id, writing, content, sock>> BY DEF ServeStep, opVars
<1>5. /\ q.type = "lease" => q.key = <<c, "state">>
      /\ q.type = "cancel" => q.key = <<c, "state">>
      /\ q.type = "send" => q.key = <<c, "op">>
  BY <1>2 DEF Kind
<1>6. slot \in [Conns -> Nat] /\ nic \in [Conns -> {"idle", "reading", "read"}]
  BY <1>3 DEF StateType
<1> HIDE DEF c
<1>7. ASSUME NEW a, Replied(q, a)
      PROVE  /\ Asked' = Asked \ {q} /\ Answered' = Answered \cup {a}
             /\ \A p \in Asked' : p \in Asked /\ p # q /\ p.key # q.key
             /\ \A b \in Answered' : b \in Answered \/ b = a
             /\ a.key = q.key
             /\ \A k : Quiet(c, k) => Quiet(c, k)'
             /\ \A k : Quiet(c, k) => q.key # <<c, k>>
  <2>1. Asked' = Asked \ {q} /\ Answered' = Answered \cup {a} /\ a.key = q.key
    BY <1>7 DEF Replied
  <2>2. \A p \in Asked' : p \in Asked /\ p # q /\ p.key # q.key BY <1>1, <2>1, UniqueKeys DEF IInv
  <2>3. \A k : Quiet(c, k) => Quiet(c, k)' BY <1>1, <2>1 DEF Quiet
  <2>4. \A k : Quiet(c, k) => q.key # <<c, k>> BY <1>1 DEF Quiet
  <2> QED BY <2>1, <2>2, <2>3, <2>4
<1>8. CASE Refused(q)
  <2>1. PICK a : Replied(q, a) /\ ~Granted(a) BY <1>8 DEF Refused
  <2>2. slot' = slot /\ nic' = nic BY <1>8 DEF Refused
  <2>3. /\ \A p \in Asked' : p \in Asked
        /\ \A b \in Answered' : b \in Answered \/ b = a
        /\ \A k : Quiet(c, k) => Quiet(c, k)'
    BY <1>7, <2>1
  <2>4. Current(c)' /\ ReadyIdle(c)' /\ CopyHeld(c)'
    BY <1>3, <1>4, <2>2, <2>3 DEF ConnInv, Current, ReadyIdle, CopyHeld
  <2>5. LeaseOut(c)' BY <1>3, <1>4, <2>1, <2>2, <2>3 DEF ConnInv, LeaseOut
  <2>6. CancelOut(c)' BY <1>3, <1>4, <2>1, <2>2, <2>3 DEF ConnInv, CancelOut
  <2>7. SendOut(c)' BY <1>3, <1>4, <2>1, <2>2, <2>3 DEF ConnInv, SendOut
  <2> QED BY <2>4, <2>5, <2>6, <2>7 DEF ConnInv, c
<1>9. CASE Leased(q)
  <2>1. PICK a : Replied(q, a) BY <1>9 DEF Leased
  <2>2. nic' = nic /\ slot'[c] = id[c] /\ q.type = "lease"
    BY <1>2, <1>6, <1>9 DEF Leased, c
  <2>3. /\ \A p \in Asked' : p \in Asked
        /\ \A b \in Answered' : b \in Answered \/ b = a
        /\ \A k : Quiet(c, k) => Quiet(c, k)'
        /\ ~Quiet(c, "state") /\ a.key = <<c, "state">>
    BY <1>5, <1>7, <2>1, <2>2
  <2>4. Quiet(c, "op") /\ nic[c] = "idle" /\ phase[c] \notin {"ready", "copy", "copying"}
    BY <1>3, <2>3 DEF ConnInv, SendOut, ReadyIdle, CopyHeld
  <2>5. phase[c] # "cancelling" BY <1>1, <1>3, <1>5, <2>2 DEF ConnInv, CancelOut
  <2>6. Current(c)' /\ ReadyIdle(c)' /\ CopyHeld(c)'
    BY <1>3, <1>4, <2>2, <2>3, <2>4 DEF ConnInv, Current, ReadyIdle, CopyHeld
  <2>7. LeaseOut(c)' BY <1>3, <1>4, <2>2, <2>3, <2>4 DEF ConnInv, LeaseOut
  <2>8. CancelOut(c)' BY <1>3, <1>4, <2>2, <2>3, <2>4, <2>5 DEF ConnInv, CancelOut
  <2>9. SendOut(c)' BY <1>3, <1>4, <2>2, <2>3, <2>4 DEF SendOut, Quiet
  <2> QED BY <2>6, <2>7, <2>8, <2>9 DEF ConnInv, c
<1>10. CASE Cancelled(q)
  <2>1. PICK a : Replied(q, a) BY <1>10 DEF Cancelled
  <2>2. slot[c] \in {0, id[c]} BY <1>3 DEF ConnInv, Current
  <2>3. nic' = nic /\ slot'[c] = 0 /\ q.type = "cancel"
    BY <1>2, <1>6, <1>10, <2>2 DEF Cancelled, c
  <2>4. /\ \A p \in Asked' : p \in Asked
        /\ \A b \in Answered' : b \in Answered \/ b = a
        /\ \A k : Quiet(c, k) => Quiet(c, k)'
        /\ ~Quiet(c, "state") /\ a.key = <<c, "state">>
    BY <1>5, <1>7, <2>1, <2>3
  <2>5. Quiet(c, "op") /\ nic[c] = "idle" /\ phase[c] \notin {"ready", "copy", "copying"}
    BY <1>3, <2>4 DEF ConnInv, SendOut, ReadyIdle, CopyHeld
  <2>6. phase[c] # "lease" BY <1>1, <1>3, <1>5, <2>3 DEF ConnInv, LeaseOut
  <2>7. Current(c)' /\ ReadyIdle(c)' /\ CopyHeld(c)'
    BY <1>3, <1>4, <2>3, <2>4, <2>5 DEF ConnInv, Current, ReadyIdle, CopyHeld
  <2>8. LeaseOut(c)' BY <1>4, <2>6 DEF LeaseOut
  <2>9. CancelOut(c)' BY <1>3, <1>4, <2>3, <2>4, <2>5 DEF ConnInv, CancelOut
  <2>10. SendOut(c)' BY <1>3, <1>4, <2>3, <2>4, <2>5 DEF SendOut, Quiet
  <2> QED BY <2>7, <2>8, <2>9, <2>10 DEF ConnInv, c
<1>11. CASE SendOver(q)
  <2>1. PICK a : Replied(q, a) BY <1>11 DEF SendOver
  <2>2. nic'[c] = "idle" /\ slot'[c] = 0 /\ q.type = "send"
    BY <1>2, <1>6, <1>11 DEF SendOver, c
  <2>3. /\ \A p \in Asked' : p \in Asked /\ p.key # <<c, "op">>
        /\ \A b \in Answered' : b \in Answered \/ b = a
        /\ \A k : Quiet(c, k) => Quiet(c, k)'
        /\ ~Quiet(c, "op") /\ a.key = <<c, "op">>
    BY <1>5, <1>7, <2>1, <2>2
  <2>4. Quiet(c, "state") /\ content[c] = id[c] BY <1>3, <2>3 DEF ConnInv, SendOut
  <2>5. phase[c] \notin {"ready", "copy", "copying", "lease", "cancelling"}
    BY <1>3, <2>3 DEF ConnInv, ReadyIdle, CopyHeld, LeaseOut, CancelOut
  <2>6. Current(c)' /\ ReadyIdle(c)' /\ CopyHeld(c)'
    BY <1>3, <1>4, <2>2, <2>3, <2>5 DEF ConnInv, Current, ReadyIdle, CopyHeld
  <2>7. LeaseOut(c)' BY <1>4, <2>5 DEF LeaseOut
  <2>8. CancelOut(c)' BY <1>3, <1>4, <2>2, <2>3, <2>5 DEF ConnInv, CancelOut
  <2>9. SendOut(c)' BY <1>4, <2>2, <2>3, <2>4 DEF SendOut
  <2> QED BY <2>6, <2>7, <2>8, <2>9 DEF ConnInv, c
<1>12. CASE KeptBack(q)
  <2>1. Asked' = Asked /\ Answered' = Answered /\ slot' = slot
    BY <1>12 DEF KeptBack, SameMessages
  <2>2. \A k : Quiet(c, k)' <=> Quiet(c, k) BY <2>1 DEF Quiet
  <2>3. CASE nic' = nic
    <3>1. Current(c)' /\ ReadyIdle(c)' /\ CopyHeld(c)'
      BY <1>3, <1>4, <2>1, <2>2, <2>3 DEF ConnInv, Current, ReadyIdle, CopyHeld
    <3>2. LeaseOut(c)' BY <1>3, <1>4, <2>1, <2>2, <2>3 DEF ConnInv, LeaseOut
    <3>3. CancelOut(c)' BY <1>3, <1>4, <2>1, <2>2, <2>3 DEF ConnInv, CancelOut
    <3>4. SendOut(c)' BY <1>3, <1>4, <2>1, <2>2, <2>3 DEF ConnInv, SendOut
    <3> QED BY <3>1, <3>2, <3>3, <3>4 DEF ConnInv, c
  <2>4. CASE q.type = "send" /\ slot[q.conn] = q.id /\ nic' = [nic EXCEPT ![q.conn] = "reading"]
    <3>1. ~Quiet(c, "op") /\ slot[c] = id[c] /\ q.key = <<c, "op">>
      BY <1>1, <1>2, <1>5, <2>4 DEF Quiet, c
    <3>2. Quiet(c, "state") /\ content[c] = id[c] BY <1>3, <3>1 DEF ConnInv, SendOut
    <3>3. phase[c] \notin {"ready", "copy", "copying", "lease", "cancelling"}
      BY <1>3, <3>1 DEF ConnInv, ReadyIdle, CopyHeld, LeaseOut, CancelOut
    <3>4. \A a \in Answered : a.key # <<c, "op">> BY <1>1, <3>1, UniqueKeys DEF IInv
    <3>5. Current(c)' /\ ReadyIdle(c)' /\ CopyHeld(c)'
      BY <1>3, <1>4, <2>1, <3>3 DEF ConnInv, Current, ReadyIdle, CopyHeld
    <3>6. LeaseOut(c)' BY <1>4, <3>3 DEF LeaseOut
    <3>7. CancelOut(c)' BY <1>3, <1>4, <2>1, <2>2, <3>1, <3>3 DEF ConnInv, CancelOut
    <3>8. SendOut(c)' BY <1>4, <2>1, <2>2, <3>1, <3>2, <3>4 DEF SendOut
    <3> QED BY <3>5, <3>6, <3>7, <3>8 DEF ConnInv, c
  <2> QED BY <1>12, <2>3, <2>4 DEF KeptBack
<1> QED BY <1>8, <1>9, <1>10, <1>11, <1>12 DEF ServeStep

LEMMA ServeKeeps ==
  ASSUME IInv, MessageInv', NEW q, ServeStep(q)
  PROVE  IInv'
<1>1. q \in RequestSet /\ q \in Asked BY UniqueKeys DEF IInv, ServeStep
<1>2. /\ q.conn \in Conns /\ q.key = <<q.conn, Kind(q.type)>> /\ q.id \in Nat
  BY <1>1 DEF RequestSet
<1>3. StateType /\ ReleaseInv BY DEF IInv
<1>4. /\ UNCHANGED <<phase, id, status, writing, import, stop, releases, content, sock, peer, pool>>
      /\ peer = "open"
  BY DEF ServeStep, opVars, stopVars
<1>5. slot \in [Conns -> Nat] /\ nic \in [Conns -> {"idle", "reading", "read"}]
      /\ sourceReleased \in [Conns -> BOOLEAN]
  BY <1>3 DEF StateType
<1>6. StateType'
  <2>1. slot' \in [Conns -> Nat]
    BY <1>2, <1>5 DEF ServeStep, Refused, Leased, SendOver, Cancelled, KeptBack
  <2>2. nic' \in [Conns -> {"idle", "reading", "read"}]
    BY <1>2, <1>5 DEF ServeStep, Refused, Leased, SendOver, Cancelled, KeptBack
  <2>3. sourceReleased' \in [Conns -> BOOLEAN]
    <3>1. sourceReleased' = sourceReleased \/ sourceReleased' = [sourceReleased EXCEPT ![q.conn] = TRUE]
      BY DEF ServeStep, Refused, Leased, SendOver, Cancelled, KeptBack
    <3> QED BY <1>2, <1>5, <3>1
  <2> QED BY <1>3, <1>4, <2>1, <2>2, <2>3 DEF StateType
<1>7. /\ \A p \in Asked' : p \in Asked
      /\ \A a \in Answered' : a \in Answered \/ a.key = q.key
  BY DEF ServeStep, Refused, Leased, SendOver, Cancelled, KeptBack, Replied, SameMessages
<1>8. ASSUME NEW d \in Conns PROVE ConnInv(d)'
  <2>1. CASE d = q.conn BY <2>1, ServeConn
  <2>2. CASE d # q.conn
    <3>1. slot'[d] = slot[d] /\ nic'[d] = nic[d]
      BY <1>2, <1>5, <2>2 DEF ServeStep, Refused, Leased, SendOver, Cancelled, KeptBack
    <3>2. \A a \in Answered' : a \in Answered \/ \A k : a.key # <<d, k>>
      BY <1>2, <1>7, <2>2
    <3>3. ConnInv(d) BY DEF IInv
    <3>4. /\ phase'[d] = phase[d] /\ id'[d] = id[d] /\ writing'[d] = writing[d]
          /\ content'[d] = content[d] /\ sock' \in {sock, "closed"}
      BY <1>4
    <3> QED BY <1>3, <1>7, <3>1, <3>2, <3>3, <3>4, Frame
  <2> QED BY <2>1, <2>2
<1>9. ReleaseInv'
  <2>1. \A c \in Conns : releases'[c] = "none" => Quiet(c, "conn")'
    BY <1>1, <1>3, <1>4, <1>7 DEF ReleaseInv, Quiet
  <2>2. \A c \in Conns : sourceReleased'[c] => import' = "closed"
    <3>1. \/ sourceReleased' = sourceReleased
          \/ q.type = "release" /\ sourceReleased' = [sourceReleased EXCEPT ![q.conn] = TRUE]
      BY DEF ServeStep, Refused, Leased, SendOver, Cancelled, KeptBack
    <3> QED BY <1>1, <1>3, <1>4, <1>5, <3>1 DEF ReleaseInv
  <2>3. pool' = "live" BY <1>3, <1>4 DEF ReleaseInv
  <2> QED BY <1>3, <1>4, <1>7, <2>1, <2>2, <2>3 DEF ReleaseInv
<1> QED BY <1>6, <1>8, <1>9 DEF IInv

-----------------------------------------------------------------------------
(* The steps of the source *)

\* A step of the operation of connection c: it may ask for something, take an
\* answer or find the socket closed.
OpStep(c) ==
  /\ StateType' /\ MessageInv'
  /\ status[c] # "retired" /\ (status'[c] = "retired" => phase'[c] = "ready")
  /\ \A d \in Conns \ {c} :
       /\ status'[d] = status[d] /\ phase'[d] = phase[d]
       /\ id'[d] = id[d] /\ writing'[d] = writing[d]
  /\ \A q \in Asked' : q \in Asked \/ (q.conn = c /\ q.type # "release")
  /\ Answered' \subseteq Answered
  /\ sock' \in {sock, "closed"}
  /\ UNCHANGED <<stopVars, slot, content, nic, peer, sourceReleased, pool>>

LEMMA OpFrame ==
  ASSUME IInv, NEW c \in Conns, OpStep(c), ConnInv(c)'
  PROVE  IInv'
<1>1. StateType /\ ReleaseInv /\ StateType' /\ MessageInv' BY DEF IInv, OpStep
<1>2. ASSUME NEW d \in Conns, d # c PROVE ConnInv(d)'
  <2>1. /\ phase'[d] = phase[d] /\ id'[d] = id[d] /\ writing'[d] = writing[d]
        /\ slot'[d] = slot[d] /\ content'[d] = content[d] /\ nic'[d] = nic[d]
        /\ sock' \in {sock, "closed"}
    BY <1>2 DEF OpStep
  <2>2. \A q \in Asked' : q \in Asked \/ q.conn # d BY <1>2 DEF OpStep
  <2>3. \A a \in Answered' : a \in Answered BY DEF OpStep
  <2>4. ConnInv(d) BY DEF IInv
  <2> QED BY <1>1, <2>1, <2>2, <2>3, <2>4, Frame
<1>3. ReleaseInv'
  <2>1. UNCHANGED <<import, stop, releases, nic, peer, sourceReleased, pool>>
    BY DEF OpStep, stopVars
  <2>2. import # "closed" BY <1>1 DEF ReleaseInv, OpStep
  <2>3. \A d \in Conns : status'[d] = "retired" => phase'[d] = "ready"
    BY <1>1 DEF ReleaseInv, OpStep
  <2>4. \A q \in Asked' : q \in Asked \/ q.type # "release" BY DEF OpStep
  <2>5. \A q \in Asked' : \A d : q.key = <<d, "conn">> => q \in Asked
    <3>1. \A q \in Asked' : q \in RequestSet BY <1>1, UniqueKeysNext
    <3> QED BY <2>4, <3>1 DEF RequestSet, Kind, RequestType
  <2>6. \A d \in Conns : releases'[d] = "none" => Quiet(d, "conn")'
    BY <1>1, <2>1, <2>5 DEF ReleaseInv, Quiet, OpStep
  <2>7. pool' # "live" => peer' = "closed" BY <1>1, <2>1 DEF ReleaseInv
  <2>8. pool' # "freed" BY <1>1, <2>1, <2>2 DEF ReleaseInv
  <2>9. stop' # "releasing" /\ import' # "closed" BY <1>1, <2>1, <2>2 DEF ReleaseInv
  <2>10. \A d \in Conns : ~sourceReleased'[d] BY <1>1, <2>1, <2>2 DEF ReleaseInv
  <2>11. \A q \in Asked' : q.type # "release" BY <1>1, <2>2, <2>4 DEF ReleaseInv
  <2> QED BY <2>3, <2>6, <2>7, <2>8, <2>9, <2>10, <2>11 DEF ReleaseInv
<1> QED BY <1>1, <1>2, <1>3 DEF IInv

LEMMA RequestIs ==
  ASSUME StateType, NEW c \in Conns, NEW t \in RequestType, NEW k, k = Kind(t)
  PROVE  /\ Request(t, c, k) \in RequestSet /\ Request(t, c, k).key = <<c, k>>
         /\ Request(t, c, k).type = t /\ Request(t, c, k).conn = c /\ Request(t, c, k).id = id[c]
<1>1. k \in {"state", "op", "conn"} BY DEF Kind
<1>2. id[c] \in Nat BY DEF StateType
<1> QED BY <1>1, <1>2 DEF Request, RequestSet, KeySet

LEMMA LeaseStep ==
  ASSUME IInv, NEW c \in Conns, Lease(c)
  PROVE  IInv'
<1>1. StateType /\ MessageInv /\ ConnInv(c) BY DEF IInv
<1>2. PICK ok \in BOOLEAN : /\ GoTo(c, Publish(c, "lease", ok))
                           /\ Call(Request("lease", c, "state"), ok)
                           /\ IF ok THEN UNCHANGED <<status, asyncError>> ELSE Fail(c)
  BY DEF Lease
<1> DEFINE r == Request("lease", c, "state")
<1>3. /\ status[c] = "running" /\ phase[c] = "ready"
      /\ UNCHANGED <<id, writing, stopVars, pending, slot, content, nic, peer, sourceReleased, pool>>
  BY DEF Lease, Running, relayVars
<1>4. /\ r \in RequestSet /\ r.key = <<c, "state">> /\ r.type = "lease" /\ r.conn = c
      /\ r.id = id[c]
  BY <1>1, RequestIs DEF RequestType, Kind
<1> HIDE DEF r
<1>5. Quiet(c, "state") /\ Quiet(c, "op") /\ slot[c] = 0 /\ nic[c] = "idle"
  BY <1>1, <1>3 DEF ConnInv, ReadyIdle
<1>6. /\ MessageInv' /\ Answered' = Answered /\ sock' \in {sock, "closed"}
      /\ Asked' = Asked \/ Asked' = Asked \cup {r}
  BY <1>1, <1>2, <1>3, <1>4, <1>5, CallEffect DEF r
<1>7. /\ phase' = [phase EXCEPT ![c] = "lease"]
      /\ status' = status \/ status' = [status EXCEPT ![c] = "failed"]
  BY <1>2 DEF GoTo, Publish, Fail
<1>8. StateType' BY <1>1, <1>3, <1>6, <1>7 DEF StateType, Phase, stopVars
<1>9. OpStep(c)
  <2>1. \A q \in Asked' : q \in Asked \/ (q.conn = c /\ q.type # "release") BY <1>4, <1>6
  <2>2. status'[c] # "retired" BY <1>1, <1>3, <1>7 DEF StateType
  <2>3. \A d \in Conns \ {c} : status'[d] = status[d] /\ phase'[d] = phase[d]
    BY <1>1, <1>7 DEF StateType
  <2> QED BY <1>3, <1>6, <1>8, <2>1, <2>2, <2>3 DEF OpStep
<1>10. ConnInv(c)'
  <2>1. phase'[c] = "lease" /\ ~writing[c] BY <1>1, <1>3, <1>7 DEF StateType, ConnInv, CopyHeld
  <2>2. UNCHANGED <<id, writing, slot, content, nic>> BY <1>3
  <2>3. Quiet(c, "op")' BY <1>4, <1>5, <1>6 DEF Quiet
  <2>4. Current(c)' BY <1>1, <1>4, <1>6, <2>2 DEF ConnInv, Current
  <2>5. LeaseOut(c)' BY <1>4, <1>5, <1>6, <2>2, <2>3 DEF LeaseOut, Quiet
  <2>6. SendOut(c)' BY <1>5, <2>2, <2>3 DEF SendOut, Quiet
  <2> QED BY <2>1, <2>2, <2>4, <2>5, <2>6 DEF ConnInv, ReadyIdle, CopyHeld, CancelOut
<1> QED BY <1>9, <1>10, OpFrame

LEMMA LeaseReplyStep ==
  ASSUME IInv, NEW c \in Conns, LeaseReply(c)
  PROVE  IInv'
<1>1. StateType /\ MessageInv /\ ConnInv(c) BY DEF IInv
<1>2. PICK a \in cached : /\ Take(c, "state", a)
                          /\ GoTo(c, IF a.ok /\ a.val = 1 THEN "copy" ELSE "cancel")
  BY DEF LeaseReply
<1>3. /\ status[c] = "running" /\ phase[c] = "lease"
      /\ UNCHANGED <<id, status, writing, stopVars, sock, reqs, resps, pending, slot, content, nic,
                     peer, sourceReleased, pool>>
  BY DEF LeaseReply, Running, relayVars
<1>4. /\ MessageInv' /\ Asked' = Asked /\ Answered' \subseteq Answered
      /\ a \in Answered /\ a.key = <<c, "state">> /\ Quiet(c, "state")'
  BY <1>1, <1>2, <1>3, TakeEffect
<1>5. Quiet(c, "op") /\ nic[c] = "idle" /\ (Granted(a) => slot[c] = id[c])
  BY <1>1, <1>3, <1>4 DEF ConnInv, LeaseOut
<1>6. phase' = [phase EXCEPT ![c] = IF Granted(a) THEN "copy" ELSE "cancel"]
  BY <1>2 DEF GoTo, Granted
<1>7. phase' \in [Conns -> Phase] /\ phase'[c] = IF Granted(a) THEN "copy" ELSE "cancel"
  BY <1>1, <1>6 DEF StateType, Phase
<1>8. StateType' BY <1>1, <1>3, <1>7 DEF StateType, stopVars
<1>9. \A d \in Conns \ {c} : phase'[d] = phase[d] BY <1>1, <1>6 DEF StateType
<1>10. OpStep(c) BY <1>3, <1>4, <1>8, <1>9 DEF OpStep
<1>11. ConnInv(c)'
  <2>1. ~writing[c] BY <1>1, <1>3 DEF ConnInv, CopyHeld
  <2>2. UNCHANGED <<id, writing, slot, content, nic, sock>> BY <1>3
  <2>3. Quiet(c, "op")' BY <1>4, <1>5 DEF Quiet
  <2>4. Current(c)' BY <1>1, <1>4, <2>2 DEF ConnInv, Current
  <2>5. CopyHeld(c)' BY <1>4, <1>5, <1>7, <2>1, <2>2, <2>3 DEF CopyHeld
  <2>6. CancelOut(c)' BY <1>4, <1>5, <1>7, <2>2, <2>3 DEF CancelOut
  <2>7. SendOut(c)' BY <1>5, <2>2, <2>3 DEF SendOut, Quiet
  <2> QED BY <1>7, <2>4, <2>5, <2>6, <2>7 DEF ConnInv, ReadyIdle, LeaseOut
<1> QED BY <1>10, <1>11, OpFrame

LEMMA CopyStep ==
  ASSUME IInv, NEW c \in Conns, Copy(c)
  PROVE  IInv'
<1>1. StateType /\ MessageInv /\ ConnInv(c) BY DEF IInv
<1>2. /\ status[c] = "running" /\ phase[c] = "copy"
      /\ UNCHANGED <<id, stopVars, sock, reqs, resps, cached, pending, slot, content, nic, peer,
                     sourceReleased, pool>>
  BY DEF Copy, Running, relayVars, rpcVars
<1>3. MessageInv' /\ Asked' = Asked /\ Answered' = Answered
  BY <1>1, <1>2, SameEffect DEF SameMessages
<1>4. \/ /\ phase' = [phase EXCEPT ![c] = "copying"] /\ writing' = [writing EXCEPT ![c] = TRUE]
         /\ status' = status
      \/ status' = [status EXCEPT ![c] = "failed"] /\ UNCHANGED <<phase, writing>>
  BY DEF Copy, GoTo, Fail
<1>5. phase' \in [Conns -> Phase] BY <1>1, <1>4 DEF StateType, Phase
<1>6. writing' \in [Conns -> BOOLEAN]
  <2>1. writing \in [Conns -> BOOLEAN] BY <1>1 DEF StateType
  <2> QED BY <1>4, <2>1
<1>7. status' \in [Conns -> {"running", "failed", "done", "retired", "retained"}]
  BY <1>1, <1>4 DEF StateType
<1>8. StateType' BY <1>1, <1>2, <1>5, <1>6, <1>7 DEF StateType, stopVars
<1>9. OpStep(c)
  <2>1. \A d \in Conns \ {c} :
          status'[d] = status[d] /\ phase'[d] = phase[d] /\ writing'[d] = writing[d]
    BY <1>1, <1>4 DEF StateType
  <2>2. status'[c] # "retired" BY <1>1, <1>2, <1>4 DEF StateType
  <2> QED BY <1>2, <1>3, <1>8, <2>1, <2>2 DEF OpStep
<1>10. ConnInv(c)'
  <2>1. /\ Quiet(c, "state") /\ Quiet(c, "op") /\ slot[c] = id[c] /\ nic[c] = "idle"
        /\ ~writing[c]
    BY <1>1, <1>2 DEF ConnInv, CopyHeld
  <2>2. UNCHANGED <<id, slot, content, nic, sock>> BY <1>2
  <2>3. Quiet(c, "op")' /\ Quiet(c, "state")' BY <1>3, <2>1 DEF Quiet
  <2>4. (phase'[c] = "copy" /\ ~writing'[c]) \/ (phase'[c] = "copying" /\ writing'[c])
    <3>1. phase \in [Conns -> Phase] /\ writing \in [Conns -> BOOLEAN] BY <1>1 DEF StateType
    <3>2. CASE phase' = [phase EXCEPT ![c] = "copying"] /\ writing' = [writing EXCEPT ![c] = TRUE]
      <4>1. phase'[c] = "copying" /\ writing'[c] = TRUE BY <3>1, <3>2
      <4> QED BY <4>1
    <3>3. CASE UNCHANGED <<phase, writing>> BY <1>2, <2>1, <3>3
    <3> QED BY <1>4, <3>2, <3>3
  <2>5. Current(c)' BY <1>1, <1>3, <2>2 DEF ConnInv, Current
  <2>6. CopyHeld(c)' BY <2>1, <2>2, <2>3, <2>4 DEF CopyHeld
  <2>7. SendOut(c)' BY <2>1, <2>2, <2>3 DEF SendOut, Quiet
  <2> QED BY <2>4, <2>5, <2>6, <2>7 DEF ConnInv, ReadyIdle, LeaseOut, CancelOut
<1> QED BY <1>9, <1>10, OpFrame

LEMMA CopyLandsStep ==
  ASSUME IInv, NEW c \in Conns, CopyLands(c)
  PROVE  IInv'
<1>1. StateType /\ MessageInv /\ ConnInv(c) /\ ReleaseInv BY DEF IInv
<1>2. /\ writing[c] /\ writing' = [writing EXCEPT ![c] = FALSE]
      /\ content' = [content EXCEPT ![c] = id[c]]
      /\ UNCHANGED <<phase, id, status, stopVars, sock, reqs, resps, cached, pending, slot, nic, peer,
                     sourceReleased, pool>>
  BY DEF CopyLands, rpcVars
<1>3. MessageInv' /\ Asked' = Asked /\ Answered' = Answered
  BY <1>1, <1>2, SameEffect DEF SameMessages
<1>4. /\ writing \in [Conns -> BOOLEAN] /\ content \in [Conns -> Nat] /\ id[c] \in Nat
  BY <1>1 DEF StateType
<1>5. writing' \in [Conns -> BOOLEAN] /\ content' \in [Conns -> Nat] BY <1>2, <1>4
<1>6. StateType' BY <1>1, <1>2, <1>5 DEF StateType, stopVars
<1>7. writing'[c] = FALSE /\ content'[c] = id[c] BY <1>2, <1>4
<1>8. ConnInv(c)'
  <2>1. /\ phase[c] = "copying" /\ Quiet(c, "state") /\ Quiet(c, "op") /\ slot[c] = id[c]
        /\ nic[c] = "idle"
    BY <1>1, <1>2 DEF ConnInv, CopyHeld
  <2>2. Quiet(c, "op")' /\ Quiet(c, "state")' BY <1>3, <2>1 DEF Quiet
  <2>3. UNCHANGED <<id, phase, slot, nic, sock>> BY <1>2
  <2>4. Current(c)' BY <1>1, <1>3, <2>3 DEF ConnInv, Current
  <2>5. CopyHeld(c)' BY <1>7, <2>1, <2>2, <2>3 DEF CopyHeld
  <2>6. SendOut(c)' BY <2>1, <2>2, <2>3 DEF SendOut, Quiet
  <2> QED BY <2>1, <2>3, <2>4, <2>5, <2>6 DEF ConnInv, ReadyIdle, LeaseOut, CancelOut
<1>9. ASSUME NEW d \in Conns, d # c PROVE ConnInv(d)'
  <2>1. /\ phase'[d] = phase[d] /\ id'[d] = id[d] /\ writing'[d] = writing[d]
        /\ slot'[d] = slot[d] /\ content'[d] = content[d] /\ nic'[d] = nic[d]
        /\ sock' \in {sock, "closed"}
    BY <1>2, <1>4, <1>9
  <2>2. ConnInv(d) BY DEF IInv
  <2> QED BY <1>1, <1>3, <2>1, <2>2, Frame
<1>10. ReleaseInv' BY <1>1, <1>2, <1>3 DEF ReleaseInv, Quiet, stopVars
<1> QED BY <1>3, <1>6, <1>8, <1>9, <1>10 DEF IInv

LEMMA SendStep ==
  ASSUME IInv, NEW c \in Conns, Send(c)
  PROVE  IInv'
<1>1. StateType /\ MessageInv /\ ConnInv(c) BY DEF IInv
<1>2. PICK ok \in BOOLEAN : /\ GoTo(c, Publish(c, "send", ok))
                           /\ Call(Request("send", c, "op"), ok)
                           /\ IF ok THEN UNCHANGED <<status, asyncError>> ELSE Fail(c)
  BY DEF Send
<1> DEFINE r == Request("send", c, "op")
<1>3. /\ status[c] = "running" /\ phase[c] = "copying" /\ ~writing[c]
      /\ UNCHANGED <<id, writing, stopVars, pending, slot, content, nic, peer, sourceReleased, pool>>
  BY DEF Send, Running, CopyCompleted, relayVars
<1>4. /\ r \in RequestSet /\ r.key = <<c, "op">> /\ r.type = "send" /\ r.conn = c
      /\ r.id = id[c]
  BY <1>1, RequestIs DEF RequestType, Kind
<1> HIDE DEF r
<1>5. /\ Quiet(c, "state") /\ Quiet(c, "op") /\ slot[c] = id[c] /\ nic[c] = "idle"
      /\ content[c] = id[c]
  BY <1>1, <1>3 DEF ConnInv, CopyHeld
<1>6. /\ MessageInv' /\ Answered' = Answered /\ sock' \in {sock, "closed"}
      /\ Asked' = Asked \/ Asked' = Asked \cup {r}
  BY <1>1, <1>2, <1>3, <1>4, <1>5, CallEffect DEF r
<1>7. /\ phase' = [phase EXCEPT ![c] = "send"]
      /\ status' = status \/ status' = [status EXCEPT ![c] = "failed"]
  BY <1>2 DEF GoTo, Publish, Fail
<1>8. StateType' BY <1>1, <1>3, <1>6, <1>7 DEF StateType, Phase, stopVars
<1>9. OpStep(c)
  <2>1. \A q \in Asked' : q \in Asked \/ (q.conn = c /\ q.type # "release") BY <1>4, <1>6
  <2>2. status'[c] # "retired" BY <1>1, <1>3, <1>7 DEF StateType
  <2>3. \A d \in Conns \ {c} : status'[d] = status[d] /\ phase'[d] = phase[d]
    BY <1>1, <1>7 DEF StateType
  <2> QED BY <1>3, <1>6, <1>8, <2>1, <2>2, <2>3 DEF OpStep
<1>10. ConnInv(c)'
  <2>1. phase'[c] = "send" BY <1>1, <1>7 DEF StateType
  <2>2. UNCHANGED <<id, writing, slot, content, nic>> BY <1>3
  <2>3. Quiet(c, "state")' BY <1>4, <1>5, <1>6 DEF Quiet
  <2>4. Current(c)' BY <1>1, <1>4, <1>6, <2>2 DEF ConnInv, Current
  <2>5. SendOut(c)' BY <1>4, <1>5, <1>6, <2>2, <2>3 DEF SendOut, Quiet
  <2> QED BY <1>3, <2>1, <2>2, <2>4, <2>5 DEF ConnInv, ReadyIdle, CopyHeld, LeaseOut, CancelOut
<1> QED BY <1>9, <1>10, OpFrame

LEMMA SendReplyStep ==
  ASSUME IInv, NEW c \in Conns, SendReply(c)
  PROVE  IInv'
<1>1. StateType /\ MessageInv /\ ConnInv(c) BY DEF IInv
<1>2. PICK a \in cached :
        /\ Take(c, "op", a)
        /\ IF a.ok /\ a.val = 1
             THEN /\ GoTo(c, "ready")
                  /\ IF id[c] = Chunks[c]
                       THEN status' = [status EXCEPT ![c] = "done"] /\ UNCHANGED id
                       ELSE id' = [id EXCEPT ![c] = @ + 1] /\ UNCHANGED status
                  /\ UNCHANGED asyncError
             ELSE Fail(c) /\ UNCHANGED <<phase, id>>
  BY DEF SendReply
<1>3. /\ status[c] = "running" /\ phase[c] = "send"
      /\ UNCHANGED <<writing, stopVars, sock, reqs, resps, pending, slot, content, nic,
                     peer, sourceReleased, pool>>
  BY DEF SendReply, Running, relayVars
<1>4. /\ MessageInv' /\ Asked' = Asked /\ Answered' \subseteq Answered
      /\ a \in Answered /\ a.key = <<c, "op">> /\ Quiet(c, "op")'
  BY <1>1, <1>2, <1>3, TakeEffect
<1>5. /\ Quiet(c, "state") /\ content[c] = id[c] /\ ~writing[c]
      /\ Granted(a) => slot[c] = 0 /\ nic[c] = "idle"
  BY <1>1, <1>3, <1>4 DEF ConnInv, SendOut, CopyHeld, Quiet
<1>6. Quiet(c, "state")' BY <1>4, <1>5 DEF Quiet
<1>7. /\ status' \in {status, [status EXCEPT ![c] = "done"], [status EXCEPT ![c] = "failed"]}
      /\ Granted(a) => /\ phase' = [phase EXCEPT ![c] = "ready"]
                       /\ id' \in {id, [id EXCEPT ![c] = @ + 1]}
      /\ ~Granted(a) => UNCHANGED <<phase, id>>
  BY <1>2 DEF GoTo, Granted, Fail
<1>8. id' \in [Conns -> Nat] /\ \A d \in Conns \ {c} : id'[d] = id[d]
  BY <1>1, <1>7 DEF StateType
<1>9. phase' \in [Conns -> Phase] /\ \A d \in Conns \ {c} : phase'[d] = phase[d]
  BY <1>1, <1>7 DEF StateType, Phase
<1>10. /\ status' \in [Conns -> {"running", "failed", "done", "retired", "retained"}]
       /\ \A d \in Conns \ {c} : status'[d] = status[d]
       /\ status'[c] # "retired"
  BY <1>1, <1>3, <1>7 DEF StateType
<1>11. StateType' BY <1>1, <1>3, <1>8, <1>9, <1>10 DEF StateType, stopVars
<1>12. OpStep(c) BY <1>3, <1>4, <1>8, <1>9, <1>10, <1>11 DEF OpStep
<1>13. ConnInv(c)'
  <2>1. UNCHANGED <<writing, slot, content, nic, sock>> BY <1>3
  <2>2. CASE Granted(a)
    <3>1. phase'[c] = "ready" /\ slot[c] = 0 /\ nic[c] = "idle"
      BY <1>1, <1>5, <1>7, <2>2 DEF StateType
    <3>2. \A q \in Asked' : q.conn = c => q.type = "release"
      <4>1. \A q \in Asked' : q \in RequestSet BY <1>4, UniqueKeysNext
      <4> QED BY <1>4, <1>6, <4>1 DEF Quiet, RequestSet, Kind, RequestType
    <3>3. Current(c)' BY <2>1, <3>1, <3>2 DEF Current
    <3>4. SendOut(c)' BY <1>4, <2>1, <3>1 DEF SendOut, Quiet
    <3> QED BY <1>4, <1>5, <1>6, <2>1, <3>1, <3>3, <3>4
            DEF ConnInv, ReadyIdle, CopyHeld, LeaseOut, CancelOut
  <2>3. CASE ~Granted(a)
    <3>1. UNCHANGED <<phase, id>> BY <1>7, <2>3
    <3>2. Current(c)' BY <1>1, <1>4, <2>1, <3>1 DEF ConnInv, Current
    <3>3. SendOut(c)' BY <1>1, <1>4, <1>5, <1>6, <2>1, <3>1 DEF ConnInv, SendOut
    <3> QED BY <1>3, <1>5, <2>1, <3>1, <3>2, <3>3
            DEF ConnInv, ReadyIdle, CopyHeld, LeaseOut, CancelOut
  <2> QED BY <2>2, <2>3
<1> QED BY <1>12, <1>13, OpFrame

LEMMA ReplyLostStep ==
  ASSUME IInv, NEW c \in Conns, ReplyLost(c)
  PROVE  IInv'
<1>1. StateType /\ MessageInv /\ ConnInv(c) BY DEF IInv
<1>2. /\ status[c] = "running" /\ phase[c] \in {"lease", "send"} /\ sock' = "closed"
      /\ UNCHANGED <<id, status, writing, stopVars, reqs, resps, cached, pending, slot, content, nic,
                     peer, sourceReleased, pool>>
  BY DEF ReplyLost, Running, NoAnswer, relayVars
<1>3. MessageInv' /\ Asked' = Asked /\ Answered' = Answered
  BY <1>1, <1>2, SameEffect DEF SameMessages
<1>4. phase' = [phase EXCEPT ![c] = "cancel"] BY DEF ReplyLost, GoTo
<1>5. StateType' BY <1>1, <1>2, <1>4 DEF StateType, Phase, stopVars
<1>6. OpStep(c)
  <2>1. \A d \in Conns \ {c} : phase'[d] = phase[d] BY <1>1, <1>4 DEF StateType
  <2> QED BY <1>2, <1>3, <1>5, <2>1 DEF OpStep
<1>7. ConnInv(c)'
  <2>1. phase'[c] = "cancel" BY <1>1, <1>4 DEF StateType
  <2>2. UNCHANGED <<id, writing, slot, content, nic>> BY <1>2
  <2>3. Current(c)' BY <1>1, <1>3, <2>2 DEF ConnInv, Current
  <2>4. CopyHeld(c)' BY <1>1, <1>2, <2>1, <2>2 DEF ConnInv, CopyHeld
  <2>5. SendOut(c)' BY <1>1, <1>3, <2>2 DEF ConnInv, SendOut, Quiet
  <2> QED BY <1>2, <2>1, <2>3, <2>4, <2>5 DEF ConnInv, ReadyIdle, LeaseOut, CancelOut
<1> QED BY <1>6, <1>7, OpFrame

LEMMA CancelStep ==
  ASSUME IInv, NEW c \in Conns, Cancel(c)
  PROVE  IInv'
<1>1. StateType /\ MessageInv /\ ConnInv(c) BY DEF IInv
<1>2. PICK ok \in BOOLEAN :
        /\ Call(Request("cancel", c, "state"), ok)
        /\ IF ok THEN GoTo(c, "cancelling") /\ UNCHANGED <<status, asyncError>>
                 ELSE GoTo(c, "send") /\ Fail(c)
  BY DEF Cancel
<1> DEFINE r == Request("cancel", c, "state")
<1>3. /\ status[c] = "running" /\ phase[c] = "cancel"
      /\ UNCHANGED <<id, writing, stopVars, pending, slot, content, nic, peer, sourceReleased, pool>>
  BY DEF Cancel, Running, relayVars
<1>4. /\ r \in RequestSet /\ r.key = <<c, "state">> /\ r.type = "cancel" /\ r.conn = c
      /\ r.id = id[c]
  BY <1>1, RequestIs DEF RequestType, Kind
<1> HIDE DEF r
<1>5. sock = "open" => Quiet(c, "state") /\ Quiet(c, "op") /\ nic[c] = "idle"
  BY <1>1, <1>3 DEF ConnInv, CancelOut
<1>6. /\ MessageInv' /\ Answered' = Answered /\ sock' \in {sock, "closed"}
      /\ Asked' = Asked \/ (sock = "open" /\ Asked' = Asked \cup {r})
      /\ ok => sock = "open"
  BY <1>1, <1>2, <1>3, <1>4, <1>5, CallEffect DEF r
<1>7. \/ ok /\ phase' = [phase EXCEPT ![c] = "cancelling"] /\ status' = status
      \/ phase' = [phase EXCEPT ![c] = "send"] /\ status' = [status EXCEPT ![c] = "failed"]
  BY <1>2 DEF GoTo, Fail
<1>8. StateType' BY <1>1, <1>3, <1>6, <1>7 DEF StateType, Phase, stopVars
<1>9. OpStep(c)
  <2>1. \A q \in Asked' : q \in Asked \/ (q.conn = c /\ q.type # "release") BY <1>4, <1>6
  <2>2. status'[c] # "retired" BY <1>1, <1>3, <1>7 DEF StateType
  <2>3. \A d \in Conns \ {c} : status'[d] = status[d] /\ phase'[d] = phase[d]
    BY <1>1, <1>7 DEF StateType
  <2> QED BY <1>3, <1>6, <1>8, <2>1, <2>2, <2>3 DEF OpStep
<1>10. ConnInv(c)'
  <2>1. phase'[c] = "send" \/ (phase'[c] = "cancelling" /\ sock = "open")
    BY <1>1, <1>6, <1>7 DEF StateType
  <2>2. UNCHANGED <<id, writing, slot, content, nic>> /\ ~writing[c]
    BY <1>1, <1>3 DEF ConnInv, CopyHeld
  <2>3. Current(c)' BY <1>1, <1>4, <1>6, <2>2 DEF ConnInv, Current
  <2>4. CopyHeld(c)' BY <2>1, <2>2 DEF CopyHeld
  <2>5. CASE sock = "open"
    <3>1. Quiet(c, "op")' BY <1>4, <1>5, <1>6, <2>5 DEF Quiet
    <3>2. CancelOut(c)' BY <1>4, <1>5, <1>6, <2>1, <2>2, <2>5, <3>1 DEF CancelOut, Quiet
    <3>3. SendOut(c)' BY <1>5, <2>2, <2>5, <3>1 DEF SendOut, Quiet
    <3> QED BY <2>1, <2>3, <2>4, <3>2, <3>3 DEF ConnInv, ReadyIdle, LeaseOut
  <2>6. CASE sock # "open"
    <3>1. phase'[c] = "send" /\ Asked' = Asked BY <1>6, <2>1, <2>6
    <3>2. SendOut(c)' BY <1>1, <1>6, <2>2, <3>1 DEF ConnInv, SendOut, Quiet
    <3> QED BY <2>3, <2>4, <3>1, <3>2 DEF ConnInv, ReadyIdle, LeaseOut, CancelOut
  <2> QED BY <2>5, <2>6
<1> QED BY <1>9, <1>10, OpFrame

\* The answer to a cancel, or none.
LEMMA CancelReplyStep ==
  ASSUME IInv, NEW c \in Conns, CancelReply(c)
  PROVE  IInv'
<1>1. StateType /\ MessageInv /\ ConnInv(c) BY DEF IInv
<1>2. PICK a \in cached :
        /\ Take(c, "state", a)
        /\ IF a.ok /\ a.val = 1
             THEN GoTo(c, "ready") /\ expected' = expected \ {<<c, "op">>}
             ELSE GoTo(c, "send") /\ UNCHANGED expected
  BY DEF CancelReply
<1>3. /\ status[c] = "running" /\ phase[c] = "cancelling"
      /\ status' = [status EXCEPT ![c] = "failed"]
      /\ UNCHANGED <<id, writing, stopVars, sock, reqs, resps, pending, slot, content, nic,
                     peer, sourceReleased, pool>>
  BY DEF CancelReply, Running, Fail, relayVars
<1>4. /\ MessageInv' /\ Asked' = Asked /\ Answered' \subseteq Answered
      /\ a \in Answered /\ a.key = <<c, "state">> /\ Quiet(c, "state")'
  BY <1>1, <1>2, <1>3, TakeEffect
<1>5. Quiet(c, "op") /\ nic[c] = "idle" /\ (Granted(a) => slot[c] = 0)
  BY <1>1, <1>3, <1>4 DEF ConnInv, CancelOut
<1>6. phase' = [phase EXCEPT ![c] = IF Granted(a) THEN "ready" ELSE "send"]
  BY <1>2 DEF GoTo, Granted
<1>7. phase' \in [Conns -> Phase] /\ phase'[c] = IF Granted(a) THEN "ready" ELSE "send"
  BY <1>1, <1>6 DEF StateType, Phase
<1>8. StateType' BY <1>1, <1>3, <1>7 DEF StateType, stopVars
<1>9. OpStep(c)
  <2>1. \A d \in Conns \ {c} : phase'[d] = phase[d] /\ status'[d] = status[d]
    BY <1>1, <1>3, <1>6 DEF StateType
  <2>2. status'[c] # "retired" BY <1>1, <1>3 DEF StateType
  <2> QED BY <1>3, <1>4, <1>8, <2>1, <2>2 DEF OpStep
<1>10. ConnInv(c)'
  <2>1. UNCHANGED <<id, writing, slot, content, nic, sock>> /\ ~writing[c]
    BY <1>1, <1>3 DEF ConnInv, CopyHeld
  <2>2. Quiet(c, "op")' BY <1>4, <1>5 DEF Quiet
  <2>3. Current(c)' BY <1>1, <1>4, <2>1 DEF ConnInv, Current
  <2>4. ReadyIdle(c)' BY <1>4, <1>5, <1>7, <2>1, <2>2 DEF ReadyIdle
  <2>5. SendOut(c)' BY <1>5, <2>1, <2>2 DEF SendOut, Quiet
  <2> QED BY <1>7, <2>1, <2>3, <2>4, <2>5 DEF ConnInv, CopyHeld, LeaseOut, CancelOut
<1> QED BY <1>9, <1>10, OpFrame

LEMMA CancelLostStep ==
  ASSUME IInv, NEW c \in Conns, CancelLost(c)
  PROVE  IInv'
<1>1. StateType /\ MessageInv /\ ConnInv(c) BY DEF IInv
<1>2. /\ status[c] = "running" /\ phase[c] = "cancelling" /\ sock' \in {sock, "closed"}
      /\ status' = [status EXCEPT ![c] = "failed"] /\ phase' = [phase EXCEPT ![c] = "send"]
      /\ UNCHANGED <<id, writing, stopVars, reqs, resps, cached, pending, slot, content, nic,
                     peer, sourceReleased, pool>>
  BY DEF CancelLost, Running, NoAnswer, Fail, GoTo, relayVars, rpcVars
<1>3. MessageInv' /\ Asked' = Asked /\ Answered' = Answered
  BY <1>1, <1>2, SameEffect DEF SameMessages
<1>4. StateType' BY <1>1, <1>2 DEF StateType, Phase, stopVars
<1>5. OpStep(c)
  <2>1. \A d \in Conns \ {c} : phase'[d] = phase[d] /\ status'[d] = status[d]
    BY <1>1, <1>2 DEF StateType
  <2>2. status'[c] # "retired" BY <1>1, <1>2 DEF StateType
  <2> QED BY <1>2, <1>3, <1>4, <2>1, <2>2 DEF OpStep
<1>6. ConnInv(c)'
  <2>1. phase'[c] = "send" /\ ~writing[c] BY <1>1, <1>2 DEF StateType, ConnInv, CopyHeld
  <2>2. UNCHANGED <<id, writing, slot, content, nic>> BY <1>2
  <2>3. Current(c)' BY <1>1, <1>3, <2>2 DEF ConnInv, Current
  <2>4. SendOut(c)' BY <1>1, <1>3, <2>2 DEF ConnInv, SendOut, Quiet
  <2> QED BY <2>1, <2>2, <2>3, <2>4 DEF ConnInv, ReadyIdle, CopyHeld, LeaseOut, CancelOut
<1> QED BY <1>5, <1>6, OpFrame

\* An operation leaves: it fails with another one, is retired or abandoned.
LEMMA LeaveStep ==
  ASSUME IInv, NEW c \in Conns, FailOther(c) \/ Retire(c) \/ Abandon(c)
  PROVE  IInv'
<1>1. StateType /\ MessageInv /\ ConnInv(c) BY DEF IInv
<1>2. UNCHANGED <<phase, id, writing, stopVars, sock, reqs, resps, cached, pending, slot, content,
                  nic, peer, sourceReleased, pool>>
  BY DEF FailOther, Retire, Abandon, rpcVars, relayVars
<1>3. /\ status[c] # "retired"
      /\ \/ status' = [status EXCEPT ![c] = "failed"]
         \/ status' = [status EXCEPT ![c] = "retained"]
         \/ status' = [status EXCEPT ![c] = "retired"] /\ phase[c] = "ready"
  BY DEF FailOther, Retire, Abandon, Certain
<1>4. MessageInv' /\ Asked' = Asked /\ Answered' = Answered
  BY <1>1, <1>2, SameEffect DEF SameMessages
<1>5. StateType' BY <1>1, <1>2, <1>3 DEF StateType, stopVars
<1>6. OpStep(c)
  <2>1. \A d \in Conns \ {c} : status'[d] = status[d] BY <1>1, <1>3 DEF StateType
  <2>2. status'[c] = "retired" => phase'[c] = "ready" BY <1>1, <1>2, <1>3 DEF StateType
  <2> QED BY <1>2, <1>3, <1>4, <1>5, <2>1, <2>2 DEF OpStep
<1>7. ConnInv(c)'
  <2>1. /\ phase'[c] = phase[c] /\ id'[c] = id[c] /\ writing'[c] = writing[c]
        /\ slot'[c] = slot[c] /\ content'[c] = content[c] /\ nic'[c] = nic[c]
        /\ sock' \in {sock, "closed"}
    BY <1>2
  <2> QED BY <1>1, <1>4, <2>1, Frame
<1> QED BY <1>6, <1>7, OpFrame

-----------------------------------------------------------------------------
(* The steps that belong to no operation *)

\* Nothing of an operation changes but that the NIC may end its work, and the
\* only requests added are releases.
SharedStep ==
  /\ MessageInv'
  /\ UNCHANGED <<opVars, slot, content>>
  /\ \A d \in Conns : nic'[d] # "idle" => nic[d] # "idle"
  /\ sock' \in {sock, "closed"}
  /\ \A q \in Asked' : q \in Asked \/ q.type = "release"
  /\ Answered' \subseteq Answered

LEMMA SharedConn ==
  ASSUME IInv, SharedStep, NEW d \in Conns
  PROVE  ConnInv(d)'
<1>1. ConnInv(d) /\ StateType BY DEF IInv
<1>2. UNCHANGED <<phase, id, writing, slot, content>> BY DEF SharedStep, opVars
<1>3. \A q \in Asked' : q \in RequestSet BY UniqueKeysNext DEF SharedStep
<1>4. \A q \in Asked' : \A k : q.key = <<d, k>> /\ k # "conn" => q \in Asked
  BY <1>3 DEF SharedStep, RequestSet, Kind
<1>5. \A q \in Asked' : q.type # "release" => q \in Asked BY DEF SharedStep
<1>6. \A a \in Answered' : a \in Answered BY DEF SharedStep
<1>7. \A k : k # "conn" /\ Quiet(d, k) => Quiet(d, k)' BY <1>4, <1>6 DEF Quiet
<1>8. Quiet(d, "state") => Quiet(d, "state")' BY <1>7
<1>9. Quiet(d, "op") => Quiet(d, "op")' BY <1>7
<1>10. sock' \in {sock, "closed"} /\ (nic'[d] # "idle" => nic[d] # "idle") BY DEF SharedStep
<1>11. Current(d)' BY <1>1, <1>2, <1>5 DEF ConnInv, Current
<1>12. ReadyIdle(d)' BY <1>1, <1>2, <1>8, <1>9, <1>10 DEF ConnInv, ReadyIdle
<1>13. CopyHeld(d)' BY <1>1, <1>2, <1>8, <1>9, <1>10 DEF ConnInv, CopyHeld
<1>14. /\ \A q \in Asked' : q.key = <<d, "state">> => q \in Asked
       /\ \A q \in Asked' : q.key = <<d, "op">> => q \in Asked
  BY <1>4
<1>15. LeaseOut(d)' BY <1>1, <1>2, <1>6, <1>9, <1>10, <1>14 DEF ConnInv, LeaseOut
<1>16. CancelOut(d)' BY <1>1, <1>2, <1>6, <1>8, <1>9, <1>10, <1>14 DEF ConnInv, CancelOut
<1>17. SendOut(d)' BY <1>1, <1>2, <1>6, <1>8, <1>9, <1>10, <1>14 DEF ConnInv, SendOut
<1> QED BY <1>11, <1>12, <1>13, <1>15, <1>16, <1>17 DEF ConnInv

LEMMA CloseImportStep ==
  ASSUME IInv, CloseImport
  PROVE  IInv'
<1>1. StateType /\ MessageInv /\ ReleaseInv BY DEF IInv
<1>2. /\ stop = "no" /\ sock' \in {sock, "closed"}
      /\ \/ /\ \A c \in Conns : status[c] = "retired"
            /\ import' = "closed" /\ stop' = "releasing"
         \/ import' = "retained" /\ stop' = "done"
      /\ UNCHANGED <<opVars, releases, reqs, resps, cached, pending, slot, content, nic, peer,
                     sourceReleased, pool>>
  BY DEF CloseImport, Active, relayVars
<1>3. MessageInv' /\ Asked' = Asked /\ Answered' = Answered
  BY <1>1, <1>2, SameEffect DEF SameMessages
<1>4. StateType' BY <1>1, <1>2 DEF StateType, opVars
<1>5. SharedStep BY <1>2, <1>3 DEF SharedStep
<1>6. import # "closed" BY <1>1, <1>2 DEF ReleaseInv
<1>7. ReleaseInv'
  <2>1. UNCHANGED <<status, phase, releases, nic, peer, sourceReleased, pool>> BY <1>2 DEF opVars
  <2>2. \A c \in Conns : ~sourceReleased[c] BY <1>1, <1>6 DEF ReleaseInv
  <2>3. \A q \in Asked : q.type # "release" BY <1>1, <1>6 DEF ReleaseInv
  <2>4. pool # "freed" BY <1>1, <1>6 DEF ReleaseInv
  <2>5. \A c \in Conns : releases'[c] = "none" => Quiet(c, "conn")'
    BY <1>1, <1>3, <2>1 DEF ReleaseInv, Quiet
  <2> QED BY <1>1, <1>2, <1>3, <2>1, <2>2, <2>3, <2>4, <2>5 DEF ReleaseInv
<1> QED BY <1>3, <1>4, <1>5, <1>7, SharedConn DEF IInv

LEMMA ReleaseStep ==
  ASSUME IInv, NEW c \in Conns, Release(c)
  PROVE  IInv'
<1>1. StateType /\ MessageInv /\ ReleaseInv BY DEF IInv
<1>2. PICK ok \in BOOLEAN :
        /\ Call(Request("release", c, "conn"), ok)
        /\ releases' = [releases EXCEPT ![c] = IF ok THEN "sent" ELSE "over"]
  BY DEF Release
<1> DEFINE r == Request("release", c, "conn")
<1>3. /\ stop = "releasing" /\ releases[c] = "none"
      /\ UNCHANGED <<opVars, import, stop, pending, slot, content, nic, peer, sourceReleased, pool>>
  BY DEF Release, relayVars
<1>4. r \in RequestSet /\ r.key = <<c, "conn">> /\ r.type = "release" /\ r.conn = c
  BY <1>1, RequestIs DEF RequestType, Kind
<1> HIDE DEF r
<1>5. Quiet(c, "conn") /\ import = "closed" BY <1>1, <1>3 DEF ReleaseInv
<1>6. /\ MessageInv' /\ Answered' = Answered /\ sock' \in {sock, "closed"}
      /\ Asked' = Asked \/ Asked' = Asked \cup {r}
  BY <1>1, <1>2, <1>3, <1>4, <1>5, CallEffect DEF r
<1>7. releases' \in [Conns -> {"none", "sent", "over"}] /\ releases'[c] # "none"
      /\ \A d \in Conns \ {c} : releases'[d] = releases[d]
  BY <1>1, <1>2 DEF StateType
<1>8. StateType' BY <1>1, <1>3, <1>6, <1>7 DEF StateType, opVars
<1>9. SharedStep BY <1>3, <1>4, <1>6 DEF SharedStep
<1>10. ReleaseInv'
  <2>1. UNCHANGED <<status, phase, import, stop, nic, peer, sourceReleased, pool>>
    BY <1>3 DEF opVars
  <2>2. \A d \in Conns : releases'[d] = "none" => Quiet(d, "conn")'
    BY <1>1, <1>4, <1>6, <1>7 DEF ReleaseInv, Quiet
  <2> QED BY <1>1, <1>5, <2>1, <2>2 DEF ReleaseInv
<1> QED BY <1>6, <1>8, <1>9, <1>10, SharedConn DEF IInv

\* An acknowledgement, or none.
LEMMA ReleaseReplyStep ==
  ASSUME IInv, NEW c \in Conns, ReleaseReply(c)
  PROVE  IInv'
<1>1. StateType /\ MessageInv /\ ReleaseInv BY DEF IInv
<1>2. /\ releases[c] = "sent" /\ releases' = [releases EXCEPT ![c] = "over"]
      /\ UNCHANGED <<opVars, import, stop, pending, slot, content, nic, peer, sourceReleased, pool>>
  BY DEF ReleaseReply, relayVars
<1>3. MessageInv' /\ Asked' = Asked /\ Answered' \subseteq Answered /\ sock' \in {sock, "closed"}
  <2>1. ASSUME NEW a \in cached, Take(c, "conn", a), UNCHANGED <<sock, reqs, resps>>
        PROVE  MessageInv' /\ Asked' = Asked /\ Answered' \subseteq Answered
    BY <1>1, <1>2, <2>1, TakeEffect
  <2>2. ASSUME UNCHANGED <<cached, reqs, resps>>
        PROVE  MessageInv' /\ Asked' = Asked /\ Answered' \subseteq Answered
    BY <1>1, <1>2, <2>2, SameEffect DEF SameMessages
  <2>3. CASE (\E a \in cached : Take(c, "conn", a)) /\ UNCHANGED <<sock, reqs, resps>>
    BY <2>1, <2>3
  <2>4. CASE NoAnswer(c, "conn") BY <2>2, <2>4 DEF NoAnswer
  <2>5. CASE UNCHANGED <<cached, sock, reqs, resps>> BY <2>2, <2>5
  <2> QED BY <2>3, <2>4, <2>5 DEF ReleaseReply
<1>4. releases' \in [Conns -> {"none", "sent", "over"}]
      /\ \A d \in Conns : releases'[d] = "none" => releases[d] = "none"
  BY <1>1, <1>2 DEF StateType
<1>5. StateType' BY <1>1, <1>2, <1>3, <1>4 DEF StateType, opVars
<1>6. SharedStep BY <1>2, <1>3 DEF SharedStep
<1>7. ReleaseInv'
  <2>1. UNCHANGED <<status, phase, import, stop, nic, peer, sourceReleased, pool>>
    BY <1>2 DEF opVars
  <2>2. \A d \in Conns : releases'[d] = "none" => Quiet(d, "conn")'
    BY <1>1, <1>3, <1>4 DEF ReleaseInv, Quiet
  <2> QED BY <1>1, <1>3, <2>1, <2>2 DEF ReleaseInv
<1> QED BY <1>3, <1>5, <1>6, <1>7, SharedConn DEF IInv

LEMMA StopRpcStep ==
  ASSUME IInv, StopRpc
  PROVE  IInv'
<1>1. StateType /\ MessageInv /\ ReleaseInv BY DEF IInv
<1>2. /\ stop = "releasing" /\ stop' = "done" /\ sock' = "closed"
      /\ UNCHANGED <<opVars, import, releases, reqs, resps, cached, pending, slot, content, nic,
                     peer, sourceReleased, pool>>
  BY DEF StopRpc, relayVars
<1>3. MessageInv' /\ Asked' = Asked /\ Answered' = Answered
  BY <1>1, <1>2, SameEffect DEF SameMessages
<1>4. StateType' BY <1>1, <1>2 DEF StateType, opVars
<1>5. SharedStep BY <1>2, <1>3 DEF SharedStep
<1>6. ReleaseInv'
  <2>1. UNCHANGED <<status, phase, import, releases, nic, peer, sourceReleased, pool>>
    BY <1>2 DEF opVars
  <2>2. \A d \in Conns : releases'[d] = "none" => Quiet(d, "conn")'
    BY <1>1, <1>3, <2>1 DEF ReleaseInv, Quiet
  <2> QED BY <1>1, <1>2, <1>3, <2>1, <2>2 DEF ReleaseInv
<1> QED BY <1>3, <1>4, <1>5, <1>6, SharedConn DEF IInv

\* A response is read, or the relay loses its peer, or fails.
LEMMA QuietStep ==
  ASSUME IInv, \/ ReadResponse \/ RelayFails \/ DropPeer
               \/ \E c \in Conns : ConnectionFails(c)
  PROVE  IInv'
<1>1. StateType /\ MessageInv /\ ReleaseInv BY DEF IInv
<1>2. /\ UNCHANGED <<opVars, stopVars, sock, slot, content, nic, sourceReleased, pool>>
      /\ peer' \in {peer, "closed"}
  BY DEF ReadResponse, RelayFails, DropPeer, ConnectionFails, rpcVars, relayVars
<1>3. MessageInv' /\ Asked' \subseteq Asked /\ Answered' = Answered
  <2>1. CASE ReadResponse BY <1>1, <2>1, ReadEffect DEF SameMessages
  <2>2. CASE DropPeer BY <1>1, <2>2, DropEffect
  <2>3. CASE UNCHANGED <<reqs, resps, cached, pending>> BY <1>1, <2>3, SameEffect DEF SameMessages
  <2> QED BY <2>1, <2>2, <2>3 DEF RelayFails, ConnectionFails, rpcVars
<1>4. StateType' BY <1>1, <1>2 DEF StateType, opVars, stopVars
<1>5. SharedStep BY <1>2, <1>3 DEF SharedStep
<1>6. ReleaseInv'
  <2>1. UNCHANGED <<status, phase, import, stop, releases, nic, sourceReleased, pool>>
    BY <1>2 DEF opVars, stopVars
  <2>2. \A d \in Conns : releases'[d] = "none" => Quiet(d, "conn")'
    BY <1>1, <1>3, <2>1 DEF ReleaseInv, Quiet
  <2> QED BY <1>1, <1>2, <1>3, <2>1, <2>2 DEF ReleaseInv
<1> QED BY <1>3, <1>4, <1>5, <1>6, SharedConn DEF IInv

LEMMA NicStep ==
  ASSUME IInv, (\E c \in Conns : NicReads(c)) \/ FreePool
  PROVE  IInv'
<1>1. StateType /\ MessageInv /\ ReleaseInv BY DEF IInv
<1>2. UNCHANGED <<opVars, stopVars, sock, reqs, resps, cached, pending, slot, content, peer,
                  sourceReleased>>
  BY DEF NicReads, FreePool, rpcVars
<1>3. MessageInv' /\ Asked' = Asked /\ Answered' = Answered
  BY <1>1, <1>2, SameEffect DEF SameMessages
<1>4. \/ (\E c \in Conns : nic[c] = "reading" /\ nic' = [nic EXCEPT ![c] = "read"]) /\ pool' = pool
      \/ /\ peer = "closed" /\ nic' = [c \in Conns |-> "idle"]
         /\ pool' = IF MayBeUsed THEN "retained" ELSE "freed"
      \/ peer = "closed" /\ pool' = "retained" /\ nic' = nic
  BY DEF NicReads, FreePool
<1>5. /\ nic' \in [Conns -> {"idle", "reading", "read"}]
      /\ pool' \in {"live", "freed", "retained"}
      /\ \A d \in Conns : nic'[d] # "idle" => nic[d] # "idle"
  BY <1>1, <1>4 DEF StateType
<1>6. StateType' BY <1>1, <1>2, <1>5 DEF StateType, opVars, stopVars
<1>7. SharedStep BY <1>2, <1>3, <1>5 DEF SharedStep
<1>8. ReleaseInv'
  <2>1. UNCHANGED <<status, phase, import, stop, releases, peer, sourceReleased>>
    BY <1>2 DEF opVars, stopVars
  <2>2. \A d \in Conns : releases'[d] = "none" => Quiet(d, "conn")'
    BY <1>1, <1>3, <2>1 DEF ReleaseInv, Quiet
  <2>3. pool' # "live" => peer' = "closed" BY <1>1, <1>4, <2>1 DEF ReleaseInv
  <2>4. pool' = "freed" => import' = "closed" /\ \A c \in Conns : nic'[c] # "reading"
    <3>1. CASE pool' = pool
      <4>1. \A c \in Conns : nic'[c] = "reading" => nic[c] = "reading"
        BY <1>1, <1>4 DEF StateType
      <4> QED BY <1>1, <2>1, <3>1, <4>1 DEF ReleaseInv
    <3>2. CASE pool' = "freed" /\ nic' = [c \in Conns |-> "idle"] /\ ~MayBeUsed
      <4>1. import = "closed" BY <1>1, <3>2, PxnAssumption DEF MayBeUsed, ReleaseInv
      <4> QED BY <2>1, <3>2, <4>1
    <3>3. CASE pool' = "retained" BY <3>3
    <3> QED BY <1>4, <3>1, <3>2, <3>3
  <2> QED BY <1>1, <1>3, <2>1, <2>2, <2>3, <2>4 DEF ReleaseInv
<1> QED BY <1>3, <1>6, <1>7, <1>8, SharedConn DEF IInv

-----------------------------------------------------------------------------
(* The theorems *)

LEMMA InitHolds ==
  ASSUME Init
  PROVE  IInv
<1>1. StateType BY DEF Init, StateType, Phase
<1>2. reqs = <<>> /\ resps = <<>> /\ pending = <<>> /\ cached = {} BY DEF Init
<1>3. DOMAIN reqs = {} /\ DOMAIN resps = {} /\ DOMAIN pending = {} BY <1>2
<1>4. Queues(reqs, pending, resps, cached) BY <1>2 DEF Queues
<1>5. /\ Keys(reqs) = {} /\ Keys(resps) = {} /\ Keys(pending) = {} /\ KeysIn(cached) = {}
  BY <1>2, <1>3 DEF Keys, KeysIn
<1>6. Distinct(reqs) /\ Distinct(resps) /\ Distinct(pending) BY <1>3 DEF Distinct
<1>7. MessageInv BY <1>2, <1>4, <1>5, <1>6 DEF MessageInv, Apart
<1>8. Elems(reqs) = {} /\ Cores(pending) = {} /\ Elems(resps) = {} BY <1>3 DEF Elems, Cores
<1>9. Asked = {} /\ Answered = {} BY <1>2, <1>8 DEF Asked, AskedIn, Answered
<1>10. \A c, k : Quiet(c, k) BY <1>9 DEF Quiet
<1>11. ASSUME NEW c \in Conns PROVE ConnInv(c)
  <2>1. /\ phase[c] = "ready" /\ id[c] = 1 /\ slot[c] = 0 /\ nic[c] = "idle"
        /\ writing[c] = FALSE
    BY DEF Init
  <2> QED BY <1>9, <1>10, <2>1
          DEF ConnInv, Current, ReadyIdle, CopyHeld, LeaseOut, CancelOut, SendOut
<1>12. ReleaseInv
  <2>1. \A c \in Conns : sourceReleased[c] = FALSE /\ status[c] = "running" BY DEF Init
  <2>2. import = "open" /\ stop = "no" /\ pool = "live" BY DEF Init
  <2> QED BY <1>9, <1>10, <2>1, <2>2 DEF ReleaseInv
<1> QED BY <1>1, <1>7, <1>11, <1>12 DEF IInv

\* The relay and its source keep the inductive invariant, for any connections,
\* any chunks and any failures of sockets, copies, sends and processes: every
\* opId is outstanding at most once (MessageInv), the phase of an operation
\* tells which requests may be out and who holds the slot (ConnInv), and the
\* mapping and the pool go in order (ReleaseInv).
THEOREM RelayInvariant == Spec => []IInv
<1>1. Init => IInv BY InitHolds
<1>2. IInv /\ [Next]_vars => IInv'
  <2> SUFFICES ASSUME IInv, [Next]_vars PROVE IInv' OBVIOUS
  <2>1. CASE \E c \in Conns : Lease(c) \/ LeaseReply(c) \/ Copy(c) \/ CopyLands(c) \/ Send(c)
    BY <2>1, LeaseStep, LeaseReplyStep, CopyStep, CopyLandsStep, SendStep
  <2>2. CASE \E c \in Conns : SendReply(c) \/ ReplyLost(c) \/ Cancel(c) \/ CancelReply(c)
    BY <2>2, SendReplyStep, ReplyLostStep, CancelStep, CancelReplyStep
  <2>3. CASE \E c \in Conns : CancelLost(c) \/ FailOther(c) \/ Retire(c) \/ Abandon(c)
    BY <2>3, CancelLostStep, LeaveStep
  <2>4. CASE CloseImport BY <2>4, CloseImportStep
  <2>5. CASE StopRpc BY <2>5, StopRpcStep
  <2>6. CASE \E c \in Conns : Release(c) \/ ReleaseReply(c)
    BY <2>6, ReleaseStep, ReleaseReplyStep
  <2>7. CASE Receive BY <2>7, ReceiveEffect, ServeKeeps DEF IInv
  <2>8. CASE \E k \in 1..2 * Cardinality(Conns) : Progress(k)
    BY <2>8, ProgressEffect, ServeKeeps DEF IInv
  <2>9. CASE \/ ReadResponse \/ RelayFails \/ DropPeer
             \/ \E c \in Conns : ConnectionFails(c)
    BY <2>9, QuietStep
  <2>10. CASE (\E c \in Conns : NicReads(c)) \/ FreePool BY <2>10, NicStep
  <2>11. CASE UNCHANGED vars
    <3>1. UNCHANGED <<opVars, stopVars, sock, reqs, resps, cached, pending, slot, content, nic, peer,
                      sourceReleased, pool>>
      BY <2>11 DEF vars, rpcVars, relayVars
    <3>2. MessageInv' /\ Asked' = Asked /\ Answered' = Answered
      BY <3>1, SameEffect DEF IInv, SameMessages
    <3>3. SharedStep BY <3>1, <3>2 DEF SharedStep
    <3>4. StateType' BY <3>1 DEF IInv, StateType, opVars, stopVars
    <3>5. \A d \in Conns : Quiet(d, "conn")' <=> Quiet(d, "conn") BY <3>2 DEF Quiet
    <3>6. ReleaseInv' BY <3>1, <3>2, <3>5 DEF IInv, ReleaseInv, opVars, stopVars
    <3> QED BY <3>2, <3>3, <3>4, <3>6, SharedConn DEF IInv
  <2> QED
    BY <2>1, <2>2, <2>3, <2>4, <2>5, <2>6, <2>7, <2>8, <2>9, <2>10, <2>11 DEF Next
<1> QED BY <1>1, <1>2, PTL DEF Spec

\* The NIC of the relay reads the chunk the lease was taken for, and no copy of
\* the source writes the slot meanwhile.
THEOREM NicReadsRight == Spec => []NicReadsItsChunk
<1>1. IInv => NicReadsItsChunk
  <2> SUFFICES ASSUME IInv, NEW c \in Conns, nic[c] = "reading"
               PROVE  content[c] = slot[c] /\ ~writing[c]
    BY DEF NicReadsItsChunk
  <2>1. ConnInv(c) BY DEF IInv
  <2> QED BY <2>1 DEF ConnInv, SendOut, CopyHeld
<1> QED BY <1>1, RelayInvariant, PTL

\* In phase 0 the relay neither holds the slot for the operation nor has a
\* request that could take or read it.
THEOREM ReadyIsIdle == Spec => []ReadyMeansIdle
<1>1. IInv => ReadyMeansIdle
  <2> SUFFICES ASSUME IInv, NEW c \in Conns, phase[c] = "ready"
               PROVE  slot[c] = 0 /\ nic[c] # "reading" /\ InFlight(c) = {}
    BY DEF ReadyMeansIdle
  <2>1. slot[c] = 0 /\ nic[c] = "idle" /\ Quiet(c, "state") /\ Quiet(c, "op")
    BY DEF IInv, ConnInv, ReadyIdle
  <2>2. \A q \in Asked : q \in RequestSet BY UniqueKeys DEF IInv
  <2>3. \A q \in Asked : ~(q.conn = c /\ q.type \in {"lease", "send"})
    BY <2>1, <2>2 DEF Quiet, RequestSet, Kind
  <2>4. \A k \in DOMAIN reqs : reqs[k] \in Asked BY DEF Asked, AskedIn, Elems
  <2>5. \A k \in DOMAIN pending : Core(pending[k]) \in Asked BY DEF Asked, AskedIn, Cores
  <2>6. \A k \in DOMAIN pending : /\ Core(pending[k]).conn = pending[k].conn
                                  /\ Core(pending[k]).type = pending[k].type
    BY DEF Core
  <2>7. InFlight(c) = {} BY <2>3, <2>4, <2>5, <2>6 DEF InFlight, Lane
  <2> QED BY <2>1, <2>7
<1> QED BY <1>1, RelayInvariant, PTL

\* The source closes its mapping only when no copy writes through it, and the
\* relay frees the pool only when the mapping is closed and the NIC does not
\* read it.
THEOREM PoolReleaseSafe == Spec => []ReleasedIsUnused
<1>1. IInv => ReleasedIsUnused
  <2> SUFFICES ASSUME IInv PROVE ReleasedIsUnused OBVIOUS
  <2>1. import = "closed" => \A c \in Conns : phase[c] = "ready" BY DEF IInv, ReleaseInv
  <2>2. import = "closed" => \A c \in Conns : ~writing[c]
    BY <2>1 DEF IInv, ConnInv, CopyHeld
  <2> QED BY <2>2 DEF IInv, ReleaseInv, ReleasedIsUnused
<1> QED BY <1>1, RelayInvariant, PTL

-----------------------------------------------------------------------------
(* Retransmission: who holds the source *)

Generation == 1..GenMod-1
SeqNo == 0..SeqMod-1

\* An announced receive, an entry of the sender's buffer, what arrives at the
\* receiver, and the use of a request slot.
Announcement == [slot : Slot, gen : Generation]
RetransEntry ==
  [msg : Msg, seq : SeqNo, slot : Slot, gen : Generation, sent : Nat, retry : Nat,
   cursor : 0..NChunks, allPosted : BOOLEAN]
Notice == [kind : {"uc"}, msg : Msg, seq : SeqNo, slot : Slot, gen : Generation]
Chunk ==
  [kind : {"rc"}, msg : Msg, seq : SeqNo, slot : Slot, gen : Generation,
   chunk : 0..NChunks-1]
RecvReq ==
  [gen : 0..GenMod-1,
   use : [msg : 0..N, seq : 0..SeqMod, data : Int, bytes : Nat]]

RecvType ==
  /\ recvReqs \in [Slot -> RecvReq]
  /\ recvSeq \in SeqNo
  /\ received \subseteq Msg
  /\ copied \in [Msg -> Nat]

SendType ==
  /\ sendSeq \in SeqNo
  /\ buffer \in Seq(RetransEntry)
  /\ events \in [Msg -> SUBSET {"ack", "window"}]
  /\ sends \in [Msg -> {"none", "active", "done", "error"}]
  /\ window \in [msg : 0..N, outstanding : Nat]

NetType ==
  /\ fifo \in Seq(Announcement)
  /\ dest \in [Msg -> [slot : 0..NSlots, gen : 0..GenMod-1]]
  /\ uc \in [Msg -> [Qp -> {"none", "flight", "arrived", "lost"}]]
  /\ cq \in Seq(Notice \cup Chunk)
  /\ rc \in Seq(Chunk)
  /\ rcDone \in Nat
  /\ acks \in Seq(SeqNo)

\* Messages are sent in their order, each to the receive announced next.
SendInv ==
  /\ Sent = 1..Cardinality(Sent)
  /\ posted = Cardinality(Sent) + Len(fifo)
  /\ posted \in 0..N
  /\ \A m \in Msg \ Sent : \A q \in Qp : uc[m][q] = "none"
  /\ \A m \in Sent : dest[m] \in Announcement

\* What is retained awaits its acknowledgement, and nothing holds a request
\* that is done.
HeldInv ==
  /\ \A j \in 1..Len(buffer) : "ack" \in events[buffer[j].msg]
  /\ \A i, j \in 1..Len(buffer) : i # j => buffer[i].msg # buffer[j].msg
  /\ \A m \in Msg : sends[m] \in {"none", "done"} => events[m] = {}

\* The chunks that are under way are those of the window, which holds their
\* request.
WindowInv ==
  /\ Len(rc) + rcDone = window.outstanding
  /\ window.outstanding > 0 => window.msg \in Msg /\ "window" \in events[window.msg]
  /\ \A k \in 1..Len(rc) : rc[k].msg = window.msg

RetransInv ==
  RecvType /\ SendType /\ NetType /\ SendInv /\ HeldInv /\ WindowInv

-----------------------------------------------------------------------------
(* Facts about the operators *)

LEMMA ConstantsOfRetrans ==
  /\ N \in Nat \ {0} /\ NQps \in Nat \ {0} /\ NSlots \in Nat \ {0}
  /\ NChunks \in Nat \ {0} /\ Depth \in Nat \ {0}
  /\ SeqMod \in Nat \ {0, 1} /\ GenMod \in Nat \ {0, 1}
BY IbucAssumption

\* The requests of a communicator are no more than half of the sequence numbers.
LEMMA HalfRange == 1 <= (SeqMod - 1) \div 2 /\ NSlots <= (SeqMod - 1) \div 2
BY IbucAssumption

\* What the steps do with a sequence.
LEMMA QueueSteps ==
  ASSUME NEW S, NEW s \in Seq(S)
  PROVE  /\ \A i \in 1..Len(s) : s[i] \in S
         /\ Len(s) \in Nat /\ DOMAIN s = 1..Len(s)
         /\ \A e \in S : /\ Append(s, e) \in Seq(S) /\ Len(Append(s, e)) = Len(s) + 1
                         /\ \A i \in 1..Len(s) : Append(s, e)[i] = s[i]
                         /\ Append(s, e)[Len(s) + 1] = e
         /\ s # <<>> => /\ Head(s) \in S /\ Tail(s) \in Seq(S)
                        /\ Len(s) >= 1 /\ Head(s) = s[1]
                        /\ Len(Tail(s)) = Len(s) - 1
                        /\ \A i \in 1..Len(s)-1 : Tail(s)[i] = s[i + 1]
         /\ <<>> \in Seq(S) /\ Len(<<>>) = 0
OBVIOUS

LEMMA ConcatIs ==
  ASSUME NEW S, NEW s \in Seq(S), NEW t \in Seq(S)
  PROVE  /\ Len(s \o t) = Len(s) + Len(t)
         /\ \A k \in 1..Len(s) + Len(t) :
              (s \o t)[k] = IF k <= Len(s) THEN s[k] ELSE t[k - Len(s)]
OBVIOUS

\* Ranking changes nothing but the ranks.
LEMMA RankedKeeps ==
  ASSUME NEW b \in Seq(RetransEntry)
  PROVE  /\ Ranked(b) \in Seq(RetransEntry)
         /\ Len(Ranked(b)) = Len(b)
         /\ \A j \in 1..Len(b) :
              /\ Ranked(b)[j].msg = b[j].msg /\ Ranked(b)[j].seq = b[j].seq
              /\ Ranked(b)[j].slot = b[j].slot /\ Ranked(b)[j].gen = b[j].gen
<1> DEFINE R(j) == Cardinality({i \in 1..Len(b) : b[i].sent <= b[j].sent})
<1>1. Len(b) \in Nat /\ DOMAIN b = 1..Len(b) /\ \A j \in 1..Len(b) : b[j] \in RetransEntry
  BY QueueSteps
<1>2. \A j \in 1..Len(b) : R(j) \in Nat
  <2> TAKE j \in 1..Len(b)
  <2>1. IsFiniteSet(1..Len(b)) BY <1>1, FS_Interval
  <2>2. {i \in 1..Len(b) : b[i].sent <= b[j].sent} \subseteq 1..Len(b) OBVIOUS
  <2> QED BY <2>1, <2>2, FS_Subset, FS_CardinalityType
<1> DEFINE c == [j \in 1..Len(b) |-> [b[j] EXCEPT !.sent = R(j)]]
<1>3. Ranked(b) = c BY <1>1 DEF Ranked
<1> HIDE DEF R
<1>4. \A j \in 1..Len(b) :
        /\ [b[j] EXCEPT !.sent = R(j)] \in RetransEntry
        /\ [b[j] EXCEPT !.sent = R(j)].msg = b[j].msg
        /\ [b[j] EXCEPT !.sent = R(j)].seq = b[j].seq
        /\ [b[j] EXCEPT !.sent = R(j)].slot = b[j].slot
        /\ [b[j] EXCEPT !.sent = R(j)].gen = b[j].gen
  BY <1>1, <1>2 DEF RetransEntry
<1>5. c \in Seq(RetransEntry) /\ Len(c) = Len(b)
  <2>1. c \in [1..Len(b) -> RetransEntry] BY <1>4
  <2> HIDE DEF c
  <2> QED BY <1>1, <2>1, SeqDef
<1>6. \A j \in 1..Len(b) : c[j] = [b[j] EXCEPT !.sent = R(j)] OBVIOUS
<1> HIDE DEF c
<1> QED BY <1>3, <1>4, <1>5, <1>6

\* The set of the sent messages grows by the next one.
LEMMA SentIs ==
  ASSUME SendInv, SendType
  PROVE  /\ Cardinality(Sent) \in 0..N
         /\ \A m \in Msg : m \in Sent <=> m <= Cardinality(Sent)
<1>1. Sent \subseteq Msg /\ IsFiniteSet(Msg) BY ConstantsOfRetrans, FS_Interval DEF Sent, Msg
<1>2. Cardinality(Sent) \in Nat BY <1>1, FS_Subset, FS_CardinalityType
<1>3. Cardinality(Sent) <= N
  <2>1. CASE Cardinality(Sent) = 0 BY <2>1, ConstantsOfRetrans
  <2>2. CASE Cardinality(Sent) # 0
    <3>1. Cardinality(Sent) \in Sent BY <1>2, <2>2 DEF SendInv
    <3> QED BY <3>1, <1>1, <1>2, ConstantsOfRetrans DEF Msg
  <2> QED BY <2>1, <2>2
<1> QED BY <1>2, <1>3, ConstantsOfRetrans DEF SendInv, Msg

LEMMA LeastNumber ==
  ASSUME NEW S \in SUBSET Nat, S # {}
  PROVE  \E x \in S : \A y \in S : x <= y
<1> DEFINE R == OpToRel(<, Nat)
<1>1. \A x, y \in S : y < x => <<y, x>> \in R BY DEF OpToRel
<1>2. IsWellFoundedOn(R, Nat) BY NatLessThanWellFounded, Zenon
<1> HIDE DEF R
<1>3. PICK x \in S : \A y \in S : ~(<<y, x>> \in R) BY <1>2, WFMin
<1>4. \A y \in S : ~(y < x) BY <1>1, <1>3
<1> QED BY <1>4

\* A number and its remainder, next to the first turn.
LEMMA Remainders ==
  ASSUME NEW M \in Nat \ {0}
  PROVE  /\ \A x \in Int : x % M \in 0..M-1
         /\ \A x \in 0..M-1 : x % M = x
         /\ M % M = 0
         /\ \A x \in -M..-1 : x % M = x + M
<1>1. \A x \in Int : x % M \in 0..M-1 OBVIOUS
<1>2. \A x \in 0..M-1 : x % M = x OBVIOUS
<1>3. M % M = 0 OBVIOUS
<1>4. \A x \in -M..-1 : x % M = x + M OBVIOUS
<1> QED BY <1>1, <1>2, <1>3, <1>4

LEMMA NextGenerationIs ==
  ASSUME NEW g \in 0..GenMod-1
  PROVE  /\ NextGeneration(g) \in Generation
         /\ NextGeneration(g) = IF g = GenMod - 1 THEN 1 ELSE g + 1
<1>1. GenMod \in Nat \ {0} /\ GenMod >= 2 BY ConstantsOfRetrans
<1>2. (g + 1) % GenMod = IF g = GenMod - 1 THEN 0 ELSE g + 1
  <2> DEFINE x == g + 1
  <2>1. x \in Nat /\ (x = GenMod \/ x \in 0..GenMod-1) /\ (g = GenMod - 1 <=> x = GenMod)
    BY <1>1
  <2>2. GenMod % GenMod = 0 /\ \A y \in 0..GenMod-1 : y % GenMod = y
    BY <1>1, Remainders
  <2> HIDE DEF x
  <2>3. x % GenMod = IF g = GenMod - 1 THEN 0 ELSE x BY <2>1, <2>2
  <2> QED BY <2>3 DEF x
<1> QED BY <1>1, <1>2 DEF NextGeneration, Generation

\* The slot that a receive takes is free.
LEMMA SlotTaken ==
  ASSUME RecvType, FreeSlots # {}
  PROVE  LET s == CHOOSE x \in FreeSlots : \A y \in FreeSlots : x <= y IN
         s \in Slot /\ recvReqs[s].use.msg = 0
<1>1. FreeSlots \in SUBSET Nat BY ConstantsOfRetrans DEF FreeSlots, Slot
<1>2. \E x \in FreeSlots : \A y \in FreeSlots : x <= y BY <1>1, LeastNumber
<1> QED BY <1>2 DEF FreeSlots

-----------------------------------------------------------------------------
(* RetransInv is inductive *)

LEMMA RetransInvInit == RetransInit => RetransInv
<1> SUFFICES ASSUME RetransInit PROVE RetransInv OBVIOUS
<1> USE ConstantsOfRetrans
<1>1. RecvType
  BY DEF RetransInit, RecvType, RecvReq, Unused, RecvRequest, NoSeq, SeqNo
<1>2. SendType BY DEF RetransInit, SendType, SeqNo
<1>3. NetType BY DEF RetransInit, NetType
<1>4. Sent = {} BY DEF RetransInit, Sent
<1>5. Cardinality({}) = 0 BY FS_EmptySet
<1>6. SendInv BY <1>4, <1>5 DEF RetransInit, SendInv
<1>7. HeldInv BY DEF RetransInit, HeldInv
<1>8. WindowInv BY DEF RetransInit, WindowInv
<1> QED BY <1>1, <1>2, <1>3, <1>6, <1>7, <1>8 DEF RetransInv

\* The new state of the slot, and what the receive announces.
LEMMA IrecvIs ==
  ASSUME RetransInv, Irecv
  PROVE  \E s \in Slot, g \in Generation :
           /\ g = NextGeneration(recvReqs[s].gen)
           /\ recvReqs[s].use.msg = 0
           /\ recvReqs' = [recvReqs EXCEPT ![s] = RecvRequest(g, posted + 1, SeqMod, NQps, 0)]
           /\ fifo' = Append(fifo, [slot |-> s, gen |-> g])
<1> DEFINE s == CHOOSE x \in FreeSlots : \A y \in FreeSlots : x <= y
           g == NextGeneration(recvReqs[s].gen)
<1>1. s \in Slot /\ recvReqs[s].use.msg = 0 BY SlotTaken DEF Irecv, RetransInv
<1>2. recvReqs[s].gen \in 0..GenMod-1 BY <1>1 DEF RetransInv, RecvType, RecvReq
<1>3. g \in Generation BY <1>2, NextGenerationIs
<1>4. /\ recvReqs' = [recvReqs EXCEPT ![s] = RecvRequest(g, posted + 1, SeqMod, NQps, 0)]
      /\ fifo' = Append(fifo, [slot |-> s, gen |-> g])
  BY DEF Irecv, NoSeq
<1> HIDE DEF s
<1> QED BY <1>1, <1>3, <1>4

LEMMA IrecvInv == RetransInv /\ Irecv => RetransInv'
<1> SUFFICES ASSUME RetransInv, Irecv PROVE RetransInv' OBVIOUS
<1> USE ConstantsOfRetrans
<1>0. PICK s \in Slot, g \in Generation :
           /\ recvReqs' = [recvReqs EXCEPT ![s] = RecvRequest(g, posted + 1, SeqMod, NQps, 0)]
           /\ fifo' = Append(fifo, [slot |-> s, gen |-> g])
  BY IrecvIs
<1>1. RecvType'
  <2>1. posted + 1 \in 0..N BY DEF RetransInv, SendInv, Irecv
  <2>2. RecvRequest(g, posted + 1, SeqMod, NQps, 0) \in RecvReq
    BY <2>1 DEF RecvReq, Generation, RecvRequest
  <2> QED BY <1>0, <2>2 DEF RetransInv, RecvType, Irecv
<1>2. UNCHANGED sendVars BY DEF Irecv
<1>3. SendType' BY <1>2 DEF RetransInv, SendType, sendVars
<1>4. /\ fifo' \in Seq(Announcement) /\ Len(fifo') = Len(fifo) + 1
  <2>1. [slot |-> s, gen |-> g] \in Announcement BY DEF Announcement
  <2> QED BY <1>0, <2>1, QueueSteps DEF RetransInv, NetType
<1>5. NetType' BY <1>4 DEF RetransInv, NetType, Irecv
<1>6. SendInv'
  <2>1. Sent' = Sent BY <1>2 DEF Sent, sendVars
  <2>2. posted' = posted + 1 /\ posted < N /\ uc' = uc /\ dest' = dest BY DEF Irecv
  <2>3. Cardinality(Sent) \in 0..N /\ Len(fifo) \in Nat
    BY SentIs, QueueSteps DEF RetransInv, NetType
  <2> QED BY <1>4, <2>1, <2>2, <2>3 DEF RetransInv, SendInv
<1>7. HeldInv' BY <1>2 DEF RetransInv, HeldInv, sendVars
<1>8. WindowInv' BY <1>2 DEF RetransInv, WindowInv, sendVars, Irecv
<1> QED BY <1>1, <1>3, <1>5, <1>6, <1>7, <1>8 DEF RetransInv

LEMMA AckType ==
  ASSUME RetransInv, NEW seq, AckSequence(seq)
  PROVE  recvSeq' \in SeqNo /\ acks' \in Seq(SeqNo)
<1> DEFINE next == IF seq = recvSeq THEN (recvSeq + 1) % SeqMod ELSE recvSeq
<1>1. \A x \in Int : x % SeqMod \in SeqNo BY ConstantsOfRetrans, Remainders DEF SeqNo
<1>2. next \in SeqNo BY <1>1 DEF RetransInv, RecvType, SeqNo
<1>3. Sub(next, 1) \in SeqNo BY <1>1, <1>2 DEF Sub, SeqNo
<1>4. recvSeq' = next /\ acks' = Append(acks, Sub(next, 1)) BY DEF AckSequence
<1> HIDE DEF next
<1> QED BY <1>2, <1>3, <1>4, QueueSteps DEF RetransInv, NetType

\* A step of the receiver that takes its next completion keeps the invariant
\* if it leaves the slots and the sequence number well formed.
LEMMA TakeCompletion ==
  ASSUME RetransInv, cq # <<>>, cq' = Tail(cq), RecvType', acks' \in Seq(SeqNo),
         UNCHANGED <<posted, sendVars, fifo, dest, uc, rc, rcDone>>
  PROVE  RetransInv'
<1>1. SendType' BY DEF RetransInv, SendType, sendVars
<1>2. cq' \in Seq(Notice \cup Chunk) BY QueueSteps DEF RetransInv, NetType
<1>3. NetType' BY <1>2 DEF RetransInv, NetType
<1>4. Sent' = Sent BY DEF Sent, sendVars
<1>5. SendInv' BY <1>4 DEF RetransInv, SendInv
<1>6. HeldInv' BY DEF RetransInv, HeldInv, sendVars
<1>7. WindowInv' BY DEF RetransInv, WindowInv, sendVars
<1> QED BY <1>1, <1>3, <1>5, <1>6, <1>7 DEF RetransInv

LEMMA ProcessNotificationInv == RetransInv /\ ProcessNotification => RetransInv'
<1> SUFFICES ASSUME RetransInv, ProcessNotification PROVE RetransInv' OBVIOUS
<1> USE ConstantsOfRetrans
<1> DEFINE w == Head(cq)
           q == recvReqs[w.slot]
<1>1. w \in Notice \cup Chunk BY QueueSteps DEF ProcessNotification, RetransInv, NetType
<1>2. w.slot \in Slot /\ w.seq \in SeqNo BY <1>1 DEF Notice, Chunk
<1>3. q \in RecvReq BY <1>2 DEF RetransInv, RecvType
<1>4. RecvRequest(q.gen, q.use.msg, w.seq, q.use.data - 1, q.use.bytes) \in RecvReq
  BY <1>2, <1>3 DEF RecvRequest, RecvReq, SeqNo
<1>5. recvReqs' \in [Slot -> RecvReq]
  <2>1. \/ recvReqs' = recvReqs
        \/ recvReqs' = [recvReqs EXCEPT ![w.slot] =
             RecvRequest(q.gen, q.use.msg, w.seq, q.use.data - 1, q.use.bytes)]
    BY DEF ProcessNotification
  <2> HIDE DEF w, q
  <2> QED BY <2>1, <1>2, <1>4 DEF RetransInv, RecvType
<1>6. recvSeq' \in SeqNo /\ acks' \in Seq(SeqNo)
  <2>1. AckSequence(w.seq) \/ UNCHANGED <<recvSeq, acks>> BY DEF ProcessNotification
  <2> QED BY <2>1, AckType DEF RetransInv, RecvType, NetType
<1>7. RecvType' BY <1>5, <1>6 DEF ProcessNotification, RetransInv, RecvType
<1> QED BY <1>6, <1>7, TakeCompletion DEF ProcessNotification

LEMMA ProcessChunkInv == RetransInv /\ ProcessChunk => RetransInv'
<1> SUFFICES ASSUME RetransInv, ProcessChunk PROVE RetransInv' OBVIOUS
<1> USE ConstantsOfRetrans
<1> DEFINE w == Head(cq)
           q == recvReqs[w.slot]
           r == q.use
           copy == Matches(w) /\ r.seq \in {NoSeq, w.seq} /\ w.chunk = r.bytes
           bytes == IF copy THEN r.bytes + 1 ELSE r.bytes
           Req == RecvRequest(q.gen, r.msg, IF copy THEN w.seq ELSE r.seq,
                          DataEvents(r.data, bytes = NChunks), bytes)
<1>1. w \in Notice \cup Chunk BY QueueSteps DEF ProcessChunk, RetransInv, NetType
<1>2. w.slot \in Slot /\ w.seq \in SeqNo BY <1>1 DEF Notice, Chunk
<1>3. q \in RecvReq BY <1>2 DEF RetransInv, RecvType
<1>4. Req \in RecvReq
  <2>1. /\ q.gen \in 0..GenMod-1 /\ r.msg \in 0..N /\ r.seq \in 0..SeqMod
        /\ r.data \in Int /\ r.bytes \in Nat
    BY <1>3 DEF RecvReq
  <2> HIDE DEF w, q, r
  <2> QED BY <2>1, <1>2 DEF RecvRequest, RecvReq, SeqNo, DataEvents
<1>5. recvReqs' \in [Slot -> RecvReq]
  <2>1. recvReqs' = recvReqs \/ recvReqs' = [recvReqs EXCEPT ![w.slot] = Req]
    BY DEF ProcessChunk
  <2> HIDE DEF Req, w
  <2> QED BY <2>1, <1>2, <1>4 DEF RetransInv, RecvType
<1>6. recvSeq' \in SeqNo /\ acks' \in Seq(SeqNo)
  <2>1. AckSequence(w.seq) \/ UNCHANGED <<recvSeq, acks>> BY DEF ProcessChunk
  <2> QED BY <2>1, AckType DEF RetransInv, RecvType, NetType
<1>7. copied' \in [Msg -> Nat]
  <2>1. copied' = copied \/ copied' = [copied EXCEPT ![r.msg] = @ + 1]
    BY DEF ProcessChunk
  <2> HIDE DEF r
  <2> QED BY <2>1 DEF RetransInv, RecvType
<1>8. RecvType' BY <1>5, <1>6, <1>7 DEF ProcessChunk, RetransInv, RecvType
<1> QED BY <1>6, <1>8, TakeCompletion DEF ProcessChunk

LEMMA TestRecvInv ==
  ASSUME RetransInv, NEW s \in Slot, TestRecv(s)
  PROVE  RetransInv'
<1> USE ConstantsOfRetrans
<1>1. recvReqs[s] \in RecvReq BY DEF RetransInv, RecvType
<1>2. Unused(recvReqs[s].gen) \in RecvReq BY <1>1 DEF RecvReq, Unused, RecvRequest, NoSeq
<1>3. recvReqs[s].use.msg \in Msg BY <1>1 DEF RecvReq, TestRecv, Msg
<1>4. RecvType' BY <1>2, <1>3 DEF TestRecv, RetransInv, RecvType
<1>5. UNCHANGED <<posted, sendVars, netVars>> BY DEF TestRecv
<1>6. SendType' BY <1>5 DEF RetransInv, SendType, sendVars
<1>7. NetType' BY <1>5 DEF RetransInv, NetType, netVars
<1>8. Sent' = Sent BY <1>5 DEF Sent, sendVars
<1>9. SendInv' BY <1>5, <1>8 DEF RetransInv, SendInv, netVars
<1>10. HeldInv' BY <1>5 DEF RetransInv, HeldInv, sendVars
<1>11. WindowInv' BY <1>5 DEF RetransInv, WindowInv, sendVars, netVars
<1> QED BY <1>4, <1>6, <1>7, <1>9, <1>10, <1>11 DEF RetransInv

\* The message that Isend sends, and the set of those sent.
LEMMA IsendIs ==
  ASSUME RetransInv, Isend
  PROVE  LET m == Cardinality(Sent) + 1 IN
         /\ m \in Msg /\ m \notin Sent
         /\ Sent' = 1..m /\ Cardinality(Sent') = m
         /\ sends' = [sends EXCEPT ![m] = "active"]
         /\ Head(fifo) \in Announcement /\ fifo' \in Seq(Announcement)
         /\ Len(fifo') = Len(fifo) - 1 /\ Len(fifo) \in Nat
         /\ NewEntry(m, Head(fifo)) \in RetransEntry
<1> USE ConstantsOfRetrans
<1> DEFINE m == Cardinality(Sent) + 1
<1>1. Cardinality(Sent) \in 0..N /\ \A k \in Msg : k \in Sent <=> k <= Cardinality(Sent)
  BY SentIs DEF RetransInv
<1>2. /\ Head(fifo) \in Announcement /\ fifo' \in Seq(Announcement) /\ Len(fifo) >= 1
      /\ Len(fifo') = Len(fifo) - 1 /\ Len(fifo) \in Nat
  BY QueueSteps DEF Isend, RetransInv, NetType
<1>3. m \in Msg BY <1>1, <1>2 DEF RetransInv, SendInv, Msg
<1>4. m \notin Sent BY <1>1, <1>3
<1>5. sends' = [sends EXCEPT ![m] = "active"] BY DEF Isend
<1>6. Sent' = Sent \cup {m} BY <1>3, <1>5 DEF Sent, RetransInv, SendType
<1>7. Sent' = 1..m BY <1>1, <1>6 DEF RetransInv, SendInv
<1>8. Cardinality(Sent') = m BY <1>1, <1>7, FS_Interval
<1>9. NewEntry(m, Head(fifo)) \in RetransEntry
  BY <1>2, <1>3 DEF NewEntry, RetransEntry, Announcement, RetransInv, SendType, Now
<1> QED BY <1>2, <1>3, <1>4, <1>5, <1>7, <1>8, <1>9

\* The new entry goes behind those of the buffer.
LEMMA IsendBuffer ==
  ASSUME RetransInv, Isend
  PROVE  LET m == Cardinality(Sent) + 1 IN
         /\ buffer' \in Seq(RetransEntry) /\ Len(buffer') = Len(buffer) + 1
         /\ Len(buffer) \in Nat
         /\ \A j \in 1..Len(buffer) : buffer'[j].msg = buffer[j].msg /\ buffer[j].msg \in Msg
         /\ buffer'[Len(buffer) + 1].msg = m
<1> DEFINE m == Cardinality(Sent) + 1
           f == Head(fifo)
           b == Append(buffer, NewEntry(m, f))
<1>1. NewEntry(m, f) \in RetransEntry BY IsendIs
<1>2. buffer' = Ranked(b) BY DEF Isend
<1>3. /\ b \in Seq(RetransEntry) /\ Len(b) = Len(buffer) + 1
      /\ \A j \in 1..Len(buffer) : b[j] = buffer[j] /\ buffer[j] \in RetransEntry
      /\ b[Len(buffer) + 1].msg = m
      /\ Len(buffer) \in Nat
  <2>1. NewEntry(m, f).msg = m BY DEF NewEntry
  <2> HIDE DEF m, f
  <2> QED BY <2>1, <1>1, QueueSteps DEF RetransInv, SendType
<1>4. /\ buffer' \in Seq(RetransEntry) /\ Len(buffer') = Len(buffer) + 1
      /\ \A j \in 1..Len(buffer) : buffer'[j].msg = buffer[j].msg /\ buffer[j].msg \in Msg
      /\ buffer'[Len(buffer) + 1].msg = m
  <2>1. \A j \in 1..Len(buffer) : buffer[j].msg \in Msg BY <1>3 DEF RetransEntry
  <2> HIDE DEF b, m
  <2>2. /\ Ranked(b) \in Seq(RetransEntry) /\ Len(Ranked(b)) = Len(b)
        /\ \A j \in 1..Len(b) : Ranked(b)[j].msg = b[j].msg
    BY <1>3, RankedKeeps
  <2>3. Len(buffer) + 1 \in 1..Len(b) /\ \A j \in 1..Len(buffer) : j \in 1..Len(b)
    BY <1>3
  <2>4. \A j \in 1..Len(buffer) : Ranked(b)[j].msg = buffer[j].msg BY <1>3, <2>2, <2>3
  <2>5. Ranked(b)[Len(buffer) + 1].msg = m BY <1>3, <2>2, <2>3
  <2>6. buffer' = Ranked(b) BY <1>2
  <2> QED BY <2>1, <2>2, <2>4, <2>5, <2>6, <1>3
<1> QED BY <1>3, <1>4

LEMMA IsendInv == RetransInv /\ Isend => RetransInv'
<1> SUFFICES ASSUME RetransInv, Isend PROVE RetransInv' OBVIOUS
<1> USE ConstantsOfRetrans
<1> DEFINE m == Cardinality(Sent) + 1
           f == Head(fifo)
<1>1. /\ m \in Msg /\ m \notin Sent
      /\ Sent' = 1..m /\ Cardinality(Sent') = m
      /\ sends' = [sends EXCEPT ![m] = "active"]
      /\ f \in Announcement /\ fifo' \in Seq(Announcement)
      /\ Len(fifo') = Len(fifo) - 1 /\ Len(fifo) \in Nat
      /\ NewEntry(m, f) \in RetransEntry
  BY IsendIs
<1>2. /\ dest' = [dest EXCEPT ![m] = f]
      /\ uc' = [uc EXCEPT ![m] = [q \in Qp |-> "flight"]]
      /\ events' = [events EXCEPT ![m] = {"ack"}]
      /\ sendSeq' = (sendSeq + 1) % SeqMod
      /\ UNCHANGED <<recvVars, window, cq, rc, rcDone, acks>>
  BY DEF Isend
<1>3. Len(buffer) \in Nat BY IsendBuffer
<1>4. /\ buffer' \in Seq(RetransEntry) /\ Len(buffer') = Len(buffer) + 1
      /\ \A j \in 1..Len(buffer) : buffer'[j].msg = buffer[j].msg /\ buffer[j].msg \in Msg
      /\ buffer'[Len(buffer) + 1].msg = m
  BY IsendBuffer
<1>5. \A j \in 1..Len(buffer) : buffer[j].msg # m
  BY <1>1, <1>4 DEF RetransInv, HeldInv, Sent
<1> HIDE DEF m, f
<1>6. RecvType' BY <1>2 DEF RetransInv, RecvType, recvVars
<1>7. SendType'
  <2>1. sendSeq' \in SeqNo
    <3>1. sendSeq + 1 \in Int BY DEF RetransInv, SendType, SeqNo
    <3>2. \A x \in Int : x % SeqMod \in SeqNo BY Remainders DEF SeqNo
    <3> QED BY <1>2, <3>1, <3>2
  <2> QED BY <1>1, <1>2, <1>4, <2>1 DEF RetransInv, SendType
<1>8. NetType'
  <2>1. f \in [slot : 0..NSlots, gen : 0..GenMod-1]
    BY <1>1 DEF Announcement, Slot, Generation
  <2>2. dest' \in [Msg -> [slot : 0..NSlots, gen : 0..GenMod-1]]
    BY <1>1, <1>2, <2>1 DEF RetransInv, NetType
  <2>3. uc' \in [Msg -> [Qp -> {"none", "flight", "arrived", "lost"}]]
    BY <1>1, <1>2 DEF RetransInv, NetType
  <2> QED BY <1>1, <1>2, <2>2, <2>3 DEF RetransInv, NetType
<1>9. SendInv'
  <2>1. posted' = Cardinality(Sent') + Len(fifo')
    BY <1>1, <1>2, SentIs DEF RetransInv, SendInv, recvVars, m
  <2>2. posted' \in 0..N BY <1>2 DEF RetransInv, SendInv, recvVars
  <2>3. ASSUME NEW k \in Msg \ Sent', NEW q \in Qp PROVE uc'[k][q] = "none"
    <3>1. k # m BY <1>1 DEF Msg
    <3>2. k \notin Sent BY <1>1, SentIs DEF RetransInv, m, Msg
    <3> QED BY <3>1, <3>2, <1>2 DEF RetransInv, SendInv, NetType
  <2>4. ASSUME NEW k \in Sent' PROVE dest'[k] \in Announcement
    <3>1. k \in Msg BY DEF Sent
    <3>2. CASE k = m BY <3>2, <1>1, <1>2 DEF RetransInv, NetType
    <3>3. CASE k # m
      <4>1. k \in Sent BY <3>1, <3>3, <1>1, SentIs DEF RetransInv, m, Msg
      <4> QED BY <4>1, <3>1, <3>3, <1>2 DEF RetransInv, SendInv, NetType
    <3> QED BY <3>2, <3>3
  <2> QED BY <1>1, <2>1, <2>2, <2>3, <2>4 DEF SendInv
<1>10. HeldInv'
  <2>1. \A j \in 1..Len(buffer') : "ack" \in events'[buffer'[j].msg]
    <3> TAKE j \in 1..Len(buffer')
    <3>1. CASE j = Len(buffer) + 1 BY <3>1, <1>1, <1>2, <1>4 DEF RetransInv, SendType
    <3>2. CASE j # Len(buffer) + 1
      <4>1. j \in 1..Len(buffer) BY <3>2, <1>3, <1>4
      <4>2. "ack" \in events[buffer[j].msg] BY <4>1 DEF RetransInv, HeldInv
      <4>3. buffer'[j].msg = buffer[j].msg /\ buffer[j].msg \in Msg /\ buffer[j].msg # m
        BY <4>1, <1>4, <1>5
      <4> QED BY <4>2, <4>3, <1>1, <1>2 DEF RetransInv, SendType
    <3> QED BY <3>1, <3>2
  <2>2. \A i, j \in 1..Len(buffer') : i # j => buffer'[i].msg # buffer'[j].msg
    BY <1>3, <1>4, <1>5 DEF RetransInv, HeldInv
  <2>3. \A k \in Msg : sends'[k] \in {"none", "done"} => events'[k] = {}
    BY <1>1, <1>2 DEF RetransInv, HeldInv, SendType
  <2> QED BY <2>1, <2>2, <2>3 DEF HeldInv
<1>11. WindowInv'
  <2>1. window.outstanding > 0 => window.msg # m
    BY <1>1 DEF RetransInv, WindowInv, HeldInv, Sent
  <2> QED BY <1>2, <2>1 DEF RetransInv, WindowInv, SendType
<1> QED BY <1>6, <1>7, <1>8, <1>9, <1>10, <1>11 DEF RetransInv

\* How many entries an acknowledgement covers.
LEMMA CoveredIs ==
  ASSUME SendType, NEW a
  PROVE  /\ Covered(a) \in 0..Len(buffer)
         /\ \A j \in 1..Covered(a) : SeqLeq(buffer[j].seq, a)
<1> DEFINE S == {n \in 0..Len(buffer) : n < Len(buffer) => ~SeqLeq(buffer[n + 1].seq, a)}
<1>1. Len(buffer) \in Nat BY QueueSteps DEF SendType
<1>2. S \in SUBSET Nat /\ Len(buffer) \in S BY <1>1
<1>3. PICK n \in S : \A k \in S : n <= k
  <2> HIDE DEF S
  <2> QED BY <1>2, LeastNumber
<1>4. \A j \in 1..n : SeqLeq(buffer[j].seq, a)
  <2> SUFFICES ASSUME NEW j \in 1..n, ~SeqLeq(buffer[j].seq, a) PROVE FALSE OBVIOUS
  <2>1. n \in 0..Len(buffer) OBVIOUS
  <2>2. j - 1 \in 0..Len(buffer) /\ (j - 1) + 1 = j BY <2>1, <1>1
  <2>3. j - 1 \in S BY <2>2
  <2> HIDE DEF S
  <2>4. n <= j - 1 BY <2>3, <1>3
  <2> QED BY <2>1, <2>4, <1>1
<1>5. n \in 0..Len(buffer) /\ (n < Len(buffer) => ~SeqLeq(buffer[n + 1].seq, a)) OBVIOUS
<1> QED BY <1>4, <1>5 DEF Covered

\* What an acknowledgement leaves of the buffer and of the events.
LEMMA ProcessAckIs ==
  ASSUME RetransInv, ProcessAck
  PROVE  LET n == Covered(Head(acks)) IN
         /\ n \in 0..Len(buffer) /\ Len(buffer) \in Nat
         /\ buffer' \in Seq(RetransEntry) /\ Len(buffer') = Len(buffer) - n
         /\ \A j \in 1..Len(buffer') :
              /\ j + n \in 1..Len(buffer) /\ buffer[j + n] \in RetransEntry
              /\ buffer'[j].msg = buffer[j + n].msg /\ buffer'[j].seq = buffer[j + n].seq
              /\ buffer'[j].slot = buffer[j + n].slot /\ buffer'[j].gen = buffer[j + n].gen
<1> DEFINE n == Covered(Head(acks))
           b == SubSeq(buffer, n + 1, Len(buffer))
<1>1. n \in 0..Len(buffer) BY CoveredIs DEF RetransInv
<1>2. Len(buffer) \in Nat /\ buffer \in Seq(RetransEntry)
      /\ \A j \in 1..Len(buffer) : buffer[j] \in RetransEntry
  BY QueueSteps DEF RetransInv, SendType
<1>3. buffer' = Ranked(b) BY DEF ProcessAck
<1> HIDE DEF n
<1>4. /\ b \in Seq(RetransEntry) /\ Len(b) = Len(buffer) - n
      /\ \A j \in 1..Len(b) : b[j] = buffer[j + n] /\ j + n \in 1..Len(buffer)
  <2>1. n + 1 \in 1..Len(buffer)+1 /\ Len(buffer) \in 0..Len(buffer) BY <1>1, <1>2
  <2>2. \A k \in (n+1)..Len(buffer) : k \in 1..Len(buffer) BY <1>1, <1>2
  <2>3. \A j \in 1..Len(buffer)-n : (n + 1) + j - 1 = j + n /\ j + n \in 1..Len(buffer)
    BY <1>1, <1>2
  <2> QED BY <1>1, <1>2, <2>1, <2>2, <2>3, SubSeqProperties
<1> HIDE DEF b
<1>5. /\ Ranked(b) \in Seq(RetransEntry) /\ Len(Ranked(b)) = Len(b)
      /\ \A j \in 1..Len(b) :
           /\ Ranked(b)[j].msg = b[j].msg /\ Ranked(b)[j].seq = b[j].seq
           /\ Ranked(b)[j].slot = b[j].slot /\ Ranked(b)[j].gen = b[j].gen
  BY <1>4, RankedKeeps
<1> QED BY <1>1, <1>2, <1>3, <1>4, <1>5 DEF n

LEMMA ProcessAckInv == RetransInv /\ ProcessAck => RetransInv'
<1> SUFFICES ASSUME RetransInv, ProcessAck PROVE RetransInv' OBVIOUS
<1> DEFINE n == Covered(Head(acks))
           gone == {buffer[j].msg : j \in 1..n}
<1>1. /\ n \in 0..Len(buffer) /\ Len(buffer) \in Nat
      /\ buffer' \in Seq(RetransEntry) /\ Len(buffer') = Len(buffer) - n
      /\ \A j \in 1..Len(buffer') :
           /\ j + n \in 1..Len(buffer) /\ buffer[j + n] \in RetransEntry
           /\ buffer'[j].msg = buffer[j + n].msg
  BY ProcessAckIs
<1>2. /\ events' = [m \in Msg |-> IF m \in gone THEN events[m] \ {"ack"} ELSE events[m]]
      /\ acks # <<>> /\ acks' = Tail(acks)
      /\ UNCHANGED <<recvVars, sendSeq, sends, window, fifo, dest, uc, cq, rc, rcDone>>
  BY DEF ProcessAck
<1>3. RecvType' BY <1>2 DEF RetransInv, RecvType, recvVars
<1>4. acks' \in Seq(SeqNo) BY <1>2, QueueSteps DEF RetransInv, NetType
<1>5. NetType' BY <1>2, <1>4 DEF RetransInv, NetType
<1>6. ASSUME NEW j \in 1..Len(buffer') PROVE buffer'[j].msg \in Msg \ gone
  <2>1. \A i \in 1..n : i \in 1..Len(buffer) /\ i # j + n BY <1>1
  <2>2. buffer[j + n].msg \notin gone BY <1>1, <2>1 DEF RetransInv, HeldInv
  <2> QED BY <1>1, <2>2 DEF RetransEntry
<1> HIDE DEF n, gone
<1>7. SendType' BY <1>1, <1>2 DEF RetransInv, SendType
<1>8. Sent' = Sent BY <1>2 DEF Sent
<1>9. SendInv' BY <1>2, <1>8 DEF RetransInv, SendInv, recvVars
<1>10. HeldInv'
  <2>1. ASSUME NEW j \in 1..Len(buffer') PROVE "ack" \in events'[buffer'[j].msg]
    <3>1. "ack" \in events[buffer[j + n].msg] BY <1>1 DEF RetransInv, HeldInv
    <3> QED BY <3>1, <1>1, <1>2, <1>6
  <2>2. ASSUME NEW i \in 1..Len(buffer'), NEW j \in 1..Len(buffer'), i # j
        PROVE  buffer'[i].msg # buffer'[j].msg
    <3>1. i + n # j + n
      <4>1. n \in Int BY <1>1
      <4>2. i \in Int /\ j \in Int OBVIOUS
      <4> QED BY <4>1, <4>2, <2>2
    <3> QED BY <3>1, <1>1 DEF RetransInv, HeldInv
  <2>3. \A m \in Msg : sends'[m] \in {"none", "done"} => events'[m] = {}
    BY <1>2 DEF RetransInv, HeldInv
  <2> QED BY <2>1, <2>2, <2>3 DEF HeldInv
<1>11. WindowInv' BY <1>2 DEF RetransInv, WindowInv
<1> QED BY <1>3, <1>5, <1>7, <1>9, <1>10, <1>11 DEF RetransInv

LEMMA CompleteChunkInv == RetransInv /\ CompleteChunk => RetransInv'
<1> SUFFICES ASSUME RetransInv, CompleteChunk PROVE RetransInv' OBVIOUS
<1> DEFINE last == window.outstanding = 1
<1>1. /\ rcDone > 0 /\ rcDone' = rcDone - 1
      /\ window' = [msg |-> IF last THEN 0 ELSE window.msg,
                    outstanding |-> window.outstanding - 1]
      /\ events' = IF last THEN [events EXCEPT ![window.msg] = events[window.msg] \ {"window"}]
                   ELSE events
      /\ UNCHANGED <<recvVars, sendSeq, buffer, sends, fifo, dest, uc, cq, rc, acks>>
  BY DEF CompleteChunk
<1>2. /\ window.outstanding \in Nat /\ window.msg \in 0..N /\ Len(rc) \in Nat /\ rcDone \in Nat
      /\ \A k \in 1..Len(rc) : rc[k] \in Chunk
  BY QueueSteps DEF RetransInv, SendType, NetType
<1>3. /\ window.outstanding > 0 /\ window.msg \in Msg
      /\ Len(rc) + rcDone = window.outstanding
  BY <1>1, <1>2 DEF RetransInv, WindowInv
<1>4. RecvType' BY <1>1 DEF RetransInv, RecvType, recvVars
<1>5. SendType'
  <2>1. window' \in [msg : 0..N, outstanding : Nat] BY <1>1, <1>2, <1>3, ConstantsOfRetrans
  <2>2. events' \in [Msg -> SUBSET {"ack", "window"}] BY <1>1, <1>3 DEF RetransInv, SendType
  <2> QED BY <1>1, <2>1, <2>2 DEF RetransInv, SendType
<1>6. NetType' BY <1>1, <1>2 DEF RetransInv, NetType
<1>7. Sent' = Sent BY <1>1 DEF Sent
<1>8. SendInv' BY <1>1, <1>7 DEF RetransInv, SendInv, recvVars
<1>9. HeldInv'
  <2>1. \A m \in Msg : /\ "ack" \in events[m] => "ack" \in events'[m]
                       /\ events[m] = {} => events'[m] = {}
    BY <1>1, <1>3 DEF RetransInv, SendType
  <2>2. \A j \in 1..Len(buffer) : buffer[j].msg \in Msg
    <3>1. \A j \in 1..Len(buffer) : buffer[j] \in RetransEntry
      BY QueueSteps DEF RetransInv, SendType
    <3> QED BY <3>1 DEF RetransEntry
  <2> QED BY <1>1, <2>1, <2>2 DEF RetransInv, HeldInv
<1>10. WindowInv'
  <2>1. Len(rc') + rcDone' = window'.outstanding BY <1>1, <1>2, <1>3
  <2>2. window'.outstanding > 0 =>
          window'.msg \in Msg /\ "window" \in events'[window'.msg]
    BY <1>1, <1>2, <1>3 DEF RetransInv, WindowInv
  <2>3. ASSUME NEW k \in 1..Len(rc') PROVE rc'[k].msg = window'.msg
    <3>1. Len(rc) >= 1 /\ rc' = rc BY <1>1, <1>2
    <3>2. ~last BY <1>1, <1>2, <1>3, <3>1
    <3> QED BY <1>1, <3>1, <3>2 DEF RetransInv, WindowInv
  <2> QED BY <2>1, <2>2, <2>3 DEF WindowInv
<1> QED BY <1>4, <1>5, <1>6, <1>8, <1>9, <1>10 DEF RetransInv

\* A window of n chunks of entry j: what is posted, and the buffer after it.
ResendEffect(j, n, ch) ==
  /\ rc' = rc \o ch /\ Len(ch) = n
  /\ \A k \in 1..n : /\ ch[k].kind = "rc" /\ ch[k].msg = buffer[j].msg
                     /\ ch[k].seq = buffer[j].seq
                     /\ ch[k].slot = buffer[j].slot /\ ch[k].gen = buffer[j].gen
  /\ window' = [msg |-> buffer[j].msg, outstanding |-> n]
  /\ events' = [events EXCEPT ![buffer[j].msg] = events[buffer[j].msg] \cup {"window"}]
  /\ buffer' \in Seq(RetransEntry) /\ Len(buffer') = Len(buffer)
  /\ \A i \in 1..Len(buffer) :
       /\ buffer'[i].msg = buffer[i].msg /\ buffer'[i].seq = buffer[i].seq
       /\ buffer'[i].slot = buffer[i].slot /\ buffer'[i].gen = buffer[i].gen

LEMMA ResendIs ==
  ASSUME RetransInv, NEW j \in 1..Len(buffer), NEW c \in 0..NChunks, Resend(j, c)
  PROVE  \E n \in Nat, ch \in Seq(Chunk) : ResendEffect(j, n, ch)
<1> USE ConstantsOfRetrans
<1> DEFINE e == buffer[j]
           n == IF NChunks - c < Depth THEN NChunks - c ELSE Depth
           chunk(k) == [kind |-> "rc", msg |-> e.msg, seq |-> e.seq, slot |-> e.slot,
                        gen |-> e.gen, chunk |-> c + k - 1]
           ch == [k \in 1..n |-> chunk(k)]
           e2 == [e EXCEPT !.sent = Now, !.cursor = c + n, !.allPosted = (c + n = NChunks),
                           !.retry = IF c = 0 THEN e.retry + 1 ELSE e.retry]
           b == [buffer EXCEPT ![j] = e2]
<1>1. /\ rc' = rc \o ch /\ window' = [msg |-> e.msg, outstanding |-> n]
      /\ events' = [events EXCEPT ![e.msg] = events[e.msg] \cup {"window"}]
      /\ buffer' = Ranked(b)
  BY DEF Resend, HeldByWindow
<1>2. n \in Nat /\ c + n \in 0..NChunks OBVIOUS
<1>3. /\ Len(buffer) \in Nat /\ DOMAIN buffer = 1..Len(buffer) /\ buffer \in Seq(RetransEntry)
      /\ \A i \in 1..Len(buffer) : buffer[i] \in RetransEntry
  BY QueueSteps DEF RetransInv, SendType
<1>4. e \in RetransEntry BY <1>3
<1> HIDE DEF n
<1>5. \A k \in 1..n : chunk(k) \in Chunk /\ c + k - 1 \in 0..NChunks-1
  BY <1>2, <1>4 DEF Chunk, RetransEntry
<1>6. ch \in Seq(Chunk) /\ Len(ch) = n /\ \A k \in 1..n : ch[k] = chunk(k)
  <2>1. ch \in [1..n -> Chunk] /\ \A k \in 1..n : ch[k] = chunk(k) BY <1>5
  <2> HIDE DEF ch
  <2> QED BY <1>2, <2>1, SeqDef
<1>7. e2 \in RetransEntry /\ e2.msg = e.msg /\ e2.seq = e.seq /\ e2.slot = e.slot
      /\ e2.gen = e.gen
  <2> DEFINE retry == IF c = 0 THEN e.retry + 1 ELSE e.retry
             all == (c + n = NChunks)
             cursor == c + n
             now == Now
  <2>1. now \in Nat /\ retry \in Nat /\ all \in BOOLEAN /\ cursor \in 0..NChunks
    BY <1>2, <1>4 DEF Now, RetransEntry
  <2>2. [e EXCEPT !.sent = now, !.cursor = cursor, !.allPosted = all, !.retry = retry] = e2
    OBVIOUS
  <2> HIDE DEF e, retry, all, cursor, now, e2
  <2>3. /\ [e EXCEPT !.sent = now, !.cursor = cursor, !.allPosted = all, !.retry = retry]
             \in RetransEntry
        /\ \A f \in {"msg", "seq", "slot", "gen"} :
             [e EXCEPT !.sent = now, !.cursor = cursor, !.allPosted = all,
                       !.retry = retry][f] = e[f]
    BY <2>1, <1>4 DEF RetransEntry
  <2> HIDE DEF e2
  <2> QED BY <2>2, <2>3
<1>8. /\ b \in Seq(RetransEntry) /\ Len(b) = Len(buffer)
      /\ \A i \in 1..Len(buffer) : b[i] = IF i = j THEN e2 ELSE buffer[i]
  <2>1. b \in [1..Len(buffer) -> RetransEntry]
    <3> HIDE DEF e2
    <3> QED BY <1>3, <1>7, SeqDef
  <2>2. \A i \in 1..Len(buffer) : b[i] = IF i = j THEN e2 ELSE buffer[i]
    <3> HIDE DEF e2
    <3> QED BY <1>3
  <2> HIDE DEF b, e2
  <2>3. b \in Seq(RetransEntry) BY <1>3, <2>1, SeqDef
  <2>4. Len(b) = Len(buffer)
    <3>1. DOMAIN b = 1..Len(buffer) BY <2>1
    <3> QED BY <1>3, <2>3, <3>1
  <2> QED BY <2>2, <2>3, <2>4
<1> HIDE DEF b, e2
<1>9. /\ Ranked(b) \in Seq(RetransEntry) /\ Len(Ranked(b)) = Len(b)
      /\ \A i \in 1..Len(b) :
           /\ Ranked(b)[i].msg = b[i].msg /\ Ranked(b)[i].seq = b[i].seq
           /\ Ranked(b)[i].slot = b[i].slot /\ Ranked(b)[i].gen = b[i].gen
  BY <1>8, RankedKeeps
<1>10. \A i \in 1..Len(buffer) :
         /\ buffer'[i].msg = buffer[i].msg /\ buffer'[i].seq = buffer[i].seq
         /\ buffer'[i].slot = buffer[i].slot /\ buffer'[i].gen = buffer[i].gen
  BY <1>1, <1>7, <1>8, <1>9
<1>11. buffer' \in Seq(RetransEntry) /\ Len(buffer') = Len(buffer) BY <1>1, <1>8, <1>9
<1>12. \A k \in 1..n : /\ ch[k].kind = "rc" /\ ch[k].msg = e.msg /\ ch[k].seq = e.seq
                      /\ ch[k].slot = e.slot /\ ch[k].gen = e.gen
  BY <1>6
<1> HIDE DEF ch
<1> USE <1>2, <1>6
<1> WITNESS n \in Nat, ch \in Seq(Chunk)
<1> QED BY <1>1, <1>2, <1>6, <1>10, <1>11, <1>12 DEF ResendEffect

\* A window of chunks is posted only when none is outstanding.
LEMMA ResendInv ==
  ASSUME RetransInv, NEW j \in 1..Len(buffer), NEW c \in 0..NChunks, Resend(j, c),
         window.outstanding = 0,
         UNCHANGED <<recvVars, sendSeq, sends, fifo, dest, uc, cq, rcDone, acks>>
  PROVE  RetransInv'
<1>0. PICK n \in Nat, ch \in Seq(Chunk) : ResendEffect(j, n, ch) BY ResendIs
<1>1. /\ rc' = rc \o ch /\ Len(ch) = n
      /\ \A k \in 1..n : ch[k].msg = buffer[j].msg
      /\ window' = [msg |-> buffer[j].msg, outstanding |-> n]
      /\ events' = [events EXCEPT ![buffer[j].msg] = events[buffer[j].msg] \cup {"window"}]
      /\ buffer' \in Seq(RetransEntry) /\ Len(buffer') = Len(buffer)
      /\ \A i \in 1..Len(buffer) : buffer'[i].msg = buffer[i].msg
  BY <1>0 DEF ResendEffect
<1>2. /\ Len(buffer) \in Nat /\ \A i \in 1..Len(buffer) : buffer[i].msg \in Msg
  <2>1. Len(buffer) \in Nat /\ \A i \in 1..Len(buffer) : buffer[i] \in RetransEntry
    BY QueueSteps DEF RetransInv, SendType
  <2> QED BY <2>1 DEF RetransEntry
<1>3. rc = <<>> /\ rcDone = 0
  <2>1. rc \in Seq(Chunk) /\ Len(rc) \in Nat /\ rcDone \in Nat
    BY QueueSteps DEF RetransInv, NetType
  <2>2. Len(rc) = 0 /\ rcDone = 0 BY <2>1 DEF RetransInv, WindowInv
  <2> QED BY <2>1, <2>2
<1>4. rc' = ch BY <1>1, <1>3
<1>5. buffer[j].msg \in Msg BY <1>2
<1>6. RecvType' BY DEF RetransInv, RecvType, recvVars
<1>7. SendType'
  <2>1. window' \in [msg : 0..N, outstanding : Nat]
    BY <1>1, <1>5, ConstantsOfRetrans DEF Msg
  <2>2. events' \in [Msg -> SUBSET {"ack", "window"}]
    BY <1>1, <1>5 DEF RetransInv, SendType
  <2> QED BY <1>1, <2>1, <2>2 DEF RetransInv, SendType
<1>8. NetType' BY <1>4 DEF RetransInv, NetType
<1>9. Sent' = Sent BY DEF Sent
<1>10. SendInv' BY <1>9 DEF RetransInv, SendInv, recvVars
<1>11. HeldInv'
  <2>1. \A m \in Msg : "ack" \in events[m] => "ack" \in events'[m]
    BY <1>1, <1>5 DEF RetransInv, SendType
  <2>2. ~(sends[buffer[j].msg] \in {"none", "done"})
    BY <1>5 DEF RetransInv, HeldInv
  <2>3. \A m \in Msg : sends'[m] \in {"none", "done"} => events'[m] = {}
    BY <1>1, <1>5, <2>2 DEF RetransInv, HeldInv, SendType
  <2>4. \A i \in 1..Len(buffer') : "ack" \in events'[buffer'[i].msg]
    BY <1>1, <1>2, <2>1 DEF RetransInv, HeldInv
  <2>5. \A i, k \in 1..Len(buffer') : i # k => buffer'[i].msg # buffer'[k].msg
    BY <1>1, <1>2 DEF RetransInv, HeldInv
  <2> QED BY <2>3, <2>4, <2>5 DEF HeldInv
<1>12. WindowInv'
  <2>1. "window" \in events'[buffer[j].msg] BY <1>1, <1>5 DEF RetransInv, SendType
  <2>2. Len(rc') + rcDone' = n BY <1>1, <1>3, <1>4
  <2> QED BY <1>1, <1>4, <1>5, <2>1, <2>2 DEF WindowInv
<1> QED BY <1>6, <1>7, <1>8, <1>10, <1>11, <1>12 DEF RetransInv

LEMMA RetransmissionInv ==
  ASSUME RetransInv, NEW j, Continue(j) \/ Retransmit(j)
  PROVE  RetransInv'
<1>1. /\ j \in 1..Len(buffer) /\ window.outstanding = 0
      /\ UNCHANGED <<recvVars, sendSeq, sends, fifo, dest, uc, cq, rcDone, acks>>
  BY QueueSteps DEF Continue, Retransmit, TimedOut, RetransInv, SendType
<1>2. \E c \in 0..NChunks : Resend(j, c)
  <2>1. CASE Continue(j)
    <3>1. buffer[j] \in RetransEntry BY <1>1, QueueSteps DEF RetransInv, SendType
    <3>2. buffer[j].cursor \in 0..NChunks BY <3>1 DEF RetransEntry
    <3> QED BY <2>1, <3>2 DEF Continue
  <2>2. CASE Retransmit(j)
    <3>1. 0 \in 0..NChunks BY ConstantsOfRetrans
    <3> QED BY <2>2, <3>1 DEF Retransmit
  <2> QED BY <2>1, <2>2
<1> QED BY <1>1, <1>2, ResendInv

LEMMA SendCallsInv ==
  ASSUME RetransInv,
         \/ \E j : GiveUp(j)
         \/ \E m \in Msg : TestSend(m)
  PROVE  RetransInv'
<1>1. CASE \E j : GiveUp(j)
  <2>1. UNCHANGED <<recvVars, sendSeq, buffer, events, sends, window, netVars>>
    BY <1>1 DEF GiveUp
  <2>2. RecvType' BY <2>1 DEF RetransInv, RecvType, recvVars
  <2>3. SendType' BY <2>1 DEF RetransInv, SendType
  <2>4. NetType' BY <2>1 DEF RetransInv, NetType, netVars
  <2>5. Sent' = Sent BY <2>1 DEF Sent
  <2>6. SendInv' BY <2>1, <2>5 DEF RetransInv, SendInv, recvVars, netVars
  <2>7. HeldInv' BY <2>1 DEF RetransInv, HeldInv
  <2>8. WindowInv' BY <2>1 DEF RetransInv, WindowInv, netVars
  <2> QED BY <2>2, <2>3, <2>4, <2>6, <2>7, <2>8 DEF RetransInv
<1>2. ASSUME NEW m \in Msg, TestSend(m) PROVE RetransInv'
  <2>1. /\ sends[m] = "active"
        /\ commError \/ events[m] = {}
        /\ sends' = [sends EXCEPT ![m] = IF commError THEN "error" ELSE "done"]
        /\ UNCHANGED <<recvVars, sendSeq, buffer, events, window, netVars>>
    BY <1>2 DEF TestSend
  <2>2. RecvType' BY <2>1 DEF RetransInv, RecvType, recvVars
  <2>3. SendType' BY <2>1 DEF RetransInv, SendType
  <2>4. NetType' BY <2>1 DEF RetransInv, NetType, netVars
  <2>5. Sent' = Sent
    <3>1. \/ sends' = [sends EXCEPT ![m] = "error"]
          \/ sends' = [sends EXCEPT ![m] = "done"]
      <4>1. CASE commError BY <4>1, <2>1
      <4>2. CASE ~commError BY <4>2, <2>1
      <4> QED BY <4>1, <4>2
    <3>2. sends[m] = "active" BY <2>1
    <3>3. \A k \in Msg : sends'[k] = "none" <=> sends[k] = "none"
      BY <3>1, <3>2 DEF RetransInv, SendType
    <3> QED BY <3>3 DEF Sent
  <2>6. SendInv' BY <2>1, <2>5 DEF RetransInv, SendInv, recvVars, netVars
  <2>7. HeldInv' BY <2>1 DEF RetransInv, HeldInv, SendType
  <2>8. WindowInv' BY <2>1 DEF RetransInv, WindowInv, netVars
  <2> QED BY <2>2, <2>3, <2>4, <2>6, <2>7, <2>8 DEF RetransInv
<1> QED BY <1>1, <1>2

LEMMA DeliverIs ==
  ASSUME RetransInv, NEW m \in Msg, NEW q \in Qp, Deliver(m, q)
  PROVE  /\ m \in Sent /\ dest[m] \in Announcement
         /\ \E w \in Notice :
              /\ w.kind = "uc" /\ w.msg = m /\ w.seq = SeqOf(m)
              /\ w.slot = dest[m].slot /\ w.gen = dest[m].gen
              /\ cq' = Append(cq, w)
<1> DEFINE w == [kind |-> "uc", msg |-> m, seq |-> SeqOf(m),
                 slot |-> dest[m].slot, gen |-> dest[m].gen]
<1>1. m \in Sent BY DEF Deliver, NextOn, RetransInv, SendInv
<1>2. dest[m] \in Announcement BY <1>1 DEF RetransInv, SendInv
<1>3. SeqOf(m) \in SeqNo
  <2>1. \A x \in Int : x % SeqMod \in SeqNo BY ConstantsOfRetrans, Remainders DEF SeqNo
  <2> QED BY <2>1 DEF SeqOf, Msg
<1>4. w \in Notice BY <1>2, <1>3 DEF Notice, Announcement
<1>5. cq' = Append(cq, w) BY DEF Deliver
<1> QED BY <1>1, <1>2, <1>4, <1>5

LEMMA NotificationInv ==
  ASSUME RetransInv, NEW m \in Msg, NEW q \in Qp, Deliver(m, q) \/ Lose(m, q)
  PROVE  RetransInv'
<1>1. \E v \in {"arrived", "lost"} : uc' = [uc EXCEPT ![m][q] = v]
  BY DEF Deliver, Lose
<1>2. cq' \in Seq(Notice \cup Chunk)
  <2>1. CASE Deliver(m, q)
    <3>1. PICK w \in Notice : cq' = Append(cq, w) BY <2>1, DeliverIs
    <3> QED BY <3>1, QueueSteps DEF RetransInv, NetType
  <2>2. CASE Lose(m, q) BY <2>2 DEF Lose, RetransInv, NetType
  <2> QED BY <2>1, <2>2
<1>3. UNCHANGED <<recvVars, sendVars, fifo, dest, rc, rcDone, acks>> BY DEF Deliver, Lose
<1>4. m \in Sent BY DEF Deliver, Lose, NextOn, RetransInv, SendInv
<1>5. RecvType' BY <1>3 DEF RetransInv, RecvType, recvVars
<1>6. SendType' BY <1>3 DEF RetransInv, SendType, sendVars
<1>7. NetType'
  <2>1. uc' \in [Msg -> [Qp -> {"none", "flight", "arrived", "lost"}]]
    BY <1>1 DEF RetransInv, NetType
  <2> QED BY <1>2, <1>3, <2>1 DEF RetransInv, NetType
<1>8. Sent' = Sent BY <1>3 DEF Sent, sendVars
<1>9. SendInv'
  <2>1. \A k \in Msg \ Sent : uc'[k] = uc[k] BY <1>1, <1>4 DEF RetransInv, NetType
  <2> QED BY <1>3, <1>8, <2>1 DEF RetransInv, SendInv, recvVars
<1>10. HeldInv' BY <1>3 DEF RetransInv, HeldInv, sendVars
<1>11. WindowInv' BY <1>3 DEF RetransInv, WindowInv, sendVars
<1> QED BY <1>5, <1>6, <1>7, <1>9, <1>10, <1>11 DEF RetransInv

LEMMA DeliverChunkInv == RetransInv /\ DeliverChunk => RetransInv'
<1> SUFFICES ASSUME RetransInv, DeliverChunk PROVE RetransInv' OBVIOUS
<1>1. /\ rc # <<>> /\ rc' = Tail(rc) /\ cq' = Append(cq, Head(rc)) /\ rcDone' = rcDone + 1
      /\ UNCHANGED <<recvVars, sendVars, fifo, dest, uc, acks>>
  BY DEF DeliverChunk
<1>2. /\ Head(rc) \in Chunk /\ rc' \in Seq(Chunk) /\ Len(rc) \in Nat
      /\ Len(rc') = Len(rc) - 1 /\ \A k \in 1..Len(rc') : rc'[k] = rc[k + 1] /\ k + 1 \in 1..Len(rc)
  BY <1>1, QueueSteps DEF RetransInv, NetType
<1>3. cq' \in Seq(Notice \cup Chunk) BY <1>1, <1>2, QueueSteps DEF RetransInv, NetType
<1>4. RecvType' BY <1>1 DEF RetransInv, RecvType, recvVars
<1>5. SendType' BY <1>1 DEF RetransInv, SendType, sendVars
<1>6. NetType' BY <1>1, <1>2, <1>3 DEF RetransInv, NetType
<1>7. Sent' = Sent BY <1>1 DEF Sent, sendVars
<1>8. SendInv' BY <1>1, <1>7 DEF RetransInv, SendInv, recvVars
<1>9. HeldInv' BY <1>1 DEF RetransInv, HeldInv, sendVars
<1>10. WindowInv'
  <2>1. Len(rc') + rcDone' = window'.outstanding
    BY <1>1, <1>2 DEF RetransInv, WindowInv, sendVars, NetType
  <2>2. \A k \in 1..Len(rc') : rc'[k].msg = window'.msg
    BY <1>1, <1>2 DEF RetransInv, WindowInv, sendVars
  <2> QED BY <1>1, <2>1, <2>2 DEF RetransInv, WindowInv, sendVars
<1> QED BY <1>4, <1>5, <1>6, <1>8, <1>9, <1>10 DEF RetransInv

\* The data writes, of which neither side knows what became, and stuttering.
DataStep == UNCHANGED <<recvVars, sendVars, fifo, dest, uc, cq, rc, rcDone, acks>>

LEMMA DataSteps ==
  /\ \A m \in Msg, q \in Qp : DeliverData(m, q) \/ LoseData(m, q) => DataStep
  /\ UNCHANGED retransVars => DataStep
BY DEF DeliverData, LoseData, DataStep, retransVars, netVars

LEMMA DataInv == RetransInv /\ DataStep => RetransInv'
<1> SUFFICES ASSUME RetransInv, DataStep PROVE RetransInv' OBVIOUS
<1>1. UNCHANGED <<recvVars, sendVars, fifo, dest, uc, cq, rc, rcDone, acks>> BY DEF DataStep
<1>2. RecvType' BY <1>1 DEF RetransInv, RecvType, recvVars
<1>3. SendType' BY <1>1 DEF RetransInv, SendType, sendVars
<1>4. NetType' BY <1>1 DEF RetransInv, NetType
<1>5. Sent' = Sent BY <1>1 DEF Sent, sendVars
<1>6. SendInv' BY <1>1, <1>5 DEF RetransInv, SendInv, recvVars
<1>7. HeldInv' BY <1>1 DEF RetransInv, HeldInv, sendVars
<1>8. WindowInv' BY <1>1 DEF RetransInv, WindowInv, sendVars
<1> QED BY <1>2, <1>3, <1>4, <1>6, <1>7, <1>8 DEF RetransInv

LEMMA RetransInvStep == RetransInv /\ [RetransNext]_retransVars => RetransInv'
<1> SUFFICES ASSUME RetransInv, [RetransNext]_retransVars PROVE RetransInv' OBVIOUS
<1>1. CASE Irecv BY <1>1, IrecvInv
<1>2. CASE ProcessNotification BY <1>2, ProcessNotificationInv
<1>3. CASE ProcessChunk BY <1>3, ProcessChunkInv
<1>4. CASE \E s \in Slot : TestRecv(s) BY <1>4, TestRecvInv
<1>5. CASE Isend BY <1>5, IsendInv
<1>6. CASE ProcessAck BY <1>6, ProcessAckInv
<1>7. CASE CompleteChunk BY <1>7, CompleteChunkInv
<1>8. CASE \E m \in Msg : TestSend(m) BY <1>8, SendCallsInv
<1>9. CASE \E j \in 1..NSlots : Continue(j) \/ Retransmit(j) BY <1>9, RetransmissionInv
<1>10. CASE \E j \in 1..NSlots : GiveUp(j) BY <1>10, SendCallsInv
<1>11. CASE \E m \in Msg, q \in Qp : Deliver(m, q) \/ Lose(m, q) BY <1>11, NotificationInv
<1>12. CASE DeliverChunk BY <1>12, DeliverChunkInv
<1>13. CASE DataStep BY <1>13, DataInv
<1> QED BY <1>1, <1>2, <1>3, <1>4, <1>5, <1>6, <1>7, <1>8, <1>9, <1>10, <1>11, <1>12, <1>13,
     DataSteps DEF RetransNext

\* The state of both sides has its type, and what holds a send is accounted
\* for: an entry of the buffer by its acknowledgement, chunks under way by
\* their window.
THEOREM RetransInvariant == RetransSpec => []RetransInv
BY RetransInvInit, RetransInvStep, PTL DEF RetransSpec

\* The source buffer of a send that is done is read by nothing any more, for
\* any number of messages, slots, chunks and losses, and however often the
\* sequence numbers come around.
THEOREM SourceSafety == RetransSpec => []SourceHeld
<1>1. RetransInv => SourceHeld
  <2> SUFFICES ASSUME RetransInv, NEW m \in Msg, sends[m] = "done"
               PROVE  ~Retained(m) /\ \A k \in DOMAIN rc : rc[k].msg # m
    BY DEF SourceHeld
  <2>1. events[m] = {} BY DEF RetransInv, HeldInv
  <2>2. DOMAIN buffer = 1..Len(buffer) /\ DOMAIN rc = 1..Len(rc)
        /\ Len(rc) \in Nat
    BY QueueSteps DEF RetransInv, SendType, NetType
  <2>3. ~Retained(m) BY <2>1, <2>2 DEF Retained, RetransInv, HeldInv
  <2>4. ASSUME NEW k \in DOMAIN rc, rc[k].msg = m PROVE FALSE
    <3>1. Len(rc) > 0 /\ window.msg = m
      BY <2>2, <2>4 DEF RetransInv, WindowInv
    <3>2. window.outstanding > 0
      BY <2>2, <3>1 DEF RetransInv, WindowInv, NetType, SendType
    <3> QED BY <2>1, <3>1, <3>2 DEF RetransInv, WindowInv
  <2> QED BY <2>3, <2>4
<1> QED BY <1>1, RetransInvariant, PTL

-----------------------------------------------------------------------------
(* Slots and generations *)

\* The receive that message m was, or will be, sent to.
Announced(m) == IF m \in Sent THEN dest[m] ELSE fifo[m - Cardinality(Sent)]

\* The generation d uses of a slot after generation g: zero is left out.
Adv(g, d) == ((g - 1 + d) % (GenMod - 1)) + 1

\* The uses of a slot are numbered in their order, however often the numbers
\* come around: from a receive to a later one of its slot, and to the number
\* the slot has now, is as many steps as there were receives at most.  The
\* receive that has a slot is the last that had it.
GenerationInv ==
  /\ \A m \in 1..posted : \E d \in 0..posted-m :
       recvReqs[Announced(m).slot].gen = Adv(Announced(m).gen, d)
  /\ \A m, k \in 1..posted :
       m < k /\ Announced(m).slot = Announced(k).slot =>
         \E d \in 1..k-m : Announced(k).gen = Adv(Announced(m).gen, d)
  /\ \A m \in 1..posted :
       recvReqs[Announced(m).slot].use.msg # 0 => m <= recvReqs[Announced(m).slot].use.msg

\* A receive has its slot until test reports it done.
SlotInv ==
  /\ received \subseteq 1..posted
  /\ \A s \in Slot, m \in Msg : recvReqs[s].use.msg = m =>
       /\ m \in 1..posted /\ m \notin received
       /\ Announced(m).slot = s /\ Announced(m).gen = recvReqs[s].gen
       /\ recvReqs[s].use.seq \in {NoSeq, SeqOf(m)}
  /\ \A m \in 1..posted : m \notin received => recvReqs[Announced(m).slot].use.msg = m

\* What is under way names the receive of its message.
Addressed(w) ==
  /\ w.msg \in Sent
  /\ dest[w.msg].slot = w.slot /\ dest[w.msg].gen = w.gen
  /\ w.seq = SeqOf(w.msg)

PacketInv ==
  /\ sendSeq = SeqOf(Cardinality(Sent) + 1)
  /\ \A k \in 1..Len(cq) : Addressed(cq[k])
  /\ \A k \in 1..Len(rc) : Addressed(rc[k])
  /\ \A j \in 1..Len(buffer) : Addressed(buffer[j])

AddressInv == GenerationInv /\ SlotInv /\ PacketInv

LEMMA AnnouncedType ==
  ASSUME RetransInv
  PROVE  \A m \in 1..posted : /\ Announced(m) \in Announcement /\ Announced(m).slot \in Slot
                              /\ Announced(m).gen \in Generation
<1> SUFFICES ASSUME NEW m \in 1..posted PROVE Announced(m) \in Announcement BY DEF Announcement
<1>1. m \in Msg /\ posted \in Nat BY ConstantsOfRetrans DEF RetransInv, SendInv, Msg
<1>2. Cardinality(Sent) \in 0..N /\ (m \in Sent <=> m <= Cardinality(Sent))
  BY <1>1, SentIs DEF RetransInv
<1>3. CASE m \in Sent BY <1>3 DEF Announced, RetransInv, SendInv
<1>4. CASE m \notin Sent
  <2>1. Len(fifo) \in Nat /\ \A i \in 1..Len(fifo) : fifo[i] \in Announcement
    BY QueueSteps DEF RetransInv, NetType
  <2>2. m - Cardinality(Sent) \in 1..Len(fifo)
    BY <1>1, <1>2, <1>4, <2>1, ConstantsOfRetrans DEF RetransInv, SendInv
  <2> QED BY <1>4, <2>1, <2>2 DEF Announced
<1> QED BY <1>3, <1>4

\* No step but Irecv posts a receive, and none changes an announcement.
LEMMA AnnouncedSame ==
  ASSUME Sent' = Sent, UNCHANGED <<dest, fifo>>
  PROVE  \A m : Announced(m)' = Announced(m)
BY DEF Announced

LEMMA NextRemainder ==
  ASSUME NEW M \in Nat \ {0}, NEW k \in Nat
  PROVE  ((k % M) + 1) % M = (k + 1) % M
<1> DEFINE q == k \div M
           r == k % M
<1>1. q \in Nat /\ r \in 0..M-1 /\ k = M * q + r OBVIOUS
<1> HIDE DEF q, r
<1>2. \A a \in Nat, b \in 0..M-1 : (M * a + b) % M = b OBVIOUS
<1>3. CASE r + 1 < M
  <2>1. (M * q + (r + 1)) % M = r + 1 BY <1>1, <1>2, <1>3
  <2>2. (r + 1) % M = r + 1 BY <1>1, <1>3
  <2>3. k + 1 = M * q + (r + 1) BY <1>1
  <2> QED BY <2>1, <2>2, <2>3 DEF r
<1>4. CASE r + 1 = M
  <2>1. (M * (q + 1) + 0) % M = 0 BY <1>1, <1>2, <1>4
  <2>2. (r + 1) % M = 0 BY <1>1, <1>4
  <2>3. k + 1 = M * (q + 1) + 0 BY <1>1, <1>4
  <2> QED BY <2>1, <2>2, <2>3 DEF r
<1> QED BY <1>1, <1>3, <1>4

\* Two numbers less than a turn apart that leave the same remainder.
LEMMA SameRemainder ==
  ASSUME NEW M \in Nat \ {0}, NEW x \in Nat, NEW y \in Nat,
         x % M = y % M, x - y < M, y - x < M
  PROVE  x = y
<1> DEFINE q == x \div M
           p == y \div M
           r == x % M
<1>1. q \in Nat /\ p \in Nat /\ r \in 0..M-1 /\ x = M * q + r /\ y = M * p + r OBVIOUS
<1> HIDE DEF q, p, r
<1>2. \A a, b \in Nat : a > b => M * a >= M * b + M
  <2> TAKE a, b \in Nat
  <2>1. M * (b + 1) = M * b + M OBVIOUS
  <2>2. a > b => M * a >= M * (b + 1) OBVIOUS
  <2> QED BY <2>1, <2>2
<1>3. M * q \in Nat /\ M * p \in Nat BY <1>1
<1>4. ~(q > p)
  <2> SUFFICES ASSUME q > p PROVE FALSE OBVIOUS
  <2>1. M * q >= M * p + M BY <1>1, <1>2
  <2> QED BY <1>1, <1>3, <2>1
<1>5. ~(p > q)
  <2> SUFFICES ASSUME p > q PROVE FALSE OBVIOUS
  <2>1. M * p >= M * q + M BY <1>1, <1>2
  <2> QED BY <1>1, <1>3, <2>1
<1>6. q = p BY <1>1, <1>4, <1>5
<1> QED BY <1>1, <1>6

\* Generations step by step, and not the same before a turn is over.
LEMMA AdvIs ==
  ASSUME NEW g \in Generation
  PROVE  /\ Adv(g, 0) = g
         /\ \A d \in Nat : Adv(g, d) \in Generation
         /\ \A d \in Nat : NextGeneration(Adv(g, d)) = Adv(g, d + 1)
         /\ \A d \in 1..GenMod-2 : Adv(g, d) # g
<1> DEFINE M == GenMod - 1
<1>1. M \in Nat \ {0} /\ GenMod = M + 1 /\ g \in 1..M BY ConstantsOfRetrans DEF Generation
<1>2. /\ \A x \in Int : x % M \in 0..M-1
      /\ \A x \in 0..M-1 : x % M = x
      /\ M % M = 0
  BY <1>1, Remainders
<1>3. \A d : Adv(g, d) = ((g - 1 + d) % M) + 1 BY DEF Adv
<1> HIDE DEF M
<1>4. Adv(g, 0) = g
  <2>1. g - 1 + 0 \in 0..M-1 /\ (g - 1 + 0) + 1 = g BY <1>1
  <2> QED BY <1>2, <1>3, <2>1
<1>5. ASSUME NEW d \in Nat PROVE Adv(g, d) \in 1..M
  <2>1. g - 1 + d \in Int BY <1>1
  <2> QED BY <1>1, <1>2, <1>3, <2>1
<1>6. ASSUME NEW d \in Nat PROVE NextGeneration(Adv(g, d)) = Adv(g, d + 1)
  <2> DEFINE k == g - 1 + d
             h == Adv(g, d)
  <2>1. k \in Nat /\ g - 1 + (d + 1) = k + 1 BY <1>1
  <2>2. h = (k % M) + 1 /\ Adv(g, d + 1) = ((k + 1) % M) + 1 BY <1>3, <2>1
  <2>3. h \in 1..M BY <1>5
  <2> HIDE DEF k, h
  <2>4. ((k % M) + 1) % M = (k + 1) % M BY <1>1, <2>1, NextRemainder
  <2>5. Adv(g, d + 1) = (h % M) + 1 BY <2>2, <2>4
  <2>6. NextGeneration(h) = IF h = M THEN 1 ELSE h + 1
    <3>1. h \in 0..GenMod-1 /\ (h = GenMod - 1 <=> h = M) BY <1>1, <2>3
    <3> QED BY <3>1, NextGenerationIs
  <2>7. h % M = IF h = M THEN 0 ELSE h
    <3>1. h # M => h \in 0..M-1 BY <1>1, <2>3
    <3> QED BY <1>2, <3>1
  <2> QED BY <1>1, <2>5, <2>6, <2>7 DEF h
<1>7. ASSUME NEW d \in 1..GenMod-2, Adv(g, d) = g PROVE FALSE
  <2> DEFINE x == g - 1 + d
             y == g - 1
  <2>1. x \in Nat /\ y \in 0..M-1 /\ y \in Nat /\ x - y < M /\ y - x < M /\ x # y BY <1>1
  <2>2. (x % M) + 1 = g BY <1>3, <1>7
  <2>3. x % M = y
    <3>1. x % M \in Int BY <1>2, <2>1
    <3> HIDE DEF x
    <3> QED BY <2>2, <3>1, <1>1
  <2> HIDE DEF x, y
  <2>4. y % M = y BY <1>2, <2>1
  <2> QED BY <1>1, <2>1, <2>3, <2>4, SameRemainder
<1> QED BY <1>1, <1>4, <1>5, <1>6, <1>7 DEF Generation

LEMMA AddressInit == RetransInit => AddressInv
<1> SUFFICES ASSUME RetransInit PROVE AddressInv OBVIOUS
<1>1. Sent = {} /\ Cardinality(Sent) = 0 BY FS_EmptySet DEF RetransInit, Sent
<1>2. GenerationInv BY DEF RetransInit, GenerationInv, Unused, RecvRequest
<1>3. SlotInv
  <2>1. posted = 0 /\ received = {} /\ 1..posted = {} BY DEF RetransInit
  <2>2. \A s \in Slot : recvReqs[s].use.msg = 0 BY DEF RetransInit, Unused, RecvRequest
  <2>3. 0 \notin Msg BY DEF Msg
  <2> QED BY <2>1, <2>2, <2>3 DEF SlotInv
<1>4. SeqOf(1) = 0 BY ConstantsOfRetrans DEF SeqOf
<1>5. PacketInv BY <1>1, <1>4 DEF RetransInit, PacketInv
<1> QED BY <1>2, <1>3, <1>5 DEF AddressInv

LEMMA IrecvAnnounces ==
  ASSUME RetransInv, Irecv, NEW s \in Slot, NEW g \in Generation,
         fifo' = Append(fifo, [slot |-> s, gen |-> g])
  PROVE  /\ \A m \in 1..posted : Announced(m)' = Announced(m)
         /\ \A m : m = posted + 1 => Announced(m)' = [slot |-> s, gen |-> g]
<1> DEFINE f == [slot |-> s, gen |-> g]
<1>1. f \in Announcement BY DEF Announcement
<1> HIDE DEF f
<1>2. /\ Len(fifo) \in Nat /\ \A i \in 1..Len(fifo) : fifo'[i] = fifo[i]
      /\ fifo'[Len(fifo) + 1] = f
  BY <1>1, QueueSteps DEF RetransInv, NetType, f
<1>3. Sent' = Sent /\ dest' = dest BY DEF Irecv, sendVars, Sent
<1>4. posted \in Nat /\ posted < N /\ posted = Cardinality(Sent) + Len(fifo)
  BY ConstantsOfRetrans DEF Irecv, RetransInv, SendInv
<1>5. Cardinality(Sent) \in 0..N /\ \A m \in Msg : m \in Sent <=> m <= Cardinality(Sent)
  BY SentIs DEF RetransInv
<1>6. ASSUME NEW m \in 1..posted PROVE Announced(m)' = Announced(m)
  <2>1. CASE m \in Sent BY <2>1, <1>3 DEF Announced
  <2>2. CASE m \notin Sent
    <3>1. m \in Msg BY <1>4, ConstantsOfRetrans DEF Msg
    <3>2. m - Cardinality(Sent) \in 1..Len(fifo) BY <2>2, <3>1, <1>2, <1>4, <1>5
    <3> QED BY <2>2, <3>2, <1>2, <1>3 DEF Announced
  <2> QED BY <2>1, <2>2
<1>7. ASSUME NEW m, m = posted + 1 PROVE Announced(m)' = f
  <2>1. posted + 1 \in Msg /\ posted + 1 \notin Sent
    BY <1>2, <1>4, <1>5, ConstantsOfRetrans DEF Msg
  <2>2. (posted + 1) - Cardinality(Sent) = Len(fifo) + 1 BY <1>2, <1>4, <1>5
  <2> QED BY <2>1, <2>2, <1>2, <1>3, <1>7 DEF Announced
<1> QED BY <1>6, <1>7 DEF f

LEMMA IrecvAddress ==
  ASSUME RetransInv, AddressInv, Irecv
  PROVE  AddressInv'
<1> USE ConstantsOfRetrans
<1>1. PICK s \in Slot, g \in Generation :
           /\ g = NextGeneration(recvReqs[s].gen)
           /\ recvReqs[s].use.msg = 0
           /\ recvReqs' = [recvReqs EXCEPT ![s] = RecvRequest(g, posted + 1, SeqMod, NQps, 0)]
           /\ fifo' = Append(fifo, [slot |-> s, gen |-> g])
  BY IrecvIs
<1>2. /\ \A m \in 1..posted : Announced(m)' = Announced(m)
      /\ \A m : m = posted + 1 => Announced(m)' = [slot |-> s, gen |-> g]
  BY <1>1, IrecvAnnounces
<1>3. /\ posted \in Nat /\ posted < N /\ posted' = posted + 1
      /\ UNCHANGED <<received, sends, dest, cq, rc, buffer, sendSeq>>
  BY DEF Irecv, RetransInv, SendInv, sendVars
<1>5. /\ recvReqs'[s].gen = g /\ recvReqs'[s].use.msg = posted + 1
      /\ recvReqs'[s].use.seq = SeqMod
      /\ \A t \in Slot : t # s => recvReqs'[t] = recvReqs[t]
  BY <1>1 DEF RetransInv, RecvType, RecvRequest
<1>6. \A m \in 1..posted : Announced(m).slot \in Slot /\ Announced(m).gen \in Generation
  BY AnnouncedType
<1>8. \A m \in 1..posted' : m \in 1..posted \/ m = posted + 1 BY <1>3
<1>9. GenerationInv'
  <2>1. ASSUME NEW m \in 1..posted, Announced(m).slot = s
        PROVE  \E d \in 1..(posted + 1) - m : g = Adv(Announced(m).gen, d)
    <3>1. PICK d \in 0..posted-m : recvReqs[s].gen = Adv(Announced(m).gen, d)
      BY <2>1 DEF AddressInv, GenerationInv
    <3>2. d \in Nat /\ d + 1 \in 1..(posted + 1) - m BY <1>3, <3>1
    <3>3. NextGeneration(Adv(Announced(m).gen, d)) = Adv(Announced(m).gen, d + 1)
      <4>1. Announced(m).gen \in Generation BY <1>6
      <4> QED BY <3>2, <4>1, AdvIs
    <3>4. g = Adv(Announced(m).gen, d + 1) BY <1>1, <3>1, <3>3
    <3> QED BY <3>2, <3>4
  <2>2. ASSUME NEW m \in 1..posted'
        PROVE  \E d \in 0..posted'-m :
                 recvReqs'[Announced(m)'.slot].gen = Adv(Announced(m)'.gen, d)
    <3>1. CASE m \in 1..posted /\ Announced(m).slot = s
      <4>1. PICK d \in 1..(posted + 1) - m : g = Adv(Announced(m).gen, d) BY <2>1, <3>1
      <4>2. d \in 0..posted'-m BY <1>3, <3>1
      <4> QED BY <1>2, <1>5, <3>1, <4>1, <4>2
    <3>2. CASE m \in 1..posted /\ Announced(m).slot # s
      <4>1. PICK d \in 0..posted-m :
              recvReqs[Announced(m).slot].gen = Adv(Announced(m).gen, d)
        BY <3>2 DEF AddressInv, GenerationInv
      <4>2. d \in 0..posted'-m BY <1>3, <3>2
      <4> QED BY <1>2, <1>5, <1>6, <3>2, <4>1, <4>2
    <3>3. CASE m = posted + 1
      <4>1. 0 \in 0..posted'-m BY <1>3, <3>3
      <4>2. Announced(m)'.slot = s /\ Announced(m)'.gen = g BY <1>2, <3>3
      <4>3. Adv(g, 0) = g BY AdvIs
      <4> QED BY <1>5, <4>1, <4>2, <4>3
    <3> QED BY <3>1, <3>2, <3>3, <1>8
  <2>3. ASSUME NEW m \in 1..posted', NEW k \in 1..posted', m < k,
               Announced(m)'.slot = Announced(k)'.slot
        PROVE  \E d \in 1..k-m : Announced(k)'.gen = Adv(Announced(m)'.gen, d)
    <3>1. m \in 1..posted BY <1>3, <2>3
    <3>2. CASE k \in 1..posted BY <2>3, <3>1, <3>2, <1>2 DEF AddressInv, GenerationInv
    <3>3. CASE k = posted + 1
      <4>1. Announced(m).slot = s /\ Announced(k)'.gen = g BY <2>3, <3>1, <3>3, <1>2
      <4> QED BY <2>1, <3>1, <3>3, <4>1, <1>2
    <3> QED BY <3>2, <3>3, <1>8
  <2>4. ASSUME NEW m \in 1..posted', recvReqs'[Announced(m)'.slot].use.msg # 0
        PROVE  m <= recvReqs'[Announced(m)'.slot].use.msg
    <3>1. CASE m \in 1..posted /\ Announced(m).slot # s
      BY <1>2, <1>5, <1>6, <2>4, <3>1 DEF AddressInv, GenerationInv
    <3>2. CASE m \in 1..posted /\ Announced(m).slot = s BY <1>2, <1>3, <1>5, <3>2
    <3>3. CASE m = posted + 1 BY <1>2, <1>3, <1>5, <3>3
    <3> QED BY <3>1, <3>2, <3>3, <1>8
  <2> QED BY <2>2, <2>3, <2>4 DEF GenerationInv
<1>10. SlotInv'
  <2>1. received' \subseteq 1..posted' BY <1>3 DEF AddressInv, SlotInv
  <2>2. ASSUME NEW t \in Slot, NEW m \in Msg, recvReqs'[t].use.msg = m
        PROVE  /\ m \in 1..posted' /\ m \notin received'
               /\ Announced(m)'.slot = t /\ Announced(m)'.gen = recvReqs'[t].gen
               /\ recvReqs'[t].use.seq \in {NoSeq, SeqOf(m)}
    <3>1. CASE t = s
      <4>1. posted + 1 \notin received BY <1>3 DEF AddressInv, SlotInv
      <4> QED BY <2>2, <3>1, <4>1, <1>2, <1>3, <1>5 DEF NoSeq
    <3>2. CASE t # s
      <4>1. recvReqs'[t] = recvReqs[t] BY <3>2, <1>5
      <4>2. /\ m \in 1..posted /\ m \notin received
            /\ Announced(m).slot = t /\ Announced(m).gen = recvReqs[t].gen
            /\ recvReqs[t].use.seq \in {NoSeq, SeqOf(m)}
        BY <2>2, <4>1 DEF AddressInv, SlotInv
      <4> QED BY <4>1, <4>2, <1>2, <1>3
    <3> QED BY <3>1, <3>2
  <2>3. ASSUME NEW m \in 1..posted', m \notin received'
        PROVE  recvReqs'[Announced(m)'.slot].use.msg = m
    <3>1. CASE m \in 1..posted
      <4>1. recvReqs[Announced(m).slot].use.msg = m
        BY <2>3, <3>1, <1>3 DEF AddressInv, SlotInv
      <4>2. Announced(m).slot # s BY <3>1, <4>1, <1>1, <1>3
      <4> QED BY <3>1, <4>1, <4>2, <1>2, <1>5, <1>6
    <3>2. CASE m = posted + 1 BY <3>2, <1>2, <1>5
    <3> QED BY <3>1, <3>2, <1>8
  <2> QED BY <2>1, <2>2, <2>3 DEF SlotInv
<1>11. PacketInv'
  <2>1. Sent' = Sent BY <1>3 DEF Sent
  <2> QED BY <2>1, <1>3 DEF AddressInv, PacketInv, Addressed
<1> QED BY <1>9, <1>10, <1>11 DEF AddressInv

\* "A stale completion must not be applied to a reused request"
\* (flagcxIbucRequestMatchesGeneration): a completion matches exactly the
\* receive its message was sent to, for as long as that receive is in progress,
\* if fewer receives were posted since than there are generations.
LEMMA MatchIs ==
  ASSUME RetransInv, AddressInv, NEW w, Addressed(w), w.slot \in Slot,
         posted - w.msg < GenMod - 1
  PROVE  /\ w.msg \in Msg
         /\ Matches(w) => recvReqs[w.slot].use.msg = w.msg
         /\ ~Matches(w) => w.msg \in received
<1> USE ConstantsOfRetrans
<1>1. w.msg \in Msg /\ w.msg \in Sent BY DEF Addressed, Sent
<1>2. posted \in Nat /\ w.msg \in 1..posted
  <2>1. Cardinality(Sent) \in 0..N /\ w.msg <= Cardinality(Sent) BY <1>1, SentIs DEF RetransInv
  <2>2. Len(fifo) \in Nat BY QueueSteps DEF RetransInv, NetType
  <2> QED BY <1>1, <2>1, <2>2 DEF RetransInv, SendInv, Msg
<1>3. /\ Announced(w.msg).slot = w.slot /\ Announced(w.msg).gen = w.gen
  BY <1>1 DEF Announced, Addressed
<1>4. ASSUME Matches(w) PROVE recvReqs[w.slot].use.msg = w.msg
  <2> DEFINE m == recvReqs[w.slot].use.msg
  <2>1. m \in Msg /\ recvReqs[w.slot].gen = w.gen
    BY <1>4 DEF Matches, RetransInv, RecvType, RecvReq, Msg
  <2>2. m \in 1..posted /\ Announced(m).slot = w.slot /\ Announced(m).gen = w.gen
    BY <2>1 DEF AddressInv, SlotInv
  <2>3. Announced(w.msg).gen \in Generation BY <1>2, AnnouncedType
  <2>4. w.msg <= m
    <3>1. recvReqs[Announced(w.msg).slot].use.msg # 0 BY <1>3, <1>4 DEF Matches
    <3> QED BY <1>2, <1>3, <3>1 DEF AddressInv, GenerationInv
  <2> HIDE DEF m
  <2>5. ~(w.msg < m)
    <3> SUFFICES ASSUME w.msg < m PROVE FALSE OBVIOUS
    <3>1. PICK d \in 1..m-w.msg : Announced(m).gen = Adv(Announced(w.msg).gen, d)
      BY <1>2, <1>3, <2>2 DEF AddressInv, GenerationInv
    <3>2. d \in 1..GenMod-2 BY <1>2, <2>2, <3>1, ConstantsOfRetrans
    <3> QED BY <1>3, <2>2, <2>3, <3>1, <3>2, AdvIs
  <2> QED BY <1>2, <2>2, <2>4, <2>5 DEF m
<1>5. ASSUME w.msg \notin received PROVE Matches(w)
  <2>1. recvReqs[w.slot].use.msg = w.msg BY <1>2, <1>3, <1>5 DEF AddressInv, SlotInv
  <2>2. recvReqs[w.slot].gen = w.gen BY <1>1, <1>3, <2>1 DEF AddressInv, SlotInv
  <2> QED BY <1>1, <2>1, <2>2 DEF Matches, Msg
<1> QED BY <1>1, <1>4, <1>5

\* Steps that leave the announcements, the slots and their receives alone, but
\* for the sequence number a receive goes by.
LEMMA SlotsKept ==
  ASSUME GenerationInv, SlotInv, RetransInv,
         Sent' = Sent, UNCHANGED <<dest, fifo, posted, received>>,
         \A s \in Slot : /\ recvReqs'[s].gen = recvReqs[s].gen
                         /\ recvReqs'[s].use.msg = recvReqs[s].use.msg
                         /\ recvReqs'[s].use.seq
                              \in {recvReqs[s].use.seq, SeqOf(recvReqs[s].use.msg)}
  PROVE  GenerationInv' /\ SlotInv'
<1>1. \A m : Announced(m)' = Announced(m) BY AnnouncedSame
<1>2. \A m \in 1..posted : Announced(m).slot \in Slot BY AnnouncedType
<1>3. GenerationInv'
  <2>1. \A m \in 1..posted' : \E d \in 0..posted'-m :
          recvReqs'[Announced(m)'.slot].gen = Adv(Announced(m)'.gen, d)
    BY <1>1, <1>2 DEF GenerationInv
  <2>2. \A m, k \in 1..posted' :
          m < k /\ Announced(m)'.slot = Announced(k)'.slot
            => \E d \in 1..k-m : Announced(k)'.gen = Adv(Announced(m)'.gen, d)
    BY <1>1 DEF GenerationInv
  <2>3. \A m \in 1..posted' : recvReqs'[Announced(m)'.slot].use.msg # 0
                               => m <= recvReqs'[Announced(m)'.slot].use.msg
    BY <1>1, <1>2 DEF GenerationInv
  <2> QED BY <2>1, <2>2, <2>3 DEF GenerationInv
<1>4. SlotInv'
  <2>1. ASSUME NEW s \in Slot, NEW m \in Msg, recvReqs'[s].use.msg = m
        PROVE  /\ m \in 1..posted' /\ m \notin received'
               /\ Announced(m)'.slot = s /\ Announced(m)'.gen = recvReqs'[s].gen
               /\ recvReqs'[s].use.seq \in {NoSeq, SeqOf(m)}
    BY <2>1, <1>1 DEF SlotInv
  <2>2. ASSUME NEW m \in 1..posted', m \notin received'
        PROVE  recvReqs'[Announced(m)'.slot].use.msg = m
    BY <2>2, <1>1, <1>2 DEF SlotInv
  <2>3. received' \subseteq 1..posted' BY DEF SlotInv
  <2> QED BY <2>1, <2>2, <2>3 DEF SlotInv
<1> QED BY <1>3, <1>4

LEMMA PacketsKept ==
  ASSUME PacketInv, Sent' = Sent, UNCHANGED <<dest, sendSeq>>,
         \A k \in 1..Len(cq') : Addressed(cq'[k]),
         \A k \in 1..Len(rc') : Addressed(rc'[k]),
         \A j \in 1..Len(buffer') : Addressed(buffer'[j])
  PROVE  PacketInv'
BY DEF PacketInv, Addressed

\* What the receiver does with a completion leaves everyone's slot, and a
\* sequence number is set to the one of the receive's own message.
LEMMA CompletionTaken ==
  ASSUME RetransInv, AddressInv, Timely, ProcessNotification \/ ProcessChunk
  PROVE  LET w == Head(cq) IN
         /\ w \in Notice \cup Chunk /\ Addressed(w) /\ w.slot \in Slot
         /\ Matches(w) => recvReqs[w.slot].use.msg = w.msg
         /\ ~Matches(w) => w.msg \in received
         /\ \A s \in Slot : /\ recvReqs'[s].gen = recvReqs[s].gen
                            /\ recvReqs'[s].use.msg = recvReqs[s].use.msg
                            /\ recvReqs'[s].use.seq
                                 \in {recvReqs[s].use.seq, SeqOf(recvReqs[s].use.msg)}
<1> DEFINE w == Head(cq)
           q == recvReqs[w.slot]
<1>1. cq # <<>> BY DEF ProcessNotification, ProcessChunk
<1>2. w \in Notice \cup Chunk /\ w = cq[1] /\ 1 \in 1..Len(cq)
  BY <1>1, QueueSteps DEF RetransInv, NetType
<1>3. w.slot \in Slot BY <1>2 DEF Notice, Chunk
<1>4. Addressed(w) BY <1>2 DEF AddressInv, PacketInv
<1>5. /\ Matches(w) => q.use.msg = w.msg
      /\ ~Matches(w) => w.msg \in received
  <2>1. 1 \in DOMAIN cq BY <1>2, QueueSteps DEF RetransInv, NetType
  <2>2. posted - w.msg < GenMod - 1 BY <1>2, <2>1 DEF Timely
  <2> HIDE DEF w
  <2> QED BY <1>3, <1>4, <2>2, MatchIs
<1>6. w.seq = SeqOf(w.msg) BY <1>4 DEF Addressed
<1>7. \/ recvReqs' = recvReqs
      \/ /\ Matches(w)
         /\ \E sq \in {q.use.seq, w.seq} : \E d, b :
              recvReqs' = [recvReqs EXCEPT ![w.slot] = RecvRequest(q.gen, q.use.msg, sq, d, b)]
  <2>1. CASE ProcessNotification BY <2>1 DEF ProcessNotification
  <2>2. CASE ProcessChunk
    <3> DEFINE r == q.use
               copy == Matches(w) /\ r.seq \in {NoSeq, w.seq} /\ w.chunk = r.bytes
               bytes == IF copy THEN r.bytes + 1 ELSE r.bytes
               sq == IF copy THEN w.seq ELSE r.seq
               d == DataEvents(r.data, bytes = NChunks)
    <3>1. \/ recvReqs' = recvReqs
          \/ /\ Matches(w)
             /\ recvReqs' = [recvReqs EXCEPT ![w.slot] = RecvRequest(q.gen, r.msg, sq, d, bytes)]
      BY <2>2 DEF ProcessChunk
    <3>2. sq \in {r.seq, w.seq} OBVIOUS
    <3> HIDE DEF sq, d, bytes
    <3> QED BY <3>1, <3>2
  <2> QED BY <2>1, <2>2
<1>8. ASSUME NEW s \in Slot
      PROVE  /\ recvReqs'[s].gen = recvReqs[s].gen
             /\ recvReqs'[s].use.msg = recvReqs[s].use.msg
             /\ recvReqs'[s].use.seq \in {recvReqs[s].use.seq, SeqOf(recvReqs[s].use.msg)}
  <2>1. CASE recvReqs' = recvReqs BY <2>1
  <2>2. ASSUME Matches(w), NEW sq \in {q.use.seq, w.seq}, NEW d, NEW b,
               recvReqs' = [recvReqs EXCEPT ![w.slot] = RecvRequest(q.gen, q.use.msg, sq, d, b)]
        PROVE  /\ recvReqs'[s].gen = recvReqs[s].gen
               /\ recvReqs'[s].use.msg = recvReqs[s].use.msg
               /\ recvReqs'[s].use.seq \in {recvReqs[s].use.seq, SeqOf(recvReqs[s].use.msg)}
    <3> HIDE DEF w
    <3>1. CASE s = w.slot
      <4>1. recvReqs'[s] = RecvRequest(q.gen, q.use.msg, sq, d, b)
        BY <2>2, <3>1 DEF RetransInv, RecvType
      <4>2. sq \in {q.use.seq, SeqOf(q.use.msg)} BY <2>2, <1>5, <1>6
      <4> QED BY <3>1, <4>1, <4>2 DEF RecvRequest
    <3>2. CASE s # w.slot
      <4>1. recvReqs'[s] = recvReqs[s] BY <2>2, <3>2 DEF RetransInv, RecvType
      <4> QED BY <4>1
    <3> QED BY <3>1, <3>2
  <2> QED BY <1>7, <2>1, <2>2
<1> QED BY <1>2, <1>3, <1>4, <1>5, <1>8

LEMMA CompletionAddress ==
  ASSUME RetransInv, AddressInv, Timely, ProcessNotification \/ ProcessChunk
  PROVE  AddressInv'
<1>1. /\ cq # <<>> /\ cq' = Tail(cq)
      /\ UNCHANGED <<posted, received, sends, sendSeq, buffer, fifo, dest, rc>>
  BY DEF ProcessNotification, ProcessChunk, sendVars
<1>2. Sent' = Sent BY <1>1 DEF Sent
<1>3. GenerationInv' /\ SlotInv' BY <1>1, <1>2, CompletionTaken, SlotsKept DEF AddressInv
<1>4. \A k \in 1..Len(cq') : Addressed(cq'[k])
  <2>1. /\ Len(cq) \in Nat /\ Len(cq') = Len(cq) - 1
        /\ \A k \in 1..Len(cq)-1 : cq'[k] = cq[k + 1]
    BY <1>1, QueueSteps DEF RetransInv, NetType
  <2>2. \A k \in 1..Len(cq)-1 : k + 1 \in 1..Len(cq) BY <2>1
  <2> QED BY <2>1, <2>2 DEF AddressInv, PacketInv
<1>5. PacketInv' BY <1>1, <1>2, <1>4, PacketsKept DEF AddressInv, PacketInv
<1> QED BY <1>3, <1>5 DEF AddressInv

LEMMA TestRecvAddress ==
  ASSUME RetransInv, AddressInv, NEW s \in Slot, TestRecv(s)
  PROVE  AddressInv'
<1> DEFINE d == recvReqs[s].use.msg
<1>1. /\ d # 0 /\ received' = received \cup {d}
      /\ recvReqs' = [recvReqs EXCEPT ![s] = Unused(recvReqs[s].gen)]
      /\ UNCHANGED <<posted, sends, sendSeq, buffer, fifo, dest, rc, cq>>
  BY DEF TestRecv, sendVars, netVars
<1>2. Sent' = Sent BY <1>1 DEF Sent
<1>3. \A m : Announced(m)' = Announced(m) BY <1>1, <1>2, AnnouncedSame
<1>4. \A m \in 1..posted : Announced(m).slot \in Slot BY AnnouncedType
<1>5. d \in Msg BY <1>1 DEF RetransInv, RecvType, RecvReq, Msg
<1>6. d \in 1..posted /\ Announced(d).slot = s BY <1>5 DEF AddressInv, SlotInv
<1>7. /\ recvReqs'[s].gen = recvReqs[s].gen /\ recvReqs'[s].use.msg = 0
      /\ \A t \in Slot : t # s => recvReqs'[t] = recvReqs[t]
  BY <1>1 DEF RetransInv, RecvType, Unused, RecvRequest
<1> HIDE DEF d
<1>8. GenerationInv'
  <2>0. \A t \in Slot : recvReqs'[t].gen = recvReqs[t].gen BY <1>7
  <2>1. \A m \in 1..posted' : \E e \in 0..posted'-m :
          recvReqs'[Announced(m)'.slot].gen = Adv(Announced(m)'.gen, e)
    BY <1>1, <1>3, <1>4, <2>0 DEF AddressInv, GenerationInv
  <2>2. \A m, k \in 1..posted' :
          m < k /\ Announced(m)'.slot = Announced(k)'.slot
            => \E e \in 1..k-m : Announced(k)'.gen = Adv(Announced(m)'.gen, e)
    BY <1>1, <1>3 DEF AddressInv, GenerationInv
  <2>3. ASSUME NEW m \in 1..posted', recvReqs'[Announced(m)'.slot].use.msg # 0
        PROVE  m <= recvReqs'[Announced(m)'.slot].use.msg
    <3>1. m \in 1..posted /\ Announced(m)' = Announced(m) /\ Announced(m).slot \in Slot
      BY <1>1, <1>3, <1>4
    <3>2. Announced(m).slot # s BY <2>3, <3>1, <1>7
    <3>3. recvReqs'[Announced(m).slot] = recvReqs[Announced(m).slot] BY <3>1, <3>2, <1>7
    <3> QED BY <2>3, <3>1, <3>3 DEF AddressInv, GenerationInv
  <2> QED BY <2>1, <2>2, <2>3 DEF GenerationInv
<1>9. SlotInv'
  <2>1. ASSUME NEW t \in Slot, NEW m \in Msg, recvReqs'[t].use.msg = m
        PROVE  /\ m \in 1..posted' /\ m \notin received'
               /\ Announced(m)'.slot = t /\ Announced(m)'.gen = recvReqs'[t].gen
               /\ recvReqs'[t].use.seq \in {NoSeq, SeqOf(m)}
    <3>1. m # 0 BY ConstantsOfRetrans DEF Msg
    <3>2. t # s BY <2>1, <3>1, <1>7
    <3>3. recvReqs'[t] = recvReqs[t] BY <3>2, <1>7
    <3>4. /\ m \in 1..posted /\ m \notin received
          /\ Announced(m).slot = t /\ Announced(m).gen = recvReqs[t].gen
          /\ recvReqs[t].use.seq \in {NoSeq, SeqOf(m)}
      BY <2>1, <3>3 DEF AddressInv, SlotInv
    <3>5. m # d BY <3>2, <3>4, <1>6
    <3> QED BY <3>3, <3>4, <3>5, <1>1, <1>3
  <2>2. ASSUME NEW m \in 1..posted', m \notin received'
        PROVE  recvReqs'[Announced(m)'.slot].use.msg = m
    <3>1. m \in 1..posted /\ m # d /\ recvReqs[Announced(m).slot].use.msg = m
      BY <2>2, <1>1 DEF AddressInv, SlotInv
    <3>2. Announced(m).slot # s BY <3>1 DEF d
    <3> QED BY <3>1, <3>2, <1>3, <1>4, <1>7
  <2>3. received' \subseteq 1..posted' BY <1>1, <1>6 DEF AddressInv, SlotInv
  <2> QED BY <2>1, <2>2, <2>3 DEF SlotInv
<1>10. PacketInv' BY <1>1, <1>2 DEF AddressInv, PacketInv, Addressed
<1> QED BY <1>8, <1>9, <1>10 DEF AddressInv

\* Isend moves an announcement from the fifo to the message it is for.
LEMMA IsendAnnounces ==
  ASSUME RetransInv, Isend
  PROVE  \A m \in 1..posted : Announced(m)' = Announced(m)
<1> USE ConstantsOfRetrans
<1> DEFINE n == Cardinality(Sent)
<1>1. /\ n + 1 \in Msg /\ n + 1 \notin Sent
      /\ Sent' = 1..(n + 1) /\ Cardinality(Sent') = n + 1
  BY IsendIs
<1>2. n \in 0..N /\ \A m \in Msg : m \in Sent <=> m <= n BY SentIs DEF RetransInv
<1>3. dest' = [dest EXCEPT ![n + 1] = Head(fifo)] /\ fifo # <<>> /\ fifo' = Tail(fifo)
  BY DEF Isend
<1>4. /\ Len(fifo) \in Nat /\ Len(fifo) >= 1 /\ Head(fifo) = fifo[1]
      /\ \A i \in 1..Len(fifo)-1 : fifo'[i] = fifo[i + 1]
  BY <1>3, QueueSteps DEF RetransInv, NetType
<1>5. posted = n + Len(fifo) /\ posted \in 0..N BY DEF RetransInv, SendInv
<1> HIDE DEF n
<1> TAKE m \in 1..posted
<1>6. m \in Msg BY <1>5 DEF Msg
<1>7. CASE m <= n
  <2>1. m \in Sent /\ m \in Sent' /\ m # n + 1 BY <1>1, <1>2, <1>6, <1>7 DEF Msg
  <2>2. dest'[m] = dest[m] BY <2>1, <1>3, <1>6 DEF RetransInv, NetType
  <2> QED BY <2>1, <2>2 DEF Announced
<1>8. CASE m = n + 1
  <2>1. m \notin Sent /\ m \in Sent' BY <1>1, <1>2, <1>8, <1>6 DEF Msg
  <2>2. dest'[m] = Head(fifo) BY <1>3, <1>6, <1>8 DEF RetransInv, NetType
  <2>3. m - n = 1 BY <1>2, <1>8
  <2> QED BY <2>1, <2>2, <2>3, <1>4 DEF Announced, n
<1>9. CASE m > n + 1
  <2>1. m \notin Sent /\ m \notin Sent' BY <1>1, <1>2, <1>6, <1>9
  <2>2. m - (n + 1) \in 1..Len(fifo)-1 /\ (m - (n + 1)) + 1 = m - n
    BY <1>2, <1>4, <1>5, <1>9
  <2>3. fifo'[m - (n + 1)] = fifo[m - n] BY <2>2, <1>4
  <2>4. Announced(m)' = fifo'[m - (n + 1)] BY <2>1, <1>1 DEF Announced
  <2>5. Announced(m) = fifo[m - n] BY <2>1 DEF Announced, n
  <2> QED BY <2>3, <2>4, <2>5
<1> QED BY <1>2, <1>6, <1>7, <1>8, <1>9 DEF Msg

LEMMA IsendAddress ==
  ASSUME RetransInv, AddressInv, Isend
  PROVE  AddressInv'
<1> USE ConstantsOfRetrans
<1> DEFINE m == Cardinality(Sent) + 1
           f == Head(fifo)
           e == NewEntry(m, f)
           b == Append(buffer, e)
<1>1. /\ m \in Msg /\ m \notin Sent
      /\ Sent' = 1..m /\ Cardinality(Sent') = m
      /\ e \in RetransEntry
  BY IsendIs
<1>2. /\ dest' = [dest EXCEPT ![m] = f] /\ buffer' = Ranked(b)
      /\ sendSeq' = (sendSeq + 1) % SeqMod
      /\ UNCHANGED <<recvReqs, posted, received, cq, rc>>
  BY DEF Isend, recvVars
<1>3. \A k \in 1..posted : Announced(k)' = Announced(k) BY IsendAnnounces
<1>4. GenerationInv' BY <1>2, <1>3 DEF AddressInv, GenerationInv
<1>5. SlotInv'
  <2>1. ASSUME NEW s \in Slot, NEW k \in Msg, recvReqs'[s].use.msg = k
        PROVE  /\ k \in 1..posted' /\ k \notin received'
               /\ Announced(k)'.slot = s /\ Announced(k)'.gen = recvReqs'[s].gen
               /\ recvReqs'[s].use.seq \in {NoSeq, SeqOf(k)}
    BY <2>1, <1>2, <1>3 DEF AddressInv, SlotInv
  <2>2. ASSUME NEW k \in 1..posted', k \notin received'
        PROVE  recvReqs'[Announced(k)'.slot].use.msg = k
    BY <2>2, <1>2, <1>3 DEF AddressInv, SlotInv
  <2> QED BY <2>1, <2>2, <1>2 DEF AddressInv, SlotInv
<1>6. Cardinality(Sent) \in 0..N /\ \A k \in Msg : k \in Sent <=> k < m
  BY SentIs DEF RetransInv, Msg
<1>7. sendSeq = SeqOf(m) BY DEF AddressInv, PacketInv
<1>8. SeqOf(m + 1) = sendSeq'
  <2>1. (m - 1) \in Nat /\ (m - 1) + 1 = m /\ (m + 1) - 1 = m BY <1>6
  <2>2. (((m - 1) % SeqMod) + 1) % SeqMod = ((m - 1) + 1) % SeqMod
    <3> DEFINE k == m - 1
    <3>1. k \in Nat BY <2>1
    <3> HIDE DEF k
    <3>2. ((k % SeqMod) + 1) % SeqMod = (k + 1) % SeqMod BY <3>1, NextRemainder
    <3> QED BY <3>2 DEF k
  <2> HIDE DEF m
  <2> QED BY <1>2, <1>7, <2>1, <2>2 DEF SeqOf
<1>9. /\ e.msg = m /\ e.seq = sendSeq /\ e.slot = f.slot /\ e.gen = f.gen BY DEF NewEntry
<1> HIDE DEF m, f, e
<1>10. ASSUME NEW w, Addressed(w)
       PROVE  /\ w.msg \in Sent' /\ dest'[w.msg].slot = w.slot
              /\ dest'[w.msg].gen = w.gen /\ w.seq = SeqOf(w.msg)
  <2>1. w.msg \in Sent /\ w.msg \in Msg BY <1>10 DEF Addressed, Sent
  <2>2. w.msg # m /\ w.msg \in Sent' BY <2>1, <1>1, <1>6 DEF Msg
  <2>3. dest'[w.msg] = dest[w.msg] BY <2>1, <2>2, <1>2 DEF RetransInv, NetType
  <2> QED BY <1>10, <2>2, <2>3 DEF Addressed
<1>11. m \in Sent' /\ dest'[m] = f BY <1>1, <1>2 DEF RetransInv, NetType, Msg
<1>12. /\ b \in Seq(RetransEntry) /\ Len(buffer) \in Nat /\ Len(b) = Len(buffer) + 1
       /\ \A j \in 1..Len(buffer) : b[j] = buffer[j]
       /\ b[Len(buffer) + 1] = e
  BY <1>1, QueueSteps DEF RetransInv, SendType
<1> HIDE DEF b
<1>13. /\ Len(Ranked(b)) = Len(b)
       /\ \A j \in 1..Len(b) :
            /\ Ranked(b)[j].msg = b[j].msg /\ Ranked(b)[j].seq = b[j].seq
            /\ Ranked(b)[j].slot = b[j].slot /\ Ranked(b)[j].gen = b[j].gen
  BY <1>12, RankedKeeps
<1>14. ASSUME NEW j \in 1..Len(buffer') PROVE Addressed(buffer[j])'
  <2>1. j \in 1..Len(b) BY <1>2, <1>13
  <2>2. /\ buffer'[j].msg = b[j].msg /\ buffer'[j].seq = b[j].seq
        /\ buffer'[j].slot = b[j].slot /\ buffer'[j].gen = b[j].gen
    BY <2>1, <1>2, <1>13
  <2>3. CASE j \in 1..Len(buffer)
    <3>1. Addressed(buffer[j]) BY <2>3 DEF AddressInv, PacketInv
    <3>2. b[j] = buffer[j] BY <2>3, <1>12
    <3>3. /\ buffer[j].msg \in Sent' /\ dest'[buffer[j].msg].slot = buffer[j].slot
          /\ dest'[buffer[j].msg].gen = buffer[j].gen /\ buffer[j].seq = SeqOf(buffer[j].msg)
      BY <3>1, <1>10
    <3> QED BY <2>2, <3>2, <3>3 DEF Addressed
  <2>4. CASE j = Len(buffer) + 1
    BY <2>2, <2>4, <1>7, <1>9, <1>11, <1>12 DEF Addressed
  <2> QED BY <2>1, <2>3, <2>4, <1>12
<1>15. PacketInv'
  <2>1. sendSeq' = SeqOf(Cardinality(Sent') + 1) BY <1>1, <1>8
  <2>2. \A k \in 1..Len(cq') : Addressed(cq[k])'
    <3> TAKE k \in 1..Len(cq')
    <3>1. Addressed(cq[k]) /\ cq' = cq BY <1>2 DEF AddressInv, PacketInv
    <3> QED BY <3>1, <1>10 DEF Addressed
  <2>3. \A k \in 1..Len(rc') : Addressed(rc[k])'
    <3> TAKE k \in 1..Len(rc')
    <3>1. Addressed(rc[k]) /\ rc' = rc BY <1>2 DEF AddressInv, PacketInv
    <3> QED BY <3>1, <1>10 DEF Addressed
  <2> QED BY <2>1, <2>2, <2>3, <1>14 DEF PacketInv
<1> QED BY <1>4, <1>5, <1>15 DEF AddressInv

\* The steps of the sender and of the network after a message was sent.
OtherStep ==
  \/ ProcessAck \/ CompleteChunk
  \/ \E m \in Msg : TestSend(m)
  \/ \E j : Continue(j) \/ Retransmit(j) \/ GiveUp(j)
  \/ \E m \in Msg, q \in Qp : Deliver(m, q) \/ Lose(m, q)
  \/ DeliverChunk
  \/ DataStep

LEMMA RetransCases ==
  ASSUME [RetransNext]_retransVars
  PROVE  \/ Irecv \/ ProcessNotification \/ ProcessChunk \/ Isend \/ OtherStep
         \/ \E s \in Slot : TestRecv(s)
BY DataSteps DEF RetransNext, OtherStep

LEMMA OtherKeeps ==
  ASSUME RetransInv, OtherStep
  PROVE  UNCHANGED <<recvVars, sendSeq, fifo, dest>> /\ Sent' = Sent
<1>1. UNCHANGED <<recvVars, sendSeq, fifo, dest>>
  BY DEF OtherStep, ProcessAck, CompleteChunk, TestSend, Continue, Retransmit, GiveUp, Deliver,
         Lose, DeliverChunk, DataStep, sendVars, netVars
<1>3. Sent' = Sent
  <2>1. CASE UNCHANGED sends BY <2>1 DEF Sent
  <2>2. ASSUME NEW m \in Msg, TestSend(m) PROVE Sent' = Sent
    <3>1. /\ sends[m] = "active"
          /\ sends' = [sends EXCEPT ![m] = IF commError THEN "error" ELSE "done"]
      BY <2>2 DEF TestSend
    <3>2. \/ sends' = [sends EXCEPT ![m] = "error"]
          \/ sends' = [sends EXCEPT ![m] = "done"]
      <4>1. CASE commError BY <4>1, <3>1
      <4>2. CASE ~commError BY <4>2, <3>1
      <4> QED BY <4>1, <4>2
    <3>3. \A k \in Msg : sends'[k] = "none" <=> sends[k] = "none"
      BY <3>1, <3>2 DEF RetransInv, SendType
    <3> QED BY <3>3 DEF Sent
  <2>3. UNCHANGED sends \/ \E m \in Msg : TestSend(m)
    BY DEF OtherStep, ProcessAck, CompleteChunk, Continue, Retransmit, GiveUp, Deliver, Lose,
           DeliverChunk, DataStep, sendVars
  <2> QED BY <2>1, <2>2, <2>3
<1> QED BY <1>1, <1>3

\* They move what is addressed, or nothing.
LEMMA OtherAddress ==
  ASSUME RetransInv, AddressInv, OtherStep
  PROVE  AddressInv'
<1>1. UNCHANGED <<recvVars, sendSeq, fifo, dest>> BY OtherKeeps
<1>2. UNCHANGED <<posted, received, recvReqs>> BY <1>1 DEF recvVars
<1>3. Sent' = Sent BY OtherKeeps
<1>4. GenerationInv' /\ SlotInv' BY <1>1, <1>2, <1>3, SlotsKept DEF AddressInv
<1>5. /\ Len(cq) \in Nat /\ Len(rc) \in Nat /\ Len(buffer) \in Nat
      /\ DOMAIN buffer = 1..Len(buffer)
      /\ \A k \in 1..Len(cq) : Addressed(cq[k])
      /\ \A k \in 1..Len(rc) : Addressed(rc[k])
      /\ \A k \in 1..Len(buffer) : Addressed(buffer[k])
  BY QueueSteps DEF RetransInv, SendType, NetType, AddressInv, PacketInv
<1>6. CASE UNCHANGED <<cq, rc, buffer>>
  <2>1. PacketInv' BY <1>1, <1>3, <1>5, <1>6, PacketsKept DEF AddressInv
  <2> QED BY <1>4, <2>1 DEF AddressInv
<1>7. CASE ProcessAck
  <2> DEFINE n == Covered(Head(acks))
  <2>1. \A j \in 1..Len(buffer') :
          /\ j + n \in 1..Len(buffer)
          /\ buffer'[j].msg = buffer[j + n].msg /\ buffer'[j].seq = buffer[j + n].seq
          /\ buffer'[j].slot = buffer[j + n].slot /\ buffer'[j].gen = buffer[j + n].gen
    BY <1>7, ProcessAckIs
  <2> HIDE DEF n
  <2>2. \A j \in 1..Len(buffer') : Addressed(buffer'[j]) BY <2>1, <1>5 DEF Addressed
  <2>3. UNCHANGED <<cq, rc>> BY <1>7 DEF ProcessAck
  <2>4. PacketInv' BY <1>1, <1>3, <1>5, <2>2, <2>3, PacketsKept DEF AddressInv
  <2> QED BY <1>4, <2>4 DEF AddressInv
<1>8. ASSUME NEW j, Continue(j) \/ Retransmit(j) PROVE AddressInv'
  <2>1. j \in 1..Len(buffer) /\ UNCHANGED cq
    BY <1>5, <1>8 DEF Continue, Retransmit, TimedOut
  <2>2. \E c \in 0..NChunks : Resend(j, c)
    <3>1. CASE Continue(j)
      <4>1. buffer[j] \in RetransEntry BY <2>1, QueueSteps DEF RetransInv, SendType
      <4>2. buffer[j].cursor \in 0..NChunks BY <4>1 DEF RetransEntry
      <4> QED BY <3>1, <4>2 DEF Continue
    <3>2. CASE Retransmit(j)
      <4>1. 0 \in 0..NChunks BY ConstantsOfRetrans
      <4> QED BY <3>2, <4>1 DEF Retransmit
    <3> QED BY <1>8, <3>1, <3>2
  <2>3. PICK n \in Nat, ch \in Seq(Chunk) : ResendEffect(j, n, ch) BY <2>1, <2>2, ResendIs
  <2>4. Addressed(buffer[j]) BY <2>1, <1>5
  <2>5. \A k \in 1..Len(rc') : Addressed(rc'[k])
    <3>1. Len(ch) = n /\ rc' = rc \o ch BY <2>3 DEF ResendEffect
    <3>2. \A k \in 1..n : Addressed(ch[k]) BY <2>3, <2>4 DEF ResendEffect, Addressed
    <3>3. rc \in Seq(Chunk) BY DEF RetransInv, NetType
    <3>4. /\ Len(rc') = Len(rc) + n
          /\ \A k \in 1..Len(rc) + n :
               rc'[k] = IF k <= Len(rc) THEN rc[k] ELSE ch[k - Len(rc)]
      BY <3>1, <3>3, ConcatIs
    <3>5. ASSUME NEW k \in 1..Len(rc) + n PROVE Addressed(rc'[k])
      <4>1. CASE k <= Len(rc)
        <5>1. k \in 1..Len(rc) /\ rc'[k] = rc[k] BY <4>1, <3>4, <1>5
        <5> QED BY <5>1, <1>5
      <4>2. CASE k > Len(rc)
        <5>1. k - Len(rc) \in 1..n /\ rc'[k] = ch[k - Len(rc)] BY <4>2, <3>4, <1>5
        <5> QED BY <5>1, <3>2
      <4> QED BY <4>1, <4>2, <1>5
    <3> QED BY <3>4, <3>5
  <2>6. \A i \in 1..Len(buffer') : Addressed(buffer'[i])
    BY <2>3, <1>5 DEF ResendEffect, Addressed
  <2>7. PacketInv' BY <1>1, <1>3, <1>5, <2>1, <2>5, <2>6, PacketsKept DEF AddressInv
  <2> QED BY <1>4, <2>7 DEF AddressInv
<1>9. ASSUME NEW m \in Msg, NEW q \in Qp, Deliver(m, q) PROVE AddressInv'
  <2>1. m \in Sent BY <1>9, DeliverIs
  <2>2. PICK w \in Notice : /\ w.msg = m /\ w.seq = SeqOf(m)
                            /\ w.slot = dest[m].slot /\ w.gen = dest[m].gen
                            /\ cq' = Append(cq, w)
    BY <1>9, DeliverIs
  <2>3. Addressed(w) BY <2>1, <2>2 DEF Addressed
  <2>4. /\ Len(cq') = Len(cq) + 1 /\ cq'[Len(cq) + 1] = w
        /\ \A k \in 1..Len(cq) : cq'[k] = cq[k]
    BY <2>2, QueueSteps DEF RetransInv, NetType
  <2>5. \A k \in 1..Len(cq') : k \in 1..Len(cq) \/ k = Len(cq) + 1 BY <2>4, <1>5
  <2>6. \A k \in 1..Len(cq') : Addressed(cq'[k]) BY <2>3, <2>4, <2>5, <1>5
  <2>7. UNCHANGED <<rc, buffer>> BY <1>9 DEF Deliver, sendVars
  <2>8. PacketInv' BY <1>1, <1>3, <1>5, <2>6, <2>7, PacketsKept DEF AddressInv
  <2> QED BY <1>4, <2>8 DEF AddressInv
<1>10. CASE DeliverChunk
  <2>1. rc # <<>> /\ rc' = Tail(rc) /\ cq' = Append(cq, Head(rc)) /\ UNCHANGED buffer
    BY <1>10 DEF DeliverChunk, sendVars
  <2>2. /\ Head(rc) \in Chunk /\ Len(rc) >= 1 /\ Head(rc) = rc[1] /\ Len(rc') = Len(rc) - 1
        /\ \A k \in 1..Len(rc)-1 : rc'[k] = rc[k + 1]
    BY <2>1, QueueSteps DEF RetransInv, NetType
  <2>3. /\ Len(cq') = Len(cq) + 1 /\ cq'[Len(cq) + 1] = Head(rc)
        /\ \A k \in 1..Len(cq) : cq'[k] = cq[k]
    BY <2>1, <2>2, QueueSteps DEF RetransInv, NetType
  <2>4. Addressed(Head(rc))
    <3>1. 1 \in 1..Len(rc) BY <2>2, <1>5
    <3> QED BY <3>1, <2>2, <1>5
  <2>5. \A k \in 1..Len(cq') : k \in 1..Len(cq) \/ k = Len(cq) + 1 BY <2>3, <1>5
  <2>6. \A k \in 1..Len(cq') : Addressed(cq'[k]) BY <2>3, <2>4, <2>5, <1>5
  <2>7. \A k \in 1..Len(rc') : Addressed(rc'[k])
    <3>1. \A k \in 1..Len(rc') : k \in 1..Len(rc)-1 /\ k + 1 \in 1..Len(rc) BY <2>2, <1>5
    <3> QED BY <3>1, <2>2, <1>5
  <2>8. PacketInv' BY <1>1, <1>3, <1>5, <2>1, <2>6, <2>7, PacketsKept DEF AddressInv
  <2> QED BY <1>4, <2>8 DEF AddressInv
<1>11. \/ UNCHANGED <<cq, rc, buffer>> \/ ProcessAck \/ DeliverChunk
       \/ \E j : Continue(j) \/ Retransmit(j)
       \/ \E m \in Msg, q \in Qp : Deliver(m, q)
  BY DEF OtherStep, CompleteChunk, TestSend, GiveUp, Lose, DataStep, sendVars, netVars
<1> QED BY <1>6, <1>7, <1>8, <1>9, <1>10, <1>11

LEMMA AddressStep ==
  ASSUME RetransInv, AddressInv, Timely, [RetransNext]_retransVars
  PROVE  AddressInv'
<1>1. CASE Irecv BY <1>1, IrecvAddress
<1>2. CASE ProcessNotification \/ ProcessChunk BY <1>2, CompletionAddress
<1>3. CASE \E s \in Slot : TestRecv(s) BY <1>3, TestRecvAddress
<1>4. CASE Isend BY <1>4, IsendAddress
<1>5. CASE OtherStep BY <1>5, OtherAddress
<1> QED BY <1>1, <1>2, <1>3, <1>4, <1>5, RetransCases

LEMMA TimelySteps == TimelySpec => [](RetransInv /\ Timely) /\ [][RetransNext]_retransVars
<1>1. RetransInit => Timely BY DEF RetransInit, Timely
<1>2. UNCHANGED retransVars => (Timely <=> Timely') BY DEF Timely, retransVars, recvVars, netVars
<1>3. TimelySpec => RetransSpec BY PTL DEF TimelySpec, RetransSpec
<1> QED BY <1>1, <1>2, <1>3, RetransInvariant, PTL DEF TimelySpec

LEMMA AddressInvariant == TimelySpec => []AddressInv
<1>1. RetransInv /\ Timely /\ AddressInv /\ [RetransNext]_retransVars => AddressInv'
  BY AddressStep
<1>2. TimelySpec => RetransInit BY DEF TimelySpec
<1> QED BY <1>1, <1>2, AddressInit, TimelySteps, PTL

\* A retransmitted chunk is copied only into the receive its message was sent
\* to, however often the generations come around ("the generation identifies
\* one use of a request slot", 12 bits of it), if nothing stays in the
\* completion queue while they do.
THEOREM CopySafety == TimelySpec => CopiesHitTheirReceive
<1>1. RetransInv /\ Timely /\ AddressInv /\ [RetransNext]_retransVars =>
        [\A s \in Slot : recvReqs'[s].use.bytes > recvReqs[s].use.bytes =>
           Head(cq).msg = recvReqs[s].use.msg]_retransVars
  <2> SUFFICES ASSUME RetransInv, Timely, AddressInv, RetransNext, NEW s \in Slot,
                      recvReqs'[s].use.bytes > recvReqs[s].use.bytes
               PROVE  Head(cq).msg = recvReqs[s].use.msg
    OBVIOUS
  <2> DEFINE w == Head(cq)
             q == recvReqs[w.slot]
             r == q.use
             copy == Matches(w) /\ r.seq \in {NoSeq, w.seq} /\ w.chunk = r.bytes
             bytes == IF copy THEN r.bytes + 1 ELSE r.bytes
  <2>1. recvReqs[s].use.bytes \in Nat /\ recvReqs \in [Slot -> RecvReq]
    BY DEF RetransInv, RecvType, RecvReq
  <2>2. recvReqs' # recvReqs BY <2>1
  <2>3. CASE Irecv
    <3>1. PICK t \in Slot, g \in Generation :
            recvReqs' = [recvReqs EXCEPT ![t] = RecvRequest(g, posted + 1, SeqMod, NQps, 0)]
      BY <2>3, IrecvIs
    <3>2. recvReqs'[s].use.bytes \in {0, recvReqs[s].use.bytes} BY <3>1, <2>1 DEF RecvRequest
    <3> QED BY <2>1, <3>2
  <2>4. ASSUME NEW t \in Slot, TestRecv(t) PROVE FALSE
    <3>1. recvReqs' = [recvReqs EXCEPT ![t] = Unused(recvReqs[t].gen)]
      BY <2>4 DEF TestRecv
    <3>2. recvReqs'[s].use.bytes \in {0, recvReqs[s].use.bytes}
      BY <3>1, <2>1 DEF Unused, RecvRequest
    <3> QED BY <2>1, <3>2
  <2>5. CASE ProcessNotification
    <3>1. recvReqs' = [recvReqs EXCEPT ![w.slot] =
                         RecvRequest(q.gen, r.msg, w.seq, r.data - 1, r.bytes)]
      BY <2>2, <2>5 DEF ProcessNotification
    <3> HIDE DEF w
    <3>2. recvReqs'[s].use.bytes = recvReqs[s].use.bytes BY <3>1, <2>1 DEF RecvRequest
    <3> QED BY <2>1, <3>2
  <2>6. CASE ProcessChunk
    <3> DEFINE sq == IF copy THEN w.seq ELSE r.seq
               d == DataEvents(r.data, bytes = NChunks)
    <3>1. recvReqs' = [recvReqs EXCEPT ![w.slot] = RecvRequest(q.gen, r.msg, sq, d, bytes)]
      BY <2>2, <2>6 DEF ProcessChunk
    <3>2. Matches(w) => r.msg = w.msg BY <2>6, CompletionTaken
    <3> HIDE DEF w, sq, d
    <3>3. s = w.slot
      <4> HIDE DEF bytes, q, r
      <4>1. s # w.slot => recvReqs'[s] = recvReqs[s] BY <3>1, <2>1
      <4> QED BY <4>1, <2>1
    <3>4. recvReqs'[s].use.bytes = bytes
      <4>1. recvReqs'[s] = RecvRequest(q.gen, r.msg, sq, d, bytes) BY <3>1, <3>3, <2>1
      <4> QED BY <4>1 DEF RecvRequest
    <3>5. copy BY <3>3, <3>4, <2>1
    <3> QED BY <3>2, <3>3, <3>5 DEF w
  <2>7. Irecv \/ ProcessNotification \/ ProcessChunk \/ \E t \in Slot : TestRecv(t)
    <3>1. Isend => UNCHANGED recvReqs BY DEF Isend, recvVars
    <3>2. OtherStep => UNCHANGED recvReqs BY OtherKeeps DEF recvVars
    <3> QED BY <2>2, <3>1, <3>2, RetransCases
  <2> QED BY <2>3, <2>4, <2>5, <2>6, <2>7
<1> QED BY <1>1, TimelySteps, AddressInvariant, PTL DEF CopiesHitTheirReceive

-----------------------------------------------------------------------------
(* Completion and acknowledgement *)

\* How many elements of a queue belong to T.
CountIn(s, T) == Cardinality({k \in 1..Len(s) : s[k] \in T})

LEMMA CountSteps ==
  ASSUME NEW S, NEW s \in Seq(S), NEW T
  PROVE  /\ CountIn(s, T) \in Nat
         /\ (\A k \in 1..Len(s) : s[k] \notin T) => CountIn(s, T) = 0
         /\ \A e \in S : CountIn(Append(s, e), T) =
                           CountIn(s, T) + (IF e \in T THEN 1 ELSE 0)
         /\ s # <<>> => CountIn(Tail(s), T) = CountIn(s, T) - (IF s[1] \in T THEN 1 ELSE 0)
<1> DEFINE I == {k \in 1..Len(s) : s[k] \in T}
<1>1. Len(s) \in Nat BY QueueSteps
<1>2. IsFiniteSet(I)
  <2>1. IsFiniteSet(1..Len(s)) /\ I \subseteq 1..Len(s) BY <1>1, FS_Interval
  <2> QED BY <2>1, FS_Subset
<1>3. CountIn(s, T) = Cardinality(I) /\ Cardinality(I) \in Nat
  BY <1>2, FS_CardinalityType DEF CountIn
<1>4. (\A k \in 1..Len(s) : s[k] \notin T) => Cardinality(I) = 0
  <2>1. (\A k \in 1..Len(s) : s[k] \notin T) => I = {} OBVIOUS
  <2> QED BY <2>1, FS_EmptySet
<1>5. ASSUME NEW e \in S
      PROVE  CountIn(Append(s, e), T) = CountIn(s, T) + (IF e \in T THEN 1 ELSE 0)
  <2> DEFINE a == Append(s, e)
             J == {k \in 1..Len(a) : a[k] \in T}
  <2>1. /\ Len(a) = Len(s) + 1 /\ a[Len(s) + 1] = e
        /\ \A k \in 1..Len(s) : a[k] = s[k]
    BY QueueSteps
  <2>2. CountIn(a, T) = Cardinality(J) BY DEF CountIn
  <2> HIDE DEF a
  <2>3. \A k \in 1..Len(a) : k \in 1..Len(s) \/ k = Len(s) + 1 BY <2>1, <1>1
  <2>4. CASE e \in T
    <3>1. J = I \cup {Len(s) + 1} /\ Len(s) + 1 \notin I BY <2>1, <2>3, <2>4, <1>1
    <3> HIDE DEF I, J
    <3>2. Cardinality(J) = Cardinality(I) + 1 BY <3>1, <1>2, FS_AddElement
    <3> QED BY <2>2, <2>4, <3>2, <1>3 DEF a
  <2>5. CASE e \notin T
    <3>1. J = I BY <2>1, <2>3, <2>5, <1>1
    <3> HIDE DEF I, J
    <3> QED BY <2>2, <2>5, <3>1, <1>3 DEF a
  <2> QED BY <2>4, <2>5
<1>6. ASSUME s # <<>>
      PROVE  CountIn(Tail(s), T) = CountIn(s, T) - (IF s[1] \in T THEN 1 ELSE 0)
  <2> DEFINE t == Tail(s)
             J == {k \in 1..Len(t) : t[k] \in T}
             f == [k \in J |-> k + 1]
  <2>1. /\ Len(s) >= 1 /\ Len(t) = Len(s) - 1
        /\ \A k \in 1..Len(s)-1 : t[k] = s[k + 1]
    BY <1>6, QueueSteps
  <2>2. CountIn(t, T) = Cardinality(J) BY DEF CountIn
  <2> HIDE DEF t
  <2>3. \A k \in J : k + 1 \in I \ {1} BY <2>1, <1>1
  <2>4. \A i \in I \ {1} : i - 1 \in J /\ (i - 1) + 1 = i
    <3> TAKE i \in I \ {1}
    <3>1. i \in 2..Len(s) /\ s[i] \in T BY <1>1
    <3>2. i - 1 \in 1..Len(s)-1 /\ (i - 1) + 1 = i BY <3>1, <1>1
    <3>3. t[i - 1] = s[i] BY <3>2, <2>1
    <3> QED BY <3>1, <3>2, <3>3, <2>1
  <2>5. f \in Bijection(J, I \ {1})
    <3>1. f \in [J -> I \ {1}] BY <2>3
    <3>2. \A k, l \in J : f[k] = f[l] => k = l BY <1>1, <2>1
    <3>3. \A i \in I \ {1} : \E k \in J : f[k] = i BY <2>4
    <3> HIDE DEF f, I, J
    <3> QED BY <3>1, <3>2, <3>3 DEF Bijection, Injection, Surjection, IsInjective
  <2>6. IsFiniteSet(J)
    <3>1. Len(t) \in Int BY <1>1, <2>1
    <3>2. IsFiniteSet(1..Len(t)) BY <3>1, FS_Interval
    <3>3. J \subseteq 1..Len(t) OBVIOUS
    <3> HIDE DEF J
    <3> QED BY <3>2, <3>3, FS_Subset
  <2> HIDE DEF f, I, J
  <2>7. Cardinality(J) = Cardinality(I \ {1})
    <3>1. ExistsBijection(J, I \ {1}) BY <2>5 DEF ExistsBijection
    <3> QED BY <2>6, <3>1, FS_Bijection
  <2>8. CASE s[1] \in T
    <3>1. 1 \in I BY <2>1, <2>8, <1>1 DEF I
    <3>2. Cardinality(I \ {1}) = Cardinality(I) - 1 BY <3>1, <1>2, FS_RemoveElement
    <3> QED BY <2>2, <2>7, <2>8, <3>2, <1>3 DEF t
  <2>9. CASE s[1] \notin T
    <3>1. I \ {1} = I BY <2>9 DEF I
    <3>2. CountIn(t, T) = CountIn(s, T) BY <2>2, <2>7, <3>1, <1>3
    <3>3. CountIn(s, T) - 0 = CountIn(s, T) BY <1>3
    <3> QED BY <2>9, <3>2, <3>3 DEF t
  <2> QED BY <2>8, <2>9
<1> QED BY <1>3, <1>4, <1>5, <1>6

\* The notifications of a message that have arrived, and those the receiver
\* has yet to take.
Arrived(m) == {q \in Qp : uc[m][q] = "arrived"}
NoticesOf(m) == {w \in Notice : w.msg = m}
Untaken(m) == CountIn(cq, NoticesOf(m))

\* A receive counts the chunks it has copied; when it has them all it waits
\* for nothing, and until then it has taken no more notifications of its
\* message than arrived.
InProgress(m, u) ==
  /\ u.bytes = copied[m] /\ u.bytes <= NChunks
  /\ u.bytes = NChunks => u.data = 0 /\ u.seq = SeqOf(m)
  /\ u.bytes < NChunks => NQps - u.data + Untaken(m) <= Cardinality(Arrived(m))

ReceiptInv ==
  /\ \A m \in Msg : m \notin Sent => copied[m] = 0
  /\ \A s \in Slot, m \in Msg : recvReqs[s].use.msg = m => InProgress(m, recvReqs[s].use)
  /\ \A m \in received : Notified(m)

CountFacts ==
  \A m \in Msg :
    /\ Untaken(m) \in Nat
    /\ Cardinality(Arrived(m)) \in 0..NQps
    /\ Cardinality(Arrived(m)) = NQps => Arrived(m) = Qp
    /\ AddressInv /\ m \notin Sent => Untaken(m) = 0

LEMMA Counts == RetransInv => CountFacts
<1> SUFFICES ASSUME RetransInv, NEW m \in Msg
             PROVE  /\ Untaken(m) \in Nat
                    /\ Cardinality(Arrived(m)) \in 0..NQps
                    /\ Cardinality(Arrived(m)) = NQps => Arrived(m) = Qp
                    /\ AddressInv /\ m \notin Sent => Untaken(m) = 0
  BY DEF CountFacts
<1>1. Untaken(m) \in Nat BY CountSteps DEF Untaken, RetransInv, NetType
<1>2. IsFiniteSet(Qp) /\ Cardinality(Qp) = NQps
  BY ConstantsOfRetrans, FS_Interval DEF Qp
<1>3. Arrived(m) \subseteq Qp BY DEF Arrived
<1>4. /\ IsFiniteSet(Arrived(m)) /\ Cardinality(Arrived(m)) <= Cardinality(Qp)
      /\ Cardinality(Arrived(m)) = Cardinality(Qp) => Arrived(m) = Qp
  BY <1>2, <1>3, FS_Subset
<1>5. Cardinality(Arrived(m)) \in Nat BY <1>4, FS_CardinalityType
<1>6. Cardinality(Arrived(m)) \in 0..NQps BY <1>2, <1>4, <1>5, ConstantsOfRetrans
<1>7. ASSUME m \notin Sent, AddressInv PROVE Untaken(m) = 0
  <2>1. \A k \in 1..Len(cq) : cq[k] \notin NoticesOf(m)
    BY <1>7 DEF AddressInv, PacketInv, Addressed, NoticesOf
  <2> QED BY <2>1, CountSteps DEF Untaken, RetransInv, NetType
<1> QED BY <1>1, <1>2, <1>4, <1>6, <1>7

\* A receive that waits for nothing was told of the whole message.
LEMMA DoneIsNotified ==
  ASSUME RetransInv, ReceiptInv, NEW s \in Slot, NEW m \in Msg,
         recvReqs[s].use.msg = m, recvReqs[s].use.data = 0
  PROVE  Notified(m) /\ (recvReqs[s].use.bytes < NChunks => Untaken(m) = 0)
<1> DEFINE u == recvReqs[s].use
<1>1. InProgress(m, u) BY DEF ReceiptInv
<1>2. u.bytes \in Nat /\ u.data = 0 /\ NChunks \in Nat /\ NQps \in Nat
  BY ConstantsOfRetrans DEF RetransInv, RecvType, RecvReq
<1> HIDE DEF u
<1>3. CASE u.bytes = NChunks BY <1>1, <1>2, <1>3 DEF InProgress, Notified, u
<1>4. CASE u.bytes < NChunks
  <2>1. NQps - 0 + Untaken(m) <= Cardinality(Arrived(m)) BY <1>1, <1>2, <1>4 DEF InProgress
  <2>2. Cardinality(Arrived(m)) = NQps /\ Untaken(m) = 0 BY <1>2, <2>1, Counts DEF CountFacts
  <2>3. Arrived(m) = Qp BY <2>2, Counts DEF CountFacts
  <2> QED BY <2>2, <2>3 DEF Arrived, Notified
<1> QED BY <1>1, <1>2, <1>3, <1>4 DEF InProgress

\* Steps that leave the receives alone, and after which no more notifications
\* wait to be taken than have arrived since.
LEMMA ReceiptKept ==
  ASSUME RetransInv, RetransInv', ReceiptInv,
         UNCHANGED <<recvReqs, copied, received>>, Sent \subseteq Sent',
         \A m \in Msg : Untaken(m)' + Cardinality(Arrived(m))
                           <= Untaken(m) + Cardinality(Arrived(m)'),
         \A m \in received : Notified(m)'
  PROVE  ReceiptInv'
<1>1. \A m \in Msg : m \notin Sent' => copied'[m] = 0 BY DEF ReceiptInv
<1>2. ASSUME NEW s \in Slot, NEW m \in Msg, recvReqs'[s].use.msg = m
      PROVE  InProgress(m, recvReqs[s].use)'
  <2> DEFINE u == recvReqs[s].use
  <2>1. InProgress(m, u) /\ u' = u BY <1>2 DEF ReceiptInv
  <2>2. u.bytes \in Nat /\ u.data \in Int /\ NQps \in Nat
    BY ConstantsOfRetrans DEF RetransInv, RecvType, RecvReq
  <2>3. /\ Untaken(m) \in Nat /\ Untaken(m)' \in Nat
        /\ Cardinality(Arrived(m)) \in Nat /\ Cardinality(Arrived(m)') \in Nat
    <3>1. Untaken(m) \in Nat /\ Cardinality(Arrived(m)) \in 0..NQps
      BY Counts DEF CountFacts
    <3>0. RetransInv' => CountFacts' BY Counts, PTL
    <3>2. Untaken(m)' \in Nat /\ Cardinality(Arrived(m)') \in 0..NQps
      BY <3>0 DEF CountFacts
    <3> QED BY <3>1, <3>2, <2>2
  <2> HIDE DEF u
  <2>4. ASSUME u.bytes < NChunks
        PROVE  NQps - u.data + Untaken(m)' <= Cardinality(Arrived(m)')
    <3>1. NQps - u.data + Untaken(m) <= Cardinality(Arrived(m)) BY <2>1, <2>4 DEF InProgress
    <3> QED BY <2>2, <2>3, <3>1
  <2>5. InProgress(m, u)' BY <2>1, <2>4 DEF InProgress
  <2> QED BY <2>5 DEF u
<1> QED BY <1>1, <1>2 DEF ReceiptInv

LEMMA ReceiptInit == RetransInit => ReceiptInv
BY ConstantsOfRetrans DEF RetransInit, ReceiptInv, Unused, RecvRequest, Msg

LEMMA IrecvReceipt ==
  ASSUME RetransInv, AddressInv, ReceiptInv, Irecv
  PROVE  ReceiptInv'
<1>1. PICK s \in Slot, g \in Generation :
        recvReqs' = [recvReqs EXCEPT ![s] = RecvRequest(g, posted + 1, SeqMod, NQps, 0)]
  BY IrecvIs
<1>2. UNCHANGED <<sends, copied, received, uc, cq>> /\ posted < N
  BY DEF Irecv, sendVars
<1>3. Sent' = Sent BY <1>2 DEF Sent
<1>4. posted + 1 \in Msg /\ posted + 1 \notin Sent
  <2>1. Cardinality(Sent) \in 0..N /\ \A m \in Msg : m \in Sent <=> m <= Cardinality(Sent)
    BY SentIs DEF RetransInv
  <2>2. Len(fifo) \in Nat BY QueueSteps DEF RetransInv, NetType
  <2>3. posted + 1 \in Msg BY <1>2, ConstantsOfRetrans DEF RetransInv, SendInv, Msg
  <2>4. posted >= Cardinality(Sent) BY <2>1, <2>2 DEF RetransInv, SendInv
  <2> QED BY <2>1, <2>3, <2>4 DEF RetransInv, SendInv
<1>5. \A m : Untaken(m)' = Untaken(m) /\ Arrived(m)' = Arrived(m) /\ Notified(m)' = Notified(m)
  BY <1>2 DEF Untaken, Arrived, Notified
<1>6. ASSUME NEW t \in Slot, NEW m \in Msg, recvReqs'[t].use.msg = m
      PROVE  InProgress(m, recvReqs[t].use)'
  <2>1. CASE t = s
    <3>1. recvReqs'[t] = RecvRequest(g, posted + 1, SeqMod, NQps, 0)
      BY <1>1, <2>1 DEF RetransInv, RecvType
    <3>2. /\ recvReqs'[t].use.msg = posted + 1 /\ recvReqs'[t].use.bytes = 0
          /\ recvReqs'[t].use.data = NQps
      BY <3>1 DEF RecvRequest
    <3>3. m = posted + 1 BY <1>6, <3>2
    <3>4. copied[m] = 0 BY <1>4, <3>3 DEF ReceiptInv
    <3>5. Untaken(m) = 0 /\ Cardinality(Arrived(m)) \in 0..NQps
      BY <1>4, <3>3, Counts DEF CountFacts
    <3>6. NQps - NQps + 0 <= Cardinality(Arrived(m)) BY <3>5, ConstantsOfRetrans
    <3> QED BY <1>2, <1>5, <3>2, <3>4, <3>5, <3>6, ConstantsOfRetrans DEF InProgress
  <2>2. CASE t # s
    <3>1. recvReqs'[t] = recvReqs[t] BY <1>1, <2>2 DEF RetransInv, RecvType
    <3>2. InProgress(m, recvReqs[t].use) BY <1>6, <3>1 DEF ReceiptInv
    <3> QED BY <1>2, <1>5, <3>1, <3>2 DEF InProgress
  <2> QED BY <2>1, <2>2
<1>7. \A m \in received' : Notified(m)' BY <1>2, <1>5 DEF ReceiptInv
<1> QED BY <1>2, <1>3, <1>6, <1>7 DEF ReceiptInv

LEMMA TestRecvReceipt ==
  ASSUME RetransInv, ReceiptInv, NEW s \in Slot, TestRecv(s)
  PROVE  ReceiptInv'
<1> DEFINE d == recvReqs[s].use.msg
<1>1. /\ d # 0 /\ recvReqs[s].use.data = 0 /\ received' = received \cup {d}
      /\ recvReqs' = [recvReqs EXCEPT ![s] = Unused(recvReqs[s].gen)]
      /\ UNCHANGED <<sends, copied, uc, cq>>
  BY DEF TestRecv, sendVars, netVars
<1>2. Sent' = Sent BY <1>1 DEF Sent
<1>3. \A m : Untaken(m)' = Untaken(m) /\ Arrived(m)' = Arrived(m) /\ Notified(m)' = Notified(m)
  BY <1>1 DEF Untaken, Arrived, Notified
<1>4. d \in Msg BY <1>1 DEF RetransInv, RecvType, RecvReq, Msg
<1>5. /\ recvReqs'[s].use.msg = 0
      /\ \A t \in Slot : t # s => recvReqs'[t] = recvReqs[t]
  BY <1>1 DEF RetransInv, RecvType, Unused, RecvRequest
<1>6. Notified(d) BY <1>1, <1>4, DoneIsNotified
<1> HIDE DEF d
<1>7. \A m \in received' : Notified(m)' BY <1>1, <1>3, <1>6 DEF ReceiptInv
<1>8. ASSUME NEW t \in Slot, NEW m \in Msg, recvReqs'[t].use.msg = m
      PROVE  InProgress(m, recvReqs[t].use)'
  <2>1. t # s BY <1>5, <1>8 DEF Msg
  <2>2. recvReqs'[t] = recvReqs[t] BY <1>5, <2>1
  <2>3. InProgress(m, recvReqs[t].use) BY <1>8, <2>2 DEF ReceiptInv
  <2> QED BY <1>1, <1>3, <2>2, <2>3 DEF InProgress
<1> QED BY <1>1, <1>2, <1>7, <1>8 DEF ReceiptInv

LEMMA NotificationReceipt ==
  ASSUME RetransInv, AddressInv, Timely, ReceiptInv, ProcessNotification
  PROVE  ReceiptInv'
<1> DEFINE w == Head(cq)
           q == recvReqs[w.slot]
<1>1. /\ cq # <<>> /\ cq' = Tail(cq) /\ w.kind = "uc"
      /\ UNCHANGED <<sends, copied, received, uc>>
  BY DEF ProcessNotification, sendVars
<1>2. Sent' = Sent BY <1>1 DEF Sent
<1>3. /\ w \in Notice \cup Chunk /\ Addressed(w) /\ w.slot \in Slot
      /\ Matches(w) => q.use.msg = w.msg
  BY CompletionTaken
<1>4. w \in Notice /\ w.msg \in Msg BY <1>1, <1>3 DEF Chunk, Notice
<1>5. \A m : Arrived(m)' = Arrived(m) /\ Notified(m)' = Notified(m)
  BY <1>1 DEF Arrived, Notified
<1>6. \A m : Untaken(m)' = Untaken(m) - (IF m = w.msg THEN 1 ELSE 0)
  <2> TAKE m
  <2>1. CountIn(Tail(cq), NoticesOf(m)) =
          CountIn(cq, NoticesOf(m)) - (IF cq[1] \in NoticesOf(m) THEN 1 ELSE 0)
    BY <1>1, CountSteps DEF RetransInv, NetType
  <2>2. cq[1] = w BY <1>1, QueueSteps DEF RetransInv, NetType
  <2>3. w \in NoticesOf(m) <=> m = w.msg BY <1>4 DEF NoticesOf
  <2> QED BY <1>1, <2>1, <2>2, <2>3 DEF Untaken
<1>7. \/ recvReqs' = recvReqs
      \/ /\ Matches(w) /\ ~(q.use.seq = w.seq /\ q.use.bytes = NChunks)
         /\ recvReqs' = [recvReqs EXCEPT ![w.slot] =
              RecvRequest(q.gen, q.use.msg, w.seq, q.use.data - 1, q.use.bytes)]
  BY DEF ProcessNotification
<1>8. w.seq = SeqOf(w.msg) BY <1>3 DEF Addressed
<1> HIDE DEF w
<1>9. ASSUME NEW t \in Slot, NEW m \in Msg, recvReqs'[t].use.msg = m
      PROVE  InProgress(m, recvReqs[t].use)'
  <2>1. /\ Untaken(m) \in Nat /\ Cardinality(Arrived(m)) \in Nat
        /\ NQps \in Nat /\ NChunks \in Nat
    <3>1. Untaken(m) \in Nat /\ Cardinality(Arrived(m)) \in 0..NQps
      BY Counts DEF CountFacts
    <3> QED BY <3>1, ConstantsOfRetrans
  <2>2. recvReqs[t].use.bytes \in Nat /\ recvReqs[t].use.data \in Int
    BY DEF RetransInv, RecvType, RecvReq
  <2>3. CASE recvReqs'[t] = recvReqs[t]
    <3> DEFINE u == recvReqs[t].use
    <3>1. InProgress(m, u) /\ u' = u BY <1>9, <2>3 DEF ReceiptInv
    <3>2. Untaken(m)' <= Untaken(m) /\ Untaken(m)' \in Int BY <1>6, <2>1
    <3> HIDE DEF u
    <3>3. u.bytes \in Nat /\ u.data \in Int BY <2>2 DEF u
    <3>4. ASSUME u.bytes < NChunks
          PROVE  NQps - u.data + Untaken(m)' <= Cardinality(Arrived(m))
      <4>1. NQps - u.data + Untaken(m) <= Cardinality(Arrived(m)) BY <3>1, <3>4 DEF InProgress
      <4> QED BY <2>1, <3>2, <3>3, <4>1
    <3>5. InProgress(m, u)' BY <1>1, <1>5, <3>1, <3>4 DEF InProgress
    <3> QED BY <3>5 DEF u
  <2>4. ASSUME t = w.slot, Matches(w), ~(q.use.seq = w.seq /\ q.use.bytes = NChunks),
               recvReqs' = [recvReqs EXCEPT ![w.slot] =
                 RecvRequest(q.gen, q.use.msg, w.seq, q.use.data - 1, q.use.bytes)]
        PROVE  InProgress(m, recvReqs[t].use)'
    <3> DEFINE u == recvReqs[t].use
               v == recvReqs'[t].use
    <3>1. recvReqs'[t] = RecvRequest(q.gen, q.use.msg, w.seq, q.use.data - 1, q.use.bytes)
      BY <2>4 DEF RetransInv, RecvType
    <3>2. v.msg = u.msg /\ v.seq = w.seq /\ v.data = u.data - 1 /\ v.bytes = u.bytes
      BY <2>4, <3>1 DEF RecvRequest
    <3>3. m = w.msg /\ u.msg = m BY <1>3, <1>9, <2>4, <3>2
    <3>4. InProgress(m, u) BY <3>3 DEF ReceiptInv
    <3>5. ~(u.seq = w.seq /\ u.bytes = NChunks) BY <2>4
    <3>6. u.bytes \in Nat /\ u.data \in Int BY <2>2
    <3> HIDE DEF u, v
    <3>7. u.bytes < NChunks BY <1>8, <2>1, <3>3, <3>4, <3>5, <3>6 DEF InProgress
    <3>8. Untaken(m)' = Untaken(m) - 1 BY <1>6, <3>3
    <3>9. NQps - (u.data - 1) + (Untaken(m) - 1) <= Cardinality(Arrived(m))
      <4>1. NQps - u.data + Untaken(m) <= Cardinality(Arrived(m)) BY <3>4, <3>7 DEF InProgress
      <4> QED BY <2>1, <3>6, <4>1
    <3>10. /\ v.bytes = copied'[m] /\ v.bytes <= NChunks /\ v.bytes # NChunks
           /\ NQps - v.data + Untaken(m)' <= Cardinality(Arrived(m)')
      BY <1>1, <1>5, <2>1, <3>2, <3>4, <3>6, <3>7, <3>8, <3>9 DEF InProgress
    <3> QED BY <3>10 DEF InProgress, v
  <2>5. t # w.slot => recvReqs'[t] = recvReqs[t] BY <1>7 DEF RetransInv, RecvType
  <2> QED BY <1>7, <2>3, <2>4, <2>5
<1>10. \A m \in received' : Notified(m)' BY <1>1, <1>5 DEF ReceiptInv
<1> QED BY <1>1, <1>2, <1>9, <1>10 DEF ReceiptInv

\* What the receiver does with a chunk: nothing, nothing but note that the
\* receive has them all, or copy it.
LEMMA ChunkTaken ==
  ASSUME RetransInv, AddressInv, Timely, ProcessChunk
  PROVE  LET w == Head(cq)
             q == recvReqs[w.slot]
             r == q.use
         IN
         \/ recvReqs' = recvReqs /\ copied' = copied
         \/ /\ Matches(w) /\ copied' = copied
            /\ recvReqs' = [recvReqs EXCEPT ![w.slot] =
                 RecvRequest(q.gen, r.msg, r.seq, DataEvents(r.data, r.bytes = NChunks), r.bytes)]
         \/ /\ Matches(w) /\ w.chunk = r.bytes
            /\ copied' = [copied EXCEPT ![w.msg] = copied[w.msg] + 1]
            /\ recvReqs' = [recvReqs EXCEPT ![w.slot] =
                 RecvRequest(q.gen, r.msg, w.seq, DataEvents(r.data, r.bytes + 1 = NChunks),
                         r.bytes + 1)]
<1> DEFINE w == Head(cq)
           q == recvReqs[w.slot]
           r == q.use
           current == Matches(w) /\ r.seq \in {NoSeq, w.seq}
           copy == current /\ w.chunk = r.bytes
           bytes == IF copy THEN r.bytes + 1 ELSE r.bytes
<1>1. Matches(w) => r.msg = w.msg BY CompletionTaken
<1>2. /\ recvReqs' = IF ~current THEN recvReqs ELSE
             [recvReqs EXCEPT ![w.slot] =
                RecvRequest(q.gen, r.msg, IF copy THEN w.seq ELSE r.seq,
                        DataEvents(r.data, bytes = NChunks), bytes)]
      /\ copied' = IF copy /\ w.msg = r.msg
                     THEN [copied EXCEPT ![r.msg] = copied[r.msg] + 1] ELSE copied
  BY DEF ProcessChunk
<1>3. CASE ~current BY <1>2, <1>3
<1>4. CASE current /\ ~copy
  <2>1. /\ copied' = copied /\ bytes = r.bytes
        /\ recvReqs' = [recvReqs EXCEPT ![w.slot] =
             RecvRequest(q.gen, r.msg, r.seq, DataEvents(r.data, bytes = NChunks), bytes)]
    BY <1>2, <1>4
  <2> QED BY <1>4, <2>1
<1>5. CASE copy
  <2>1. /\ w.msg = r.msg /\ bytes = r.bytes + 1 /\ Matches(w) /\ w.chunk = r.bytes
        /\ current
    BY <1>1, <1>5
  <2>2. /\ copied' = [copied EXCEPT ![w.msg] = copied[w.msg] + 1]
        /\ recvReqs' = [recvReqs EXCEPT ![w.slot] =
             RecvRequest(q.gen, r.msg, w.seq, DataEvents(r.data, bytes = NChunks), bytes)]
    BY <1>2, <1>5, <2>1
  <2> QED BY <2>1, <2>2
<1> QED BY <1>3, <1>4, <1>5

LEMMA ChunkReceipt ==
  ASSUME RetransInv, AddressInv, Timely, ReceiptInv, ProcessChunk
  PROVE  ReceiptInv'
<1> DEFINE w == Head(cq)
           q == recvReqs[w.slot]
           r == q.use
<1>1. /\ cq # <<>> /\ cq' = Tail(cq) /\ w.kind = "rc"
      /\ UNCHANGED <<sends, received, uc>>
  BY DEF ProcessChunk, sendVars
<1>2. Sent' = Sent BY <1>1 DEF Sent
<1>3. /\ w \in Notice \cup Chunk /\ Addressed(w) /\ w.slot \in Slot
      /\ Matches(w) => r.msg = w.msg
  BY CompletionTaken
<1>4. w \in Chunk /\ w.msg \in Msg /\ w.chunk \in 0..NChunks-1
  BY <1>1, <1>3 DEF Chunk, Notice
<1>5. \A m : Arrived(m)' = Arrived(m) BY <1>1 DEF Arrived
<1>6. \A m \in Msg : Untaken(m)' = Untaken(m)
  <2> TAKE m \in Msg
  <2>1. /\ CountIn(Tail(cq), NoticesOf(m)) =
             CountIn(cq, NoticesOf(m)) - (IF cq[1] \in NoticesOf(m) THEN 1 ELSE 0)
        /\ CountIn(cq, NoticesOf(m)) \in Nat
    BY <1>1, CountSteps DEF RetransInv, NetType
  <2>2. cq[1] = w BY <1>1, QueueSteps DEF RetransInv, NetType
  <2>3. w \notin NoticesOf(m)
    <3>1. \A x \in Notice : x.kind = "uc" BY DEF Notice
    <3> QED BY <1>1, <3>1 DEF NoticesOf
  <2>4. CountIn(cq', NoticesOf(m)) = CountIn(cq, NoticesOf(m)) BY <1>1, <2>1, <2>2, <2>3
  <2> QED BY <2>4 DEF Untaken
<1>7. \/ recvReqs' = recvReqs /\ copied' = copied
      \/ /\ Matches(w) /\ copied' = copied
         /\ recvReqs' = [recvReqs EXCEPT ![w.slot] =
              RecvRequest(q.gen, r.msg, r.seq, DataEvents(r.data, r.bytes = NChunks), r.bytes)]
      \/ /\ Matches(w) /\ w.chunk = r.bytes
         /\ copied' = [copied EXCEPT ![w.msg] = copied[w.msg] + 1]
         /\ recvReqs' = [recvReqs EXCEPT ![w.slot] =
              RecvRequest(q.gen, r.msg, w.seq, DataEvents(r.data, r.bytes + 1 = NChunks),
                      r.bytes + 1)]
  BY ChunkTaken
<1>8. w.seq = SeqOf(w.msg) /\ w.msg \in Sent BY <1>3 DEF Addressed
<1> HIDE DEF w
<1>9. \A m \in Msg : m # w.msg => copied'[m] = copied[m]
  BY <1>7 DEF RetransInv, RecvType
<1>10. copied' # copied => w.msg \notin received
  <2>1. copied' # copied => r.msg = w.msg BY <1>3, <1>7
  <2> QED BY <1>3, <1>4, <2>1 DEF AddressInv, SlotInv
<1>11. \A m \in received' : Notified(m)'
  <2>1. received \subseteq Msg BY DEF RetransInv, RecvType
  <2>2. \A m \in received : copied'[m] = copied[m] BY <1>9, <1>10, <2>1
  <2> QED BY <1>1, <2>2 DEF ReceiptInv, Notified
<1>12. \A m \in Msg : m \notin Sent' => copied'[m] = 0
  BY <1>2, <1>8, <1>9 DEF ReceiptInv
<1>13. ASSUME NEW t \in Slot, NEW m \in Msg, recvReqs'[t].use.msg = m
       PROVE  InProgress(m, recvReqs[t].use)'
  <2> DEFINE u == recvReqs[t].use
             v == recvReqs'[t].use
  <2>1. u.bytes \in Nat /\ u.data \in Int BY DEF RetransInv, RecvType, RecvReq
  <2>2. CASE t # w.slot \/ (recvReqs' = recvReqs /\ copied' = copied)
    <3>1. recvReqs'[t] = recvReqs[t] BY <1>7, <2>2 DEF RetransInv, RecvType
    <3>2. InProgress(m, u) /\ u.msg = m BY <1>13, <3>1 DEF ReceiptInv
    <3>3. copied'[m] = copied[m]
      <4>1. CASE copied' = copied BY <4>1
      <4>2. CASE copied' # copied
        <5>1. t # w.slot /\ r.msg = w.msg BY <1>3, <1>7, <2>2, <4>2
        <5>2. Announced(m).slot = t BY <3>2 DEF AddressInv, SlotInv
        <5>3. Announced(w.msg).slot = w.slot BY <1>3, <1>4, <5>1 DEF AddressInv, SlotInv
        <5> QED BY <1>9, <5>1, <5>2, <5>3
      <4> QED BY <4>1, <4>2
    <3> QED BY <1>5, <1>6, <3>1, <3>2, <3>3 DEF InProgress
  <2>3. ASSUME t = w.slot, Matches(w), copied' = copied,
               recvReqs' = [recvReqs EXCEPT ![w.slot] =
                 RecvRequest(q.gen, r.msg, r.seq, DataEvents(r.data, r.bytes = NChunks), r.bytes)]
        PROVE  InProgress(m, recvReqs[t].use)'
    <3>1. recvReqs'[t] =
            RecvRequest(q.gen, r.msg, r.seq, DataEvents(r.data, r.bytes = NChunks), r.bytes)
      BY <2>3 DEF RetransInv, RecvType
    <3>2. /\ v.msg = u.msg /\ v.seq = u.seq /\ v.bytes = u.bytes
          /\ v.data = DataEvents(u.data, u.bytes = NChunks)
      BY <2>3, <3>1 DEF RecvRequest
    <3>3. InProgress(m, u) BY <1>13, <3>2 DEF ReceiptInv
    <3> HIDE DEF u, v
    <3>4. v.data = u.data BY <3>2, <3>3 DEF InProgress, DataEvents
    <3>5. /\ v.bytes = copied'[m] /\ v.bytes <= NChunks
          /\ v.bytes = NChunks => v.data = 0 /\ v.seq = SeqOf(m)
          /\ v.bytes < NChunks => NQps - v.data + Untaken(m)' <= Cardinality(Arrived(m)')
      BY <1>5, <1>6, <2>3, <3>2, <3>3, <3>4 DEF InProgress
    <3> QED BY <3>5 DEF InProgress, v
  <2>4. ASSUME t = w.slot, Matches(w), w.chunk = r.bytes,
               copied' = [copied EXCEPT ![w.msg] = copied[w.msg] + 1],
               recvReqs' = [recvReqs EXCEPT ![w.slot] =
                 RecvRequest(q.gen, r.msg, w.seq, DataEvents(r.data, r.bytes + 1 = NChunks),
                         r.bytes + 1)]
        PROVE  InProgress(m, recvReqs[t].use)'
    <3>1. recvReqs'[t] =
            RecvRequest(q.gen, r.msg, w.seq, DataEvents(r.data, r.bytes + 1 = NChunks),
                    r.bytes + 1)
      BY <2>4 DEF RetransInv, RecvType
    <3>2. /\ v.msg = u.msg /\ v.seq = w.seq /\ v.bytes = u.bytes + 1
          /\ v.data = DataEvents(u.data, u.bytes + 1 = NChunks)
      BY <2>4, <3>1 DEF RecvRequest
    <3>3. u.msg = m /\ m = w.msg BY <1>3, <1>13, <2>4, <3>2
    <3>4. InProgress(m, u) BY <3>3 DEF ReceiptInv
    <3>5. u.bytes \in 0..NChunks-1 BY <1>4, <2>4
    <3> HIDE DEF u, v
    <3>6. v.seq = SeqOf(m) BY <1>8, <3>2, <3>3
    <3>7. copied'[m] = copied[m] + 1 BY <2>4, <3>3 DEF RetransInv, RecvType
    <3>8. u.bytes + 1 <= NChunks /\ u.bytes < NChunks BY <3>5, ConstantsOfRetrans
    <3>9. v.bytes = copied'[m] /\ v.bytes <= NChunks BY <3>2, <3>4, <3>7, <3>8 DEF InProgress
    <3>10. v.bytes = NChunks => v.data = 0 BY <3>2 DEF DataEvents
    <3>11. v.bytes < NChunks => v.data = u.data
      BY <3>2, <2>1, ConstantsOfRetrans DEF DataEvents, u
    <3>12. v.bytes < NChunks => NQps - v.data + Untaken(m)' <= Cardinality(Arrived(m)')
      BY <1>5, <1>6, <3>4, <3>8, <3>11 DEF InProgress
    <3> QED BY <3>6, <3>9, <3>10, <3>12 DEF InProgress, v
  <2> QED BY <1>7, <2>2, <2>3, <2>4
<1> QED BY <1>2, <1>11, <1>12, <1>13 DEF ReceiptInv

LEMMA IsendReceipt ==
  ASSUME RetransInv, ReceiptInv, Isend
  PROVE  ReceiptInv'
<1>1. PICK m \in Msg : /\ m = Cardinality(Sent) + 1 /\ m \notin Sent /\ Sent' = 1..m
                       /\ uc' = [uc EXCEPT ![m] = [q \in Qp |-> "flight"]]
  BY IsendIs DEF Isend
<1>2. UNCHANGED <<recvReqs, copied, received, cq>> BY DEF Isend, recvVars
<1>3. RetransInv' BY IsendInv
<1>4. Sent \subseteq Sent'
  <2>1. Sent = 1..Cardinality(Sent) BY DEF RetransInv, SendInv
  <2>2. Cardinality(Sent) \in 0..N BY SentIs DEF RetransInv
  <2> QED BY <1>1, <2>1, <2>2
<1>5. \A k \in Msg : k # m => uc'[k] = uc[k] BY <1>1 DEF RetransInv, NetType
<1>6. \A q \in Qp : uc[m][q] = "none" /\ uc'[m][q] = "flight"
  BY <1>1 DEF RetransInv, NetType, SendInv
<1>7. \A k \in Msg : Arrived(k)' = Arrived(k)
  <2>1. Arrived(m)' = {} /\ Arrived(m) = {} BY <1>6 DEF Arrived
  <2>2. \A k \in Msg : k # m => Arrived(k)' = Arrived(k) BY <1>5 DEF Arrived
  <2> QED BY <2>1, <2>2
<1>8. ASSUME NEW k \in Msg
      PROVE  Untaken(k)' + Cardinality(Arrived(k)) <= Untaken(k) + Cardinality(Arrived(k)')
  <2>1. Untaken(k)' = Untaken(k) BY <1>2 DEF Untaken
  <2>2. Untaken(k) \in Nat /\ Cardinality(Arrived(k)) \in 0..NQps BY Counts DEF CountFacts
  <2> QED BY <1>7, <2>1, <2>2, ConstantsOfRetrans
<1>9. m \notin received
  <2>1. copied[m] = 0 BY <1>1 DEF ReceiptInv
  <2>2. 1 \in Qp BY ConstantsOfRetrans DEF Qp
  <2>3. ~Notified(m) BY <1>6, <2>1, <2>2, ConstantsOfRetrans DEF Notified
  <2> QED BY <2>3 DEF ReceiptInv
<1>10. \A k \in received : Notified(k)'
  <2>1. received \subseteq Msg BY DEF RetransInv, RecvType
  <2> QED BY <1>2, <1>5, <1>9, <2>1 DEF ReceiptInv, Notified
<1> QED BY <1>2, <1>3, <1>4, <1>8, <1>10, ReceiptKept

LEMMA DeliverReceipt ==
  ASSUME RetransInv, ReceiptInv, NEW m \in Msg, NEW q \in Qp, Deliver(m, q) \/ Lose(m, q)
  PROVE  ReceiptInv'
<1>1. /\ uc[m][q] = "flight" /\ UNCHANGED <<recvReqs, copied, received>>
      /\ UNCHANGED sends
  BY DEF Deliver, Lose, NextOn, recvVars, sendVars
<1>2. RetransInv' BY NotificationInv
<1>3. Sent' = Sent BY <1>1 DEF Sent
<1>4. \A k \in Msg, p \in Qp : ~(k = m /\ p = q) => uc'[k][p] = uc[k][p]
  BY DEF Deliver, Lose, RetransInv, NetType
<1>5. \A k \in Msg : k # m => Arrived(k)' = Arrived(k) BY <1>4 DEF Arrived
<1>6. \A k \in received : Notified(k)'
  <2>1. received \subseteq Msg BY DEF RetransInv, RecvType
  <2>2. ASSUME NEW k \in received PROVE Notified(k)'
    <3>1. CASE copied[k] = NChunks BY <1>1, <3>1 DEF Notified
    <3>2. CASE \A p \in Qp : uc[k][p] = "arrived"
      <4>1. k # m BY <1>1, <3>2
      <4>2. \A p \in Qp : uc'[k][p] = "arrived" BY <1>4, <2>1, <3>2, <4>1
      <4> QED BY <4>2 DEF Notified
    <3> QED BY <3>1, <3>2 DEF ReceiptInv, Notified
  <2> QED BY <2>2
<1>7. ASSUME NEW k \in Msg
      PROVE  Untaken(k)' + Cardinality(Arrived(k)) <= Untaken(k) + Cardinality(Arrived(k)')
  <2>1. Untaken(k) \in Nat /\ Cardinality(Arrived(k)) \in 0..NQps BY Counts DEF CountFacts
  <2>2. CASE Lose(m, q)
    <3>1. uc'[m][q] = "lost" /\ cq' = cq BY <2>2 DEF Lose, RetransInv, NetType
    <3>2. Arrived(k)' = Arrived(k) /\ Untaken(k)' = Untaken(k)
      BY <1>1, <1>4, <3>1 DEF Arrived, Untaken
    <3> QED BY <2>1, <3>2, ConstantsOfRetrans
  <2>3. CASE Deliver(m, q)
    <3>1. PICK w \in Notice : w.msg = m /\ cq' = Append(cq, w) BY <2>3, DeliverIs
    <3>2. CountIn(Append(cq, w), NoticesOf(k)) =
            CountIn(cq, NoticesOf(k)) + (IF w \in NoticesOf(k) THEN 1 ELSE 0)
      <4>1. w \in Notice \cup Chunk OBVIOUS
      <4> QED BY <4>1, CountSteps DEF RetransInv, NetType
    <3>3. w \in NoticesOf(k) <=> k = m BY <3>1 DEF NoticesOf
    <3>4. CASE k # m
      <4>1. CountIn(cq', NoticesOf(k)) = CountIn(cq, NoticesOf(k)) + 0 BY <3>1, <3>2, <3>3, <3>4
      <4>2. Untaken(k)' = Untaken(k) + 0 BY <4>1 DEF Untaken
      <4> QED BY <1>5, <2>1, <3>4, <4>2, ConstantsOfRetrans
    <3>5. CASE k = m
      <4>1. CountIn(cq', NoticesOf(k)) = CountIn(cq, NoticesOf(k)) + 1 BY <3>1, <3>2, <3>3, <3>5
      <4>2. Untaken(k)' = Untaken(k) + 1 BY <4>1 DEF Untaken
      <4>3. uc'[m][q] = "arrived" BY <2>3 DEF Deliver, RetransInv, NetType
      <4>4. Arrived(k)' = Arrived(k) \cup {q} /\ q \notin Arrived(k)
        BY <1>1, <1>4, <3>5, <4>3 DEF Arrived
      <4>5. IsFiniteSet(Arrived(k))
        <5>1. IsFiniteSet(Qp) BY ConstantsOfRetrans, FS_Interval DEF Qp
        <5>2. Arrived(k) \subseteq Qp BY DEF Arrived
        <5> QED BY <5>1, <5>2, FS_Subset
      <4>6. Cardinality(Arrived(k)') = Cardinality(Arrived(k)) + 1
        BY <4>4, <4>5, FS_AddElement
      <4> QED BY <2>1, <4>2, <4>6, ConstantsOfRetrans
    <3> QED BY <3>4, <3>5
  <2> QED BY <2>2, <2>3
<1> QED BY <1>1, <1>2, <1>3, <1>6, <1>7, ReceiptKept

LEMMA OtherReceipt ==
  ASSUME RetransInv, ReceiptInv, OtherStep
  PROVE  ReceiptInv'
<1>1. UNCHANGED <<recvReqs, copied, received>> /\ Sent' = Sent
  BY OtherKeeps DEF recvVars
<1>2. RetransInv'
  <2>1. CASE DataStep BY <2>1, DataInv
  <2>2. CASE \E j : GiveUp(j) \/ Continue(j) \/ Retransmit(j)
    BY <2>2, RetransmissionInv, SendCallsInv
  <2>3. CASE ~(\E j : GiveUp(j) \/ Continue(j) \/ Retransmit(j))
    BY <2>3, ProcessAckInv, CompleteChunkInv, SendCallsInv, NotificationInv, DeliverChunkInv,
       <2>1 DEF OtherStep
  <2> QED BY <2>2, <2>3
<1>3. CASE \E m \in Msg, q \in Qp : Deliver(m, q) \/ Lose(m, q) BY <1>3, DeliverReceipt
<1>4. ASSUME UNCHANGED uc,
             \A k \in Msg : Untaken(k)' = Untaken(k)
      PROVE  ReceiptInv'
  <2>1. \A k \in Msg : Untaken(k)' + Cardinality(Arrived(k))
                          <= Untaken(k) + Cardinality(Arrived(k)')
    <3> TAKE k \in Msg
    <3>1. Arrived(k)' = Arrived(k) BY <1>4 DEF Arrived
    <3>2. Untaken(k) \in Nat /\ Cardinality(Arrived(k)) \in 0..NQps BY Counts DEF CountFacts
    <3> QED BY <1>4, <3>1, <3>2, ConstantsOfRetrans
  <2>2. \A k \in received : Notified(k)' BY <1>1, <1>4 DEF ReceiptInv, Notified
  <2> QED BY <1>1, <1>2, <2>1, <2>2, ReceiptKept
<1>5. CASE UNCHANGED <<uc, cq>> BY <1>4, <1>5 DEF Untaken
<1>6. CASE DeliverChunk
  <2>1. rc # <<>> /\ cq' = Append(cq, Head(rc)) /\ UNCHANGED uc BY <1>6 DEF DeliverChunk
  <2>2. Head(rc) \in Chunk BY <2>1, QueueSteps DEF RetransInv, NetType
  <2>3. ASSUME NEW k \in Msg PROVE Untaken(k)' = Untaken(k)
    <3>1. /\ CountIn(Append(cq, Head(rc)), NoticesOf(k)) =
               CountIn(cq, NoticesOf(k)) + (IF Head(rc) \in NoticesOf(k) THEN 1 ELSE 0)
          /\ CountIn(cq, NoticesOf(k)) \in Nat
      <4>1. Head(rc) \in Notice \cup Chunk BY <2>2
      <4> QED BY <4>1, CountSteps DEF RetransInv, NetType
    <3>2. Head(rc) \notin NoticesOf(k)
      <4>1. \A x \in Notice : x.kind = "uc" BY DEF Notice
      <4>2. Head(rc).kind = "rc" BY <2>2 DEF Chunk
      <4> QED BY <4>1, <4>2 DEF NoticesOf
    <3>3. CountIn(cq', NoticesOf(k)) = CountIn(cq, NoticesOf(k)) BY <2>1, <3>1, <3>2
    <3> QED BY <3>3 DEF Untaken
  <2> QED BY <1>4, <2>1, <2>3
<1>7. \/ UNCHANGED <<uc, cq>> \/ DeliverChunk
      \/ \E m \in Msg, q \in Qp : Deliver(m, q) \/ Lose(m, q)
  BY DEF OtherStep, ProcessAck, CompleteChunk, TestSend, Continue, Retransmit, GiveUp,
         DataStep, netVars
<1> QED BY <1>3, <1>5, <1>6, <1>7

LEMMA ReceiptStep ==
  ASSUME RetransInv, AddressInv, Timely, ReceiptInv, [RetransNext]_retransVars
  PROVE  ReceiptInv'
<1>1. CASE Irecv BY <1>1, IrecvReceipt
<1>2. CASE ProcessNotification BY <1>2, NotificationReceipt
<1>3. CASE ProcessChunk BY <1>3, ChunkReceipt
<1>4. CASE \E s \in Slot : TestRecv(s) BY <1>4, TestRecvReceipt
<1>5. CASE Isend BY <1>5, IsendReceipt
<1>6. CASE OtherStep BY <1>6, OtherReceipt
<1> QED BY <1>1, <1>2, <1>3, <1>4, <1>5, <1>6, RetransCases

LEMMA ReceiptInvariant == TimelySpec => []ReceiptInv
<1>1. RetransInv /\ Timely /\ AddressInv /\ ReceiptInv /\ [RetransNext]_retransVars => ReceiptInv'
  BY ReceiptStep
<1>2. TimelySpec => RetransInit BY DEF TimelySpec
<1> QED BY <1>1, <1>2, ReceiptInit, TimelySteps, AddressInvariant, PTL

\* A receive that waits for nothing stays so until test reports it done, and
\* then is reported for good.
LEMMA CompleteStays ==
  ASSUME RetransInv, AddressInv, Timely, ReceiptInv, [RetransNext]_retransVars,
         NEW m \in Msg, Complete(m)
  PROVE  Complete(m)'
<1>1. CASE m \in received
  <2>1. CASE Irecv BY <1>1, <2>1 DEF Irecv, Complete
  <2>2. CASE ProcessNotification
    <3>1. UNCHANGED received BY <2>2 DEF ProcessNotification
    <3> QED BY <1>1, <3>1 DEF Complete
  <2>3. CASE ProcessChunk
    <3>1. UNCHANGED received BY <2>3 DEF ProcessChunk
    <3> QED BY <1>1, <3>1 DEF Complete
  <2>4. CASE \E t \in Slot : TestRecv(t) BY <1>1, <2>4 DEF TestRecv, Complete
  <2>5. CASE UNCHANGED recvVars BY <1>1, <2>5 DEF recvVars, Complete
  <2>6. \/ Irecv \/ ProcessNotification \/ ProcessChunk \/ UNCHANGED recvVars
        \/ \E t \in Slot : TestRecv(t)
    BY RetransCases, OtherKeeps DEF Isend
  <2> QED BY <2>1, <2>2, <2>3, <2>4, <2>5, <2>6
<1>2. ASSUME NEW s \in Slot, recvReqs[s].use.msg = m, recvReqs[s].use.data = 0
      PROVE  Complete(m)'
  <2>1. CASE recvReqs'[s] = recvReqs[s] BY <1>2, <2>1 DEF Complete
  <2>2. CASE Irecv
    <3>1. PICK t \in Slot : /\ recvReqs[t].use.msg = 0
                            /\ \E x : recvReqs' = [recvReqs EXCEPT ![t] = x]
      BY <2>2, IrecvIs
    <3>2. s # t BY <1>2, <3>1 DEF Msg
    <3>3. recvReqs'[s] = recvReqs[s] BY <3>1, <3>2 DEF RetransInv, RecvType
    <3> QED BY <2>1, <3>3
  <2>3. ASSUME NEW t \in Slot, TestRecv(t) PROVE Complete(m)'
    <3>1. CASE t = s BY <1>2, <2>3, <3>1 DEF TestRecv, Complete
    <3>2. CASE t # s
      <4>1. recvReqs'[s] = recvReqs[s] BY <2>3, <3>2 DEF TestRecv, RetransInv, RecvType
      <4> QED BY <2>1, <4>1
    <3> QED BY <3>1, <3>2
  <2>4. CASE ProcessNotification
    <3> DEFINE w == Head(cq)
               r == recvReqs[w.slot].use
    <3>1. /\ w \in Notice \cup Chunk /\ Addressed(w) /\ w.slot \in Slot
          /\ Matches(w) => r.msg = w.msg
      BY <2>4, CompletionTaken
    <3>2. cq # <<>> /\ w.kind = "uc" BY <2>4 DEF ProcessNotification
    <3>3. \/ recvReqs' = recvReqs
          \/ /\ Matches(w) /\ ~(r.seq = w.seq /\ r.bytes = NChunks)
             /\ \E x : recvReqs' = [recvReqs EXCEPT ![w.slot] = x]
      BY <2>4 DEF ProcessNotification
    <3> HIDE DEF w
    <3>4. CASE s # w.slot
      <4>1. recvReqs'[s] = recvReqs[s] BY <3>3, <3>4 DEF RetransInv, RecvType
      <4> QED BY <2>1, <4>1
    <3>5. ASSUME s = w.slot, Matches(w) PROVE r.seq = w.seq /\ r.bytes = NChunks
      <4>1. w.msg = m /\ w.seq = SeqOf(m) BY <1>2, <3>1, <3>5 DEF Addressed
      <4>2. InProgress(m, r) BY <1>2, <3>5 DEF ReceiptInv
      <4>3. r.bytes \in Nat /\ NChunks \in Nat
        BY <3>5, ConstantsOfRetrans DEF RetransInv, RecvType, RecvReq
      <4>4. CASE r.bytes < NChunks
        <5>1. Untaken(m) = 0 BY <1>2, <3>5, <4>4, DoneIsNotified
        <5>2. w \in NoticesOf(m)
          <6>1. w \in Notice BY <3>1, <3>2 DEF Chunk
          <6> QED BY <4>1, <6>1 DEF NoticesOf
        <5>3. cq[1] = w /\ Tail(cq) \in Seq(Notice \cup Chunk)
          BY <3>2, QueueSteps DEF RetransInv, NetType, w
        <5>4. /\ CountIn(Tail(cq), NoticesOf(m)) =
                   CountIn(cq, NoticesOf(m)) - (IF cq[1] \in NoticesOf(m) THEN 1 ELSE 0)
          BY <3>2, CountSteps DEF RetransInv, NetType
        <5>5. CountIn(Tail(cq), NoticesOf(m)) \in Nat BY <5>3, CountSteps
        <5> QED BY <5>1, <5>2, <5>3, <5>4, <5>5 DEF Untaken
      <4>5. r.bytes = NChunks BY <4>2, <4>3, <4>4 DEF InProgress
      <4> QED BY <4>1, <4>2, <4>5 DEF InProgress
    <3>6. CASE s = w.slot /\ recvReqs' = recvReqs BY <2>1, <3>6
    <3> QED BY <3>3, <3>4, <3>5, <3>6
  <2>5. CASE ProcessChunk
    <3> DEFINE w == Head(cq)
    <3>1. w.slot \in Slot BY <2>5, CompletionTaken
    <3>2. \/ recvReqs' = recvReqs
          \/ \E g, sq, c, b :
               recvReqs' = [recvReqs EXCEPT ![w.slot] =
                 RecvRequest(g, recvReqs[w.slot].use.msg, sq,
                         DataEvents(recvReqs[w.slot].use.data, c), b)]
      BY <2>5, ChunkTaken
    <3> HIDE DEF w
    <3>3. CASE recvReqs' = recvReqs BY <2>1, <3>3
    <3>4. ASSUME NEW g, NEW sq, NEW c, NEW b,
                 recvReqs' = [recvReqs EXCEPT ![w.slot] =
                   RecvRequest(g, recvReqs[w.slot].use.msg, sq,
                           DataEvents(recvReqs[w.slot].use.data, c), b)]
          PROVE  Complete(m)'
      <4>1. CASE s # w.slot
        <5>1. recvReqs'[s] = recvReqs[s] BY <3>4, <4>1 DEF RetransInv, RecvType
        <5> QED BY <2>1, <5>1
      <4>2. CASE s = w.slot
        <5>1. recvReqs'[s] = RecvRequest(g, m, sq, DataEvents(0, c), b)
          BY <1>2, <3>4, <4>2 DEF RetransInv, RecvType
        <5>2. DataEvents(0, c) = 0 BY DEF DataEvents
        <5>3. recvReqs'[s].use.msg = m /\ recvReqs'[s].use.data = 0
          BY <5>1, <5>2 DEF RecvRequest
        <5> QED BY <5>3 DEF Complete
      <4> QED BY <4>1, <4>2
    <3> QED BY <3>2, <3>3, <3>4
  <2>6. UNCHANGED recvReqs \/ Irecv \/ ProcessNotification \/ ProcessChunk
          \/ \E t \in Slot : TestRecv(t)
    BY RetransCases, OtherKeeps DEF Isend, recvVars
  <2> QED BY <2>1, <2>2, <2>3, <2>4, <2>5, <2>6
<1> QED BY <1>1, <1>2 DEF Complete

\* The receiver counts a message as acknowledged only when it is complete.
LEMMA NotificationAcks ==
  ASSUME RetransInv, AddressInv, Timely, ReceiptInv, ProcessNotification
  PROVE  \/ UNCHANGED <<recvSeq, acks>>
         \/ /\ AckSequence(Head(cq).seq)
            /\ Head(cq).seq # recvSeq \/ \A m : m = Head(cq).msg => Complete(m)'
<1> DEFINE w == Head(cq)
           q == recvReqs[w.slot]
           r == q.use
           again == r.seq = w.seq /\ r.bytes = NChunks
<1>1. /\ w.slot \in Slot /\ Addressed(w)
      /\ Matches(w) => r.msg = w.msg
      /\ ~Matches(w) => w.msg \in received
  BY CompletionTaken
<1>2. w.msg \in Msg BY <1>1 DEF Addressed, Sent
<1>3. UNCHANGED received BY DEF ProcessNotification
<1>4. \/ /\ ~Matches(w) \/ SeqLess(w.seq, recvSeq) \/ again
         /\ AckSequence(w.seq) /\ UNCHANGED recvReqs
      \/ /\ Matches(w)
         /\ recvReqs' = [recvReqs EXCEPT ![w.slot] =
              RecvRequest(q.gen, r.msg, w.seq, r.data - 1, r.bytes)]
         /\ (r.data = 1 /\ AckSequence(w.seq)) \/ UNCHANGED <<recvSeq, acks>>
  BY DEF ProcessNotification
<1> HIDE DEF w
<1>5. CASE AckSequence(w.seq) /\ ~Matches(w)
  <2>1. \A m : m = w.msg => Complete(m)' BY <1>1, <1>3, <1>5 DEF Complete
  <2> QED BY <1>5, <2>1 DEF w
<1>6. CASE AckSequence(w.seq) /\ SeqLess(w.seq, recvSeq)
  <2>1. ~SeqLess(recvSeq, recvSeq)
    <3>1. recvSeq \in Nat /\ recvSeq - recvSeq = 0 BY DEF RetransInv, RecvType, SeqNo
    <3>2. 0 % SeqMod = 0 /\ ~(0 > (SeqMod - 1) \div 2) BY ConstantsOfRetrans
    <3> QED BY <3>1, <3>2 DEF SeqLess, Sub
  <2>2. w.seq # recvSeq BY <1>6, <2>1
  <2> QED BY <1>6, <2>2 DEF w
<1>7. CASE AckSequence(w.seq) /\ Matches(w) /\ again /\ UNCHANGED recvReqs
  <2>1. InProgress(w.msg, r) BY <1>1, <1>2, <1>7 DEF ReceiptInv
  <2>2. r.data = 0 BY <1>7, <2>1 DEF InProgress
  <2>3. \A m : m = w.msg => Complete(m)' BY <1>1, <1>7, <2>2 DEF Complete
  <2> QED BY <1>7, <2>3 DEF w
<1>8. CASE /\ AckSequence(w.seq) /\ Matches(w) /\ r.data = 1
           /\ recvReqs' = [recvReqs EXCEPT ![w.slot] =
                RecvRequest(q.gen, r.msg, w.seq, r.data - 1, r.bytes)]
  <2>1. recvReqs'[w.slot] = RecvRequest(q.gen, r.msg, w.seq, 0, r.bytes)
    BY <1>1, <1>8 DEF RetransInv, RecvType
  <2>2. recvReqs'[w.slot].use.msg = w.msg /\ recvReqs'[w.slot].use.data = 0
    BY <1>1, <1>8, <2>1 DEF RecvRequest
  <2>3. \A m : m = w.msg => Complete(m)' BY <1>1, <2>2 DEF Complete
  <2> QED BY <1>8, <2>3 DEF w
<1>9. CASE UNCHANGED <<recvSeq, acks>> BY <1>9
<1> QED BY <1>4, <1>5, <1>6, <1>7, <1>8, <1>9

LEMMA ChunkAcks ==
  ASSUME RetransInv, AddressInv, Timely, ReceiptInv, ProcessChunk
  PROVE  \/ UNCHANGED <<recvSeq, acks>>
         \/ /\ AckSequence(Head(cq).seq)
            /\ \A m : m = Head(cq).msg => Complete(m)'
<1> DEFINE w == Head(cq)
           q == recvReqs[w.slot]
           r == q.use
           current == Matches(w) /\ r.seq \in {NoSeq, w.seq}
           copy == current /\ w.chunk = r.bytes
           bytes == IF copy THEN r.bytes + 1 ELSE r.bytes
<1>1. /\ w.slot \in Slot /\ Addressed(w)
      /\ Matches(w) => r.msg = w.msg
      /\ ~Matches(w) => w.msg \in received
  BY CompletionTaken
<1>2. w.msg \in Msg /\ w.seq = SeqOf(w.msg) BY <1>1 DEF Addressed, Sent
<1>3. UNCHANGED received BY DEF ProcessChunk
<1>4. /\ recvReqs' = IF ~current THEN recvReqs ELSE
             [recvReqs EXCEPT ![w.slot] =
                RecvRequest(q.gen, r.msg, IF copy THEN w.seq ELSE r.seq,
                        DataEvents(r.data, bytes = NChunks), bytes)]
      /\ IF ~current \/ bytes = NChunks THEN AckSequence(w.seq) ELSE UNCHANGED <<recvSeq, acks>>
  BY DEF ProcessChunk
<1> HIDE DEF w
<1>5. CASE ~current
  <2>1. ~Matches(w) BY <1>1, <1>2, <1>5 DEF AddressInv, SlotInv
  <2>2. \A m : m = w.msg => Complete(m)' BY <1>1, <1>3, <2>1 DEF Complete
  <2> QED BY <1>4, <1>5, <2>2 DEF w
<1>6. CASE current /\ bytes = NChunks
  <2> DEFINE sq == IF copy THEN w.seq ELSE r.seq
             d == DataEvents(r.data, bytes = NChunks)
  <2>1. d = 0 BY <1>6 DEF DataEvents
  <2>2. recvReqs' = [recvReqs EXCEPT ![w.slot] = RecvRequest(q.gen, r.msg, sq, d, bytes)]
    BY <1>4, <1>6
  <2> HIDE DEF sq, d, bytes
  <2>3. recvReqs'[w.slot] = RecvRequest(q.gen, r.msg, sq, d, bytes)
    BY <1>1, <2>2 DEF RetransInv, RecvType
  <2>4. recvReqs'[w.slot].use.msg = w.msg /\ recvReqs'[w.slot].use.data = 0
    BY <1>1, <1>6, <2>1, <2>3 DEF RecvRequest
  <2>5. \A m : m = w.msg => Complete(m)' BY <1>1, <2>4 DEF Complete
  <2> QED BY <1>4, <1>6, <2>5 DEF w
<1>7. CASE current /\ bytes # NChunks BY <1>4, <1>7
<1> QED BY <1>5, <1>6, <1>7

\* How many messages the sender has let go of.
Dropped == Cardinality(Sent) - Len(buffer)

\* It retains the messages after those, and no more than it has requests for
\* while the communicator is good.
BufferInv ==
  /\ Dropped \in Nat
  /\ \A j \in 1..Len(buffer) : buffer[j].msg = Dropped + j
  /\ ~commError => Len(buffer) <= NSlots /\ \A m \in Msg : sends[m] # "error"

\* The numbers that the acknowledgements on their way and then recvSeq stand
\* for: how many messages the receiver had accepted.  They grow, and so many
\* messages are complete.
Chain(f) ==
  LET last == Len(acks) + 1 IN
  /\ f \in [1..last -> Dropped..Cardinality(Sent)]
  /\ \A i, j \in 1..last : i <= j => f[i] <= f[j]
  /\ \A i \in 1..Len(acks) : acks[i] = (f[i] - 1) % SeqMod
  /\ recvSeq = f[last] % SeqMod
  /\ \A m \in 1..f[last] : Complete(m)

\* When the communicator has failed no acknowledgement is taken any more.
AckInv ==
  /\ BufferInv
  /\ ~commError => \E f : Chain(f)
  /\ \A m \in 1..Dropped : Complete(m)

LEMMA AckInit == RetransInit => AckInv
<1> SUFFICES ASSUME RetransInit PROVE AckInv OBVIOUS
<1> USE ConstantsOfRetrans
<1>1. Sent = {} /\ Cardinality(Sent) = 0 BY FS_EmptySet DEF RetransInit, Sent
<1>2. recvSeq = 0 /\ acks = <<>> /\ Len(acks) = 0 /\ buffer = <<>> /\ Len(buffer) = 0
  BY DEF RetransInit
<1>3. Dropped = 0 BY <1>1, <1>2 DEF Dropped
<1>4. BufferInv BY <1>2, <1>3 DEF BufferInv, RetransInit
<1> DEFINE f == [i \in 1..1 |-> 0]
<1>5. 0 % SeqMod = 0 OBVIOUS
<1>6. Chain(f) BY <1>1, <1>2, <1>3, <1>5 DEF Chain
<1> QED BY <1>3, <1>4, <1>6 DEF AckInv

\* What is retained, in numbers.
LEMMA RetainedIs ==
  ASSUME RetransInv, BufferInv, NEW m \in Sent
  PROVE  Retained(m) <=> m > Dropped
<1>1. Len(buffer) \in Nat /\ DOMAIN buffer = 1..Len(buffer)
  BY QueueSteps DEF RetransInv, SendType
<1>2. m \in Msg /\ Cardinality(Sent) \in Nat /\ m <= Cardinality(Sent)
  BY SentIs, ConstantsOfRetrans DEF Sent, RetransInv
<1>3. Dropped \in Nat /\ Dropped + Len(buffer) = Cardinality(Sent)
  BY <1>1, <1>2 DEF BufferInv, Dropped
<1>4. ASSUME m > Dropped PROVE Retained(m)
  <2>1. m - Dropped \in 1..Len(buffer) /\ Dropped + (m - Dropped) = m
    BY <1>1, <1>2, <1>3, <1>4 DEF Msg
  <2>2. buffer[m - Dropped].msg = m BY <2>1 DEF BufferInv
  <2> QED BY <1>1, <2>1, <2>2 DEF Retained
<1>5. ASSUME Retained(m) PROVE m > Dropped
  <2>1. PICK j \in 1..Len(buffer) : buffer[j].msg = m BY <1>1, <1>5 DEF Retained
  <2>2. m = Dropped + j BY <2>1 DEF BufferInv
  <2> QED BY <1>3, <2>2
<1> QED BY <1>4, <1>5

LEMMA PreviousRemainder ==
  ASSUME NEW M \in Nat \ {0, 1}, NEW k \in Nat
  PROVE  /\ ((k % M) - 1) % M = (k - 1) % M
         /\ ((k % M) - ((k - 1) % M)) % M = 1
         /\ k % M # (k - 1) % M
<1> DEFINE q == k \div M
           r == k % M
<1>1. q \in Nat /\ r \in 0..M-1 /\ k = M * q + r OBVIOUS
<1> HIDE DEF q, r
<1>2. \A a \in Int, b \in 0..M-1 : (M * a + b) % M = b OBVIOUS
<1>3. /\ \A x \in 0..M-1 : x % M = x
      /\ \A x \in -M..-1 : x % M = x + M
  BY Remainders
<1>4. CASE r > 0
  <2>1. r - 1 \in 0..M-1 /\ k - 1 = M * q + (r - 1) BY <1>1, <1>4
  <2>2. (k - 1) % M = r - 1 BY <1>1, <1>2, <2>1
  <2>3. (r - 1) % M = r - 1 /\ r - (r - 1) = 1 /\ 1 % M = 1 BY <1>1, <1>3, <2>1
  <2>4. r # r - 1 BY <1>1
  <2> QED BY <2>2, <2>3, <2>4 DEF r
<1>5. CASE r = 0
  <2>1. M - 1 \in 0..M-1 /\ q - 1 \in Int BY <1>1
  <2>2. k - 1 = M * (q - 1) + (M - 1) BY <1>1, <1>5
  <2>3. (M * (q - 1) + (M - 1)) % M = M - 1 BY <1>1, <1>2, <2>1
  <2>4. (k - 1) % M = M - 1 BY <2>2, <2>3
  <2>5. 0 - 1 \in -M..-1 /\ 0 - (M - 1) \in -M..-1 /\ 0 - 1 + M = M - 1
        /\ 0 - (M - 1) + M = 1
    OBVIOUS
  <2>6. (0 - 1) % M = M - 1 /\ (0 - (M - 1)) % M = 1 BY <1>3, <2>5
  <2>7. 0 # M - 1 OBVIOUS
  <2> QED BY <1>5, <2>4, <2>6, <2>7 DEF r
<1> QED BY <1>1, <1>4, <1>5

\* The receiver's part: it accepts the next message when it is complete.
LEMMA ReceiverAck ==
  ASSUME RetransInv, AddressInv, Timely, ReceiptInv, BufferInv,
         ProcessNotification \/ ProcessChunk, NEW f, Chain(f), ~commError
  PROVE  \E g : Chain(g)'
<1>0. /\ N \in Nat /\ NSlots \in Nat /\ SeqMod \in Nat \ {0, 1} /\ SeqMod \in Nat \ {0}
      /\ NSlots <= SeqMod - 1
  <2>1. (SeqMod - 1) \div 2 <= SeqMod - 1 BY ConstantsOfRetrans
  <2> QED BY <2>1, ConstantsOfRetrans, HalfRange
<1> DEFINE w == Head(cq)
           n == Len(acks)
           r == f[n + 1]
           sent == Cardinality(Sent)
<1>1. \A m \in Msg : Complete(m) => Complete(m)' BY CompleteStays DEF RetransNext
<1>2. /\ sent \in 0..N /\ n \in Nat /\ Len(buffer) \in Nat
      /\ sent <= posted /\ posted \in Nat
  <2>1. Len(fifo) \in Nat BY QueueSteps DEF RetransInv, NetType
  <2>2. Len(buffer) \in Nat BY QueueSteps DEF RetransInv, SendType
  <2>3. n \in Nat BY QueueSteps DEF RetransInv, NetType
  <2> QED BY <2>1, <2>2, <2>3, SentIs DEF RetransInv, SendInv
<1>3. Dropped \in Nat /\ Dropped <= sent /\ sent <= Dropped + NSlots
  BY <1>0, <1>2 DEF BufferInv, Dropped
<1>4. /\ f \in [1..n + 1 -> Dropped..sent]
      /\ \A i, j \in 1..n + 1 : i <= j => f[i] <= f[j]
      /\ \A i \in 1..n : acks[i] = (f[i] - 1) % SeqMod
      /\ recvSeq = r % SeqMod
      /\ \A m \in 1..r : Complete(m)
  BY DEF Chain
<1>5. n + 1 \in 1..n + 1 BY <1>2
<1>6. r \in Dropped..sent /\ r \in Nat BY <1>3, <1>4, <1>5
<1>7. UNCHANGED <<sends, buffer>> BY DEF ProcessNotification, ProcessChunk, sendVars
<1>8. Sent' = Sent /\ Cardinality(Sent)' = sent /\ Dropped' = Dropped
  BY <1>7 DEF Sent, Dropped
<1>9. /\ w.msg \in Msg /\ w.msg <= sent /\ w.seq = (w.msg - 1) % SeqMod
      /\ posted - w.msg < SeqMod - 1
  <2>1. Addressed(w) BY CompletionTaken
  <2>2. w.msg \in Msg /\ w.msg \in Sent BY <2>1 DEF Addressed, Sent
  <2>3. w.seq = SeqOf(w.msg) BY <2>1 DEF Addressed
  <2>4. cq # <<>> BY DEF ProcessNotification, ProcessChunk
  <2>5. 1 \in DOMAIN cq /\ w = cq[1] BY <2>4, QueueSteps DEF RetransInv, NetType
  <2>6. posted - w.msg < SeqMod - 1 BY <2>5 DEF Timely
  <2>7. w.msg <= sent BY <2>2, SentIs DEF RetransInv
  <2> QED BY <2>2, <2>3, <2>6, <2>7 DEF SeqOf
<1>10. \/ UNCHANGED <<recvSeq, acks>>
       \/ /\ AckSequence(w.seq)
          /\ w.seq # recvSeq \/ \A m : m = w.msg => Complete(m)'
  BY NotificationAcks, ChunkAcks
<1>11. \A m \in 1..r : m \in Msg /\ Complete(m)'
  <2>1. \A m \in 1..r : m \in Msg BY <1>0, <1>2, <1>6 DEF Msg
  <2> QED BY <1>1, <1>4, <2>1
<1>12. CASE UNCHANGED <<recvSeq, acks>>
  <2>1. Chain(f)' BY <1>4, <1>8, <1>11, <1>12 DEF Chain
  <2> QED BY <2>1
<1> HIDE DEF w, sent
<1>13. CASE /\ AckSequence(w.seq)
            /\ w.seq # recvSeq \/ \A m : m = w.msg => Complete(m)'
  <2> DEFINE next == IF w.seq = recvSeq THEN r + 1 ELSE r
             g == [i \in 1..n + 2 |-> IF i <= n THEN f[i] ELSE next]
  <2>1. w.seq = recvSeq => w.msg = r + 1
    <3> SUFFICES ASSUME w.seq = recvSeq PROVE w.msg = r + 1 OBVIOUS
    <3> DEFINE x == w.msg - 1
    <3>1. x \in Nat /\ x % SeqMod = r % SeqMod BY <1>4, <1>9 DEF Msg
    <3> HIDE DEF r
    <3>2. x - r < SeqMod BY <1>0, <1>2, <1>3, <1>6, <1>9 DEF Msg
    <3>3. r - x < SeqMod BY <1>0, <1>2, <1>3, <1>6, <1>9 DEF Msg
    <3> HIDE DEF x
    <3>4. x = r BY <1>0, <1>6, <3>1, <3>2, <3>3, SameRemainder
    <3> QED BY <1>9, <3>4 DEF x, Msg
  <2>2. next \in Dropped..sent /\ r <= next /\ next \in Nat
    <3> HIDE DEF r
    <3> QED BY <1>0, <1>2, <1>3, <1>6, <1>9, <2>1 DEF Msg
  <2>3. recvSeq' = next % SeqMod
    <3>1. CASE w.seq = recvSeq
      <4>1. recvSeq' = ((r % SeqMod) + 1) % SeqMod BY <1>4, <1>13, <3>1 DEF AckSequence
      <4> HIDE DEF r
      <4>2. ((r % SeqMod) + 1) % SeqMod = (r + 1) % SeqMod BY <1>0, <1>6, NextRemainder
      <4> QED BY <3>1, <4>1, <4>2
    <3>2. CASE w.seq # recvSeq BY <1>4, <1>13, <3>2 DEF AckSequence
    <3> QED BY <3>1, <3>2
  <2>4. \A m \in 1..next : Complete(m)'
    <3>1. \A m \in 1..next : m \in 1..r \/ (w.seq = recvSeq /\ m = w.msg)
      BY <1>6, <2>1
    <3> QED BY <1>11, <1>13, <3>1
  <2> HIDE DEF next, r
  <2>5. acks' = Append(acks, Sub(recvSeq', 1)) BY <1>13 DEF AckSequence
  <2>6. Sub(recvSeq', 1) = (next - 1) % SeqMod
    BY <1>0, <2>2, <2>3, PreviousRemainder DEF Sub
  <2>7. Sub(recvSeq', 1) \in SeqNo
    <3>1. next - 1 \in Int BY <2>2
    <3> QED BY <1>0, <2>6, <3>1, Remainders DEF SeqNo
  <2>8. /\ Len(acks') = n + 1 /\ acks'[n + 1] = (next - 1) % SeqMod
        /\ \A i \in 1..n : acks'[i] = acks[i]
    BY <2>5, <2>6, <2>7, QueueSteps DEF RetransInv, NetType
  <2> HIDE DEF n
  <2>9. g \in [1..n + 2 -> Dropped..sent] BY <1>2, <1>4, <2>2
  <2>10. g[n + 1] = next /\ g[n + 2] = next /\ \A i \in 1..n : g[i] = f[i] BY <1>2
  <2> HIDE DEF g
  <2>11. ASSUME NEW i \in 1..n + 2, NEW j \in 1..n + 2, i <= j PROVE g[i] <= g[j]
    <3>1. CASE j \in 1..n
      <4>1. i \in 1..n BY <1>2, <2>11, <3>1
      <4> QED BY <1>2, <1>4, <2>10, <2>11, <3>1, <4>1
    <3>2. CASE j \notin 1..n /\ i \in 1..n
      <4>1. g[j] = next BY <1>2, <2>10, <3>2
      <4>2. i \in 1..n + 1 /\ i <= n + 1 BY <1>2, <3>2
      <4>3. n + 1 \in 1..n + 1 BY <1>2
      <4>4. f[i] <= f[n + 1] /\ f[i] \in Dropped..sent BY <1>4, <4>2, <4>3 DEF n
      <4>5. f[i] <= r /\ f[i] \in Int BY <1>3, <4>4 DEF r, n
      <4> QED BY <1>6, <2>2, <2>10, <3>2, <4>1, <4>5
    <3>3. CASE j \notin 1..n /\ i \notin 1..n
      <4>1. g[j] = next /\ g[i] = next BY <1>2, <2>10, <3>3
      <4> QED BY <2>2, <4>1
    <3> QED BY <3>1, <3>2, <3>3
  <2>12. \A i \in 1..n + 1 : acks'[i] = (g[i] - 1) % SeqMod
    <3>1. \A i \in 1..n + 1 : i \in 1..n \/ i = n + 1 BY <1>2
    <3> QED BY <1>4, <2>8, <2>10, <3>1 DEF n
  <2>13. Len(acks') + 1 = n + 2 BY <1>2, <2>8
  <2>14. PICK h : h = g OBVIOUS
  <2>15. /\ h \in [1..Len(acks') + 1 -> Dropped'..Cardinality(Sent)']
         /\ \A i, j \in 1..Len(acks') + 1 : i <= j => h[i] <= h[j]
         /\ \A i \in 1..Len(acks') : acks'[i] = (h[i] - 1) % SeqMod
         /\ recvSeq' = h[Len(acks') + 1] % SeqMod
         /\ \A m \in 1..h[Len(acks') + 1] : Complete(m)'
    BY <1>8, <2>3, <2>4, <2>8, <2>9, <2>10, <2>11, <2>12, <2>13, <2>14
  <2>16. Chain(h)' BY <2>15 DEF Chain
  <2> QED BY <2>16
<1> QED BY <1>10, <1>12, <1>13

\* An acknowledgement makes the sender drop no more than was accepted when it
\* was sent.
LEMMA CoveredIsAccepted ==
  ASSUME RetransInv, AddressInv, BufferInv, NEW f, Chain(f), acks # <<>>
  PROVE  Dropped + Covered(Head(acks)) <= f[1]
<1> USE ConstantsOfRetrans
<1> DEFINE a == Head(acks)
           n == Covered(a)
           k == f[1]
<1>1. Len(acks) >= 1 /\ Len(acks) \in Nat /\ a = acks[1]
  BY QueueSteps DEF RetransInv, NetType
<1>2. n \in 0..Len(buffer) /\ \A j \in 1..n : SeqLeq(buffer[j].seq, a)
  BY CoveredIs DEF RetransInv
<1>3. Len(buffer) \in Nat /\ Cardinality(Sent) \in Nat /\ Dropped \in Nat
  BY QueueSteps, SentIs DEF RetransInv, SendType, BufferInv
<1>4. k \in Dropped..Cardinality(Sent) /\ a = (k - 1) % SeqMod
  BY <1>1 DEF Chain
<1> HIDE DEF a, n, k
<1>5. SUFFICES ASSUME Dropped + n > k PROVE FALSE
  BY <1>2, <1>3, <1>4 DEF a, n, k
<1> DEFINE j == k - Dropped + 1
<1>6. j \in 1..n /\ j \in 1..Len(buffer) /\ Dropped + j = k + 1
  BY <1>2, <1>3, <1>4, <1>5
<1>7. buffer[j].msg = k + 1 BY <1>6 DEF BufferInv
<1>8. buffer[j].seq = SeqOf(k + 1) BY <1>6, <1>7 DEF AddressInv, PacketInv, Addressed
<1>9. k \in Nat /\ (k + 1) - 1 = k BY <1>3, <1>4
<1>10. SeqLeq(k % SeqMod, (k - 1) % SeqMod) BY <1>2, <1>4, <1>6, <1>8, <1>9 DEF SeqOf
<1>11. Sub(k % SeqMod, (k - 1) % SeqMod) = 1 /\ k % SeqMod # (k - 1) % SeqMod
  BY <1>9, PreviousRemainder DEF Sub
<1>12. ~(1 > (SeqMod - 1) \div 2) BY HalfRange
<1> QED BY <1>10, <1>11, <1>12 DEF SeqLeq, SeqLess

\* What a step does to the buffer: it takes the next message, or drops from its
\* head what an acknowledgement covers.
LEMMA BufferStep ==
  ASSUME RetransInv, BufferInv, [RetransNext]_retransVars
  PROVE  \/ /\ UNCHANGED <<Cardinality(Sent), Len(buffer)>>
            /\ \A j \in 1..Len(buffer) : buffer'[j].msg = buffer[j].msg
         \/ /\ Isend /\ Cardinality(Sent)' = Cardinality(Sent) + 1
            /\ Len(buffer)' = Len(buffer) + 1
            /\ \A j \in 1..Len(buffer) : buffer'[j].msg = buffer[j].msg
            /\ buffer'[Len(buffer) + 1].msg = Cardinality(Sent) + 1
         \/ /\ ProcessAck /\ UNCHANGED Cardinality(Sent)
            /\ Len(buffer)' = Len(buffer) - Covered(Head(acks))
            /\ \A j \in 1..Len(buffer') : buffer'[j].msg = buffer[j + Covered(Head(acks))].msg
<1>1. DOMAIN buffer = 1..Len(buffer) /\ \A j \in 1..Len(buffer) : buffer[j] \in RetransEntry
  BY QueueSteps DEF RetransInv, SendType
<1>2. CASE UNCHANGED <<buffer, sends>> BY <1>2 DEF Sent
<1>3. CASE Isend BY <1>3, IsendIs, IsendBuffer
<1>4. ASSUME NEW i, Continue(i) \/ Retransmit(i)
      PROVE  /\ UNCHANGED <<Cardinality(Sent), Len(buffer)>>
             /\ \A j \in 1..Len(buffer) : buffer'[j].msg = buffer[j].msg
  <2>1. i \in 1..Len(buffer) /\ UNCHANGED sends
    BY <1>1, <1>4 DEF Continue, Retransmit, TimedOut
  <2>2. \E c \in 0..NChunks : Resend(i, c)
    <3>1. CASE Continue(i)
      <4>1. buffer[i].cursor \in 0..NChunks BY <1>1, <2>1 DEF RetransEntry
      <4> QED BY <3>1, <4>1 DEF Continue
    <3>2. CASE Retransmit(i)
      <4>1. 0 \in 0..NChunks BY ConstantsOfRetrans
      <4> QED BY <3>2, <4>1 DEF Retransmit
    <3> QED BY <1>4, <3>1, <3>2
  <2>3. \E n \in Nat, ch \in Seq(Chunk) : ResendEffect(i, n, ch) BY <2>1, <2>2, ResendIs
  <2>4. Len(buffer') = Len(buffer) /\ \A j \in 1..Len(buffer) : buffer'[j].msg = buffer[j].msg
    BY <2>3 DEF ResendEffect
  <2> QED BY <2>1, <2>4 DEF Sent
<1>5. CASE ProcessAck
  <2>1. UNCHANGED sends BY <1>5 DEF ProcessAck
  <2> QED BY <1>5, <2>1, ProcessAckIs DEF Sent
<1>6. CASE \E k \in Msg : TestSend(k)
  <2>1. UNCHANGED buffer BY <1>6 DEF TestSend
  <2>2. OtherStep BY <1>6, Zenon DEF OtherStep
  <2>3. Sent' = Sent BY <2>2, OtherKeeps
  <2> QED BY <2>1, <2>3
<1>7. \/ UNCHANGED <<buffer, sends>> \/ Isend \/ ProcessAck
      \/ \E i : Continue(i) \/ Retransmit(i)
      \/ \E k \in Msg : TestSend(k)
  <2>1. CASE Irecv BY <2>1 DEF Irecv, sendVars
  <2>2. CASE ProcessNotification BY <2>2 DEF ProcessNotification, sendVars
  <2>3. CASE ProcessChunk BY <2>3 DEF ProcessChunk, sendVars
  <2>4. CASE \E s \in Slot : TestRecv(s) BY <2>4 DEF TestRecv, sendVars
  <2>5. CASE OtherStep
    BY <2>5 DEF OtherStep, CompleteChunk, GiveUp, Deliver, Lose, DeliverChunk, DataStep,
                sendVars
  <2> QED BY <2>1, <2>2, <2>3, <2>4, <2>5, RetransCases
<1> QED BY <1>2, <1>3, <1>4, <1>5, <1>6, <1>7

\* While the communicator is good what is retained are active requests.
LEMMA IsendHasRoom ==
  ASSUME RetransInv, BufferInv, Isend, ~commError
  PROVE  Len(buffer) + 1 <= NSlots
<1> USE ConstantsOfRetrans
<1> DEFINE A == {k \in Sent : sends[k] = "active"}
           B == (Dropped + 1)..Cardinality(Sent)
<1>1. Len(buffer) \in Nat /\ Cardinality(Sent) \in 0..N /\ Dropped \in Nat
      /\ Dropped + Len(buffer) = Cardinality(Sent)
  <2>1. Len(buffer) \in Nat BY QueueSteps DEF RetransInv, SendType
  <2>2. Cardinality(Sent) \in 0..N BY SentIs DEF RetransInv
  <2> QED BY <2>1, <2>2 DEF BufferInv, Dropped
<1>2. B \subseteq A
  <2> SUFFICES ASSUME NEW m \in B PROVE m \in A OBVIOUS
  <2>1. m - Dropped \in 1..Len(buffer) /\ Dropped + (m - Dropped) = m BY <1>1
  <2>2. buffer[m - Dropped].msg = m BY <2>1 DEF BufferInv
  <2>3. "ack" \in events[m] BY <2>1, <2>2 DEF RetransInv, HeldInv
  <2>4. m \in Msg BY <1>1 DEF Msg
  <2>5. sends[m] \notin {"none", "done"} BY <2>3, <2>4 DEF RetransInv, HeldInv
  <2>6. sends[m] = "active" BY <2>4, <2>5 DEF RetransInv, SendType, BufferInv
  <2> QED BY <2>4, <2>6 DEF Sent
<1>3. IsFiniteSet(A) /\ Cardinality(A) \in Nat
  <2>1. IsFiniteSet(Msg) /\ A \subseteq Msg BY FS_Interval DEF Msg, Sent
  <2> HIDE DEF A
  <2> QED BY <2>1, FS_Subset, FS_CardinalityType
<1>4. Cardinality(A) < NSlots BY DEF Isend
<1>5. Cardinality(B) = Len(buffer)
  <2> DEFINE x == Dropped + 1
             y == Cardinality(Sent)
  <2>1. x \in Int /\ y \in Int /\ y - x + 1 = Len(buffer) /\ (x > y => Len(buffer) = 0)
    BY <1>1
  <2> HIDE DEF x, y
  <2>2. Cardinality(x..y) = IF x > y THEN 0 ELSE y - x + 1 BY <2>1, FS_Interval
  <2> QED BY <2>1, <2>2 DEF x, y
<1> HIDE DEF A, B
<1>6. Cardinality(B) <= Cardinality(A) BY <1>2, <1>3, FS_Subset
<1> QED BY <1>1, <1>3, <1>4, <1>5, <1>6

LEMMA BufferInvStep ==
  ASSUME RetransInv, BufferInv, [RetransNext]_retransVars
  PROVE  BufferInv'
<1>0. N \in Nat /\ NSlots \in Nat BY ConstantsOfRetrans
<1>1. Len(buffer) \in Nat /\ Cardinality(Sent) \in Nat /\ Dropped \in Nat
      /\ Dropped + Len(buffer) = Cardinality(Sent)
  <2>1. Len(buffer) \in Nat BY QueueSteps DEF RetransInv, SendType
  <2>2. Cardinality(Sent) \in 0..N BY SentIs DEF RetransInv
  <2> QED BY <1>0, <2>1, <2>2 DEF BufferInv, Dropped
<1>2. ASSUME ~commError' PROVE ~commError /\ \A m \in Msg : sends'[m] # "error"
  <2>1. ~commError
    BY <1>2, RetransCases DEF Irecv, ProcessNotification, ProcessChunk, Isend, TestRecv,
       OtherStep, ProcessAck, CompleteChunk, TestSend, Continue, Retransmit, GiveUp, Deliver,
       Lose, DeliverChunk, DataStep, sendVars
  <2>2. CASE UNCHANGED sends BY <2>1, <2>2 DEF BufferInv
  <2>3. CASE Isend
    <3>1. sends' = [sends EXCEPT ![Cardinality(Sent) + 1] = "active"] BY <2>3 DEF Isend
    <3> QED BY <2>1, <3>1 DEF BufferInv, RetransInv, SendType
  <2>4. ASSUME NEW k \in Msg, TestSend(k) PROVE \A m \in Msg : sends'[m] # "error"
    <3>1. sends' = [sends EXCEPT ![k] = "done"] BY <2>1, <2>4 DEF TestSend
    <3> QED BY <2>1, <3>1 DEF BufferInv, RetransInv, SendType
  <2>5. UNCHANGED sends \/ Isend \/ \E k \in Msg : TestSend(k)
    BY RetransCases DEF Irecv, ProcessNotification, ProcessChunk, TestRecv, OtherStep,
       ProcessAck, CompleteChunk, Continue, Retransmit, GiveUp, Deliver, Lose, DeliverChunk,
       DataStep, sendVars
  <2> QED BY <2>1, <2>2, <2>3, <2>4, <2>5
<1>3. CASE /\ UNCHANGED <<Cardinality(Sent), Len(buffer)>>
           /\ \A j \in 1..Len(buffer) : buffer'[j].msg = buffer[j].msg
  <2>1. Dropped' = Dropped BY <1>3 DEF Dropped
  <2> QED BY <1>2, <1>3, <2>1 DEF BufferInv
<1>4. CASE /\ Isend /\ Cardinality(Sent)' = Cardinality(Sent) + 1
           /\ Len(buffer)' = Len(buffer) + 1
           /\ \A j \in 1..Len(buffer) : buffer'[j].msg = buffer[j].msg
           /\ buffer'[Len(buffer) + 1].msg = Cardinality(Sent) + 1
  <2>1. Dropped' = Dropped BY <1>1, <1>4 DEF Dropped
  <2>2. ASSUME NEW j \in 1..Len(buffer)' PROVE buffer'[j].msg = Dropped + j
    <3>1. CASE j \in 1..Len(buffer) BY <1>4, <3>1 DEF BufferInv
    <3>2. CASE j = Len(buffer) + 1 BY <1>1, <1>4, <3>2
    <3> QED BY <1>1, <1>4, <3>1, <3>2
  <2>3. ~commError' => Len(buffer)' <= NSlots BY <1>2, <1>4, IsendHasRoom
  <2> QED BY <1>1, <1>2, <2>1, <2>2, <2>3 DEF BufferInv
<1>5. CASE /\ ProcessAck /\ UNCHANGED Cardinality(Sent)
           /\ Len(buffer)' = Len(buffer) - Covered(Head(acks))
           /\ \A j \in 1..Len(buffer') : buffer'[j].msg = buffer[j + Covered(Head(acks))].msg
  <2> DEFINE n == Covered(Head(acks))
  <2>1. n \in 0..Len(buffer) BY CoveredIs DEF RetransInv
  <2> HIDE DEF n
  <2>2. Len(buffer)' = Len(buffer) - n /\ Len(buffer)' \in Nat BY <1>1, <1>5, <2>1 DEF n
  <2>3. Dropped' = Dropped + n
    <3>1. Dropped' = Cardinality(Sent) - (Len(buffer) - n) BY <1>5, <2>2 DEF Dropped
    <3> QED BY <1>1, <2>1, <3>1
  <2>4. ASSUME NEW j \in 1..Len(buffer)' PROVE buffer'[j].msg = Dropped' + j
    <3>1. buffer'[j].msg = buffer[j + n].msg BY <1>5 DEF n
    <3>2. j + n \in 1..Len(buffer) BY <1>1, <2>1, <2>2
    <3>3. buffer[j + n].msg = Dropped + (j + n) BY <3>2 DEF BufferInv
    <3> QED BY <1>1, <2>1, <2>2, <2>3, <3>1, <3>3
  <2>5. ~commError' => Len(buffer)' <= NSlots
    BY <1>0, <1>1, <1>2, <2>1, <2>2 DEF BufferInv
  <2> QED BY <1>1, <1>2, <2>1, <2>3, <2>4, <2>5 DEF BufferInv
<1> QED BY <1>3, <1>4, <1>5, BufferStep

LEMMA AckStep ==
  ASSUME RetransInv, AddressInv, Timely, ReceiptInv, AckInv, [RetransNext]_retransVars
  PROVE  AckInv'
<1> USE ConstantsOfRetrans
<1>1. BufferInv /\ BufferInv' BY BufferInvStep DEF AckInv
<1>2. \A m \in Msg : Complete(m) => Complete(m)' BY CompleteStays
<1>3. Len(buffer) \in Nat /\ Cardinality(Sent) \in 0..N /\ Dropped \in Nat
      /\ Dropped + Len(buffer) = Cardinality(Sent)
  <2>1. Len(buffer) \in Nat BY QueueSteps DEF RetransInv, SendType
  <2>2. Cardinality(Sent) \in 0..N BY SentIs DEF RetransInv
  <2> QED BY <1>1, <2>1, <2>2 DEF BufferInv, Dropped
<1>4. \A m \in 1..Dropped : m \in Msg /\ Complete(m)'
  <2>1. \A m \in 1..Dropped : m \in Msg BY <1>3 DEF Msg
  <2> QED BY <1>2, <2>1 DEF AckInv
<1>5. ASSUME ~commError' PROVE ~commError
  BY <1>5, RetransCases DEF Irecv, ProcessNotification, ProcessChunk, Isend, TestRecv,
     OtherStep, ProcessAck, CompleteChunk, TestSend, Continue, Retransmit, GiveUp, Deliver,
     Lose, DeliverChunk, DataStep, sendVars
<1>6. CASE ProcessAck
  <2> DEFINE n == Covered(Head(acks))
             k == Len(acks)
  <2>1. ~commError /\ acks # <<>> /\ acks' = Tail(acks) /\ UNCHANGED <<recvVars, sends>>
    BY <1>6 DEF ProcessAck, Testing
  <2>2. PICK f : Chain(f) BY <2>1 DEF AckInv
  <2>3. Dropped + n <= f[1] BY <1>1, <2>1, <2>2, CoveredIsAccepted
  <2>4. n \in 0..Len(buffer) /\ Len(buffer)' = Len(buffer) - n BY <1>6, ProcessAckIs
  <2>5. Sent' = Sent BY <2>1 DEF Sent
  <2> HIDE DEF n
  <2>6. Dropped' = Dropped + n BY <1>3, <2>4, <2>5 DEF Dropped
  <2>7. /\ k \in Nat /\ k >= 1 /\ Len(acks') = k - 1
        /\ \A i \in 1..k-1 : acks'[i] = acks[i + 1]
    BY <2>1, QueueSteps DEF RetransInv, NetType
  <2>8. /\ f \in [1..k + 1 -> Dropped..Cardinality(Sent)]
        /\ \A i, j \in 1..k + 1 : i <= j => f[i] <= f[j]
        /\ \A i \in 1..k : acks[i] = (f[i] - 1) % SeqMod
        /\ recvSeq = f[k + 1] % SeqMod
        /\ \A m \in 1..f[k + 1] : Complete(m)
    BY <2>2 DEF Chain
  <2> HIDE DEF k
  <2>9. \A i \in 1..k + 1 : f[i] \in Dropped'..Cardinality(Sent)
    <3> TAKE i \in 1..k + 1
    <3>1. 1 \in 1..k + 1 /\ 1 <= i BY <2>7
    <3>2. f[1] <= f[i] /\ f[1] \in Dropped..Cardinality(Sent)
          /\ f[i] \in Dropped..Cardinality(Sent)
      BY <2>8, <3>1
    <3> QED BY <1>3, <2>3, <2>4, <2>6, <3>2
  <2> DEFINE g == [i \in 1..k |-> f[i + 1]]
  <2>10. \A i \in 1..k : i + 1 \in 1..k + 1 /\ g[i] = f[i + 1] BY <2>7
  <2>11. g \in [1..k -> Dropped'..Cardinality(Sent)'] BY <2>5, <2>9, <2>10
  <2> HIDE DEF g
  <2>12. \A i, j \in 1..k : i <= j => g[i] <= g[j]
    <3> TAKE i, j \in 1..k
    <3>1. i <= j => i + 1 <= j + 1 BY <2>7
    <3> QED BY <2>8, <2>10, <3>1
  <2>13. \A m \in 1..f[k + 1] : Complete(m)'
    <3>1. k + 1 \in 1..k + 1 BY <2>7
    <3>2. \A m \in 1..f[k + 1] : m \in Msg BY <1>3, <2>8, <3>1 DEF Msg
    <3> QED BY <1>2, <2>8, <3>2
  <2>14. k \in 1..k /\ g[k] = f[k + 1] /\ Len(acks') + 1 = k BY <2>7, <2>10
  <2>15. \A i \in 1..Len(acks') : acks'[i] = (g[i] - 1) % SeqMod
    <3> TAKE i \in 1..Len(acks')
    <3>1. i \in 1..k-1 /\ i \in 1..k /\ i + 1 \in 1..k BY <2>7
    <3> QED BY <2>7, <2>8, <2>10, <3>1
  <2>16. PICK h : h = g OBVIOUS
  <2>18. Chain(h)'
    <3>1. recvSeq' = recvSeq BY <2>1 DEF recvVars
    <3>2. /\ h \in [1..Len(acks') + 1 -> Dropped'..Cardinality(Sent)']
          /\ \A i, j \in 1..Len(acks') + 1 : i <= j => h[i] <= h[j]
          /\ \A i \in 1..Len(acks') : acks'[i] = (h[i] - 1) % SeqMod
          /\ recvSeq' = h[Len(acks') + 1] % SeqMod
          /\ \A m \in 1..h[Len(acks') + 1] : Complete(m)'
      BY <2>8, <2>11, <2>12, <2>13, <2>14, <2>15, <2>16, <3>1
    <3> QED BY <3>2 DEF Chain
  <2>17. \A m \in 1..Dropped' : Complete(m)'
    <3>1. f[k + 1] \in Dropped'..Cardinality(Sent)
      <4>1. k + 1 \in 1..k + 1 BY <2>7
      <4> QED BY <2>9, <4>1
    <3>2. \A m \in 1..Dropped' : m \in 1..f[k + 1] BY <1>3, <2>4, <2>6, <3>1
    <3> QED BY <2>13, <3>2
  <2> QED BY <1>1, <2>17, <2>18 DEF AckInv
<1>7. CASE ~ProcessAck
  <2>1. Dropped' = Dropped
    <3>1. CASE UNCHANGED <<Cardinality(Sent), Len(buffer)>> BY <3>1 DEF Dropped
    <3>2. CASE Cardinality(Sent)' = Cardinality(Sent) + 1 /\ Len(buffer)' = Len(buffer) + 1
      BY <1>3, <3>2 DEF Dropped
    <3> QED BY <1>1, <1>7, <3>1, <3>2, BufferStep
  <2>2. Cardinality(Sent) <= Cardinality(Sent)' /\ Cardinality(Sent)' \in Int
    BY <1>1, <1>3, <1>7, BufferStep
  <2>3. ASSUME ~commError' PROVE \E f : Chain(f)'
    <3>1. ~commError BY <1>5, <2>3
    <3>2. PICK f : Chain(f) BY <3>1 DEF AckInv
    <3>3. CASE ProcessNotification \/ ProcessChunk BY <1>1, <3>1, <3>2, <3>3, ReceiverAck
    <3>4. CASE UNCHANGED <<recvSeq, acks>>
      <4> DEFINE k == Len(acks) + 1
      <4>1. /\ f \in [1..k -> Dropped..Cardinality(Sent)]
            /\ \A i, j \in 1..k : i <= j => f[i] <= f[j]
            /\ \A i \in 1..Len(acks) : acks[i] = (f[i] - 1) % SeqMod
            /\ recvSeq = f[k] % SeqMod
            /\ \A m \in 1..f[k] : Complete(m)
        BY <3>2 DEF Chain
      <4>2. k \in 1..k
        <5>1. Len(acks) \in Nat BY QueueSteps DEF RetransInv, NetType
        <5> QED BY <5>1
      <4> HIDE DEF k
      <4>3. \A m \in 1..f[k] : m \in Msg BY <1>3, <4>1, <4>2 DEF Msg
      <4>4. \A m \in 1..f[k] : Complete(m)' BY <1>2, <4>1, <4>3
      <4>5. f \in [1..k -> Dropped'..Cardinality(Sent)']
        <5>1. \A x \in Dropped..Cardinality(Sent) : x \in Dropped'..Cardinality(Sent)'
          BY <1>3, <2>1, <2>2
        <5> QED BY <4>1, <5>1
      <4>6. Len(acks') + 1 = k /\ Len(acks') = Len(acks) BY <3>4 DEF k
      <4>7. Chain(f)' BY <3>4, <4>1, <4>4, <4>5, <4>6 DEF Chain
      <4> QED BY <4>7
    <3>5. \/ ProcessNotification \/ ProcessChunk \/ UNCHANGED <<recvSeq, acks>>
      BY <1>7, RetransCases DEF Irecv, TestRecv, Isend, OtherStep, CompleteChunk, TestSend,
         Continue, Retransmit, GiveUp, Deliver, Lose, DeliverChunk, DataStep, recvVars, netVars
    <3> QED BY <3>3, <3>4, <3>5
  <2> QED BY <1>1, <1>4, <2>1, <2>3 DEF AckInv
<1> QED BY <1>6, <1>7

\* A receive completes only when all of its own message was announced to it or
\* sent again, and the sender drops its entry only for a complete receive, for
\* any number of messages, slots, queue pairs, chunks and losses and however
\* often the numbers come around, if nothing stays in the completion queue
\* while they do.
THEOREM AcknowledgementSafety == TimelySpec => []AcknowledgedIsReceived
<1>1. RetransInv /\ Timely /\ AddressInv /\ ReceiptInv /\ AckInv /\ [RetransNext]_retransVars
        => AckInv'
  BY AckStep
<1>2. TimelySpec => RetransInit BY DEF TimelySpec
<1>3. TimelySpec => []AckInv
  BY <1>1, <1>2, AckInit, TimelySteps, AddressInvariant, ReceiptInvariant, PTL
<1>4. RetransInv /\ ReceiptInv /\ AckInv => AcknowledgedIsReceived
  <2> SUFFICES ASSUME RetransInv, ReceiptInv, AckInv PROVE AcknowledgedIsReceived OBVIOUS
  <2>1. ASSUME NEW m \in Msg, Complete(m) PROVE Notified(m)
    <3>1. CASE m \in received BY <3>1 DEF ReceiptInv
    <3>2. CASE \E s \in Slot : recvReqs[s].use.msg = m /\ recvReqs[s].use.data = 0
      BY <3>2, DoneIsNotified
    <3> QED BY <2>1, <3>1, <3>2 DEF Complete
  <2>2. ASSUME NEW m \in Msg, m \in Sent, ~Retained(m) PROVE Complete(m)
    <3>1. ~(m > Dropped) BY <2>2, RetainedIs DEF AckInv
    <3>2. m \in 1..Dropped BY <3>1 DEF AckInv, BufferInv, Msg
    <3> QED BY <3>2 DEF AckInv
  <2> QED BY <2>1, <2>2 DEF AcknowledgedIsReceived
<1> QED BY <1>3, <1>4, TimelySteps, ReceiptInvariant, PTL

=============================================================================
