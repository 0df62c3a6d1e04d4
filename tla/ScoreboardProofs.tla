-------------------------- MODULE ScoreboardProofs --------------------------
(***************************************************************************)
(* What the calls of the completion scoreboard do, for any capacity, any   *)
(* sequence numbers and any order of completion: which requests it tracks  *)
(* before and after, and which it retires.  The proofs of its users rest   *)
(* on these facts and never look at an entry.                              *)
(***************************************************************************)
EXTENDS Scoreboard, FiniteSetTheorems, WellFoundedInduction, TLAPS

Entry == [state : {"free", "pending", "complete"}, sequence : Nat]

\* A scoreboard of c entries.
IsScoreboard(sb, c) ==
  /\ sb \in [nextSequence : Nat, entries : [0..c-1 -> Entry], firstError : BOOLEAN]
  /\ c \in Nat \ {0}

\* The scoreboard tracks request q, in that state.
Tracks(sb, st, q) == EntryOf(sb, q) = [state |-> st, sequence |-> q]

-----------------------------------------------------------------------------
\* The least-number principle, for sets.
LEMMA LeastNatural ==
  ASSUME NEW S \in SUBSET Nat, S # {}
  PROVE  \E x \in S : \A y \in S : x <= y
<1> DEFINE R == OpToRel(<, Nat)
<1>1. \A x, y \in S : y < x => <<y, x>> \in R BY DEF OpToRel
<1>2. IsWellFoundedOn(R, Nat) BY NatLessThanWellFounded, Zenon
<1> HIDE DEF R
<1>3. PICK x \in S : \A y \in S : ~(<<y, x>> \in R) BY <1>2, WFMin
<1>4. \A y \in S : ~(y < x) BY <1>1, <1>3
<1> QED BY <1>4

LEMMA CapacityIs ==
  ASSUME NEW sb, NEW c, IsScoreboard(sb, c)
  PROVE  /\ Capacity(sb) = c /\ c \in Nat \ {0} /\ DOMAIN sb.entries = 0..c-1
         /\ sb.nextSequence \in Nat
         /\ \A q \in Nat : q % c \in 0..c-1 /\ EntryOf(sb, q) = sb.entries[q % c]
                           /\ EntryOf(sb, q) \in Entry
<1>1. c \in Nat \ {0} /\ DOMAIN sb.entries = 0..c-1 /\ sb.nextSequence \in Nat
  BY DEF IsScoreboard
<1>2. Cardinality(0..c-1) = c BY <1>1, FS_Interval
<1>3. Capacity(sb) = c BY <1>1, <1>2 DEF Capacity
<1>4. ASSUME NEW q \in Nat PROVE q % c \in 0..c-1 BY <1>1, <1>4
<1> QED BY <1>1, <1>3, <1>4 DEF EntryOf, IsScoreboard

\* A request accepted by flagcxNetTrackSubmit takes a free entry: it is tracked
\* from then on, and every other request as before.
THEOREM SubmitTracks ==
  ASSUME NEW sb, NEW c, IsScoreboard(sb, c), NEW q \in Nat,
         TrackSubmitResult(sb, q) = "success"
  PROVE  LET sb2 == TrackSubmit(sb, q) IN
         /\ IsScoreboard(sb2, c)
         /\ sb2.nextSequence = sb.nextSequence /\ sb2.firstError = sb.firstError
         /\ sb.nextSequence <= q
         /\ \A n \in Nat : Tracks(sb2, "pending", n) <=> Tracks(sb, "pending", n) \/ n = q
         /\ \A n \in Nat : Tracks(sb2, "complete", n) <=> Tracks(sb, "complete", n)
<1> DEFINE sb2 == TrackSubmit(sb, q)
           x == q % c
           v == [state |-> "pending", sequence |-> q]
<1>1. /\ Capacity(sb) = c /\ c \in Nat \ {0} /\ x \in 0..c-1
      /\ sb.nextSequence \in Nat
  BY CapacityIs
<1>2. sb.nextSequence <= q /\ sb.entries[x].state = "free"
  BY <1>1 DEF TrackSubmitResult, EntryOf
<1>3. sb2 = [sb EXCEPT !.entries = [sb.entries EXCEPT ![x] = v]]
  BY <1>1 DEF TrackSubmit, IsScoreboard
<1>4. v \in Entry BY DEF Entry
<1>5. /\ IsScoreboard(sb2, c) /\ sb2.entries = [sb.entries EXCEPT ![x] = v]
      /\ sb2.nextSequence = sb.nextSequence /\ sb2.firstError = sb.firstError
  <2> HIDE DEF sb2, v, x
  <2> QED BY <1>3, <1>4 DEF IsScoreboard
<1>6. ASSUME NEW n \in Nat
      PROVE  /\ Tracks(sb2, "pending", n) <=> Tracks(sb, "pending", n) \/ n = q
             /\ Tracks(sb2, "complete", n) <=> Tracks(sb, "complete", n)
  <2>1. /\ EntryOf(sb2, n) = sb2.entries[n % c] /\ EntryOf(sb, n) = sb.entries[n % c]
        /\ n % c \in 0..c-1
    BY <1>5, CapacityIs
  <2>2. sb.entries \in [0..c-1 -> Entry] BY DEF IsScoreboard
  <2> HIDE DEF sb2
  <2>3. CASE n % c = x
    <3>1. EntryOf(sb2, n) = v /\ EntryOf(sb, n).state = "free"
      BY <1>1, <1>2, <1>5, <2>1, <2>2, <2>3
    <3> QED BY <3>1, <2>3 DEF Tracks
  <2>4. CASE n % c # x
    <3>1. EntryOf(sb2, n) = EntryOf(sb, n) BY <1>1, <1>5, <2>1, <2>2, <2>4
    <3> QED BY <3>1, <2>4 DEF Tracks
  <2> QED BY <2>3, <2>4
<1> QED BY <1>2, <1>5, <1>6

-----------------------------------------------------------------------------
(* Completion *)

\* The loop of flagcxNetTrackCompletion has one end: it stops at the first
\* request that is not complete, or when it has been through all entries.
LEMMA AdvancedIs ==
  ASSUME NEW sb, NEW c, IsScoreboard(sb, c)
  PROVE  /\ Advanced(sb) \in 0..c /\ Contiguous(sb, Advanced(sb))
         /\ Advanced(sb) < c => ~Contiguous(sb, Advanced(sb) + 1)
<1>1. Capacity(sb) = c /\ c \in Nat BY CapacityIs
<1>2. Contiguous(sb, 0) BY DEF Contiguous
<1> DEFINE S == {n \in Nat : n <= c /\ ~Contiguous(sb, n)}
<1>3. \E n \in 0..c : Contiguous(sb, n) /\ (n < c => ~Contiguous(sb, n + 1))
  <2>1. CASE S = {}
    <3>1. Contiguous(sb, c) BY <1>1, <2>1
    <3> QED BY <1>1, <3>1
  <2>2. CASE S # {}
    <3>1. PICK x \in S : \A y \in S : x <= y BY <2>2, LeastNatural
    <3>2. x # 0 /\ x - 1 \in 0..c /\ x - 1 \in Nat /\ x - 1 < x /\ x \in Nat BY <1>1, <1>2, <3>1
    <3>3. x - 1 \notin S BY <3>1, <3>2
    <3>4. Contiguous(sb, x - 1) BY <1>1, <3>2, <3>3
    <3>5. ~Contiguous(sb, (x - 1) + 1)
      <4>1. (x - 1) + 1 = x BY <3>2
      <4> QED BY <3>1, <4>1
    <3> QED BY <3>2, <3>4, <3>5
  <2> QED BY <2>1, <2>2
<1> QED BY <1>1, <1>3 DEF Advanced

\* The scoreboard with the requests of Q marked, before the loop.
Marked(sb, Q, failed) ==
  [sb EXCEPT
    !.entries = [e \in DOMAIN @ |->
       IF @[e].state = "pending" /\ @[e].sequence \in Q
         THEN [@[e] EXCEPT !.state = "complete"] ELSE @[e]],
    !.firstError = @ \/ failed]

LEMMA MarkedFields ==
  ASSUME NEW sb, NEW c, IsScoreboard(sb, c), NEW Q, NEW failed \in BOOLEAN
  PROVE  LET m == Marked(sb, Q, failed)
             E == sb.entries
         IN
         /\ m.nextSequence = sb.nextSequence /\ m.firstError = (sb.firstError \/ failed)
         /\ m.entries = [e \in 0..c-1 |->
              IF E[e].state = "pending" /\ E[e].sequence \in Q
                THEN [E[e] EXCEPT !.state = "complete"] ELSE E[e]]
         /\ m = [nextSequence |-> m.nextSequence, entries |-> m.entries, firstError |-> m.firstError]
<1>1. DOMAIN sb = {"nextSequence", "entries", "firstError"} /\ DOMAIN sb.entries = 0..c-1
  BY DEF IsScoreboard
<1> DEFINE m == Marked(sb, Q, failed)
           F == [e \in 0..c-1 |->
                   IF sb.entries[e].state = "pending" /\ sb.entries[e].sequence \in Q
                     THEN [sb.entries[e] EXCEPT !.state = "complete"] ELSE sb.entries[e]]
<1>2. m = [sb EXCEPT !.entries = F, !.firstError = sb.firstError \/ failed]
  BY <1>1 DEF Marked
<1> HIDE DEF m, F
<1>3. m.nextSequence = sb.nextSequence BY <1>1, <1>2
<1>4. m.entries = F BY <1>1, <1>2
<1>5. m.firstError = (sb.firstError \/ failed) BY <1>1, <1>2, Zenon
<1>6. m = [nextSequence |-> m.nextSequence, entries |-> m.entries, firstError |-> m.firstError]
  <2>1. DOMAIN m = {"nextSequence", "entries", "firstError"} BY <1>1, <1>2
  <2>2. m = [k \in DOMAIN m |-> m[k]] BY <1>2
  <2> QED BY <2>1, <2>2
<1> QED BY <1>3, <1>4, <1>5, <1>6 DEF m, F

LEMMA MarkedTracks ==
  ASSUME NEW sb, NEW c, IsScoreboard(sb, c), NEW Q, NEW failed \in BOOLEAN
  PROVE  LET m == Marked(sb, Q, failed) IN
         /\ IsScoreboard(m, c) /\ TrackCompletion(sb, Q, failed) = Retire(m)
         /\ \A n \in Nat : Tracks(m, "pending", n) <=> Tracks(sb, "pending", n) /\ n \notin Q
         /\ \A n \in Nat : Tracks(m, "complete", n) <=>
              Tracks(sb, "complete", n) \/ (Tracks(sb, "pending", n) /\ n \in Q)
<1> DEFINE m == Marked(sb, Q, failed)
           E(e) == IF sb.entries[e].state = "pending" /\ sb.entries[e].sequence \in Q
                   THEN [sb.entries[e] EXCEPT !.state = "complete"] ELSE sb.entries[e]
<1>1. sb.entries \in [0..c-1 -> Entry] /\ sb.nextSequence \in Nat /\ sb.firstError \in BOOLEAN
      /\ c \in Nat \ {0}
  BY DEF IsScoreboard
<1>2. ASSUME NEW e \in 0..c-1
      PROVE  /\ E(e) \in Entry
             /\ \A n : E(e) = [state |-> "pending", sequence |-> n] <=>
                   sb.entries[e] = [state |-> "pending", sequence |-> n] /\ n \notin Q
             /\ \A n : E(e) = [state |-> "complete", sequence |-> n] <=>
                   \/ sb.entries[e] = [state |-> "complete", sequence |-> n]
                   \/ sb.entries[e] = [state |-> "pending", sequence |-> n] /\ n \in Q
  <2>1. sb.entries[e] \in Entry BY <1>1
  <2> QED BY <2>1 DEF Entry
<1>3. /\ m.entries = [e \in 0..c-1 |-> E(e)]
      /\ m.nextSequence = sb.nextSequence /\ m.firstError = (sb.firstError \/ failed)
      /\ m = [nextSequence |-> m.nextSequence, entries |-> m.entries, firstError |-> m.firstError]
  BY MarkedFields
<1>6. TrackCompletion(sb, Q, failed) = Retire(m) BY DEF TrackCompletion, Marked
<1> HIDE DEF E, m
<1>4. m.entries \in [0..c-1 -> Entry] BY <1>2, <1>3
<1>5. IsScoreboard(m, c)
  <2>1. m.firstError \in BOOLEAN BY <1>1, <1>3
  <2>2. m.nextSequence \in Nat BY <1>1, <1>3
  <2> QED BY <1>1, <1>3, <1>4, <2>1, <2>2 DEF IsScoreboard
<1>7. ASSUME NEW n \in Nat
      PROVE  /\ Tracks(m, "pending", n) <=> Tracks(sb, "pending", n) /\ n \notin Q
             /\ Tracks(m, "complete", n) <=>
                  Tracks(sb, "complete", n) \/ (Tracks(sb, "pending", n) /\ n \in Q)
  <2> DEFINE x == n % c
  <2>1. x \in 0..c-1 /\ EntryOf(sb, n) = sb.entries[x] BY CapacityIs
  <2>2. EntryOf(m, n) = m.entries[x] BY <1>5, CapacityIs
  <2> HIDE DEF x
  <2>3. EntryOf(m, n) = E(x) BY <1>3, <2>1, <2>2
  <2>4. /\ E(x) = [state |-> "pending", sequence |-> n] <=>
             sb.entries[x] = [state |-> "pending", sequence |-> n] /\ n \notin Q
        /\ E(x) = [state |-> "complete", sequence |-> n] <=>
             \/ sb.entries[x] = [state |-> "complete", sequence |-> n]
             \/ sb.entries[x] = [state |-> "pending", sequence |-> n] /\ n \in Q
    BY <1>2, <2>1
  <2> QED BY <2>1, <2>3, <2>4 DEF Tracks
<1> QED BY <1>5, <1>6, <1>7 DEF m

\* The loop retires the complete requests from nextSequence on, and those only;
\* what it does not reach stays tracked, and where it stops nothing is complete.
LEMMA RetireTracks ==
  ASSUME NEW m, NEW c, IsScoreboard(m, c)
  PROVE  LET sb2 == Retire(m) IN
         /\ IsScoreboard(sb2, c) /\ sb2.firstError = m.firstError
         /\ m.nextSequence <= sb2.nextSequence
         /\ \A n \in m.nextSequence..sb2.nextSequence-1 : Tracks(m, "complete", n)
         /\ ~Tracks(sb2, "complete", sb2.nextSequence)
         /\ \A st \in {"pending", "complete"}, n \in Nat :
              n >= sb2.nextSequence => (Tracks(sb2, st, n) <=> Tracks(m, st, n))
<1> DEFINE a == Advanced(m)
           next == m.nextSequence + a
           free == [state |-> "free", sequence |-> 0]
           E(e) == IF m.entries[e].sequence < next THEN free ELSE m.entries[e]
           sb2 == Retire(m)
<1>0. m.entries \in [0..c-1 -> Entry] /\ m.nextSequence \in Nat /\ m.firstError \in BOOLEAN
      /\ c \in Nat \ {0} /\ DOMAIN m.entries = 0..c-1
  BY DEF IsScoreboard
<1>1. a \in 0..c /\ Contiguous(m, a) /\ (a < c => ~Contiguous(m, a + 1)) BY AdvancedIs
<1>2. a \in Nat /\ next \in Nat /\ m.nextSequence <= next BY <1>0, <1>1
<1>3. /\ sb2.nextSequence = next /\ sb2.entries = [e \in 0..c-1 |-> E(e)]
      /\ sb2.firstError = m.firstError
      /\ sb2 = [nextSequence |-> sb2.nextSequence, entries |-> sb2.entries,
                firstError |-> sb2.firstError]
  <2>1. DOMAIN m = {"nextSequence", "entries", "firstError"} BY DEF IsScoreboard
  <2> DEFINE F == [e \in 0..c-1 |-> E(e)]
  <2>2. sb2 = [m EXCEPT !.nextSequence = next, !.entries = F]
    BY <1>0, <2>1 DEF Retire
  <2> HIDE DEF sb2, F, next
  <2>3. sb2.nextSequence = next BY <2>1, <2>2
  <2>4. sb2.entries = F BY <2>1, <2>2
  <2>5. sb2.firstError = m.firstError BY <2>1, <2>2
  <2>6. DOMAIN sb2 = {"nextSequence", "entries", "firstError"} BY <2>1, <2>2
  <2>7. sb2 = [k \in DOMAIN sb2 |-> sb2[k]] BY <2>2
  <2>8. sb2 = [nextSequence |-> sb2.nextSequence, entries |-> sb2.entries,
                firstError |-> sb2.firstError]
    BY <2>6, <2>7
  <2> QED BY <2>3, <2>4, <2>5, <2>8 DEF F
<1>4. \A e \in 0..c-1 : E(e) \in Entry BY <1>0 DEF Entry
<1> HIDE DEF a, next, E, sb2
<1>5. IsScoreboard(sb2, c) /\ sb2.nextSequence = next /\ sb2.firstError = m.firstError
  <2>1. sb2.entries \in [0..c-1 -> Entry] BY <1>3, <1>4
  <2> QED BY <1>0, <1>2, <1>3, <2>1 DEF IsScoreboard
<1>6. ASSUME NEW n \in Nat
      PROVE  n % c \in 0..c-1 /\ EntryOf(m, n) = m.entries[n % c] /\ EntryOf(sb2, n) = E(n % c)
  <2> DEFINE x == n % c
  <2>1. x \in 0..c-1 /\ EntryOf(m, n) = m.entries[x] BY CapacityIs
  <2>2. EntryOf(sb2, n) = sb2.entries[x] BY <1>5, CapacityIs
  <2> HIDE DEF x
  <2>3. EntryOf(sb2, n) = E(x) BY <1>3, <2>1, <2>2
  <2> QED BY <2>1, <2>3 DEF x
<1>7. ASSUME NEW st \in {"pending", "complete"}, NEW n \in Nat, n >= next
      PROVE  Tracks(sb2, st, n) <=> Tracks(m, st, n)
  <2> DEFINE e == n % c
  <2>1. e \in 0..c-1 /\ EntryOf(m, n) = m.entries[e] /\ EntryOf(sb2, n) = E(e) BY <1>6
  <2>2. m.entries[e] \in Entry BY <1>0, <2>1
  <2> HIDE DEF e
  <2>3. CASE m.entries[e].sequence < next
    BY <1>2, <1>7, <2>1, <2>2, <2>3 DEF Tracks, Entry, E
  <2>4. CASE ~(m.entries[e].sequence < next)
    BY <2>1, <2>4 DEF Tracks, E
  <2> QED BY <2>3, <2>4
<1>8. ASSUME NEW n \in m.nextSequence..next-1 PROVE Tracks(m, "complete", n)
  <2>1. n \in Int /\ n - m.nextSequence \in 0..a-1 /\ m.nextSequence + (n - m.nextSequence) = n
    <3>1. a \in Nat /\ m.nextSequence \in Nat BY <1>0, <1>2
    <3>2. n \in m.nextSequence..(m.nextSequence + a)-1 BY <1>8 DEF next
    <3> QED BY <3>1, <3>2
  <2> QED BY <1>1, <2>1 DEF Contiguous, Tracks
<1>9. ~Tracks(sb2, "complete", next)
  <2>1. SUFFICES ASSUME Tracks(m, "complete", next) PROVE FALSE BY <1>2, <1>7
  <2>2. Contiguous(m, a + 1)
    <3>1. SUFFICES ASSUME NEW j \in 0..a PROVE Tracks(m, "complete", m.nextSequence + j)
      BY <1>2 DEF Contiguous, Tracks
    <3>2. CASE j = a BY <2>1, <3>2 DEF next
    <3>3. CASE j # a
      <4>1. j \in 0..a-1 BY <1>2, <3>3
      <4> QED BY <1>1, <4>1 DEF Contiguous, Tracks
    <3> QED BY <3>2, <3>3
  <2>3. a = c BY <1>0, <1>1, <2>2
  \* All c + 1 requests from nextSequence on would be complete, in c entries.
  <2>4. \A j \in 0..c : Tracks(m, "complete", m.nextSequence + j)
    <3> TAKE j \in 0..c
    <3>1. j \in 0..(a+1)-1 BY <1>0, <2>3
    <3> QED BY <2>2, <3>1 DEF Contiguous, Tracks
  <2> DEFINE f == [j \in 0..c |-> (m.nextSequence + j) % c]
  <2>5. ASSUME NEW j \in 0..c
        PROVE  /\ f[j] \in 0..c-1
               /\ m.entries[f[j]] = [state |-> "complete", sequence |-> m.nextSequence + j]
    <3>1. m.nextSequence + j \in Nat BY <1>0
    <3> QED BY <1>6, <2>4, <3>1 DEF Tracks
  <2>6. /\ IsFiniteSet(0..c) /\ IsFiniteSet(0..c-1) /\ Cardinality(0..c-1) < Cardinality(0..c)
    <3>1. IsFiniteSet(0..c) /\ Cardinality(0..c) = c + 1
      <4>1. c \in Int /\ ~(0 > c) /\ c - 0 + 1 = c + 1 BY <1>0
      <4>2. Cardinality(0..c) = IF 0 > c THEN 0 ELSE c - 0 + 1 BY <4>1, FS_Interval
      <4> QED BY <4>1, <4>2, FS_Interval
    <3>2. IsFiniteSet(0..c-1) /\ Cardinality(0..c-1) = c BY <1>0, FS_Interval
    <3> QED BY <1>0, <3>1, <3>2
  <2>7. f \in [0..c -> 0..c-1] BY <2>5
  <2> HIDE DEF f
  <2>8. PICK j, k \in 0..c : j # k /\ f[j] = f[k] BY <2>6, <2>7, FS_PigeonHole
  <2>9. m.nextSequence + j = m.nextSequence + k
    <3>1. m.entries[f[j]] = [state |-> "complete", sequence |-> m.nextSequence + j] BY <2>5, <2>8
    <3>2. m.entries[f[k]] = [state |-> "complete", sequence |-> m.nextSequence + k] BY <2>5, <2>8
    <3> QED BY <2>8, <3>1, <3>2
  <2> QED BY <1>0, <2>8, <2>9
<1> QED BY <1>2, <1>5, <1>7, <1>8, <1>9 DEF sb2

\* flagcxNetTrackCompletion: the requests it retires were complete or are among
\* those that complete now, all requests that are complete and contiguous are
\* retired, and the others stay tracked.
THEOREM CompletionRetires ==
  ASSUME NEW sb, NEW c, IsScoreboard(sb, c), NEW Q, NEW failed \in BOOLEAN
  PROVE  LET sb2 == TrackCompletion(sb, Q, failed) IN
         /\ IsScoreboard(sb2, c) /\ sb2.firstError = (sb.firstError \/ failed)
         /\ sb.nextSequence <= sb2.nextSequence
         /\ \A n \in sb.nextSequence..sb2.nextSequence-1 :
              Tracks(sb, "complete", n) \/ (Tracks(sb, "pending", n) /\ n \in Q)
         /\ ~Tracks(sb2, "complete", sb2.nextSequence)
         /\ \A n \in Nat : n >= sb2.nextSequence =>
              /\ Tracks(sb2, "pending", n) <=> Tracks(sb, "pending", n) /\ n \notin Q
              /\ Tracks(sb2, "complete", n) <=>
                   Tracks(sb, "complete", n) \/ (Tracks(sb, "pending", n) /\ n \in Q)
<1> DEFINE m == Marked(sb, Q, failed)
           sb2 == TrackCompletion(sb, Q, failed)
<1>1. /\ IsScoreboard(m, c) /\ sb2 = Retire(m)
      /\ \A n \in Nat : Tracks(m, "pending", n) <=> Tracks(sb, "pending", n) /\ n \notin Q
      /\ \A n \in Nat : Tracks(m, "complete", n) <=>
           Tracks(sb, "complete", n) \/ (Tracks(sb, "pending", n) /\ n \in Q)
  BY MarkedTracks
<1>2. m.nextSequence = sb.nextSequence /\ m.firstError = (sb.firstError \/ failed) BY DEF Marked
<1>3. sb.nextSequence \in Nat BY CapacityIs
<1> HIDE DEF m, sb2
<1>4. /\ IsScoreboard(sb2, c) /\ sb2.firstError = m.firstError
      /\ m.nextSequence <= sb2.nextSequence
      /\ \A n \in m.nextSequence..sb2.nextSequence-1 : Tracks(m, "complete", n)
      /\ ~Tracks(sb2, "complete", sb2.nextSequence)
      /\ \A st \in {"pending", "complete"}, n \in Nat :
           n >= sb2.nextSequence => (Tracks(sb2, st, n) <=> Tracks(m, st, n))
  BY <1>1, RetireTracks
<1>5. \A n \in sb.nextSequence..sb2.nextSequence-1 : n \in Nat BY <1>3
<1> QED BY <1>1, <1>2, <1>4, <1>5 DEF sb2

=============================================================================
