--------------------------- MODULE RegPoolProofs ---------------------------
(***************************************************************************)
(* Proofs about RegPool: what the two maps, the keys of the pool, the      *)
(* counts of the items and the counts of the imported mappings say of each *)
(* other, until a registration overlaps two items.                         *)
(*                                                                         *)
(* The operations of the pool are operators on its value, so are the parts *)
(* of the invariant.  There is one relation for what registerBuffer does,  *)
(* Placed, whether it makes an item or extends one.                        *)
(***************************************************************************)
EXTENDS RegPool, FiniteSetTheorems, WellFoundedInduction, TLAPS

-----------------------------------------------------------------------------
(* The invariant *)

\* What the members of a pool are.
NetHandle == [kind : {"net"}, comm : Comm, begin : Page, end : 2..Pages + 1]
P2pHandle == [kind : {"p2p"}, comm : Comm, alloc : Alloc]
Item == [begin : Page, end : 2..Pages + 1, refs : Int,
         net : SUBSET NetHandle, p2p : SUBSET P2pHandle]

IsPool(s) ==
  /\ s = [items |-> s.items, byBegin |-> s.byBegin, map |-> s.map, ipc |-> s.ipc]
  /\ DOMAIN s.items \subseteq Ids /\ s.items \in [DOMAIN s.items -> Item]
  /\ s.byBegin \in [Page -> Ids \cup {None}]
  /\ s.map \in [Key -> [Page -> Ids \cup {None}]]
  /\ s.ipc \in [Comm \X Alloc -> Int]

\* The items are disjoint ranges, and the pool's keys and the maps say so.
Indexed(s) ==
  /\ \A i \in DOMAIN s.items :
       /\ s.items[i].begin < s.items[i].end
       /\ s.byBegin[s.items[i].begin] = i
       /\ \A p \in ItemPages(s, i) : s.map[Global][p] = i
  /\ \A p \in Page : s.byBegin[p] # None =>
       s.byBegin[p] \in DOMAIN s.items /\ s.items[s.byBegin[p]].begin = p
  /\ \A k \in Key, p \in Page : s.map[k][p] # None =>
       s.map[k][p] \in DOMAIN s.items /\ p \in ItemPages(s, s.map[k][p])

Registration == [n : 1..MaxRegs, comm : Key, buf : Buffers, item : Ids]

IsRegs(R) == R \subseteq Registration /\ IsFiniteSet(R)

\* A registration is within its item, and the item counts it.
Held(s, R) ==
  /\ \A r \in R : r.item \in DOMAIN s.items /\ PagesOf(r.buf) \subseteq ItemPages(s, r.item)
  /\ \A i \in DOMAIN s.items : s.items[i].refs = Cardinality({r \in R : r.item = i})

\* The items that use a mapping.
Users(s, c, a) == {i \in DOMAIN s.items : P2pHandleOf(c, a) \in s.items[i].p2p}

MappingsCounted(s) == \A c \in Comm, a \in Alloc : s.ipc[<<c, a>>] = Cardinality(Users(s, c, a))

OfLiveComms(s, A) ==
  \A i \in DOMAIN s.items : \A h \in s.items[i].net \cup s.items[i].p2p : h.comm \in A

\* The invariant of a pool with the registrations R, the communicators A being
\* alive.
Consistent(s, R, A) ==
  /\ IsPool(s) /\ Indexed(s) /\ Held(s, R)
  /\ MappingsCounted(s) /\ OfLiveComms(s, A)

IInv == IsRegs(regs) /\ alive \subseteq Comm /\ Consistent(pool, regs, alive)

-----------------------------------------------------------------------------
(* Fresh addresses and numbers *)

LEMMA LeastOfNaturals ==
  ASSUME NEW S \in SUBSET Nat, S # {}
  PROVE  Min(S) \in S
<1> DEFINE R == OpToRel(<, Nat)
<1>1. \A x, y \in S : y < x => <<y, x>> \in R BY DEF OpToRel
<1>2. IsWellFoundedOn(R, Nat) BY NatLessThanWellFounded, Zenon
<1> HIDE DEF R
<1>3. PICK x \in S : \A y \in S : ~(<<y, x>> \in R) BY <1>2, WFMin
<1>4. \A y \in S : ~(y < x) BY <1>1, <1>3
<1>5. \A y \in S : x <= y BY <1>4
<1> QED BY <1>3, <1>5 DEF Min

\* The buffers of the application lie within the pages.
LEMMA BufferIs ==
  ASSUME NEW b \in Buffers
  PROVE  /\ b[1] \in Page /\ b[2] \in 2..Pages + 1 /\ b[1] < b[2]
         /\ PagesOf(b) = b[1]..b[2] - 1 /\ PagesOf(b) \subseteq Page
         /\ b[1] \in PagesOf(b) /\ Pages \in Nat
<1>1. Pages \in Nat /\ b \in (1..Pages) \X (2..Pages + 1) /\ b[1] < b[2]
  BY RegPoolAssumption
<1>2. b[1] \in 1..Pages /\ b[2] \in 2..Pages + 1 BY <1>1
<1> QED BY <1>1, <1>2 DEF Page, PagesOf

\* There are no more items than pages, since they begin at different ones.
LEMMA FreshId ==
  ASSUME NEW s, IsPool(s), Indexed(s), Held(s, regs)
  PROVE  NewId(s) \in Ids \ DOMAIN s.items
<1> DEFINE D == DOMAIN s.items
           f == [i \in D |-> s.items[i].begin]
           T == D \cup {r.item : r \in regs} \cup UNION {{s.map[k][p] : p \in Page} : k \in Key}
<1>1. Pages \in Nat /\ MaxRegs \in Nat BY RegPoolAssumption
<1>2. D \subseteq Ids /\ f \in [D -> Page] BY DEF IsPool, Item
<1>3. \A i, j \in D : f[i] = f[j] => i = j BY DEF Indexed
<1>4. f \in Injection(D, Page) BY <1>2, <1>3 DEF Injection, IsInjective
<1>5. IsFiniteSet(Page) /\ Cardinality(Page) = Pages BY <1>1, FS_Interval DEF Page
<1>6. IsFiniteSet(D) /\ Cardinality(D) <= Pages BY <1>4, <1>5, FS_Injection
<1>7. Cardinality(Ids) > Pages BY <1>1, FS_Interval DEF Ids
<1>8. ~(Ids \subseteq D)
  <2>1. Cardinality(D) \in Nat /\ (Ids \subseteq D => Cardinality(Ids) <= Cardinality(D))
    BY <1>6, FS_Subset, FS_CardinalityType
  <2>2. Cardinality(Ids) = 2 * (Pages + MaxRegs) + 1 BY <1>1, FS_Interval DEF Ids
  <2> QED BY <1>1, <1>6, <1>7, <2>1, <2>2
<1>9. T \subseteq D \cup {None}
  <2>1. \A r \in regs : r.item \in D BY DEF Held
  <2>2. \A k \in Key, p \in Page : s.map[k][p] \in D \cup {None} BY DEF Indexed
  <2> QED BY <2>1, <2>2
<1>10. PICK x \in Ids : x \notin D BY <1>8
<1>11. None \notin Ids /\ Ids \subseteq Nat BY <1>1 DEF Ids, None
<1>12. x \in Ids \ T BY <1>9, <1>10, <1>11
<1>13. Min(Ids \ T) \in Ids \ T BY <1>11, <1>12, LeastOfNaturals
<1>14. NewId(s) = Min(Ids \ T) BY DEF NewId
<1> QED BY <1>13, <1>14

\* A registration gets a number that no other one has.
LEMMA FreshNumber ==
  ASSUME NEW R, IsRegs(R), Cardinality(R) < MaxRegs
  PROVE  Min(1..MaxRegs \ {q.n : q \in R}) \in 1..MaxRegs \ {q.n : q \in R}
<1> DEFINE N == {q.n : q \in R}
           f == [q \in R |-> q.n]
<1>1. MaxRegs \in Nat /\ IsFiniteSet(R) BY RegPoolAssumption DEF IsRegs
<1>2. f \in Surjection(R, N) BY DEF Surjection
<1>3. IsFiniteSet(N) /\ Cardinality(N) <= Cardinality(R) BY <1>1, <1>2, FS_Surjection
<1>4. IsFiniteSet(1..MaxRegs) /\ Cardinality(1..MaxRegs) = MaxRegs BY <1>1, FS_Interval
<1>5. Cardinality(R) \in Nat /\ Cardinality(N) \in Nat BY <1>1, <1>3, FS_CardinalityType
<1>6. 1..MaxRegs \subseteq N => Cardinality(1..MaxRegs) <= Cardinality(N) BY <1>3, FS_Subset
<1>7. ~(1..MaxRegs \subseteq N)
  <2> HIDE DEF N
  <2> QED BY <1>1, <1>3, <1>4, <1>5, <1>6
<1>8. (1..MaxRegs) \ N # {} BY <1>7
<1> QED BY <1>1, <1>8, LeastOfNaturals

-----------------------------------------------------------------------------
(* registerBuffer *)

\* The value t of the pool is s with the item i, new or known, over the pages
\* from lo to hi, in the map of k and in the global one.  None of these pages
\* belonged to another item.
Placed(s, t, k, i, lo, hi) ==
  /\ i \in Ids /\ lo \in Page /\ hi \in 2..Pages + 1 /\ lo < hi
  /\ \A p \in lo..hi - 1 : s.map[Global][p] \in {i, None}
  /\ i \in DOMAIN s.items => ItemPages(s, i) \subseteq lo..hi - 1
  /\ DOMAIN t.items = DOMAIN s.items \cup {i}
  /\ \A j \in DOMAIN s.items \ {i} : t.items[j] = s.items[j]
  /\ t.items[i].begin = lo /\ t.items[i].end = hi
  /\ \A p \in Page :
       t.byBegin[p] = IF p = lo THEN i ELSE IF s.byBegin[p] = i THEN None ELSE s.byBegin[p]
  /\ \A l \in Key, p \in Page :
       t.map[l][p] = IF l \in {Global, k} /\ p \in lo..hi - 1 THEN i ELSE s.map[l][p]

\* The item counts one registration more; nobody uses it for that.
PlacedCount(s, t, i) ==
  LET known == i \in DOMAIN s.items IN
  /\ t.items[i].refs = 1 + (IF known THEN s.items[i].refs ELSE 0)
  /\ t.items[i].net = IF known THEN s.items[i].net ELSE {}
  /\ t.items[i].p2p = IF known THEN s.items[i].p2p ELSE {}
  /\ t.ipc = s.ipc

\* The pages of an item.
LEMMA ItemIs ==
  ASSUME NEW s, IsPool(s), NEW i \in DOMAIN s.items
  PROVE  /\ i \in Ids /\ i # None /\ Pages \in Nat
         /\ s.items[i] \in Item /\ s.items[i].begin \in Page
         /\ s.items[i].end \in 2..Pages + 1 /\ s.items[i].refs \in Int
         /\ ItemPages(s, i) \subseteq Page
<1>1. Pages \in Nat /\ MaxRegs \in Nat BY RegPoolAssumption
<1>2. i \in Ids /\ s.items[i] \in Item BY DEF IsPool
<1>3. i # None BY <1>1, <1>2 DEF Ids, None
<1>4. s.items[i].begin \in Page /\ s.items[i].end \in 2..Pages + 1 /\ s.items[i].refs \in Int
  BY <1>2 DEF Item
<1>5. ItemPages(s, i) \subseteq Page BY <1>1, <1>4 DEF ItemPages, Page
<1> QED BY <1>1, <1>2, <1>3, <1>4, <1>5

LEMMA PlacedIsIndexed ==
  ASSUME NEW s, NEW t, NEW k \in Key, NEW i, NEW lo, NEW hi,
         IsPool(s), Indexed(s), Placed(s, t, k, i, lo, hi)
  PROVE  Indexed(t)
<1>1. Pages \in Nat /\ MaxRegs \in Nat /\ Global \in Key BY RegPoolAssumption DEF Key
<1>2. i \in Ids /\ i # None /\ lo \in Page /\ hi \in 2..Pages + 1 /\ lo < hi
  BY <1>1 DEF Placed, Ids, None
<1>3. ItemPages(t, i) = lo..hi - 1 /\ lo \in lo..hi - 1 /\ lo..hi - 1 \subseteq Page
  BY <1>1, <1>2 DEF Placed, ItemPages, Page
<1>4. ASSUME NEW j \in DOMAIN s.items, j # i
      PROVE  /\ t.items[j] = s.items[j] /\ ItemPages(t, j) = ItemPages(s, j)
             /\ j # None /\ j \in DOMAIN t.items
             /\ \A p \in ItemPages(s, j) : p \notin lo..hi - 1 /\ p \in Page /\ s.map[Global][p] = j
  <2>1. t.items[j] = s.items[j] /\ j \in DOMAIN t.items BY <1>4 DEF Placed
  <2>2. j # None /\ ItemPages(s, j) \subseteq Page BY ItemIs
  <2>3. \A p \in ItemPages(s, j) : s.map[Global][p] = j BY DEF Indexed
  <2>4. \A p \in ItemPages(s, j) : p \notin lo..hi - 1 BY <1>4, <2>2, <2>3 DEF Placed
  <2> QED BY <2>1, <2>2, <2>3, <2>4 DEF ItemPages
<1>5. ASSUME NEW j \in DOMAIN t.items
      PROVE  /\ t.items[j].begin < t.items[j].end
             /\ t.byBegin[t.items[j].begin] = j
             /\ \A p \in ItemPages(t, j) : t.map[Global][p] = j
  <2>1. CASE j = i BY <1>1, <1>2, <1>3, <2>1 DEF Placed
  <2>2. CASE j # i
    <3>1. j \in DOMAIN s.items BY <2>2 DEF Placed
    <3>2. t.items[j] = s.items[j] /\ ItemPages(t, j) = ItemPages(s, j)
      BY <1>4, <2>2, <3>1
    <3>3. s.items[j].begin < s.items[j].end /\ s.byBegin[s.items[j].begin] = j
      BY <3>1 DEF Indexed
    <3>4. s.items[j].begin \in Page /\ s.items[j].end \in 2..Pages + 1 BY <3>1, ItemIs
    <3>5. s.items[j].begin \in ItemPages(s, j) BY <1>1, <3>3, <3>4 DEF ItemPages, Page
    <3>6. s.items[j].begin # lo BY <1>3, <1>4, <2>2, <3>1, <3>5
    <3>7. t.byBegin[s.items[j].begin] = j BY <2>2, <3>3, <3>4, <3>6 DEF Placed
    <3>8. \A p \in ItemPages(s, j) : t.map[Global][p] = j
      <4>1. TAKE p \in ItemPages(s, j)
      <4>2. p \notin lo..hi - 1 /\ p \in Page /\ s.map[Global][p] = j BY <1>4, <2>2, <3>1
      <4> QED BY <1>1, <4>2 DEF Placed
    <3> QED BY <3>2, <3>3, <3>7, <3>8
  <2> QED BY <2>1, <2>2
<1>6. ASSUME NEW p \in Page, t.byBegin[p] # None
      PROVE  t.byBegin[p] \in DOMAIN t.items /\ t.items[t.byBegin[p]].begin = p
  <2>1. CASE p = lo BY <2>1 DEF Placed
  <2>2. CASE p # lo
    <3>1. t.byBegin[p] = s.byBegin[p] /\ s.byBegin[p] # i BY <1>6, <2>2 DEF Placed
    <3>2. s.byBegin[p] \in DOMAIN s.items /\ s.items[s.byBegin[p]].begin = p
      BY <1>6, <3>1 DEF Indexed
    <3> QED BY <1>4, <3>1, <3>2
  <2> QED BY <2>1, <2>2
<1>7. ASSUME NEW l \in Key, NEW p \in Page, t.map[l][p] # None
      PROVE  t.map[l][p] \in DOMAIN t.items /\ p \in ItemPages(t, t.map[l][p])
  <2>1. CASE l \in {Global, k} /\ p \in lo..hi - 1 BY <1>3, <2>1 DEF Placed
  <2>2. CASE ~(l \in {Global, k} /\ p \in lo..hi - 1)
    <3>1. t.map[l][p] = s.map[l][p] BY <2>2 DEF Placed
    <3>2. s.map[l][p] \in DOMAIN s.items /\ p \in ItemPages(s, s.map[l][p])
      BY <1>7, <3>1 DEF Indexed
    <3>3. CASE s.map[l][p] = i BY <1>3, <3>1, <3>2, <3>3 DEF Placed
    <3>4. CASE s.map[l][p] # i BY <1>4, <3>1, <3>2, <3>4
    <3> QED BY <3>3, <3>4
  <2> QED BY <2>1, <2>2
<1> QED BY <1>5, <1>6, <1>7 DEF Indexed

\* The registration that the item was placed for is counted with the others.
LEMMA PlacedIsHeld ==
  ASSUME NEW s, NEW t, NEW k \in Key, NEW i, NEW lo, NEW hi, NEW R, NEW r \in Registration,
         IsPool(s), IsRegs(R), Held(s, R), Placed(s, t, k, i, lo, hi), PlacedCount(s, t, i),
         r \notin R, r.item = i, PagesOf(r.buf) \subseteq lo..hi - 1
  PROVE  Held(t, R \cup {r})
<1> DEFINE R2 == R \cup {r}
           Of(X, j) == {q \in X : q.item = j}
<1>1. ItemPages(t, i) = lo..hi - 1 /\ i \in DOMAIN t.items BY DEF Placed, ItemPages
<1>2. \A j \in DOMAIN s.items \ {i} : t.items[j] = s.items[j] /\ ItemPages(t, j) = ItemPages(s, j)
  BY DEF Placed, ItemPages
<1>3. ASSUME NEW q \in R2
      PROVE  q.item \in DOMAIN t.items /\ PagesOf(q.buf) \subseteq ItemPages(t, q.item)
  <2>1. CASE q.item = i
    <3>1. CASE q = r BY <1>1, <3>1
    <3>2. CASE q # r
      <4>1. i \in DOMAIN s.items /\ PagesOf(q.buf) \subseteq ItemPages(s, i)
        BY <1>3, <2>1, <3>2 DEF Held
      <4>2. ItemPages(s, i) \subseteq lo..hi - 1 BY <4>1 DEF Placed
      <4> QED BY <1>1, <2>1, <4>1, <4>2
    <3> QED BY <3>1, <3>2
  <2>2. CASE q.item # i
    <3>1. q \in R BY <1>3, <2>2
    <3>2. q.item \in DOMAIN s.items /\ PagesOf(q.buf) \subseteq ItemPages(s, q.item)
      BY <3>1 DEF Held
    <3>3. q.item \in DOMAIN t.items BY <3>2 DEF Placed
    <3> QED BY <1>2, <2>2, <3>2, <3>3
  <2> QED BY <2>1, <2>2
<1>4. IsFiniteSet(R) BY DEF IsRegs
<1>5. ASSUME NEW j \in DOMAIN t.items
      PROVE  t.items[j].refs = Cardinality(Of(R2, j))
  <2>1. IsFiniteSet(Of(R, j)) BY <1>4, FS_Subset
  <2>2. CASE j = i
    <3>1. Of(R2, i) = Of(R, i) \cup {r} /\ r \notin Of(R, i) OBVIOUS
    <3>2. Cardinality(Of(R2, i)) = Cardinality(Of(R, i)) + 1 /\ Cardinality(Of(R, i)) \in Nat
      BY <2>1, <2>2, <3>1, FS_AddElement, FS_CardinalityType
    <3>3. CASE i \in DOMAIN s.items
      <4>1. s.items[i].refs = Cardinality(Of(R, i)) BY <3>3 DEF Held
      <4>2. t.items[i].refs = 1 + s.items[i].refs BY <3>3 DEF PlacedCount
      <4> QED BY <2>2, <3>2, <4>1, <4>2
    <3>4. CASE i \notin DOMAIN s.items
      <4>1. Of(R, i) = {} BY <3>4 DEF Held
      <4>2. Cardinality(Of(R, i)) = 0 BY <4>1, FS_EmptySet
      <4>3. t.items[i].refs = 1 + 0 BY <3>4 DEF PlacedCount
      <4> QED BY <2>2, <3>2, <4>2, <4>3
    <3> QED BY <3>3, <3>4
  <2>3. CASE j # i
    <3>1. j \in DOMAIN s.items BY <2>3 DEF Placed
    <3>2. Of(R2, j) = Of(R, j) BY <2>3
    <3>3. s.items[j].refs = Cardinality(Of(R, j)) BY <3>1 DEF Held
    <3> QED BY <1>2, <2>3, <3>1, <3>2, <3>3
  <2> QED BY <2>2, <2>3
<1> QED BY <1>3, <1>5 DEF Held

\* Nobody gains or loses a handle.
LEMMA PlacedIsCounted ==
  ASSUME NEW s, NEW t, NEW k \in Key, NEW i, NEW lo, NEW hi, NEW A,
         Placed(s, t, k, i, lo, hi), PlacedCount(s, t, i),
         MappingsCounted(s), OfLiveComms(s, A)
  PROVE  MappingsCounted(t) /\ OfLiveComms(t, A)
<1>1. \A j \in DOMAIN s.items \ {i} : t.items[j] = s.items[j] BY DEF Placed
<1>2. DOMAIN t.items = DOMAIN s.items \cup {i} BY DEF Placed
<1>3. i \in DOMAIN s.items => t.items[i].net = s.items[i].net /\ t.items[i].p2p = s.items[i].p2p
  BY DEF PlacedCount
<1>4. i \notin DOMAIN s.items => t.items[i].net = {} /\ t.items[i].p2p = {}
  BY DEF PlacedCount
<1>5. ASSUME NEW c \in Comm, NEW a \in Alloc
      PROVE  t.ipc[<<c, a>>] = Cardinality(Users(t, c, a))
  <2>1. Users(t, c, a) = Users(s, c, a) BY <1>1, <1>2, <1>3, <1>4 DEF Users
  <2> QED BY <2>1 DEF PlacedCount, MappingsCounted
<1>6. ASSUME NEW j \in DOMAIN t.items, NEW h \in t.items[j].net \cup t.items[j].p2p
      PROVE  h.comm \in A
  <2>1. j \in DOMAIN s.items /\ h \in s.items[j].net \cup s.items[j].p2p
    BY <1>1, <1>2, <1>3, <1>4, <1>6
  <2> QED BY <2>1 DEF OfLiveComms
<1> QED BY <1>5, <1>6 DEF MappingsCounted, OfLiveComms

\* What mapRegItemPages writes.
LEMMA MapPagesIs ==
  ASSUME NEW s, IsPool(s), NEW k \in Key, NEW ps, NEW i \in Ids \cup {None}
  PROVE  LET t == MapPages(s, k, ps, i) IN
         /\ IsPool(t) /\ t.items = s.items /\ t.byBegin = s.byBegin /\ t.ipc = s.ipc
         /\ \A l \in Key, p \in Page :
              t.map[l][p] = IF l = k /\ p \in ps THEN i ELSE s.map[l][p]
<1> DEFINE F == [p \in Page |-> IF p \in ps THEN i ELSE s.map[k][p]]
           M == [s.map EXCEPT ![k] = F]
<1>1. s = [items |-> s.items, byBegin |-> s.byBegin, map |-> s.map, ipc |-> s.ipc]
  BY DEF IsPool
<1>2. s.map \in [Key -> [Page -> Ids \cup {None}]] BY DEF IsPool
<1>3. F \in [Page -> Ids \cup {None}] BY <1>2
<1>4. M \in [Key -> [Page -> Ids \cup {None}]] BY <1>2, <1>3
<1>5. \A l \in Key, p \in Page : M[l][p] = IF l = k /\ p \in ps THEN i ELSE s.map[l][p]
  BY <1>2
<1>6. MapPages(s, k, ps, i) = [s EXCEPT !.map = M] BY <1>1, <1>2 DEF MapPages
<1> HIDE DEF M
<1>7. PICK t : t = MapPages(s, k, ps, i) OBVIOUS
<1>8. t = [items |-> s.items, byBegin |-> s.byBegin, map |-> M, ipc |-> s.ipc]
  BY <1>1, <1>6, <1>7
<1>9. t.items = s.items /\ t.byBegin = s.byBegin /\ t.ipc = s.ipc /\ t.map = M BY <1>8
<1>10. IsPool(t) BY <1>4, <1>8, <1>9 DEF IsPool
<1> QED BY <1>5, <1>7, <1>9, <1>10

\* The first page of an item belongs to it.
LEMMA KeyLeads ==
  ASSUME NEW s, IsPool(s), Indexed(s), NEW p \in Page, s.byBegin[p] # None
  PROVE  s.map[Global][p] = s.byBegin[p]
<1>1. PICK j : j = s.byBegin[p] OBVIOUS
<1>2. j \in DOMAIN s.items /\ s.items[j].begin = p BY <1>1 DEF Indexed
<1>3. s.items[j].end \in 2..Pages + 1 /\ Pages \in Nat BY <1>2, ItemIs
<1>4. s.items[j].begin < s.items[j].end BY <1>2 DEF Indexed
<1>5. p \in ItemPages(s, j) BY <1>2, <1>3, <1>4 DEF ItemPages, Page
<1> QED BY <1>1, <1>2, <1>5 DEF Indexed

\* A buffer of which no page is known gets an item of its own.
LEMMA CreateIs ==
  ASSUME NEW s, IsPool(s), Indexed(s), Held(s, regs), NEW k \in Key, NEW b \in Buffers,
         Overlapped(s, b) = {}
  PROVE  LET c == Create(s, k, b)
             i == NewId(s)
         IN  /\ c.ok = TRUE /\ IsPool(c.s)
             /\ Placed(s, c.s, k, i, b[1], b[2]) /\ PlacedCount(s, c.s, i)
<1>1. Pages \in Nat /\ MaxRegs \in Nat /\ Global \in Key BY RegPoolAssumption DEF Key
<1>2. /\ b[1] \in Page /\ b[2] \in 2..Pages + 1 /\ b[1] < b[2]
      /\ PagesOf(b) = b[1]..b[2] - 1 /\ PagesOf(b) \subseteq Page /\ b[1] \in PagesOf(b)
  BY BufferIs
<1>3. \A p \in PagesOf(b) : s.map[Global][p] = None BY DEF Overlapped
<1>4. PICK i : i = NewId(s) OBVIOUS
<1>5. i \in Ids /\ i \notin DOMAIN s.items BY <1>4, FreshId
<1>6. s.byBegin[b[1]] = None BY <1>2, <1>3, KeyLeads
<1> DEFINE item == [begin |-> b[1], end |-> b[2], refs |-> 1, net |-> {}, p2p |-> {}]
           I == [j \in DOMAIN s.items \cup {i} |-> IF j = i THEN item ELSE s.items[j]]
           B == [s.byBegin EXCEPT ![b[1]] = i]
           t0 == [s EXCEPT !.byBegin[b[1]] = i,
                           !.items = [j \in DOMAIN @ \cup {i} |-> IF j = i THEN item ELSE @[j]]]
<1>7. /\ s = [items |-> s.items, byBegin |-> s.byBegin, map |-> s.map, ipc |-> s.ipc]
      /\ s.byBegin \in [Page -> Ids \cup {None}]
  BY DEF IsPool
<1>8. t0 = [items |-> I, byBegin |-> B, map |-> s.map, ipc |-> s.ipc]
  <2>1. t0 = [s EXCEPT !.byBegin = B, !.items = I] BY <1>7
  <2> HIDE DEF t0, B, I
  <2> QED BY <1>7, <2>1
<1>9. item \in Item BY <1>2 DEF Item
<1>10. I \in [DOMAIN s.items \cup {i} -> Item] /\ DOMAIN I = DOMAIN s.items \cup {i}
  BY <1>9 DEF IsPool
<1>11. B \in [Page -> Ids \cup {None}] BY <1>2, <1>5, <1>7
<1>12. PICK t : t = t0 OBVIOUS
<1>13. t.items = I /\ t.byBegin = B /\ t.map = s.map /\ t.ipc = s.ipc BY <1>8, <1>12
<1>14. t = [items |-> t.items, byBegin |-> t.byBegin, map |-> t.map, ipc |-> t.ipc]
  BY <1>8, <1>12, <1>13
<1>15. IsPool(t)
  <2>1. DOMAIN t.items \subseteq Ids /\ t.items \in [DOMAIN t.items -> Item]
    BY <1>5, <1>10, <1>13 DEF IsPool
  <2> QED BY <1>11, <1>13, <1>14, <2>1 DEF IsPool
<1>16. t.items[i] = item /\ i \in DOMAIN t.items BY <1>10, <1>13
<1>17. PICK P : P = b[1]..b[2] - 1 OBVIOUS
<1>pages. ItemPages(t, i) = P BY <1>16, <1>17 DEF ItemPages
<1>18. PICK u : u = MapPages(t, Global, P, i) OBVIOUS
<1>19. /\ IsPool(u) /\ u.items = I /\ u.byBegin = B /\ u.ipc = s.ipc
       /\ \A l \in Key, p \in Page :
            u.map[l][p] = IF l = Global /\ p \in P THEN i ELSE s.map[l][p]
  <2>1. /\ IsPool(u) /\ u.items = t.items /\ u.byBegin = t.byBegin /\ u.ipc = t.ipc
        /\ \A l \in Key, p \in Page :
             u.map[l][p] = IF l = Global /\ p \in P THEN i ELSE t.map[l][p]
    BY <1>1, <1>5, <1>15, <1>18, MapPagesIs
  <2> QED BY <1>13, <2>1
<1>20. PICK v : v = MapPages(u, k, P, i) OBVIOUS
<1>21. /\ IsPool(v) /\ v.items = I /\ v.byBegin = B /\ v.ipc = s.ipc
       /\ \A l \in Key, p \in Page :
            v.map[l][p] = IF l \in {Global, k} /\ p \in b[1]..b[2] - 1 THEN i ELSE s.map[l][p]
  <2>1. /\ IsPool(v) /\ v.items = u.items /\ v.byBegin = u.byBegin /\ v.ipc = u.ipc
        /\ \A l \in Key, p \in Page :
            v.map[l][p] = IF l = k /\ p \in P THEN i ELSE u.map[l][p]
    BY <1>5, <1>19, <1>20, MapPagesIs
  <2>2. \A l \in Key, p \in Page :
          v.map[l][p] = IF l \in {Global, k} /\ p \in P THEN i ELSE s.map[l][p]
    BY <1>19, <2>1
  <2> QED BY <1>17, <1>19, <2>1, <2>2
<1>22. Create(s, k, b) = [s |-> v, ok |-> TRUE]
  BY <1>4, <1>6, <1>12, <1>18, <1>20, <1>pages DEF Create
<1>23. Placed(s, v, k, i, b[1], b[2])
  <2>1. \A p \in b[1]..b[2] - 1 : s.map[Global][p] \in {i, None} BY <1>2, <1>3
  <2>2. \A j \in DOMAIN s.items \ {i} : v.items[j] = s.items[j] BY <1>21
  <2>3. v.items[i].begin = b[1] /\ v.items[i].end = b[2] BY <1>21
  <2>4. \A p \in Page : s.byBegin[p] # i BY <1>1, <1>5 DEF Indexed, Ids, None
  <2>5. \A p \in Page : v.byBegin[p] = IF p = b[1] THEN i
                                       ELSE IF s.byBegin[p] = i THEN None ELSE s.byBegin[p]
    BY <1>7, <1>21, <2>4
  <2>6. DOMAIN v.items = DOMAIN s.items \cup {i} BY <1>21
  <2> QED BY <1>2, <1>5, <1>21, <2>1, <2>2, <2>3, <2>5, <2>6 DEF Placed
<1>24. PlacedCount(s, v, i) BY <1>5, <1>21 DEF PlacedCount
<1> QED BY <1>4, <1>21, <1>22, <1>23, <1>24

LEMMA ItemSet ==
  ASSUME NEW s, IsPool(s), NEW i \in DOMAIN s.items, NEW x \in Item
  PROVE  LET t == [s EXCEPT !.items[i] = x] IN
         /\ IsPool(t) /\ DOMAIN t.items = DOMAIN s.items /\ t.items[i] = x
         /\ \A j \in DOMAIN s.items \ {i} : t.items[j] = s.items[j]
         /\ t.byBegin = s.byBegin /\ t.map = s.map /\ t.ipc = s.ipc
<1>1. /\ s = [items |-> s.items, byBegin |-> s.byBegin, map |-> s.map, ipc |-> s.ipc]
      /\ s.items \in [DOMAIN s.items -> Item]
  BY DEF IsPool
<1>2. PICK I : I = [s.items EXCEPT ![i] = x] OBVIOUS
<1>3. /\ DOMAIN I = DOMAIN s.items /\ I \in [DOMAIN s.items -> Item] /\ I[i] = x
      /\ \A j \in DOMAIN s.items \ {i} : I[j] = s.items[j]
  BY <1>1, <1>2
<1>4. PICK t : t = [s EXCEPT !.items[i] = x] OBVIOUS
<1>5. t = [s EXCEPT !.items = I] BY <1>1, <1>2, <1>4
<1>6. t = [items |-> I, byBegin |-> s.byBegin, map |-> s.map, ipc |-> s.ipc] BY <1>1, <1>5
<1>7. t.items = I /\ t.byBegin = s.byBegin /\ t.map = s.map /\ t.ipc = s.ipc BY <1>6
<1>8. IsPool(t) BY <1>3, <1>6, <1>7 DEF IsPool
<1> QED BY <1>3, <1>4, <1>7, <1>8

\* The item i has other pages and nothing else of the items has changed.
Resized(s, t, i) ==
  /\ IsPool(t) /\ DOMAIN t.items = DOMAIN s.items
  /\ \A j \in DOMAIN s.items \ {i} : t.items[j] = s.items[j]
  /\ t.items[i].refs = s.items[i].refs
  /\ t.items[i].net = s.items[i].net /\ t.items[i].p2p = s.items[i].p2p
  /\ t.ipc = s.ipc

\* The fields of an item of which one is replaced.
LEMMA ItemFields ==
  ASSUME NEW x \in Item
  PROVE  /\ \A v \in Page : LET y == [x EXCEPT !.begin = v] IN
              /\ y \in Item /\ y.begin = v /\ y.end = x.end /\ y.refs = x.refs
              /\ y.net = x.net /\ y.p2p = x.p2p
         /\ \A v \in 2..Pages + 1 : LET y == [x EXCEPT !.end = v] IN
              /\ y \in Item /\ y.begin = x.begin /\ y.end = v /\ y.refs = x.refs
              /\ y.net = x.net /\ y.p2p = x.p2p
         /\ \A v \in Int : LET y == [x EXCEPT !.refs = v] IN
              /\ y \in Item /\ y.begin = x.begin /\ y.end = x.end /\ y.refs = v
              /\ y.net = x.net /\ y.p2p = x.p2p
         /\ \A v \in SUBSET NetHandle : LET y == [x EXCEPT !.net = v] IN
              /\ y \in Item /\ y.begin = x.begin /\ y.end = x.end /\ y.refs = x.refs
              /\ y.net = v /\ y.p2p = x.p2p
         /\ \A v \in SUBSET P2pHandle : LET y == [x EXCEPT !.p2p = v] IN
              /\ y \in Item /\ y.begin = x.begin /\ y.end = x.end /\ y.refs = x.refs
              /\ y.net = x.net /\ y.p2p = v
<1>1. \A v \in Page : LET y == [x EXCEPT !.begin = v] IN
        /\ y \in Item /\ y.begin = v /\ y.end = x.end /\ y.refs = x.refs
        /\ y.net = x.net /\ y.p2p = x.p2p
  BY DEF Item
<1>2. \A v \in 2..Pages + 1 : LET y == [x EXCEPT !.end = v] IN
        /\ y \in Item /\ y.begin = x.begin /\ y.end = v /\ y.refs = x.refs
        /\ y.net = x.net /\ y.p2p = x.p2p
  BY DEF Item
<1>3. \A v \in Int : LET y == [x EXCEPT !.refs = v] IN
        /\ y \in Item /\ y.begin = x.begin /\ y.end = x.end /\ y.refs = v
        /\ y.net = x.net /\ y.p2p = x.p2p
  BY DEF Item
<1>4. \A v \in SUBSET NetHandle : LET y == [x EXCEPT !.net = v] IN
        /\ y \in Item /\ y.begin = x.begin /\ y.end = x.end /\ y.refs = x.refs
        /\ y.net = v /\ y.p2p = x.p2p
  BY DEF Item
<1>5. \A v \in SUBSET P2pHandle : LET y == [x EXCEPT !.p2p = v] IN
        /\ y \in Item /\ y.begin = x.begin /\ y.end = x.end /\ y.refs = x.refs
        /\ y.net = x.net /\ y.p2p = v
  BY DEF Item
<1> QED BY <1>1, <1>2, <1>3, <1>4, <1>5

\* The result g of growing backward to lo.
GrewBackward(s, g, i, lo) ==
  LET old == s.items[i].begin IN
  /\ g.ok = TRUE /\ Resized(s, g.s, i)
  /\ g.s.items[i].begin = (IF lo < old THEN lo ELSE old)
  /\ g.s.items[i].end = s.items[i].end
  /\ \A p \in Page : g.s.byBegin[p] =
       IF lo >= old THEN s.byBegin[p]
       ELSE IF p = lo THEN i ELSE IF p = old THEN None ELSE s.byBegin[p]
  /\ \A l \in Key, p \in Page :
       g.s.map[l][p] = IF l = Global /\ p \in lo..old - 1 THEN i ELSE s.map[l][p]

\* An item grows backward over pages before it, where no other one begins.
LEMMA BackwardIs ==
  ASSUME NEW s, IsPool(s), NEW i \in DOMAIN s.items, NEW lo \in Page,
         s.byBegin[s.items[i].begin] = i,
         lo < s.items[i].begin => s.byBegin[lo] = None
  PROVE  GrewBackward(s, GrowBackward(s, i, lo), i, lo)
<1>1. PICK old : old = s.items[i].begin OBVIOUS
<1>2. /\ old \in Page /\ i \in Ids /\ i # None /\ s.items[i] \in Item /\ Pages \in Nat
      /\ lo \in Int /\ old \in Int
  BY <1>1, ItemIs DEF Page
<1>3. Global \in Key BY DEF Key
<1>4. CASE lo >= old
  <2>1. GrowBackward(s, i, lo) = [s |-> s, ok |-> TRUE]
    <3>1. ~(lo < old) BY <1>2, <1>4
    <3> QED BY <1>1, <1>4, <3>1, Zenon DEF GrowBackward
  <2>2. \A p \in Page : p \notin lo..old - 1 BY <1>2, <1>4 DEF Page
  <2>3. ~(lo < old) BY <1>2, <1>4
  <2> QED BY <1>1, <1>4, <2>1, <2>2, <2>3 DEF Resized, GrewBackward
<1>5. CASE lo < old
  <2>1. PICK x : x = [s.items[i] EXCEPT !.begin = lo] OBVIOUS
  <2>2. /\ x \in Item /\ x.begin = lo /\ x.end = s.items[i].end /\ x.refs = s.items[i].refs
        /\ x.net = s.items[i].net /\ x.p2p = s.items[i].p2p
    BY <1>2, <2>1, ItemFields
  <2>3. PICK u : u = [s EXCEPT !.items[i] = x] OBVIOUS
  <2>4. /\ IsPool(u) /\ DOMAIN u.items = DOMAIN s.items /\ u.items[i] = x
        /\ \A j \in DOMAIN s.items \ {i} : u.items[j] = s.items[j]
        /\ u.byBegin = s.byBegin /\ u.map = s.map /\ u.ipc = s.ipc
    BY <2>2, <2>3, ItemSet
  <2>5. [s EXCEPT !.items[i].begin = lo] = u BY <2>1, <2>3 DEF IsPool
  <2>6. PICK ps : ps = lo..old - 1 OBVIOUS
  <2>7. PICK t : t = MapPages(u, Global, ps, i) OBVIOUS
  <2>8. /\ IsPool(t) /\ t.items = u.items /\ t.byBegin = u.byBegin /\ t.ipc = u.ipc
        /\ \A l \in Key, p \in Page :
             t.map[l][p] = IF l = Global /\ p \in ps THEN i ELSE u.map[l][p]
    BY <1>2, <1>3, <2>4, <2>7, MapPagesIs
  <2>9. t.byBegin[old] = i /\ t.byBegin[lo] = None /\ i # None
    BY <1>1, <1>2, <1>5, <2>4, <2>8
  <2>10. PICK v : v = [t EXCEPT !.byBegin[old] = None, !.byBegin[lo] = i] OBVIOUS
  <2>11. GrowBackward(s, i, lo) = [s |-> v, ok |-> TRUE]
    <3>1. ~(lo >= old) BY <1>2, <1>5
    <3>2. GrowBackward(s, i, lo) =
            [s |-> [t EXCEPT !.byBegin[old] = None, !.byBegin[lo] = t.byBegin[old]], ok |-> TRUE]
      BY <1>1, <1>5, <2>5, <2>6, <2>7, <2>9, <3>1 DEF GrowBackward
    <3> QED BY <2>9, <2>10, <3>2
  <2>12. PICK B : B = [[t.byBegin EXCEPT ![old] = None] EXCEPT ![lo] = i] OBVIOUS
  <2>13. t = [items |-> t.items, byBegin |-> t.byBegin, map |-> t.map, ipc |-> t.ipc]
         /\ t.byBegin \in [Page -> Ids \cup {None}]
    BY <2>8 DEF IsPool
  <2>14. v = [t EXCEPT !.byBegin = B] BY <2>10, <2>12, <2>13
  <2>15. v = [items |-> t.items, byBegin |-> B, map |-> t.map, ipc |-> t.ipc]
    BY <2>13, <2>14
  <2>16. v.items = t.items /\ v.byBegin = B /\ v.map = t.map /\ v.ipc = t.ipc BY <2>15
  <2>17. /\ B \in [Page -> Ids \cup {None}]
         /\ \A p \in Page : B[p] = IF p = lo THEN i ELSE IF p = old THEN None ELSE t.byBegin[p]
    BY <1>2, <2>12, <2>13
  <2>18. IsPool(v) BY <2>8, <2>15, <2>16, <2>17 DEF IsPool
  <2>19. Resized(s, v, i) BY <2>2, <2>4, <2>8, <2>16, <2>18 DEF Resized
  <2>20. v.items[i].begin = lo /\ v.items[i].end = s.items[i].end BY <2>2, <2>4, <2>8, <2>16
  <2>21. \A l \in Key, p \in Page :
           v.map[l][p] = IF l = Global /\ p \in lo..old - 1 THEN i ELSE s.map[l][p]
    BY <2>4, <2>6, <2>8, <2>16
  <2>22. ~(lo >= old) BY <1>2, <1>5
  <2>23. \A p \in Page : v.byBegin[p] =
           IF lo >= old THEN s.byBegin[p]
           ELSE IF p = lo THEN i ELSE IF p = old THEN None ELSE s.byBegin[p]
    BY <2>4, <2>8, <2>16, <2>17, <2>22
  <2> QED BY <1>1, <1>5, <2>11, <2>19, <2>20, <2>21, <2>23 DEF GrewBackward
<1>6. lo >= old \/ lo < old BY <1>2
<1> QED BY <1>4, <1>5, <1>6, Zenon

\* An item grows forward.
LEMMA ForwardIs ==
  ASSUME NEW s, IsPool(s), NEW i \in DOMAIN s.items, NEW hi \in 2..Pages + 1
  PROVE  LET g == GrowForward(s, i, hi)
             old == s.items[i].end
         IN  /\ Resized(s, g, i) /\ g.byBegin = s.byBegin
             /\ g.items[i].end = (IF hi > old THEN hi ELSE old)
             /\ g.items[i].begin = s.items[i].begin
             /\ \A l \in Key, p \in Page :
                  g.map[l][p] = IF l = Global /\ p \in old..hi - 1 THEN i ELSE s.map[l][p]
<1>1. PICK old : old = s.items[i].end OBVIOUS
<1>2. /\ old \in 2..Pages + 1 /\ i \in Ids /\ s.items[i] \in Item /\ Pages \in Nat
      /\ hi \in Int /\ old \in Int
  BY <1>1, ItemIs
<1>3. Global \in Key BY DEF Key
<1>4. CASE hi <= old
  <2>1. GrowForward(s, i, hi) = s BY <1>1, <1>4 DEF GrowForward
  <2>2. \A p \in Page : p \notin old..hi - 1 BY <1>2, <1>4 DEF Page
  <2>3. ~(hi > old) BY <1>2, <1>4
  <2> QED BY <1>1, <2>1, <2>2, <2>3 DEF Resized
<1>5. CASE hi > old
  <2>1. PICK x : x = [s.items[i] EXCEPT !.end = hi] OBVIOUS
  <2>2. /\ x \in Item /\ x.begin = s.items[i].begin /\ x.end = hi /\ x.refs = s.items[i].refs
        /\ x.net = s.items[i].net /\ x.p2p = s.items[i].p2p
    BY <1>2, <2>1, ItemFields
  <2>3. PICK u : u = [s EXCEPT !.items[i] = x] OBVIOUS
  <2>4. /\ IsPool(u) /\ DOMAIN u.items = DOMAIN s.items /\ u.items[i] = x
        /\ \A j \in DOMAIN s.items \ {i} : u.items[j] = s.items[j]
        /\ u.byBegin = s.byBegin /\ u.map = s.map /\ u.ipc = s.ipc
    BY <2>2, <2>3, ItemSet
  <2>5. [s EXCEPT !.items[i].end = hi] = u BY <2>1, <2>3 DEF IsPool
  <2>6. PICK ps : ps = old..hi - 1 OBVIOUS
  <2>7. PICK t : t = MapPages(u, Global, ps, i) OBVIOUS
  <2>8. /\ IsPool(t) /\ t.items = u.items /\ t.byBegin = u.byBegin /\ t.ipc = u.ipc
        /\ \A l \in Key, p \in Page :
             t.map[l][p] = IF l = Global /\ p \in ps THEN i ELSE u.map[l][p]
    BY <1>2, <1>3, <2>4, <2>7, MapPagesIs
  <2>9. ~(hi <= old) BY <1>2, <1>5
  <2>10. GrowForward(s, i, hi) = t BY <1>1, <2>5, <2>6, <2>7, <2>9 DEF GrowForward
  <2>11. Resized(s, t, i) BY <2>2, <2>4, <2>8 DEF Resized
  <2> QED BY <1>1, <1>5, <2>2, <2>4, <2>6, <2>8, <2>10, <2>11
<1> QED BY <1>2, <1>4, <1>5

\* A registration that overlaps one item extends it to both ranges.
LEMMA ExtendIs ==
  ASSUME NEW s, IsPool(s), Indexed(s), NEW k \in Key, NEW b \in Buffers,
         NEW i \in DOMAIN s.items, Overlapped(s, b) = {i}
  PROVE  LET e == Extend(s, k, b, i) IN
         /\ e.ok = TRUE /\ IsPool(e.s) /\ PlacedCount(s, e.s, i)
         /\ \E lo, hi : Placed(s, e.s, k, i, lo, hi) /\ PagesOf(b) \subseteq lo..hi - 1
<1>1. PICK old, end : old = s.items[i].begin /\ end = s.items[i].end OBVIOUS
<1>2. /\ old \in Page /\ end \in 2..Pages + 1 /\ i \in Ids /\ i # None /\ s.items[i] \in Item
      /\ Pages \in Nat /\ s.items[i].refs \in Int /\ old < end
  BY <1>1, ItemIs DEF Indexed
<1>3. /\ b[1] \in Page /\ b[2] \in 2..Pages + 1 /\ b[1] < b[2]
      /\ PagesOf(b) = b[1]..b[2] - 1 /\ PagesOf(b) \subseteq Page /\ b[1] \in PagesOf(b)
  BY BufferIs
<1>4. PICK b1, b2 : b1 = b[1] /\ b2 = b[2] OBVIOUS
<1>5. b1 \in 1..Pages /\ b2 \in 2..Pages + 1 /\ old \in 1..Pages /\ b1 < b2
  BY <1>2, <1>3, <1>4 DEF Page
<1>6. Global \in Key BY DEF Key
<1>7. ItemPages(s, i) = old..end - 1 BY <1>1 DEF ItemPages
<1>8. \A p \in old..end - 1 : s.map[Global][p] = i BY <1>7 DEF Indexed
<1>9. \A p \in b1..b2 - 1 : s.map[Global][p] \in {i, None} BY <1>3, <1>4 DEF Overlapped
<1>10. PICK q \in b1..b2 - 1 : q \in old..end - 1
  <2>1. PICK q \in PagesOf(b) : s.map[Global][q] = i BY DEF Overlapped
  <2>2. q \in ItemPages(s, i) BY <1>2, <1>3, <1>6, <2>1 DEF Indexed
  <2> QED BY <1>3, <1>4, <1>7, <2>1, <2>2
<1>11. PICK lo, hi : /\ lo = (IF b1 < old THEN b1 ELSE old)
                     /\ hi = (IF b2 > end THEN b2 ELSE end)
  OBVIOUS
<1>12. /\ lo \in Page /\ hi \in 2..Pages + 1 /\ lo < hi
       /\ b1..b2 - 1 \subseteq lo..hi - 1 /\ old..end - 1 \subseteq lo..hi - 1
       /\ \A p \in lo..hi - 1 : p \in b1..b2 - 1 \/ p \in old..end - 1
  BY <1>2, <1>5, <1>10, <1>11 DEF Page
<1>13. \A p \in lo..hi - 1 : s.map[Global][p] \in {i, None} BY <1>8, <1>9, <1>12
<1>14. s.byBegin[old] = i BY <1>1 DEF Indexed
<1>15. b1 < old => s.byBegin[b1] = None
  <2> SUFFICES ASSUME b1 < old, s.byBegin[b1] # None PROVE FALSE OBVIOUS
  <2>1. s.map[Global][b1] = s.byBegin[b1] BY <1>3, <1>4, KeyLeads
  <2>2. s.byBegin[b1] = i BY <1>5, <1>9, <2>1
  <2>3. s.items[i].begin = b1 BY <1>2, <1>3, <1>4, <2>2 DEF Indexed
  <2> QED BY <1>1, <1>5, <2>3
\* The item is counted ...
<1>20. PICK x : x = [s.items[i] EXCEPT !.refs = s.items[i].refs + 1] OBVIOUS
<1>21. /\ x \in Item /\ x.begin = old /\ x.end = end /\ x.refs = s.items[i].refs + 1
       /\ x.net = s.items[i].net /\ x.p2p = s.items[i].p2p
  <2>1. s.items[i].refs + 1 \in Int BY <1>2
  <2> QED BY <1>1, <1>2, <1>20, <2>1, ItemFields
<1>22. PICK s1 : s1 = [s EXCEPT !.items[i] = x] OBVIOUS
<1>23. /\ IsPool(s1) /\ DOMAIN s1.items = DOMAIN s.items /\ s1.items[i] = x
       /\ \A j \in DOMAIN s.items \ {i} : s1.items[j] = s.items[j]
       /\ s1.byBegin = s.byBegin /\ s1.map = s.map /\ s1.ipc = s.ipc
  BY <1>21, <1>22, ItemSet
<1>24. Counted(s, i, b) = s1 BY <1>20, <1>22 DEF IsPool, Counted
\* ... grows backward ...
<1>30. PICK g : g = GrowBackward(s1, i, b1) OBVIOUS
<1>31. /\ g.ok = TRUE /\ Resized(s1, g.s, i)
       /\ g.s.items[i].begin = lo /\ g.s.items[i].end = end
       /\ \A p \in Page : g.s.byBegin[p] =
            IF b1 >= old THEN s.byBegin[p]
            ELSE IF p = b1 THEN i ELSE IF p = old THEN None ELSE s.byBegin[p]
       /\ \A l \in Key, p \in Page :
            g.s.map[l][p] = IF l = Global /\ p \in b1..old - 1 THEN i ELSE s.map[l][p]
  <2>1. s1.items[i].begin = old /\ s1.items[i].end = end /\ i \in DOMAIN s1.items /\ b1 \in Page
    BY <1>3, <1>4, <1>21, <1>23
  <2>2. s1.byBegin[s1.items[i].begin] = i /\ (b1 < s1.items[i].begin => s1.byBegin[b1] = None)
    BY <1>14, <1>15, <1>23, <2>1
  <2>3. GrewBackward(s1, g, i, b1) BY <1>23, <1>30, <2>1, <2>2, BackwardIs
  <2> QED BY <1>11, <1>23, <2>1, <2>3 DEF GrewBackward
\* ... and forward.
<1>40. PICK f : f = GrowForward(g.s, i, b2) OBVIOUS
<1>41. /\ Resized(g.s, f, i) /\ f.byBegin = g.s.byBegin
       /\ f.items[i].end = hi /\ f.items[i].begin = lo
       /\ \A l \in Key, p \in Page :
            f.map[l][p] = IF l = Global /\ p \in end..b2 - 1 THEN i ELSE g.s.map[l][p]
  <2>1. IsPool(g.s) /\ i \in DOMAIN g.s.items BY <1>23, <1>31 DEF Resized
  <2>2. /\ Resized(g.s, f, i) /\ f.byBegin = g.s.byBegin
        /\ f.items[i].end = (IF b2 > g.s.items[i].end THEN b2 ELSE g.s.items[i].end)
        /\ f.items[i].begin = g.s.items[i].begin
        /\ \A l \in Key, p \in Page :
             f.map[l][p] = IF l = Global /\ p \in g.s.items[i].end..b2 - 1 THEN i ELSE g.s.map[l][p]
    BY <1>5, <1>40, <2>1, ForwardIs
  <2> QED BY <1>11, <1>31, <2>2
<1>42. \A l \in Key, p \in Page :
         f.map[l][p] = IF l = Global /\ p \in lo..hi - 1 THEN i ELSE s.map[l][p]
  <2>1. SUFFICES ASSUME NEW l \in Key, NEW p \in Page
                 PROVE  f.map[l][p] = IF l = Global /\ p \in lo..hi - 1 THEN i ELSE s.map[l][p]
    OBVIOUS
  <2>2. f.map[l][p] = IF l = Global /\ (p \in end..b2 - 1 \/ p \in b1..old - 1) THEN i ELSE s.map[l][p]
    BY <1>31, <1>41
  <2>3. p \in lo..hi - 1 <=> p \in end..b2 - 1 \/ p \in b1..old - 1 \/ p \in old..end - 1
    BY <1>2, <1>5, <1>10, <1>11 DEF Page
  <2> QED BY <1>8, <2>2, <2>3
<1>43. \A p \in Page : f.byBegin[p] =
         IF p = lo THEN i ELSE IF s.byBegin[p] = i THEN None ELSE s.byBegin[p]
  <2>1. SUFFICES ASSUME NEW p \in Page
                 PROVE  f.byBegin[p] =
                          IF p = lo THEN i ELSE IF s.byBegin[p] = i THEN None ELSE s.byBegin[p]
    OBVIOUS
  <2>2. s.byBegin[p] = i <=> p = old BY <1>1, <1>2, <1>14 DEF Indexed
  <2>3. f.byBegin[p] =
          IF b1 >= old THEN s.byBegin[p]
          ELSE IF p = b1 THEN i ELSE IF p = old THEN None ELSE s.byBegin[p]
    BY <1>31, <1>41
  <2> QED BY <1>2, <1>5, <1>11, <1>14, <2>2, <2>3
<1>44. IsPool(f) /\ DOMAIN f.items = DOMAIN s.items
       /\ (\A j \in DOMAIN s.items \ {i} : f.items[j] = s.items[j])
       /\ f.items[i].refs = s.items[i].refs + 1
       /\ f.items[i].net = s.items[i].net /\ f.items[i].p2p = s.items[i].p2p
       /\ f.ipc = s.ipc
  BY <1>21, <1>23, <1>31, <1>41 DEF Resized
<1>45. ItemPages(f, i) = lo..hi - 1 BY <1>41 DEF ItemPages
\* The map of the communicator.
<1>50. PICK v : v = (IF k = Global THEN f ELSE MapPages(f, k, ItemPages(f, i), i)) OBVIOUS
<1>51. Extend(s, k, b, i) = [s |-> v, ok |-> TRUE]
  <2>1. CASE k = Global BY <1>4, <1>24, <1>30, <1>31, <1>40, <1>50, <2>1 DEF Extend
  <2>2. CASE k # Global BY <1>4, <1>24, <1>30, <1>31, <1>40, <1>50, <2>2 DEF Extend
  <2> QED BY <2>1, <2>2
<1>52. /\ IsPool(v) /\ v.items = f.items /\ v.byBegin = f.byBegin /\ v.ipc = f.ipc
       /\ \A l \in Key, p \in Page :
            v.map[l][p] = IF l \in {Global, k} /\ p \in lo..hi - 1 THEN i ELSE s.map[l][p]
  <2>1. CASE k = Global BY <1>42, <1>44, <1>50, <2>1
  <2>2. CASE k # Global
    <3>1. PICK ps : ps = lo..hi - 1 OBVIOUS
    <3>2. v = MapPages(f, k, ps, i) BY <1>45, <1>50, <2>2, <3>1
    <3>3. /\ IsPool(v) /\ v.items = f.items /\ v.byBegin = f.byBegin /\ v.ipc = f.ipc
          /\ \A l \in Key, p \in Page :
               v.map[l][p] = IF l = k /\ p \in ps THEN i ELSE f.map[l][p]
      BY <1>2, <1>44, <3>2, MapPagesIs
    <3> QED BY <1>42, <3>1, <3>3
  <2> QED BY <2>1, <2>2
<1>53. Placed(s, v, k, i, lo, hi)
  <2>1. v.items[i].begin = lo /\ v.items[i].end = hi BY <1>41, <1>52
  <2>2. DOMAIN v.items = DOMAIN s.items \cup {i} BY <1>44, <1>52
  <2>3. \A j \in DOMAIN s.items \ {i} : v.items[j] = s.items[j] BY <1>44, <1>52
  <2> QED BY <1>2, <1>7, <1>12, <1>13, <1>43, <1>52, <2>1, <2>2, <2>3 DEF Placed
<1>54. PlacedCount(s, v, i) BY <1>2, <1>44, <1>52 DEF PlacedCount
<1> QED BY <1>3, <1>4, <1>12, <1>51, <1>52, <1>53, <1>54

LEMMA RegisterBufferIs ==
  ASSUME NEW s, IsPool(s), Indexed(s), Held(s, regs), NEW k \in Key, NEW b \in Buffers,
         Cardinality(Overlapped(s, b)) <= 1
  PROVE  LET r == RegisterBuffer(s, k, b) IN
         /\ r.ok = TRUE /\ IsPool(r.s)
         /\ \E i, lo, hi : /\ Placed(s, r.s, k, i, lo, hi) /\ PlacedCount(s, r.s, i)
                           /\ PagesOf(b) \subseteq lo..hi - 1
<1>1. Pages \in Nat /\ MaxRegs \in Nat /\ Global \in Key BY RegPoolAssumption DEF Key
<1>2. PagesOf(b) = b[1]..b[2] - 1 /\ PagesOf(b) \subseteq Page BY BufferIs
<1>3. CASE Overlapped(s, b) = {}
  <2>1. RegisterBuffer(s, k, b) = Create(s, k, b) BY <1>3 DEF RegisterBuffer
  <2>2. PICK c : c = Create(s, k, b) OBVIOUS
  <2>3. PICK i : i = NewId(s) OBVIOUS
  <2>4. /\ c.ok = TRUE /\ IsPool(c.s)
        /\ Placed(s, c.s, k, i, b[1], b[2]) /\ PlacedCount(s, c.s, i)
    BY <1>3, <2>2, <2>3, CreateIs
  <2> QED BY <1>2, <2>1, <2>2, <2>4
<1>4. CASE Overlapped(s, b) # {}
  <2>1. IsFiniteSet(Ids) BY <1>1, FS_Interval DEF Ids
  <2>2. Overlapped(s, b) \subseteq Ids BY <1>1, <1>2 DEF Overlapped, IsPool
  <2>3. IsFiniteSet(Overlapped(s, b)) BY <2>1, <2>2, FS_Subset
  <2>4. Cardinality(Overlapped(s, b)) \in Nat /\ Cardinality(Overlapped(s, b)) # 0
    BY <1>4, <2>3, FS_CardinalityType, FS_EmptySet
  <2>5. Cardinality(Overlapped(s, b)) = 1 BY <2>4
  <2>6. PICK i : Overlapped(s, b) = {i} BY <2>3, <2>5, FS_Singleton
  <2> DEFINE S == {p \in PagesOf(b) : s.map[Global][p] # None}
             first == Min(S)
  <2>7. S # {} BY <1>4 DEF Overlapped
  <2>8. S \subseteq Nat BY <1>1, <1>2 DEF Page
  <2>9. first \in S BY <2>7, <2>8, LeastOfNaturals
  <2>10. s.map[Global][first] = i /\ first \in Page /\ i # None
    BY <1>2, <2>6, <2>9 DEF Overlapped
  <2>11. i \in DOMAIN s.items BY <1>1, <2>10 DEF Indexed
  <2>12. RegisterBuffer(s, k, b) = Extend(s, k, b, i) BY <1>4, <2>10 DEF RegisterBuffer
  <2>13. PICK e : e = Extend(s, k, b, i) OBVIOUS
  <2>14. /\ e.ok = TRUE /\ IsPool(e.s) /\ PlacedCount(s, e.s, i)
         /\ \E lo, hi : Placed(s, e.s, k, i, lo, hi) /\ PagesOf(b) \subseteq lo..hi - 1
    BY <2>6, <2>11, <2>13, ExtendIs
  <2> QED BY <2>12, <2>13, <2>14
<1> QED BY <1>3, <1>4

\* A page of an item leads to it, whichever map is asked first.
LEMMA GetItemIs ==
  ASSUME NEW s, IsPool(s), Indexed(s), NEW k \in Key, NEW i \in DOMAIN s.items,
         NEW p \in ItemPages(s, i)
  PROVE  GetItem(s, k, p) = i
<1>1. p \in Page /\ i # None BY ItemIs
<1>2. s.map[Global][p] = i BY DEF Indexed
<1>3. s.map[k][p] # None => s.map[Global][p] = s.map[k][p] BY <1>1 DEF Indexed
<1> QED BY <1>2, <1>3 DEF GetItem

\* A value of the pool that holds the registration r in addition.
LEMMA PlacedIsConsistent ==
  ASSUME NEW s, NEW t, NEW k \in Key, NEW i, NEW lo, NEW hi, NEW R, NEW A,
         NEW r \in Registration,
         IsRegs(R), Consistent(s, R, A), IsPool(t),
         Placed(s, t, k, i, lo, hi), PlacedCount(s, t, i),
         r \notin R, r.item = i, PagesOf(r.buf) \subseteq lo..hi - 1
  PROVE  Consistent(t, R \cup {r}, A) /\ IsRegs(R \cup {r})
<1>1. IsPool(s) /\ Indexed(s) /\ Held(s, R) /\ MappingsCounted(s) /\ OfLiveComms(s, A)
  BY DEF Consistent
<1>2. Indexed(t) BY <1>1, PlacedIsIndexed
<1>3. Held(t, R \cup {r}) BY <1>1, PlacedIsHeld
<1>4. MappingsCounted(t) /\ OfLiveComms(t, A) BY <1>1, PlacedIsCounted
<1>5. IsRegs(R \cup {r}) BY FS_AddElement DEF IsRegs
<1> QED BY <1>2, <1>3, <1>4, <1>5 DEF Consistent

LEMMA RegisterStep ==
  ASSUME IInv, ~bridged', NEW k \in Key, NEW b \in Buffers, Register(k, b)
  PROVE  IInv'
<1>1. /\ IsRegs(regs) /\ alive \subseteq Comm /\ Consistent(pool, regs, alive)
      /\ IsPool(pool) /\ Indexed(pool) /\ Held(pool, regs)
  BY DEF IInv, Consistent
<1>2. PICK x : x = RegisterBuffer(pool, k, b) OBVIOUS
<1>3. Cardinality(Overlapped(pool, b)) <= 1
  <2>1. Pages \in Nat /\ MaxRegs \in Nat /\ IsFiniteSet(Ids)
    BY RegPoolAssumption, FS_Interval DEF Ids
  <2>2. Overlapped(pool, b) \subseteq Ids
    <3>1. Global \in Key /\ PagesOf(b) \subseteq Page BY BufferIs DEF Key
    <3> QED BY <1>1, <3>1 DEF Overlapped, IsPool
  <2>3. Cardinality(Overlapped(pool, b)) \in Nat BY <2>1, <2>2, FS_Subset, FS_CardinalityType
  <2>4. ~(Cardinality(Overlapped(pool, b)) > 1) BY DEF Register
  <2> QED BY <2>3, <2>4
<1>4. x.ok = TRUE /\ IsPool(x.s) BY <1>1, <1>2, <1>3, RegisterBufferIs
<1>5. PICK i, lo, hi : /\ Placed(pool, x.s, k, i, lo, hi) /\ PlacedCount(pool, x.s, i)
                       /\ PagesOf(b) \subseteq lo..hi - 1
  BY <1>1, <1>2, <1>3, RegisterBufferIs
<1>6. Indexed(x.s) BY <1>1, <1>5, PlacedIsIndexed
<1>7. /\ i \in Ids /\ i # None /\ i \in DOMAIN x.s.items /\ b[1] \in ItemPages(x.s, i)
  <2>1. i \in Ids /\ i \in DOMAIN x.s.items BY <1>5 DEF Placed
  <2>2. ItemPages(x.s, i) = lo..hi - 1 BY <1>5 DEF Placed, ItemPages
  <2>3. b[1] \in PagesOf(b) BY BufferIs
  <2> QED BY <1>4, <1>5, <2>1, <2>2, <2>3, ItemIs
<1>8. GetItem(x.s, k, b[1]) = i BY <1>4, <1>6, <1>7, GetItemIs
<1>9. PICK n : n = Min(1..MaxRegs \ {q.n : q \in regs}) OBVIOUS
<1>10. n \in 1..MaxRegs \ {q.n : q \in regs}
  <2>1. Cardinality(regs) < MaxRegs BY DEF Register
  <2> QED BY <1>1, <1>9, <2>1, FreshNumber
<1>11. PICK r : r = [n |-> n, comm |-> k, buf |-> b, item |-> i] OBVIOUS
<1>12. r \in Registration /\ r.item = i /\ r.buf = b /\ r.n = n
  BY <1>7, <1>10, <1>11 DEF Registration
<1>13. r \notin regs BY <1>10, <1>12
<1>14. /\ pool' = x.s /\ regs' = regs \cup {r} /\ alive' = alive
  BY <1>2, <1>4, <1>7, <1>8, <1>9, <1>11 DEF Register
<1>15. Consistent(x.s, regs \cup {r}, alive) /\ IsRegs(regs \cup {r})
  BY <1>1, <1>4, <1>5, <1>12, <1>13, PlacedIsConsistent
<1> QED BY <1>1, <1>14, <1>15 DEF IInv

-----------------------------------------------------------------------------
(* deregisterBuffer and the handles *)

\* Nothing but handles of items and the counts of the mappings has changed.
HandlesOnly(s, t) ==
  /\ IsPool(t) /\ DOMAIN t.items = DOMAIN s.items
  /\ \A j \in DOMAIN s.items : /\ t.items[j].begin = s.items[j].begin
                               /\ t.items[j].end = s.items[j].end
                               /\ t.items[j].refs = s.items[j].refs
  /\ t.byBegin = s.byBegin /\ t.map = s.map

LEMMA HandlesOnlyKeeps ==
  ASSUME NEW s, NEW t, NEW R, Indexed(s), Held(s, R), HandlesOnly(s, t)
  PROVE  Indexed(t) /\ Held(t, R)
<1>1. /\ DOMAIN t.items = DOMAIN s.items /\ t.byBegin = s.byBegin /\ t.map = s.map
      /\ \A j \in DOMAIN s.items : /\ t.items[j].begin = s.items[j].begin
                                   /\ t.items[j].end = s.items[j].end
                                   /\ t.items[j].refs = s.items[j].refs
  BY DEF HandlesOnly
<1>2. \A j \in DOMAIN s.items : ItemPages(t, j) = ItemPages(s, j) BY <1>1 DEF ItemPages
<1>3. Held(t, R) BY <1>1, <1>2 DEF Held
<1>4. ASSUME NEW j \in DOMAIN t.items
      PROVE  /\ t.items[j].begin < t.items[j].end
             /\ t.byBegin[t.items[j].begin] = j
             /\ \A p \in ItemPages(t, j) : t.map[Global][p] = j
  BY <1>1, <1>2, <1>4 DEF Indexed
<1>5. ASSUME NEW p \in Page, t.byBegin[p] # None
      PROVE  t.byBegin[p] \in DOMAIN t.items /\ t.items[t.byBegin[p]].begin = p
  BY <1>1, <1>5 DEF Indexed
<1>6. ASSUME NEW l \in Key, NEW p \in Page, t.map[l][p] # None
      PROVE  t.map[l][p] \in DOMAIN t.items /\ p \in ItemPages(t, t.map[l][p])
  BY <1>1, <1>2, <1>6 DEF Indexed
<1> QED BY <1>3, <1>4, <1>5, <1>6 DEF Indexed

\* The item i with other handles.
WithNet(s, i, N) == [s EXCEPT !.items[i].net = N]
WithP2p(s, i, P, F) == [s EXCEPT !.items[i].p2p = P, !.ipc = F]

\* Network handles of live communicators come and go.
LEMMA NetChange ==
  ASSUME NEW s, NEW R, NEW A, Consistent(s, R, A), NEW i \in DOMAIN s.items,
         NEW N \in SUBSET NetHandle, \A h \in N : h.comm \in A
  PROVE  LET t == WithNet(s, i, N) IN
         /\ Consistent(t, R, A) /\ HandlesOnly(s, t)
         /\ t.items[i].net = N /\ t.items[i].p2p = s.items[i].p2p /\ t.ipc = s.ipc
<1>1. IsPool(s) /\ Indexed(s) /\ Held(s, R) /\ MappingsCounted(s) /\ OfLiveComms(s, A)
  BY DEF Consistent
<1>2. PICK x : x = [s.items[i] EXCEPT !.net = N] OBVIOUS
<1>3. /\ x \in Item /\ x.begin = s.items[i].begin /\ x.end = s.items[i].end
      /\ x.refs = s.items[i].refs /\ x.net = N /\ x.p2p = s.items[i].p2p
  <2>1. s.items[i] \in Item BY <1>1, ItemIs
  <2> QED BY <1>2, <2>1, ItemFields
<1>4. PICK t : t = [s EXCEPT !.items[i] = x] OBVIOUS
<1>5. WithNet(s, i, N) = t BY <1>1, <1>2, <1>4 DEF IsPool, WithNet
<1>6. /\ IsPool(t) /\ DOMAIN t.items = DOMAIN s.items /\ t.items[i] = x
      /\ \A j \in DOMAIN s.items \ {i} : t.items[j] = s.items[j]
      /\ t.byBegin = s.byBegin /\ t.map = s.map /\ t.ipc = s.ipc
  BY <1>1, <1>3, <1>4, ItemSet
<1>7. HandlesOnly(s, t) BY <1>3, <1>6 DEF HandlesOnly
<1>8. Indexed(t) /\ Held(t, R) BY <1>1, <1>7, HandlesOnlyKeeps
<1>9. \A j \in DOMAIN s.items : t.items[j].p2p = s.items[j].p2p BY <1>3, <1>6
<1>10. \A c \in Comm, a \in Alloc : Users(t, c, a) = Users(s, c, a) BY <1>6, <1>9 DEF Users
<1>11. MappingsCounted(t) BY <1>1, <1>6, <1>10 DEF MappingsCounted
<1>12. OfLiveComms(t, A)
  <2>1. SUFFICES ASSUME NEW j \in DOMAIN s.items, NEW h \in t.items[j].net \cup t.items[j].p2p
                 PROVE  h.comm \in A
    BY <1>6 DEF OfLiveComms
  <2>2. CASE j = i BY <1>1, <1>3, <1>6, <2>1, <2>2 DEF OfLiveComms
  <2>3. CASE j # i BY <1>1, <1>6, <2>1, <2>3 DEF OfLiveComms
  <2> QED BY <2>2, <2>3
<1> QED BY <1>3, <1>5, <1>6, <1>7, <1>8, <1>11, <1>12 DEF Consistent

\* The counts F, after the item i has got the P2P handles P.
Recounted(s, F, i, P) ==
  \A c \in Comm, a \in Alloc :
    F[<<c, a>>] = s.ipc[<<c, a>>]
                  + (IF P2pHandleOf(c, a) \in P THEN 1 ELSE 0)
                  - (IF P2pHandleOf(c, a) \in s.items[i].p2p THEN 1 ELSE 0)

\* P2P handles of live communicators come and go, and the counts with them.
LEMMA P2pChange ==
  ASSUME NEW s, NEW R, NEW A, Consistent(s, R, A), NEW i \in DOMAIN s.items,
         NEW P \in SUBSET P2pHandle, \A h \in P : h.comm \in A,
         NEW F \in [Comm \X Alloc -> Int], Recounted(s, F, i, P)
  PROVE  LET t == WithP2p(s, i, P, F) IN
         /\ Consistent(t, R, A) /\ HandlesOnly(s, t)
         /\ t.items[i].p2p = P /\ t.items[i].net = s.items[i].net
<1>1. IsPool(s) /\ Indexed(s) /\ Held(s, R) /\ MappingsCounted(s) /\ OfLiveComms(s, A)
  BY DEF Consistent
<1>2. PICK x : x = [s.items[i] EXCEPT !.p2p = P] OBVIOUS
<1>3. /\ x \in Item /\ x.begin = s.items[i].begin /\ x.end = s.items[i].end
      /\ x.refs = s.items[i].refs /\ x.net = s.items[i].net /\ x.p2p = P
  <2>1. s.items[i] \in Item BY <1>1, ItemIs
  <2> QED BY <1>2, <2>1 DEF Item
<1>4. PICK u, t : u = [s EXCEPT !.items[i] = x] /\ t = [u EXCEPT !.ipc = F] OBVIOUS
<1>5. WithP2p(s, i, P, F) = t BY <1>1, <1>2, <1>4 DEF IsPool, WithP2p
<1>6. /\ HandlesOnly(s, t) /\ t.items[i] = x /\ t.ipc = F
      /\ \A j \in DOMAIN s.items \ {i} : t.items[j] = s.items[j]
  <2>1. /\ IsPool(u) /\ DOMAIN u.items = DOMAIN s.items /\ u.items[i] = x
        /\ \A j \in DOMAIN s.items \ {i} : u.items[j] = s.items[j]
        /\ u.byBegin = s.byBegin /\ u.map = s.map
    BY <1>1, <1>3, <1>4, ItemSet
  <2>2. u = [items |-> u.items, byBegin |-> u.byBegin, map |-> u.map, ipc |-> u.ipc]
    BY <2>1 DEF IsPool
  <2>3. t = [items |-> u.items, byBegin |-> u.byBegin, map |-> u.map, ipc |-> F]
    BY <1>4, <2>2
  <2>4. t.items = u.items /\ t.byBegin = u.byBegin /\ t.map = u.map /\ t.ipc = F BY <2>3
  <2>5. IsPool(t) BY <2>1, <2>3, <2>4 DEF IsPool
  <2>6. HandlesOnly(s, t) BY <1>3, <2>1, <2>4, <2>5 DEF HandlesOnly
  <2> QED BY <2>1, <2>4, <2>6
<1>7. IsPool(t) /\ DOMAIN t.items = DOMAIN s.items BY <1>6 DEF HandlesOnly
<1>8. Indexed(t) /\ Held(t, R) BY <1>1, <1>6, HandlesOnlyKeeps
<1>9. IsFiniteSet(DOMAIN s.items)
  <2>1. Pages \in Nat /\ MaxRegs \in Nat BY RegPoolAssumption
  <2>2. IsFiniteSet(Ids) BY <2>1, FS_Interval DEF Ids
  <2>3. DOMAIN s.items \subseteq Ids BY <1>1 DEF IsPool
  <2> QED BY <2>2, <2>3, FS_Subset
<1>10. ASSUME NEW c \in Comm, NEW a \in Alloc
       PROVE  t.ipc[<<c, a>>] = Cardinality(Users(t, c, a))
  <2>1. PICK h : h = P2pHandleOf(c, a) OBVIOUS
  <2>2. IsFiniteSet(Users(s, c, a)) BY <1>9, FS_Subset DEF Users
  <2>3. IsFiniteSet(Users(s, c, a) \ {i}) BY <2>2, FS_RemoveElement
  <2>4. Users(s, c, a) = (Users(s, c, a) \ {i}) \cup (IF h \in s.items[i].p2p THEN {i} ELSE {})
    BY <2>1 DEF Users
  <2>5. Users(t, c, a) = (Users(s, c, a) \ {i}) \cup (IF h \in P THEN {i} ELSE {})
    BY <1>3, <1>6, <1>7, <2>1 DEF Users
  <2>6. PICK U : U = Users(s, c, a) \ {i} OBVIOUS
  <2>7. /\ Cardinality(U) \in Nat /\ Cardinality(U \cup {i}) = Cardinality(U) + 1
    <3>1. i \notin U /\ IsFiniteSet(U) BY <2>3, <2>6
    <3> QED BY <3>1, FS_AddElement, FS_CardinalityType
  <2>8. Cardinality(Users(s, c, a)) = Cardinality(U) + (IF h \in s.items[i].p2p THEN 1 ELSE 0)
    <3>1. CASE h \in s.items[i].p2p
      <4>1. Users(s, c, a) = U \cup {i} BY <2>4, <2>6, <3>1
      <4> QED BY <2>7, <3>1, <4>1
    <3>2. CASE h \notin s.items[i].p2p
      <4>1. Users(s, c, a) = U BY <2>4, <2>6, <3>2
      <4> QED BY <2>7, <3>2, <4>1
    <3> QED BY <3>1, <3>2
  <2>9. Cardinality(Users(t, c, a)) = Cardinality(U) + (IF h \in P THEN 1 ELSE 0)
    <3>1. CASE h \in P
      <4>1. Users(t, c, a) = U \cup {i} BY <2>5, <2>6, <3>1
      <4> QED BY <2>7, <3>1, <4>1
    <3>2. CASE h \notin P
      <4>1. Users(t, c, a) = U BY <2>5, <2>6, <3>2
      <4> QED BY <2>7, <3>2, <4>1
    <3> QED BY <3>1, <3>2
  <2>10. s.ipc[<<c, a>>] = Cardinality(Users(s, c, a)) BY <1>1 DEF MappingsCounted
  <2>11. t.ipc[<<c, a>>] = s.ipc[<<c, a>>] + (IF h \in P THEN 1 ELSE 0)
                                         - (IF h \in s.items[i].p2p THEN 1 ELSE 0)
    BY <1>6, <2>1 DEF Recounted
  <2> QED BY <2>7, <2>8, <2>9, <2>10, <2>11
<1>11. MappingsCounted(t) BY <1>10 DEF MappingsCounted
<1>12. OfLiveComms(t, A)
  <2>1. SUFFICES ASSUME NEW j \in DOMAIN s.items, NEW h \in t.items[j].net \cup t.items[j].p2p
                 PROVE  h.comm \in A
    BY <1>7 DEF OfLiveComms
  <2>2. CASE j = i BY <1>1, <1>3, <1>6, <2>1, <2>2 DEF OfLiveComms
  <2>3. CASE j # i BY <1>1, <1>6, <2>1, <2>3 DEF OfLiveComms
  <2> QED BY <2>2, <2>3
<1> QED BY <1>3, <1>5, <1>6, <1>7, <1>8, <1>11, <1>12 DEF Consistent

LEMMA RemoveNetStep ==
  ASSUME NEW s, NEW R, NEW A, Consistent(s, R, A), NEW i \in DOMAIN s.items,
         NEW cs, NEW keep
  PROVE  LET t == RemoveNet(s, cs, i, keep) IN
         /\ Consistent(t, R, A) /\ HandlesOnly(s, t)
         /\ t.items[i].p2p = s.items[i].p2p
<1>1. IsPool(s) /\ OfLiveComms(s, A) BY DEF Consistent
<1>2. PICK N : N = {h \in s.items[i].net : h.comm \notin cs \/ h \in keep} OBVIOUS
<1>3. s.items[i].net \subseteq NetHandle BY <1>1, ItemIs DEF Item
<1>4. N \in SUBSET NetHandle /\ \A h \in N : h.comm \in A BY <1>1, <1>2, <1>3 DEF OfLiveComms
<1>5. PICK t : t = WithNet(s, i, N) OBVIOUS
<1>6. RemoveNet(s, cs, i, keep) = t BY <1>1, <1>2, <1>5 DEF RemoveNet, IsPool, WithNet
<1>7. Consistent(t, R, A) /\ HandlesOnly(s, t) /\ t.items[i].p2p = s.items[i].p2p
  BY <1>4, <1>5, NetChange
<1> QED BY <1>6, <1>7

LEMMA RemoveP2pStep ==
  ASSUME NEW s, NEW R, NEW A, Consistent(s, R, A), NEW i \in DOMAIN s.items,
         NEW cs, NEW keep
  PROVE  LET t == RemoveP2p(s, cs, i, keep) IN
         Consistent(t, R, A) /\ HandlesOnly(s, t)
<1>1. IsPool(s) /\ OfLiveComms(s, A) BY DEF Consistent
<1>2. PICK gone : gone = {h \in s.items[i].p2p : h.comm \in cs /\ h \notin keep} OBVIOUS
<1>3. PICK P : P = s.items[i].p2p \ gone OBVIOUS
<1>4. s.items[i].p2p \subseteq P2pHandle BY <1>1, ItemIs DEF Item
<1>5. P \in SUBSET P2pHandle /\ \A h \in P : h.comm \in A BY <1>1, <1>3, <1>4 DEF OfLiveComms
<1>6. PICK F : F = [k \in Comm \X Alloc |->
                      IF \E h \in gone : k = <<h.comm, h.alloc>> THEN Release(s.ipc[k]) ELSE s.ipc[k]]
  OBVIOUS
<1>7. s.ipc \in [Comm \X Alloc -> Int] BY <1>1 DEF IsPool
<1>8. F \in [Comm \X Alloc -> Int] BY <1>6, <1>7 DEF Release
<1>9. Recounted(s, F, i, P)
  <2>1. SUFFICES ASSUME NEW c \in Comm, NEW a \in Alloc
                 PROVE  F[<<c, a>>] = s.ipc[<<c, a>>]
                                      + (IF P2pHandleOf(c, a) \in P THEN 1 ELSE 0)
                                      - (IF P2pHandleOf(c, a) \in s.items[i].p2p THEN 1 ELSE 0)
    BY DEF Recounted
  <2>2. PICK h : h = P2pHandleOf(c, a) OBVIOUS
  <2>3. (\E g \in gone : <<c, a>> = <<g.comm, g.alloc>>) <=> h \in gone
    <3>1. h.comm = c /\ h.alloc = a BY <2>2 DEF P2pHandleOf
    <3>2. \A g \in gone : g.comm = c /\ g.alloc = a => g = h
      BY <1>2, <1>4, <2>2 DEF P2pHandle, P2pHandleOf
    <3> QED BY <3>1, <3>2
  <2>4. <<c, a>> \in Comm \X Alloc /\ s.ipc[<<c, a>>] \in Int BY <1>7
  <2>5. F[<<c, a>>] = IF h \in gone THEN s.ipc[<<c, a>>] - 1 ELSE s.ipc[<<c, a>>]
    BY <1>6, <2>3, <2>4 DEF Release
  <2>6. h \in gone => h \in s.items[i].p2p BY <1>2
  <2>7. h \in P <=> h \in s.items[i].p2p /\ h \notin gone BY <1>3
  <2> QED BY <2>2, <2>4, <2>5, <2>6, <2>7
<1>10. PICK t : t = WithP2p(s, i, P, F) OBVIOUS
<1>11. RemoveP2p(s, cs, i, keep) = t
  BY <1>1, <1>2, <1>3, <1>6, <1>10 DEF RemoveP2p, IsPool, WithP2p
<1>12. Consistent(t, R, A) /\ HandlesOnly(s, t) BY <1>5, <1>8, <1>9, <1>10, P2pChange
<1> QED BY <1>11, <1>12

\* The item counts one registration less and is out of the map of k.
LEMMA Lessened ==
  ASSUME NEW s, NEW R, NEW A, IsRegs(R), Consistent(s, R, A), NEW r \in R, NEW i, i = r.item,
         NEW k \in Key, NEW t, t = Unmapped(Uncounted(s, i), k, i)
  PROVE  /\ Consistent(t, R \ {r}, A) /\ i \in DOMAIN t.items
         /\ DOMAIN t.items = DOMAIN s.items
<1>1. IsPool(s) /\ Indexed(s) /\ Held(s, R) /\ MappingsCounted(s) /\ OfLiveComms(s, A)
  BY DEF Consistent
<1>2. i \in DOMAIN s.items BY <1>1 DEF Held
<1>3. s.items[i] \in Item /\ s.items[i].refs \in Int /\ s.items[i].refs - 1 \in Int
  BY <1>1, <1>2, ItemIs
<1>4. PICK x : x = [s.items[i] EXCEPT !.refs = s.items[i].refs - 1] OBVIOUS
<1>5. /\ x \in Item /\ x.begin = s.items[i].begin /\ x.end = s.items[i].end
      /\ x.refs = s.items[i].refs - 1 /\ x.net = s.items[i].net /\ x.p2p = s.items[i].p2p
  BY <1>3, <1>4, ItemFields
<1>0. PICK less : less = Uncounted(s, i) OBVIOUS
<1>6. less = [s EXCEPT !.items[i] = x] BY <1>0, <1>1, <1>4 DEF IsPool, Uncounted
<1>7. /\ IsPool(less) /\ DOMAIN less.items = DOMAIN s.items /\ less.items[i] = x
      /\ \A j \in DOMAIN s.items \ {i} : less.items[j] = s.items[j]
      /\ less.byBegin = s.byBegin /\ less.map = s.map /\ less.ipc = s.ipc
  BY <1>1, <1>2, <1>5, <1>6, ItemSet
<1>8. PICK ps : ps = ItemPages(s, i) OBVIOUS
<1>9. /\ IsPool(t) /\ t.items = less.items /\ t.byBegin = s.byBegin /\ t.ipc = s.ipc
      /\ \A l \in Key, p \in Page :
           t.map[l][p] = IF l = k /\ k # Global /\ p \in ps THEN None ELSE s.map[l][p]
  <2>0. t = Unmapped(less, k, i) /\ ItemPages(less, i) = ps
    BY <1>0, <1>5, <1>7, <1>8 DEF ItemPages
  <2>1. CASE k = Global BY <1>7, <2>0, <2>1 DEF Unmapped
  <2>2. CASE k # Global
    <3>1. t = MapPages(less, k, ps, None) BY <2>0, <2>2 DEF Unmapped
    <3>2. /\ IsPool(t) /\ t.items = less.items /\ t.byBegin = less.byBegin /\ t.ipc = less.ipc
          /\ \A l \in Key, p \in Page :
               t.map[l][p] = IF l = k /\ p \in ps THEN None ELSE less.map[l][p]
      BY <1>7, <3>1, MapPagesIs
    <3> QED BY <1>7, <2>2, <3>2
  <2> QED BY <2>1, <2>2
<1>10. DOMAIN t.items = DOMAIN s.items BY <1>7, <1>9
<1>11. ASSUME NEW j \in DOMAIN s.items
       PROVE  /\ t.items[j].begin = s.items[j].begin /\ t.items[j].end = s.items[j].end
              /\ t.items[j].net = s.items[j].net /\ t.items[j].p2p = s.items[j].p2p
              /\ ItemPages(t, j) = ItemPages(s, j)
  <2>1. CASE j = i BY <1>5, <1>7, <1>9, <2>1 DEF ItemPages
  <2>2. CASE j # i BY <1>7, <1>9, <2>2 DEF ItemPages
  <2> QED BY <2>1, <2>2
<1>12. Indexed(t)
  <2>1. Global \in Key BY DEF Key
  <2>2. \A p \in Page : t.map[Global][p] = s.map[Global][p] BY <1>9, <2>1
  <2>3. ASSUME NEW j \in DOMAIN s.items
        PROVE  /\ t.items[j].begin < t.items[j].end /\ t.byBegin[t.items[j].begin] = j
               /\ \A p \in ItemPages(t, j) : t.map[Global][p] = j
    <3>1. ItemPages(s, j) \subseteq Page BY <1>1, ItemIs
    <3> QED BY <1>1, <1>9, <1>11, <2>2, <3>1 DEF Indexed
  <2>4. \A p \in Page : t.byBegin[p] # None =>
          t.byBegin[p] \in DOMAIN s.items /\ t.items[t.byBegin[p]].begin = p
    BY <1>1, <1>9, <1>11 DEF Indexed
  <2>5. \A l \in Key, p \in Page : t.map[l][p] # None =>
          t.map[l][p] \in DOMAIN s.items /\ p \in ItemPages(t, t.map[l][p])
    BY <1>1, <1>9, <1>11 DEF Indexed
  <2> QED BY <1>10, <2>3, <2>4, <2>5 DEF Indexed
<1>13. Held(t, R \ {r})
  <2>1. \A q \in R : q.item \in DOMAIN t.items /\ PagesOf(q.buf) \subseteq ItemPages(t, q.item)
    BY <1>1, <1>10, <1>11 DEF Held
  <2> DEFINE Of(X, j) == {q \in X : q.item = j}
  <2>2. IsFiniteSet(R) BY DEF IsRegs
  <2>3. ASSUME NEW j \in DOMAIN s.items PROVE t.items[j].refs = Cardinality(Of(R \ {r}, j))
    <3>1. s.items[j].refs = Cardinality(Of(R, j)) /\ IsFiniteSet(Of(R, j))
      BY <1>1, <2>2, FS_Subset DEF Held
    <3>2. CASE j = i
      <4>1. Of(R \ {r}, i) = Of(R, i) \ {r} /\ r \in Of(R, i) OBVIOUS
      <4>2. PICK S : S = Of(R, i) OBVIOUS
      <4>3. Cardinality(S \ {r}) = Cardinality(S) - 1
        <5>1. IsFiniteSet(S) /\ r \in S BY <3>1, <3>2, <4>1, <4>2
        <5> QED BY <5>1, FS_RemoveElement
      <4>4. t.items[i].refs = s.items[i].refs - 1 BY <1>5, <1>7, <1>9
      <4>5. s.items[i].refs = Cardinality(S) BY <3>1, <3>2, <4>2
      <4>6. Of(R \ {r}, i) = S \ {r} BY <4>1, <4>2
      <4> QED BY <3>2, <4>3, <4>4, <4>5, <4>6
    <3>3. CASE j # i
      <4>1. Of(R \ {r}, j) = Of(R, j) BY <3>3
      <4> QED BY <1>7, <1>9, <3>1, <3>3, <4>1
    <3> QED BY <3>2, <3>3
  <2> QED BY <1>10, <2>1, <2>3 DEF Held
<1>14. MappingsCounted(t)
  <2>1. \A c \in Comm, a \in Alloc : Users(t, c, a) = Users(s, c, a)
    BY <1>10, <1>11 DEF Users
  <2> QED BY <1>1, <1>9, <2>1 DEF MappingsCounted
<1>15. OfLiveComms(t, A) BY <1>1, <1>10, <1>11 DEF OfLiveComms
<1> QED BY <1>2, <1>9, <1>10, <1>12, <1>13, <1>14, <1>15 DEF Consistent

\* An item without registrations and without P2P handles goes.
LEMMA DestroyStep ==
  ASSUME NEW s, NEW R, NEW A, IsRegs(R), Consistent(s, R, A), NEW i \in DOMAIN s.items,
         s.items[i].refs <= 0, s.items[i].p2p = {}
  PROVE  Consistent(Destroy(s, i), R, A)
<1>1. IsPool(s) /\ Indexed(s) /\ Held(s, R) /\ MappingsCounted(s) /\ OfLiveComms(s, A)
  BY DEF Consistent
<1>2. /\ i \in Ids /\ i # None /\ s.items[i].begin \in Page /\ s.items[i].end \in 2..Pages + 1
      /\ ItemPages(s, i) \subseteq Page
  BY <1>1, ItemIs
<1>3. /\ s = [items |-> s.items, byBegin |-> s.byBegin, map |-> s.map, ipc |-> s.ipc]
      /\ DOMAIN s.items \subseteq Ids /\ s.items \in [DOMAIN s.items -> Item]
      /\ s.byBegin \in [Page -> Ids \cup {None}]
      /\ s.map \in [Key -> [Page -> Ids \cup {None}]]
      /\ s.ipc \in [Comm \X Alloc -> Int]
  BY <1>1 DEF IsPool
<1>4. PICK M : M = [k \in Key |-> [p \in Page |->
                      IF p \in ItemPages(s, i) /\ s.map[k][p] = i THEN None ELSE s.map[k][p]]]
  OBVIOUS
<1>5. PICK B : B = [s.byBegin EXCEPT ![s.items[i].begin] = None] OBVIOUS
<1>6. PICK I : I = [j \in DOMAIN s.items \ {i} |-> s.items[j]] OBVIOUS
<1>7. PICK t : t = Destroy(s, i) OBVIOUS
<1>8. t = [s EXCEPT !.map = M, !.byBegin = B, !.items = I]
  BY <1>3, <1>4, <1>5, <1>6, <1>7 DEF Destroy
<1>9. t = [items |-> I, byBegin |-> B, map |-> M, ipc |-> s.ipc] BY <1>3, <1>8
<1>10. t.items = I /\ t.byBegin = B /\ t.map = M /\ t.ipc = s.ipc BY <1>9
<1>11. /\ DOMAIN I = DOMAIN s.items \ {i} /\ I \in [DOMAIN I -> Item] /\ DOMAIN I \subseteq Ids
       /\ \A j \in DOMAIN I : I[j] = s.items[j]
  BY <1>3, <1>6
<1>12. /\ B \in [Page -> Ids \cup {None}]
       /\ \A p \in Page : B[p] = IF p = s.items[i].begin THEN None ELSE s.byBegin[p]
  BY <1>2, <1>3, <1>5
<1>13. /\ M \in [Key -> [Page -> Ids \cup {None}]]
       /\ \A k \in Key, p \in Page : M[k][p] = IF s.map[k][p] = i THEN None ELSE s.map[k][p]
  <2>1. \A k \in Key, p \in Page : s.map[k][p] = i => p \in ItemPages(s, i)
    BY <1>1, <1>2 DEF Indexed
  <2>2. M \in [Key -> [Page -> Ids \cup {None}]] BY <1>3, <1>4
  <2>3. ASSUME NEW k \in Key, NEW p \in Page
        PROVE  M[k][p] = IF s.map[k][p] = i THEN None ELSE s.map[k][p]
    BY <1>4, <2>1
  <2> QED BY <2>2, <2>3
<1>14. IsPool(t) BY <1>3, <1>9, <1>10, <1>11, <1>12, <1>13 DEF IsPool
<1>15. \A j \in DOMAIN I : ItemPages(t, j) = ItemPages(s, j) BY <1>10, <1>11 DEF ItemPages
<1>16. Indexed(t)
  <2>1. Global \in Key BY DEF Key
  <2>2. ASSUME NEW j \in DOMAIN I
        PROVE  /\ t.items[j].begin < t.items[j].end
               /\ t.byBegin[t.items[j].begin] = j
               /\ \A p \in ItemPages(t, j) : t.map[Global][p] = j
    <3>1. j \in DOMAIN s.items /\ j # i /\ t.items[j] = s.items[j] BY <1>10, <1>11
    <3>2. s.items[j].begin \in Page /\ ItemPages(s, j) \subseteq Page BY <1>1, <3>1, ItemIs
    <3>3. /\ s.items[j].begin < s.items[j].end /\ s.byBegin[s.items[j].begin] = j
          /\ \A p \in ItemPages(s, j) : s.map[Global][p] = j
          /\ s.byBegin[s.items[i].begin] = i
      BY <1>1, <3>1 DEF Indexed
    <3>4. t.byBegin[s.items[j].begin] = j BY <1>10, <1>12, <3>1, <3>2, <3>3
    <3>5. \A p \in ItemPages(s, j) : t.map[Global][p] = j
      BY <1>10, <1>13, <2>1, <3>1, <3>2, <3>3
    <3> QED BY <1>15, <3>1, <3>3, <3>4, <3>5
  <2>3. ASSUME NEW p \in Page, t.byBegin[p] # None
        PROVE  t.byBegin[p] \in DOMAIN I /\ t.items[t.byBegin[p]].begin = p
    <3>1. t.byBegin[p] = s.byBegin[p] /\ p # s.items[i].begin BY <1>10, <1>12, <2>3
    <3>2. s.byBegin[p] \in DOMAIN s.items /\ s.items[s.byBegin[p]].begin = p
      BY <1>1, <2>3, <3>1 DEF Indexed
    <3>3. s.byBegin[p] # i BY <3>1, <3>2
    <3> QED BY <1>10, <1>11, <3>1, <3>2, <3>3
  <2>4. ASSUME NEW l \in Key, NEW p \in Page, t.map[l][p] # None
        PROVE  t.map[l][p] \in DOMAIN I /\ p \in ItemPages(t, t.map[l][p])
    <3>1. t.map[l][p] = s.map[l][p] /\ s.map[l][p] # i BY <1>10, <1>13, <2>4
    <3>2. s.map[l][p] \in DOMAIN s.items /\ p \in ItemPages(s, s.map[l][p])
      BY <1>1, <2>4, <3>1 DEF Indexed
    <3> QED BY <1>11, <1>15, <3>1, <3>2
  <2> QED BY <1>10, <2>2, <2>3, <2>4 DEF Indexed
<1>17. \A r \in R : r.item # i
  <2>1. PICK S : S = {r \in R : r.item = i} OBVIOUS
  <2>2. IsFiniteSet(R) BY DEF IsRegs
  <2>3. IsFiniteSet(S) BY <2>1, <2>2, FS_Subset
  <2>4. s.items[i].refs = Cardinality(S) BY <1>1, <2>1 DEF Held
  <2>5. Cardinality(S) \in Nat BY <2>3, FS_CardinalityType
  <2>6. Cardinality(S) = 0 BY <2>4, <2>5
  <2>7. S = {} BY <2>3, <2>6, FS_EmptySet
  <2> QED BY <2>1, <2>7
<1>18. Held(t, R)
  <2>1. \A r \in R : r.item \in DOMAIN I /\ PagesOf(r.buf) \subseteq ItemPages(t, r.item)
    BY <1>1, <1>11, <1>15, <1>17 DEF Held
  <2>2. \A j \in DOMAIN I : t.items[j].refs = Cardinality({r \in R : r.item = j})
    BY <1>1, <1>10, <1>11 DEF Held
  <2> QED BY <1>10, <2>1, <2>2 DEF Held
<1>19. MappingsCounted(t)
  <2>1. \A c \in Comm, a \in Alloc : Users(t, c, a) = Users(s, c, a)
    BY <1>10, <1>11 DEF Users
  <2> QED BY <1>1, <1>10, <2>1 DEF MappingsCounted
<1>20. OfLiveComms(t, A) BY <1>1, <1>10, <1>11 DEF OfLiveComms
<1> QED BY <1>7, <1>14, <1>16, <1>18, <1>19, <1>20 DEF Consistent

\* A registration less: the item is counted down, or goes with its handles.
LEMMA DeregisterBufferStep ==
  ASSUME NEW s, NEW R, NEW A, IsRegs(R), Consistent(s, R, A), NEW r \in R,
         NEW i, i = r.item, NEW k \in Key, NEW keep
  PROVE  Consistent(DeregisterBuffer(s, k, i, keep), R \ {r}, A)
<1>1. IsPool(s) /\ Indexed(s) /\ Held(s, R) BY DEF Consistent
<1>2. i \in DOMAIN s.items /\ s.byBegin[s.items[i].begin] = i BY <1>1 DEF Held, Indexed
<1>3. IsRegs(R \ {r}) BY FS_RemoveElement DEF IsRegs
<1>4. PICK t : t = Unmapped(Uncounted(s, i), k, i) OBVIOUS
<1>5. Consistent(t, R \ {r}, A) /\ i \in DOMAIN t.items BY <1>4, Lessened
<1>6. PICK u : u = RemoveNet(t, Comm, i, keep) OBVIOUS
<1>7. Consistent(u, R \ {r}, A) /\ HandlesOnly(t, u) BY <1>5, <1>6, RemoveNetStep
<1>8. i \in DOMAIN u.items /\ u.items[i].refs = t.items[i].refs
  BY <1>5, <1>7 DEF HandlesOnly
<1>9. PICK v : v = RemoveP2p(u, Comm, i, keep) OBVIOUS
<1>10. Consistent(v, R \ {r}, A) /\ HandlesOnly(u, v) BY <1>7, <1>8, <1>9, RemoveP2pStep
<1>11. i \in DOMAIN v.items /\ v.items[i].refs = t.items[i].refs
  BY <1>8, <1>10 DEF HandlesOnly
<1>12. DeregisterBuffer(s, k, i, keep) =
         IF t.items[i].refs > 0 THEN t
         ELSE IF u.items[i].net # {} THEN u
         ELSE IF v.items[i].p2p # {} THEN v
         ELSE Destroy(v, i)
  <2>1. t.items[i].refs \in Int BY <1>5, ItemIs DEF Consistent
  <2>2. LastReference(t, i) <=> ~(t.items[i].refs > 0) BY <2>1 DEF LastReference
  <2>3. DeregisterBuffer(s, k, i, keep) =
          CASE s.byBegin[s.items[i].begin] # i -> s
            [] s.byBegin[s.items[i].begin] = i /\ ~LastReference(t, i) -> t
            [] OTHER -> IF u.items[i].net # {} THEN u
                        ELSE IF v.items[i].p2p # {} THEN v
                        ELSE Destroy(v, i)
    BY <1>4, <1>6, <1>9, Zenon DEF DeregisterBuffer
  <2>4. PICK w : w = IF u.items[i].net # {} THEN u
                     ELSE IF v.items[i].p2p # {} THEN v ELSE Destroy(v, i)
    OBVIOUS
  <2>5. DeregisterBuffer(s, k, i, keep) =
          CASE s.byBegin[s.items[i].begin] # i -> s
            [] s.byBegin[s.items[i].begin] = i /\ ~LastReference(t, i) -> t
            [] OTHER -> w
    BY <2>3, <2>4
  <2>6. DeregisterBuffer(s, k, i, keep) = IF t.items[i].refs > 0 THEN t ELSE w
    BY <1>2, <2>2, <2>5
  <2> QED BY <2>4, <2>6
<1>13. CASE t.items[i].refs > 0 BY <1>5, <1>12, <1>13
<1>14. CASE ~(t.items[i].refs > 0) /\ u.items[i].net # {} BY <1>7, <1>12, <1>14
<1>15. CASE ~(t.items[i].refs > 0) /\ u.items[i].net = {} /\ v.items[i].p2p # {}
  BY <1>10, <1>12, <1>15
<1>16. CASE ~(t.items[i].refs > 0) /\ u.items[i].net = {} /\ v.items[i].p2p = {}
  <2>1. v.items[i].refs <= 0
    <3>1. t.items[i].refs \in Int BY <1>5, ItemIs DEF Consistent
    <3> QED BY <1>11, <1>16, <3>1
  <2>2. Consistent(Destroy(v, i), R \ {r}, A) BY <1>3, <1>10, <1>11, <1>16, <2>1, DestroyStep
  <2> QED BY <1>12, <1>16, <2>2
<1> QED BY <1>13, <1>14, <1>15, <1>16

LEMMA DeregisterStep ==
  ASSUME IInv, NEW r \in regs, Deregister(r)
  PROVE  IInv'
<1>1. IsRegs(regs) /\ alive \subseteq Comm /\ Consistent(pool, regs, alive) BY DEF IInv
<1>2. r.comm \in Key /\ r.item \in DOMAIN pool.items
  BY <1>1 DEF IsRegs, Registration, Consistent, Held
<1>3. regs' = regs \ {r} /\ alive' = alive BY DEF Deregister
<1>4. IsRegs(regs \ {r}) BY <1>1, FS_RemoveElement DEF IsRegs
<1>5. PICK i : i = r.item OBVIOUS
<1>6. Consistent(pool', regs \ {r}, alive)
  <2>1. CASE pool' = DeregisterBuffer(pool, Global, i, {})
    <3>1. Global \in Key BY DEF Key
    <3>2. Consistent(DeregisterBuffer(pool, Global, i, {}), regs \ {r}, alive)
      BY <1>1, <1>5, <3>1, DeregisterBufferStep
    <3> QED BY <2>1, <3>2
  <2>2. ASSUME NEW keep,
               pool' = DeregisterBuffer(RemoveP2p(RemoveNet(pool, {r.comm}, i, keep),
                                                  {r.comm}, i, keep),
                                        r.comm, i, keep)
        PROVE  Consistent(pool', regs \ {r}, alive)
    <3>1. PICK u : u = RemoveNet(pool, {r.comm}, i, keep) OBVIOUS
    <3>2. Consistent(u, regs, alive) /\ HandlesOnly(pool, u)
      BY <1>1, <1>2, <1>5, <3>1, RemoveNetStep
    <3>3. i \in DOMAIN u.items BY <1>2, <1>5, <3>2 DEF HandlesOnly
    <3>4. PICK v : v = RemoveP2p(u, {r.comm}, i, keep) OBVIOUS
    <3>5. Consistent(v, regs, alive) BY <3>2, <3>3, <3>4, RemoveP2pStep
    <3>6. Consistent(DeregisterBuffer(v, r.comm, i, keep), regs \ {r}, alive)
      BY <1>1, <1>2, <1>5, <3>5, DeregisterBufferStep
    <3> QED BY <2>2, <3>1, <3>4, <3>6
  <2>3. \/ pool' = DeregisterBuffer(pool, Global, i, {})
        \/ \E keep : pool' = DeregisterBuffer(RemoveP2p(RemoveNet(pool, {r.comm}, i, keep),
                                                        {r.comm}, i, keep),
                                              r.comm, i, keep)
    BY <1>5, Zenon DEF Deregister
  <2> QED BY <2>1, <2>2, <2>3
<1> QED BY <1>1, <1>3, <1>4, <1>6 DEF IInv

\* A registration of a live communicator and the page that is looked up.
LEMMA LiveRegistration ==
  ASSUME IInv, NEW r \in regs, r.comm \in alive
  PROVE  r.comm \in Comm /\ r.buf \in Buffers /\ r.buf[1] \in Page /\ AllocOf(r.buf[1]) \in Alloc
<1>1. r.comm \in Comm /\ r.buf \in Buffers BY DEF IInv, IsRegs, Registration
<1>2. r.buf[1] \in Page BY <1>1, BufferIs
<1> QED BY <1>1, <1>2 DEF Alloc

LEMMA NetUseStep ==
  ASSUME IInv, NEW r \in regs, NetUse(r)
  PROVE  IInv'
<1>1. IsRegs(regs) /\ alive \subseteq Comm /\ Consistent(pool, regs, alive) BY DEF IInv
<1>2. PICK i : i = GetItem(pool, r.comm, r.buf[1]) OBVIOUS
<1>3. i \in DOMAIN pool.items /\ r.comm \in alive BY <1>2 DEF NetUse
<1>4. IsPool(pool) /\ OfLiveComms(pool, alive) BY <1>1 DEF Consistent
<1>5. PICK h : h = [kind |-> "net", comm |-> r.comm,
                    begin |-> pool.items[i].begin, end |-> pool.items[i].end]
  OBVIOUS
<1>6. h \in NetHandle /\ h.comm \in alive
  <2>1. pool.items[i].begin \in Page /\ pool.items[i].end \in 2..Pages + 1 BY <1>3, <1>4, ItemIs
  <2>2. r.comm \in Comm BY <1>3, LiveRegistration
  <2> QED BY <1>3, <1>5, <2>1, <2>2 DEF NetHandle
<1>7. PICK N : N = pool.items[i].net \cup {h} OBVIOUS
<1>8. N \in SUBSET NetHandle /\ \A g \in N : g.comm \in alive
  <2>1. pool.items[i].net \subseteq NetHandle BY <1>3, <1>4, ItemIs DEF Item
  <2> QED BY <1>3, <1>4, <1>6, <1>7, <2>1 DEF OfLiveComms
<1>9. Consistent(WithNet(pool, i, N), regs, alive) BY <1>1, <1>3, <1>8, NetChange
<1>10. pool' = WithNet(pool, i, N) BY <1>2, <1>5, <1>7 DEF NetUse, WithNet
<1>11. regs' = regs /\ alive' = alive BY DEF NetUse
<1> QED BY <1>1, <1>9, <1>10, <1>11 DEF IInv

LEMMA P2pUseStep ==
  ASSUME IInv, NEW r \in regs, P2pUse(r)
  PROVE  IInv'
<1>1. IsRegs(regs) /\ alive \subseteq Comm /\ Consistent(pool, regs, alive) BY DEF IInv
<1>2. PICK i, c, a : /\ i = GetItem(pool, r.comm, r.buf[1])
                     /\ c = r.comm /\ a = AllocOf(r.buf[1])
  OBVIOUS
<1>3. PICK h : h = P2pHandleOf(c, a) OBVIOUS
<1>4. i \in DOMAIN pool.items /\ c \in alive /\ h \notin pool.items[i].p2p
  BY <1>2, <1>3 DEF P2pUse, P2pHandleOf
<1>5. IsPool(pool) /\ OfLiveComms(pool, alive) BY <1>1 DEF Consistent
<1>6. c \in Comm /\ a \in Alloc BY <1>2, <1>4, LiveRegistration
<1>7. h \in P2pHandle /\ h.comm = c BY <1>3, <1>6 DEF P2pHandle, P2pHandleOf
<1>8. PICK P : P = pool.items[i].p2p \cup {h} OBVIOUS
<1>9. P \in SUBSET P2pHandle /\ \A g \in P : g.comm \in alive
  <2>1. pool.items[i].p2p \subseteq P2pHandle BY <1>4, <1>5, ItemIs DEF Item
  <2> QED BY <1>4, <1>5, <1>7, <1>8, <2>1 DEF OfLiveComms
<1>10. PICK F : F = [pool.ipc EXCEPT ![<<c, a>>] = pool.ipc[<<c, a>>] + 1] OBVIOUS
<1>11. pool.ipc \in [Comm \X Alloc -> Int] BY <1>5 DEF IsPool
<1>12. F \in [Comm \X Alloc -> Int] BY <1>6, <1>10, <1>11
<1>13. Recounted(pool, F, i, P)
  <2>1. SUFFICES ASSUME NEW d \in Comm, NEW e \in Alloc
                 PROVE  F[<<d, e>>] = pool.ipc[<<d, e>>]
                                      + (IF P2pHandleOf(d, e) \in P THEN 1 ELSE 0)
                                      - (IF P2pHandleOf(d, e) \in pool.items[i].p2p THEN 1 ELSE 0)
    BY DEF Recounted
  <2>2. PICK g : g = P2pHandleOf(d, e) OBVIOUS
  <2>3. g = h <=> d = c /\ e = a BY <1>3, <2>2 DEF P2pHandleOf
  <2>4. pool.ipc[<<d, e>>] \in Int BY <1>11
  <2>5. F[<<d, e>>] = IF d = c /\ e = a THEN pool.ipc[<<d, e>>] + 1 ELSE pool.ipc[<<d, e>>]
    BY <1>6, <1>10, <1>11
  <2>6. g \in P <=> g \in pool.items[i].p2p \/ g = h BY <1>8
  <2> QED BY <1>4, <2>2, <2>3, <2>4, <2>5, <2>6
<1>14. Consistent(WithP2p(pool, i, P, F), regs, alive) BY <1>1, <1>4, <1>9, <1>12, <1>13, P2pChange
<1>15. pool' = WithP2p(pool, i, P, F)
  BY <1>2, <1>3, <1>5, <1>8, <1>10 DEF P2pUse, WithP2p, P2pHandleOf, IsPool
<1>16. regs' = regs /\ alive' = alive BY DEF P2pUse
<1> QED BY <1>1, <1>14, <1>15, <1>16 DEF IInv

\* The handles of the communicator c are removed from every item, but for the
\* ones in keep.
LEMMA DestroyCommStep ==
  ASSUME IInv, NEW c \in Comm, DestroyComm(c)
  PROVE  IInv'
<1>1. IsRegs(regs) /\ alive \subseteq Comm /\ Consistent(pool, regs, alive) BY DEF IInv
<1>2. /\ IsPool(pool) /\ Indexed(pool) /\ Held(pool, regs) /\ MappingsCounted(pool)
      /\ OfLiveComms(pool, alive)
  BY <1>1 DEF Consistent
<1> DEFINE ids == DOMAIN pool.items
           mine(kind) ==
             UNION {{<<i, h>> : h \in {x \in Handles(i) : x.comm = c /\ x.kind = kind}} : i \in ids}
           users(h, gone) == Cardinality({i \in ids : <<i, h>> \in gone})
           all == mine("p2p") \cup mine("net")
<1>3. PICK keep \in SUBSET all :
         LET gone == all \ keep IN
         /\ pool' = [pool EXCEPT
              !.items = [i \in ids |-> [pool.items[i] EXCEPT
                            !.net = {h \in @ : <<i, h>> \notin gone},
                            !.p2p = {h \in @ : <<i, h>> \notin gone}]],
              !.ipc = [k \in Comm \X Alloc |->
                         pool.ipc[k] - users(P2pHandleOf(k[1], k[2]), gone)]]
         /\ alive' = IF keep = {} THEN alive \ {c} ELSE alive
  BY Zenon DEF DestroyComm
<1> DEFINE gone == all \ keep
<1>4. regs' = regs BY DEF DestroyComm
<1>5. PICK I : I = [i \in ids |-> [pool.items[i] EXCEPT
                      !.net = {h \in pool.items[i].net : <<i, h>> \notin gone},
                      !.p2p = {h \in pool.items[i].p2p : <<i, h>> \notin gone}]]
  OBVIOUS
<1>6. PICK F : F = [k \in Comm \X Alloc |->
                      pool.ipc[k] - users(P2pHandleOf(k[1], k[2]), gone)]
  OBVIOUS
<1>7. /\ pool = [items |-> pool.items, byBegin |-> pool.byBegin, map |-> pool.map, ipc |-> pool.ipc]
      /\ ids \subseteq Ids /\ pool.items \in [ids -> Item]
      /\ pool.ipc \in [Comm \X Alloc -> Int]
  BY <1>2 DEF IsPool
<1>8. PICK t : t = pool' OBVIOUS
<1>9. t = [pool EXCEPT !.items = I, !.ipc = F] BY <1>3, <1>5, <1>6, <1>8, Zenon
<1>10. t = [items |-> I, byBegin |-> pool.byBegin, map |-> pool.map, ipc |-> F] BY <1>7, <1>9
<1>11. t.items = I /\ t.byBegin = pool.byBegin /\ t.map = pool.map /\ t.ipc = F BY <1>10
<1>12. DOMAIN I = ids BY <1>5
<1>13. ASSUME NEW i \in ids
       PROVE  /\ I[i] \in Item /\ I[i].begin = pool.items[i].begin /\ I[i].end = pool.items[i].end
              /\ I[i].refs = pool.items[i].refs
              /\ I[i].net = {h \in pool.items[i].net : <<i, h>> \notin gone}
              /\ I[i].p2p = {h \in pool.items[i].p2p : <<i, h>> \notin gone}
  <2>1. PICK N, P : /\ N = {h \in pool.items[i].net : <<i, h>> \notin gone}
                    /\ P = {h \in pool.items[i].p2p : <<i, h>> \notin gone}
    OBVIOUS
  <2>2. pool.items[i] \in Item /\ N \subseteq pool.items[i].net /\ P \subseteq pool.items[i].p2p
    BY <1>7, <2>1
  <2>3. I[i] = [pool.items[i] EXCEPT !.net = N, !.p2p = P] BY <1>5, <2>1
  <2>4. /\ I[i] \in Item /\ I[i].begin = pool.items[i].begin /\ I[i].end = pool.items[i].end
        /\ I[i].refs = pool.items[i].refs /\ I[i].net = N /\ I[i].p2p = P
    BY <2>2, <2>3 DEF Item
  <2> QED BY <2>1, <2>4
<1>14. IsFiniteSet(ids)
  <2>1. Pages \in Nat /\ MaxRegs \in Nat BY RegPoolAssumption
  <2>2. IsFiniteSet(Ids) BY <2>1, FS_Interval DEF Ids
  <2> QED BY <1>7, <2>2, FS_Subset
<1>15. ASSUME NEW d \in Comm, NEW a \in Alloc
       PROVE  /\ F[<<d, a>>] \in Int
              /\ F[<<d, a>>] = Cardinality(Users(t, d, a))
  <2>1. PICK h : h = P2pHandleOf(d, a) OBVIOUS
  <2>2. h.kind = "p2p" /\ h.comm = d BY <2>1 DEF P2pHandleOf
  <2>3. PICK U, G : U = Users(pool, d, a) /\ G = {i \in ids : <<i, h>> \in gone} OBVIOUS
  <2>4. Users(t, d, a) = U \ G BY <1>11, <1>12, <1>13, <2>1, <2>3 DEF Users
  <2>5. G \subseteq U
    <3> SUFFICES ASSUME NEW i \in ids, <<i, h>> \in gone PROVE h \in pool.items[i].p2p
      BY <2>1, <2>3 DEF Users
    <3>1. h \in Handles(i) BY <1>3
    <3>2. h \notin pool.items[i].net BY <1>7, <2>2 DEF Item, NetHandle
    <3> QED BY <3>1, <3>2 DEF Handles
  <2>6. IsFiniteSet(U) BY <1>14, <2>3, FS_Subset DEF Users
  <2>7. U \cap G = G BY <2>5
  <2>8. Cardinality(U \ G) = Cardinality(U) - Cardinality(G) /\ Cardinality(U) \in Nat
        /\ Cardinality(G) \in Nat
    BY <2>5, <2>6, <2>7, FS_Difference, FS_Subset, FS_CardinalityType
  <2>9. pool.ipc[<<d, a>>] = Cardinality(U) BY <1>2, <2>3 DEF MappingsCounted
  <2>10. F[<<d, a>>] = pool.ipc[<<d, a>>] - Cardinality(G)
    <3>1. users(h, gone) = Cardinality(G) BY <2>3
    <3> HIDE DEF users
    <3> QED BY <1>6, <2>1, <3>1
  <2> QED BY <2>4, <2>8, <2>9, <2>10
<1>16. F \in [Comm \X Alloc -> Int]
  <2>1. ASSUME NEW k \in Comm \X Alloc PROVE F[k] \in Int
    <3>1. k = <<k[1], k[2]>> /\ k[1] \in Comm /\ k[2] \in Alloc OBVIOUS
    <3>2. F[<<k[1], k[2]>>] \in Int BY <1>15, <3>1
    <3> QED BY <3>1, <3>2
  <2> HIDE DEF users
  <2>2. DOMAIN F = Comm \X Alloc /\ F = [k \in Comm \X Alloc |-> F[k]] BY <1>6
  <2> QED BY <2>1, <2>2
<1>17. IsPool(t)
  <2>1. I \in [DOMAIN I -> Item] BY <1>5, <1>12, <1>13
  <2> QED BY <1>2, <1>7, <1>10, <1>11, <1>12, <1>16, <2>1 DEF IsPool
<1>18. HandlesOnly(pool, t) BY <1>11, <1>12, <1>13, <1>17 DEF HandlesOnly
<1>19. Indexed(t) /\ Held(t, regs) BY <1>2, <1>18, HandlesOnlyKeeps
<1>20. MappingsCounted(t) BY <1>11, <1>15 DEF MappingsCounted
<1>21. OfLiveComms(t, alive')
  <2>1. SUFFICES ASSUME NEW i \in ids, NEW h \in I[i].net \cup I[i].p2p
                 PROVE  h.comm \in alive'
    BY <1>11, <1>12 DEF OfLiveComms
  <2>2. <<i, h>> \notin gone /\ h \in pool.items[i].net \cup pool.items[i].p2p BY <1>13
  <2>3. h.comm \in alive BY <1>2, <2>2 DEF OfLiveComms
  <2>4. CASE keep = {}
    <3>1. h.kind \in {"net", "p2p"} BY <1>7, <2>2 DEF Item, NetHandle, P2pHandle
    <3>2. h \in Handles(i) BY <2>2 DEF Handles
    <3>3. h.comm # c
      <4> SUFFICES ASSUME h.comm = c PROVE FALSE OBVIOUS
      <4>1. \E kind \in {"p2p", "net"} : <<i, h>> \in mine(kind) BY <3>1, <3>2
      <4> QED BY <1>3, <2>2, <2>4, <4>1
    <3> QED BY <1>3, <2>3, <2>4, <3>3
  <2>5. CASE keep # {} BY <1>3, <2>3, <2>5
  <2> QED BY <2>4, <2>5
<1>22. alive' \subseteq Comm BY <1>1, <1>3
<1> QED BY <1>1, <1>4, <1>8, <1>17, <1>19, <1>20, <1>21, <1>22 DEF IInv, Consistent

-----------------------------------------------------------------------------
(* The theorems *)

LEMMA InitIInv == Init => IInv
<1> SUFFICES ASSUME Init PROVE IInv OBVIOUS
<1>1. pool = [items   |-> [i \in {} |-> 0],
              byBegin |-> [p \in Page |-> None],
              map     |-> [k \in Key |-> [p \in Page |-> None]],
              ipc     |-> [k \in Comm \X Alloc |-> 0]]
      /\ regs = {} /\ alive = Comm
  BY DEF Init
<1>2. DOMAIN pool.items = {} /\ pool.byBegin = [p \in Page |-> None]
      /\ pool.map = [k \in Key |-> [p \in Page |-> None]]
      /\ pool.ipc = [k \in Comm \X Alloc |-> 0]
      /\ pool = [items |-> pool.items, byBegin |-> pool.byBegin,
                 map |-> pool.map, ipc |-> pool.ipc]
      /\ pool.items = [i \in {} |-> 0]
  BY <1>1
<1>3. IsPool(pool) BY <1>2 DEF IsPool
<1>4. Indexed(pool) BY <1>2 DEF Indexed
<1>5. Held(pool, regs) BY <1>1, <1>2 DEF Held
<1>6. IsRegs(regs) BY <1>1, FS_EmptySet DEF IsRegs
<1>7. MappingsCounted(pool)
  <2>1. \A c \in Comm, a \in Alloc : Users(pool, c, a) = {} BY <1>2 DEF Users
  <2>2. Cardinality({}) = 0 BY FS_EmptySet
  <2> QED BY <1>2, <2>1, <2>2 DEF MappingsCounted
<1>8. OfLiveComms(pool, alive) BY <1>2 DEF OfLiveComms
<1> QED BY <1>1, <1>3, <1>4, <1>5, <1>6, <1>7, <1>8 DEF IInv, Consistent

\* What holds until a registration overlaps two items.
PoolInv == ~bridged => IInv

LEMMA NextPoolInv == PoolInv /\ [Next]_vars => PoolInv'
<1> SUFFICES ASSUME PoolInv, [Next]_vars, ~bridged' PROVE IInv' BY DEF PoolInv
<1>1. IInv
  <2>1. ~bridged
    BY DEF Next, vars, Register, Deregister, NetUse, P2pUse, DestroyComm
  <2> QED BY <2>1 DEF PoolInv
<1>2. CASE \E k \in Key, b \in Buffers : Register(k, b) BY <1>1, <1>2, RegisterStep
<1>3. ASSUME NEW r \in regs, Deregister(r) PROVE IInv' BY <1>1, <1>3, DeregisterStep
<1>4. ASSUME NEW r \in regs, NetUse(r) PROVE IInv' BY <1>1, <1>4, NetUseStep
<1>5. ASSUME NEW r \in regs, P2pUse(r) PROVE IInv' BY <1>1, <1>5, P2pUseStep
<1>6. ASSUME NEW c \in Comm, DestroyComm(c) PROVE IInv' BY <1>1, <1>6, DestroyCommStep
<1>7. CASE UNCHANGED vars BY <1>1, <1>7 DEF vars, IInv
<1> QED BY <1>2, <1>3, <1>4, <1>5, <1>6, <1>7 DEF Next

\* Until a registration overlaps two items, the maps, the keys of the pool, the
\* counts of items and mappings and the registrations of the application agree,
\* whatever is registered, used, deregistered with or without success, and
\* destroyed.
THEOREM PoolInvariant == Spec => []PoolInv
<1>1. Init => PoolInv BY InitIInv DEF PoolInv
<1> QED BY <1>1, NextPoolInv, PTL DEF Spec

\* Until then a registered buffer is found under each of its pages, as the item
\* that registerBuffer returned, and no lookup leads to an item that is gone.
THEOREM BuffersAreFound == Spec => []FoundUntilBridged
<1>1. PoolInv => FoundUntilBridged
  <2> SUFFICES ASSUME IInv PROVE RegisteredIsFound BY DEF PoolInv, FoundUntilBridged
  <2>1. IsRegs(regs) /\ IsPool(pool) /\ Indexed(pool) /\ Held(pool, regs)
    BY DEF IInv, Consistent
  <2>2. ASSUME NEW r \in regs, NEW p \in PagesOf(r.buf)
        PROVE  /\ GetItem(pool, r.comm, p) = r.item
               /\ r.item \in DOMAIN pool.items /\ p \in ItemPages(pool, r.item)
    <3>1. r.item \in DOMAIN pool.items /\ p \in ItemPages(pool, r.item) BY <2>1 DEF Held
    <3>2. r.comm \in Key BY <2>1 DEF IsRegs, Registration
    <3> QED BY <2>1, <3>1, <3>2, GetItemIs
  <2>3. /\ \A k \in Key, p \in Page : pool.map[k][p] # None =>
             pool.map[k][p] \in DOMAIN pool.items /\ p \in ItemPages(pool, pool.map[k][p])
        /\ \A i \in DOMAIN pool.items :
             /\ pool.byBegin[pool.items[i].begin] = i
             /\ \A p \in ItemPages(pool, i) : pool.map[Global][p] = i
    BY <2>1 DEF Indexed
  <2> QED BY <2>2, <2>3 DEF RegisteredIsFound
<1> QED BY <1>1, PoolInvariant, PTL

\* Until then an imported mapping has as many references as items use it, and no
\* handle of a destroyed communicator is left, whichever deregistrations fail.
THEOREM MappingsAreExact == Spec => []CountedUntilBridged
<1>1. PoolInv => CountedUntilBridged
  <2> SUFFICES ASSUME IInv PROVE CountedUntilBridged BY DEF PoolInv, CountedUntilBridged
  <2>1. MappingsCounted(pool) /\ OfLiveComms(pool, alive) BY DEF IInv, Consistent
  <2>2. \A c \in Comm, a \in Alloc :
          pool.ipc[<<c, a>>] =
            Cardinality({i \in DOMAIN pool.items : P2pHandleOf(c, a) \in pool.items[i].p2p})
    BY <2>1 DEF MappingsCounted, Users
  <2>3. \A i \in DOMAIN pool.items : \A h \in Handles(i) : h.comm \in alive
    BY <2>1 DEF OfLiveComms, Handles
  <2> QED BY <2>2, <2>3 DEF CountedUntilBridged
<1> QED BY <1>1, PoolInvariant, PTL

=============================================================================
