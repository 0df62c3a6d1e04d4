------------------------------ MODULE RegPool ------------------------------
(***************************************************************************)
(* The pool of registered buffers (flagcx/core/reg_pool.cc) and its users: *)
(* flagcxCommRegister and flagcxCommDeregister (flagcx.cc), the NET and    *)
(* P2P transports that attach their handles to an item on first use        *)
(* (net.cc, p2p.cc), and the destruction of a communicator (init.cc).      *)
(*                                                                         *)
(* Overlapping registrations share one item: a range of pages, a count and *)
(* handles.  Items are owned by the global pool under the address of their *)
(* first page and are found page by page, through the map of a             *)
(* communicator or else the global map.                                    *)
(*                                                                         *)
(* Addresses are page numbers.  One connector per communicator, one peer.  *)
(* Left out: the handles of the vendor library in an item, which only the  *)
(* communicator that made them uses, and the one-sided registration.       *)
(***************************************************************************)
EXTENDS Integers, FiniteSets, FiniteSetsExt

CONSTANTS
  Comm,         \* communicators
  Global,       \* GLOBAL_POOL_KEY: the null communicator
  Pages,        \* the number of pages
  Buffers,      \* the buffers: <<first page, end>>
  AllocOf(_),   \* the allocation a page belongs to
  MaxRegs,      \* registrations of the application at a time
  MaxFailures   \* failing deregistrations of handles

ASSUME RegPoolAssumption ==
  /\ Global \notin Comm /\ Pages \in Nat
  /\ Buffers \subseteq {b \in (1..Pages) \X (2..Pages + 1) : b[1] < b[2]}
  /\ MaxRegs \in Nat /\ MaxFailures \in Nat

VARIABLES
  pool,     \* the global flagcxRegPool
  regs,     \* the registrations the application holds
  alive,    \* communicators that are not destroyed
  failures,
  bridged   \* history: a registration has overlapped two items

vars == <<pool, regs, alive, failures, bridged>>

Page == 1..Pages
Key == Comm \cup {Global}
Alloc == {AllocOf(p) : p \in Page}
Ids == 1..2 * (Pages + MaxRegs) + 1

\* No item, and no entry in a map.
None == 0

PagesOf(b) == b[1]..b[2] - 1

Init ==
  /\ pool = [items   |-> [i \in {} |-> 0],                     \* the live items
             byBegin |-> [p \in Page |-> None],                \* regPool
             map     |-> [k \in Key |-> [p \in Page |-> None]], \* regMap
             ipc     |-> [k \in Comm \X Alloc |-> 0]]          \* p2pIpcCache: reference counts
  /\ regs = {}
  /\ alive = Comm
  /\ failures = 0
  /\ bridged = FALSE

-----------------------------------------------------------------------------
(* flagcxRegPool *)

\* mapRegItemPages, for the pages ps.
MapPages(s, k, ps, i) ==
  [s EXCEPT !.map[k] = [p \in Page |-> IF p \in ps THEN i ELSE @[p]]]

ItemPages(s, i) == s.items[i].begin..s.items[i].end - 1

\* getItem
GetItem(s, k, p) == IF s.map[k][p] # None THEN s.map[k][p] ELSE s.map[Global][p]

\* The items that pages of the buffer already belong to.
Overlapped(s, b) == {s.map[Global][p] : p \in PagesOf(b)} \ {None}

\* What registerBuffer reads of the item it found exists: after a registration
\* that overlapped two items the map can lead to an item that is freed, and
\* what the program then does is undefined.
Defined(s, b) == Overlapped(s, b) \subseteq DOMAIN s.items

\* An address for a new item; one that is still referred to counts as taken.
NewId(s) ==
  Min(Ids \ (DOMAIN s.items \cup {r.item : r \in regs}
              \cup UNION {{s.map[k][p] : p \in Page} : k \in Key}))

\* The item grows backward: it is mapped and its key in the pool moves.
GrowBackward(s, i, lo) ==
  LET old == s.items[i].begin
      t == MapPages([s EXCEPT !.items[i].begin = lo], Global, lo..old - 1, i)
      node == t.byBegin[old]
  IN
  CASE lo >= old -> [s |-> s, ok |-> TRUE]
    [] lo < old /\ node = None -> [s |-> t, ok |-> FALSE]
    [] lo < old /\ node # None /\ t.byBegin[lo] # None ->
         \* "unexpected duplicate key": the item is destroyed on return
         [s |-> [t EXCEPT !.byBegin[old] = None,
                          !.items = [j \in DOMAIN @ \ {node} |-> @[j]]],
          ok |-> FALSE]
    [] OTHER -> [s |-> [t EXCEPT !.byBegin[old] = None, !.byBegin[lo] = node], ok |-> TRUE]

\* Mutant: an item grows forward in its range and not in the map.
GrowForward_unmapped(s, i, hi) ==
  IF hi <= s.items[i].end THEN s ELSE [s EXCEPT !.items[i].end = hi]

GrowForward(s, i, hi) ==
  LET old == s.items[i].end IN
  IF hi <= old THEN s
               ELSE MapPages([s EXCEPT !.items[i].end = hi], Global, old..hi - 1, i)

\* Every registration of an item counts.
Counted(s, i, b) == [s EXCEPT !.items[i].refs = @ + 1]

\* registerBuffer, a page of the buffer being known.
Extend(s, k, b, i) ==
  LET back == GrowBackward(Counted(s, i, b), i, b[1])
      grown == GrowForward(back.s, i, b[2])
  IN
  CASE ~back.ok -> back
    [] back.ok /\ k = Global -> [s |-> grown, ok |-> TRUE]
    [] OTHER -> [s |-> MapPages(grown, k, ItemPages(grown, i), i), ok |-> TRUE]

\* registerBuffer, no page being known.  The pool keeps an item that it finds
\* under the key, with its count.
Create(s, k, b) ==
  LET fresh == NewId(s)
      item == [begin |-> b[1], end |-> b[2], refs |-> 1, net |-> {}, p2p |-> {}]
      taken == s.byBegin[b[1]] # None
      i == IF taken THEN s.byBegin[b[1]] ELSE fresh
      t == IF taken THEN s
           ELSE [s EXCEPT !.byBegin[b[1]] = i,
                          !.items = [j \in DOMAIN @ \cup {i} |-> IF j = i THEN item ELSE @[j]]]
      global == MapPages(t, Global, ItemPages(t, i), i)
  IN [s |-> MapPages(global, k, ItemPages(t, i), i), ok |-> TRUE]

RegisterBuffer(s, k, b) ==
  IF Overlapped(s, b) = {} THEN Create(s, k, b)
  ELSE LET first == Min({p \in PagesOf(b) : s.map[Global][p] # None})
       IN  Extend(s, k, b, s.map[Global][first])

\* removeRegItemNetHandles and removeRegItemP2pHandles for the communicators
\* cs: the handles in keep survive, since the deregistration of one failed.
RemoveNet(s, cs, i, keep) ==
  [s EXCEPT !.items[i].net = {h \in @ : h.comm \notin cs \/ h \in keep}]

\* Mutant: the first user to leave takes the mapping with it.
Release_all(n) == 0

\* The mapping is closed with its last user.
Release(n) == n - 1

RemoveP2p(s, cs, i, keep) ==
  LET gone == {h \in s.items[i].p2p : h.comm \in cs /\ h \notin keep} IN
  [s EXCEPT !.items[i].p2p = @ \ gone,
            !.ipc = [k \in Comm \X Alloc |->
              IF \E h \in gone : k = <<h.comm, h.alloc>> THEN Release(@[k]) ELSE @[k]]]

\* The item leaves all maps and the pool.
Destroy(s, i) ==
  [s EXCEPT
     !.map = [k \in Key |-> [p \in Page |->
        IF p \in ItemPages(s, i) /\ @[k][p] = i THEN None ELSE @[k][p]]],
     !.byBegin[s.items[i].begin] = None,
     !.items = [j \in DOMAIN @ \ {i} |-> @[j]]]

LastReference(s, i) == s.items[i].refs <= 0

\* One registration less, and the pages of the item leave the map of k.
Uncounted(s, i) == [s EXCEPT !.items[i].refs = @ - 1]

Unmapped(s, k, i) == IF k = Global THEN s ELSE MapPages(s, k, ItemPages(s, i), None)

DeregisterBuffer(s, k, i, keep) ==
  LET t == Unmapped(Uncounted(s, i), k, i)
      net == RemoveNet(t, Comm, i, keep)
      p2p == RemoveP2p(net, Comm, i, keep)
  IN
  CASE s.byBegin[s.items[i].begin] # i -> s
    [] s.byBegin[s.items[i].begin] = i /\ ~LastReference(t, i) -> t
    [] OTHER -> IF net.items[i].net # {} THEN net
                ELSE IF p2p.items[i].p2p # {} THEN p2p
                ELSE Destroy(p2p, i)

-----------------------------------------------------------------------------
(* The application *)

\* flagcxCommRegister
Register(k, b) ==
  LET r == RegisterBuffer(pool, k, b)
      i == GetItem(r.s, k, b[1])
  IN
  /\ k = Global \/ k \in alive
  /\ Cardinality(regs) < MaxRegs
  /\ Defined(pool, b)
  /\ pool' = r.s
  /\ regs' = IF r.ok /\ i # None
               THEN regs \cup {[n |-> Min(1..MaxRegs \ {q.n : q \in regs}), comm |-> k,
                                buf |-> b, item |-> i]}
               ELSE regs
  /\ bridged' = (bridged \/ Cardinality(Overlapped(pool, b)) > 1)
  /\ UNCHANGED <<alive, failures>>

\* Handles that survive because the deregistration of one of them failed: a
\* P2P mapping is closed only with its last user.
Surviving(handles) ==
  {{}} \cup
  IF failures = MaxFailures THEN {}
  ELSE {keep \in SUBSET handles :
          \E h \in keep : h.kind = "net" \/ pool.ipc[<<h.comm, h.alloc>>] = 1}

\* The mapping of an allocation for the peer of a communicator.
P2pHandleOf(c, a) == [kind |-> "p2p", comm |-> c, alloc |-> a]

Handles(i) == pool.items[i].net \cup pool.items[i].p2p

\* flagcxCommDeregister; the results of the pool are not looked at.
Deregister(r) ==
  LET i == r.item
      cs == {r.comm}
  IN
  /\ i \in DOMAIN pool.items
  /\ \/ \* a null communicator, and nothing of the item belongs to another one
        /\ r.comm = Global
        /\ Handles(i) = {}
        /\ \A c \in Comm : pool.map[c][pool.items[i].begin] = None
        /\ pool' = DeregisterBuffer(pool, Global, i, {})
        /\ UNCHANGED failures
     \/ /\ r.comm \in alive
        /\ \E keep \in Surviving(Handles(i)) :
             /\ pool' = DeregisterBuffer(RemoveP2p(RemoveNet(pool, cs, i, keep), cs, i, keep),
                                         r.comm, i, keep)
             /\ failures' = IF keep = {} THEN failures ELSE failures + 1
  /\ regs' = regs \ {r}
  /\ UNCHANGED <<alive, bridged>>

\* flagcxNetRegisterBuffer for a transfer of the buffer: the handle the
\* connector already has is used again, or one for the whole item is made.
NetUse(r) ==
  LET i == GetItem(pool, r.comm, r.buf[1]) IN
  /\ r.comm \in alive
  /\ i \in DOMAIN pool.items /\ pool.items[i].refs > 0
  /\ \A h \in pool.items[i].net : h.comm # r.comm
  /\ pool' = [pool EXCEPT !.items[i].net = @ \cup
                {[kind |-> "net", comm |-> r.comm,
                  begin |-> pool.items[i].begin, end |-> pool.items[i].end]}]
  /\ UNCHANGED <<regs, alive, failures, bridged>>

\* flagcxP2pRegisterBuffer: the mapping of the allocation, in the cache or new,
\* gets the item as a user.
P2pUse(r) ==
  LET i == GetItem(pool, r.comm, r.buf[1])
      a == AllocOf(r.buf[1])
      h == P2pHandleOf(r.comm, a)
  IN
  /\ r.comm \in alive
  /\ i \in DOMAIN pool.items /\ PagesOf(r.buf) \subseteq ItemPages(pool, i)
  /\ \A p \in PagesOf(r.buf) : AllocOf(p) = a
  /\ h \notin pool.items[i].p2p
  /\ pool' = [pool EXCEPT !.items[i].p2p = @ \cup {h}, !.ipc[<<r.comm, a>>] = @ + 1]
  /\ UNCHANGED <<regs, alive, failures, bridged>>

\* flagcxHeteroCommDestroy: the P2P handles of the communicator are removed from
\* every item and then its NET handles, each P2P handle taking one reference from
\* its mapping; when the deregistration of one fails the call fails, what was not
\* reached is kept, and the call may be repeated.
DestroyComm(c) ==
  LET ids == DOMAIN pool.items
      mine(kind) == UNION {{<<i, h>> : h \in {x \in Handles(i) : x.comm = c /\ x.kind = kind}}
                             : i \in ids}
      users(h, gone) == Cardinality({i \in ids : <<i, h>> \in gone})
  IN
  /\ c \in alive
  /\ \E keep \in SUBSET (mine("p2p") \cup mine("net")) :
       LET gone == (mine("p2p") \cup mine("net")) \ keep IN
       /\ \/ keep = {} /\ UNCHANGED failures
          \/ /\ keep # {} /\ failures < MaxFailures /\ failures' = failures + 1
             /\ \/ keep \subseteq mine("net")
                \/ /\ mine("net") \subseteq keep
                   /\ \E x \in keep \cap mine("p2p") :
                        pool.ipc[<<c, x[2].alloc>>] - users(x[2], gone) = 1
       /\ pool' = [pool EXCEPT
            !.items = [i \in ids |-> [pool.items[i] EXCEPT
                                        !.net = {h \in @ : <<i, h>> \notin gone},
                                        !.p2p = {h \in @ : <<i, h>> \notin gone}]],
            !.ipc = [k \in Comm \X Alloc |->
                       pool.ipc[k] - users(P2pHandleOf(k[1], k[2]), gone)]]
       /\ alive' = IF keep = {} THEN alive \ {c} ELSE alive
  /\ UNCHANGED <<regs, bridged>>

Next ==
  \/ \E k \in Key, b \in Buffers : Register(k, b)
  \/ \E r \in regs : Deregister(r) \/ NetUse(r) \/ P2pUse(r)
  \/ \E c \in Comm : DestroyComm(c)

Spec == Init /\ [][Next]_vars

-----------------------------------------------------------------------------
(* Properties *)

\* A buffer that is registered is found under every page, as the item its
\* registration returned, and the item covers it, whoever registered and
\* deregistered in between; and no lookup, through either map, leads to an item
\* that is gone or does not cover the page.  The code does not keep this: a
\* registration that overlaps two items takes the pages of the second one and
\* leaves that item in the pool.
RegisteredIsFound ==
  /\ \A r \in regs : \A p \in PagesOf(r.buf) :
       /\ GetItem(pool, r.comm, p) = r.item
       /\ r.item \in DOMAIN pool.items /\ p \in ItemPages(pool, r.item)
  /\ \A k \in Key, p \in Page : pool.map[k][p] # None =>
       pool.map[k][p] \in DOMAIN pool.items /\ p \in ItemPages(pool, pool.map[k][p])
  /\ \A i \in DOMAIN pool.items :
       /\ pool.byBegin[pool.items[i].begin] = i
       /\ \A p \in ItemPages(pool, i) : pool.map[Global][p] = i

\* Until a registration overlaps two items, every registered buffer is found
\* and nothing that is gone is, however else buffers overlap: by growing an item
\* backward, forward or both, over any sequence of registrations,
\* deregistrations and failing clean-ups of handles.
FoundUntilBridged == ~bridged => RegisteredIsFound

\* Until a registration overlaps two items, an imported mapping is open as long
\* as an item uses it and no longer, and nothing is left of a communicator that
\* was destroyed.  After it an item may be destroyed with its handles
\* (registerBuffer's "unexpected duplicate key").
CountedUntilBridged == ~bridged =>
  /\ \A c \in Comm, a \in Alloc :
       pool.ipc[<<c, a>>] =
         Cardinality({i \in DOMAIN pool.items : P2pHandleOf(c, a) \in pool.items[i].p2p})
  /\ \A i \in DOMAIN pool.items : \A h \in Handles(i) : h.comm \in alive

=============================================================================
