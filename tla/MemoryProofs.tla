---------------------------- MODULE MemoryProofs ----------------------------
(***************************************************************************)
(* Every mapped page of the guest has a page of the WebAssembly memory of  *)
(* its own, and neighbors stay neighbors, whatever is mapped, moved, and   *)
(* released.  First what the operations on the maps of slots do to them:   *)
(* how they are cut, merged, allocated and released, whatever their number *)
(* and sizes; then what the calls make of them.                            *)
(***************************************************************************)
EXTENDS Memory, Induction

-----------------------------------------------------------------------------
(* Maps of slots, virtual or physical. *)

\* slots which are not empty and do not overlap
Ordered(m) ==
    /\ \A k \in DOMAIN m : k \in Nat /\ m[k].size \in Nat /\ m[k].size > 0
    /\ \A j, k \in DOMAIN m : j < k => EndOf(m, j) <= k

\* An element of a set that no other exceeds is its maximum.
LEMMA MaxIs ==
    ASSUME NEW S \in SUBSET Int, NEW x \in S, \A y \in S : y <= x
    PROVE  Max(S) = x
<1>1. \A z \in S : (\A y \in S : z >= y) <=> z = x
  OBVIOUS
<1> QED
  BY <1>1, Zenon DEF Max

\* An element of a set that exceeds no other is its minimum.
LEMMA MinIs ==
    ASSUME NEW S \in SUBSET Int, NEW x \in S, \A y \in S : x <= y
    PROVE  Min(S) = x
<1>1. \A z \in S : (\A y \in S : z <= y) <=> z = x
  OBVIOUS
<1> QED
  BY <1>1, Zenon DEF Min

\* Slots in order do not overlap, so at most one holds an address.
LEMMA OneSlot ==
    ASSUME NEW m, Ordered(m), NEW j \in DOMAIN m, NEW k \in DOMAIN m, NEW a \in Int,
           j <= a, a < EndOf(m, j), k <= a, a < EndOf(m, k)
    PROVE  j = k
BY DEF Ordered, EndOf

\* The slot around an address is the one SlotAt finds.
LEMMA SlotAtIs ==
    ASSUME NEW m, Ordered(m), NEW k \in DOMAIN m, NEW a \in Int, k <= a, a < EndOf(m, k)
    PROVE  Holds(m, a) /\ SlotAt(m, a) = k
<1>1. k \in Holding(m, a)
  BY DEF Holding
<1>2. \A j \in Holding(m, a) : j = k
  BY OneSlot DEF Holding
<1> QED
  BY <1>1, <1>2 DEF Holds, SlotAt

\* SlotAt finds a slot around every address that is held.
LEMMA HoldsSlot ==
    ASSUME NEW m, NEW a, Holds(m, a)
    PROVE  SlotAt(m, a) \in DOMAIN m /\ SlotAt(m, a) <= a /\ a < EndOf(m, SlotAt(m, a))
BY DEF Holds, SlotAt, Holding

\* of two slots next to each other, each is the neighbor of the other
LEMMA NeighborsAre ==
    ASSUME NEW m, Ordered(m), NEW j \in DOMAIN m, NEW k \in DOMAIN m, EndOf(m, j) = k
    PROVE  /\ After(m, j) # {} /\ NextOf(m, j) = k
           /\ Before(m, k) # {} /\ PrevOf(m, k) = j
<1>1. j < k /\ j \in Int /\ k \in Int
  BY DEF Ordered, EndOf
<1>2. k \in After(m, j) /\ \A i \in After(m, j) : k <= i
  BY <1>1 DEF Ordered, EndOf, After
<1>3. j \in Before(m, k) /\ \A i \in Before(m, k) : i <= j
  BY <1>1 DEF Ordered, EndOf, Before
<1>4. After(m, j) \in SUBSET Int /\ Before(m, k) \in SUBSET Int
  BY DEF After, Before, Ordered
<1> QED
  BY <1>2, <1>3, <1>4, MaxIs, MinIs DEF NextOf, PrevOf

-----------------------------------------------------------------------------
(* The physical slots. *)

\* they cover everything from zero to e
TiledTo(ph, e) ==
    /\ e \in Nat /\ 0 \in DOMAIN ph
    /\ \A k \in DOMAIN ph :
        /\ k \in Nat /\ k < e
        /\ ph[k] \in [size : Nat \ {0}, users : {0, 1}]
        /\ EndOf(ph, k) = e \/ EndOf(ph, k) \in DOMAIN ph
    /\ \A j, k \in DOMAIN ph : j < k => EndOf(ph, j) <= k

\* a range lies in one slot with so many users
LiesIn(ph, from, to, users) ==
    \E j \in DOMAIN ph : ph[j].users = users /\ j <= from /\ to <= EndOf(ph, j)

\* Physical slots that tile the memory are in order.
LEMMA TiledOrdered ==
    ASSUME NEW ph, NEW e, TiledTo(ph, e)
    PROVE  Ordered(ph)
BY DEF TiledTo, Ordered

\* Slots that tile the memory hold each of its pages.
LEMMA TiledHolds ==
    ASSUME NEW ph, NEW e, TiledTo(ph, e), NEW a \in Nat, a < e
    PROVE  \E k \in DOMAIN ph : k <= a /\ a < EndOf(ph, k)
<1> DEFINE T == {k \in DOMAIN ph : k <= a}
<1>1. T \in SUBSET Nat /\ T # {} /\ \A k \in T : k <= a
  BY DEF TiledTo
<1>2. PICK k \in T : \A j \in T : j <= k
  <2> HIDE DEF T
  <2> QED
    BY <1>1, GreatestNumber
<1>3. a < EndOf(ph, k)
  <2>1. k \in DOMAIN ph /\ k \in Nat /\ EndOf(ph, k) \in Nat /\ EndOf(ph, k) > k
    BY DEF TiledTo, EndOf
  <2>2. EndOf(ph, k) = e \/ EndOf(ph, k) \in DOMAIN ph
    BY DEF TiledTo
  <2>3. EndOf(ph, k) \notin T
    BY <1>2, <2>1
  <2> QED
    BY <2>1, <2>2, <2>3
<1> QED
  BY <1>3

\* the slot with the highest address ends where all of them do
LEMMA LastIs ==
    ASSUME NEW ph, NEW e, TiledTo(ph, e)
    PROVE  /\ LastOf(ph) \in DOMAIN ph /\ EndOf(ph, LastOf(ph)) = e
           /\ \A k \in DOMAIN ph : k <= LastOf(ph)
<1>1. DOMAIN ph \in SUBSET Nat /\ DOMAIN ph # {} /\ (\A k \in DOMAIN ph : k <= e) /\ e \in Nat
  BY DEF TiledTo
<1>2. PICK k \in DOMAIN ph : \A j \in DOMAIN ph : j <= k
  BY <1>1, GreatestNumber
<1>3. LastOf(ph) = k
  BY <1>1, <1>2, MaxIs DEF LastOf
<1>4. EndOf(ph, k) \notin DOMAIN ph
  BY <1>1, <1>2 DEF TiledTo, EndOf
<1> QED
  BY <1>2, <1>3, <1>4 DEF TiledTo

\* The next physical slot is the one at the end of this one, unless this is the last.
LEMMA NextIs ==
    ASSUME NEW ph, NEW e, TiledTo(ph, e), NEW k \in DOMAIN ph
    PROVE  /\ EndOf(ph, k) # e => After(ph, k) # {} /\ NextOf(ph, k) = EndOf(ph, k)
                                  /\ EndOf(ph, k) \in DOMAIN ph
           /\ EndOf(ph, k) = e => After(ph, k) = {} /\ EndOf(ph, k) \notin DOMAIN ph
           /\ EndOf(ph, k) \in Nat /\ k < EndOf(ph, k) /\ EndOf(ph, k) <= e
<1>1. EndOf(ph, k) \in Nat /\ k < EndOf(ph, k) /\ EndOf(ph, k) <= e
  BY DEF TiledTo, EndOf
<1>2. EndOf(ph, k) = e => After(ph, k) = {} /\ EndOf(ph, k) \notin DOMAIN ph
  BY <1>1 DEF TiledTo, After
<1>3. EndOf(ph, k) # e => EndOf(ph, k) \in DOMAIN ph
  BY DEF TiledTo
<1> QED
  BY <1>1, <1>2, <1>3, TiledOrdered, NeighborsAre

\* The previous physical slot ends where this one starts, unless this is the first.
LEMMA PrevIs ==
    ASSUME NEW ph, NEW e, TiledTo(ph, e), NEW k \in DOMAIN ph
    PROVE  /\ k # 0 => /\ Before(ph, k) # {} /\ PrevOf(ph, k) \in DOMAIN ph
                       /\ EndOf(ph, PrevOf(ph, k)) = k
           /\ k = 0 => Before(ph, k) = {}
<1>1. CASE k = 0
  BY <1>1 DEF TiledTo, Before
<1>2. CASE k # 0
  <2>1. k - 1 \in Nat /\ k - 1 < e
    BY <1>2 DEF TiledTo
  <2>2. PICK j \in DOMAIN ph : j <= k - 1 /\ k - 1 < EndOf(ph, j)
    BY <2>1, TiledHolds
  <2>3. EndOf(ph, j) = k
    BY <2>1, <2>2 DEF TiledTo, EndOf
  <2> QED
    BY <1>2, <2>3, TiledOrdered, NeighborsAre
<1> QED
  BY <1>1, <1>2

-----------------------------------------------------------------------------
(* Cutting and joining them. *)

\* a slot and the one after it as one
Join(ph, k, m) == Erase(Resize(ph, k, ph[k].size + ph[m].size), m)

\* A slot is split in two at an address inside of it.
LEMMA SplitAt ==
    ASSUME NEW ph, NEW e, TiledTo(ph, e), NEW k \in DOMAIN ph, NEW a \in Nat,
           k < a, a < EndOf(ph, k)
    PROVE  /\ TiledTo(PhysSplit(ph, k, a), e)
           /\ \A j : j \in DOMAIN PhysSplit(ph, k, a) <=> j \in DOMAIN ph \/ j = a
           /\ a \notin DOMAIN ph
           /\ \A j \in DOMAIN ph : j # k => PhysSplit(ph, k, a)[j] = ph[j]
           /\ EndOf(PhysSplit(ph, k, a), k) = a /\ PhysSplit(ph, k, a)[k].users = ph[k].users
           /\ EndOf(PhysSplit(ph, k, a), a) = EndOf(ph, k)
           /\ PhysSplit(ph, k, a)[a].users = ph[k].users
<1>0. PICK R : R = PhysSplit(ph, k, a)
  OBVIOUS
<1> USE <1>0
<1>1. k \in Nat /\ k # a /\ ph[k] \in [size : Nat \ {0}, users : {0, 1}] /\ EndOf(ph, k) \in Nat
  BY DEF TiledTo, EndOf
<1>2. a \notin DOMAIN ph
  BY <1>1 DEF TiledTo, EndOf
<1>3. DOMAIN R = DOMAIN ph \union {a}
  BY DEF PhysSplit, Put, Resize
<1>4. \A j \in DOMAIN ph \ {k} : R[j] = ph[j]
  BY <1>2 DEF PhysSplit, Put, Resize
<1>5. R[k] = [size |-> a - k, users |-> ph[k].users]
  BY <1>1 DEF PhysSplit, Put, Resize
<1>6. R[a] = [size |-> EndOf(ph, k) - a, users |-> ph[k].users]
  BY DEF PhysSplit, Put, Resize
<1>7. EndOf(R, k) = a /\ EndOf(R, a) = EndOf(ph, k) /\ \A j \in DOMAIN ph \ {k} : EndOf(R, j) = EndOf(ph, j)
  BY <1>1, <1>4, <1>5, <1>6 DEF EndOf
<1>8. R[k] \in [size : Nat \ {0}, users : {0, 1}] /\ R[a] \in [size : Nat \ {0}, users : {0, 1}]
  BY <1>1, <1>5, <1>6
<1>9. a < e
  BY <1>1, NextIs DEF TiledTo
<1>10. ASSUME NEW j \in DOMAIN R
       PROVE  /\ j \in Nat /\ j < e
              /\ R[j] \in [size : Nat \ {0}, users : {0, 1}]
              /\ EndOf(R, j) = e \/ EndOf(R, j) \in DOMAIN R
  BY <1>3, <1>4, <1>7, <1>8, <1>9 DEF TiledTo
<1>11. ASSUME NEW i \in DOMAIN R, NEW j \in DOMAIN R, i < j
       PROVE  EndOf(R, i) <= j
  <2>1. \A x, y \in DOMAIN ph : x < y => EndOf(ph, x) <= y
    BY DEF TiledTo
  <2>2. \A x \in DOMAIN ph : x \in Nat /\ EndOf(ph, x) \in Nat
    BY DEF TiledTo, EndOf
  <2> QED
    BY <1>1, <1>3, <1>7, <1>11, <2>1, <2>2
<1>12. TiledTo(R, e)
  BY <1>3, <1>10, <1>11 DEF TiledTo
<1> QED
  BY <1>2, <1>3, <1>4, <1>5, <1>6, <1>7, <1>12

\* Two slots next to each other, with as many users, become one.
LEMMA JoinAt ==
    ASSUME NEW ph, NEW e, TiledTo(ph, e), NEW k \in DOMAIN ph, NEW m \in DOMAIN ph,
           EndOf(ph, k) = m
    PROVE  /\ TiledTo(Join(ph, k, m), e)
           /\ \A j : j \in DOMAIN Join(ph, k, m) <=> j \in DOMAIN ph /\ j # m
           /\ \A j \in DOMAIN ph : j # m /\ j # k => Join(ph, k, m)[j] = ph[j]
           /\ EndOf(Join(ph, k, m), k) = EndOf(ph, m) /\ Join(ph, k, m)[k].users = ph[k].users
           /\ k # m
<1>0. PICK R : R = Join(ph, k, m)
  OBVIOUS
<1> USE <1>0
<1>1. /\ k \in Nat /\ k < m /\ m \in Nat
      /\ ph[k] \in [size : Nat \ {0}, users : {0, 1}] /\ ph[m] \in [size : Nat \ {0}, users : {0, 1}]
  BY DEF TiledTo, EndOf
<1>2. DOMAIN R = DOMAIN ph \ {m}
  BY DEF Join, Erase, Resize, Restrict
<1>3. \A j \in DOMAIN R \ {k} : R[j] = ph[j]
  BY <1>2 DEF Join, Erase, Resize, Restrict
<1>4. R[k] = [size |-> ph[k].size + ph[m].size, users |-> ph[k].users]
  BY <1>1 DEF Join, Erase, Resize, Restrict
<1>5. EndOf(R, k) = EndOf(ph, m) /\ \A j \in DOMAIN R \ {k} : EndOf(R, j) = EndOf(ph, j)
  BY <1>1, <1>3, <1>4 DEF EndOf
<1>6. R[k] \in [size : Nat \ {0}, users : {0, 1}]
  BY <1>1, <1>4
<1>7. \A x, y \in DOMAIN ph : x < y => EndOf(ph, x) <= y
  BY DEF TiledTo
<1>8. \A x \in DOMAIN ph : x \in Nat /\ EndOf(ph, x) \in Nat /\ x < EndOf(ph, x)
  BY DEF TiledTo, EndOf
<1>9. ASSUME NEW j \in DOMAIN R
       PROVE  /\ j \in Nat /\ j < e
              /\ R[j] \in [size : Nat \ {0}, users : {0, 1}]
              /\ EndOf(R, j) = e \/ EndOf(R, j) \in DOMAIN R
  <2>1. j \in Nat /\ j < e /\ R[j] \in [size : Nat \ {0}, users : {0, 1}]
    BY <1>2, <1>3, <1>6 DEF TiledTo
  <2>2. CASE j = k
    <3>1. EndOf(ph, m) # m /\ (EndOf(ph, m) = e \/ EndOf(ph, m) \in DOMAIN ph)
      BY <1>8 DEF TiledTo
    <3> QED
      BY <1>2, <1>5, <2>1, <2>2, <3>1
  <2>3. CASE j # k
    <3>1. EndOf(ph, j) # m
      BY <1>2, <1>7, <1>8, <2>3
    <3>2. EndOf(R, j) = EndOf(ph, j) /\ (EndOf(ph, j) = e \/ EndOf(ph, j) \in DOMAIN ph)
      BY <1>2, <1>5, <2>3 DEF TiledTo
    <3> QED
      BY <1>2, <2>1, <3>1, <3>2
  <2> QED
    BY <2>2, <2>3
<1>10. ASSUME NEW i \in DOMAIN R, NEW j \in DOMAIN R, i < j
       PROVE  EndOf(R, i) <= j
  <2>1. CASE i = k
    <3>1. m < j
      BY <1>2, <1>7, <1>10, <2>1, <1>8
    <3> QED
      BY <1>2, <1>5, <1>7, <2>1, <3>1
  <2>2. CASE i # k
    BY <1>2, <1>5, <1>7, <1>10, <2>2
  <2> QED
    BY <2>1, <2>2
<1>11. TiledTo(R, e)
  BY <1>1, <1>2, <1>9, <1>10 DEF TiledTo
<1> QED
  BY <1>1, <1>2, <1>3, <1>4, <1>5, <1>11

\* If every slot lies in one of the other map, every range that lies in a slot does.
LEMMA LiesInTrans ==
    ASSUME NEW ph, NEW R, NEW e, TiledTo(ph, e), TiledTo(R, e),
           NEW from \in Int, NEW to \in Int, NEW j \in DOMAIN ph, NEW u,
           j <= from, to <= EndOf(ph, j), LiesIn(R, j, EndOf(ph, j), u)
    PROVE  LiesIn(R, from, to, u)
<1>1. PICK i \in DOMAIN R : R[i].users = u /\ i <= j /\ EndOf(ph, j) <= EndOf(R, i)
  BY DEF LiesIn
<1>2. i \in Int /\ j \in Int /\ EndOf(ph, j) \in Int /\ EndOf(R, i) \in Int
  BY DEF TiledTo, EndOf
<1>3. i <= from /\ to <= EndOf(R, i)
  BY <1>1, <1>2
<1> QED
  BY <1>1, <1>3 DEF LiesIn

\* A range that begins and ends where slots do, and lies in one, is a slot.
LEMMA Exactly ==
    ASSUME NEW ph, NEW e, TiledTo(ph, e), NEW from \in DOMAIN ph, NEW to \in Nat, NEW u,
           LiesIn(ph, from, to, u), from < to, to = e \/ to \in DOMAIN ph
    PROVE  EndOf(ph, from) = to /\ ph[from].size = to - from /\ ph[from].users = u
<1>1. PICK j \in DOMAIN ph : ph[j].users = u /\ j <= from /\ to <= EndOf(ph, j)
  BY DEF LiesIn
<1>2. /\ j \in Nat /\ from \in Nat /\ EndOf(ph, j) \in Nat
      /\ ph[from] \in [size : Nat \ {0}, users : {0, 1}]
  BY DEF TiledTo, EndOf
<1>3. j = from
  BY <1>1, <1>2, OneSlot, TiledOrdered DEF EndOf
<1>4. EndOf(ph, from) <= to
  BY <1>1, <1>2, <1>3 DEF TiledTo, EndOf
<1>5. EndOf(ph, from) = to
  BY <1>1, <1>2, <1>3, <1>4
<1>6. ph[from].size = to - from
  BY <1>2, <1>5 DEF EndOf
<1> QED
  BY <1>1, <1>2, <1>3, <1>5, <1>6

\* A cut changes nothing but the boundaries.
LEMMA CutAt ==
    ASSUME NEW ph, NEW e, TiledTo(ph, e), NEW a \in Nat, a <= e
    PROVE  /\ TiledTo(PhysCut(ph, a), e)
           /\ \A j : j \in DOMAIN PhysCut(ph, a) <=> j \in DOMAIN ph \/ (j = a /\ a # e)
           /\ \A j \in DOMAIN ph : a <= j \/ EndOf(ph, j) <= a => PhysCut(ph, a)[j] = ph[j]
           /\ \A f, t \in Int : \A u : /\ LiesIn(ph, f, t, u) /\ f < t
                                       /\ a <= f \/ t <= a
                                       => LiesIn(PhysCut(ph, a), f, t, u)
<1>0. PICK R : R = PhysCut(ph, a)
  OBVIOUS
<1> USE <1>0
<1>1. CASE a \in DOMAIN ph \/ ~Holds(ph, a)
  <2>1. R = ph
    BY <1>1 DEF PhysCut
  <2>2. a \in DOMAIN ph \/ a = e
    BY <1>1, TiledHolds, SlotAtIs, TiledOrdered DEF TiledTo
  <2>3. e \notin DOMAIN ph
    BY DEF TiledTo
  <2> QED
    BY <2>1, <2>2, <2>3
<1>2. CASE a \notin DOMAIN ph /\ Holds(ph, a)
  <2> DEFINE k == SlotAt(ph, a)
  <2>1. k \in DOMAIN ph /\ k <= a /\ a < EndOf(ph, k) /\ R = PhysSplit(ph, k, a)
    BY <1>2, HoldsSlot DEF PhysCut
  <2>2. k \in Nat /\ k < a
    BY <1>2, <2>1 DEF TiledTo
  <2>3. /\ TiledTo(R, e)
        /\ \A j : j \in DOMAIN R <=> j \in DOMAIN ph \/ j = a
        /\ a \notin DOMAIN ph
        /\ \A j \in DOMAIN ph : j # k => R[j] = ph[j]
        /\ EndOf(R, k) = a /\ R[k].users = ph[k].users
        /\ EndOf(R, a) = EndOf(ph, k) /\ R[a].users = ph[k].users
    <3> HIDE DEF k
    <3> QED
      BY <2>1, <2>2, SplitAt
  <2>4. a # e
    BY <2>3 DEF TiledTo
  <2>5. EndOf(ph, k) \in Nat
    BY <2>1, NextIs
  <2>6. ASSUME NEW f \in Int, NEW t \in Int, NEW u, LiesIn(ph, f, t, u), f < t, a <= f \/ t <= a
        PROVE  LiesIn(R, f, t, u)
    <3>1. PICK j \in DOMAIN ph : ph[j].users = u /\ j <= f /\ t <= EndOf(ph, j)
      BY <2>6 DEF LiesIn
    <3>2. CASE j # k
      <4>1. R[j] = ph[j] /\ j \in DOMAIN R
        BY <2>3, <3>2
      <4> QED
        BY <3>1, <4>1 DEF LiesIn, EndOf
    <3>3. CASE j = k /\ a <= f
      BY <2>3, <2>5, <3>1, <3>3 DEF LiesIn
    <3>4. CASE j = k /\ t <= a
      BY <2>3, <2>5, <3>1, <3>4, <2>1 DEF LiesIn
    <3> QED
      BY <2>6, <3>2, <3>3, <3>4
  <2>7. \A j \in DOMAIN ph : a <= j \/ EndOf(ph, j) <= a => j # k
    BY <2>1, <2>2, <2>5
  <2> QED
    BY <2>3, <2>4, <2>6, <2>7
<1> QED
  BY <1>1, <1>2

\* Joining slots with as many users keeps what lies in a slot.
LEMMA JoinKeeps ==
    ASSUME NEW ph, NEW e, TiledTo(ph, e), NEW k \in DOMAIN ph, NEW m \in DOMAIN ph,
           EndOf(ph, k) = m, ph[k].users = ph[m].users
    PROVE  \A j \in DOMAIN ph : LiesIn(Join(ph, k, m), j, EndOf(ph, j), ph[j].users)
<1>0. PICK R : R = Join(ph, k, m)
  OBVIOUS
<1> USE <1>0
<1>1. /\ TiledTo(R, e)
      /\ \A j : j \in DOMAIN R <=> j \in DOMAIN ph /\ j # m
      /\ \A j \in DOMAIN ph : j # m /\ j # k => R[j] = ph[j]
      /\ EndOf(R, k) = EndOf(ph, m) /\ R[k].users = ph[k].users
      /\ k # m
  BY JoinAt
<1>2. k \in Nat /\ m \in Nat /\ k < m /\ EndOf(ph, m) \in Nat /\ m < EndOf(ph, m)
  BY DEF TiledTo, EndOf
<1>3. k \in DOMAIN R /\ R[k].users = ph[k].users
  BY <1>1
<1> TAKE j \in DOMAIN ph
<1>4. CASE j \in {k, m}
  BY <1>1, <1>2, <1>3, <1>4 DEF LiesIn
<1>5. CASE j \notin {k, m}
  <2>1. j \in DOMAIN R /\ R[j] = ph[j] /\ EndOf(R, j) = EndOf(ph, j) /\ j \in Nat /\ EndOf(ph, j) \in Nat
    BY <1>1, <1>5 DEF EndOf, TiledTo
  <2> QED
    BY <2>1 DEF LiesIn
<1> QED
  BY <1>4, <1>5

\* A slot is merged with both its neighbors, where they have as many users.
LEMMA MergeAt ==
    ASSUME NEW ph, NEW e, TiledTo(ph, e), NEW k \in DOMAIN ph
    PROVE  /\ TiledTo(PhysMerge(ph, k), e)
           /\ DOMAIN PhysMerge(ph, k) \subseteq DOMAIN ph
           /\ \A j \in DOMAIN ph : LiesIn(PhysMerge(ph, k), j, EndOf(ph, j), ph[j].users)
           /\ \A j \in DOMAIN ph : ph[j].users # ph[k].users => j \in DOMAIN PhysMerge(ph, k) /\ PhysMerge(ph, k)[j] = ph[j]
           /\ \A j \in DOMAIN ph : j # k /\ j # EndOf(ph, k) => j \in DOMAIN PhysMerge(ph, k)
           /\ \A j \in DOMAIN ph : EndOf(ph, j) = k /\ ph[j].users = ph[k].users => k \notin DOMAIN PhysMerge(ph, k)
           /\ EndOf(ph, k) \in DOMAIN ph /\ ph[EndOf(ph, k)].users = ph[k].users
                => EndOf(ph, k) \notin DOMAIN PhysMerge(ph, k)
<1>0. PICK R : R = PhysMerge(ph, k)
  OBVIOUS
<1> USE <1>0
<1> DEFINE m == EndOf(ph, k)
           joins == m \in DOMAIN ph /\ ph[m].users = ph[k].users
           up == IF joins THEN Join(ph, k, m) ELSE ph
           p == PrevOf(up, k)
           joined == k # 0 /\ up[p].users = up[k].users
<1>1. (After(ph, k) # {} /\ ph[NextOf(ph, k)].users = ph[k].users) <=> joins
  BY NextIs
<1>2. joins => NextOf(ph, k) = m
  BY NextIs
<1>3. /\ TiledTo(up, e) /\ k \in DOMAIN up
      /\ \A j : j \in DOMAIN up <=> j \in DOMAIN ph /\ (joins => j # m)
      /\ \A j \in DOMAIN up : j # k => up[j] = ph[j]
      /\ up[k].users = ph[k].users
      /\ \A j \in DOMAIN ph : LiesIn(up, j, EndOf(ph, j), ph[j].users)
  <2>1. CASE joins
    <3>1. up = Join(ph, k, m)
      BY <2>1
    <3> HIDE DEF up
    <3>2. /\ TiledTo(up, e)
          /\ \A j : j \in DOMAIN up <=> j \in DOMAIN ph /\ j # m
          /\ \A j \in DOMAIN ph : j # m /\ j # k => up[j] = ph[j]
          /\ up[k].users = ph[k].users
          /\ k # m
      BY <2>1, <3>1, JoinAt
    <3>3. \A j \in DOMAIN ph : LiesIn(up, j, EndOf(ph, j), ph[j].users)
      BY <2>1, <3>1, JoinKeeps
    <3> QED
      BY <2>1, <3>2, <3>3
  <2>2. CASE ~joins
    <3>1. up = ph
      BY <2>2
    <3>2. ASSUME NEW j \in DOMAIN ph
          PROVE  LiesIn(ph, j, EndOf(ph, j), ph[j].users)
      BY DEF LiesIn, TiledTo, EndOf
    <3> HIDE DEF up
    <3> QED
      BY <2>2, <3>1, <3>2
  <2> QED
    BY <2>1, <2>2
<1>4. R = IF Before(up, k) # {} /\ up[p].users = up[k].users
          THEN Join(up, p, k) ELSE up
  <2> HIDE DEF joins
  <2>1. up = IF After(ph, k) # {} /\ ph[k].users = ph[NextOf(ph, k)].users
             THEN Join(ph, k, NextOf(ph, k))
             ELSE ph
    BY <1>1, <1>2
  <2> HIDE DEF up
  <2> QED
    BY <2>1, Zenon DEF PhysMerge, Join
<1> HIDE DEF up
<1>5. /\ k # 0 => Before(up, k) # {} /\ p \in DOMAIN up /\ EndOf(up, p) = k
      /\ k = 0 => Before(up, k) = {}
  BY <1>3, PrevIs
<1>6. R = IF joined THEN Join(up, p, k) ELSE up
  BY <1>4, <1>5
<1>7. /\ TiledTo(R, e)
      /\ \A j : j \in DOMAIN R <=> j \in DOMAIN up /\ (joined => j # k)
      /\ joined => p \in DOMAIN up /\ EndOf(up, p) = k /\ p # k
      /\ \A j \in DOMAIN R : j # k /\ (joined => j # p) => R[j] = up[j]
      /\ \A j \in DOMAIN up : LiesIn(R, j, EndOf(up, j), up[j].users)
  <2>1. CASE joined
    <3>1. PICK q \in DOMAIN up : /\ q = p /\ EndOf(up, q) = k /\ up[q].users = up[k].users
                                 /\ R = Join(up, q, k)
      BY <1>5, <1>6, <2>1
    <3>2. TiledTo(up, e) /\ k \in DOMAIN up
      BY <1>3
    <3> HIDE DEF p, m, joins, joined
    <3>3. /\ TiledTo(R, e) /\ q # k
          /\ \A j : j \in DOMAIN R <=> j \in DOMAIN up /\ j # k
          /\ \A j \in DOMAIN up : j # k /\ j # q => R[j] = up[j]
      BY <3>1, <3>2, JoinAt
    <3>4. \A j \in DOMAIN up : LiesIn(R, j, EndOf(up, j), up[j].users)
      BY <3>1, <3>2, JoinKeeps
    <3> QED
      BY <2>1, <3>1, <3>3, <3>4 DEF joined, p
  <2>2. CASE ~joined
    <3>1. R = up
      BY <1>6, <2>2
    <3>2. ASSUME NEW j \in DOMAIN up
          PROVE  LiesIn(up, j, EndOf(up, j), up[j].users)
      BY <1>3 DEF LiesIn, TiledTo, EndOf
    <3> HIDE DEF joined
    <3> QED
      BY <1>3, <2>2, <3>1, <3>2
  <2> QED
    BY <2>1, <2>2
<1>8. \A j \in DOMAIN ph : LiesIn(R, j, EndOf(ph, j), ph[j].users)
  <2> TAKE j \in DOMAIN ph
  <2>1. PICK i \in DOMAIN up : up[i].users = ph[j].users /\ i <= j /\ EndOf(ph, j) <= EndOf(up, i)
    BY <1>3 DEF LiesIn
  <2>2. LiesIn(R, i, EndOf(up, i), ph[j].users)
    BY <1>7, <2>1
  <2>3. j \in Int /\ EndOf(ph, j) \in Int
    BY DEF TiledTo, EndOf
  <2> QED
    BY <1>3, <1>7, <2>1, <2>2, <2>3, LiesInTrans
<1>9. m # k /\ k \in Nat
  BY DEF TiledTo, EndOf
<1>10. \A j \in DOMAIN ph : ph[j].users # ph[k].users => j \in DOMAIN R /\ R[j] = ph[j]
  <2> TAKE j \in DOMAIN ph
  <2> HAVE ph[j].users # ph[k].users
  <2>1. j \in DOMAIN up /\ j # k /\ up[j] = ph[j] /\ up[j].users # up[k].users
    BY <1>3
  <2>2. j \in DOMAIN R /\ (joined => j # p)
    BY <1>7, <2>1
  <2> QED
    BY <1>7, <2>1, <2>2
<1>11. \A j \in DOMAIN ph : j # k /\ j # m => j \in DOMAIN R
  BY <1>3, <1>7
<1>12. \A j \in DOMAIN ph : EndOf(ph, j) = k /\ ph[j].users = ph[k].users => k \notin DOMAIN R
  <2> TAKE j \in DOMAIN ph
  <2> HAVE EndOf(ph, j) = k /\ ph[j].users = ph[k].users
  <2>1. j < k /\ j \in Nat
    BY DEF TiledTo, EndOf
  <2>2. k < m
    BY <1>9 DEF TiledTo, EndOf
  <2>3. j # k /\ j # m /\ k # 0
    BY <1>9, <2>1, <2>2 DEF EndOf
  <2>4. j \in DOMAIN up /\ up[j] = ph[j] /\ EndOf(up, j) = k
    BY <1>3, <2>3 DEF EndOf
  <2>5. p = j
    BY <1>3, <2>4, NeighborsAre, TiledOrdered
  <2>6. joined
    BY <1>3, <2>3, <2>4, <2>5
  <2> QED
    BY <1>7, <2>6
<1>13. joins => m \notin DOMAIN R
  BY <1>3, <1>7
<1>14. DOMAIN R \subseteq DOMAIN ph
  BY <1>3, <1>7
<1> QED
  BY <1>7, <1>8, <1>10, <1>11, <1>12, <1>13, <1>14

\* A slot is given so many users, and merged with the neighbors that have as many.
LEMMA AssignAt ==
    ASSUME NEW ph, NEW e, TiledTo(ph, e), NEW k \in DOMAIN ph, NEW u \in {0, 1}
    PROVE  /\ TiledTo(Assign(ph, k, u), e)
           /\ \A j : j \in DOMAIN Assign(ph, k, u) => j \in DOMAIN ph
           /\ LiesIn(Assign(ph, k, u), k, EndOf(ph, k), u)
           /\ \A j \in DOMAIN ph : j # k => LiesIn(Assign(ph, k, u), j, EndOf(ph, j), ph[j].users)
           /\ \A j \in DOMAIN ph : j # k /\ ph[j].users # u
                => j \in DOMAIN Assign(ph, k, u) /\ Assign(ph, k, u)[j] = ph[j]
           /\ \A j \in DOMAIN ph : j # k /\ j # EndOf(ph, k) => j \in DOMAIN Assign(ph, k, u)
           /\ \A j \in DOMAIN ph : EndOf(ph, j) = k /\ ph[j].users = u => k \notin DOMAIN Assign(ph, k, u)
           /\ EndOf(ph, k) \in DOMAIN ph /\ ph[EndOf(ph, k)].users = u
                => EndOf(ph, k) \notin DOMAIN Assign(ph, k, u)
<1>0. PICK R : R = Assign(ph, k, u)
  OBVIOUS
<1> USE <1>0
<1>1. PICK new : new = [ph EXCEPT ![k].users = u]
  OBVIOUS
<1>2. R = PhysMerge(new, k)
  BY <1>1 DEF Assign
<1>3. DOMAIN new = DOMAIN ph
  BY <1>1
<1>4. \A j \in DOMAIN ph : j # k => new[j] = ph[j]
  BY <1>1
<1>5. ph[k] \in [size : Nat \ {0}, users : {0, 1}]
  BY DEF TiledTo
<1>6. new[k].users = u /\ new[k].size = ph[k].size /\ new[k] \in [size : Nat \ {0}, users : {0, 1}]
  BY <1>1, <1>5
<1>7. \A j \in DOMAIN ph : EndOf(new, j) = EndOf(ph, j)
  BY <1>4, <1>6 DEF EndOf
<1>8. \A j \in DOMAIN ph : new[j] \in [size : Nat \ {0}, users : {0, 1}]
  BY <1>4, <1>6 DEF TiledTo
<1>9. TiledTo(new, e)
  BY <1>3, <1>7, <1>8 DEF TiledTo
<1>10. EndOf(ph, k) # k /\ \A j \in DOMAIN ph : EndOf(ph, j) = k => j # k
  BY <1>5 DEF TiledTo, EndOf
<1>11. /\ TiledTo(R, e)
       /\ \A j : j \in DOMAIN R => j \in DOMAIN new
       /\ \A j \in DOMAIN new : LiesIn(R, j, EndOf(new, j), new[j].users)
       /\ \A j \in DOMAIN new : new[j].users # new[k].users => j \in DOMAIN R /\ R[j] = new[j]
       /\ \A j \in DOMAIN new : j # k /\ j # EndOf(new, k) => j \in DOMAIN R
       /\ \A j \in DOMAIN new : EndOf(new, j) = k /\ new[j].users = new[k].users => k \notin DOMAIN R
       /\ EndOf(new, k) \in DOMAIN new /\ new[EndOf(new, k)].users = new[k].users
            => EndOf(new, k) \notin DOMAIN R
  BY <1>2, <1>3, <1>9, MergeAt
<1> QED
  BY <1>3, <1>4, <1>6, <1>7, <1>10, <1>11

\* What lies beside the assigned slot still lies in a slot with as many users.
LEMMA AssignKeeps ==
    ASSUME NEW ph, NEW e, TiledTo(ph, e), NEW k \in DOMAIN ph, NEW u \in {0, 1},
           NEW f \in Int, NEW t \in Int, f < t, NEW w, LiesIn(ph, f, t, w),
           t <= k \/ EndOf(ph, k) <= f \/ w = u
    PROVE  LiesIn(Assign(ph, k, u), f, t, w)
<1>1. PICK j \in DOMAIN ph : ph[j].users = w /\ j <= f /\ t <= EndOf(ph, j)
  BY DEF LiesIn
<1>2. j = k => w = u
  BY <1>1, NextIs DEF TiledTo
<1>3. LiesIn(Assign(ph, k, u), j, EndOf(ph, j), w)
  BY <1>1, <1>2, AssignAt
<1>4. TiledTo(Assign(ph, k, u), e)
  BY AssignAt
<1> QED
  BY <1>1, <1>3, <1>4, LiesInTrans

\* Ranges that lie in slots with different numbers of users do not overlap.
LEMMA DifferApart ==
    ASSUME NEW ph, NEW e, TiledTo(ph, e), NEW f \in Int, NEW t \in Int, NEW g \in Int, NEW v \in Int,
           NEW u, NEW w, u # w, f < t, g < v, LiesIn(ph, f, t, u), LiesIn(ph, g, v, w)
    PROVE  t <= g \/ v <= f
<1>1. PICK i \in DOMAIN ph : ph[i].users = u /\ i <= f /\ t <= EndOf(ph, i)
  BY DEF LiesIn
<1>2. PICK j \in DOMAIN ph : ph[j].users = w /\ j <= g /\ v <= EndOf(ph, j)
  BY DEF LiesIn
<1>3. i # j
  BY <1>1, <1>2
<1>4. EndOf(ph, i) <= j \/ EndOf(ph, j) <= i
  BY <1>3 DEF TiledTo
<1>5. i \in Int /\ j \in Int /\ EndOf(ph, i) \in Int /\ EndOf(ph, j) \in Int
  BY DEF TiledTo, EndOf
<1> QED
  BY <1>1, <1>2, <1>4, <1>5

\* No slot begins inside of a range that lies in one.
LEMMA NoneInside ==
    ASSUME NEW ph, NEW e, TiledTo(ph, e), NEW f \in Int, NEW t \in Int, NEW u, LiesIn(ph, f, t, u),
           NEW a \in Int, f < a, a < t
    PROVE  a \notin DOMAIN ph
<1>1. PICK j \in DOMAIN ph : ph[j].users = u /\ j <= f /\ t <= EndOf(ph, j)
  BY DEF LiesIn
<1>2. j \in Int /\ EndOf(ph, j) \in Int
  BY DEF TiledTo, EndOf
<1>3. j < a /\ a < EndOf(ph, j)
  BY <1>1, <1>2
<1> QED
  BY <1>2, <1>3 DEF TiledTo

\* What lies in a slot ends where all of them do, or before.
LEMMA LiesBelow ==
    ASSUME NEW ph, NEW e, TiledTo(ph, e), NEW f \in Int, NEW t \in Int, NEW u, LiesIn(ph, f, t, u)
    PROVE  0 <= f /\ t <= e
<1>1. PICK j \in DOMAIN ph : ph[j].users = u /\ j <= f /\ t <= EndOf(ph, j)
  BY DEF LiesIn
<1>2. j \in Nat /\ EndOf(ph, j) \in Nat /\ EndOf(ph, j) <= e /\ e \in Nat
  BY NextIs DEF TiledTo
<1> QED
  BY <1>1, <1>2

-----------------------------------------------------------------------------
(* The virtual slots. *)

Rights == {"read", "write", "execute", "lock"}

\* slots of the guest
Laid(vt) ==
    /\ Ordered(vt)
    /\ \A k \in DOMAIN vt : /\ EndOf(vt, k) <= PageCount
                            /\ vt[k] \in [physical : Nat, size : Nat, usage : SUBSET Rights]

\* Every virtual slot lies in a physical one that is in use, those next to each other in the same
\* one and next to each other there, and no two share any of it.
Backing(vt, ph) ==
    /\ \A k \in DOMAIN vt : LiesIn(ph, vt[k].physical, PhysEnd(vt[k]), 1)
    /\ \A j, k \in DOMAIN vt : EndOf(vt, j) = k =>
            PhysEnd(vt[j]) = vt[k].physical /\ vt[k].physical \notin DOMAIN ph
    /\ \A j, k \in DOMAIN vt : j # k =>
            PhysEnd(vt[j]) <= vt[k].physical \/ PhysEnd(vt[k]) <= vt[j].physical

\* the usage and the place of a page
UsageIn(vt, p) == vt[SlotAt(vt, p)].usage
PlaceIn(vt, p) == vt[SlotAt(vt, p)].physical + (p - SlotAt(vt, p))

SamePages(vt, R) ==
    \A p \in Int : /\ Holds(R, p) <=> Holds(vt, p)
                   /\ Holds(vt, p) => UsageIn(R, p) = UsageIn(vt, p) /\ PlaceIn(R, p) = PlaceIn(vt, p)

\* What is known of a virtual slot: the types of its fields and of its end.
LEMMA LaidSlot ==
    ASSUME NEW vt, Laid(vt), NEW k \in DOMAIN vt
    PROVE  /\ k \in Nat /\ vt[k].size \in Nat /\ vt[k].size > 0 /\ vt[k].physical \in Nat
           /\ vt[k].usage \in SUBSET Rights
           /\ EndOf(vt, k) \in Nat /\ EndOf(vt, k) <= PageCount /\ k < EndOf(vt, k)
           /\ EndOf(vt, k) = k + vt[k].size
           /\ PhysEnd(vt[k]) \in Nat /\ PhysEnd(vt[k]) = vt[k].physical + vt[k].size
           /\ vt[k].physical < PhysEnd(vt[k])
BY DEF Laid, Ordered, EndOf, PhysEnd

\* where a page is, if its slot is known
LEMMA PageIn ==
    ASSUME NEW vt, Ordered(vt), NEW k \in DOMAIN vt, NEW p \in Int, k <= p, p < EndOf(vt, k)
    PROVE  Holds(vt, p) /\ UsageIn(vt, p) = vt[k].usage /\ PlaceIn(vt, p) = vt[k].physical + (p - k)
BY SlotAtIs DEF UsageIn, PlaceIn

\* Two maps whose slots give each address the same usage and place hold the same pages.
LEMMA SamePagesIf ==
    ASSUME NEW vt, Ordered(vt), NEW R, Ordered(R),
           \A k \in DOMAIN vt : \A p \in Int : k <= p /\ p < EndOf(vt, k) =>
                \E i \in DOMAIN R : /\ i <= p /\ p < EndOf(R, i) /\ R[i].usage = vt[k].usage
                                    /\ R[i].physical + (p - i) = vt[k].physical + (p - k),
           \A i \in DOMAIN R : \A p \in Int : i <= p /\ p < EndOf(R, i) =>
                \E k \in DOMAIN vt : k <= p /\ p < EndOf(vt, k)
    PROVE  SamePages(vt, R)
<1> SUFFICES ASSUME NEW p \in Int
             PROVE  /\ Holds(R, p) <=> Holds(vt, p)
                    /\ Holds(vt, p) => UsageIn(R, p) = UsageIn(vt, p) /\ PlaceIn(R, p) = PlaceIn(vt, p)
  BY DEF SamePages
<1>1. Holds(R, p) => Holds(vt, p)
  BY HoldsSlot, SlotAtIs
<1>2. ASSUME Holds(vt, p)
      PROVE  Holds(R, p) /\ UsageIn(R, p) = UsageIn(vt, p) /\ PlaceIn(R, p) = PlaceIn(vt, p)
  <2>1. PICK k \in DOMAIN vt : k <= p /\ p < EndOf(vt, k)
    BY <1>2, HoldsSlot
  <2>2. PICK i \in DOMAIN R : /\ i <= p /\ p < EndOf(R, i) /\ R[i].usage = vt[k].usage
                              /\ R[i].physical + (p - i) = vt[k].physical + (p - k)
    BY <2>1
  <2>3. UsageIn(vt, p) = vt[k].usage /\ PlaceIn(vt, p) = vt[k].physical + (p - k)
    BY <2>1, PageIn
  <2>4. Holds(R, p) /\ UsageIn(R, p) = R[i].usage /\ PlaceIn(R, p) = R[i].physical + (p - i)
    BY <2>2, PageIn
  <2> QED
    BY <2>2, <2>3, <2>4
<1> QED
  BY <1>1, <1>2

\* A virtual slot is split in two: every page stays where it is.
LEMMA VirtSplitAt ==
    ASSUME NEW vt, Laid(vt), NEW ph, NEW e, TiledTo(ph, e), Backing(vt, ph),
           NEW k \in DOMAIN vt, NEW a \in Nat, k < a, a < EndOf(vt, k)
    PROVE  /\ Laid(VirtSplit(vt, k, a)) /\ Backing(VirtSplit(vt, k, a), ph)
           /\ SamePages(vt, VirtSplit(vt, k, a))
           /\ \A j : j \in DOMAIN VirtSplit(vt, k, a) <=> j \in DOMAIN vt \/ j = a
           /\ \A j \in DOMAIN vt : j # k => VirtSplit(vt, k, a)[j] = vt[j]
           /\ EndOf(VirtSplit(vt, k, a), k) = a /\ EndOf(VirtSplit(vt, k, a), a) = EndOf(vt, k)
           /\ VirtSplit(vt, k, a)[k].physical = vt[k].physical
           /\ VirtSplit(vt, k, a)[a].physical = vt[k].physical + (a - k)
<1>0. PICK R : R = VirtSplit(vt, k, a)
  OBVIOUS
<1> USE <1>0
<1>1. /\ k \in Nat /\ vt[k] \in [physical : Nat, size : Nat, usage : SUBSET Rights]
      /\ EndOf(vt, k) \in Nat /\ EndOf(vt, k) = k + vt[k].size /\ EndOf(vt, k) <= PageCount
  BY LaidSlot DEF Laid
<1>2. \A i, j \in DOMAIN vt : i < j => EndOf(vt, i) <= j
  BY DEF Laid, Ordered
<1>3. \A j \in DOMAIN vt : j \in Nat /\ EndOf(vt, j) \in Nat /\ j < EndOf(vt, j)
  BY LaidSlot
<1>4. a \notin DOMAIN vt
  BY <1>1, <1>2
<1>5. \A j : j \in DOMAIN R <=> j \in DOMAIN vt \/ j = a
  BY DEF VirtSplit, Put, Resize
<1>6. \A j \in DOMAIN vt : j # k => R[j] = vt[j]
  BY <1>4 DEF VirtSplit, Put, Resize
<1>7. R[k] = [physical |-> vt[k].physical, size |-> a - k, usage |-> vt[k].usage]
  BY <1>1, <1>4 DEF VirtSplit, Put, Resize
<1>8. R[a] = [physical |-> vt[k].physical + (a - k), size |-> EndOf(vt, k) - a, usage |-> vt[k].usage]
  BY DEF VirtSplit, Put
<1>9. EndOf(R, k) = a /\ EndOf(R, a) = EndOf(vt, k) /\ \A j \in DOMAIN vt : j # k => EndOf(R, j) = EndOf(vt, j)
  BY <1>1, <1>6, <1>7, <1>8 DEF EndOf
<1>10. Laid(R)
  <2>1. ASSUME NEW j \in DOMAIN R
        PROVE  /\ j \in Nat /\ R[j].size \in Nat /\ R[j].size > 0 /\ EndOf(R, j) <= PageCount
               /\ R[j] \in [physical : Nat, size : Nat, usage : SUBSET Rights]
    <3>1. CASE j = k
      <4>1. a <= PageCount
        BY <1>1, MemoryAssumption
      <4> QED
        BY <1>1, <1>7, <1>9, <3>1, <4>1
    <3>2. CASE j = a
      BY <1>1, <1>8, <1>9, <3>2
    <3>3. CASE j # k /\ j # a
      BY <1>5, <1>6, <1>9, <3>3 DEF Laid, Ordered
    <3> QED
      BY <3>1, <3>2, <3>3
  <2>2. ASSUME NEW i \in DOMAIN R, NEW j \in DOMAIN R, i < j
        PROVE  EndOf(R, i) <= j
    BY <1>1, <1>2, <1>3, <1>5, <1>9, <2>2
  <2> QED
    BY <2>1, <2>2 DEF Laid, Ordered
<1>11. /\ vt[k].physical \in Nat /\ PhysEnd(vt[k]) = vt[k].physical + (EndOf(vt, k) - k)
       /\ R[k].physical = vt[k].physical /\ PhysEnd(R[k]) = vt[k].physical + (a - k)
       /\ R[a].physical = vt[k].physical + (a - k) /\ PhysEnd(R[a]) = PhysEnd(vt[k])
       /\ \A j \in DOMAIN vt : j # k => R[j].physical = vt[j].physical /\ PhysEnd(R[j]) = PhysEnd(vt[j])
       /\ \A j \in DOMAIN vt : PhysEnd(vt[j]) \in Nat /\ vt[j].physical \in Nat
                                /\ vt[j].physical < PhysEnd(vt[j])
  BY <1>1, <1>6, <1>7, <1>8, LaidSlot DEF PhysEnd
<1>12. Backing(R, ph)
  <2>1. PICK i \in DOMAIN ph : ph[i].users = 1 /\ i <= vt[k].physical /\ PhysEnd(vt[k]) <= EndOf(ph, i)
    BY DEF Backing, LiesIn
  <2>2. i \in Nat /\ EndOf(ph, i) \in Nat
    BY DEF TiledTo, EndOf
  <2>3. LiesIn(ph, R[k].physical, PhysEnd(R[k]), 1) /\ LiesIn(ph, R[a].physical, PhysEnd(R[a]), 1)
    <3>1. i <= R[k].physical /\ PhysEnd(R[k]) <= EndOf(ph, i)
      BY <1>1, <1>11, <2>1, <2>2
    <3>2. i <= R[a].physical /\ PhysEnd(R[a]) <= EndOf(ph, i)
      BY <1>1, <1>11, <2>1, <2>2
    <3> QED
      BY <2>1, <3>1, <3>2 DEF LiesIn
  <2>4. \A j \in DOMAIN R : LiesIn(ph, R[j].physical, PhysEnd(R[j]), 1)
    BY <1>5, <1>11, <2>3 DEF Backing
  <2>5. R[a].physical \notin DOMAIN ph
    BY <1>1, <1>11, <2>1, <2>2 DEF TiledTo
  <2>6. ASSUME NEW j \in DOMAIN R, NEW m \in DOMAIN R, EndOf(R, j) = m
        PROVE  PhysEnd(R[j]) = R[m].physical /\ R[m].physical \notin DOMAIN ph
    <3>1. CASE m = a
      <4>1. j = k
        BY <1>1, <1>2, <1>3, <1>5, <1>9, <2>6, <3>1
      <4> QED
        BY <1>11, <2>5, <3>1, <4>1
    <3>2. CASE m # a
      <4>1. m \in DOMAIN vt /\ R[m].physical = vt[m].physical
        BY <1>5, <1>11, <3>2
      <4>2. j # k
        BY <1>9, <2>6, <3>2
      <4>3. CASE j = a
        BY <1>9, <1>11, <2>6, <4>1, <4>3 DEF Backing
      <4>4. CASE j # a
        BY <1>5, <1>9, <1>11, <2>6, <4>1, <4>2, <4>4 DEF Backing
      <4> QED
        BY <4>3, <4>4
    <3> QED
      BY <3>1, <3>2
  <2>7. ASSUME NEW j \in DOMAIN R, NEW m \in DOMAIN R, j # m
        PROVE  PhysEnd(R[j]) <= R[m].physical \/ PhysEnd(R[m]) <= R[j].physical
    <3>1. \A x, y \in DOMAIN vt : x # y => PhysEnd(vt[x]) <= vt[y].physical \/ PhysEnd(vt[y]) <= vt[x].physical
      BY DEF Backing
    <3> DEFINE own(x) == IF x = a THEN k ELSE x
    <3>2. \A x \in DOMAIN R : /\ own(x) \in DOMAIN vt
                              /\ vt[own(x)].physical <= R[x].physical /\ PhysEnd(R[x]) <= PhysEnd(vt[own(x)])
                              /\ R[x].physical \in Int /\ PhysEnd(R[x]) \in Int
      BY <1>1, <1>5, <1>11
    <3>3. CASE own(j) # own(m)
      <4>1. PhysEnd(vt[own(j)]) <= vt[own(m)].physical \/ PhysEnd(vt[own(m)]) <= vt[own(j)].physical
        BY <3>1, <3>2, <3>3
      <4> HIDE DEF own
      <4> QED
        BY <1>11, <3>2, <4>1
    <3>4. CASE own(j) = own(m)
      BY <1>1, <1>5, <1>11, <2>7, <3>4
    <3> QED
      BY <3>3, <3>4
  <2> QED
    BY <2>4, <2>6, <2>7 DEF Backing
<1>13. SamePages(vt, R)
  <2>1. ASSUME NEW j \in DOMAIN vt, NEW p \in Int, j <= p, p < EndOf(vt, j)
        PROVE  \E i \in DOMAIN R : /\ i <= p /\ p < EndOf(R, i) /\ R[i].usage = vt[j].usage
                                   /\ R[i].physical + (p - i) = vt[j].physical + (p - j)
    <3>1. CASE j # k
      BY <1>5, <1>6, <1>9, <2>1, <3>1
    <3>2. CASE j = k /\ p < a
      BY <1>5, <1>7, <1>9, <2>1, <3>2
    <3>3. CASE j = k /\ a <= p
      <4>1. R[a].physical + (p - a) = vt[j].physical + (p - j)
        BY <1>1, <1>11, <3>3
      <4> QED
        BY <1>5, <1>8, <1>9, <2>1, <3>3, <4>1
    <3> QED
      BY <1>3, <2>1, <3>1, <3>2, <3>3
  <2>2. ASSUME NEW i \in DOMAIN R, NEW p \in Int, i <= p, p < EndOf(R, i)
        PROVE  \E j \in DOMAIN vt : j <= p /\ p < EndOf(vt, j)
    BY <1>1, <1>5, <1>9, <2>2
  <2> QED
    BY <1>10, <2>1, <2>2, SamePagesIf DEF Laid
<1> QED
  BY <1>5, <1>6, <1>9, <1>10, <1>11, <1>12, <1>13

\* A map holds its own pages.
LEMMA SamePagesRefl ==
    ASSUME NEW vt
    PROVE  SamePages(vt, vt)
BY DEF SamePages

\* Holding the same pages is transitive.
LEMMA SamePagesTrans ==
    ASSUME NEW vt, NEW m, NEW R, SamePages(vt, m), SamePages(m, R)
    PROVE  SamePages(vt, R)
BY DEF SamePages

\* A cut moves no page, and no slot reaches across it any more.
LEMMA VirtCutAt ==
    ASSUME NEW vt, Laid(vt), NEW ph, NEW e, TiledTo(ph, e), Backing(vt, ph), NEW a \in Nat
    PROVE  /\ Laid(VirtCut(vt, a)) /\ Backing(VirtCut(vt, a), ph) /\ SamePages(vt, VirtCut(vt, a))
           /\ \A k \in DOMAIN VirtCut(vt, a) : a <= k \/ EndOf(VirtCut(vt, a), k) <= a
           /\ \A j : j \in DOMAIN vt => j \in DOMAIN VirtCut(vt, a)
           /\ \A b \in Nat : (\A k \in DOMAIN vt : b <= k \/ EndOf(vt, k) <= b) =>
                    \A k \in DOMAIN VirtCut(vt, a) : b <= k \/ EndOf(VirtCut(vt, a), k) <= b
<1>0. PICK R : R = VirtCut(vt, a)
  OBVIOUS
<1> USE <1>0
<1>1. \A j \in DOMAIN vt : j \in Nat /\ EndOf(vt, j) \in Nat /\ j < EndOf(vt, j)
  BY LaidSlot
<1>2. \A i, j \in DOMAIN vt : i < j => EndOf(vt, i) <= j
  BY DEF Laid, Ordered
<1>3. CASE a \in DOMAIN vt \/ ~Holds(vt, a)
  <2>1. R = vt
    BY <1>3 DEF VirtCut
  <2>2. \A k \in DOMAIN vt : a <= k \/ EndOf(vt, k) <= a
    <3>1. CASE a \in DOMAIN vt
      BY <1>1, <1>2, <3>1
    <3>2. CASE ~Holds(vt, a)
      BY <1>1, <3>2, SlotAtIs DEF Laid
    <3> QED
      BY <1>3, <3>1, <3>2
  <2> QED
    BY <2>1, <2>2, SamePagesRefl
<1>4. CASE a \notin DOMAIN vt /\ Holds(vt, a)
  <2>1. PICK k \in DOMAIN vt : k <= a /\ a < EndOf(vt, k) /\ R = VirtSplit(vt, k, a)
    BY <1>4, HoldsSlot DEF VirtCut
  <2>2. k < a /\ k \in Nat
    BY <1>1, <1>4, <2>1
  <2>3. /\ Laid(R) /\ Backing(R, ph) /\ SamePages(vt, R)
        /\ \A j : j \in DOMAIN R <=> j \in DOMAIN vt \/ j = a
        /\ \A j \in DOMAIN vt : j # k => R[j] = vt[j]
        /\ EndOf(R, k) = a /\ EndOf(R, a) = EndOf(vt, k)
    BY <2>1, <2>2, VirtSplitAt
  <2>4. \A j \in DOMAIN vt : j # k => EndOf(R, j) = EndOf(vt, j)
    BY <2>3 DEF EndOf
  <2>5. \A j \in DOMAIN R : a <= j \/ EndOf(R, j) <= a
    BY <1>1, <1>2, <2>1, <2>2, <2>3, <2>4
  <2>6. ASSUME NEW b \in Nat, \A j \in DOMAIN vt : b <= j \/ EndOf(vt, j) <= b, NEW j \in DOMAIN R
        PROVE  b <= j \/ EndOf(R, j) <= b
    BY <1>1, <2>1, <2>2, <2>3, <2>4, <2>6
  <2> QED
    BY <2>3, <2>5, <2>6
<1> QED
  BY <1>3, <1>4

\* Two virtual slots next to each other become one, where they may be used alike.
LEMMA VirtMergeAt ==
    ASSUME NEW vt, Laid(vt), NEW ph, NEW e, TiledTo(ph, e), Backing(vt, ph), NEW k \in DOMAIN vt
    PROVE  /\ Laid(VirtMergePrev(vt, k)) /\ Backing(VirtMergePrev(vt, k), ph)
           /\ SamePages(vt, VirtMergePrev(vt, k))
           /\ \A j : j \in DOMAIN VirtMergePrev(vt, k) => j \in DOMAIN vt
           /\ \A j \in DOMAIN vt : j # k => j \in DOMAIN VirtMergePrev(vt, k)
<1>0. PICK R : R = VirtMergePrev(vt, k)
  OBVIOUS
<1> USE <1>0
<1> DEFINE near == \E j \in DOMAIN vt : /\ EndOf(vt, j) = k
                                        /\ vt[j].usage = vt[k].usage
                                        /\ PhysEnd(vt[j]) = vt[k].physical
<1>1. CASE ~near
  <2>1. R = vt
    BY <1>1 DEF VirtMergePrev
  <2> QED
    BY <2>1, SamePagesRefl
<1>2. CASE near
  <2>1. PICK j \in DOMAIN vt : EndOf(vt, j) = k /\ vt[j].usage = vt[k].usage /\ PhysEnd(vt[j]) = vt[k].physical
    BY <1>2
  <2>2. PrevOf(vt, k) = j
    BY <2>1, NeighborsAre DEF Laid
  <2>3. R = Erase(Resize(vt, j, vt[j].size + vt[k].size), k)
    BY <1>2, <2>2 DEF VirtMergePrev
  <2>4. \A i \in DOMAIN vt : /\ i \in Nat /\ EndOf(vt, i) \in Nat /\ i < EndOf(vt, i)
                             /\ vt[i].physical \in Nat /\ PhysEnd(vt[i]) \in Nat
                             /\ vt[i].physical < PhysEnd(vt[i])
    BY LaidSlot
  <2>5. /\ j # k /\ EndOf(vt, k) = k + vt[k].size /\ EndOf(vt, j) = j + vt[j].size
        /\ PhysEnd(vt[k]) = vt[k].physical + vt[k].size /\ PhysEnd(vt[j]) = vt[j].physical + vt[j].size
        /\ vt[k].size \in Nat /\ vt[j].size \in Nat /\ EndOf(vt, k) <= PageCount
        /\ vt[j] \in [physical : Nat, size : Nat, usage : SUBSET Rights]
    BY <2>1, <2>4, LaidSlot DEF Laid
  <2>6. \A i : i \in DOMAIN R <=> i \in DOMAIN vt /\ i # k
    BY <2>3 DEF Erase, Resize, Restrict
  <2>7. \A i \in DOMAIN vt : i # k /\ i # j => R[i] = vt[i]
    BY <2>3 DEF Erase, Resize, Restrict
  <2>8. R[j] = [physical |-> vt[j].physical, size |-> vt[j].size + vt[k].size, usage |-> vt[j].usage]
    BY <2>3, <2>5 DEF Erase, Resize, Restrict
  <2>9. /\ EndOf(R, j) = EndOf(vt, k) /\ PhysEnd(R[j]) = PhysEnd(vt[k])
        /\ R[j].physical = vt[j].physical /\ R[j].usage = vt[j].usage
    BY <2>1, <2>4, <2>5, <2>8 DEF EndOf, PhysEnd
  <2>10. \A i \in DOMAIN vt : i # k /\ i # j => EndOf(R, i) = EndOf(vt, i)
    BY <2>7 DEF EndOf
  <2>11. \A x, y \in DOMAIN vt : x < y => EndOf(vt, x) <= y
    BY DEF Laid, Ordered
  <2>12. Laid(R)
    <3>1. ASSUME NEW i \in DOMAIN R
          PROVE  /\ i \in Nat /\ R[i].size \in Nat /\ R[i].size > 0 /\ EndOf(R, i) <= PageCount
                 /\ R[i] \in [physical : Nat, size : Nat, usage : SUBSET Rights]
      <4>1. CASE i = j
        <5>1. R[i].size > 0
          BY <2>8, <2>5, <4>1, LaidSlot
        <5>2. R[i] \in [physical : Nat, size : Nat, usage : SUBSET Rights]
          BY <2>8, <2>5, <4>1
        <5> QED
          BY <2>4, <2>5, <2>9, <4>1, <5>1, <5>2
      <4>2. CASE i # j
        BY <2>6, <2>7, <2>10, <4>2 DEF Laid, Ordered
      <4> QED
        BY <4>1, <4>2
    <3>2. ASSUME NEW x \in DOMAIN R, NEW y \in DOMAIN R, x < y
          PROVE  EndOf(R, x) <= y
      <4>1. CASE x = j
        <5>1. k < y
          BY <2>1, <2>4, <2>6, <2>11, <3>2, <4>1
        <5> QED
          BY <2>6, <2>9, <2>11, <4>1, <5>1
      <4>2. CASE x # j
        BY <2>6, <2>10, <2>11, <3>2, <4>2
      <4> QED
        BY <4>1, <4>2
    <3> QED
      BY <3>1, <3>2 DEF Laid, Ordered
  <2>13. LiesIn(ph, vt[j].physical, PhysEnd(vt[k]), 1)
    <3>1. PICK x \in DOMAIN ph : ph[x].users = 1 /\ x <= vt[j].physical /\ PhysEnd(vt[j]) <= EndOf(ph, x)
      BY DEF Backing, LiesIn
    <3>2. PICK y \in DOMAIN ph : ph[y].users = 1 /\ y <= vt[k].physical /\ PhysEnd(vt[k]) <= EndOf(ph, y)
      BY DEF Backing, LiesIn
    <3>3. vt[k].physical \notin DOMAIN ph
      BY <2>1 DEF Backing
    <3>4. x \in Nat /\ y \in Nat /\ EndOf(ph, x) \in Nat /\ EndOf(ph, y) \in Nat
      BY DEF TiledTo, EndOf
    <3>5. x = y
      <4> DEFINE q == vt[k].physical - 1
      <4>1. q \in Int /\ x <= q /\ q < EndOf(ph, x)
        BY <2>1, <2>4, <3>1, <3>4
      <4>2. y <= q /\ q < EndOf(ph, y)
        BY <2>4, <3>2, <3>3, <3>4
      <4> QED
        BY <4>1, <4>2, OneSlot, TiledOrdered
    <3> QED
      BY <3>1, <3>2, <3>5 DEF LiesIn
  <2>14. Backing(R, ph)
    <3>1. \A i \in DOMAIN R : LiesIn(ph, R[i].physical, PhysEnd(R[i]), 1)
      BY <2>6, <2>7, <2>9, <2>13 DEF Backing
    <3>2. ASSUME NEW i \in DOMAIN R, NEW m \in DOMAIN R, EndOf(R, i) = m
          PROVE  PhysEnd(R[i]) = R[m].physical /\ R[m].physical \notin DOMAIN ph
      <4>1. m \in DOMAIN vt /\ R[m].physical = vt[m].physical
        BY <2>6, <2>7, <2>9
      <4>2. CASE i = j
        <5>1. EndOf(vt, k) = m
          BY <2>9, <3>2, <4>2
        <5> QED
          BY <2>9, <4>1, <4>2, <5>1 DEF Backing
      <4>3. CASE i # j
        <5>1. i \in DOMAIN vt /\ R[i] = vt[i] /\ EndOf(vt, i) = m
          BY <2>6, <2>7, <2>10, <3>2, <4>3
        <5> QED
          BY <4>1, <5>1 DEF Backing
      <4> QED
        BY <4>2, <4>3
    <3>3. ASSUME NEW i \in DOMAIN R, NEW m \in DOMAIN R, i # m
          PROVE  PhysEnd(R[i]) <= R[m].physical \/ PhysEnd(R[m]) <= R[i].physical
      <4>1. \A x, y \in DOMAIN vt : x # y => PhysEnd(vt[x]) <= vt[y].physical \/ PhysEnd(vt[y]) <= vt[x].physical
        BY DEF Backing
      <4>2. \A x \in DOMAIN R : x \in DOMAIN vt /\ x # k /\ (x # j => R[x] = vt[x])
        BY <2>6, <2>7
      <4>3. CASE i = j
        <5>1. PhysEnd(vt[j]) <= vt[m].physical \/ PhysEnd(vt[m]) <= vt[j].physical
          BY <3>3, <4>1, <4>2, <4>3
        <5>2. PhysEnd(vt[k]) <= vt[m].physical \/ PhysEnd(vt[m]) <= vt[k].physical
          BY <4>1, <4>2
        <5> QED
          BY <2>1, <2>4, <2>9, <3>3, <4>2, <4>3, <5>1, <5>2
      <4>4. CASE m = j
        <5>1. PhysEnd(vt[j]) <= vt[i].physical \/ PhysEnd(vt[i]) <= vt[j].physical
          BY <3>3, <4>1, <4>2, <4>4
        <5>2. PhysEnd(vt[k]) <= vt[i].physical \/ PhysEnd(vt[i]) <= vt[k].physical
          BY <4>1, <4>2
        <5> QED
          BY <2>1, <2>4, <2>9, <3>3, <4>2, <4>4, <5>1, <5>2
      <4>5. CASE i # j /\ m # j
        BY <3>3, <4>1, <4>2, <4>5
      <4> QED
        BY <4>3, <4>4, <4>5
    <3> QED
      BY <3>1, <3>2, <3>3 DEF Backing
  <2>15. SamePages(vt, R)
    <3>1. ASSUME NEW x \in DOMAIN vt, NEW p \in Int, x <= p, p < EndOf(vt, x)
          PROVE  \E i \in DOMAIN R : /\ i <= p /\ p < EndOf(R, i) /\ R[i].usage = vt[x].usage
                                     /\ R[i].physical + (p - i) = vt[x].physical + (p - x)
      <4>1. CASE x = k
        <5>0. /\ k = j + vt[j].size /\ vt[k].physical = vt[j].physical + vt[j].size
              /\ j \in Nat /\ k \in Nat /\ vt[j].physical \in Nat /\ vt[j].size \in Nat
          BY <2>1, <2>4, <2>5
        <5>1. R[j].physical + (p - j) = vt[x].physical + (p - x)
          BY <2>9, <4>1, <5>0
        <5>2. j <= p
          BY <3>1, <4>1, <5>0
        <5>3. p < EndOf(R, j) /\ R[j].usage = vt[x].usage /\ j \in DOMAIN R
          BY <2>1, <2>5, <2>6, <2>9, <3>1, <4>1
        <5> QED
          BY <5>1, <5>2, <5>3
      <4>2. CASE x = j
        <5>1. p < EndOf(R, j)
          BY <2>1, <2>4, <2>9, <3>1, <4>2
        <5> QED
          BY <2>5, <2>6, <2>9, <3>1, <4>2, <5>1
      <4>3. CASE x # j /\ x # k
        BY <2>6, <2>7, <2>10, <3>1, <4>3
      <4> QED
        BY <4>1, <4>2, <4>3
    <3>2. ASSUME NEW i \in DOMAIN R, NEW p \in Int, i <= p, p < EndOf(R, i)
          PROVE  \E x \in DOMAIN vt : x <= p /\ p < EndOf(vt, x)
      <4>1. CASE i = j
        BY <2>1, <2>4, <2>9, <3>2, <4>1
      <4>2. CASE i # j
        BY <2>6, <2>10, <3>2, <4>2
      <4> QED
        BY <4>1, <4>2
    <3> QED
      BY <2>12, <3>1, <3>2, SamePagesIf DEF Laid
  <2> QED
    BY <2>6, <2>12, <2>14, <2>15
<1> QED
  BY <1>1, <1>2

Slot(q, n, u) == [physical |-> q, size |-> n, usage |-> u]

\* beside the range, every page is as before; in it, it is of the usage and in the given place
NewPages(vt, R, a, n, q, u) ==
    \A p \in Int :
        /\ a <= p /\ p < a + n => Holds(R, p) /\ UsageIn(R, p) = u /\ PlaceIn(R, p) = q + (p - a)
        /\ p < a \/ a + n <= p => /\ Holds(R, p) <=> Holds(vt, p)
                                  /\ Holds(vt, p) => /\ UsageIn(R, p) = UsageIn(vt, p)
                                                     /\ PlaceIn(R, p) = PlaceIn(vt, p)

\* A new virtual slot where nothing is mapped, and physical pages which nothing else uses.
LEMMA PutAt ==
    ASSUME NEW vt, Laid(vt), NEW ph, NEW e, TiledTo(ph, e), Backing(vt, ph),
           NEW a \in Nat, NEW n \in Nat, n > 0, a + n <= PageCount, NEW q \in Nat, NEW u \in SUBSET Rights,
           \A k \in DOMAIN vt : EndOf(vt, k) <= a \/ a + n <= k,
           LiesIn(ph, q, q + n, 1),
           \A k \in DOMAIN vt : PhysEnd(vt[k]) <= q \/ q + n <= vt[k].physical,
           \A k \in DOMAIN vt : EndOf(vt, k) = a => PhysEnd(vt[k]) = q /\ q \notin DOMAIN ph,
           \A k \in DOMAIN vt : k = a + n => vt[k].physical = q + n /\ q + n \notin DOMAIN ph
    PROVE  /\ Laid(Put(vt, a, Slot(q, n, u))) /\ Backing(Put(vt, a, Slot(q, n, u)), ph)
           /\ NewPages(vt, Put(vt, a, Slot(q, n, u)), a, n, q, u)
           /\ \A j : j \in DOMAIN Put(vt, a, Slot(q, n, u)) <=> j \in DOMAIN vt \/ j = a
<1>0. PICK R : R = Put(vt, a, Slot(q, n, u))
  OBVIOUS
<1> USE <1>0
<1>1. \A j \in DOMAIN vt : /\ j \in Nat /\ EndOf(vt, j) \in Nat /\ j < EndOf(vt, j)
                           /\ vt[j].physical \in Nat /\ PhysEnd(vt[j]) \in Nat
                           /\ vt[j].physical < PhysEnd(vt[j])
  BY LaidSlot
<1>2. a \notin DOMAIN vt
  BY <1>1
<1>3. \A j : j \in DOMAIN R <=> j \in DOMAIN vt \/ j = a
  BY DEF Put
<1>4. \A j \in DOMAIN vt : j # a /\ R[j] = vt[j] /\ EndOf(R, j) = EndOf(vt, j)
  BY <1>2 DEF Put, EndOf
<1>5. R[a] = Slot(q, n, u)
  BY DEF Put
<1>6. /\ R[a] \in [physical : Nat, size : Nat, usage : SUBSET Rights]
      /\ R[a].physical = q /\ R[a].size = n /\ R[a].usage = u
      /\ EndOf(R, a) = a + n /\ PhysEnd(R[a]) = q + n
  BY <1>5 DEF Slot, EndOf, PhysEnd
<1>7. Laid(R)
  <2>1. \A j \in DOMAIN R : /\ j \in Nat /\ R[j].size \in Nat /\ R[j].size > 0 /\ EndOf(R, j) <= PageCount
                            /\ R[j] \in [physical : Nat, size : Nat, usage : SUBSET Rights]
    BY <1>3, <1>4, <1>6 DEF Laid, Ordered
  <2>2. \A i, j \in DOMAIN vt : i < j => EndOf(vt, i) <= j
    BY DEF Laid, Ordered
  <2>3. ASSUME NEW i \in DOMAIN R, NEW j \in DOMAIN R, i < j
        PROVE  EndOf(R, i) <= j
    BY <1>1, <1>3, <1>4, <1>6, <2>2, <2>3
  <2> QED
    BY <2>1, <2>3 DEF Laid, Ordered
<1>8. Backing(R, ph)
  <2>1. \A j \in DOMAIN R : LiesIn(ph, R[j].physical, PhysEnd(R[j]), 1)
    BY <1>3, <1>4, <1>6 DEF Backing
  <2>2. ASSUME NEW j \in DOMAIN R, NEW k \in DOMAIN R, EndOf(R, j) = k
        PROVE  PhysEnd(R[j]) = R[k].physical /\ R[k].physical \notin DOMAIN ph
    <3>1. CASE j = a
      <4>1. k \in DOMAIN vt /\ k = a + n /\ R[k] = vt[k]
        BY <1>3, <1>4, <1>6, <2>2, <3>1
      <4> QED
        BY <1>6, <3>1, <4>1
    <3>2. CASE k = a
      <4>1. j \in DOMAIN vt /\ R[j] = vt[j] /\ EndOf(vt, j) = a
        BY <1>3, <1>4, <1>6, <2>2, <3>2
      <4> QED
        BY <1>6, <3>2, <4>1
    <3>3. CASE j # a /\ k # a
      <4>1. /\ j \in DOMAIN vt /\ R[j] = vt[j] /\ EndOf(vt, j) = k
            /\ k \in DOMAIN vt /\ R[k] = vt[k]
        BY <1>3, <1>4, <2>2, <3>3
      <4> QED
        BY <4>1 DEF Backing
    <3> QED
      BY <3>1, <3>2, <3>3
  <2>3. ASSUME NEW j \in DOMAIN R, NEW k \in DOMAIN R, j # k
        PROVE  PhysEnd(R[j]) <= R[k].physical \/ PhysEnd(R[k]) <= R[j].physical
    <3>1. \A x, y \in DOMAIN vt : x # y => PhysEnd(vt[x]) <= vt[y].physical \/ PhysEnd(vt[y]) <= vt[x].physical
      BY DEF Backing
    <3> QED
      BY <1>3, <1>4, <1>6, <2>3, <3>1
  <2> QED
    BY <2>1, <2>2, <2>3 DEF Backing
<1>9. NewPages(vt, R, a, n, q, u)
  <2> SUFFICES ASSUME NEW p \in Int
               PROVE  /\ a <= p /\ p < a + n => Holds(R, p) /\ UsageIn(R, p) = u /\ PlaceIn(R, p) = q + (p - a)
                      /\ p < a \/ a + n <= p => /\ Holds(R, p) <=> Holds(vt, p)
                                                /\ Holds(vt, p) => /\ UsageIn(R, p) = UsageIn(vt, p)
                                                                   /\ PlaceIn(R, p) = PlaceIn(vt, p)
    BY DEF NewPages
  <2>1. a <= p /\ p < a + n => Holds(R, p) /\ UsageIn(R, p) = u /\ PlaceIn(R, p) = q + (p - a)
    BY <1>3, <1>6, <1>7, PageIn DEF Laid
  <2>2. ASSUME Holds(vt, p)
        PROVE  Holds(R, p) /\ UsageIn(R, p) = UsageIn(vt, p) /\ PlaceIn(R, p) = PlaceIn(vt, p)
    <3>1. PICK k \in DOMAIN vt : k <= p /\ p < EndOf(vt, k)
      BY <2>2, HoldsSlot
    <3>2. UsageIn(vt, p) = vt[k].usage /\ PlaceIn(vt, p) = vt[k].physical + (p - k)
      BY <3>1, PageIn DEF Laid
    <3>3. k \in DOMAIN R /\ R[k] = vt[k] /\ EndOf(R, k) = EndOf(vt, k)
      BY <1>3, <1>4
    <3>4. Holds(R, p) /\ UsageIn(R, p) = R[k].usage /\ PlaceIn(R, p) = R[k].physical + (p - k)
      BY <1>7, <3>1, <3>3, PageIn DEF Laid
    <3> QED
      BY <3>2, <3>3, <3>4
  <2>3. ASSUME Holds(R, p), p < a \/ a + n <= p
        PROVE  Holds(vt, p)
    <3>1. PICK k \in DOMAIN R : k <= p /\ p < EndOf(R, k)
      BY <2>3, HoldsSlot
    <3>2. k # a
      BY <1>6, <2>3, <3>1
    <3>3. k \in DOMAIN vt /\ EndOf(vt, k) = EndOf(R, k)
      BY <1>3, <1>4, <3>2
    <3> QED
      BY <3>1, <3>3, PageIn DEF Laid
  <2> QED
    BY <2>1, <2>2, <2>3
<1> QED
  BY <1>3, <1>7, <1>8, <1>9

\* Splitting or merging slots after a range was added leaves the range as it is.
LEMMA NewPagesTrans ==
    ASSUME NEW vt, NEW m, NEW R, NEW a, NEW n, NEW q, NEW u,
           NewPages(vt, m, a, n, q, u), SamePages(m, R)
    PROVE  NewPages(vt, R, a, n, q, u)
BY DEF NewPages, SamePages

\* An extended slot is the slot with a new one behind it, merged if both may be used alike.
LEMMA ExtendIs ==
    ASSUME NEW vt, Laid(vt), NEW k \in DOMAIN vt, NEW n \in Nat, n > 0, NEW u \in SUBSET Rights,
           EndOf(vt, k) \notin DOMAIN vt
    PROVE  Extend(vt, k, n, u) =
                VirtMergePrev(Put(vt, EndOf(vt, k), Slot(PhysEnd(vt[k]), n, u)), EndOf(vt, k))
<1> DEFINE a == EndOf(vt, k)
           q == PhysEnd(vt[k])
<1>1. PICK new : new = Put(vt, a, Slot(q, n, u))
  OBVIOUS
<1>2. /\ k \in Nat /\ a \in Nat /\ a = k + vt[k].size /\ k # a /\ k < a
      /\ vt[k] \in [physical : Nat, size : Nat, usage : SUBSET Rights]
      /\ q = vt[k].physical + vt[k].size
  BY LaidSlot DEF Laid
<1>3. \A j : j \in DOMAIN new <=> j \in DOMAIN vt \/ j = a
  BY <1>1 DEF Put
<1>4. (\A j \in DOMAIN vt : new[j] = vt[j]) /\ new[a] = Slot(q, n, u)
  BY <1>1 DEF Put
<1>5. \A i, j \in DOMAIN vt : (i < j => EndOf(vt, i) <= j) /\ i \in Nat /\ EndOf(vt, i) \in Nat /\ i < EndOf(vt, i)
  BY LaidSlot DEF Laid, Ordered
<1>6. /\ EndOf(new, k) = a /\ PhysEnd(new[k]) = q /\ new[a].physical = q /\ new[a].usage = u
      /\ new[a].size = n
  BY <1>4 DEF EndOf, PhysEnd, Slot
<1>7. \A j \in DOMAIN new : EndOf(new, j) = a => j = k
  <2>1. EndOf(new, a) # a
    BY <1>2, <1>6 DEF EndOf
  <2>2. \A j \in DOMAIN vt : EndOf(new, j) = EndOf(vt, j)
    BY <1>4 DEF EndOf
  <2> QED
    BY <1>2, <1>3, <1>5, <2>1, <2>2
<1>8. VirtMergePrev(new, a) = IF vt[k].usage = u
                              THEN Erase(Resize(new, k, new[k].size + new[a].size), a) ELSE new
  <2>1. PrevOf(new, a) = k
    <3>1. k \in Before(new, a) /\ \A j \in Before(new, a) : j <= k
      BY <1>2, <1>3, <1>5 DEF Before
    <3>2. Before(new, a) \in SUBSET Int
      BY <1>2, <1>3, <1>5 DEF Before
    <3> QED
      BY <3>1, <3>2, MaxIs DEF PrevOf
  <2>2. (\E j \in DOMAIN new : /\ EndOf(new, j) = a /\ new[j].usage = new[a].usage
                               /\ PhysEnd(new[j]) = new[a].physical) <=> vt[k].usage = u
    BY <1>3, <1>4, <1>6, <1>7
  <2> HIDE DEF a
  <2> QED
    BY <2>1, <2>2, Zenon DEF VirtMergePrev
<1>9. CASE vt[k].usage = u
  <2>1. PICK M : M = Erase(Resize(new, k, new[k].size + new[a].size), a)
    OBVIOUS
  <2>2. PICK L : L = Resize(vt, k, vt[k].size + n)
    OBVIOUS
  <2>3. Extend(vt, k, n, u) = L
    BY <1>9, <2>2 DEF Extend
  <2>4. DOMAIN L = DOMAIN vt /\ DOMAIN M = DOMAIN vt
    BY <1>2, <1>3, <2>1, <2>2 DEF Erase, Resize, Restrict
  <2>5. \A j \in DOMAIN vt : L[j] = M[j]
    BY <1>2, <1>3, <1>4, <1>6, <2>1, <2>2 DEF Erase, Resize, Restrict
  <2>6. L = [j \in DOMAIN L |-> L[j]] /\ M = [j \in DOMAIN M |-> M[j]]
    BY <2>1, <2>2 DEF Erase, Resize, Restrict
  <2>7. L = M
    BY <2>4, <2>5, <2>6
  <2> QED
    BY <1>1, <1>8, <1>9, <2>1, <2>3, <2>7
<1>10. CASE vt[k].usage # u
  <2>1. PICK L : L = [VirtSplit(Resize(vt, k, vt[k].size + n), k, a) EXCEPT ![a].usage = u]
    OBVIOUS
  <2>2. Extend(vt, k, n, u) = L
    BY <1>10, <2>1 DEF Extend
  <2>3. PICK S : S = VirtSplit(Resize(vt, k, vt[k].size + n), k, a)
    OBVIOUS
  <2>4. PICK F : F = Resize(vt, k, vt[k].size + n)
    OBVIOUS
  <2>5. DOMAIN F = DOMAIN vt /\ (\A j \in DOMAIN vt : j # k => F[j] = vt[j])
        /\ F[k] = [physical |-> vt[k].physical, size |-> vt[k].size + n, usage |-> vt[k].usage]
    BY <1>2, <2>4 DEF Resize
  <2>6. EndOf(F, k) - a = n
    BY <1>2, <2>5 DEF EndOf
  <2>7. /\ DOMAIN S = DOMAIN new /\ (\A j \in DOMAIN vt : j # k => S[j] = vt[j])
        /\ S[k] = [physical |-> vt[k].physical, size |-> a - k, usage |-> vt[k].usage]
        /\ S[a] = [physical |-> vt[k].physical + (a - k), size |-> n, usage |-> vt[k].usage]
    BY <1>1, <1>2, <2>3, <2>4, <2>5, <2>6 DEF VirtSplit, Put, Resize
  <2>8. S[k] = vt[k] /\ vt[k].physical + (a - k) = q
    BY <1>2, <2>7
  <2>9. /\ DOMAIN L = DOMAIN new /\ (\A j \in DOMAIN vt : L[j] = vt[j])
        /\ L[a] = Slot(q, n, u)
    <3>1. L = [S EXCEPT ![a].usage = u] /\ a \in DOMAIN S
      BY <1>3, <2>1, <2>3, <2>7
    <3> HIDE DEF a
    <3>2. DOMAIN L = DOMAIN new /\ \A j \in DOMAIN vt : j # a => L[j] = S[j]
      BY <1>3, <2>7, <3>1
    <3>3. \A j \in DOMAIN vt : L[j] = vt[j]
      BY <2>7, <2>8, <3>2 DEF a
    <3>4. L[a] = [physical |-> vt[k].physical + (a - k), size |-> n, usage |-> u]
      BY <2>7, <3>1
    <3> QED
      BY <2>8, <3>2, <3>3, <3>4 DEF Slot
  <2>10. L = [j \in DOMAIN L |-> L[j]] /\ new = [j \in DOMAIN new |-> new[j]]
    BY <1>1, <2>1 DEF Put
  <2>11. \A j \in DOMAIN new : L[j] = new[j]
    BY <1>3, <1>4, <2>9
  <2>12. L = new
    BY <2>9, <2>10, <2>11
  <2> QED
    BY <1>1, <1>8, <1>10, <2>2, <2>12
<1> QED
  BY <1>9, <1>10

-----------------------------------------------------------------------------
(* Slots next to each other. *)

\* the slots from f to k, every one but f with one right before it
Run(vt, f, k) ==
    /\ f \in DOMAIN vt /\ k \in DOMAIN vt /\ f <= k
    /\ \A s \in DOMAIN vt : f < s /\ s <= k => \E t \in DOMAIN vt : EndOf(vt, t) = s

\* A run lies in physical memory as it does in the virtual one: in one slot, and by itself.
LEMMA RunPlaced ==
    ASSUME NEW vt, Laid(vt), NEW ph, NEW e, TiledTo(ph, e), Backing(vt, ph), NEW f, NEW k, Run(vt, f, k)
    PROVE  /\ \A s \in DOMAIN vt : f <= s /\ s <= k =>
                    /\ vt[s].physical = vt[f].physical + (s - f)
                    /\ PhysEnd(vt[s]) <= PhysEnd(vt[k])
           /\ PhysEnd(vt[k]) = vt[f].physical + (EndOf(vt, k) - f)
           /\ LiesIn(ph, vt[f].physical, PhysEnd(vt[k]), 1)
           /\ \A s \in DOMAIN vt : s < f \/ k < s =>
                    PhysEnd(vt[s]) <= vt[f].physical \/ PhysEnd(vt[k]) <= vt[s].physical
<1>1. \A j \in DOMAIN vt : /\ j \in Nat /\ EndOf(vt, j) \in Nat /\ j < EndOf(vt, j)
                           /\ EndOf(vt, j) = j + vt[j].size /\ vt[j].size \in Nat
                           /\ PhysEnd(vt[j]) = vt[j].physical + vt[j].size
                           /\ vt[j].physical \in Nat /\ PhysEnd(vt[j]) \in Nat
                           /\ vt[j].physical < PhysEnd(vt[j])
  BY LaidSlot
<1>2. f \in DOMAIN vt /\ k \in DOMAIN vt /\ f <= k
  BY DEF Run
<1>3. PICK x \in DOMAIN ph : ph[x].users = 1 /\ x <= vt[f].physical /\ PhysEnd(vt[f]) <= EndOf(ph, x)
  BY <1>2 DEF Backing, LiesIn
<1>4. x \in Nat /\ EndOf(ph, x) \in Nat
  BY DEF TiledTo, EndOf
<1> DEFINE Good(s) ==
        /\ vt[s].physical = vt[f].physical + (s - f)
        /\ PhysEnd(vt[s]) <= EndOf(ph, x)
        /\ \A i \in DOMAIN vt : i < f \/ k < i =>
                PhysEnd(vt[i]) <= vt[f].physical \/ PhysEnd(vt[s]) <= vt[i].physical
           Bad == {s \in DOMAIN vt : f <= s /\ s <= k /\ ~Good(s)}
<1>5. \A i, j \in DOMAIN vt : i # j => PhysEnd(vt[i]) <= vt[j].physical \/ PhysEnd(vt[j]) <= vt[i].physical
  BY DEF Backing
<1>6. Good(f)
  BY <1>1, <1>2, <1>3, <1>4, <1>5
<1>7. ASSUME NEW t \in DOMAIN vt, NEW s \in DOMAIN vt, f <= t, s <= k, EndOf(vt, t) = s, Good(t)
      PROVE  Good(s)
  <2>1. vt[s].physical = PhysEnd(vt[t]) /\ vt[s].physical \notin DOMAIN ph
    BY <1>7 DEF Backing
  <2>2. vt[s].physical = vt[f].physical + (s - f)
    BY <1>1, <1>2, <1>7, <2>1
  <2>3. PICK y \in DOMAIN ph : ph[y].users = 1 /\ y <= vt[s].physical /\ PhysEnd(vt[s]) <= EndOf(ph, y)
    BY DEF Backing, LiesIn
  <2>4. y \in Nat /\ EndOf(ph, y) \in Nat
    BY DEF TiledTo, EndOf
  <2>5. x = y
    <3>1. x <= PhysEnd(vt[t]) - 1 /\ PhysEnd(vt[t]) - 1 < EndOf(ph, x)
      BY <1>1, <1>2, <1>3, <1>4, <1>7
    <3>2. y <= PhysEnd(vt[t]) - 1 /\ PhysEnd(vt[t]) - 1 < EndOf(ph, y)
      BY <1>1, <2>1, <2>3, <2>4
    <3>3. PhysEnd(vt[t]) - 1 \in Int
      BY <1>1
    <3> QED
      BY <3>1, <3>2, <3>3, OneSlot, TiledOrdered
  <2>6. ASSUME NEW i \in DOMAIN vt, i < f \/ k < i
        PROVE  PhysEnd(vt[i]) <= vt[f].physical \/ PhysEnd(vt[s]) <= vt[i].physical
    <3>1. PhysEnd(vt[i]) <= vt[f].physical \/ PhysEnd(vt[t]) <= vt[i].physical
      BY <1>7, <2>6
    <3>2. i # s
      BY <1>1, <1>2, <1>7, <2>6
    <3>3. PhysEnd(vt[i]) <= vt[s].physical \/ PhysEnd(vt[s]) <= vt[i].physical
      BY <1>5, <3>2
    <3> QED
      BY <1>1, <2>1, <3>1, <3>3
  <2> QED
    BY <2>2, <2>3, <2>5, <2>6
<1>8. Bad = {}
  <2> SUFFICES ASSUME Bad # {}
               PROVE  FALSE
    OBVIOUS
  <2>1. Bad \in SUBSET Nat
    BY <1>1
  <2>2. PICK s \in Bad : \A i \in Bad : s <= i
    <3> HIDE DEF Bad
    <3> QED
      BY <2>1, LeastNumber
  <2>3. s \in DOMAIN vt /\ f <= s /\ s <= k /\ ~Good(s)
    OBVIOUS
  <2> HIDE DEF Bad, Good
  <2>4. f < s
    BY <1>1, <1>2, <1>6, <2>3
  <2>5. PICK t \in DOMAIN vt : EndOf(vt, t) = s
    BY <2>3, <2>4 DEF Run
  <2>6. t < s /\ f <= t
    <3>1. t < s
      BY <1>1, <2>5
    <3>2. t < f => EndOf(vt, t) <= f
      BY <1>2 DEF Laid, Ordered
    <3> QED
      BY <1>1, <1>2, <2>3, <2>4, <2>5, <3>1, <3>2
  <2>7. t \notin Bad
    BY <1>1, <2>2, <2>3, <2>6
  <2>8. Good(t)
    BY <1>1, <1>2, <2>3, <2>6, <2>7 DEF Bad
  <2> QED
    BY <1>7, <2>3, <2>5, <2>6, <2>8
<1>9. \A s \in DOMAIN vt : f <= s /\ s <= k => Good(s)
  BY <1>8
<1>10. PhysEnd(vt[k]) = vt[f].physical + (EndOf(vt, k) - f)
  BY <1>1, <1>2, <1>9
<1>11. ASSUME NEW s \in DOMAIN vt, f <= s, s <= k
       PROVE  PhysEnd(vt[s]) <= PhysEnd(vt[k])
  <2>1. s < k => EndOf(vt, s) <= k
    BY <1>2 DEF Laid, Ordered
  <2> QED
    BY <1>1, <1>2, <1>9, <1>11, <2>1
<1>12. LiesIn(ph, vt[f].physical, PhysEnd(vt[k]), 1)
  BY <1>1, <1>2, <1>3, <1>9 DEF LiesIn
<1> QED
  BY <1>2, <1>1, <1>9, <1>10, <1>11, <1>12

\* The lowest slot from which all up to k are in L.
LEMMA Downward ==
    ASSUME NEW vt, Laid(vt), NEW k \in DOMAIN vt, NEW L, NEW T,
           \A f : f \in T <=> f \in DOMAIN vt /\ f <= k /\ \A s \in DOMAIN vt : f < s /\ s <= k => s \in L
    PROVE  /\ Min(T) \in DOMAIN vt /\ Min(T) <= k
           /\ \A s \in DOMAIN vt : Min(T) < s /\ s <= k => s \in L
           /\ \A t \in DOMAIN vt : EndOf(vt, t) = Min(T) => Min(T) \notin L
<1>1. \A j \in DOMAIN vt : j \in Nat /\ EndOf(vt, j) \in Nat /\ j < EndOf(vt, j)
  BY LaidSlot
<1>2. T \in SUBSET Nat /\ k \in T
  BY <1>1
<1>3. PICK f \in T : \A j \in T : f <= j
  BY <1>2, LeastNumber
<1>4. Min(T) = f
  BY <1>2, <1>3, MinIs
<1>5. f \in DOMAIN vt /\ f <= k /\ \A s \in DOMAIN vt : f < s /\ s <= k => s \in L
  BY <1>3
<1>6. ASSUME NEW t \in DOMAIN vt, EndOf(vt, t) = f, f \in L
      PROVE  FALSE
  <2>1. t < f /\ t \notin T
    BY <1>1, <1>3, <1>5, <1>6
  <2>2. ASSUME NEW s \in DOMAIN vt, t < s, s <= k
        PROVE  s \in L
    <3>1. f <= s
      BY <1>6, <2>2 DEF Laid, Ordered
    <3> QED
      BY <1>1, <1>5, <1>6, <2>2, <3>1
  <2> QED
    BY <1>1, <1>5, <2>1, <2>2
<1> QED
  BY <1>4, <1>5, <1>6

\* The highest one up to which all from k are.
LEMMA Upward ==
    ASSUME NEW vt, Laid(vt), NEW k \in DOMAIN vt, NEW L, NEW T,
           \A l : l \in T <=> l \in DOMAIN vt /\ k <= l /\ \A s \in DOMAIN vt : k <= s /\ s < l => s \in L
    PROVE  /\ Max(T) \in DOMAIN vt /\ k <= Max(T)
           /\ \A s \in DOMAIN vt : k <= s /\ s < Max(T) => s \in L
           /\ EndOf(vt, Max(T)) \in DOMAIN vt => Max(T) \notin L
<1>1. \A j \in DOMAIN vt : /\ j \in Nat /\ EndOf(vt, j) \in Nat /\ j < EndOf(vt, j)
                           /\ EndOf(vt, j) <= PageCount
  BY LaidSlot
<1>2. T \in SUBSET Nat /\ k \in T /\ PageCount \in Nat /\ \A j \in T : j <= PageCount
  BY <1>1, MemoryAssumption
<1>3. PICK l \in T : \A j \in T : j <= l
  BY <1>2, GreatestNumber
<1>4. Max(T) = l
  BY <1>2, <1>3, MaxIs
<1>5. l \in DOMAIN vt /\ k <= l /\ \A s \in DOMAIN vt : k <= s /\ s < l => s \in L
  BY <1>3
<1>6. ASSUME EndOf(vt, l) \in DOMAIN vt, l \in L
      PROVE  FALSE
  <2>1. l < EndOf(vt, l) /\ EndOf(vt, l) \notin T
    BY <1>1, <1>3, <1>5, <1>6
  <2>2. ASSUME NEW s \in DOMAIN vt, k <= s, s < EndOf(vt, l)
        PROVE  s \in L
    <3>1. l < s => EndOf(vt, l) <= s
      BY <1>5 DEF Laid, Ordered
    <3>2. s <= l
      BY <1>1, <1>5, <2>2, <3>1
    <3> QED
      BY <1>1, <1>5, <1>6, <2>2, <3>2
  <2> QED
    BY <1>1, <1>5, <1>6, <2>1, <2>2
<1> QED
  BY <1>4, <1>5, <1>6

\* The neighbors below a slot reach down to where none is mapped any more.
LEMMA FirstIs ==
    ASSUME NEW e, Laid(virt), TiledTo(phys, e), Backing(virt, phys), NEW k \in DOMAIN virt
    PROVE  /\ Run(virt, FirstOf(k), k)
           /\ \A t \in DOMAIN virt : EndOf(virt, t) # FirstOf(k)
<1> DEFINE start == SlotAt(phys, virt[k].physical)
           linked(s) == \E t \in DOMAIN virt : /\ EndOf(virt, t) = s
                                               /\ PhysEnd(virt[t]) = virt[s].physical
                                               /\ virt[s].physical # start
           L == {s \in DOMAIN virt : linked(s)}
           T == {f \in DOMAIN virt : f <= k /\ \A s \in DOMAIN virt : f < s /\ s <= k => linked(s)}
<1>1. start \in DOMAIN phys
  <2>1. PICK j \in DOMAIN phys : j <= virt[k].physical /\ PhysEnd(virt[k]) <= EndOf(phys, j)
    BY DEF Backing, LiesIn
  <2>2. j <= virt[k].physical /\ virt[k].physical < EndOf(phys, j) /\ virt[k].physical \in Int
    BY <2>1, LaidSlot, NextIs DEF TiledTo
  <2> QED
    BY <2>2, SlotAtIs, TiledOrdered
<1>2. FirstOf(k) = Min(T)
  BY DEF FirstOf, VirtEnd
<1>3. \A s \in DOMAIN virt : s \in L <=> \E t \in DOMAIN virt : EndOf(virt, t) = s
  BY <1>1 DEF Backing
<1>4. \A f : f \in T <=> /\ f \in DOMAIN virt /\ f <= k
                         /\ \A s \in DOMAIN virt : f < s /\ s <= k => s \in L
  OBVIOUS
<1>5. /\ Min(T) \in DOMAIN virt /\ Min(T) <= k
      /\ \A s \in DOMAIN virt : Min(T) < s /\ s <= k => s \in L
      /\ \A t \in DOMAIN virt : EndOf(virt, t) = Min(T) => Min(T) \notin L
  <2> HIDE DEF T, L
  <2> QED
    BY <1>4, Downward
<1> QED
  <2> HIDE DEF T, L
  <2> QED
    BY <1>2, <1>3, <1>5 DEF Run

\* The neighbors above reach up to where none is, if no physical slot ends between them.
LEMMA FinalIs ==
    ASSUME NEW e, Laid(virt), NEW ph, TiledTo(ph, e), NEW k \in DOMAIN virt,
           \A s \in DOMAIN virt : LiesIn(ph, virt[s].physical, PhysEnd(virt[s]), 1),
           \A s \in DOMAIN virt : \A t \in DOMAIN virt : EndOf(virt, s) = t /\ k <= s =>
                virt[t].physical = PhysEnd(virt[s]) /\ virt[t].physical \notin DOMAIN ph
    PROVE  Run(virt, k, FinalOf(ph, k)) /\ EndOf(virt, FinalOf(ph, k)) \notin DOMAIN virt
<1> DEFINE end == EndOf(ph, SlotAt(ph, virt[k].physical))
           linked(s) == /\ EndOf(virt, s) \in DOMAIN virt
                        /\ virt[EndOf(virt, s)].physical = PhysEnd(virt[s])
                        /\ PhysEnd(virt[s]) # end
           L == {s \in DOMAIN virt : linked(s)}
           T == {l \in DOMAIN virt : k <= l /\ \A s \in DOMAIN virt : k <= s /\ s < l => linked(s)}
<1>1. end = e \/ end \in DOMAIN ph
  <2>1. PICK j \in DOMAIN ph : j <= virt[k].physical /\ PhysEnd(virt[k]) <= EndOf(ph, j)
    BY DEF LiesIn
  <2>2. j <= virt[k].physical /\ virt[k].physical < EndOf(ph, j) /\ virt[k].physical \in Int
    BY <2>1, LaidSlot, NextIs DEF TiledTo
  <2>3. SlotAt(ph, virt[k].physical) = j
    BY <2>2, SlotAtIs, TiledOrdered
  <2> QED
    BY <2>3 DEF TiledTo
<1>2. \A s \in DOMAIN virt : virt[s].physical < e
  <2> TAKE s \in DOMAIN virt
  <2>1. virt[s].physical \in Int /\ PhysEnd(virt[s]) \in Int /\ virt[s].physical < PhysEnd(virt[s])
    BY LaidSlot
  <2>2. PhysEnd(virt[s]) <= e
    BY <2>1, LiesBelow
  <2> QED
    BY <2>1, <2>2 DEF TiledTo
<1>3. FinalOf(ph, k) = Max(T)
  BY DEF FinalOf, VirtEnd
<1>4. \A s \in DOMAIN virt : k <= s => (s \in L <=> EndOf(virt, s) \in DOMAIN virt)
  <2> TAKE s \in DOMAIN virt
  <2> HAVE k <= s
  <2>1. ASSUME EndOf(virt, s) \in DOMAIN virt
        PROVE  linked(s)
    <3>1. PICK t \in DOMAIN virt : EndOf(virt, s) = t
      BY <2>1
    <3>2. virt[t].physical = PhysEnd(virt[s]) /\ virt[t].physical \notin DOMAIN ph
      BY <3>1
    <3>3. virt[t].physical # e
      BY <1>2, LaidSlot DEF TiledTo
    <3> QED
      BY <1>1, <3>1, <3>2, <3>3
  <2> QED
    BY <2>1
<1>5. \A l : l \in T <=> /\ l \in DOMAIN virt /\ k <= l
                         /\ \A s \in DOMAIN virt : k <= s /\ s < l => s \in L
  OBVIOUS
<1>6. /\ Max(T) \in DOMAIN virt /\ k <= Max(T)
      /\ \A s \in DOMAIN virt : k <= s /\ s < Max(T) => s \in L
      /\ EndOf(virt, Max(T)) \in DOMAIN virt => Max(T) \notin L
  <2> HIDE DEF T, L
  <2> QED
    BY <1>5, Upward
<1>7. ASSUME NEW s \in DOMAIN virt, k < s, s <= Max(T)
      PROVE  \E t \in DOMAIN virt : EndOf(virt, t) = s
  <2> DEFINE B == {t \in DOMAIN virt : t < s}
  <2>1. \A j \in DOMAIN virt : j \in Nat /\ EndOf(virt, j) \in Nat /\ j < EndOf(virt, j)
    BY LaidSlot
  <2>2. B \in SUBSET Nat /\ k \in B /\ \A t \in B : t <= s
    BY <1>7, <2>1
  <2>3. PICK t \in B : \A j \in B : j <= t
    <3> HIDE DEF B
    <3> QED
      BY <2>1, <2>2, GreatestNumber
  <2>4. t \in DOMAIN virt /\ t < s /\ k <= t /\ t < Max(T)
    <3> HIDE DEF T
    <3> QED
      BY <1>6, <1>7, <2>1, <2>2, <2>3
  <2>5. EndOf(virt, t) \in DOMAIN virt
    <3> HIDE DEF T, L
    <3> QED
      BY <1>4, <1>6, <2>4
  <2>6. EndOf(virt, t) <= s
    BY <2>4 DEF Laid, Ordered
  <2>7. EndOf(virt, t) \notin B
    BY <2>1, <2>3, <2>4
  <2> QED
    BY <2>1, <2>4, <2>5, <2>6, <2>7
<1> QED
  <2> HIDE DEF T, L
  <2> QED
    BY <1>3, <1>4, <1>6, <1>7 DEF Run

-----------------------------------------------------------------------------
(* Growing. *)

\* Rounding up to a physical page does not lose any.
LEMMA RoundUpIs ==
    ASSUME NEW n \in Nat
    PROVE  RoundUp(n) \in Nat /\ RoundUp(n) >= n
<1>1. Granule \in Nat /\ Granule > 0
  BY MemoryAssumption
<1> DEFINE m == n + Granule - 1
<1>2. m \in Nat /\ m \div Granule \in Nat
  BY <1>1
<1>3. m = (m \div Granule) * Granule + (m % Granule) /\ m % Granule \in 0 .. Granule - 1
  BY <1>1, <1>2
<1> QED
  BY <1>1, <1>2, <1>3 DEF RoundUp

\* The memory grows by what was asked for, or not at all.
LEMMA ExpansionIs ==
    ASSUME NEW size \in Nat, NEW growth \in Nat, Grown \in Nat
    PROVE  Expansion(size, growth) \in Nat /\ (Expansion(size, growth) # 0 => Expansion(size, growth) >= size)
<1>1. MinGrowth \in Nat
  BY MemoryAssumption
<1> DEFINE most == Max({MinGrowth, size + growth})
<1>2. most \in Nat /\ most >= size
  <2>0. PICK S : S = {MinGrowth, size + growth}
    OBVIOUS
  <2>4. S \in SUBSET Int /\ MinGrowth \in S /\ size + growth \in S
    BY <1>1, <2>0
  <2>1. CASE MinGrowth <= size + growth
    <3>1. Max(S) = size + growth
      BY <1>1, <2>0, <2>1, <2>4, MaxIs
    <3> QED
      BY <2>0, <3>1
  <2>2. CASE ~(MinGrowth <= size + growth)
    <3>1. Max(S) = MinGrowth
      BY <1>1, <2>0, <2>2, <2>4, MaxIs
    <3> QED
      BY <1>1, <2>0, <2>2, <3>1
  <2> QED
    BY <2>1, <2>2
<1>3. RoundUp(most) \in Nat /\ RoundUp(most) >= size /\ RoundUp(size) \in Nat /\ RoundUp(size) >= size
  <2> HIDE DEF most
  <2> QED
    BY <1>2, RoundUpIs
<1>4. Expansion(size, growth) \in {RoundUp(most), RoundUp(size), 0}
  BY DEF Expansion
<1> QED
  BY <1>3, <1>4

\* a slot with so many pages more
Grow(ph, k, m) == Resize(ph, k, ph[k].size + m)

\* The last slot becomes longer.
LEMMA GrowAt ==
    ASSUME NEW ph, NEW e, TiledTo(ph, e), NEW k \in DOMAIN ph, EndOf(ph, k) = e, NEW m \in Nat
    PROVE  /\ TiledTo(Grow(ph, k, m), e + m)
           /\ \A j : j \in DOMAIN Grow(ph, k, m) <=> j \in DOMAIN ph
           /\ EndOf(Grow(ph, k, m), k) = e + m
           /\ Grow(ph, k, m)[k].users = ph[k].users
           /\ \A j \in DOMAIN ph : j # k => Grow(ph, k, m)[j] = ph[j]
           /\ \A f, t \in Int : \A u : LiesIn(ph, f, t, u) => LiesIn(Grow(ph, k, m), f, t, u)
<1>0. PICK R : R = Grow(ph, k, m)
  OBVIOUS
<1> USE <1>0
<1>1. k \in Nat /\ ph[k] \in [size : Nat \ {0}, users : {0, 1}] /\ e \in Nat /\ k < e
  BY DEF TiledTo
<1>2. DOMAIN R = DOMAIN ph /\ \A j \in DOMAIN ph : j # k => R[j] = ph[j]
  BY DEF Grow, Resize
<1>3. R[k] = [size |-> ph[k].size + m, users |-> ph[k].users]
  BY <1>1 DEF Grow, Resize
<1>4. EndOf(R, k) = e + m /\ \A j \in DOMAIN ph : j # k => EndOf(R, j) = EndOf(ph, j)
  BY <1>1, <1>2, <1>3 DEF EndOf
<1>5. \A i, j \in DOMAIN ph : i < j => EndOf(ph, i) <= j
  BY DEF TiledTo
<1>6. \A j \in DOMAIN ph : j \in Nat /\ j < e /\ j <= k /\ EndOf(ph, j) \in Nat /\ j < EndOf(ph, j)
                           /\ EndOf(ph, j) <= e
  <2> TAKE j \in DOMAIN ph
  <2>1. j \in Nat /\ j < e /\ EndOf(ph, j) \in Nat /\ j < EndOf(ph, j) /\ EndOf(ph, j) <= e
    BY NextIs DEF TiledTo
  <2> QED
    BY <1>1, <1>5, <2>1
<1>7. ASSUME NEW j \in DOMAIN ph, j # k
      PROVE  EndOf(ph, j) \in DOMAIN ph
  <2>1. EndOf(ph, j) <= k
    BY <1>1, <1>5, <1>6, <1>7
  <2> QED
    BY <1>1, <1>6, <2>1 DEF TiledTo
<1>8. ASSUME NEW j \in DOMAIN R
      PROVE  /\ j \in Nat /\ j < e + m
             /\ R[j] \in [size : Nat \ {0}, users : {0, 1}]
             /\ EndOf(R, j) = e + m \/ EndOf(R, j) \in DOMAIN R
  <2>1. CASE j = k
    BY <1>1, <1>2, <1>3, <1>4, <2>1
  <2>2. CASE j # k
    <3>1. R[j] \in [size : Nat \ {0}, users : {0, 1}]
      BY <1>2, <2>2 DEF TiledTo
    <3> QED
      BY <1>1, <1>2, <1>4, <1>6, <1>7, <2>2, <3>1
  <2> QED
    BY <2>1, <2>2
<1>9. ASSUME NEW i \in DOMAIN R, NEW j \in DOMAIN R, i < j
      PROVE  EndOf(R, i) <= j
  BY <1>1, <1>2, <1>4, <1>5, <1>6, <1>9
<1>10. TiledTo(R, e + m)
  BY <1>1, <1>2, <1>8, <1>9 DEF TiledTo
<1>11. ASSUME NEW f \in Int, NEW t \in Int, NEW u, LiesIn(ph, f, t, u)
       PROVE  LiesIn(R, f, t, u)
  <2>1. PICK j \in DOMAIN ph : ph[j].users = u /\ j <= f /\ t <= EndOf(ph, j)
    BY <1>11 DEF LiesIn
  <2>2. R[j].users = u /\ t <= EndOf(R, j)
    BY <1>1, <1>2, <1>3, <1>4, <2>1
  <2> QED
    BY <1>2, <2>1, <2>2 DEF LiesIn
<1> QED
  BY <1>2, <1>3, <1>4, <1>10, <1>11

\* Memory for so many pages: a free slot that is long enough, the others as they are.
LEMMA AllocateIs ==
    ASSUME NEW ph, NEW e, TiledTo(ph, e), NEW size \in Nat, NEW growth \in Nat, size > 0, Grown \in Nat
    PROVE  /\ Allocate(ph, size, growth).growth \in Nat
           /\ TiledTo(Allocate(ph, size, growth).phys, e + Allocate(ph, size, growth).growth)
           /\ \A f, t \in Int : \A u : LiesIn(ph, f, t, u) /\ f < t
                    => LiesIn(Allocate(ph, size, growth).phys, f, t, u)
           /\ \A j : j \in DOMAIN Allocate(ph, size, growth).phys => j \in DOMAIN ph \/ j = e
           /\ \A j \in DOMAIN ph : ph[j].users # 0 =>
                    /\ j \in DOMAIN Allocate(ph, size, growth).phys
                    /\ EndOf(Allocate(ph, size, growth).phys, j) = EndOf(ph, j)
                    /\ Allocate(ph, size, growth).phys[j].users = ph[j].users
           /\ \A k \in Allocate(ph, size, growth).slot :
                    /\ k \in DOMAIN Allocate(ph, size, growth).phys
                    /\ LiesIn(Allocate(ph, size, growth).phys, k, k + size, 0)
<1>1. PICK more \in Nat : more = Expansion(size, growth) /\ (more # 0 => more >= size)
  BY ExpansionIs
<1>2. PICK last \in DOMAIN ph : last = LastOf(ph) /\ EndOf(ph, last) = e /\ e \in Nat /\ last \in Nat /\ last < e
  BY LastIs DEF TiledTo
<1> DEFINE roomy == {k \in DOMAIN ph : ph[k].users = 0 /\ ph[k].size >= size}
           longer == Grow(ph, last, more)
           start == EndOf(ph, last)
           A == Allocate(ph, size, growth)
           fresh == [PhysSplit(longer, last, start) EXCEPT ![start].users = 0]
<1>3. CASE roomy # {}
  <2>1. A = [growth |-> 0, phys |-> ph, slot |-> {Min(roomy)}]
    BY <1>1, <1>2, <1>3 DEF Allocate
  <2>2. roomy \in SUBSET Nat
    BY DEF TiledTo
  <2>3. PICK k \in roomy : \A j \in roomy : k <= j
    <3> HIDE DEF roomy
    <3> QED
      BY <1>3, <2>2, LeastNumber
  <2>4. Min(roomy) = k
    <3> HIDE DEF roomy
    <3> QED
      BY <2>2, <2>3, MinIs
  <2>5. k \in DOMAIN ph /\ ph[k].users = 0 /\ ph[k].size >= size
    OBVIOUS
  <2> HIDE DEF roomy
  <2>6. k \in Nat /\ ph[k].size \in Nat
    BY <2>5 DEF TiledTo
  <2>7. LiesIn(ph, k, k + size, 0)
    BY <2>5, <2>6 DEF LiesIn, EndOf
  <2>8. A.growth = 0 /\ A.phys = ph /\ A.slot = {k}
    BY <2>1, <2>4
  <2> HIDE DEF A
  <2>9. TiledTo(A.phys, e + A.growth)
    BY <1>2, <2>8
  <2> QED
    BY <2>5, <2>7, <2>8, <2>9 DEF A
<1>4. CASE roomy = {} /\ more = 0
  <2>1. A = [growth |-> 0, phys |-> ph, slot |-> {}]
    BY <1>1, <1>2, <1>4 DEF Allocate
  <2>2. A.growth = 0 /\ A.phys = ph /\ A.slot = {}
    BY <2>1
  <2> HIDE DEF A
  <2>3. TiledTo(A.phys, e + A.growth)
    BY <1>2, <2>2
  <2> QED
    BY <2>2, <2>3 DEF A
<1>5. ASSUME more > 0
      PROVE  /\ TiledTo(longer, e + more)
             /\ \A j : j \in DOMAIN longer <=> j \in DOMAIN ph
             /\ EndOf(longer, last) = e + more
             /\ longer[last].users = ph[last].users
             /\ \A j \in DOMAIN ph : j # last => longer[j] = ph[j]
             /\ \A f, t \in Int : \A u : LiesIn(ph, f, t, u) => LiesIn(longer, f, t, u)
  <2>1. PICK m \in Nat : m = more
    BY <1>1
  <2>2. longer = Grow(ph, last, m)
    BY <2>1
  <2> HIDE DEF longer
  <2>3. TiledTo(longer, e + m)
    BY <1>2, <2>2, GrowAt
  <2>4. \A j : j \in DOMAIN longer <=> j \in DOMAIN ph
    BY <1>2, <2>2, GrowAt
  <2>5. EndOf(longer, last) = e + m /\ longer[last].users = ph[last].users
    <3>1. EndOf(ph, last) = e
      BY <1>2
    <3>2. EndOf(Grow(ph, last, m), last) = e + m
      BY <3>1, GrowAt
    <3>3. Grow(ph, last, m)[last].users = ph[last].users
      BY <3>1, GrowAt
    <3> QED
      BY <2>2, <3>2, <3>3
  <2>6. \A j \in DOMAIN ph : j # last => longer[j] = ph[j]
    BY <1>2, <2>2, GrowAt
  <2>7. \A f, t \in Int : \A u : LiesIn(ph, f, t, u) => LiesIn(longer, f, t, u)
    BY <1>2, <2>2, GrowAt
  <2> QED
    BY <2>1, <2>3, <2>4, <2>5, <2>6, <2>7
<1>6. CASE roomy = {} /\ more > 0 /\ ph[last].users = 0
  <2>1. A = [growth |-> more, phys |-> longer, slot |-> {last}]
    BY <1>1, <1>2, <1>6 DEF Allocate, Grow
  <2>2. A.growth = more /\ A.phys = longer /\ A.slot = {last}
    BY <2>1
  <2>3. LiesIn(longer, last, last + size, 0)
    <3> HIDE DEF longer
    <3>1. last + size <= EndOf(longer, last)
      BY <1>1, <1>2, <1>5, <1>6
    <3> QED
      BY <1>2, <1>5, <1>6, <3>1 DEF LiesIn
  <2> HIDE DEF A, longer
  <2>4. ASSUME NEW j \in DOMAIN ph, ph[j].users # 0
        PROVE  j \in DOMAIN longer /\ EndOf(longer, j) = EndOf(ph, j) /\ longer[j].users = ph[j].users
    BY <1>5, <1>6, <2>4 DEF EndOf
  <2> QED
    BY <1>1, <1>2, <1>5, <1>6, <2>2, <2>3, <2>4 DEF A
<1>7. CASE roomy = {} /\ more > 0 /\ ph[last].users # 0
  <2>1. A = [growth |-> more, slot |-> {start}, phys |-> fresh]
    BY <1>1, <1>2, <1>7 DEF Allocate, Grow
  <2>2. A.growth = more /\ A.phys = fresh /\ A.slot = {start}
    BY <2>1
  <2>3. start = e
    BY <1>2
  <2>4. PICK S : S = PhysSplit(longer, last, e)
    OBVIOUS
  <2>5. fresh = [S EXCEPT ![start].users = 0]
    BY <2>3, <2>4
  <2> HIDE DEF A, longer, start, fresh
  <2>6. /\ TiledTo(S, e + more)
        /\ \A j : j \in DOMAIN S <=> j \in DOMAIN longer \/ j = e
        /\ e \notin DOMAIN longer
        /\ \A j \in DOMAIN longer : j # last => S[j] = longer[j]
        /\ EndOf(S, last) = e /\ S[last].users = longer[last].users
        /\ EndOf(S, e) = e + more
    <3>1. e < EndOf(longer, last) /\ last < e /\ e \in Nat /\ last \in DOMAIN longer /\ TiledTo(longer, e + more)
      BY <1>1, <1>2, <1>5, <1>7
    <3>2. PICK E \in Nat : E = e + more
      BY <1>2
    <3>3. PICK b \in Nat : b = e
      BY <1>2
    <3>4. TiledTo(longer, E) /\ last < b /\ b < EndOf(longer, last) /\ S = PhysSplit(longer, last, b)
      BY <2>4, <3>1, <3>2, <3>3
    <3>5. /\ TiledTo(S, E)
          /\ \A j : j \in DOMAIN S <=> j \in DOMAIN longer \/ j = b
          /\ b \notin DOMAIN longer
          /\ \A j \in DOMAIN longer : j # last => S[j] = longer[j]
          /\ EndOf(S, last) = b /\ S[last].users = longer[last].users
          /\ EndOf(S, b) = EndOf(longer, last)
      BY <3>1, <3>4, SplitAt
    <3> QED
      BY <1>5, <1>7, <3>2, <3>3, <3>5
  <2>7. S[e] \in [size : Nat \ {0}, users : {0, 1}] /\ e \in DOMAIN S
    BY <2>6 DEF TiledTo
  <2>8. /\ DOMAIN fresh = DOMAIN S /\ (\A j \in DOMAIN S : j # e => fresh[j] = S[j])
        /\ fresh[e] = [size |-> S[e].size, users |-> 0]
    BY <2>3, <2>5, <2>7
  <2>9. \A j \in DOMAIN S : EndOf(fresh, j) = EndOf(S, j)
    BY <2>8 DEF EndOf
  <2>10. TiledTo(fresh, e + more)
    <3>1. \A j \in DOMAIN fresh : fresh[j] \in [size : Nat \ {0}, users : {0, 1}]
      BY <2>6, <2>7, <2>8 DEF TiledTo
    <3> QED
      BY <2>6, <2>8, <2>9, <3>1 DEF TiledTo
  <2>11. \A j : j \in DOMAIN fresh => j \in DOMAIN ph \/ j = e
    BY <1>5, <1>7, <2>6, <2>8
  <2>15. ASSUME NEW j \in DOMAIN ph
         PROVE  j \in DOMAIN fresh /\ fresh[j].users = ph[j].users /\ EndOf(fresh, j) = EndOf(ph, j)
    <3>2. j # e /\ j \in DOMAIN S
      BY <1>5, <1>7, <2>6
    <3>3. fresh[j].users = ph[j].users /\ EndOf(fresh, j) = EndOf(ph, j)
      <4>1. CASE j = last
        BY <1>2, <1>5, <1>7, <2>6, <2>8, <2>9, <3>2, <4>1
      <4>2. CASE j # last
        <5>1. S[j] = ph[j]
          BY <1>5, <1>7, <2>6, <4>2
        <5> QED
          BY <2>8, <2>9, <3>2, <5>1 DEF EndOf
      <4> QED
        BY <4>1, <4>2
    <3> QED
      BY <2>8, <3>2, <3>3
  <2>12. ASSUME NEW f \in Int, NEW t \in Int, NEW u, LiesIn(ph, f, t, u)
         PROVE  LiesIn(fresh, f, t, u)
    <3>1. PICK j \in DOMAIN ph : ph[j].users = u /\ j <= f /\ t <= EndOf(ph, j)
      BY <2>12 DEF LiesIn
    <3> QED
      BY <2>15, <3>1 DEF LiesIn
  <2>13. LiesIn(fresh, e, e + size, 0)
    <3>1. e \in DOMAIN fresh /\ fresh[e].users = 0 /\ EndOf(fresh, e) = e + more
      BY <2>6, <2>7, <2>8, <2>9
    <3>2. e <= e /\ e + size <= EndOf(fresh, e)
      BY <1>1, <1>2, <1>7, <3>1
    <3> QED
      BY <3>1, <3>2 DEF LiesIn
  <2>14. e \in DOMAIN fresh
    BY <2>7, <2>8
  <2> QED
    BY <1>1, <2>2, <2>3, <2>10, <2>11, <2>12, <2>13, <2>14, <2>15 DEF A
<1> QED
  BY <1>1, <1>3, <1>4, <1>6, <1>7

-----------------------------------------------------------------------------
(* Maps are functions, which the induction over a fold asks for. *)

IsMap(m) == m = [k \in DOMAIN m |-> m[k]]

PhysMaps == UNION {[D -> [size : Nat \ {0}, users : {0, 1}]] : D \in SUBSET Nat}
VirtMaps == UNION {[D -> [physical : Nat, size : Nat, usage : SUBSET Rights]] : D \in SUBSET Nat}

\* A tiled map is one of the maps the folds over physical slots range over.
LEMMA PhysMapIs ==
    ASSUME NEW ph, NEW e, TiledTo(ph, e), IsMap(ph)
    PROVE  ph \in PhysMaps
<1>1. DOMAIN ph \in SUBSET Nat /\ \A k \in DOMAIN ph : ph[k] \in [size : Nat \ {0}, users : {0, 1}]
  BY DEF TiledTo
<1>2. ph \in [DOMAIN ph -> [size : Nat \ {0}, users : {0, 1}]]
  BY <1>1 DEF IsMap
<1> QED
  BY <1>1, <1>2 DEF PhysMaps

\* A laid map is one of the maps the folds over virtual slots range over.
LEMMA VirtMapIs ==
    ASSUME NEW vt, Laid(vt), IsMap(vt)
    PROVE  vt \in VirtMaps
<1>1. DOMAIN vt \in SUBSET Nat /\ \A k \in DOMAIN vt : vt[k] \in [physical : Nat, size : Nat, usage : SUBSET Rights]
  BY DEF Laid, Ordered
<1>2. vt \in [DOMAIN vt -> [physical : Nat, size : Nat, usage : SUBSET Rights]]
  BY <1>1 DEF IsMap
<1> QED
  BY <1>1, <1>2 DEF VirtMaps

\* Both kinds of maps are functions.
LEMMA MapsAre ==
    ASSUME NEW m, m \in PhysMaps \/ m \in VirtMaps
    PROVE  IsMap(m)
BY DEF IsMap, PhysMaps, VirtMaps

\* Adding a slot gives a map.
LEMMA PutMap ==
    ASSUME NEW m, NEW k, NEW s
    PROVE  IsMap(Put(m, k, s))
BY DEF IsMap, Put

\* Erasing a slot gives a map.
LEMMA EraseMap ==
    ASSUME NEW m, NEW k
    PROVE  IsMap(Erase(m, k))
BY DEF IsMap, Erase, Restrict

\* Changing the size of a slot gives a map.
LEMMA ResizeMap ==
    ASSUME NEW m, NEW k, NEW n
    PROVE  IsMap(Resize(m, k, n))
BY DEF IsMap, Resize

\* Cutting a physical slot gives a map.
LEMMA CutMap ==
    ASSUME NEW ph, NEW a, IsMap(ph)
    PROVE  IsMap(PhysCut(ph, a))
BY PutMap DEF PhysCut, PhysSplit

\* fPhysMerge gives a map.
LEMMA MergeMap ==
    ASSUME NEW ph, NEW k, IsMap(ph)
    PROVE  IsMap(PhysMerge(ph, k))
BY EraseMap DEF PhysMerge

\* Changing the users of a slot gives a map.
LEMMA AssignMap ==
    ASSUME NEW ph, NEW k, NEW u
    PROVE  IsMap(Assign(ph, k, u))
<1>1. PICK m : m = [ph EXCEPT ![k].users = u]
  OBVIOUS
<1>2. IsMap(m)
  BY <1>1 DEF IsMap
<1> QED
  BY <1>1, <1>2, MergeMap DEF Assign

\* Cutting a virtual slot gives a map.
LEMMA VirtCutMap ==
    ASSUME NEW vt, NEW a, IsMap(vt)
    PROVE  IsMap(VirtCut(vt, a))
BY PutMap DEF VirtCut, VirtSplit

\* fVirtMergePrev gives a map.
LEMMA VirtMergeMap ==
    ASSUME NEW vt, NEW k, IsMap(vt)
    PROVE  IsMap(VirtMergePrev(vt, k))
BY EraseMap DEF VirtMergePrev

-----------------------------------------------------------------------------
(* Releasing the physical slots behind virtual ones. *)

CutAround(vt, k, ph) == PhysCut(PhysCut(ph, vt[k].physical), PhysEnd(vt[k]))

\* the slots, cut around some of the virtual ones
Cuts(vt, base, e, s) ==
    {ph \in PhysMaps :
        /\ TiledTo(ph, e)
        /\ \A j \in DOMAIN vt : LiesIn(ph, vt[j].physical, PhysEnd(vt[j]), 1)
        /\ \A k \in s : vt[k].physical \in DOMAIN ph /\ (PhysEnd(vt[k]) = e \/ PhysEnd(vt[k]) \in DOMAIN ph)
        /\ \A q \in DOMAIN ph : \/ q \in DOMAIN base
                                \/ \E k \in s : q = vt[k].physical \/ q = PhysEnd(vt[k])}

\* One step of cutting the physical slots around virtual ones.
LEMMA CutStep ==
    ASSUME NEW vt, Laid(vt), NEW base, NEW e, NEW r \in SUBSET DOMAIN vt, NEW s, NEW x \in DOMAIN vt,
           \A j : j \in s <=> j \in r \/ j = x,
           \A j, k \in DOMAIN vt : j # k => PhysEnd(vt[j]) <= vt[k].physical \/ PhysEnd(vt[k]) <= vt[j].physical,
           NEW ph \in Cuts(vt, base, e, r)
    PROVE  CutAround(vt, x, ph) \in Cuts(vt, base, e, s)
<1>1. /\ TiledTo(ph, e) /\ IsMap(ph)
      /\ \A j \in DOMAIN vt : LiesIn(ph, vt[j].physical, PhysEnd(vt[j]), 1)
      /\ \A k \in r : vt[k].physical \in DOMAIN ph /\ (PhysEnd(vt[k]) = e \/ PhysEnd(vt[k]) \in DOMAIN ph)
      /\ \A q \in DOMAIN ph : \/ q \in DOMAIN base
                              \/ \E k \in r : q = vt[k].physical \/ q = PhysEnd(vt[k])
  BY MapsAre DEF Cuts
<1>2. PICK a \in Nat : a = vt[x].physical
  BY LaidSlot
<1>3. PICK b \in Nat : b = PhysEnd(vt[x])
  BY LaidSlot
<1>4. PICK m : m = PhysCut(ph, a)
  OBVIOUS
<1>5. PICK R : R = PhysCut(m, b)
  OBVIOUS
<1>6. CutAround(vt, x, ph) = R
  BY <1>2, <1>3, <1>4, <1>5 DEF CutAround
<1>7. a < b /\ b <= e /\ e \in Nat
  <2>1. LiesIn(ph, a, b, 1)
    BY <1>1, <1>2, <1>3
  <2> QED
    <3>1. 0 <= a /\ b <= e
      BY <1>1, <2>1, LiesBelow
    <3>2. vt[x].physical < PhysEnd(vt[x])
      BY LaidSlot
    <3> QED
      BY <1>1, <1>2, <1>3, <3>1, <3>2 DEF TiledTo
<1>8. /\ TiledTo(m, e)
      /\ \A j : j \in DOMAIN m <=> j \in DOMAIN ph \/ (j = a /\ a # e)
      /\ \A f, t \in Int : \A u : LiesIn(ph, f, t, u) /\ f < t /\ (a <= f \/ t <= a) => LiesIn(m, f, t, u)
  BY <1>1, <1>4, <1>7, CutAt
<1>9. /\ TiledTo(R, e)
      /\ \A j : j \in DOMAIN R <=> j \in DOMAIN m \/ (j = b /\ b # e)
      /\ \A f, t \in Int : \A u : LiesIn(m, f, t, u) /\ f < t /\ (b <= f \/ t <= b) => LiesIn(R, f, t, u)
  BY <1>5, <1>7, <1>8, CutAt
<1>10. ASSUME NEW j \in DOMAIN vt
       PROVE  LiesIn(R, vt[j].physical, PhysEnd(vt[j]), 1)
  <2>1. vt[j].physical \in Nat /\ PhysEnd(vt[j]) \in Nat /\ vt[j].physical < PhysEnd(vt[j])
    BY LaidSlot
  <2>2. /\ a <= vt[j].physical \/ PhysEnd(vt[j]) <= a
        /\ b <= vt[j].physical \/ PhysEnd(vt[j]) <= b
    BY <1>2, <1>3, <1>7, <2>1
  <2> QED
    BY <1>1, <1>8, <1>9, <2>1, <2>2
<1>11. ASSUME NEW k \in s
       PROVE  vt[k].physical \in DOMAIN R /\ (PhysEnd(vt[k]) = e \/ PhysEnd(vt[k]) \in DOMAIN R)
  BY <1>1, <1>2, <1>3, <1>7, <1>8, <1>9
<1>12. ASSUME NEW q \in DOMAIN R
       PROVE  q \in DOMAIN base \/ \E k \in s : q = vt[k].physical \/ q = PhysEnd(vt[k])
  BY <1>1, <1>2, <1>3, <1>8, <1>9
<1>13. R \in PhysMaps
  BY <1>1, <1>4, <1>5, <1>9, CutMap, PhysMapIs
<1> QED
  BY <1>6, <1>9, <1>10, <1>11, <1>12, <1>13 DEF Cuts

\* There are finitely many virtual slots.
LEMMA SlotsFinite ==
    ASSUME NEW vt, Laid(vt)
    PROVE  IsFiniteSet(DOMAIN vt)
<1>1. PICK n \in Nat : n = PageCount
  BY MemoryAssumption
<1>2. DOMAIN vt \subseteq 0 .. n
  <2>1. ASSUME NEW k \in DOMAIN vt
        PROVE  k \in 0 .. n
    <3>1. k \in Nat /\ EndOf(vt, k) \in Nat /\ EndOf(vt, k) <= PageCount /\ k < EndOf(vt, k)
      BY LaidSlot
    <3> QED
      BY <1>1, <3>1
  <2> QED
    BY <2>1
<1>3. IsFiniteSet(0 .. n)
  BY FS_Interval
<1> QED
  BY <1>2, <1>3, FS_Subset

\* Cutting around all slots of a range, in any order, leaves a slot for each of them and the others in theirs.
LEMMA CutAllIs ==
    ASSUME NEW vt, Laid(vt), NEW base, NEW e, TiledTo(base, e), IsMap(base), Backing(vt, base),
           NEW gone \in SUBSET DOMAIN vt
    PROVE  FoldSet(LAMBDA k, ph : PhysCut(PhysCut(ph, vt[k].physical), PhysEnd(vt[k])), base, gone)
                \in Cuts(vt, base, e, gone)
<1> DEFINE W == [s \in SUBSET gone |-> Cuts(vt, base, e, s)]
           V == PhysMaps
           Op == [z \in gone \X V |-> CutAround(vt, z[1], z[2])]
           Step(h) == [s \in SUBSET gone |-> IF s = {} THEN base ELSE CutAround(vt, Picked(s), h[s \ {Picked(s)}])]
<1>1. IsFiniteSet(gone)
  BY SlotsFinite, FS_Subset
<1>2. base \in W[{}]
  BY PhysMapIs DEF Cuts, Backing
<1>3. ASSUME NEW s \in SUBSET gone, NEW x \in s, NEW v \in W[s \ {x}]
      PROVE  CutAround(vt, x, v) \in W[s]
  <2>1. PICK r \in SUBSET gone : r = s \ {x}
    OBVIOUS
  <2>2. v \in Cuts(vt, base, e, r)
    BY <2>1
  <2>3. \A j : j \in s <=> j \in r \/ j = x
    BY <2>1
  <2>4. CutAround(vt, x, v) \in Cuts(vt, base, e, s)
    BY <2>2, <2>3, CutStep DEF Backing
  <2> QED
    BY <2>4
<1>4. \A s \in SUBSET gone : \A v \in W[s] : v \in V
  BY DEF Cuts
<1>5. PICK g : IsFold(g, gone, base, Op)
  BY <1>1, FoldExists
<1>6. \A s \in SUBSET gone : g[s] \in W[s]
  <2>1. ASSUME NEW s \in SUBSET gone, NEW x \in s, NEW v \in W[s \ {x}]
        PROVE  Op[<<x, v>>] \in W[s]
    <3>1. v \in V /\ x \in gone
      <4> HIDE DEF W
      <4> QED
        BY <1>4
    <3>2. Op[<<x, v>>] = CutAround(vt, x, v)
      BY <3>1
    <3> QED
      BY <1>3, <3>2
  <2> HIDE DEF W, Op
  <2> QED
    BY <1>1, <1>2, <1>5, <2>1, FoldStays
<1>7. g = Step(g)
  <2>1. ASSUME NEW s \in SUBSET gone, s # {}
        PROVE  Op[<<Picked(s), g[s \ {Picked(s)}]>>] = CutAround(vt, Picked(s), g[s \ {Picked(s)}])
    <3>1. Picked(s) \in gone /\ s \ {Picked(s)} \in SUBSET gone
      BY <2>1 DEF Picked
    <3>2. g[s \ {Picked(s)}] \in V
      <4> HIDE DEF W, V
      <4> QED
        BY <1>4, <1>6, <3>1
    <3> QED
      BY <3>1, <3>2
  <2> HIDE DEF Op
  <2> QED
    BY <1>5, <2>1 DEF IsFold
<1>8. PICK h : h = (CHOOSE f : f = Step(f))
  OBVIOUS
<1>9. h = Step(h)
  BY <1>7, <1>8
<1>10. \A s \in SUBSET gone : h[s] \in W[s]
  <2>1. h[{}] \in W[{}]
    BY <1>2, <1>9
  <2>2. ASSUME NEW s \in SUBSET gone, s # {}, h[s \ {Picked(s)}] \in W[s \ {Picked(s)}]
        PROVE  h[s] \in W[s]
    <3>1. Picked(s) \in s
      BY <2>2 DEF Picked
    <3>2. h[s] = CutAround(vt, Picked(s), h[s \ {Picked(s)}])
      BY <1>9, <2>2
    <3> HIDE DEF W, Step
    <3> QED
      BY <1>3, <2>2, <3>1, <3>2
  <2> HIDE DEF W, Step
  <2> QED
    BY <1>1, <2>1, <2>2, FoldHolds
<1>11. FoldSet(LAMBDA k, ph : PhysCut(PhysCut(ph, vt[k].physical), PhysEnd(vt[k])), base, gone) = h[gone]
  BY <1>8 DEF FoldSet, MapThenFoldSet, Picked, CutAround
<1> QED
  BY <1>10, <1>11

\* The slots while those of Q are released, which are ranges of base in use: some are already, those
\* of P are not; what lies in a used slot beside Q still does.
Frees(vt, base, e, P) ==
    {ph \in PhysMaps :
        /\ TiledTo(ph, e)
        /\ \A j \in DOMAIN vt : LiesIn(ph, vt[j].physical, PhysEnd(vt[j]), 1)
        /\ \A q \in P : q \in DOMAIN ph /\ ph[q].users = 1 /\ EndOf(ph, q) = EndOf(base, q)
        /\ \A q \in DOMAIN ph : q \in DOMAIN base}

\* One step of releasing physical slots.
LEMMA FreeStep ==
    ASSUME NEW vt, Laid(vt), NEW base, NEW e, NEW P, NEW R, NEW x,
           \A j : j \in P <=> j \in R \/ j = x, x \notin R,
           \A j \in DOMAIN vt : PhysEnd(vt[j]) <= x \/ EndOf(base, x) <= vt[j].physical,
           NEW ph \in Frees(vt, base, e, P)
    PROVE  Assign(ph, x, 0) \in Frees(vt, base, e, R)
<1>1. /\ TiledTo(ph, e) /\ IsMap(ph)
      /\ \A j \in DOMAIN vt : LiesIn(ph, vt[j].physical, PhysEnd(vt[j]), 1)
      /\ \A q \in P : q \in DOMAIN ph /\ ph[q].users = 1 /\ EndOf(ph, q) = EndOf(base, q)
      /\ \A q \in DOMAIN ph : q \in DOMAIN base
  BY MapsAre DEF Frees
<1>2. x \in DOMAIN ph /\ EndOf(ph, x) = EndOf(base, x)
  BY <1>1
<1>3. PICK m : m = Assign(ph, x, 0)
  OBVIOUS
<1>4. /\ TiledTo(m, e)
      /\ \A j : j \in DOMAIN m => j \in DOMAIN ph
      /\ \A j \in DOMAIN ph : j # x /\ ph[j].users # 0 => j \in DOMAIN m /\ m[j] = ph[j]
  BY <1>1, <1>2, <1>3, AssignAt
<1>5. ASSUME NEW j \in DOMAIN vt
      PROVE  LiesIn(m, vt[j].physical, PhysEnd(vt[j]), 1)
  <2>1. vt[j].physical \in Int /\ PhysEnd(vt[j]) \in Int /\ vt[j].physical < PhysEnd(vt[j])
    BY LaidSlot
  <2>2. PICK f \in Int : f = vt[j].physical
    BY <2>1
  <2>3. PICK t \in Int : t = PhysEnd(vt[j])
    BY <2>1
  <2>4. LiesIn(ph, f, t, 1) /\ f < t /\ (t <= x \/ EndOf(ph, x) <= f)
    BY <1>1, <1>2, <2>1, <2>2, <2>3
  <2>5. LiesIn(m, f, t, 1)
    BY <1>1, <1>2, <1>3, <2>4, AssignKeeps
  <2> QED
    BY <2>2, <2>3, <2>5
<1>6. ASSUME NEW q \in R
      PROVE  q \in DOMAIN m /\ m[q].users = 1 /\ EndOf(m, q) = EndOf(base, q)
  <2>1. q \in P /\ q # x
    OBVIOUS
  <2>2. q \in DOMAIN m /\ m[q] = ph[q]
    BY <1>1, <1>4, <2>1
  <2> QED
    BY <1>1, <2>1, <2>2 DEF EndOf
<1>7. m \in PhysMaps
  BY <1>3, <1>4, AssignMap, PhysMapIs
<1>8. \A q \in DOMAIN m : q \in DOMAIN base
  BY <1>1, <1>4
<1> QED
  BY <1>3, <1>4, <1>5, <1>6, <1>7, <1>8 DEF Frees

\* Releasing physical slots no virtual one lies in keeps the rest, however they merge on the way.
LEMMA FreeAllIs ==
    ASSUME NEW vt, Laid(vt), NEW base, NEW e, TiledTo(base, e), NEW Q \in SUBSET DOMAIN base,
           base \in Frees(vt, base, e, Q),
           \A q \in Q : \A j \in DOMAIN vt : PhysEnd(vt[j]) <= q \/ EndOf(base, q) <= vt[j].physical
    PROVE  FoldSet(LAMBDA k, ph : Assign(ph, k, 0), base, Q) \in Frees(vt, base, e, {})
<1> DEFINE W == [s \in SUBSET Q |-> Frees(vt, base, e, Q \ s)]
           V == PhysMaps
           Op == [z \in Q \X V |-> Assign(z[2], z[1], 0)]
           Step(h) == [s \in SUBSET Q |-> IF s = {} THEN base ELSE Assign(h[s \ {Picked(s)}], Picked(s), 0)]
<1>1. IsFiniteSet(Q)
  <2>1. PICK n \in Nat : n = e
    BY DEF TiledTo
  <2>2. Q \subseteq 0 .. n
    BY <2>1 DEF TiledTo
  <2>3. IsFiniteSet(0 .. n)
    BY FS_Interval
  <2> QED
    BY <2>2, <2>3, FS_Subset
<1>2. base \in W[{}]
  <2>1. Q \ {} = Q
    OBVIOUS
  <2> QED
    BY <2>1
<1>3. ASSUME NEW s \in SUBSET Q, NEW x \in s, NEW v \in W[s \ {x}]
      PROVE  Assign(v, x, 0) \in W[s]
  <2>1. PICK R : R = Q \ s
    OBVIOUS
  <2>2. PICK P : P = Q \ (s \ {x})
    OBVIOUS
  <2>3. v \in Frees(vt, base, e, P)
    BY <2>2
  <2>4. (\A j : j \in P <=> j \in R \/ j = x) /\ x \notin R
    BY <2>1, <2>2
  <2>5. Assign(v, x, 0) \in Frees(vt, base, e, R)
    BY <2>3, <2>4, FreeStep
  <2> QED
    BY <2>1, <2>5
<1>4. \A s \in SUBSET Q : \A v \in W[s] : v \in V
  BY DEF Frees
<1>5. PICK g : IsFold(g, Q, base, Op)
  BY <1>1, FoldExists
<1>6. \A s \in SUBSET Q : g[s] \in W[s]
  <2>1. ASSUME NEW s \in SUBSET Q, NEW x \in s, NEW v \in W[s \ {x}]
        PROVE  Op[<<x, v>>] \in W[s]
    <3>1. v \in V /\ x \in Q
      <4> HIDE DEF W
      <4> QED
        BY <1>4
    <3>2. Op[<<x, v>>] = Assign(v, x, 0)
      BY <3>1
    <3> QED
      BY <1>3, <3>2
  <2> HIDE DEF W, Op
  <2> QED
    BY <1>1, <1>2, <1>5, <2>1, FoldStays
<1>7. g = Step(g)
  <2>1. ASSUME NEW s \in SUBSET Q, s # {}
        PROVE  Op[<<Picked(s), g[s \ {Picked(s)}]>>] = Assign(g[s \ {Picked(s)}], Picked(s), 0)
    <3>1. Picked(s) \in Q /\ s \ {Picked(s)} \in SUBSET Q
      BY <2>1 DEF Picked
    <3>2. g[s \ {Picked(s)}] \in V
      <4> HIDE DEF W, V
      <4> QED
        BY <1>4, <1>6, <3>1
    <3> QED
      BY <3>1, <3>2
  <2> HIDE DEF Op
  <2> QED
    BY <1>5, <2>1 DEF IsFold
<1>8. PICK h : h = (CHOOSE f : f = Step(f))
  OBVIOUS
<1>9. h = Step(h)
  BY <1>7, <1>8
<1>10. \A s \in SUBSET Q : h[s] \in W[s]
  <2>1. h[{}] \in W[{}]
    BY <1>2, <1>9
  <2>2. ASSUME NEW s \in SUBSET Q, s # {}, h[s \ {Picked(s)}] \in W[s \ {Picked(s)}]
        PROVE  h[s] \in W[s]
    <3>1. Picked(s) \in s
      BY <2>2 DEF Picked
    <3>2. h[s] = Assign(h[s \ {Picked(s)}], Picked(s), 0)
      BY <1>9, <2>2
    <3> HIDE DEF W, Step
    <3> QED
      BY <1>3, <2>2, <3>1, <3>2
  <2> HIDE DEF W, Step
  <2> QED
    BY <1>1, <2>1, <2>2, FoldHolds
<1>11. FoldSet(LAMBDA k, ph : Assign(ph, k, 0), base, Q) = h[Q]
  BY <1>8 DEF FoldSet, MapThenFoldSet, Picked
<1>12. Q \ Q = {}
  OBVIOUS
<1> QED
  BY <1>10, <1>11, <1>12

\* Some of the slots of a laid map form one.
LEMMA RestLaid ==
    ASSUME NEW vt, Laid(vt), NEW rest, \A j \in DOMAIN rest : j \in DOMAIN vt /\ rest[j] = vt[j]
    PROVE  Laid(rest)
BY DEF Laid, Ordered, EndOf

\* The remaining slots stay where they are, and in use.
LEMMA ReleaseIs ==
    ASSUME NEW vt, Laid(vt), NEW e, TiledTo(phys, e), IsMap(phys), Backing(vt, phys),
           NEW gone \in SUBSET DOMAIN vt,
           NEW rest, \A j : j \in DOMAIN rest <=> j \in DOMAIN vt /\ j \notin gone,
           \A j \in DOMAIN rest : rest[j] = vt[j]
    PROVE  /\ TiledTo(Release(vt, gone), e) /\ IsMap(Release(vt, gone))
           /\ Laid(rest) /\ Backing(rest, Release(vt, gone))
<1>1. PICK cuts : cuts = FoldSet(LAMBDA k, ph : PhysCut(PhysCut(ph, vt[k].physical), PhysEnd(vt[k])), phys, gone)
  OBVIOUS
<1>2. cuts \in Cuts(vt, phys, e, gone)
  BY <1>1, CutAllIs
<1>3. /\ TiledTo(cuts, e) /\ cuts \in PhysMaps
      /\ \A j \in DOMAIN vt : LiesIn(cuts, vt[j].physical, PhysEnd(vt[j]), 1)
      /\ \A k \in gone : vt[k].physical \in DOMAIN cuts /\ (PhysEnd(vt[k]) = e \/ PhysEnd(vt[k]) \in DOMAIN cuts)
      /\ \A q \in DOMAIN cuts : \/ q \in DOMAIN phys
                                \/ \E k \in gone : q = vt[k].physical \/ q = PhysEnd(vt[k])
  BY <1>2 DEF Cuts
<1>4. PICK Q : Q = {q \in DOMAIN cuts : \E k \in gone : vt[k].physical <= q /\ q < PhysEnd(vt[k])}
  OBVIOUS
<1>5. Release(vt, gone) = FoldSet(LAMBDA k, ph : Assign(ph, k, 0), cuts, Q)
  BY <1>1, <1>4 DEF Release
<1>6. ASSUME NEW q \in Q
      PROVE  \E k \in gone : q = vt[k].physical /\ EndOf(cuts, q) = PhysEnd(vt[k]) /\ cuts[q].users = 1
  <2>1. PICK k \in gone : vt[k].physical <= q /\ q < PhysEnd(vt[k])
    BY <1>4
  <2>2. q \in DOMAIN cuts /\ q \in Nat /\ k \in DOMAIN vt
    BY <1>3, <1>4 DEF TiledTo
  <2>3. PICK f \in DOMAIN cuts : f = vt[k].physical
    BY <1>3
  <2>4. PICK t \in Nat : t = PhysEnd(vt[k])
    BY <2>2, LaidSlot
  <2>5. f < t /\ f \in Nat
    BY <2>2, <2>3, <2>4, LaidSlot
  <2>6. EndOf(cuts, f) = t /\ cuts[f].users = 1
    BY <1>3, <2>2, <2>3, <2>4, <2>5, Exactly
  <2>7. q = f
    BY <1>3, <2>1, <2>2, <2>3, <2>4, <2>5, <2>6 DEF TiledTo
  <2> QED
    BY <2>3, <2>4, <2>6, <2>7
<1>7. Laid(rest)
  BY RestLaid
<1>8. cuts \in Frees(rest, cuts, e, Q)
  BY <1>3, <1>4, <1>6 DEF Frees
<1>9. ASSUME NEW q \in Q, NEW j \in DOMAIN rest
      PROVE  PhysEnd(rest[j]) <= q \/ EndOf(cuts, q) <= rest[j].physical
  BY <1>6 DEF Backing
<1>10. PICK R : R = Release(vt, gone)
  OBVIOUS
<1>11. R \in Frees(rest, cuts, e, {})
  <2>1. Q \in SUBSET DOMAIN cuts
    BY <1>4
  <2>2. \A q \in Q : \A j \in DOMAIN rest : PhysEnd(rest[j]) <= q \/ EndOf(cuts, q) <= rest[j].physical
    BY <1>9
  <2>3. TiledTo(cuts, e)
    BY <1>3
  <2>4. FoldSet(LAMBDA k, ph : Assign(ph, k, 0), cuts, Q) \in Frees(rest, cuts, e, {})
    BY <1>7, <1>8, <2>1, <2>2, <2>3, FreeAllIs, Zenon
  <2> QED
    BY <1>5, <1>10, <2>4, Zenon
<1>12. /\ TiledTo(R, e) /\ IsMap(R)
       /\ \A j \in DOMAIN rest : LiesIn(R, rest[j].physical, PhysEnd(rest[j]), 1)
       /\ \A q \in DOMAIN R : q \in DOMAIN cuts
  BY <1>11, MapsAre DEF Frees
<1>13. ASSUME NEW j \in DOMAIN rest, NEW k \in DOMAIN rest, EndOf(rest, j) = k
       PROVE  PhysEnd(rest[j]) = rest[k].physical /\ rest[k].physical \notin DOMAIN R
  <2>1. j \in DOMAIN vt /\ k \in DOMAIN vt /\ EndOf(vt, j) = k /\ j \notin gone /\ k \notin gone
    BY <1>13 DEF EndOf
  <2>2. PhysEnd(vt[j]) = vt[k].physical /\ vt[k].physical \notin DOMAIN phys
    BY <2>1 DEF Backing
  <2>3. ASSUME vt[k].physical \in DOMAIN cuts
        PROVE  FALSE
    <3>1. PICK g \in gone : vt[k].physical = vt[g].physical \/ vt[k].physical = PhysEnd(vt[g])
      BY <1>3, <2>2, <2>3
    <3>2. /\ vt[g].physical < PhysEnd(vt[g]) /\ vt[g].physical \in Nat /\ PhysEnd(vt[g]) \in Nat
          /\ vt[j].physical < PhysEnd(vt[j]) /\ vt[j].physical \in Nat /\ PhysEnd(vt[j]) \in Nat
          /\ vt[k].physical < PhysEnd(vt[k]) /\ vt[k].physical \in Nat /\ PhysEnd(vt[k]) \in Nat
      BY <2>1, LaidSlot
    <3>3. /\ PhysEnd(vt[g]) <= vt[k].physical \/ PhysEnd(vt[k]) <= vt[g].physical
          /\ PhysEnd(vt[g]) <= vt[j].physical \/ PhysEnd(vt[j]) <= vt[g].physical
      BY <2>1 DEF Backing
    <3> QED
      BY <2>2, <3>1, <3>2, <3>3
  <2> QED
    BY <1>12, <2>1, <2>2, <2>3
<1>14. Backing(rest, R)
  BY <1>12, <1>13 DEF Backing
<1> QED
  BY <1>7, <1>10, <1>12, <1>14

-----------------------------------------------------------------------------
(* The inductive invariant. *)

\* physical slots up to e, and virtual ones that lie in them
Sound(vt, ph, e) == Laid(vt) /\ IsMap(vt) /\ TiledTo(ph, e) /\ IsMap(ph) /\ Backing(vt, ph)

\* the WebAssembly memory has n pages
Sized(d, n) == n \in Nat /\ DOMAIN d = 0 .. n - 1

MemorySound ==
    \E e, n \in Nat : e <= n /\ Sized(data, n) /\ Sound(virt, phys, e)

\* The size of the WebAssembly memory is the number of its pages.
LEMMA GrownIs ==
    ASSUME NEW n, Sized(data, n)
    PROVE  Grown = n
<1>1. n \in Nat /\ DOMAIN data = 0 .. n - 1 /\ 0 \in Int /\ n - 1 \in Int
  BY DEF Sized
<1>2. Cardinality(0 .. n - 1) = IF 0 > n - 1 THEN 0 ELSE (n - 1) - 0 + 1
  BY <1>1, FS_Interval
<1> QED
  BY <1>1, <1>2 DEF Grown

-----------------------------------------------------------------------------
(* munmap. *)

\* the pages of the range are gone, the others are as before
LessPages(vt, R, a, n) ==
    \A p \in Int :
        /\ a <= p /\ p < a + n => ~Holds(R, p)
        /\ p < a \/ a + n <= p => /\ Holds(R, p) <=> Holds(vt, p)
                                  /\ Holds(vt, p) => /\ UsageIn(R, p) = UsageIn(vt, p)
                                                     /\ PlaceIn(R, p) = PlaceIn(vt, p)

\* An address is held when some slot lies around it.
LEMMA HoldsIs ==
    ASSUME NEW m, NEW p
    PROVE  Holds(m, p) <=> \E k \in DOMAIN m : k <= p /\ p < EndOf(m, k)
BY DEF Holds, Holding

\* A range cut out of the virtual slots.
LEMMA CutOut ==
    ASSUME NEW vt, Laid(vt), NEW ph, NEW e, TiledTo(ph, e), Backing(vt, ph), IsMap(vt),
           NEW a \in Nat, NEW n \in Nat
    PROVE  /\ Laid(VirtCut(VirtCut(vt, a), a + n)) /\ Backing(VirtCut(VirtCut(vt, a), a + n), ph)
           /\ SamePages(vt, VirtCut(VirtCut(vt, a), a + n)) /\ IsMap(VirtCut(VirtCut(vt, a), a + n))
           /\ \A k \in DOMAIN VirtCut(VirtCut(vt, a), a + n) :
                /\ a <= k \/ EndOf(VirtCut(VirtCut(vt, a), a + n), k) <= a
                /\ a + n <= k \/ EndOf(VirtCut(VirtCut(vt, a), a + n), k) <= a + n
<1>1. PICK m : m = VirtCut(vt, a)
  OBVIOUS
<1>2. PICK b \in Nat : b = a + n
  OBVIOUS
<1>3. PICK R : R = VirtCut(m, b)
  OBVIOUS
<1>4. /\ Laid(m) /\ Backing(m, ph) /\ SamePages(vt, m) /\ IsMap(m)
      /\ \A k \in DOMAIN m : a <= k \/ EndOf(m, k) <= a
  BY <1>1, VirtCutAt, VirtCutMap
<1>5. /\ Laid(R) /\ Backing(R, ph) /\ SamePages(m, R) /\ IsMap(R)
      /\ \A k \in DOMAIN R : b <= k \/ EndOf(R, k) <= b
  BY <1>3, <1>4, VirtCutAt, VirtCutMap
<1>6. \A k \in DOMAIN R : a <= k \/ EndOf(R, k) <= a
  BY <1>3, <1>4, VirtCutAt
<1>7. SamePages(vt, R)
  BY <1>4, <1>5, SamePagesTrans
<1>8. R = VirtCut(VirtCut(vt, a), a + n)
  BY <1>1, <1>2, <1>3
<1> QED
  BY <1>2, <1>5, <1>6, <1>7, <1>8

\* fMUnmap leaves a sound memory, without the pages of its range.
LEMMA MunmapKeeps ==
    ASSUME NEW e, Sound(virt, phys, e), NEW a \in Nat, NEW n \in Nat, Munmap(a, n)
    PROVE  Sound(virt', phys', e) /\ LessPages(virt, virt', a, n)
<1>1. PICK vt : vt = VirtCut(VirtCut(virt, a), a + n)
  OBVIOUS
<1>2. PICK gone : gone = {k \in DOMAIN vt : a <= k /\ k < a + n}
  OBVIOUS
<1>3. PICK rest : rest = Restrict(vt, DOMAIN vt \ gone)
  OBVIOUS
<1>4. virt' = rest /\ phys' = Release(vt, gone)
  BY <1>1, <1>2, <1>3 DEF Munmap, Cut, Inside
<1>5. /\ Laid(vt) /\ Backing(vt, phys) /\ SamePages(virt, vt) /\ IsMap(vt)
      /\ \A k \in DOMAIN vt : /\ a <= k \/ EndOf(vt, k) <= a
                              /\ a + n <= k \/ EndOf(vt, k) <= a + n
  BY <1>1, CutOut DEF Sound
<1>6. /\ \A j : j \in DOMAIN rest <=> j \in DOMAIN vt /\ j \notin gone
      /\ \A j \in DOMAIN rest : rest[j] = vt[j]
  BY <1>3 DEF Restrict
<1>7. gone \in SUBSET DOMAIN vt
  BY <1>2
<1>8. /\ TiledTo(Release(vt, gone), e) /\ IsMap(Release(vt, gone))
      /\ Laid(rest) /\ Backing(rest, Release(vt, gone))
  BY <1>5, <1>6, <1>7, ReleaseIs DEF Sound
<1>9. IsMap(rest)
  BY <1>3 DEF IsMap, Restrict
<1>10. ASSUME NEW p \in Int
       PROVE  /\ a <= p /\ p < a + n => ~Holds(rest, p)
              /\ p < a \/ a + n <= p =>
                    /\ Holds(rest, p) <=> Holds(virt, p)
                    /\ Holds(virt, p) => UsageIn(rest, p) = UsageIn(virt, p) /\ PlaceIn(rest, p) = PlaceIn(virt, p)
  <2>1. \A k \in DOMAIN vt : k \in Nat /\ EndOf(vt, k) \in Nat
    BY <1>5, LaidSlot
  <2>2. \A k \in DOMAIN rest : k \in DOMAIN vt /\ EndOf(rest, k) = EndOf(vt, k) /\ (k < a \/ a + n <= k)
    BY <1>2, <1>6, <2>1 DEF EndOf
  <2>3. CASE a <= p /\ p < a + n
    <3>1. ~Holds(rest, p)
      BY <1>5, <2>1, <2>2, <2>3, HoldsIs
    <3> QED
      BY <2>3, <3>1
  <2>4. CASE p < a \/ a + n <= p
    <3>1. Holds(rest, p) => Holds(vt, p)
      BY <2>2, HoldsIs
    <3>2. ASSUME Holds(vt, p)
          PROVE  Holds(rest, p) /\ UsageIn(rest, p) = UsageIn(vt, p) /\ PlaceIn(rest, p) = PlaceIn(vt, p)
      <4>1. PICK k \in DOMAIN vt : k <= p /\ p < EndOf(vt, k)
        BY <3>2, HoldsIs
      <4>2. k \in DOMAIN rest
        BY <1>2, <1>5, <1>6, <2>1, <2>4, <4>1
      <4>3. EndOf(rest, k) = EndOf(vt, k) /\ rest[k] = vt[k]
        BY <1>6, <2>2, <4>2
      <4> QED
        BY <1>5, <1>8, <4>1, <4>2, <4>3, PageIn DEF Laid
    <3>3. Holds(vt, p) <=> Holds(virt, p)
      BY <1>5 DEF SamePages
    <3>4. Holds(virt, p) => UsageIn(vt, p) = UsageIn(virt, p) /\ PlaceIn(vt, p) = PlaceIn(virt, p)
      BY <1>5 DEF SamePages
    <3> QED
      BY <2>4, <3>1, <3>2, <3>3, <3>4
  <2> QED
    BY <2>3, <2>4
<1>11. LessPages(virt, rest, a, n)
  BY <1>10 DEF LessPages
<1>12. Sound(rest, Release(vt, gone), e)
  BY <1>8, <1>9 DEF Sound
<1> QED
  BY <1>4, <1>11, <1>12

-----------------------------------------------------------------------------
(* mprotect. *)

\* the pages of the range are of the usage, and all are where they were
OtherUsage(vt, R, a, n, u) ==
    \A p \in Int :
        /\ Holds(R, p) <=> Holds(vt, p)
        /\ Holds(vt, p) => /\ PlaceIn(R, p) = PlaceIn(vt, p)
                           /\ a <= p /\ p < a + n => UsageIn(R, p) = u
                           /\ p < a \/ a + n <= p => UsageIn(R, p) = UsageIn(vt, p)

\* the slots of In are of the usage, and otherwise as before
Reassigned(vt, R, In, u) ==
    /\ \A j : j \in DOMAIN R <=> j \in DOMAIN vt
    /\ \A j \in DOMAIN vt : /\ j \notin In => R[j] = vt[j]
                            /\ R[j] \in [physical : Nat, size : Nat, usage : SUBSET Rights]
                            /\ R[j].physical = vt[j].physical /\ R[j].size = vt[j].size
                            /\ j \in In => R[j].usage = u

\* Changing the usage of slots moves none of them.
LEMMA UsageLaid ==
    ASSUME NEW vt, Laid(vt), NEW ph, Backing(vt, ph), NEW R, NEW In, NEW u, Reassigned(vt, R, In, u)
    PROVE  /\ Laid(R) /\ Backing(R, ph)
           /\ \A j \in DOMAIN vt : EndOf(R, j) = EndOf(vt, j) /\ R[j].physical = vt[j].physical
           /\ \A j \in DOMAIN vt : (j \in In => R[j].usage = u) /\ (j \notin In => R[j].usage = vt[j].usage)
<1>0. \A j : j \in DOMAIN R <=> j \in DOMAIN vt
  BY DEF Reassigned
<1>1. ASSUME NEW j \in DOMAIN vt
      PROVE  /\ R[j].size = vt[j].size /\ R[j].physical = vt[j].physical
             /\ R[j] \in [physical : Nat, size : Nat, usage : SUBSET Rights]
             /\ (j \in In => R[j].usage = u) /\ (j \notin In => R[j].usage = vt[j].usage)
  BY DEF Reassigned
<1>2. \A j \in DOMAIN vt : EndOf(R, j) = EndOf(vt, j) /\ PhysEnd(R[j]) = PhysEnd(vt[j])
  BY <1>1 DEF EndOf, PhysEnd
<1>3. Laid(R)
  <2>1. Ordered(R)
    BY <1>0, <1>1, <1>2 DEF Laid, Ordered
  <2> QED
    BY <1>0, <1>1, <1>2, <2>1 DEF Laid
<1>4. Backing(R, ph)
  BY <1>0, <1>1, <1>2 DEF Backing
<1> QED
  BY <1>0, <1>1, <1>2, <1>3, <1>4

\* the slots while those of P are still to be merged
Merges(vt, ph, P) ==
    {m \in VirtMaps : Laid(m) /\ Backing(m, ph) /\ SamePages(vt, m) /\ \A k \in P : k \in DOMAIN m}

\* One step of merging virtual slots with the ones before.
LEMMA MergeStep ==
    ASSUME NEW vt, NEW ph, NEW e, TiledTo(ph, e), NEW P, NEW R, NEW x,
           \A j : j \in P <=> j \in R \/ j = x, x \notin R, NEW m \in Merges(vt, ph, P)
    PROVE  VirtMergePrev(m, x) \in Merges(vt, ph, R)
<1>1. /\ Laid(m) /\ Backing(m, ph) /\ SamePages(vt, m) /\ IsMap(m) /\ x \in DOMAIN m
      /\ \A k \in R : k \in DOMAIN m /\ k # x
  BY MapsAre DEF Merges
<1>2. PICK M : M = VirtMergePrev(m, x)
  OBVIOUS
<1>3. /\ Laid(M) /\ Backing(M, ph) /\ SamePages(m, M)
      /\ \A j \in DOMAIN m : j # x => j \in DOMAIN M
  BY <1>1, <1>2, VirtMergeAt
<1>4. M \in VirtMaps
  BY <1>1, <1>2, <1>3, VirtMergeMap, VirtMapIs
<1>5. SamePages(vt, M)
  BY <1>1, <1>3, SamePagesTrans
<1> QED
  BY <1>1, <1>2, <1>3, <1>4, <1>5 DEF Merges

\* Merging slots with the ones before, in any order, leaves every page where it was.
LEMMA MergeAllIs ==
    ASSUME NEW vt, Laid(vt), IsMap(vt), NEW ph, NEW e, TiledTo(ph, e), Backing(vt, ph),
           NEW Q \in SUBSET DOMAIN vt
    PROVE  FoldSet(LAMBDA k, m : VirtMergePrev(m, k), vt, Q) \in Merges(vt, ph, {})
<1> DEFINE W == [s \in SUBSET Q |-> Merges(vt, ph, Q \ s)]
           V == VirtMaps
           Op == [z \in Q \X V |-> VirtMergePrev(z[2], z[1])]
           Step(h) == [s \in SUBSET Q |-> IF s = {} THEN vt ELSE VirtMergePrev(h[s \ {Picked(s)}], Picked(s))]
<1>1. IsFiniteSet(Q)
  BY SlotsFinite, FS_Subset
<1>2. vt \in W[{}]
  <2>1. vt \in VirtMaps
    BY VirtMapIs
  <2> QED
    BY <2>1, SamePagesRefl DEF Merges
<1>3. ASSUME NEW s \in SUBSET Q, NEW x \in s, NEW v \in W[s \ {x}]
      PROVE  VirtMergePrev(v, x) \in W[s]
  <2>1. PICK R : R = Q \ s
    OBVIOUS
  <2>2. PICK P : P = Q \ (s \ {x})
    OBVIOUS
  <2>3. v \in Merges(vt, ph, P)
    BY <2>2
  <2>4. (\A j : j \in P <=> j \in R \/ j = x) /\ x \notin R
    BY <2>1, <2>2
  <2>5. VirtMergePrev(v, x) \in Merges(vt, ph, R)
    BY <2>3, <2>4, MergeStep
  <2> QED
    BY <2>1, <2>5
<1>4. \A s \in SUBSET Q : \A v \in W[s] : v \in V
  BY DEF Merges
<1>5. PICK g : IsFold(g, Q, vt, Op)
  BY <1>1, FoldExists
<1>6. \A s \in SUBSET Q : g[s] \in W[s]
  <2>1. ASSUME NEW s \in SUBSET Q, NEW x \in s, NEW v \in W[s \ {x}]
        PROVE  Op[<<x, v>>] \in W[s]
    <3>1. v \in V /\ x \in Q
      <4> HIDE DEF W
      <4> QED
        BY <1>4
    <3>2. Op[<<x, v>>] = VirtMergePrev(v, x)
      BY <3>1
    <3> QED
      BY <1>3, <3>2
  <2> HIDE DEF W, Op
  <2> QED
    BY <1>1, <1>2, <1>5, <2>1, FoldStays
<1>7. g = Step(g)
  <2>1. ASSUME NEW s \in SUBSET Q, s # {}
        PROVE  Op[<<Picked(s), g[s \ {Picked(s)}]>>] = VirtMergePrev(g[s \ {Picked(s)}], Picked(s))
    <3>1. Picked(s) \in Q /\ s \ {Picked(s)} \in SUBSET Q
      BY <2>1 DEF Picked
    <3>2. g[s \ {Picked(s)}] \in V
      <4> HIDE DEF W, V
      <4> QED
        BY <1>4, <1>6, <3>1
    <3> QED
      BY <3>1, <3>2
  <2> HIDE DEF Op
  <2> QED
    BY <1>5, <2>1 DEF IsFold
<1>8. PICK h : h = (CHOOSE f : f = Step(f))
  OBVIOUS
<1>9. h = Step(h)
  BY <1>7, <1>8
<1>10. \A s \in SUBSET Q : h[s] \in W[s]
  <2>1. h[{}] \in W[{}]
    BY <1>2, <1>9
  <2>2. ASSUME NEW s \in SUBSET Q, s # {}, h[s \ {Picked(s)}] \in W[s \ {Picked(s)}]
        PROVE  h[s] \in W[s]
    <3>1. Picked(s) \in s
      BY <2>2 DEF Picked
    <3>2. h[s] = VirtMergePrev(h[s \ {Picked(s)}], Picked(s))
      BY <1>9, <2>2
    <3> HIDE DEF W, Step
    <3> QED
      BY <1>3, <2>2, <3>1, <3>2
  <2> HIDE DEF W, Step
  <2> QED
    BY <1>1, <2>1, <2>2, FoldHolds
<1>11. FoldSet(LAMBDA k, m : VirtMergePrev(m, k), vt, Q) = h[Q]
  BY <1>8 DEF FoldSet, MapThenFoldSet, Picked
<1>12. Q \ Q = {}
  OBVIOUS
<1> QED
  BY <1>10, <1>11, <1>12

\* fMProtect leaves a sound memory, with another usage in its range.
LEMMA MprotectKeeps ==
    ASSUME NEW e, Sound(virt, phys, e), NEW a \in Nat, NEW n \in Nat, NEW u \in SUBSET Rights,
           Mprotect(a, n, u)
    PROVE  Sound(virt', phys', e) /\ OtherUsage(virt, virt', a, n, u)
<1>1. PICK vt : vt = VirtCut(VirtCut(virt, a), a + n)
  OBVIOUS
<1>2. PICK inside : inside = {k \in DOMAIN vt : a <= k /\ k < a + n}
  OBVIOUS
<1>3. PICK changed : changed = [k \in DOMAIN vt |-> IF k \in inside THEN [vt[k] EXCEPT !.usage = u] ELSE vt[k]]
  OBVIOUS
<1>4. PICK Q : Q = inside \union ({a + n} \intersect DOMAIN vt)
  OBVIOUS
<1>5. PICK R : R = virt'
  OBVIOUS
<1>6. R = FoldSet(LAMBDA k, m : VirtMergePrev(m, k), changed, Q) /\ phys' = phys
  BY <1>1, <1>2, <1>3, <1>4, <1>5 DEF Mprotect, Cut, Inside
<1>7. /\ Laid(vt) /\ Backing(vt, phys) /\ SamePages(virt, vt) /\ IsMap(vt)
      /\ \A k \in DOMAIN vt : /\ a <= k \/ EndOf(vt, k) <= a
                              /\ a + n <= k \/ EndOf(vt, k) <= a + n
  BY <1>1, CutOut DEF Sound
<1>8. /\ \A j : j \in DOMAIN changed <=> j \in DOMAIN vt
      /\ \A j \in DOMAIN vt : j \notin inside => changed[j] = vt[j]
      /\ IsMap(changed)
  BY <1>3 DEF IsMap
<1>16. ASSUME NEW j \in DOMAIN vt, j \in inside
       PROVE  /\ changed[j] \in [physical : Nat, size : Nat, usage : SUBSET Rights]
              /\ changed[j].physical = vt[j].physical /\ changed[j].size = vt[j].size /\ changed[j].usage = u
  <2>1. vt[j] \in [physical : Nat, size : Nat, usage : SUBSET Rights]
    BY <1>7 DEF Laid
  <2>2. PICK v \in [physical : Nat, size : Nat, usage : SUBSET Rights] : v = vt[j]
    BY <2>1
  <2>3. changed[j] = [v EXCEPT !.usage = u]
    BY <1>3, <1>16, <2>2
  <2> QED
    BY <2>2, <2>3
<1>9. /\ Laid(changed) /\ Backing(changed, phys)
      /\ \A j \in DOMAIN vt : EndOf(changed, j) = EndOf(vt, j) /\ changed[j].physical = vt[j].physical
      /\ \A j \in DOMAIN vt : /\ j \in inside => changed[j].usage = u
                              /\ j \notin inside => changed[j].usage = vt[j].usage
  <2>1. Reassigned(vt, changed, inside, u)
    <3>1. \A j \in DOMAIN vt : /\ changed[j] \in [physical : Nat, size : Nat, usage : SUBSET Rights]
                              /\ changed[j].physical = vt[j].physical /\ changed[j].size = vt[j].size
      BY <1>7, <1>8, <1>16 DEF Laid
    <3> QED
      BY <1>8, <1>16, <3>1 DEF Reassigned
  <2> QED
    BY <1>7, <2>1, UsageLaid
<1>10. FoldSet(LAMBDA k, m : VirtMergePrev(m, k), changed, Q) \in Merges(changed, phys, {})
  <2>1. Q \in SUBSET DOMAIN changed
    BY <1>2, <1>4, <1>8
  <2>2. TiledTo(phys, e)
    BY DEF Sound
  <2> QED
    BY <1>8, <1>9, <2>1, <2>2, MergeAllIs, Zenon
<1>11. R \in Merges(changed, phys, {})
  BY <1>6, <1>10, Zenon
<1>12. Laid(R) /\ Backing(R, phys) /\ SamePages(changed, R) /\ IsMap(R)
  BY <1>11, MapsAre DEF Merges
<1>13. ASSUME NEW p \in Int
       PROVE  /\ Holds(R, p) <=> Holds(virt, p)
              /\ Holds(virt, p) => /\ PlaceIn(R, p) = PlaceIn(virt, p)
                                   /\ a <= p /\ p < a + n => UsageIn(R, p) = u
                                   /\ p < a \/ a + n <= p => UsageIn(R, p) = UsageIn(virt, p)
  <2>1. Holds(changed, p) <=> Holds(vt, p)
    BY <1>8, <1>9, HoldsIs
  <2>2. ASSUME Holds(vt, p)
        PROVE  /\ PlaceIn(changed, p) = PlaceIn(vt, p)
               /\ a <= p /\ p < a + n => UsageIn(changed, p) = u
               /\ p < a \/ a + n <= p => UsageIn(changed, p) = UsageIn(vt, p)
    <3>1. PICK k \in DOMAIN vt : k <= p /\ p < EndOf(vt, k)
      BY <2>2, HoldsIs
    <3>2. k \in DOMAIN changed /\ k \in Nat /\ EndOf(vt, k) \in Nat /\ p < EndOf(changed, k)
      BY <1>7, <1>8, <1>9, <3>1, LaidSlot
    <3>3. /\ UsageIn(vt, p) = vt[k].usage /\ PlaceIn(vt, p) = vt[k].physical + (p - k)
          /\ UsageIn(changed, p) = changed[k].usage /\ PlaceIn(changed, p) = changed[k].physical + (p - k)
      BY <1>7, <1>9, <3>1, <3>2, PageIn DEF Laid
    <3>4. k \in inside <=> a <= p /\ p < a + n
      BY <1>2, <1>7, <3>1, <3>2
    <3> QED
      BY <1>9, <3>3, <3>4
  <2>3. /\ Holds(vt, p) <=> Holds(virt, p)
        /\ Holds(virt, p) => UsageIn(vt, p) = UsageIn(virt, p) /\ PlaceIn(vt, p) = PlaceIn(virt, p)
    BY <1>7 DEF SamePages
  <2>4. /\ Holds(R, p) <=> Holds(changed, p)
        /\ Holds(changed, p) => UsageIn(R, p) = UsageIn(changed, p) /\ PlaceIn(R, p) = PlaceIn(changed, p)
    BY <1>12 DEF SamePages
  <2> QED
    BY <2>1, <2>2, <2>3, <2>4
<1>14. OtherUsage(virt, R, a, n, u)
  BY <1>13 DEF OtherUsage
<1>15. Sound(R, phys, e)
  BY <1>12 DEF Sound
<1> QED
  BY <1>5, <1>6, <1>14, <1>15

-----------------------------------------------------------------------------
(* mmap: a new slot between its neighbors. *)

\* nothing is mapped in the range, which fits behind what ends and before what begins there
Room(vt, ph, a, n, q) ==
    /\ a \in Nat /\ n \in Nat /\ n > 0 /\ a + n <= PageCount /\ q \in Nat
    /\ \A k \in DOMAIN vt : EndOf(vt, k) <= a \/ a + n <= k
    /\ LiesIn(ph, q, q + n, 1)
    /\ \A k \in DOMAIN vt : PhysEnd(vt[k]) <= q \/ q + n <= vt[k].physical
    /\ \A k \in DOMAIN vt : EndOf(vt, k) = a => PhysEnd(vt[k]) = q /\ q \notin DOMAIN ph
    /\ \A k \in DOMAIN vt : k = a + n => vt[k].physical = q + n /\ q + n \notin DOMAIN ph

\* the new slot, merged with the one before
Added(vt, a, n, q, u) == VirtMergePrev(Put(vt, a, Slot(q, n, u)), a)

\* A slot put into room that is used and not taken keeps the memory sound.
LEMMA AddedIs ==
    ASSUME NEW vt, NEW ph, NEW e, Sound(vt, ph, e), NEW a, NEW n, NEW q, NEW u \in SUBSET Rights,
           Room(vt, ph, a, n, q)
    PROVE  /\ Sound(Added(vt, a, n, q, u), ph, e)
           /\ NewPages(vt, Added(vt, a, n, q, u), a, n, q, u)
           /\ \A j : j \in DOMAIN vt => j \in DOMAIN Added(vt, a, n, q, u)
<1>1. PICK m : m = Put(vt, a, Slot(q, n, u))
  OBVIOUS
<1>2. a \in Nat /\ n \in Nat /\ n > 0 /\ q \in Nat
  BY DEF Room
<1>3. /\ Laid(m) /\ Backing(m, ph) /\ NewPages(vt, m, a, n, q, u)
      /\ \A j : j \in DOMAIN m <=> j \in DOMAIN vt \/ j = a
  BY <1>1, PutAt DEF Sound, Room
<1>4. PICK R : R = VirtMergePrev(m, a)
  OBVIOUS
<1>5. a \in DOMAIN m
  BY <1>3
<1>6. /\ Laid(R) /\ Backing(R, ph) /\ SamePages(m, R)
      /\ \A j \in DOMAIN m : j # a => j \in DOMAIN R
  BY <1>3, <1>4, <1>5, VirtMergeAt DEF Sound
<1>7. IsMap(R)
  BY <1>1, <1>4, PutMap, VirtMergeMap
<1>8. NewPages(vt, R, a, n, q, u)
  BY <1>3, <1>6, NewPagesTrans
<1>9. a \notin DOMAIN vt
  <2>1. \A k \in DOMAIN vt : k < EndOf(vt, k) /\ k \in Nat /\ EndOf(vt, k) \in Nat
    BY LaidSlot DEF Sound
  <2> QED
    BY <1>2, <2>1 DEF Room
<1>10. R = Added(vt, a, n, q, u)
  BY <1>1, <1>4 DEF Added
<1>11. Sound(R, ph, e)
  BY <1>6, <1>7 DEF Sound
<1> QED
  BY <1>3, <1>6, <1>8, <1>9, <1>10, <1>11

\* Merging changes neither the pages nor where they are.
LEMMA MergedIs ==
    ASSUME NEW vt, NEW ph, NEW e, Sound(vt, ph, e), NEW k \in DOMAIN vt
    PROVE  Sound(VirtMergePrev(vt, k), ph, e) /\ SamePages(vt, VirtMergePrev(vt, k))
<1>1. PICK R : R = VirtMergePrev(vt, k)
  OBVIOUS
<1>2. Laid(R) /\ Backing(R, ph) /\ SamePages(vt, R) /\ IsMap(R)
  BY <1>1, VirtMergeAt, VirtMergeMap DEF Sound
<1> QED
  BY <1>1, <1>2 DEF Sound

\* Every page of the guest lies in its slot, in a physical one that is in use.
LEMMA BackingIs ==
    ASSUME NEW ph, NEW e, TiledTo(ph, e), NEW f \in Int, NEW t \in Int, f < t, LiesIn(ph, f, t, 1)
    PROVE  /\ SlotAt(ph, f) \in DOMAIN ph /\ ph[SlotAt(ph, f)].users = 1
           /\ SlotAt(ph, f) <= f /\ t <= EndOf(ph, SlotAt(ph, f))
<1>1. PICK j \in DOMAIN ph : ph[j].users = 1 /\ j <= f /\ t <= EndOf(ph, j)
  BY DEF LiesIn
<1>2. j \in Nat /\ EndOf(ph, j) \in Nat
  BY NextIs DEF TiledTo
<1>3. SlotAt(ph, f) = j
  BY <1>1, <1>2, TiledOrdered, SlotAtIs
<1> QED
  BY <1>1, <1>3

\* The free slot between two neighbors that are moved apart by as much is exactly the room.
LEMMA HoleIs ==
    ASSUME NEW e, Sound(virt, phys, e), NEW prev \in DOMAIN virt, NEW next \in DOMAIN virt,
           NEW n \in Nat, n > 0, Aligned(prev, next, n)
    PROVE  /\ NextOf(phys, SlotAt(phys, virt[prev].physical)) = PhysEnd(virt[prev])
           /\ PhysEnd(virt[prev]) \in DOMAIN phys
           /\ EndOf(phys, PhysEnd(virt[prev])) = PhysEnd(virt[prev]) + n
           /\ phys[PhysEnd(virt[prev])].users = 0
           /\ PhysEnd(virt[prev]) + n = virt[next].physical
           /\ virt[next].physical \in DOMAIN phys /\ phys[virt[next].physical].users = 1
           /\ \E k \in DOMAIN phys : EndOf(phys, k) = PhysEnd(virt[prev]) /\ phys[k].users = 1
<1>1. /\ TiledTo(phys, e) /\ e \in Nat
      /\ LiesIn(phys, virt[prev].physical, PhysEnd(virt[prev]), 1)
      /\ LiesIn(phys, virt[next].physical, PhysEnd(virt[next]), 1)
  BY DEF Sound, Backing, TiledTo
<1>2. PICK f \in Nat : f = virt[prev].physical
  BY LaidSlot DEF Sound
<1>3. PICK t \in Nat : t = PhysEnd(virt[prev])
  BY LaidSlot DEF Sound
<1>4. PICK g \in Nat : g = virt[next].physical
  BY LaidSlot DEF Sound
<1>5. PICK v \in Nat : v = PhysEnd(virt[next])
  BY LaidSlot DEF Sound
<1>6. f < t /\ g < v
  BY <1>2, <1>3, <1>4, <1>5, LaidSlot DEF Sound
<1>7. PICK k : k = SlotAt(phys, f)
  OBVIOUS
<1>8. k \in DOMAIN phys /\ phys[k].users = 1 /\ k <= f /\ t <= EndOf(phys, k)
  BY <1>1, <1>2, <1>3, <1>6, <1>7, BackingIs
<1>9. PICK b \in Nat : b = EndOf(phys, k)
  BY <1>1, <1>8, NextIs
<1>10. PICK hole : hole = NextOf(phys, k)
  OBVIOUS
<1>11. t + n = g /\ b <= g /\ phys[hole].users = 0 /\ phys[hole].size = n
  BY <1>2, <1>3, <1>4, <1>7, <1>9, <1>10 DEF Aligned
<1>12. v <= e
  BY <1>1, <1>4, <1>5, LiesBelow
<1>13. b # e
  BY <1>6, <1>11, <1>12, <1>1
<1>14. hole = b /\ b \in DOMAIN phys
  BY <1>1, <1>8, <1>9, <1>10, <1>13, NextIs
<1>15. EndOf(phys, b) = b + n
  BY <1>11, <1>14 DEF EndOf
<1>16. LiesIn(phys, b, b + n, 0)
  BY <1>11, <1>14, <1>15 DEF LiesIn
<1>17. b + n <= g \/ v <= b
  <2>1. PICK c \in Nat : c = b + n
    OBVIOUS
  <2>2. LiesIn(phys, b, c, 0) /\ b < c /\ LiesIn(phys, g, v, 1)
    BY <1>1, <1>4, <1>5, <1>16, <2>1
  <2>3. c <= g \/ v <= b
    BY <1>1, <1>6, <2>2, DifferApart
  <2> QED
    BY <2>1, <2>3
<1>18. b = t
  BY <1>6, <1>8, <1>9, <1>11, <1>17
<1>19. g \in DOMAIN phys
  BY <1>1, <1>6, <1>11, <1>12, <1>14, <1>15, <1>18 DEF TiledTo
<1>20. phys[g].users = 1
  <2>1. PICK j \in DOMAIN phys : phys[j].users = 1 /\ j <= g /\ v <= EndOf(phys, j)
    BY <1>1, <1>4, <1>5 DEF LiesIn
  <2>2. j \in Nat /\ EndOf(phys, j) \in Nat /\ g < EndOf(phys, g)
    BY <1>1, <1>19, <2>1, NextIs DEF TiledTo
  <2>3. j = g
    BY <1>1, <1>6, <1>19, <2>1, <2>2, TiledOrdered, OneSlot
  <2> QED
    BY <2>1, <2>3
<1> QED
  BY <1>2, <1>3, <1>4, <1>7, <1>8, <1>9, <1>10, <1>11, <1>14, <1>15, <1>18, <1>19, <1>20

\* Given back to the neighbors, the slot between them makes room.
LEMMA BetweenRoom ==
    ASSUME NEW e, Sound(virt, phys, e), NEW prev \in DOMAIN virt, NEW next \in DOMAIN virt,
           NEW n \in Nat, n > 0, Aligned(prev, next, n), next = EndOf(virt, prev) + n,
           \A k \in DOMAIN virt : EndOf(virt, k) <= EndOf(virt, prev) \/ next <= k
    PROVE  /\ Sound(virt, Assign(phys, PhysEnd(virt[prev]), 1), e)
           /\ Room(virt, Assign(phys, PhysEnd(virt[prev]), 1), EndOf(virt, prev), n, PhysEnd(virt[prev]))
<1>1. PICK b \in Nat : b = PhysEnd(virt[prev])
  BY LaidSlot DEF Sound
<1>2. PICK R : R = Assign(phys, b, 1)
  OBVIOUS
<1>3. /\ b \in DOMAIN phys /\ EndOf(phys, b) = b + n /\ phys[b].users = 0
      /\ b + n = virt[next].physical /\ b + n \in DOMAIN phys /\ phys[b + n].users = 1
      /\ \E k \in DOMAIN phys : EndOf(phys, k) = b /\ phys[k].users = 1
  BY <1>1, HoleIs
<1>4. TiledTo(phys, e) /\ Laid(virt) /\ Backing(virt, phys)
  BY DEF Sound
<1>5. /\ TiledTo(R, e)
      /\ \A j : j \in DOMAIN R => j \in DOMAIN phys
      /\ LiesIn(R, b, EndOf(phys, b), 1)
  BY <1>2, <1>3, <1>4, AssignAt
<1>6. b \notin DOMAIN R
  BY <1>2, <1>3, <1>4, AssignAt
<1>7. EndOf(phys, b) \notin DOMAIN R
  <2>1. EndOf(phys, b) \in DOMAIN phys /\ phys[EndOf(phys, b)].users = 1
    BY <1>3
  <2> QED
    BY <1>2, <1>3, <1>4, <2>1, AssignAt
<1>8. ASSUME NEW j \in DOMAIN virt
      PROVE  /\ LiesIn(R, virt[j].physical, PhysEnd(virt[j]), 1)
             /\ PhysEnd(virt[j]) <= b \/ b + n <= virt[j].physical
  <2>1. PICK f \in Int : f = virt[j].physical
    BY <1>4, LaidSlot
  <2>2. PICK t \in Int : t = PhysEnd(virt[j])
    BY <1>4, LaidSlot
  <2>3. f < t /\ LiesIn(phys, f, t, 1)
    BY <1>4, <2>1, <2>2, LaidSlot DEF Backing
  <2>4. LiesIn(R, f, t, 1)
    BY <1>2, <1>3, <1>4, <2>3, AssignKeeps
  <2>5. PICK c \in Int : c = b + n
    OBVIOUS
  <2>6. LiesIn(phys, b, c, 0) /\ b < c
    BY <1>3, <2>5 DEF LiesIn
  <2>7. c <= f \/ t <= b
    BY <1>4, <2>3, <2>6, DifferApart
  <2> QED
    BY <2>1, <2>2, <2>4, <2>5, <2>7
<1>9. Backing(virt, R)
  BY <1>4, <1>5, <1>8 DEF Backing
<1>10. Sound(virt, R, e)
  BY <1>2, <1>5, <1>9, AssignMap DEF Sound
<1>11. /\ EndOf(virt, prev) \in Nat /\ next <= PageCount
  BY <1>4, LaidSlot, MemoryAssumption
<1>12. ASSUME NEW k \in DOMAIN virt, EndOf(virt, k) = EndOf(virt, prev)
       PROVE  k = prev
  <2>1. \A j \in DOMAIN virt : j \in Nat /\ EndOf(virt, j) \in Nat /\ j < EndOf(virt, j)
    BY <1>4, LaidSlot
  <2>2. \A i, j \in DOMAIN virt : i < j => EndOf(virt, i) <= j
    BY <1>4 DEF Laid, Ordered
  <2> QED
    BY <1>12, <2>1, <2>2
<1>13. Room(virt, R, EndOf(virt, prev), n, b)
  <2>1. LiesIn(R, b, b + n, 1)
    BY <1>3, <1>5
  <2>2. \A k \in DOMAIN virt : EndOf(virt, k) = EndOf(virt, prev) => PhysEnd(virt[k]) = b /\ b \notin DOMAIN R
    BY <1>1, <1>6, <1>12
  <2>3. \A k \in DOMAIN virt : k = EndOf(virt, prev) + n => virt[k].physical = b + n /\ b + n \notin DOMAIN R
    BY <1>3, <1>7
  <2> QED
    BY <1>8, <1>11, <2>1, <2>2, <2>3 DEF Room
<1> QED
  BY <1>1, <1>2, <1>10, <1>13

\* fMemMMap between two slots with just the room between them adds the range.
LEMMA MapBetweenKeeps ==
    ASSUME NEW e, Sound(virt, phys, e), NEW prev \in DOMAIN virt, NEW next \in DOMAIN virt,
           NEW n \in Nat, n > 0, NEW u \in SUBSET Rights, Aligned(prev, next, n),
           next = EndOf(virt, prev) + n,
           \A k \in DOMAIN virt : EndOf(virt, k) <= EndOf(virt, prev) \/ next <= k,
           MapBetween(prev, next, n, u)
    PROVE  /\ Sound(virt', phys', e)
           /\ NewPages(virt, virt', EndOf(virt, prev), n, PhysEnd(virt[prev]), u)
           /\ data' = Cleared(data, PhysEnd(virt[prev]), n)
<1>1. PICK b \in Nat : b = PhysEnd(virt[prev])
  BY LaidSlot DEF Sound
<1>2. PICK a \in Nat : a = EndOf(virt, prev)
  BY LaidSlot DEF Sound
<1>3. NextOf(phys, SlotAt(phys, virt[prev].physical)) = b
  BY <1>1, HoleIs
<1>4. /\ data' = Cleared(data, b, n) /\ phys' = Assign(phys, b, 1)
      /\ virt' = VirtMergePrev(Extend(virt, prev, n, u), next)
  BY <1>3 DEF MapBetween
<1>5. PICK R : R = Assign(phys, b, 1)
  OBVIOUS
<1>6. Sound(virt, R, e) /\ Room(virt, R, a, n, b)
  BY <1>1, <1>2, <1>5, BetweenRoom
<1>7. EndOf(virt, prev) \notin DOMAIN virt
  <2>1. \A j \in DOMAIN virt : j \in Nat /\ EndOf(virt, j) \in Nat /\ j < EndOf(virt, j)
    BY LaidSlot DEF Sound
  <2> QED
    BY <2>1
<1>8. PICK m : m = Added(virt, a, n, b, u)
  OBVIOUS
<1>9. Extend(virt, prev, n, u) = m
  BY <1>1, <1>2, <1>7, <1>8, ExtendIs DEF Added, Sound
<1>10. Sound(m, R, e) /\ NewPages(virt, m, a, n, b, u) /\ next \in DOMAIN m
  BY <1>6, <1>8, AddedIs
<1>11. PICK vt : vt = VirtMergePrev(m, next)
  OBVIOUS
<1>12. Sound(vt, R, e) /\ SamePages(m, vt)
  BY <1>10, <1>11, MergedIs
<1>13. NewPages(virt, vt, a, n, b, u)
  BY <1>10, <1>12, NewPagesTrans
<1> QED
  BY <1>1, <1>2, <1>4, <1>5, <1>9, <1>11, <1>12, <1>13

-----------------------------------------------------------------------------
(* mmap: the physical slot of the previous one becomes longer. *)

\* what is free behind slot k: nothing, or another slot which the last one is made longer of
FreeBehind(ph, k, e, growth, room, n) ==
    /\ growth \in Nat /\ room \in Nat /\ growth + room >= n
    /\ \/ EndOf(ph, k) = e /\ room = 0
       \/ /\ EndOf(ph, k) # e /\ EndOf(ph, k) \in DOMAIN ph
          /\ ph[EndOf(ph, k)].users = 0 /\ ph[EndOf(ph, k)].size = room
          /\ growth = 0 \/ EndOf(ph, EndOf(ph, k)) = e

\* the longer slot
Lengthened(ph, k, e, growth, room) ==
    Resize(IF EndOf(ph, k) = e THEN ph ELSE Erase(ph, EndOf(ph, k)), k, ph[k].size + (growth + room))

\* A used slot that takes over free room behind it, and what the memory grew by.
LEMMA LengthenedIs ==
    ASSUME NEW ph, NEW e, TiledTo(ph, e), NEW k \in DOMAIN ph, NEW growth, NEW room, NEW n \in Nat, n > 0,
           FreeBehind(ph, k, e, growth, room, n)
    PROVE  /\ TiledTo(Lengthened(ph, k, e, growth, room), e + growth)
           /\ IsMap(Lengthened(ph, k, e, growth, room))
           /\ k \in DOMAIN Lengthened(ph, k, e, growth, room)
           /\ EndOf(Lengthened(ph, k, e, growth, room), k) = EndOf(ph, k) + growth + room
           /\ Lengthened(ph, k, e, growth, room)[k].users = ph[k].users
           /\ \A j : j \in DOMAIN Lengthened(ph, k, e, growth, room) <=> j \in DOMAIN ph /\ j # EndOf(ph, k)
           /\ \A j \in DOMAIN ph : j # k /\ j # EndOf(ph, k) => Lengthened(ph, k, e, growth, room)[j] = ph[j]
<1>1. growth \in Nat /\ room \in Nat /\ e \in Nat
  BY DEF FreeBehind, TiledTo
<1>2. PICK R : R = Lengthened(ph, k, e, growth, room)
  OBVIOUS
<1>3. IsMap(R)
  BY <1>2, ResizeMap DEF Lengthened
<1>4. PICK b \in Nat : b = EndOf(ph, k) /\ k < b /\ k \in Nat
  BY NextIs DEF TiledTo
<1>5. ph[k].size \in Nat /\ b = k + ph[k].size
  BY <1>4 DEF TiledTo, EndOf
<1>6. PICK s \in Nat : s = ph[k].size + (growth + room)
  BY <1>1, <1>5
<1>7. CASE b = e
  <2>1. room = 0 /\ R = Resize(ph, k, s)
    BY <1>2, <1>4, <1>6, <1>7 DEF Lengthened, FreeBehind
  <2>2. s = ph[k].size + growth
    BY <1>1, <1>5, <1>6, <2>1
  <2>3. R = Grow(ph, k, growth)
    BY <2>1, <2>2 DEF Grow
  <2>4. TiledTo(R, e + growth)
    BY <1>1, <1>4, <1>7, <2>3, GrowAt
  <2>5. /\ \A j : j \in DOMAIN R <=> j \in DOMAIN ph
        /\ EndOf(R, k) = e + growth
        /\ R[k].users = ph[k].users
        /\ \A j \in DOMAIN ph : j # k => R[j] = ph[j]
    <3>0. EndOf(ph, k) = e /\ growth \in Nat
      BY <1>1, <1>4, <1>7
    <3>1. \A j : j \in DOMAIN R <=> j \in DOMAIN ph
      BY <2>3, <3>0, GrowAt
    <3>2. EndOf(R, k) = e + growth
      BY <2>3, <3>0, GrowAt
    <3>3. R[k].users = ph[k].users
      BY <2>3, <3>0, GrowAt
    <3>4. \A j \in DOMAIN ph : j # k => R[j] = ph[j]
      BY <2>3, <3>0, GrowAt
    <3> QED
      BY <3>1, <3>2, <3>3, <3>4
  <2>6. e \notin DOMAIN ph
    BY <1>1 DEF TiledTo
  <2> QED
    BY <1>1, <1>2, <1>3, <1>4, <1>7, <2>1, <2>4, <2>5, <2>6
<1>8. CASE b # e
  <2>1. /\ b \in DOMAIN ph /\ ph[b].users = 0 /\ ph[b].size = room
        /\ growth = 0 \/ EndOf(ph, b) = e
    BY <1>4, <1>8 DEF FreeBehind
  <2>2. PICK J : J = Join(ph, k, b)
    OBVIOUS
  <2>3. /\ TiledTo(J, e)
        /\ \A j : j \in DOMAIN J <=> j \in DOMAIN ph /\ j # b
        /\ \A j \in DOMAIN ph : j # b /\ j # k => J[j] = ph[j]
        /\ EndOf(J, k) = EndOf(ph, b) /\ J[k].users = ph[k].users
    BY <1>4, <2>1, <2>2, JoinAt
  <2>4. EndOf(ph, b) = b + room
    BY <2>1 DEF EndOf
  <2>5. k \in DOMAIN J /\ J[k] \in [size : Nat \ {0}, users : {0, 1}]
    BY <1>4, <2>3 DEF TiledTo
  <2>6. J[k].size = ph[k].size + room
    BY <1>1, <1>4, <1>5, <2>3, <2>4, <2>5 DEF EndOf
  <2>7. PICK E : E = Erase(ph, b)
    OBVIOUS
  <2>8. /\ \A j : j \in DOMAIN E <=> j \in DOMAIN ph /\ j # b
        /\ \A j \in DOMAIN E : E[j] = ph[j]
    BY <2>7 DEF Erase, Restrict
  <2>9. k \in DOMAIN E /\ E[k] = ph[k]
    BY <1>4, <2>8
  <2>10. R = Resize(E, k, s)
    BY <1>2, <1>4, <1>6, <1>8, <2>7 DEF Lengthened
  <2>11. PICK r \in [size : Nat \ {0}, users : {0, 1}] : r = ph[k]
    BY DEF TiledTo
  <2>12. R[k] = [r EXCEPT !.size = s]
    BY <2>9, <2>10, <2>11 DEF Resize
  <2>13. /\ \A j : j \in DOMAIN R <=> j \in DOMAIN E
         /\ \A j \in DOMAIN E : j # k => R[j] = E[j]
         /\ R[k].size = s /\ R[k].users = ph[k].users
    BY <2>9, <2>10, <2>11, <2>12 DEF Resize
  <2>14. R[k] \in [size : Nat \ {0}, users : {0, 1}]
    <3>1. s \in Nat \ {0}
      BY <1>1, <1>4, <1>5, <1>6
    <3> QED
      BY <2>11, <2>12, <3>1
  <2>15. EndOf(R, k) = b + growth + room
    BY <1>1, <1>4, <1>5, <1>6, <2>13 DEF EndOf
  <2>16. \A j \in DOMAIN R : j \in DOMAIN J /\ (j # k => R[j] = J[j])
    BY <2>3, <2>8, <2>13
  <2>17. TiledTo(R, e + growth)
    <3>1. e + growth \in Nat /\ 0 \in DOMAIN R
      BY <1>1, <2>3, <2>8, <2>13 DEF TiledTo
    <3>2. \A j \in DOMAIN R : j # k => EndOf(R, j) = EndOf(J, j)
      BY <2>16 DEF EndOf
    <3>3. \A j \in DOMAIN J : j \in DOMAIN R
      BY <2>3, <2>8, <2>13
    <3>4. EndOf(R, k) = EndOf(J, k) + growth /\ EndOf(J, k) \in Nat
      BY <1>1, <2>3, <2>4, <2>15
    <3>5. growth = 0 \/ EndOf(J, k) = e
      BY <2>1, <2>3
    <3>6. ASSUME NEW j \in DOMAIN R
          PROVE  /\ j \in Nat /\ j < e + growth /\ R[j] \in [size : Nat \ {0}, users : {0, 1}]
                 /\ EndOf(R, j) = e + growth \/ EndOf(R, j) \in DOMAIN R
      <4>1. j \in DOMAIN J /\ j \in Nat /\ j < e
        BY <2>3, <2>16 DEF TiledTo
      <4>2. R[j] \in [size : Nat \ {0}, users : {0, 1}]
        BY <2>3, <2>14, <2>16, <4>1 DEF TiledTo
      <4>3. EndOf(J, j) = e \/ EndOf(J, j) \in DOMAIN J
        BY <2>3, <4>1 DEF TiledTo
      <4>4. EndOf(R, j) = e + growth \/ EndOf(R, j) \in DOMAIN R
        <5>1. CASE j = k
          BY <1>1, <3>3, <3>4, <3>5, <4>3, <5>1
        <5>2. CASE j # k
          <6>1. EndOf(J, k) = e /\ EndOf(J, j) = e => j = k
            <7>1. j < EndOf(J, j) /\ k < EndOf(J, k) /\ k \in Nat /\ k \in DOMAIN J
              BY <2>3, <2>5, <4>1, NextIs DEF TiledTo
            <7> QED
              BY <1>1, <2>3, <4>1, <7>1 DEF TiledTo
          <6> QED
            BY <1>1, <3>2, <3>3, <3>5, <4>3, <5>2, <6>1
        <5> QED
          BY <5>1, <5>2
      <4> QED
        BY <1>1, <4>1, <4>2, <4>4
    <3>7. ASSUME NEW i \in DOMAIN R, NEW j \in DOMAIN R, i < j
          PROVE  EndOf(R, i) <= j
      <4>1. i \in DOMAIN J /\ j \in DOMAIN J /\ EndOf(J, i) <= j
        BY <2>3, <2>16, <3>7 DEF TiledTo
      <4>2. CASE i = k
        <5>1. EndOf(J, k) # e
          BY <1>1, <2>3, <4>1, <4>2 DEF TiledTo
        <5> QED
          BY <3>4, <3>5, <4>1, <4>2, <5>1
      <4>3. CASE i # k
        BY <3>2, <4>1, <4>3
      <4> QED
        BY <4>2, <4>3
    <3> QED
      BY <3>1, <3>6, <3>7 DEF TiledTo
  <2> QED
    BY <1>2, <1>3, <1>4, <2>8, <2>9, <2>13, <2>15, <2>17
<1> QED
  BY <1>7, <1>8

\* the longer slot, and what is left of it
Fitted(ph, k, e, growth, room, n) ==
    LET longer == Lengthened(ph, k, e, growth, room)
        cut == EndOf(ph, k) + n
    IN  IF growth + room > n THEN [PhysSplit(longer, k, cut) EXCEPT ![cut].users = 0] ELSE longer

\* A slot that grew by what is needed, with what is left of the room free behind it.
LEMMA FittedIs ==
    ASSUME NEW ph, NEW e, TiledTo(ph, e), NEW k \in DOMAIN ph, NEW growth, NEW room, NEW n \in Nat, n > 0,
           FreeBehind(ph, k, e, growth, room, n)
    PROVE  /\ TiledTo(Fitted(ph, k, e, growth, room, n), e + growth)
           /\ IsMap(Fitted(ph, k, e, growth, room, n))
           /\ k \in DOMAIN Fitted(ph, k, e, growth, room, n)
           /\ EndOf(Fitted(ph, k, e, growth, room, n), k) = EndOf(ph, k) + n
           /\ Fitted(ph, k, e, growth, room, n)[k].users = ph[k].users
           /\ \A j \in DOMAIN ph : j # k /\ j # EndOf(ph, k) =>
                    /\ j \in DOMAIN Fitted(ph, k, e, growth, room, n)
                    /\ Fitted(ph, k, e, growth, room, n)[j] = ph[j]
           /\ \A j \in DOMAIN Fitted(ph, k, e, growth, room, n) :
                    \/ j \in DOMAIN ph /\ j # EndOf(ph, k)
                    \/ j = EndOf(ph, k) + n /\ n < growth + room
<1>1. growth \in Nat /\ room \in Nat /\ e \in Nat /\ growth + room >= n
  BY DEF FreeBehind, TiledTo
<1>2. PICK L : L = Lengthened(ph, k, e, growth, room)
  OBVIOUS
<1>3. PICK b \in Nat : b = EndOf(ph, k) /\ k < b /\ k \in Nat
  BY NextIs DEF TiledTo
<1>4. PICK R : R = Fitted(ph, k, e, growth, room, n)
  OBVIOUS
<1>5. /\ TiledTo(L, e + growth) /\ IsMap(L) /\ k \in DOMAIN L
      /\ EndOf(L, k) = b + growth + room /\ L[k].users = ph[k].users
      /\ \A j : j \in DOMAIN L <=> j \in DOMAIN ph /\ j # b
      /\ \A j \in DOMAIN ph : j # k /\ j # b => L[j] = ph[j]
  BY <1>2, <1>3, LengthenedIs
<1>6. CASE growth + room = n
  <2>1. R = L
    BY <1>2, <1>4, <1>6 DEF Fitted
  <2>2. EndOf(L, k) = b + n
    BY <1>1, <1>5, <1>6
  <2> QED
    BY <1>3, <1>4, <1>5, <2>1, <2>2
<1>7. CASE growth + room > n
  <2>1. PICK c \in Nat : c = b + n
    OBVIOUS
  <2>2. PICK E \in Nat : E = e + growth
    BY <1>1
  <2>3. PICK S : S = PhysSplit(L, k, c)
    OBVIOUS
  <2>4. TiledTo(L, E) /\ k < c /\ c < EndOf(L, k) /\ k \in DOMAIN L
    BY <1>1, <1>3, <1>5, <1>7, <2>1, <2>2
  <2>5. /\ TiledTo(S, E)
        /\ \A j : j \in DOMAIN S <=> j \in DOMAIN L \/ j = c
        /\ c \notin DOMAIN L
        /\ \A j \in DOMAIN L : j # k => S[j] = L[j]
        /\ EndOf(S, k) = c /\ S[k].users = L[k].users
    BY <2>3, <2>4, SplitAt
  <2>6. R = [S EXCEPT ![c].users = 0]
    BY <1>2, <1>3, <1>4, <1>7, <2>1, <2>3 DEF Fitted
  <2>7. c \in DOMAIN S /\ S[c] \in [size : Nat \ {0}, users : {0, 1}]
    BY <2>5 DEF TiledTo
  <2>8. /\ \A j : j \in DOMAIN R <=> j \in DOMAIN S
        /\ \A j \in DOMAIN S : j # c => R[j] = S[j]
        /\ R[c] = [size |-> S[c].size, users |-> 0] /\ IsMap(R)
    BY <2>6, <2>7 DEF IsMap
  <2>9. \A j \in DOMAIN S : EndOf(R, j) = EndOf(S, j)
    BY <2>7, <2>8 DEF EndOf
  <2>10. TiledTo(R, E)
    <3>1. \A j \in DOMAIN R : R[j] \in [size : Nat \ {0}, users : {0, 1}]
      BY <2>5, <2>7, <2>8 DEF TiledTo
    <3> QED
      BY <2>5, <2>8, <2>9, <3>1 DEF TiledTo
  <2>11. k \in DOMAIN R /\ EndOf(R, k) = b + n /\ R[k].users = ph[k].users
    BY <1>5, <2>1, <2>4, <2>5, <2>8, <2>9
  <2>12. \A j \in DOMAIN ph : j # k /\ j # b => j \in DOMAIN R /\ R[j] = ph[j]
    BY <1>5, <2>5, <2>8
  <2>13. \A j \in DOMAIN R : (j \in DOMAIN ph /\ j # b) \/ (j = b + n /\ n < growth + room)
    BY <1>1, <1>5, <1>7, <2>1, <2>5, <2>8
  <2> QED
    BY <1>3, <1>4, <2>2, <2>8, <2>10, <2>11, <2>12, <2>13
<1> QED
  BY <1>1, <1>6, <1>7

\* It makes room behind the virtual slots that lie in it up to its end.
LEMMA FittedRoom ==
    ASSUME NEW e, Sound(virt, phys, e), NEW prev \in DOMAIN virt, NEW growth, NEW room, NEW n \in Nat, n > 0,
           NEW k, k = SlotAt(phys, virt[prev].physical), PhysEnd(virt[prev]) = EndOf(phys, k),
           FreeBehind(phys, k, e, growth, room, n), EndOf(virt, prev) + n <= PageCount,
           \A j \in DOMAIN virt : EndOf(virt, j) <= EndOf(virt, prev) \/ EndOf(virt, prev) + n < j
    PROVE  /\ Sound(virt, Fitted(phys, k, e, growth, room, n), e + growth)
           /\ Room(virt, Fitted(phys, k, e, growth, room, n), EndOf(virt, prev), n, PhysEnd(virt[prev]))
           /\ growth \in Nat
<1>1. TiledTo(phys, e) /\ Laid(virt) /\ Backing(virt, phys) /\ e \in Nat /\ growth \in Nat /\ room \in Nat
  BY DEF Sound, TiledTo, FreeBehind
<1>2. PICK f \in Nat : f = virt[prev].physical
  BY <1>1, LaidSlot
<1>3. PICK b \in Nat : b = PhysEnd(virt[prev]) /\ f < b
  BY <1>1, <1>2, LaidSlot
<1>4. k \in DOMAIN phys /\ phys[k].users = 1 /\ k <= f /\ EndOf(phys, k) = b /\ k \in Nat
  <2>1. LiesIn(phys, f, b, 1)
    BY <1>1, <1>2, <1>3 DEF Backing
  <2> QED
    <3>1. SlotAt(phys, f) \in DOMAIN phys /\ phys[SlotAt(phys, f)].users = 1 /\ SlotAt(phys, f) <= f
      BY <1>1, <1>3, <2>1, BackingIs
    <3>2. k = SlotAt(phys, f) /\ EndOf(phys, k) = b
      BY <1>2, <1>3
    <3> QED
      BY <1>1, <3>1, <3>2 DEF TiledTo
<1>5. PICK R : R = Fitted(phys, k, e, growth, room, n)
  OBVIOUS
<1>6. /\ TiledTo(R, e + growth) /\ IsMap(R) /\ k \in DOMAIN R /\ EndOf(R, k) = b + n /\ R[k].users = 1
      /\ \A j \in DOMAIN phys : j # k /\ j # b => j \in DOMAIN R /\ R[j] = phys[j]
      /\ \A j \in DOMAIN R : (j \in DOMAIN phys /\ j # b) \/ (j = b + n /\ n < growth + room)
  BY <1>1, <1>4, <1>5, FittedIs
\* a used slot ends before the free one, or begins behind it
<1>7. ASSUME NEW j \in DOMAIN phys, phys[j].users = 1
      PROVE  j # b /\ (EndOf(phys, j) <= b \/ (b + n <= j /\ (n < growth + room => b + n < j)))
  <2>1. \A i \in DOMAIN phys : i \in Nat /\ EndOf(phys, i) \in Nat /\ i < e
    BY <1>1, NextIs DEF TiledTo
  <2>2. \A i, l \in DOMAIN phys : i < l => EndOf(phys, i) <= l
    BY <1>1 DEF TiledTo
  <2>3. CASE j <= k
    <3>1. EndOf(phys, j) <= b /\ j < b
      BY <1>4, <2>1, <2>2, <2>3, <1>2, <1>3
    <3> QED
      BY <3>1, <2>1
  <2>4. CASE k < j
    <3>1. b <= j
      BY <1>4, <2>2, <2>4
    <3>2. b # e
      BY <1>1, <2>1, <3>1
    <3>3. /\ b \in DOMAIN phys /\ phys[b].users = 0 /\ phys[b].size = room
          /\ growth = 0 \/ EndOf(phys, b) = e
      BY <1>4, <3>2 DEF FreeBehind
    <3>4. EndOf(phys, b) = b + room
      BY <3>3 DEF EndOf
    <3>5. j # b
      BY <1>7, <3>3
    <3>6. EndOf(phys, b) <= j
      BY <2>1, <2>2, <3>1, <3>3, <3>5
    <3>7. growth = 0
      BY <1>1, <2>1, <3>3, <3>6
    <3>8. room >= n
      BY <1>1, <3>7 DEF FreeBehind
    <3>9. ASSUME n < growth + room
          PROVE  b + n < j
      BY <1>1, <2>1, <3>4, <3>6, <3>7, <3>9
    <3> QED
      BY <1>1, <2>1, <3>4, <3>5, <3>6, <3>8, <3>9
  <2> QED
    BY <1>4, <2>1, <2>3, <2>4
<1>8. ASSUME NEW j \in DOMAIN virt
      PROVE  /\ LiesIn(R, virt[j].physical, PhysEnd(virt[j]), 1)
             /\ PhysEnd(virt[j]) <= b \/ b + n <= virt[j].physical
             /\ virt[j].physical \notin DOMAIN phys => virt[j].physical \notin DOMAIN R
  <2>1. PICK g \in Nat : g = virt[j].physical
    BY <1>1, LaidSlot
  <2>2. PICK t \in Nat : t = PhysEnd(virt[j]) /\ g < t
    BY <1>1, <2>1, LaidSlot
  <2>3. PICK i \in DOMAIN phys : phys[i].users = 1 /\ i <= g /\ t <= EndOf(phys, i)
    BY <1>1, <2>1, <2>2 DEF Backing, LiesIn
  <2>4. i # b /\ (EndOf(phys, i) <= b \/ (b + n <= i /\ (n < growth + room => b + n < i)))
    BY <1>7, <2>3
  <2>5. i \in Nat /\ EndOf(phys, i) \in Nat
    BY <1>1, <2>3, NextIs DEF TiledTo
  <2>6. LiesIn(R, g, t, 1)
    <3>1. CASE i = k
      BY <1>4, <1>6, <2>3, <3>1 DEF LiesIn
    <3>2. CASE i # k
      <4>1. i \in DOMAIN R /\ R[i] = phys[i]
        BY <1>6, <2>3, <2>4, <3>2
      <4> QED
        BY <2>3, <4>1 DEF LiesIn, EndOf
    <3> QED
      BY <3>1, <3>2
  <2>7. t <= b \/ b + n <= g
    BY <2>3, <2>4, <2>5
  <2>8. n < growth + room => g # b + n
    BY <2>2, <2>3, <2>4, <2>5
  <2>9. g \notin DOMAIN phys => g \notin DOMAIN R
    BY <1>6, <2>8
  <2> QED
    BY <2>1, <2>2, <2>6, <2>7, <2>9
<1>9. Backing(virt, R)
  BY <1>1, <1>8 DEF Backing
<1>10. Sound(virt, R, e + growth)
  BY <1>6, <1>9 DEF Sound
<1>11. \A j \in DOMAIN virt : j \in Nat /\ EndOf(virt, j) \in Nat /\ j < EndOf(virt, j)
  BY <1>1, LaidSlot
<1>12. ASSUME NEW j \in DOMAIN virt, EndOf(virt, j) = EndOf(virt, prev)
       PROVE  j = prev
  <2>1. \A i, l \in DOMAIN virt : i < l => EndOf(virt, i) <= l
    BY <1>1 DEF Laid, Ordered
  <2> QED
    BY <1>11, <1>12, <2>1
<1>13. b \notin DOMAIN R
  BY <1>6
<1>14. LiesIn(R, b, b + n, 1)
  BY <1>2, <1>3, <1>4, <1>6 DEF LiesIn
<1>15. Room(virt, R, EndOf(virt, prev), n, b)
  <2>1. \A j \in DOMAIN virt : EndOf(virt, j) = EndOf(virt, prev) => PhysEnd(virt[j]) = b /\ b \notin DOMAIN R
    BY <1>3, <1>12, <1>13
  <2>2. \A j \in DOMAIN virt : EndOf(virt, j) <= EndOf(virt, prev) \/ EndOf(virt, prev) + n <= j
    BY <1>11
  <2>3. \A j \in DOMAIN virt : j # EndOf(virt, prev) + n
    BY <1>11
  <2> QED
    BY <1>8, <1>11, <1>14, <2>1, <2>2, <2>3 DEF Room
<1> QED
  BY <1>1, <1>3, <1>5, <1>10, <1>15

\* fMemMMap behind a slot that can grow in place adds the range.
LEMMA MapExpandKeeps ==
    ASSUME NEW e, Sound(virt, phys, e), NEW prev \in DOMAIN virt, NEW n \in Nat, n > 0, NEW u \in SUBSET Rights,
           Grown \in Nat, NEW growth \in Expansions(prev, n), EndOf(virt, prev) + n <= PageCount,
           \A j \in DOMAIN virt : EndOf(virt, j) <= EndOf(virt, prev) \/ EndOf(virt, prev) + n < j,
           MapExpand(prev, n, u, growth)
    PROVE  /\ growth \in Nat /\ Sound(virt', phys', e + growth)
           /\ NewPages(virt, virt', EndOf(virt, prev), n, PhysEnd(virt[prev]), u)
           /\ data' = Cleared(Expanded(data, growth), PhysEnd(virt[prev]), n)
<1>1. TiledTo(phys, e) /\ Laid(virt) /\ Backing(virt, phys) /\ e \in Nat
  BY DEF Sound, TiledTo
<1>2. PICK k : k = SlotAt(phys, virt[prev].physical)
  OBVIOUS
<1>3. k \in DOMAIN phys
  <2>1. PICK f \in Nat : f = virt[prev].physical
    BY <1>1, LaidSlot
  <2>2. PICK t \in Nat : t = PhysEnd(virt[prev]) /\ f < t
    BY <1>1, <2>1, LaidSlot
  <2>3. LiesIn(phys, f, t, 1)
    BY <1>1, <2>1, <2>2 DEF Backing
  <2>4. SlotAt(phys, f) \in DOMAIN phys
    BY <1>1, <2>2, <2>3, BackingIs
  <2> QED
    BY <1>2, <2>1, <2>4
<1>4. PICK b \in Nat : b = EndOf(phys, k)
  BY <1>1, <1>3, NextIs
<1>5. /\ b # e => After(phys, k) # {} /\ NextOf(phys, k) = b /\ b \in DOMAIN phys
      /\ b = e => After(phys, k) = {}
  BY <1>1, <1>3, <1>4, NextIs
<1>6. PICK room : room = IF b # e THEN phys[b].size ELSE 0
  OBVIOUS
<1>7. room \in Nat
  BY <1>1, <1>5, <1>6 DEF TiledTo
<1>8. PhysEnd(virt[prev]) = b /\ (b # e => ~(phys[b].users > 0))
  BY <1>2, <1>4, <1>5 DEF Expansions
<1>9. b # e => phys[b].users = 0
  <2>1. ASSUME b # e
        PROVE  phys[b] \in [size : Nat \ {0}, users : {0, 1}]
    BY <1>1, <1>5, <2>1 DEF TiledTo
  <2> QED
    BY <1>8, <2>1
<1>10. ASSUME b # e, room >= n
       PROVE  FreeBehind(phys, k, e, growth, room, n)
  <2>1. growth = 0
    BY <1>2, <1>4, <1>5, <1>6, <1>8, <1>10 DEF Expansions
  <2> QED
    BY <1>1, <1>4, <1>5, <1>6, <1>7, <1>9, <1>10, <2>1 DEF FreeBehind
<1>11. ASSUME ~(b # e /\ room >= n)
       PROVE  FreeBehind(phys, k, e, growth, room, n)
  <2>1. growth = Expansion(n - room, n) /\ growth # 0 /\ (b # e => After(phys, b) = {})
    BY <1>2, <1>4, <1>5, <1>6, <1>8, <1>11 DEF Expansions
  <2>2. PICK s \in Nat : s = n - room
    BY <1>6, <1>7, <1>11
  <2>3. growth \in Nat /\ growth >= s
    BY <2>1, <2>2, ExpansionIs
  <2>4. growth + room >= n
    BY <1>7, <2>2, <2>3
  <2>5. b # e => EndOf(phys, b) = e
    <3>1. ASSUME b # e, EndOf(phys, b) # e
          PROVE  FALSE
      <4>1. b \in DOMAIN phys
        BY <1>5, <3>1
      <4>2. After(phys, b) # {}
        BY <1>1, <3>1, <4>1, NextIs
      <4> QED
        BY <2>1, <3>1, <4>2
    <3> QED
      BY <3>1
  <2> QED
    BY <1>4, <1>5, <1>6, <1>7, <1>9, <2>3, <2>4, <2>5 DEF FreeBehind
<1>12. FreeBehind(phys, k, e, growth, room, n) /\ growth \in Nat
  BY <1>10, <1>11 DEF FreeBehind
<1>13. PICK R : R = Fitted(phys, k, e, growth, room, n)
  OBVIOUS
<1>14. phys' = R
  <2>1. CASE b = e
    BY <1>2, <1>4, <1>5, <1>6, <1>13, <2>1 DEF MapExpand, Fitted, Lengthened
  <2>2. CASE b # e
    BY <1>2, <1>4, <1>5, <1>6, <1>13, <2>2 DEF MapExpand, Fitted, Lengthened
  <2> QED
    BY <2>1, <2>2
<1>15. data' = Cleared(Expanded(data, growth), b, n) /\ virt' = Extend(virt, prev, n, u)
  BY <1>8 DEF MapExpand
<1>16. PICK a \in Nat : a = EndOf(virt, prev)
  BY <1>1, LaidSlot
<1>17. Sound(virt, R, e + growth) /\ Room(virt, R, a, n, b)
  <2>1. PhysEnd(virt[prev]) = EndOf(phys, k)
    BY <1>4, <1>8
  <2> QED
    BY <1>2, <1>8, <1>12, <1>13, <1>16, <2>1, FittedRoom
<1>18. EndOf(virt, prev) \notin DOMAIN virt
  <2>1. \A j \in DOMAIN virt : j \in Nat /\ EndOf(virt, j) \in Nat /\ j < EndOf(virt, j)
    BY <1>1, LaidSlot
  <2> QED
    BY <2>1
<1>19. PICK m : m = Added(virt, a, n, b, u)
  OBVIOUS
<1>20. virt' = m
  BY <1>1, <1>8, <1>15, <1>16, <1>18, <1>19, ExtendIs DEF Added
<1>21. PICK E : E = e + growth
  OBVIOUS
<1>22. Sound(m, R, E) /\ NewPages(virt, m, a, n, b, u)
  BY <1>17, <1>19, <1>21, AddedIs
<1> QED
  BY <1>8, <1>12, <1>14, <1>15, <1>16, <1>20, <1>21, <1>22

-----------------------------------------------------------------------------
(* mmap: the neighbors to be moved are made slots of their own.  The last  *)
(* of a run of neighbors is the only one to end where none begins.         *)

\* A run of neighboring slots ends with a slot that has none behind it.
LEMMA RunTop ==
    ASSUME NEW vt, Laid(vt), NEW f, NEW i, NEW l, Run(vt, f, i), Run(vt, f, l),
           EndOf(vt, i) \notin DOMAIN vt, i < l
    PROVE  FALSE
<1>1. \A j \in DOMAIN vt : j \in Nat /\ EndOf(vt, j) \in Nat /\ j < EndOf(vt, j)
  BY LaidSlot
<1>2. \A j, k \in DOMAIN vt : j < k => EndOf(vt, j) <= k
  BY DEF Laid, Ordered
<1>3. f \in DOMAIN vt /\ i \in DOMAIN vt /\ l \in DOMAIN vt /\ f <= i
  BY DEF Run
<1>4. PICK T : T = {s \in DOMAIN vt : i < s /\ s <= l}
  OBVIOUS
<1>5. T \in SUBSET Nat /\ l \in T
  BY <1>1, <1>3, <1>4
<1>6. PICK s \in T : \A t \in T : s <= t
  BY <1>5, LeastNumber
<1>7. s \in DOMAIN vt /\ i < s /\ s <= l
  BY <1>4
<1>8. PICK t \in DOMAIN vt : EndOf(vt, t) = s
  BY <1>1, <1>3, <1>7 DEF Run
<1>9. t < s /\ t \notin T
  BY <1>1, <1>6, <1>7, <1>8
<1>10. t = i
  BY <1>1, <1>2, <1>3, <1>4, <1>7, <1>8, <1>9
<1> QED
  BY <1>7, <1>8, <1>10

\* A cut between the virtual slots, not between neighbors.
LEMMA SoundCut ==
    ASSUME NEW vt, NEW ph, NEW e, Sound(vt, ph, e), NEW c \in Nat, c <= e,
           \A j \in DOMAIN vt : c <= vt[j].physical \/ PhysEnd(vt[j]) <= c,
           \A j, k \in DOMAIN vt : EndOf(vt, j) = k => vt[k].physical # c
    PROVE  /\ Sound(vt, PhysCut(ph, c), e)
           /\ c = e \/ c \in DOMAIN PhysCut(ph, c)
           /\ \A j \in DOMAIN ph : j \in DOMAIN PhysCut(ph, c)
           /\ \A j \in DOMAIN ph : c <= j \/ EndOf(ph, j) <= c => PhysCut(ph, c)[j] = ph[j]
<1>1. PICK R : R = PhysCut(ph, c)
  OBVIOUS
<1>2. /\ TiledTo(R, e)
      /\ \A j : j \in DOMAIN R <=> j \in DOMAIN ph \/ (j = c /\ c # e)
      /\ \A j \in DOMAIN ph : c <= j \/ EndOf(ph, j) <= c => R[j] = ph[j]
  BY <1>1, CutAt DEF Sound
<1>3. ASSUME NEW j \in DOMAIN vt
      PROVE  LiesIn(R, vt[j].physical, PhysEnd(vt[j]), 1)
  <2>1. PICK f \in Int : f = vt[j].physical
    BY LaidSlot DEF Sound
  <2>2. PICK t \in Int : t = PhysEnd(vt[j])
    BY LaidSlot DEF Sound
  <2>3. f < t /\ LiesIn(ph, f, t, 1) /\ (c <= f \/ t <= c)
    BY <2>1, <2>2, LaidSlot DEF Sound, Backing
  <2>4. LiesIn(R, f, t, 1)
    BY <1>1, <2>3, CutAt DEF Sound
  <2> QED
    BY <2>1, <2>2, <2>4
<1>4. Backing(vt, R)
  BY <1>2, <1>3 DEF Sound, Backing
<1>5. Sound(vt, R, e)
  BY <1>1, <1>2, <1>4, CutMap DEF Sound
<1> QED
  BY <1>1, <1>2, <1>5

\* where a virtual slot begins with no other before it, or ends with none behind it
LEMMA CutStart ==
    ASSUME NEW vt, NEW ph, NEW e, Sound(vt, ph, e), NEW f \in DOMAIN vt,
           \A t \in DOMAIN vt : EndOf(vt, t) # f
    PROVE  /\ Sound(vt, PhysCut(ph, vt[f].physical), e)
           /\ vt[f].physical \in DOMAIN PhysCut(ph, vt[f].physical)
           /\ \A j \in DOMAIN ph : j \in DOMAIN PhysCut(ph, vt[f].physical)
           /\ \A j \in DOMAIN ph : vt[f].physical <= j \/ EndOf(ph, j) <= vt[f].physical =>
                    PhysCut(ph, vt[f].physical)[j] = ph[j]
<1>1. \A j \in DOMAIN vt : vt[j].physical \in Nat /\ PhysEnd(vt[j]) \in Nat /\ vt[j].physical < PhysEnd(vt[j])
  BY LaidSlot DEF Sound
<1>2. PICK c \in Nat : c = vt[f].physical
  BY <1>1
<1>3. \A j, k \in DOMAIN vt : j # k => PhysEnd(vt[j]) <= vt[k].physical \/ PhysEnd(vt[k]) <= vt[j].physical
  BY DEF Sound, Backing
<1>4. c < e /\ e \in Nat
  <2>1. PICK t \in Nat : t = PhysEnd(vt[f])
    BY <1>1
  <2>2. LiesIn(ph, c, t, 1) /\ c < t
    BY <1>1, <1>2, <2>1 DEF Sound, Backing
  <2>3. t <= e
    BY <2>2, LiesBelow DEF Sound
  <2> QED
    BY <2>2, <2>3 DEF Sound, TiledTo
<1>5. \A j \in DOMAIN vt : c <= vt[j].physical \/ PhysEnd(vt[j]) <= c
  BY <1>1, <1>2, <1>3
<1>6. \A j, k \in DOMAIN vt : EndOf(vt, j) = k => vt[k].physical # c
  BY <1>1, <1>2, <1>3
<1>7. PICK R : R = PhysCut(ph, c)
  OBVIOUS
<1>8. /\ Sound(vt, R, e)
      /\ c = e \/ c \in DOMAIN R
      /\ \A j \in DOMAIN ph : j \in DOMAIN R
      /\ \A j \in DOMAIN ph : c <= j \/ EndOf(ph, j) <= c => R[j] = ph[j]
  BY <1>4, <1>5, <1>6, <1>7, SoundCut
<1> QED
  BY <1>2, <1>4, <1>7, <1>8

\* Cutting the physical slot where a virtual run ends leaves a boundary there.
LEMMA CutEnd ==
    ASSUME NEW vt, NEW ph, NEW e, Sound(vt, ph, e), NEW l \in DOMAIN vt, EndOf(vt, l) \notin DOMAIN vt
    PROVE  /\ Sound(vt, PhysCut(ph, PhysEnd(vt[l])), e)
           /\ PhysEnd(vt[l]) = e \/ PhysEnd(vt[l]) \in DOMAIN PhysCut(ph, PhysEnd(vt[l]))
           /\ \A j \in DOMAIN ph : j \in DOMAIN PhysCut(ph, PhysEnd(vt[l]))
           /\ \A j \in DOMAIN ph : PhysEnd(vt[l]) <= j \/ EndOf(ph, j) <= PhysEnd(vt[l]) =>
                    PhysCut(ph, PhysEnd(vt[l]))[j] = ph[j]
<1>1. \A j \in DOMAIN vt : vt[j].physical \in Nat /\ PhysEnd(vt[j]) \in Nat /\ vt[j].physical < PhysEnd(vt[j])
  BY LaidSlot DEF Sound
<1>2. PICK c \in Nat : c = PhysEnd(vt[l])
  BY <1>1
<1>3. \A j, k \in DOMAIN vt : j # k => PhysEnd(vt[j]) <= vt[k].physical \/ PhysEnd(vt[k]) <= vt[j].physical
  BY DEF Sound, Backing
<1>4. c <= e
  <2>1. PICK f \in Nat : f = vt[l].physical
    BY <1>1
  <2>2. LiesIn(ph, f, c, 1)
    BY <1>2, <2>1 DEF Sound, Backing
  <2> QED
    BY <2>2, LiesBelow DEF Sound
<1>5. \A j \in DOMAIN vt : c <= vt[j].physical \/ PhysEnd(vt[j]) <= c
  BY <1>1, <1>2, <1>3
<1>6. \A j, k \in DOMAIN vt : EndOf(vt, j) = k => vt[k].physical # c
  <2>1. ASSUME NEW j \in DOMAIN vt, NEW k \in DOMAIN vt, EndOf(vt, j) = k, vt[k].physical = c
        PROVE  FALSE
    <3>1. PhysEnd(vt[j]) = c
      BY <2>1 DEF Sound, Backing
    <3>2. j = l
      BY <1>1, <1>2, <1>3, <3>1
    <3> QED
      BY <2>1, <3>2
  <2> QED
    BY <2>1
<1>7. PICK R : R = PhysCut(ph, c)
  OBVIOUS
<1>8. /\ Sound(vt, R, e)
      /\ c = e \/ c \in DOMAIN R
      /\ \A j \in DOMAIN ph : j \in DOMAIN R
      /\ \A j \in DOMAIN ph : c <= j \/ EndOf(ph, j) <= c => R[j] = ph[j]
  BY <1>4, <1>5, <1>6, <1>7, SoundCut
<1> QED
  BY <1>2, <1>7, <1>8

\* Virtual slots, from the one at v on, which lie in physical memory as they do in the virtual one,
\* and which are not the neighbors of any other: they fill a physical slot.
Piece(vt, ph, B, v, from, size) ==
    /\ v \in Nat /\ from \in Nat /\ size \in Nat
    /\ \A s \in B : s \in DOMAIN vt /\ v <= s /\ EndOf(vt, s) <= v + size /\ vt[s].physical = from + (s - v)
    /\ \A s \in DOMAIN vt : s \in B \/ PhysEnd(vt[s]) <= from \/ from + size <= vt[s].physical
    /\ \A j, k \in DOMAIN vt : EndOf(vt, j) = k => (j \in B <=> k \in B)
    /\ size = 0 <=> B = {}
    /\ B # {} => from \in DOMAIN ph /\ EndOf(ph, from) = from + size /\ ph[from].users = 1

\* A run of slots between two gaps is a piece that can be moved as a whole.
LEMMA PieceOf ==
    ASSUME NEW vt, NEW ph, NEW e, Sound(vt, ph, e), NEW f, NEW l, Run(vt, f, l),
           \A t \in DOMAIN vt : EndOf(vt, t) # f, EndOf(vt, l) \notin DOMAIN vt,
           NEW B, \A s : s \in B <=> s \in DOMAIN vt /\ f <= s /\ s <= l,
           vt[f].physical \in DOMAIN ph, PhysEnd(vt[l]) = e \/ PhysEnd(vt[l]) \in DOMAIN ph,
           NEW size, size = EndOf(vt, l) - f
    PROVE  Piece(vt, ph, B, f, vt[f].physical, size) /\ f \in B
<1>1. \A j \in DOMAIN vt : /\ j \in Nat /\ EndOf(vt, j) \in Nat /\ j < EndOf(vt, j)
                           /\ vt[j].physical \in Nat /\ PhysEnd(vt[j]) \in Nat /\ vt[j].physical < PhysEnd(vt[j])
  BY LaidSlot DEF Sound
<1>2. f \in DOMAIN vt /\ l \in DOMAIN vt /\ f <= l
  BY DEF Run
<1>3. \A j, k \in DOMAIN vt : j < k => EndOf(vt, j) <= k
  BY DEF Sound, Laid, Ordered
<1>4. PICK from \in Nat : from = vt[f].physical
  BY <1>1, <1>2
<1>5. PICK t \in Nat : t = PhysEnd(vt[l])
  BY <1>1, <1>2
<1>6. /\ \A s \in DOMAIN vt : f <= s /\ s <= l =>
            vt[s].physical = vt[f].physical + (s - f) /\ PhysEnd(vt[s]) <= PhysEnd(vt[l])
      /\ PhysEnd(vt[l]) = vt[f].physical + (EndOf(vt, l) - f)
      /\ LiesIn(ph, vt[f].physical, PhysEnd(vt[l]), 1)
      /\ \A s \in DOMAIN vt : s < f \/ l < s =>
            PhysEnd(vt[s]) <= vt[f].physical \/ PhysEnd(vt[l]) <= vt[s].physical
  BY RunPlaced DEF Sound
<1>7. size \in Nat /\ size > 0 /\ t = from + size /\ f + size = EndOf(vt, l)
  BY <1>1, <1>2, <1>4, <1>5, <1>6
<1>8. EndOf(ph, from) = from + size /\ ph[from].users = 1
  <2>1. LiesIn(ph, from, t, 1) /\ from < t /\ (t = e \/ t \in DOMAIN ph) /\ from \in DOMAIN ph
    BY <1>4, <1>5, <1>6, <1>7
  <2>2. EndOf(ph, from) = t /\ ph[from].users = 1
    BY <2>1, Exactly DEF Sound
  <2> QED
    BY <1>7, <2>2
<1>9. ASSUME NEW s \in B
      PROVE  s \in DOMAIN vt /\ f <= s /\ EndOf(vt, s) <= f + size /\ vt[s].physical = from + (s - f)
  BY <1>1, <1>2, <1>3, <1>4, <1>6, <1>7
<1>10. ASSUME NEW s \in DOMAIN vt, s \notin B
       PROVE  PhysEnd(vt[s]) <= from \/ from + size <= vt[s].physical
  BY <1>1, <1>2, <1>4, <1>5, <1>6, <1>7, <1>10
<1>11. ASSUME NEW j \in DOMAIN vt, NEW k \in DOMAIN vt, EndOf(vt, j) = k
       PROVE  j \in B <=> k \in B
  <2>1. j < k /\ k # f /\ j # l
    BY <1>1, <1>11
  <2>2. j \in B => k \in B
    BY <1>1, <1>2, <1>3, <1>11, <2>1
  <2>3. ASSUME k \in B
        PROVE  j \in B
    <3>1. f < k /\ k <= l
      BY <1>1, <1>2, <2>1, <2>3
    <3>2. f <= j
      BY <1>1, <1>2, <1>3, <1>11, <2>1, <3>1
    <3> QED
      BY <1>1, <1>2, <2>1, <3>1, <3>2
  <2> QED
    BY <2>2, <2>3
<1>12. f \in B
  BY <1>1, <1>2
<1>13. f \in Nat
  BY <1>1, <1>2
<1> QED
  BY <1>4, <1>7, <1>8, <1>9, <1>10, <1>11, <1>12, <1>13 DEF Piece

\* A piece is left alone by whatever leaves its slot.
LEMMA PieceKept ==
    ASSUME NEW vt, NEW ph, NEW B, NEW v, NEW from, NEW size, Piece(vt, ph, B, v, from, size), NEW R,
           from \in DOMAIN ph /\ ph[from].users = 1 =>
                from \in DOMAIN R /\ EndOf(R, from) = EndOf(ph, from) /\ R[from].users = 1
    PROVE  Piece(vt, R, B, v, from, size)
BY DEF Piece

\* below the new slot
LEMMA LowerPiece ==
    ASSUME NEW e, Sound(virt, phys, e), NEW p \in DOMAIN virt, EndOf(virt, p) \notin DOMAIN virt,
           NEW B, \A s : s \in B <=> s \in DOMAIN virt /\ FirstOf(p) <= s /\ s <= p,
           NEW size, size = EndOf(virt, p) - FirstOf(p)
    PROVE  /\ Sound(virt, CutBelow(p), e)
           /\ Piece(virt, CutBelow(p), B, FirstOf(p), virt[FirstOf(p)].physical, size)
           /\ FirstOf(p) \in B
<1>1. PICK f : f = FirstOf(p)
  OBVIOUS
<1>2. Run(virt, f, p) /\ \A t \in DOMAIN virt : EndOf(virt, t) # f
  BY <1>1, FirstIs DEF Sound
<1>3. f \in DOMAIN virt
  BY <1>2 DEF Run
<1>4. PICK m : m = PhysCut(phys, PhysEnd(virt[p]))
  OBVIOUS
<1>5. Sound(virt, m, e) /\ (PhysEnd(virt[p]) = e \/ PhysEnd(virt[p]) \in DOMAIN m)
  BY <1>4, CutEnd
<1>6. PICK R : R = PhysCut(m, virt[f].physical)
  OBVIOUS
<1>7. Sound(virt, R, e) /\ virt[f].physical \in DOMAIN R /\ \A j \in DOMAIN m : j \in DOMAIN R
  BY <1>2, <1>3, <1>5, <1>6, CutStart
<1>8. CutBelow(p) = R
  BY <1>1, <1>4, <1>6 DEF CutBelow
<1>9. Piece(virt, R, B, f, virt[f].physical, size) /\ f \in B
  <2>1. PhysEnd(virt[p]) = e \/ PhysEnd(virt[p]) \in DOMAIN R
    BY <1>5, <1>7
  <2>2. size = EndOf(virt, p) - f /\ \A s : s \in B <=> s \in DOMAIN virt /\ f <= s /\ s <= p
    BY <1>1
  <2> QED
    BY <1>2, <1>7, <2>1, <2>2, PieceOf
<1> QED
  BY <1>1, <1>7, <1>8, <1>9

\* above it
LEMMA UpperPiece ==
    ASSUME NEW e, NEW ph, Sound(virt, ph, e), NEW k \in DOMAIN virt,
           \A t \in DOMAIN virt : EndOf(virt, t) # k,
           NEW B, \A s : s \in B <=> s \in DOMAIN virt /\ k <= s /\ s <= FinalOf(ph, k),
           NEW size, size = EndOf(virt, FinalOf(ph, k)) - k
    PROVE  /\ Sound(virt, CutAbove(ph, k), e)
           /\ Piece(virt, CutAbove(ph, k), B, k, virt[k].physical, size)
           /\ k \in B /\ FinalOf(ph, k) \in B /\ Run(virt, k, FinalOf(ph, k))
           /\ \A j \in DOMAIN ph : ph[j].users = 1 =>
                (PhysEnd(virt[FinalOf(ph, k)]) <= j \/ EndOf(ph, j) <= virt[k].physical
                    => j \in DOMAIN CutAbove(ph, k) /\ CutAbove(ph, k)[j] = ph[j])
<1>1. /\ \A s \in DOMAIN virt : LiesIn(ph, virt[s].physical, PhysEnd(virt[s]), 1)
      /\ \A s \in DOMAIN virt : \A t \in DOMAIN virt : EndOf(virt, s) = t /\ k <= s =>
            virt[t].physical = PhysEnd(virt[s]) /\ virt[t].physical \notin DOMAIN ph
  BY DEF Sound, Backing
<1>2. PICK l : l = FinalOf(ph, k)
  OBVIOUS
<1>3. Run(virt, k, l) /\ EndOf(virt, l) \notin DOMAIN virt
  BY <1>1, <1>2, FinalIs DEF Sound
<1>4. l \in DOMAIN virt /\ k <= l
  BY <1>3 DEF Run
<1>5. PICK low : low = PhysCut(ph, virt[k].physical)
  OBVIOUS
<1>6. /\ Sound(virt, low, e) /\ virt[k].physical \in DOMAIN low
      /\ \A j \in DOMAIN ph : j \in DOMAIN low
      /\ \A j \in DOMAIN ph : virt[k].physical <= j \/ EndOf(ph, j) <= virt[k].physical => low[j] = ph[j]
  BY <1>5, CutStart
<1>7. PICK i : i = FinalOf(low, k)
  OBVIOUS
<1>8. Run(virt, k, i) /\ EndOf(virt, i) \notin DOMAIN virt
  <2>1. /\ \A s \in DOMAIN virt : LiesIn(low, virt[s].physical, PhysEnd(virt[s]), 1)
        /\ \A s \in DOMAIN virt : \A t \in DOMAIN virt : EndOf(virt, s) = t /\ k <= s =>
              virt[t].physical = PhysEnd(virt[s]) /\ virt[t].physical \notin DOMAIN low
    BY <1>6 DEF Sound, Backing
  <2> QED
    BY <1>6, <1>7, <2>1, FinalIs DEF Sound
<1>9. i = l
  <2>1. i \in Nat /\ l \in Nat
    BY <1>3, <1>8, LaidSlot DEF Sound, Run
  <2>2. ~(i < l) /\ ~(l < i)
    BY <1>3, <1>8, RunTop DEF Sound
  <2> QED
    BY <2>1, <2>2
<1>10. PICK R : R = PhysCut(low, PhysEnd(virt[l]))
  OBVIOUS
<1>11. /\ Sound(virt, R, e) /\ (PhysEnd(virt[l]) = e \/ PhysEnd(virt[l]) \in DOMAIN R)
       /\ \A j \in DOMAIN low : j \in DOMAIN R
       /\ \A j \in DOMAIN low : PhysEnd(virt[l]) <= j \/ EndOf(low, j) <= PhysEnd(virt[l]) => R[j] = low[j]
  BY <1>3, <1>4, <1>6, <1>10, CutEnd
<1>12. CutAbove(ph, k) = R
  BY <1>5, <1>7, <1>9, <1>10 DEF CutAbove
<1>13. Piece(virt, R, B, k, virt[k].physical, size) /\ k \in B /\ l \in B
  <2>1. virt[k].physical \in DOMAIN R
    BY <1>6, <1>11
  <2>2. size = EndOf(virt, l) - k /\ \A s : s \in B <=> s \in DOMAIN virt /\ k <= s /\ s <= l
    BY <1>2
  <2>3. l <= l
    BY <1>4, LaidSlot DEF Sound
  <2> QED
    BY <1>3, <1>4, <1>11, <2>1, <2>2, <2>3, PieceOf
<1>14. ASSUME NEW j \in DOMAIN ph, PhysEnd(virt[l]) <= j \/ EndOf(ph, j) <= virt[k].physical
       PROVE  j \in DOMAIN R /\ R[j] = ph[j]
  <2>1. PICK a \in Nat : a = virt[k].physical
    BY LaidSlot DEF Sound
  <2>2. PICK b \in Nat : b = PhysEnd(virt[l])
    BY <1>4, LaidSlot DEF Sound
  <2>3. a < b
    <3>1. PhysEnd(virt[l]) = virt[k].physical + (EndOf(virt, l) - k)
      BY <1>3, RunPlaced DEF Sound
    <3>2. k \in Nat /\ EndOf(virt, l) \in Nat /\ l < EndOf(virt, l) /\ l \in Nat
      BY <1>4, LaidSlot DEF Sound
    <3> QED
      BY <1>4, <2>1, <2>2, <3>1, <3>2
  <2>4. j \in Nat /\ EndOf(ph, j) \in Nat /\ j < EndOf(ph, j)
    BY NextIs DEF Sound, TiledTo
  <2>5. b <= j \/ EndOf(ph, j) <= a
    BY <1>14, <2>1, <2>2
  <2>6. a <= j \/ EndOf(ph, j) <= a
    BY <2>3, <2>4, <2>5
  <2>7. j \in DOMAIN low /\ low[j] = ph[j]
    BY <1>6, <2>1, <2>6
  <2>8. EndOf(low, j) = EndOf(ph, j)
    BY <2>7 DEF EndOf
  <2>9. b <= j \/ EndOf(low, j) <= b
    BY <2>3, <2>4, <2>5, <2>8
  <2> QED
    BY <1>11, <2>2, <2>7, <2>9
<1> QED
  BY <1>2, <1>3, <1>11, <1>12, <1>13, <1>14

-----------------------------------------------------------------------------
(* mmap: memory is allocated, and the moved slots are released.            *)

\* the used slots are still there
UsedKept(ph, R) ==
    \A j \in DOMAIN ph : ph[j].users = 1 =>
        j \in DOMAIN R /\ EndOf(R, j) = EndOf(ph, j) /\ R[j].users = 1

\* fMemAllocPhysical gives a map.
LEMMA AllocateMap ==
    ASSUME NEW ph, NEW size, NEW growth, IsMap(ph)
    PROVE  IsMap(Allocate(ph, size, growth).phys)
<1> DEFINE roomy == {k \in DOMAIN ph : ph[k].users = 0 /\ ph[k].size >= size}
           more  == Expansion(size, growth)
           last  == LastOf(ph)
           longer == Resize(ph, last, ph[last].size + more)
           start == EndOf(ph, last)
           fresh == [PhysSplit(longer, last, start) EXCEPT ![start].users = 0]
           A == Allocate(ph, size, growth)
<1>1. IsMap(longer) /\ IsMap(fresh)
  <2>1. IsMap(longer)
    BY ResizeMap
  <2>2. PICK m : m = PhysSplit(longer, last, start)
    OBVIOUS
  <2>3. IsMap([m EXCEPT ![start].users = 0])
    BY DEF IsMap
  <2> QED
    BY <2>1, <2>2, <2>3
<1>2. \/ A = [growth |-> 0, phys |-> ph, slot |-> {Min(roomy)}]
      \/ A = [growth |-> 0, phys |-> ph, slot |-> {}]
      \/ A = [growth |-> more, phys |-> longer, slot |-> {last}]
      \/ A = [growth |-> more, slot |-> {start}, phys |-> fresh]
  BY DEF Allocate
<1> HIDE DEF roomy, more, last, longer, start, fresh
<1>3. A.phys = ph \/ A.phys = longer \/ A.phys = fresh
  BY <1>2
<1> QED
  BY <1>1, <1>3

\* fMemAllocPhysical finds or makes a free slot large enough and takes nothing that is used.
LEMMA AllocateSound ==
    ASSUME NEW vt, NEW ph, NEW e, Sound(vt, ph, e), NEW size \in Nat, NEW growth \in Nat, size > 0, Grown \in Nat
    PROVE  /\ Allocate(ph, size, growth).growth \in Nat
           /\ Sound(vt, Allocate(ph, size, growth).phys, e + Allocate(ph, size, growth).growth)
           /\ UsedKept(ph, Allocate(ph, size, growth).phys)
           /\ \A k \in Allocate(ph, size, growth).slot :
                    /\ k \in DOMAIN Allocate(ph, size, growth).phys
                    /\ LiesIn(Allocate(ph, size, growth).phys, k, k + size, 0)
<1>1. TiledTo(ph, e) /\ IsMap(ph) /\ Laid(vt) /\ Backing(vt, ph)
  BY DEF Sound
<1>2. PICK more : more = Allocate(ph, size, growth).growth
  OBVIOUS
<1>3. PICK R : R = Allocate(ph, size, growth).phys
  OBVIOUS
<1>4. more \in Nat /\ TiledTo(R, e + more)
  BY <1>1, <1>2, <1>3, AllocateIs
<1>5. \A f, t \in Int : \A u : LiesIn(ph, f, t, u) /\ f < t => LiesIn(R, f, t, u)
  BY <1>1, <1>3, AllocateIs
<1>6. \A j : j \in DOMAIN R => j \in DOMAIN ph \/ j = e
  BY <1>1, <1>3, AllocateIs
<1>7. \A j \in DOMAIN ph : ph[j].users # 0 =>
            j \in DOMAIN R /\ EndOf(R, j) = EndOf(ph, j) /\ R[j].users = ph[j].users
  BY <1>1, <1>3, AllocateIs
<1>8. \A k \in Allocate(ph, size, growth).slot : k \in DOMAIN R /\ LiesIn(R, k, k + size, 0)
  BY <1>1, <1>3, AllocateIs
<1>9. ASSUME NEW j \in DOMAIN vt
      PROVE  LiesIn(R, vt[j].physical, PhysEnd(vt[j]), 1) /\ vt[j].physical # e
  <2>1. PICK f \in Nat : f = vt[j].physical
    BY <1>1, LaidSlot
  <2>2. PICK t \in Nat : t = PhysEnd(vt[j]) /\ f < t
    BY <1>1, <2>1, LaidSlot
  <2>3. LiesIn(ph, f, t, 1)
    BY <1>1, <2>1, <2>2 DEF Backing
  <2>4. t <= e /\ e \in Nat
    BY <1>1, <2>3, LiesBelow DEF TiledTo
  <2>5. LiesIn(R, f, t, 1)
    BY <1>5, <2>2, <2>3
  <2> QED
    BY <2>1, <2>2, <2>4, <2>5
<1>10. Backing(vt, R)
  BY <1>1, <1>6, <1>9 DEF Backing
<1>11. IsMap(R)
  BY <1>1, <1>3, AllocateMap
<1>12. Sound(vt, R, e + more)
  BY <1>1, <1>4, <1>10, <1>11 DEF Sound
<1>13. UsedKept(ph, R)
  BY <1>7 DEF UsedKept
<1> QED
  BY <1>2, <1>3, <1>4, <1>8, <1>12, <1>13

\* Keeping the used slots is transitive.
LEMMA UsedKeptTrans ==
    ASSUME NEW ph, NEW m, NEW R, UsedKept(ph, m), UsedKept(m, R)
    PROVE  UsedKept(ph, R)
BY DEF UsedKept

\* A piece remains one as long as used slots are kept.
LEMMA PieceUsed ==
    ASSUME NEW vt, NEW ph, NEW B, NEW v, NEW from, NEW size, Piece(vt, ph, B, v, from, size), NEW R,
           UsedKept(ph, R)
    PROVE  Piece(vt, R, B, v, from, size)
BY PieceKept DEF UsedKept

\* The free slot is cut to size.
LEMMA CarveIs ==
    ASSUME NEW vt, NEW ph, NEW e, Sound(vt, ph, e), NEW k \in DOMAIN ph, NEW n \in Nat, n > 0,
           LiesIn(ph, k, k + n, 0)
    PROVE  /\ Sound(vt, PhysCut(ph, k + n), e)
           /\ UsedKept(ph, PhysCut(ph, k + n))
           /\ k \in DOMAIN PhysCut(ph, k + n)
           /\ EndOf(PhysCut(ph, k + n), k) = k + n /\ PhysCut(ph, k + n)[k].users = 0
           /\ k \in Nat /\ k + n <= e
           /\ \A j \in DOMAIN vt : PhysEnd(vt[j]) <= k \/ k + n <= vt[j].physical
<1>1. TiledTo(ph, e) /\ IsMap(ph) /\ Laid(vt) /\ Backing(vt, ph) /\ k \in Nat /\ e \in Nat
  BY DEF Sound, TiledTo
<1>2. PICK c \in Nat : c = k + n
  BY <1>1
<1>3. c <= e
  BY <1>1, <1>2, LiesBelow
<1>4. PICK i \in DOMAIN ph : ph[i].users = 0 /\ i <= k /\ c <= EndOf(ph, i)
  BY <1>2 DEF LiesIn
<1>5. \A j \in DOMAIN ph : j \in Nat /\ EndOf(ph, j) \in Nat /\ j < EndOf(ph, j)
  BY <1>1, NextIs DEF TiledTo
<1>6. \A j, l \in DOMAIN ph : j < l => EndOf(ph, j) <= l
  BY <1>1 DEF TiledTo
<1>7. i = k
  BY <1>1, <1>2, <1>4, <1>5, <1>6
<1>8. ASSUME NEW j \in DOMAIN ph, ph[j].users = 1
      PROVE  EndOf(ph, j) <= k \/ c <= j
  BY <1>1, <1>2, <1>4, <1>5, <1>6, <1>7, <1>8
<1>9. ASSUME NEW j \in DOMAIN vt
      PROVE  PhysEnd(vt[j]) <= k \/ c <= vt[j].physical
  <2>1. PICK f \in Nat : f = vt[j].physical
    BY <1>1, LaidSlot
  <2>2. PICK t \in Nat : t = PhysEnd(vt[j]) /\ f < t
    BY <1>1, <2>1, LaidSlot
  <2>3. PICK l \in DOMAIN ph : ph[l].users = 1 /\ l <= f /\ t <= EndOf(ph, l)
    BY <1>1, <2>1, <2>2 DEF Backing, LiesIn
  <2> QED
    BY <1>1, <1>5, <1>8, <2>1, <2>2, <2>3
<1>10. ASSUME NEW j \in DOMAIN vt, NEW l \in DOMAIN vt, EndOf(vt, j) = l, vt[l].physical = c
       PROVE  FALSE
  <2>1. PhysEnd(vt[j]) = c
    BY <1>1, <1>10 DEF Backing
  <2>2. vt[j].physical \in Nat /\ vt[j].physical < PhysEnd(vt[j])
    BY <1>1, LaidSlot
  <2> QED
    BY <1>1, <1>2, <1>9, <2>1, <2>2
<1>11. PICK R : R = PhysCut(ph, c)
  OBVIOUS
<1>12. \A j \in DOMAIN vt : c <= vt[j].physical \/ PhysEnd(vt[j]) <= c
  <2>1. ASSUME NEW j \in DOMAIN vt
        PROVE  c <= vt[j].physical \/ PhysEnd(vt[j]) <= c
    <3>1. PhysEnd(vt[j]) \in Nat /\ (PhysEnd(vt[j]) <= k \/ c <= vt[j].physical)
      BY <1>1, <1>9, LaidSlot
    <3> QED
      BY <1>1, <1>2, <3>1
  <2> QED
    BY <2>1
<1>13. /\ Sound(vt, R, e) /\ (c = e \/ c \in DOMAIN R)
       /\ \A j \in DOMAIN ph : j \in DOMAIN R
       /\ \A j \in DOMAIN ph : c <= j \/ EndOf(ph, j) <= c => R[j] = ph[j]
  BY <1>3, <1>10, <1>11, <1>12, SoundCut
<1>14. UsedKept(ph, R)
  <2>1. ASSUME NEW j \in DOMAIN ph, ph[j].users = 1
        PROVE  j \in DOMAIN R /\ R[j] = ph[j]
    BY <1>1, <1>2, <1>5, <1>8, <1>13, <2>1
  <2> QED
    BY <2>1 DEF UsedKept, EndOf
<1>15. EndOf(R, k) = c /\ R[k].users = 0
  <2>1. LiesIn(R, k, c, 0) /\ k < c
    <3>1. LiesIn(ph, k, c, 0) /\ k < c /\ c <= c
      BY <1>1, <1>2
    <3> QED
      BY <1>1, <1>3, <1>11, <3>1, CutAt
  <2> QED
    BY <1>13, <2>1, Exactly DEF Sound
<1> QED
  BY <1>1, <1>2, <1>3, <1>9, <1>11, <1>13, <1>14, <1>15

\* the virtual slots without some
Without(vt, B, rest) ==
    /\ IsMap(rest)
    /\ \A j : j \in DOMAIN rest <=> j \in DOMAIN vt /\ j \notin B
    /\ \A j \in DOMAIN rest : rest[j] = vt[j]

\* the slot of a piece, if there is one, is released
Freed(ph, B, from) == IF B = {} THEN ph ELSE Assign(ph, from, 0)

\* Releasing the old place of a piece leaves a sound memory without it.
LEMMA FreedIs ==
    ASSUME NEW vt, NEW ph, NEW e, Sound(vt, ph, e), NEW B, NEW v, NEW from, NEW size,
           Piece(vt, ph, B, v, from, size), NEW rest, Without(vt, B, rest)
    PROVE  /\ Sound(rest, Freed(ph, B, from), e)
           /\ \A j : j \in DOMAIN Freed(ph, B, from) => j \in DOMAIN ph
           /\ \A f, t \in Int : f < t /\ LiesIn(ph, f, t, 0) => LiesIn(Freed(ph, B, from), f, t, 0)
           /\ \A j \in DOMAIN ph : ph[j].users = 1 /\ (B = {} \/ j # from) =>
                    j \in DOMAIN Freed(ph, B, from) /\ Freed(ph, B, from)[j] = ph[j]
<1>1. TiledTo(ph, e) /\ IsMap(ph) /\ Laid(vt) /\ Backing(vt, ph) /\ IsMap(vt)
  BY DEF Sound
<1>2. /\ IsMap(rest) /\ \A j : j \in DOMAIN rest <=> j \in DOMAIN vt /\ j \notin B
      /\ \A j \in DOMAIN rest : rest[j] = vt[j]
  BY DEF Without
<1>3. CASE B = {}
  <2>1. DOMAIN rest = DOMAIN vt
    BY <1>2, <1>3
  <2>2. rest = vt
    BY <1>1, <1>2, <2>1 DEF IsMap
  <2>3. Freed(ph, B, from) = ph
    BY <1>3 DEF Freed
  <2> QED
    BY <2>2, <2>3
<1>4. CASE B # {}
  <2>1. from \in DOMAIN ph /\ EndOf(ph, from) = from + size /\ ph[from].users = 1 /\ from \in Nat /\ size \in Nat
    BY <1>4 DEF Piece
  <2>2. PICK R : R = Assign(ph, from, 0)
    OBVIOUS
  <2>3. Freed(ph, B, from) = R
    BY <1>4, <2>2 DEF Freed
  <2>4. /\ TiledTo(R, e)
        /\ \A j : j \in DOMAIN R => j \in DOMAIN ph
        /\ \A j \in DOMAIN ph : j # from /\ ph[j].users # 0 => j \in DOMAIN R /\ R[j] = ph[j]
    BY <1>1, <2>1, <2>2, AssignAt
  <2>5. ASSUME NEW f \in Int, NEW t \in Int, f < t, LiesIn(ph, f, t, 0)
        PROVE  LiesIn(R, f, t, 0)
    BY <1>1, <2>1, <2>2, <2>5, AssignKeeps
  <2>6. ASSUME NEW j \in DOMAIN rest
        PROVE  LiesIn(R, rest[j].physical, PhysEnd(rest[j]), 1)
    <3>1. j \in DOMAIN vt /\ j \notin B /\ rest[j] = vt[j]
      BY <1>2
    <3>2. PICK f \in Nat : f = vt[j].physical
      BY <1>1, <3>1, LaidSlot
    <3>3. PICK t \in Nat : t = PhysEnd(vt[j]) /\ f < t
      BY <1>1, <3>1, <3>2, LaidSlot
    <3>4. LiesIn(ph, f, t, 1)
      BY <1>1, <3>1, <3>2, <3>3 DEF Backing
    <3>5. t <= from \/ EndOf(ph, from) <= f
      BY <2>1, <3>1, <3>2, <3>3 DEF Piece
    <3>6. LiesIn(R, f, t, 1)
      BY <1>1, <2>1, <2>2, <3>3, <3>4, <3>5, AssignKeeps
    <3> QED
      BY <3>1, <3>2, <3>3, <3>6
  <2>7. Laid(rest)
    BY <1>1, <1>2, RestLaid
  <2>8. Backing(rest, R)
    BY <1>1, <1>2, <2>4, <2>6 DEF Backing, EndOf
  <2>9. Sound(rest, R, e)
    BY <1>2, <2>2, <2>4, <2>7, <2>8, AssignMap DEF Sound
  <2> QED
    BY <1>4, <2>3, <2>4, <2>5, <2>9
<1> QED
  BY <1>3, <1>4

\* Another piece keeps its slot.
LEMMA OtherPiece ==
    ASSUME NEW vt, NEW ph, NEW e, Sound(vt, ph, e), NEW B, NEW v, NEW from, NEW size,
           Piece(vt, ph, B, v, from, size), NEW rest, Without(vt, B, rest),
           NEW C, NEW w, NEW g, NEW len, Piece(vt, ph, C, w, g, len), \A s \in C : s \notin B
    PROVE  Piece(rest, Freed(ph, B, from), C, w, g, len)
<1>1. TiledTo(ph, e) /\ Laid(vt)
  BY DEF Sound
<1>2. /\ \A j : j \in DOMAIN rest <=> j \in DOMAIN vt /\ j \notin B
      /\ \A j \in DOMAIN rest : rest[j] = vt[j]
  BY DEF Without
<1>3. PICK R : R = Freed(ph, B, from)
  OBVIOUS
<1>4. \A j \in DOMAIN ph : ph[j].users = 1 /\ (B = {} \/ j # from) => j \in DOMAIN R /\ R[j] = ph[j]
  BY <1>3, FreedIs
<1>5. ASSUME B # {}, C # {}, g = from
      PROVE  FALSE
  <2>1. PICK s \in C : s \in DOMAIN vt /\ w <= s /\ EndOf(vt, s) <= w + len /\ vt[s].physical = g + (s - w)
    BY <1>5 DEF Piece
  <2>2. EndOf(ph, g) = g + len /\ EndOf(ph, from) = from + size /\ g \in Nat /\ len \in Nat /\ size \in Nat /\ w \in Nat
    BY <1>5 DEF Piece
  <2>3. len = size
    BY <1>5, <2>2
  <2>4. s \in Nat /\ EndOf(vt, s) \in Nat /\ EndOf(vt, s) = s + vt[s].size /\ vt[s].size \in Nat /\ vt[s].size > 0
        /\ PhysEnd(vt[s]) = vt[s].physical + vt[s].size
    BY <1>1, <2>1, LaidSlot
  <2>5. PhysEnd(vt[s]) <= from \/ from + size <= vt[s].physical
    BY <2>1 DEF Piece
  <2> QED
    BY <1>5, <2>1, <2>2, <2>3, <2>4, <2>5
<1>6. C # {} => g \in DOMAIN R /\ EndOf(R, g) = g + len /\ R[g].users = 1
  <2>1. ASSUME C # {}
        PROVE  g \in DOMAIN R /\ EndOf(R, g) = g + len /\ R[g].users = 1
    <3>1. g \in DOMAIN ph /\ EndOf(ph, g) = g + len /\ ph[g].users = 1
      BY <2>1 DEF Piece
    <3>2. B = {} \/ g # from
      BY <1>5, <2>1
    <3>3. g \in DOMAIN R /\ R[g] = ph[g]
      BY <1>4, <3>1, <3>2
    <3> QED
      BY <3>1, <3>3 DEF EndOf
  <2> QED
    BY <2>1
<1>7. \A s \in C : s \in DOMAIN rest /\ w <= s /\ EndOf(rest, s) <= w + len /\ rest[s].physical = g + (s - w)
  BY <1>2 DEF Piece, EndOf
<1>8. \A s \in DOMAIN rest : s \in C \/ PhysEnd(rest[s]) <= g \/ g + len <= rest[s].physical
  BY <1>2 DEF Piece
<1>9. \A j, k \in DOMAIN rest : EndOf(rest, j) = k => (j \in C <=> k \in C)
  BY <1>2 DEF Piece, EndOf
<1>10. w \in Nat /\ g \in Nat /\ len \in Nat /\ (len = 0 <=> C = {})
  BY DEF Piece
<1> QED
  BY <1>3, <1>6, <1>7, <1>8, <1>9, <1>10 DEF Piece

-----------------------------------------------------------------------------
(* mmap: the pieces are moved to both sides of the new slot.               *)

\* where the slots of two pieces are after the move, to `slot' and behind the n new pages
MovedTo(vt, R, L, v, U, w, slot, at) ==
    /\ IsMap(R)
    /\ \A s : s \in DOMAIN R <=> s \in DOMAIN vt
    /\ \A s \in DOMAIN vt :
        /\ R[s] \in [physical : Nat, size : Nat, usage : SUBSET Rights]
        /\ R[s].size = vt[s].size /\ R[s].usage = vt[s].usage
        /\ s \in L => R[s].physical = slot + (s - v)
        /\ s \in U => R[s].physical = at + (s - w)
        /\ s \notin L /\ s \notin U => R[s].physical = vt[s].physical

\* Two pieces around a new range, put down in one slot, give a sound memory.
LEMMA MovedSound ==
    ASSUME NEW vt, Laid(vt), NEW ph, NEW e, NEW rest, Sound(rest, ph, e),
           NEW L, NEW v, NEW lf, NEW ls, NEW U, NEW a, NEW n, NEW hf, NEW hs, NEW X,
           Piece(vt, X, L, v, lf, ls), Piece(vt, X, U, a + n, hf, hs),
           \A j : j \in DOMAIN rest <=> j \in DOMAIN vt /\ j \notin L /\ j \notin U,
           \A j \in DOMAIN rest : rest[j] = vt[j],
           a \in Nat, n \in Nat, n > 0, v + ls = a,
           NEW slot \in Nat, LiesIn(ph, slot, slot + (ls + n + hs), 1),
           \A j \in DOMAIN rest : PhysEnd(rest[j]) <= slot \/ slot + (ls + n + hs) <= rest[j].physical,
           NEW R, MovedTo(vt, R, L, v, U, a + n, slot, slot + ls + n)
    PROVE  Sound(R, ph, e) /\ \A k \in DOMAIN vt : EndOf(R, k) = EndOf(vt, k)
<1>1. /\ TiledTo(ph, e) /\ IsMap(ph) /\ Laid(rest) /\ Backing(rest, ph) /\ IsMap(R)
      /\ v \in Nat /\ ls \in Nat /\ hs \in Nat
  BY DEF Sound, MovedTo, Piece
<1>2. PICK w \in Nat : w = a + n
  OBVIOUS
<1>3. PICK at \in Nat : at = slot + ls + n
  BY <1>1
<1>4. PICK top \in Nat : top = slot + (ls + n + hs) /\ top = at + hs
  BY <1>1, <1>3
<1>5. /\ \A s : s \in DOMAIN R <=> s \in DOMAIN vt
      /\ \A s \in DOMAIN vt :
        /\ R[s] \in [physical : Nat, size : Nat, usage : SUBSET Rights]
        /\ R[s].size = vt[s].size /\ R[s].usage = vt[s].usage
        /\ s \in L => R[s].physical = slot + (s - v)
        /\ s \in U => R[s].physical = at + (s - w)
        /\ s \notin L /\ s \notin U => R[s].physical = vt[s].physical
  BY <1>2, <1>3 DEF MovedTo
<1>6. \A s \in DOMAIN vt : EndOf(R, s) = EndOf(vt, s)
  BY <1>5 DEF EndOf
<1>7. Laid(R)
  <2>1. Ordered(R)
    BY <1>5, <1>6 DEF Laid, Ordered
  <2> QED
    BY <1>5, <1>6, <2>1 DEF Laid
<1>8. \A s \in DOMAIN vt : /\ s \in Nat /\ EndOf(vt, s) \in Nat /\ s < EndOf(vt, s)
                           /\ PhysEnd(R[s]) = R[s].physical + (EndOf(vt, s) - s) /\ R[s].physical \in Nat
  <2>1. ASSUME NEW s \in DOMAIN vt
        PROVE  /\ s \in Nat /\ EndOf(vt, s) \in Nat /\ s < EndOf(vt, s)
               /\ PhysEnd(R[s]) = R[s].physical + (EndOf(vt, s) - s) /\ R[s].physical \in Nat
    <3>1. s \in Nat /\ EndOf(vt, s) \in Nat /\ s < EndOf(vt, s) /\ EndOf(vt, s) = s + vt[s].size /\ vt[s].size \in Nat
      BY LaidSlot
    <3>2. R[s].physical \in Nat /\ PhysEnd(R[s]) = R[s].physical + vt[s].size
      BY <1>5 DEF PhysEnd
    <3> QED
      BY <3>1, <3>2
  <2> QED
    BY <2>1
<1>9. \A s \in L : s \in DOMAIN vt /\ v <= s /\ EndOf(vt, s) <= a
  BY DEF Piece
<1>10. \A s \in U : s \in DOMAIN vt /\ w <= s /\ EndOf(vt, s) <= w + hs
  BY <1>2 DEF Piece
<1>11. ASSUME NEW s \in L
       PROVE  slot <= R[s].physical /\ PhysEnd(R[s]) <= slot + ls
  BY <1>1, <1>5, <1>8, <1>9
<1>12. ASSUME NEW s \in U
       PROVE  at <= R[s].physical /\ PhysEnd(R[s]) <= top
  BY <1>1, <1>2, <1>4, <1>5, <1>8, <1>10
<1>13. ASSUME NEW s \in DOMAIN vt, s \notin L, s \notin U
       PROVE  /\ s \in DOMAIN rest /\ R[s].physical = rest[s].physical /\ PhysEnd(R[s]) = PhysEnd(rest[s])
              /\ PhysEnd(R[s]) <= slot \/ top <= R[s].physical
              /\ EndOf(rest, s) = EndOf(vt, s)
  <2>1. s \in DOMAIN rest /\ rest[s] = vt[s]
    BY <1>13
  <2>2. R[s].physical = vt[s].physical /\ R[s].size = vt[s].size
    BY <1>5, <1>13
  <2> QED
    BY <1>4, <2>1, <2>2 DEF PhysEnd, EndOf
<1>14. ASSUME NEW s \in DOMAIN R
       PROVE  LiesIn(ph, R[s].physical, PhysEnd(R[s]), 1)
  <2>1. PICK j \in DOMAIN ph : ph[j].users = 1 /\ j <= slot /\ top <= EndOf(ph, j)
    BY <1>4 DEF LiesIn
  <2>2. j \in Nat /\ EndOf(ph, j) \in Nat
    BY <1>1, NextIs DEF TiledTo
  <2>3. CASE s \in L \/ s \in U
    <3>1. j <= R[s].physical /\ PhysEnd(R[s]) <= EndOf(ph, j)
      <4>1. slot <= R[s].physical /\ PhysEnd(R[s]) <= top
        BY <1>1, <1>3, <1>4, <1>5, <1>8, <1>11, <1>12, <2>3
      <4>2. R[s].physical \in Nat /\ PhysEnd(R[s]) \in Int
        BY <1>5, <1>8
      <4> QED
        BY <2>1, <2>2, <4>1, <4>2
    <3> QED
      BY <2>1, <3>1 DEF LiesIn
  <2>4. CASE s \notin L /\ s \notin U
    BY <1>1, <1>5, <1>13, <2>4 DEF Backing
  <2> QED
    BY <2>3, <2>4
<1>15. ASSUME NEW j \in DOMAIN R, NEW k \in DOMAIN R, j # k
       PROVE  PhysEnd(R[j]) <= R[k].physical \/ PhysEnd(R[k]) <= R[j].physical
  <2>1. \A i, l \in DOMAIN vt : i < l => EndOf(vt, i) <= l
    BY DEF Laid, Ordered
  <2>2. j \in DOMAIN vt /\ k \in DOMAIN vt /\ (EndOf(vt, j) <= k \/ EndOf(vt, k) <= j)
    BY <1>5, <1>8, <1>15, <2>1
  <2>3. CASE j \in L /\ k \in L
    BY <1>1, <1>5, <1>8, <2>2, <2>3
  <2>4. CASE j \in U /\ k \in U
    BY <1>2, <1>5, <1>8, <2>2, <2>4
  <2>5. CASE (j \in L /\ k \in U) \/ (k \in L /\ j \in U)
    BY <1>1, <1>3, <1>8, <1>11, <1>12, <2>2, <2>5
  <2>6. CASE (j \in L \/ j \in U) /\ k \notin L /\ k \notin U
    <3>1. slot <= R[j].physical /\ PhysEnd(R[j]) <= top
      BY <1>1, <1>3, <1>4, <1>8, <1>11, <1>12, <2>2, <2>6
    <3>2. PhysEnd(R[k]) <= slot \/ top <= R[k].physical
      BY <1>13, <2>2, <2>6
    <3> QED
      BY <1>8, <2>2, <3>1, <3>2
  <2>7. CASE (k \in L \/ k \in U) /\ j \notin L /\ j \notin U
    <3>1. slot <= R[k].physical /\ PhysEnd(R[k]) <= top
      BY <1>1, <1>3, <1>4, <1>8, <1>11, <1>12, <2>2, <2>7
    <3>2. PhysEnd(R[j]) <= slot \/ top <= R[j].physical
      BY <1>13, <2>2, <2>7
    <3> QED
      BY <1>8, <2>2, <3>1, <3>2
  <2>8. CASE j \notin L /\ j \notin U /\ k \notin L /\ k \notin U
    BY <1>1, <1>13, <1>15, <2>2, <2>8 DEF Backing
  <2> QED
    BY <2>3, <2>4, <2>5, <2>6, <2>7, <2>8
<1>16. ASSUME NEW j \in DOMAIN R, NEW k \in DOMAIN R, EndOf(R, j) = k
       PROVE  PhysEnd(R[j]) = R[k].physical /\ R[k].physical \notin DOMAIN ph
  <2>1. j \in DOMAIN vt /\ k \in DOMAIN vt /\ EndOf(vt, j) = k
    BY <1>5, <1>6, <1>16
  <2>2. (j \in L <=> k \in L) /\ (j \in U <=> k \in U)
    BY <2>1 DEF Piece
  <2>3. ASSUME j \in L \/ j \in U
        PROVE  /\ PhysEnd(R[j]) = R[k].physical
               /\ slot < R[k].physical /\ R[k].physical < top
    <3>1. CASE j \in L
      BY <1>1, <1>4, <1>5, <1>8, <1>9, <1>11, <2>1, <2>2, <3>1
    <3>2. CASE j \in U
      BY <1>1, <1>2, <1>3, <1>4, <1>5, <1>8, <1>10, <1>12, <2>1, <2>2, <3>2
    <3> QED
      BY <2>3, <3>1, <3>2
  <2>4. CASE j \in L \/ j \in U
    <3>1. LiesIn(ph, slot, top, 1)
      BY <1>4
    <3>2. R[k].physical \in Nat
      BY <1>8, <2>1
    <3>3. PICK q \in Nat : q = R[k].physical
      BY <3>2
    <3>4. q \notin DOMAIN ph
      BY <1>1, <2>3, <2>4, <3>1, <3>3, NoneInside
    <3> QED
      BY <2>3, <2>4, <3>3, <3>4
  <2>5. CASE j \notin L /\ j \notin U
    <3>1. j \in DOMAIN rest /\ k \in DOMAIN rest /\ EndOf(rest, j) = k
      BY <1>13, <2>1, <2>2, <2>5
    <3>2. PhysEnd(rest[j]) = rest[k].physical /\ rest[k].physical \notin DOMAIN ph
      BY <1>1, <3>1 DEF Backing
    <3> QED
      BY <1>13, <2>1, <2>2, <2>5, <3>2
  <2> QED
    BY <2>4, <2>5
<1>17. Backing(R, ph)
  BY <1>14, <1>15, <1>16 DEF Backing
<1> QED
  BY <1>1, <1>6, <1>7, <1>17 DEF Sound

\* Between the two moved pieces there is room for the new range.
LEMMA MovedRoom ==
    ASSUME NEW vt, Laid(vt), NEW ph, NEW e, NEW rest, Sound(rest, ph, e),
           NEW L, NEW v, NEW lf, NEW ls, NEW U, NEW a, NEW n, NEW hf, NEW hs, NEW X,
           Piece(vt, X, L, v, lf, ls), Piece(vt, X, U, a + n, hf, hs),
           \A j : j \in DOMAIN rest <=> j \in DOMAIN vt /\ j \notin L /\ j \notin U,
           \A j \in DOMAIN rest : rest[j] = vt[j],
           a \in Nat, n \in Nat, n > 0, v + ls = a, a + n <= PageCount,
           \A k \in DOMAIN vt : EndOf(vt, k) <= a \/ a + n <= k,
           \A k \in DOMAIN vt : EndOf(vt, k) = a => k \in L,
           \A k \in DOMAIN vt : k = a + n => k \in U,
           NEW slot \in Nat, LiesIn(ph, slot, slot + (ls + n + hs), 1),
           \A j \in DOMAIN rest : PhysEnd(rest[j]) <= slot \/ slot + (ls + n + hs) <= rest[j].physical,
           NEW R, MovedTo(vt, R, L, v, U, a + n, slot, slot + ls + n)
    PROVE  Room(R, ph, a, n, slot + ls)
<1>1. /\ TiledTo(ph, e) /\ v \in Nat /\ ls \in Nat /\ hs \in Nat
      /\ (ls = 0 <=> L = {}) /\ (hs = 0 <=> U = {})
  BY DEF Sound, Piece
<1>2. PICK w \in Nat : w = a + n
  OBVIOUS
<1>3. PICK q \in Nat : q = slot + ls
  BY <1>1
<1>4. PICK top \in Nat : top = slot + (ls + n + hs) /\ top = q + n + hs
  BY <1>1, <1>3
<1>5. /\ \A s : s \in DOMAIN R <=> s \in DOMAIN vt
      /\ \A s \in DOMAIN vt :
        /\ R[s] \in [physical : Nat, size : Nat, usage : SUBSET Rights]
        /\ R[s].size = vt[s].size
        /\ s \in L => R[s].physical = slot + (s - v)
        /\ s \in U => R[s].physical = q + n + (s - w)
        /\ s \notin L /\ s \notin U => R[s].physical = vt[s].physical
  BY <1>2, <1>3 DEF MovedTo
<1>6. \A s \in DOMAIN vt : EndOf(R, s) = EndOf(vt, s)
  BY <1>5 DEF EndOf
<1>7. \A s \in DOMAIN vt : /\ s \in Nat /\ EndOf(vt, s) \in Nat /\ s < EndOf(vt, s)
                           /\ PhysEnd(R[s]) = R[s].physical + (EndOf(vt, s) - s) /\ R[s].physical \in Nat
  <2>1. ASSUME NEW s \in DOMAIN vt
        PROVE  /\ s \in Nat /\ EndOf(vt, s) \in Nat /\ s < EndOf(vt, s)
               /\ PhysEnd(R[s]) = R[s].physical + (EndOf(vt, s) - s) /\ R[s].physical \in Nat
    <3>1. s \in Nat /\ EndOf(vt, s) \in Nat /\ s < EndOf(vt, s) /\ EndOf(vt, s) = s + vt[s].size /\ vt[s].size \in Nat
      BY LaidSlot
    <3>2. R[s].physical \in Nat /\ PhysEnd(R[s]) = R[s].physical + vt[s].size
      BY <1>5 DEF PhysEnd
    <3> QED
      BY <3>1, <3>2
  <2> QED
    BY <2>1
<1>8. \A s \in L : s \in DOMAIN vt /\ v <= s /\ EndOf(vt, s) <= a
  BY DEF Piece
<1>9. \A s \in U : s \in DOMAIN vt /\ w <= s /\ EndOf(vt, s) <= w + hs
  BY <1>2 DEF Piece
<1>10. LiesIn(ph, slot, top, 1)
  BY <1>4
<1>11. LiesIn(ph, q, q + n, 1)
  <2>1. PICK j \in DOMAIN ph : ph[j].users = 1 /\ j <= slot /\ top <= EndOf(ph, j)
    BY <1>10 DEF LiesIn
  <2>2. j \in Nat /\ EndOf(ph, j) \in Nat
    BY <1>1, NextIs DEF TiledTo
  <2>3. j <= q /\ q + n <= EndOf(ph, j)
    BY <1>1, <1>3, <1>4, <2>1, <2>2
  <2> QED
    BY <2>1, <2>3 DEF LiesIn
<1>12. ASSUME NEW s \in DOMAIN R
       PROVE  PhysEnd(R[s]) <= q \/ q + n <= R[s].physical
  <2>1. s \in DOMAIN vt
    BY <1>5
  <2>2. CASE s \in L
    BY <1>1, <1>3, <1>5, <1>7, <1>8, <2>2
  <2>3. CASE s \in U
    BY <1>2, <1>5, <1>7, <1>9, <2>3
  <2>4. CASE s \notin L /\ s \notin U
    <3>1. s \in DOMAIN rest /\ rest[s] = vt[s]
      BY <2>1, <2>4
    <3>2. PhysEnd(R[s]) = PhysEnd(rest[s]) /\ R[s].physical = rest[s].physical
      BY <1>5, <2>1, <2>4, <3>1 DEF PhysEnd
    <3>3. PhysEnd(rest[s]) <= slot \/ top <= rest[s].physical
      BY <1>4, <3>1
    <3> QED
      BY <1>1, <1>3, <1>4, <1>7, <2>1, <3>2, <3>3
  <2> QED
    BY <2>2, <2>3, <2>4
<1>13. ASSUME NEW s \in DOMAIN R, EndOf(R, s) = a
       PROVE  PhysEnd(R[s]) = q /\ q \notin DOMAIN ph
  <2>1. s \in L
    BY <1>5, <1>6, <1>13
  <2>2. PhysEnd(R[s]) = q
    <3>1. s \in DOMAIN vt /\ v <= s
      BY <1>8, <2>1
    <3>2. EndOf(vt, s) = a
      BY <1>6, <1>13, <3>1
    <3>3. R[s].physical = slot + (s - v)
      BY <1>5, <2>1, <3>1
    <3>4. PhysEnd(R[s]) = R[s].physical + (a - s) /\ s \in Nat
      BY <1>7, <3>1, <3>2
    <3> QED
      BY <1>1, <1>3, <3>3, <3>4
  <2>3. slot < q /\ q < top
    BY <1>1, <1>3, <1>4, <2>1
  <2>4. q \notin DOMAIN ph
    BY <1>1, <1>10, <2>3, NoneInside
  <2> QED
    BY <2>2, <2>4
<1>14. ASSUME NEW s \in DOMAIN R, s = a + n
       PROVE  R[s].physical = q + n /\ q + n \notin DOMAIN ph
  <2>1. s \in U
    BY <1>5, <1>14
  <2>2. R[s].physical = q + n
    BY <1>2, <1>5, <1>9, <1>14, <2>1
  <2>3. PICK c \in Nat : c = q + n
    OBVIOUS
  <2>4. slot < c /\ c < top
    BY <1>1, <1>3, <1>4, <2>1, <2>3
  <2>5. c \notin DOMAIN ph
    BY <1>1, <1>10, <2>4, NoneInside
  <2> QED
    BY <2>2, <2>3, <2>5
<1>15. \A k \in DOMAIN R : EndOf(R, k) <= a \/ a + n <= k
  BY <1>5, <1>6
<1>16. Room(R, ph, a, n, q)
  BY <1>11, <1>12, <1>13, <1>14, <1>15 DEF Room
<1> QED
  BY <1>3, <1>16

\* The pages are where their slots are.
LEMMA MovedPages ==
    ASSUME NEW vt, Laid(vt), NEW L, NEW v, NEW lf, NEW ls, NEW U, NEW w, NEW hf, NEW hs, NEW X,
           Piece(vt, X, L, v, lf, ls), Piece(vt, X, U, w, hf, hs), v + ls <= w,
           NEW slot \in Nat, NEW at \in Nat, NEW R, Ordered(R), MovedTo(vt, R, L, v, U, w, slot, at),
           NEW p \in Int
    PROVE  /\ Holds(R, p) <=> Holds(vt, p)
           /\ Holds(vt, p) =>
                /\ UsageIn(R, p) = UsageIn(vt, p)
                /\ \/ /\ v <= p /\ p < v + ls
                      /\ PlaceIn(vt, p) = lf + (p - v) /\ PlaceIn(R, p) = slot + (p - v)
                   \/ /\ w <= p /\ p < w + hs
                      /\ PlaceIn(vt, p) = hf + (p - w) /\ PlaceIn(R, p) = at + (p - w)
                   \/ \E k \in DOMAIN vt : /\ k \notin L /\ k \notin U /\ k <= p /\ p < EndOf(vt, k)
                                           /\ PlaceIn(vt, p) = vt[k].physical + (p - k)
                                           /\ PlaceIn(R, p) = PlaceIn(vt, p)
<1>1. /\ \A s : s \in DOMAIN R <=> s \in DOMAIN vt
      /\ \A s \in DOMAIN vt :
        /\ R[s].size = vt[s].size /\ R[s].usage = vt[s].usage
        /\ s \in L => R[s].physical = slot + (s - v)
        /\ s \in U => R[s].physical = at + (s - w)
        /\ s \notin L /\ s \notin U => R[s].physical = vt[s].physical
  BY DEF MovedTo
<1>2. \A s \in DOMAIN vt : EndOf(R, s) = EndOf(vt, s)
  BY <1>1 DEF EndOf
<1>3. Holds(R, p) <=> Holds(vt, p)
  BY <1>1, <1>2, HoldsIs
<1>4. ASSUME Holds(vt, p)
      PROVE  /\ UsageIn(R, p) = UsageIn(vt, p)
             /\ \/ /\ v <= p /\ p < v + ls
                   /\ PlaceIn(vt, p) = lf + (p - v) /\ PlaceIn(R, p) = slot + (p - v)
                \/ /\ w <= p /\ p < w + hs
                   /\ PlaceIn(vt, p) = hf + (p - w) /\ PlaceIn(R, p) = at + (p - w)
                \/ \E k \in DOMAIN vt : /\ k \notin L /\ k \notin U /\ k <= p /\ p < EndOf(vt, k)
                                        /\ PlaceIn(vt, p) = vt[k].physical + (p - k)
                                        /\ PlaceIn(R, p) = PlaceIn(vt, p)
  <2>1. PICK k \in DOMAIN vt : k <= p /\ p < EndOf(vt, k)
    BY <1>4, HoldsIs
  <2>2. UsageIn(vt, p) = vt[k].usage /\ PlaceIn(vt, p) = vt[k].physical + (p - k)
    BY <2>1, PageIn DEF Laid
  <2>3. k \in DOMAIN R /\ p < EndOf(R, k)
    BY <1>1, <1>2, <2>1
  <2>4. UsageIn(R, p) = R[k].usage /\ PlaceIn(R, p) = R[k].physical + (p - k)
    BY <2>1, <2>3, PageIn
  <2>5. k \in Nat /\ EndOf(vt, k) \in Nat
    BY LaidSlot
  <2>6. CASE k \in L
    <3>1. v <= k /\ EndOf(vt, k) <= v + ls /\ vt[k].physical = lf + (k - v) /\ v \in Nat /\ lf \in Nat /\ ls \in Nat
      BY <2>6 DEF Piece
    <3> QED
      BY <1>1, <2>1, <2>2, <2>4, <2>5, <2>6, <3>1
  <2>7. CASE k \in U
    <3>1. w <= k /\ EndOf(vt, k) <= w + hs /\ vt[k].physical = hf + (k - w) /\ w \in Nat /\ hf \in Nat /\ hs \in Nat
      BY <2>7 DEF Piece
    <3> QED
      BY <1>1, <2>1, <2>2, <2>4, <2>5, <2>7, <3>1
  <2>8. CASE k \notin L /\ k \notin U
    <3>1. R[k].physical = vt[k].physical /\ R[k].usage = vt[k].usage
      BY <1>1, <2>8
    <3> QED
      BY <2>1, <2>2, <2>4, <2>8, <3>1
  <2> QED
    BY <2>6, <2>7, <2>8
<1> QED
  BY <1>3, <1>4

\* Everything lies the given number of pages lower than it did.
Lowered(vt, R, n) ==
    /\ IsMap(R)
    /\ \A k : k \in DOMAIN R <=> k \in DOMAIN vt
    /\ \A k \in DOMAIN vt : /\ R[k] \in [physical : Nat, size : Nat, usage : SUBSET Rights]
                            /\ R[k].physical = vt[k].physical - n
                            /\ R[k].size = vt[k].size /\ R[k].usage = vt[k].usage

\* The slots above the lowest one, moved down by it.
ShiftedDown(ph, low, n) ==
    /\ \A k \in Int : k \in DOMAIN low <=> k + n \in DOMAIN ph /\ k + n # 0
    /\ \A k \in DOMAIN low : EndOf(low, k) = EndOf(ph, k + n) - n
    /\ \A k \in DOMAIN low : low[k].users = ph[k + n].users

\* Without the lowest slot, the others still cover everything.
LEMMA ShiftedIs ==
    ASSUME NEW ph, NEW e, TiledTo(ph, e), NEW n \in Nat, n \in DOMAIN ph, n = EndOf(ph, 0)
    PROVE  /\ TiledTo(Shifted(ph, n), e - n) /\ IsMap(Shifted(ph, n))
           /\ ShiftedDown(ph, Shifted(ph, n), n)
<1>1. PICK R : R = Shifted(ph, n)
  OBVIOUS
<1>2. PICK D : D = {j - n : j \in DOMAIN ph \ {0}}
  OBVIOUS
<1>3. DOMAIN R = D /\ R = [k \in D |-> ph[k + n]]
  BY <1>1, <1>2 DEF Shifted
<1>4. n > 0 /\ e \in Nat /\ 0 \in DOMAIN ph
  BY NextIs DEF TiledTo
<1>5. \A k \in Int : k \in D <=> k + n \in DOMAIN ph /\ k + n # 0
  <2>1. ASSUME NEW k \in Int, k \in D
        PROVE  k + n \in DOMAIN ph /\ k + n # 0
    <3>1. PICK j \in DOMAIN ph : j # 0 /\ k = j - n
      BY <1>2, <2>1
    <3>2. j \in Nat
      BY DEF TiledTo
    <3> QED
      BY <3>1, <3>2
  <2>2. ASSUME NEW k \in Int, k + n \in DOMAIN ph, k + n # 0
        PROVE  k \in D
    <3>1. PICK j \in DOMAIN ph : j = k + n
      BY <2>2
    <3>2. k = j - n /\ j \in DOMAIN ph \ {0}
      BY <2>2, <3>1
    <3> QED
      BY <1>2, <3>2
  <2> QED
    BY <2>1, <2>2
<1>6. \A k \in D : /\ k \in Int /\ k + n \in DOMAIN ph /\ k + n # 0 /\ k + n \in Nat
                   /\ R[k] = ph[k + n]
  <2>1. ASSUME NEW k \in D
        PROVE  k \in Int /\ k + n \in Nat
    <3>1. PICK j \in DOMAIN ph : j # 0 /\ k = j - n
      BY <1>2, <2>1
    <3>2. j \in Nat
      BY DEF TiledTo
    <3> QED
      BY <3>1, <3>2
  <2> QED
    BY <1>3, <1>5, <2>1
<1>7. \A j \in DOMAIN ph : j # 0 => j >= n /\ j \in Nat
  BY <1>4 DEF TiledTo
<1>8. \A k \in D : /\ k \in Nat /\ EndOf(R, k) = EndOf(ph, k + n) - n
                   /\ EndOf(ph, k + n) \in Nat /\ EndOf(ph, k + n) > n
  <2>1. ASSUME NEW k \in D
        PROVE  /\ k \in Nat /\ EndOf(R, k) = EndOf(ph, k + n) - n
               /\ EndOf(ph, k + n) \in Nat /\ EndOf(ph, k + n) > n
    <3>1. PICK j \in DOMAIN ph : j = k + n /\ j # 0 /\ j >= n /\ j \in Nat
      BY <1>6, <1>7
    <3>2. ph[j] \in [size : Nat \ {0}, users : {0, 1}] /\ EndOf(ph, j) \in Nat /\ EndOf(ph, j) > j
      BY NextIs DEF TiledTo
    <3>3. R[k] = ph[j] /\ k = j - n /\ k \in Int
      BY <1>6, <3>1
    <3> QED
      BY <3>1, <3>2, <3>3 DEF EndOf
  <2> QED
    BY <2>1
<1>9. n < e /\ n \in D \union {n}
  BY DEF TiledTo
<1>10. TiledTo(R, e - n)
  <2>1. e - n \in Nat
    BY <1>4, <1>9
  <2>2. 0 \in DOMAIN R
    BY <1>3, <1>4, <1>5
  <2>3. ASSUME NEW k \in DOMAIN R
        PROVE  /\ k \in Nat /\ k < e - n
               /\ R[k] \in [size : Nat \ {0}, users : {0, 1}]
               /\ EndOf(R, k) = e - n \/ EndOf(R, k) \in DOMAIN R
    <3>1. PICK j \in DOMAIN ph : j = k + n /\ R[k] = ph[j] /\ j \in Nat /\ j # 0
      BY <1>3, <1>6
    <3>2. /\ ph[j] \in [size : Nat \ {0}, users : {0, 1}] /\ j < e
          /\ EndOf(ph, j) = e \/ EndOf(ph, j) \in DOMAIN ph
      BY DEF TiledTo
    <3>3. k \in Nat /\ EndOf(R, k) = EndOf(ph, j) - n /\ EndOf(ph, j) \in Nat /\ EndOf(ph, j) > n
      BY <1>3, <1>8, <3>1
    <3>4. ASSUME EndOf(ph, j) \in DOMAIN ph
          PROVE  EndOf(R, k) \in DOMAIN R
      <4>1. PICK i \in Int : i = EndOf(R, k)
        BY <3>3
      <4>2. i + n = EndOf(ph, j)
        BY <3>3, <4>1
      <4>3. i + n \in DOMAIN ph /\ i + n # 0
        BY <3>3, <3>4, <4>2
      <4> QED
        BY <1>3, <1>5, <4>1, <4>3
    <3> QED
      BY <1>4, <3>1, <3>2, <3>3, <3>4
  <2>4. ASSUME NEW j \in DOMAIN R, NEW k \in DOMAIN R, j < k
        PROVE  EndOf(R, j) <= k
    <3>1. PICK x \in DOMAIN ph : x = j + n /\ x \in Nat
      BY <1>3, <1>6
    <3>2. PICK y \in DOMAIN ph : y = k + n /\ y \in Nat
      BY <1>3, <1>6
    <3>3. x < y => EndOf(ph, x) <= y
      BY DEF TiledTo
    <3>4. /\ EndOf(R, j) = EndOf(ph, x) - n /\ EndOf(ph, x) \in Nat /\ j \in Nat /\ k \in Nat
      BY <1>3, <1>8, <3>1
    <3> QED
      BY <2>4, <3>1, <3>2, <3>3, <3>4
  <2> QED
    BY <2>1, <2>2, <2>3, <2>4 DEF TiledTo
<1>11. IsMap(R)
  BY <1>3 DEF IsMap
<1>12. ShiftedDown(ph, R, n)
  BY <1>3, <1>5, <1>6, <1>8 DEF ShiftedDown
<1> QED
  BY <1>1, <1>10, <1>11, <1>12

\* Moving everything down by the free slot at the bottom keeps every virtual slot backed.
LEMMA LoweredSound ==
    ASSUME NEW vt, NEW ph, NEW e, Sound(vt, ph, e), NEW n \in Nat, n \in DOMAIN ph, n = EndOf(ph, 0),
           ph[0].users = 0, NEW R, NEW low, low = Shifted(ph, n),
           IsMap(R), \A k : k \in DOMAIN R <=> k \in DOMAIN vt,
           \A k \in DOMAIN vt : R[k] = [vt[k] EXCEPT !.physical = @ - n]
    PROVE  Sound(R, low, e - n) /\ Lowered(vt, R, n)
<1>1. /\ Laid(vt) /\ TiledTo(ph, e) /\ Backing(vt, ph) /\ IsMap(ph)
  BY DEF Sound
<1>2. /\ TiledTo(low, e - n) /\ IsMap(low)
      /\ \A k \in Int : k \in DOMAIN low <=> k + n \in DOMAIN ph /\ k + n # 0
      /\ \A k \in DOMAIN low : EndOf(low, k) = EndOf(ph, k + n) - n
      /\ \A k \in DOMAIN low : low[k].users = ph[k + n].users
  <2>1. TiledTo(low, e - n) /\ IsMap(low) /\ ShiftedDown(ph, low, n)
    BY <1>1, ShiftedIs
  <2> QED
    BY <2>1 DEF ShiftedDown
<1>3. \A f, t \in Int : LiesIn(ph, f, t, 1) => LiesIn(low, f - n, t - n, 1)
  <2>1. ASSUME NEW f \in Int, NEW t \in Int, LiesIn(ph, f, t, 1)
        PROVE  LiesIn(low, f - n, t - n, 1)
    <3>1. PICK j \in DOMAIN ph : ph[j].users = 1 /\ j <= f /\ t <= EndOf(ph, j)
      BY <2>1 DEF LiesIn
    <3>2. j # 0 /\ j \in Nat /\ EndOf(ph, j) \in Nat
      BY <1>1, <3>1, NextIs DEF TiledTo
    <3>3. PICK i \in Int : i = j - n
      BY <3>2
    <3>4. i + n = j
      BY <3>2, <3>3
    <3>5. i \in DOMAIN low
      BY <1>2, <3>1, <3>2, <3>4
    <3>6. EndOf(low, i) = EndOf(ph, j) - n /\ low[i].users = 1
      BY <1>2, <3>1, <3>4, <3>5
    <3>7. i <= f - n /\ t - n <= EndOf(low, i)
      BY <3>1, <3>2, <3>3, <3>6
    <3> QED
      BY <3>5, <3>6, <3>7 DEF LiesIn
  <2> QED
    BY <2>1
<1>4. ASSUME NEW k \in DOMAIN vt
      PROVE  /\ R[k] \in [physical : Nat, size : Nat, usage : SUBSET Rights]
             /\ R[k].physical = vt[k].physical - n
             /\ R[k].size = vt[k].size /\ R[k].usage = vt[k].usage
             /\ EndOf(R, k) = EndOf(vt, k) /\ PhysEnd(R[k]) = PhysEnd(vt[k]) - n
             /\ n <= vt[k].physical
  <2>1. PICK j \in DOMAIN ph : ph[j].users = 1 /\ j <= vt[k].physical /\ PhysEnd(vt[k]) <= EndOf(ph, j)
    BY <1>1 DEF Backing, LiesIn
  <2>2. j # 0 /\ j \in Nat /\ 0 \in DOMAIN ph
    BY <1>1, <2>1 DEF TiledTo
  <2>3. n <= j
    BY <1>1, <2>2 DEF TiledTo
  <2>4. vt[k] \in [physical : Nat, size : Nat, usage : SUBSET Rights] /\ R[k] = [vt[k] EXCEPT !.physical = @ - n]
    BY <1>1 DEF Laid
  <2>5. PICK r \in [physical : Nat, size : Nat, usage : SUBSET Rights] : r = vt[k]
    BY <2>4
  <2>6. R[k] = [r EXCEPT !.physical = @ - n] /\ n <= r.physical
    BY <2>1, <2>2, <2>3, <2>4, <2>5
  <2>7. /\ R[k] \in [physical : Nat, size : Nat, usage : SUBSET Rights]
        /\ R[k].physical = r.physical - n /\ R[k].size = r.size /\ R[k].usage = r.usage
    BY <2>6
  <2>8. EndOf(R, k) = EndOf(vt, k)
    BY <2>5, <2>7 DEF EndOf
  <2>9. PhysEnd(R[k]) = PhysEnd(vt[k]) - n
    BY <2>5, <2>7 DEF PhysEnd
  <2> QED
    BY <2>5, <2>6, <2>7, <2>8, <2>9
<1>5. Lowered(vt, R, n)
  BY <1>4 DEF Lowered
<1>6. Laid(R)
  <2>1. \A k \in DOMAIN R : k \in DOMAIN vt /\ R[k].size = vt[k].size /\ EndOf(R, k) = EndOf(vt, k)
    BY <1>4
  <2>2. Ordered(R)
    BY <1>1, <2>1 DEF Laid, Ordered
  <2>3. \A k \in DOMAIN R : EndOf(R, k) <= PageCount
    BY <1>1, <2>1 DEF Laid
  <2>4. \A k \in DOMAIN R : R[k] \in [physical : Nat, size : Nat, usage : SUBSET Rights]
    BY <1>4
  <2> QED
    BY <2>2, <2>3, <2>4 DEF Laid
<1>7. Backing(R, low)
  <2>1. ASSUME NEW k \in DOMAIN R
        PROVE  LiesIn(low, R[k].physical, PhysEnd(R[k]), 1)
    <3>1. k \in DOMAIN vt /\ vt[k].physical \in Nat /\ PhysEnd(vt[k]) \in Nat
      BY <1>1, LaidSlot
    <3>2. LiesIn(ph, vt[k].physical, PhysEnd(vt[k]), 1)
      BY <1>1, <3>1 DEF Backing
    <3>3. LiesIn(low, vt[k].physical - n, PhysEnd(vt[k]) - n, 1)
      BY <1>3, <3>1, <3>2
    <3> QED
      BY <1>4, <3>1, <3>3
  <2>2. ASSUME NEW j \in DOMAIN R, NEW k \in DOMAIN R, EndOf(R, j) = k
        PROVE  PhysEnd(R[j]) = R[k].physical /\ R[k].physical \notin DOMAIN low
    <3>1. j \in DOMAIN vt /\ k \in DOMAIN vt /\ EndOf(vt, j) = k
      BY <1>4, <2>2
    <3>2. PhysEnd(vt[j]) = vt[k].physical /\ vt[k].physical \notin DOMAIN ph
      BY <1>1, <3>1 DEF Backing
    <3>3. PICK f \in Nat : f = vt[k].physical
      BY <1>1, <3>1, LaidSlot
    <3>4. PICK g \in Int : g = f - n
      OBVIOUS
    <3>5. R[k].physical = g /\ PhysEnd(R[j]) = g /\ g + n = f
      BY <1>4, <3>1, <3>2, <3>3, <3>4
    <3>6. g \notin DOMAIN low
      BY <1>2, <3>2, <3>3, <3>5
    <3> QED
      BY <3>5, <3>6
  <2>3. ASSUME NEW j \in DOMAIN R, NEW k \in DOMAIN R, j # k
        PROVE  PhysEnd(R[j]) <= R[k].physical \/ PhysEnd(R[k]) <= R[j].physical
    <3>1. j \in DOMAIN vt /\ k \in DOMAIN vt
      OBVIOUS
    <3>2. PhysEnd(vt[j]) <= vt[k].physical \/ PhysEnd(vt[k]) <= vt[j].physical
      BY <1>1, <2>3, <3>1 DEF Backing
    <3>3. /\ vt[j].physical \in Nat /\ PhysEnd(vt[j]) \in Nat
          /\ vt[k].physical \in Nat /\ PhysEnd(vt[k]) \in Nat
      BY <1>1, <3>1, LaidSlot
    <3>4. /\ R[j].physical = vt[j].physical - n /\ PhysEnd(R[j]) = PhysEnd(vt[j]) - n
          /\ R[k].physical = vt[k].physical - n /\ PhysEnd(R[k]) = PhysEnd(vt[k]) - n
      BY <1>4, <3>1
    <3> QED
      BY <3>2, <3>3, <3>4
  <2> QED
    BY <2>1, <2>2, <2>3 DEF Backing
<1> QED
  BY <1>2, <1>5, <1>6, <1>7 DEF Sound

\* Settling keeps the memory sound, and lowers everything by as much as it moves the contents.
LEMMA SettleKeeps ==
    ASSUME NEW vt, NEW ph, NEW e, Sound(vt, ph, e), NEW top \in DOMAIN vt, NEW d, Settle(vt, ph, d)
    PROVE  \E n \in Nat : /\ n < e /\ Sound(virt', phys', e - n) /\ Lowered(vt, virt', n)
                          /\ data' = Moved(d, 0, n, IF n > 0 THEN e - n ELSE 0)
<1>1. /\ Laid(vt) /\ TiledTo(ph, e) /\ Backing(vt, ph) /\ IsMap(ph) /\ IsMap(vt)
  BY DEF Sound
<1>2. e \in Nat /\ 0 \in DOMAIN ph /\ e > 0
  BY <1>1 DEF TiledTo
<1>3. EndOf(ph, LastOf(ph)) = e
  BY <1>1, LastIs
<1>4. PICK n : n = IF Reducible(ph) THEN ph[0].size ELSE 0
  OBVIOUS
<1>5. /\ virt' = [k \in DOMAIN vt |-> [vt[k] EXCEPT !.physical = @ - n]]
      /\ phys' = IF n > 0 THEN Shifted(ph, n) ELSE ph
      /\ data' = Moved(d, 0, n, IF n > 0 THEN EndOf(ph, LastOf(ph)) - n ELSE 0)
  BY <1>4, Zenon DEF Settle
<1>6. data' = Moved(d, 0, n, IF n > 0 THEN e - n ELSE 0)
  BY <1>3, <1>5
<1>7. IsMap(virt') /\ DOMAIN virt' = DOMAIN vt
      /\ \A k \in DOMAIN vt : virt'[k] = [vt[k] EXCEPT !.physical = @ - n]
  BY <1>5 DEF IsMap
<1>8. CASE n # 0
  <2>1. Reducible(ph) /\ n = ph[0].size
    BY <1>4, <1>8
  <2>2. ph[0].users = 0 /\ n \in Nat /\ n > 0 /\ n = EndOf(ph, 0)
    BY <1>1, <1>2, <2>1 DEF Reducible, TiledTo, EndOf
  <2>3. PICK j \in DOMAIN ph : ph[j].users = 1
    BY <1>1 DEF Backing, LiesIn
  <2>4. j # 0 /\ j \in Nat /\ j < e
    BY <1>1, <2>2, <2>3 DEF TiledTo
  <2>5. n <= j
    BY <1>1, <1>2, <2>2, <2>4 DEF TiledTo
  <2>6. n \in DOMAIN ph
    BY <1>1, <1>2, <2>2, <2>4, <2>5 DEF TiledTo
  <2>7. phys' = Shifted(ph, n)
    BY <1>5, <2>2
  <2>8. Sound(virt', phys', e - n) /\ Lowered(vt, virt', n)
    BY <1>7, <2>2, <2>6, <2>7, LoweredSound
  <2> QED
    BY <1>2, <1>6, <2>2, <2>4, <2>5, <2>8
<1>9. CASE n = 0
  <2>1. \A k \in DOMAIN vt : virt'[k] = vt[k]
    <3>1. ASSUME NEW k \in DOMAIN vt
          PROVE  virt'[k] = vt[k]
      <4>1. PICK r \in [physical : Nat, size : Nat, usage : SUBSET Rights] : r = vt[k]
        BY <1>1 DEF Laid
      <4>2. virt'[k] = [r EXCEPT !.physical = @ - n]
        BY <1>7, <4>1
      <4> QED
        BY <1>9, <4>1, <4>2
    <3> QED
      BY <3>1
  <2>2. virt' = vt
    BY <1>1, <1>7, <2>1 DEF IsMap
  <2>3. phys' = ph
    BY <1>5, <1>9
  <2>4. e - n = e
    BY <1>2, <1>9
  <2>5. Sound(virt', phys', e - n)
    BY <2>2, <2>3, <2>4
  <2>6. ASSUME NEW k \in DOMAIN vt
        PROVE  /\ virt'[k] \in [physical : Nat, size : Nat, usage : SUBSET Rights]
               /\ virt'[k].physical = vt[k].physical - n
               /\ virt'[k].size = vt[k].size /\ virt'[k].usage = vt[k].usage
    <3>1. vt[k] \in [physical : Nat, size : Nat, usage : SUBSET Rights]
      BY <1>1 DEF Laid
    <3> QED
      BY <1>9, <2>1, <3>1
  <2>7. Lowered(vt, virt', n)
    BY <1>7, <2>6 DEF Lowered
  <2> QED
    BY <1>2, <1>6, <1>9, <2>5, <2>7
<1> QED
  BY <1>8, <1>9

\* Both neighbors are released: what is left stays where it is, and free pages stay free.
LEMMA BothFreed ==
    ASSUME NEW vt, NEW ph, NEW e, Sound(vt, ph, e),
           NEW L, NEW v, NEW lf, NEW ls, Piece(vt, ph, L, v, lf, ls),
           NEW U, NEW w, NEW hf, NEW hs, Piece(vt, ph, U, w, hf, hs), \A s \in L : s \notin U,
           NEW f \in Int, NEW t \in Int, f < t, LiesIn(ph, f, t, 0)
    PROVE  \E rest : /\ Sound(rest, Freed(Freed(ph, U, hf), L, lf), e)
                     /\ \A j : j \in DOMAIN rest <=> j \in DOMAIN vt /\ j \notin L /\ j \notin U
                     /\ \A j \in DOMAIN rest : rest[j] = vt[j]
                     /\ LiesIn(Freed(Freed(ph, U, hf), L, lf), f, t, 0)
<1>1. PICK left : left = [k \in DOMAIN vt \ U |-> vt[k]]
  OBVIOUS
<1>2. Without(vt, U, left)
  BY <1>1 DEF Without, IsMap
<1>3. PICK R : R = Freed(ph, U, hf)
  OBVIOUS
<1>4. /\ Sound(left, R, e) /\ \A g, h \in Int : g < h /\ LiesIn(ph, g, h, 0) => LiesIn(R, g, h, 0)
  BY <1>2, <1>3, FreedIs
<1>5. Piece(left, R, L, v, lf, ls)
  BY <1>2, <1>3, OtherPiece
<1>6. PICK rest : rest = [k \in DOMAIN left \ L |-> left[k]]
  OBVIOUS
<1>7. Without(left, L, rest)
  BY <1>6 DEF Without, IsMap
<1>8. PICK S : S = Freed(R, L, lf)
  OBVIOUS
<1>9. /\ Sound(rest, S, e) /\ \A g, h \in Int : g < h /\ LiesIn(R, g, h, 0) => LiesIn(S, g, h, 0)
  BY <1>4, <1>5, <1>7, <1>8, FreedIs
<1>10. LiesIn(S, f, t, 0)
  BY <1>4, <1>9
<1>11. \A j : j \in DOMAIN rest <=> j \in DOMAIN vt /\ j \notin L /\ j \notin U
  BY <1>2, <1>7 DEF Without
<1>12. \A j \in DOMAIN rest : rest[j] = vt[j]
  BY <1>2, <1>7 DEF Without
<1> QED
  BY <1>3, <1>8, <1>9, <1>10, <1>11, <1>12

\* A free slot is taken: what was backed stays backed, apart from it.
LEMMA TakenIs ==
    ASSUME NEW vt, NEW ph, NEW e, Sound(vt, ph, e), NEW slot \in DOMAIN ph, NEW to \in Int, slot < to,
           LiesIn(ph, slot, to, 0)
    PROVE  /\ Sound(vt, Assign(ph, slot, 1), e)
           /\ LiesIn(Assign(ph, slot, 1), slot, to, 1)
           /\ \A j \in DOMAIN vt : PhysEnd(vt[j]) <= slot \/ to <= vt[j].physical
<1>1. /\ Laid(vt) /\ TiledTo(ph, e) /\ Backing(vt, ph) /\ IsMap(vt)
  BY DEF Sound
<1>2. slot \in Nat
  BY <1>1 DEF TiledTo
<1>3. PICK R : R = Assign(ph, slot, 1)
  OBVIOUS
<1>4. /\ TiledTo(R, e) /\ LiesIn(R, slot, EndOf(ph, slot), 1) /\ \A j : j \in DOMAIN R => j \in DOMAIN ph
  BY <1>1, <1>3, AssignAt
<1>5. PICK j \in DOMAIN ph : ph[j].users = 0 /\ j <= slot /\ to <= EndOf(ph, j)
  BY DEF LiesIn
<1>6. j = slot
  <2>1. j \in Nat /\ EndOf(ph, j) \in Nat
    BY <1>1, NextIs DEF TiledTo
  <2>2. j < slot => EndOf(ph, j) <= slot
    BY <1>1 DEF TiledTo
  <2> QED
    BY <1>2, <1>5, <2>1, <2>2
<1>7. LiesIn(R, slot, to, 1)
  <2>1. EndOf(ph, slot) \in Nat /\ to <= EndOf(ph, slot)
    BY <1>1, <1>5, <1>6, NextIs
  <2>2. PICK i \in DOMAIN R : R[i].users = 1 /\ i <= slot /\ EndOf(ph, slot) <= EndOf(R, i)
    BY <1>4 DEF LiesIn
  <2>3. EndOf(R, i) \in Nat
    BY <1>4, NextIs
  <2>4. to <= EndOf(R, i)
    BY <2>1, <2>2, <2>3
  <2> QED
    BY <2>2, <2>4 DEF LiesIn
<1>8. ASSUME NEW k \in DOMAIN vt
      PROVE  /\ LiesIn(R, vt[k].physical, PhysEnd(vt[k]), 1)
             /\ PhysEnd(vt[k]) <= slot \/ to <= vt[k].physical
  <2>1. PICK f \in Nat : f = vt[k].physical
    BY <1>1, LaidSlot
  <2>2. PICK t \in Nat : t = PhysEnd(vt[k])
    BY <1>1, LaidSlot
  <2>3. f < t /\ LiesIn(ph, f, t, 1)
    BY <1>1, <2>1, <2>2, LaidSlot DEF Backing
  <2>4. LiesIn(R, f, t, 1)
    BY <1>1, <1>3, <2>3, AssignKeeps
  <2>5. t <= slot \/ to <= f
    BY <1>1, <1>2, <2>3, DifferApart
  <2> QED
    BY <2>1, <2>2, <2>4, <2>5
<1>9. Backing(vt, R)
  BY <1>1, <1>4, <1>8 DEF Backing
<1>10. IsMap(R)
  BY <1>3, AssignMap
<1>11. Sound(vt, R, e)
  BY <1>1, <1>4, <1>9, <1>10 DEF Sound
<1> QED
  BY <1>3, <1>7, <1>8, <1>11

\* The pages of a range are not in use.
Unused(vt, a, w) == \A k \in DOMAIN vt : EndOf(vt, k) <= a \/ w <= k

\* Where there is room for the neighbors and the new slot, and the slots once they are released.
Chosen(cuts, L, lf, ls, U, hf, hs, n, growth, slot, frees) ==
    \E room : /\ room = Allocate(cuts, ls + n + hs, n) /\ growth = room.growth /\ slot \in room.slot
              /\ frees = Freed(Freed(PhysCut(room.phys, slot + (ls + n + hs)), U, hf), L, lf)
              /\ slot \in DOMAIN frees

\* The neighbors of a range belong to the pieces.
Around(vt, a, w, L, U) ==
    /\ \A k \in DOMAIN vt : EndOf(vt, k) = a => k \in L
    /\ \A k \in DOMAIN vt : k = w => k \in U

\* The neighbors are moved to where all three fit: they are backed there, with room in between.
LEMMA MoveIs ==
    ASSUME NEW vt, NEW cuts, NEW e, Sound(vt, cuts, e), Grown \in Nat,
           NEW L, NEW v, NEW lf, NEW ls, NEW U, NEW a \in Nat, NEW n \in Nat, NEW hf, NEW hs,
           Piece(vt, cuts, L, v, lf, ls), Piece(vt, cuts, U, a + n, hf, hs),
           n > 0, v + ls = a, a + n <= PageCount,
           Unused(vt, a, a + n),
           Around(vt, a, a + n, L, U), NEW growth, NEW slot, NEW frees,
           Chosen(cuts, L, lf, ls, U, hf, hs, n, growth, slot, frees),
           NEW R, MovedTo(vt, R, L, v, U, a + n, slot, slot + ls + n)
    PROVE  /\ growth \in Nat /\ slot \in Nat /\ slot + (ls + n + hs) <= e + growth
           /\ \A j \in DOMAIN vt : PhysEnd(vt[j]) <= slot \/ slot + (ls + n + hs) <= vt[j].physical
           /\ Sound(R, Assign(frees, slot, 1), e + growth)
           /\ Room(R, Assign(frees, slot, 1), a, n, slot + ls)
<1>1. Laid(vt) /\ v \in Nat /\ ls \in Nat /\ hs \in Nat /\ lf \in Nat /\ hf \in Nat
  BY DEF Sound, Piece
<1>2. PICK total \in Nat : total = ls + n + hs /\ total > 0
  BY <1>1
<1>0. PICK room : /\ room = Allocate(cuts, ls + n + hs, n) /\ growth = room.growth /\ slot \in room.slot
                  /\ frees = Freed(Freed(PhysCut(room.phys, slot + (ls + n + hs)), U, hf), L, lf)
                  /\ slot \in DOMAIN frees
  BY DEF Chosen
<1>3. room = Allocate(cuts, total, n)
  BY <1>0, <1>2
<1>4. PICK E : E = e + room.growth
  OBVIOUS
<1>5. /\ room.growth \in Nat /\ Sound(vt, room.phys, E) /\ UsedKept(cuts, room.phys)
      /\ slot \in DOMAIN room.phys /\ LiesIn(room.phys, slot, slot + total, 0)
  BY <1>0, <1>2, <1>3, <1>4, AllocateSound
<1>6. PICK sized : sized = PhysCut(room.phys, slot + total)
  OBVIOUS
<1>7. /\ Sound(vt, sized, E) /\ UsedKept(room.phys, sized) /\ slot \in DOMAIN sized
      /\ EndOf(sized, slot) = slot + total /\ sized[slot].users = 0
      /\ slot \in Nat /\ slot + total <= E
      /\ \A j \in DOMAIN vt : PhysEnd(vt[j]) <= slot \/ slot + total <= vt[j].physical
  BY <1>2, <1>5, <1>6, CarveIs
<1>8. UsedKept(cuts, sized)
  BY <1>5, <1>7, UsedKeptTrans
<1>9. Piece(vt, sized, L, v, lf, ls) /\ Piece(vt, sized, U, a + n, hf, hs)
  BY <1>8, PieceUsed
<1>10. \A s \in L : s \notin U
  <2>1. ASSUME NEW s \in L, s \in U
        PROVE  FALSE
    <3>1. s \in DOMAIN vt /\ EndOf(vt, s) <= v + ls
      BY DEF Piece
    <3>2. a + n <= s
      BY <2>1 DEF Piece
    <3>3. s \in Nat /\ EndOf(vt, s) \in Nat /\ s < EndOf(vt, s)
      BY <1>1, <3>1, LaidSlot
    <3> QED
      BY <1>1, <3>1, <3>2, <3>3
  <2> QED
    BY <2>1
<1>11. frees = Freed(Freed(sized, U, hf), L, lf)
  BY <1>0, <1>2, <1>6
<1>12. PICK to \in Int : to = slot + total /\ slot < to
  BY <1>2, <1>7
<1>13. LiesIn(sized, slot, to, 0)
  BY <1>7, <1>12 DEF LiesIn
<1>14. PICK rest : /\ Sound(rest, frees, E)
                   /\ \A j : j \in DOMAIN rest <=> j \in DOMAIN vt /\ j \notin L /\ j \notin U
                   /\ \A j \in DOMAIN rest : rest[j] = vt[j]
                   /\ LiesIn(frees, slot, to, 0)
  BY <1>7, <1>9, <1>10, <1>11, <1>12, <1>13, BothFreed
<1>15. PICK S : S = Assign(frees, slot, 1)
  OBVIOUS
<1>16. /\ Sound(rest, S, E) /\ LiesIn(S, slot, to, 1)
       /\ \A j \in DOMAIN rest : PhysEnd(rest[j]) <= slot \/ to <= rest[j].physical
  BY <1>0, <1>12, <1>14, <1>15, TakenIs
<1>17. slot + (ls + n + hs) = to
  BY <1>2, <1>12
<1>18. /\ LiesIn(S, slot, slot + (ls + n + hs), 1)
       /\ \A j \in DOMAIN rest : PhysEnd(rest[j]) <= slot \/ slot + (ls + n + hs) <= rest[j].physical
  BY <1>16, <1>17
<1>19. Sound(R, S, E)
  BY <1>1, <1>7, <1>9, <1>14, <1>16, <1>18, MovedSound
<1>20. Room(R, S, a, n, slot + ls)
  BY <1>1, <1>7, <1>9, <1>14, <1>16, <1>18, MovedRoom DEF Unused, Around
<1>21. \A j \in DOMAIN vt : PhysEnd(vt[j]) <= slot \/ slot + (ls + n + hs) <= vt[j].physical
  BY <1>2, <1>7
<1> QED
  BY <1>0, <1>4, <1>5, <1>7, <1>12, <1>15, <1>17, <1>19, <1>20, <1>21

\* Nothing is moved where there is no neighbor.
LEMMA NoPiece ==
    ASSUME NEW vt, Laid(vt), NEW ph, NEW v \in Nat, NEW B, B = {}
    PROVE  Piece(vt, ph, B, v, 0, 0)
<1>1. ASSUME NEW s \in DOMAIN vt
      PROVE  0 + 0 <= vt[s].physical
  BY LaidSlot
<1> QED
  BY <1>1 DEF Piece

\* What MapMove takes for the lower neighbor, and for the upper one.
LowerOf(a, prev, cut, L, size, from) ==
    /\ \A k : k \in prev <=> k \in DOMAIN virt /\ EndOf(virt, k) = a
    /\ prev = {} => cut = phys
    /\ prev # {} => cut = CutBelow(Max(prev))
    /\ \A s : s \in L <=> s \in DOMAIN virt /\ \E k \in prev : FirstOf(k) <= s /\ s <= k
    /\ L = {} => size = 0 /\ from = 0
    /\ L # {} => size = a - Min(L) /\ from = virt[Min(L)].physical

UpperOf(w, next, cut, cuts, U, size, from) ==
    /\ \A k : k \in next <=> k = w /\ k \in DOMAIN virt
    /\ next = {} => cuts = cut
    /\ next # {} => cuts = CutAbove(cut, w)
    /\ \A s : s \in U <=> s \in DOMAIN virt /\ \E k \in next : k <= s /\ s <= FinalOf(cut, k)
    /\ U = {} => size = 0 /\ from = 0
    /\ U # {} => size = EndOf(virt, Max(U)) - w /\ from = virt[w].physical

\* What MapMove takes for the lower neighbor is one piece of the memory.
LEMMA LowerIs ==
    ASSUME NEW e, Sound(virt, phys, e), NEW a \in Nat, NEW n \in Nat, n > 0, Unused(virt, a, a + n),
           NEW prev, NEW cut, NEW L, NEW size, NEW from, LowerOf(a, prev, cut, L, size, from)
    PROVE  /\ Sound(virt, cut, e) /\ Piece(virt, cut, L, a - size, from, size)
           /\ size \in Nat /\ size <= a /\ (L = {} <=> prev = {})
           /\ \A k \in DOMAIN virt : EndOf(virt, k) = a => k \in L
<1>1. /\ Laid(virt) /\ Ordered(virt)
      /\ \A k \in DOMAIN virt : EndOf(virt, k) <= a \/ a + n <= k
  BY DEF Sound, Laid, Unused
<1>2. /\ \A k : k \in prev <=> k \in DOMAIN virt /\ EndOf(virt, k) = a
      /\ prev = {} => cut = phys
      /\ prev # {} => cut = CutBelow(Max(prev))
  BY DEF LowerOf
<1>0. /\ \A s : s \in L <=> s \in DOMAIN virt /\ \E k \in prev : FirstOf(k) <= s /\ s <= k
      /\ L = {} => size = 0 /\ from = 0
      /\ L # {} => size = a - Min(L) /\ from = virt[Min(L)].physical
  BY DEF LowerOf
<1>3. CASE prev = {}
  <2>1. L = {}
    BY <1>0, <1>3
  <2>2. size = 0 /\ from = 0 /\ a - size = a /\ cut = phys
    BY <1>0, <1>2, <1>3, <2>1
  <2>3. Piece(virt, cut, L, a, 0, 0)
    BY <1>1, <2>1, NoPiece
  <2> QED
    BY <1>2, <1>3, <2>1, <2>2, <2>3
<1>4. CASE prev # {}
  <2>1. PICK p \in prev : TRUE
    BY <1>4
  <2>2. p \in DOMAIN virt /\ EndOf(virt, p) = a /\ p \in Nat /\ p < a
    BY <1>1, <1>2, <2>1, LaidSlot
  <2>3. ASSUME NEW k \in prev
        PROVE  k = p
    <3>1. k \in DOMAIN virt /\ EndOf(virt, k) = a /\ k \in Nat /\ k < a
      BY <1>1, <1>2, <2>3, LaidSlot
    <3> QED
      BY <1>1, <2>2, <3>1 DEF Ordered
  <2>4. Max(prev) = p
    <3>1. prev \in SUBSET Int
      BY <2>2, <2>3
    <3>2. \A y \in prev : y <= p
      BY <2>2, <2>3
    <3> QED
      BY <2>1, <3>1, <3>2, MaxIs
  <2>5. cut = CutBelow(p)
    BY <1>2, <1>4, <2>4
  <2>6. \A s : s \in L <=> s \in DOMAIN virt /\ FirstOf(p) <= s /\ s <= p
    BY <1>0, <2>1, <2>3
  <2>7. a \notin DOMAIN virt
    <3>1. ASSUME a \in DOMAIN virt
          PROVE  FALSE
      <4>1. EndOf(virt, a) \in Nat /\ a < EndOf(virt, a)
        BY <1>1, <3>1, LaidSlot
      <4> QED
        BY <1>1, <3>1, <4>1
    <3> QED
      BY <3>1
  <2>8. PICK f : f = FirstOf(p)
    OBVIOUS
  <2>9. PICK len : len = EndOf(virt, p) - f
    OBVIOUS
  <2>10. /\ Sound(virt, CutBelow(p), e)
         /\ Piece(virt, CutBelow(p), L, f, virt[f].physical, len) /\ f \in L
    <3>1. EndOf(virt, p) \notin DOMAIN virt
      BY <2>2, <2>7
    <3>2. len = EndOf(virt, p) - FirstOf(p)
      BY <2>8, <2>9
    <3> QED
      BY <2>2, <2>6, <2>8, <3>1, <3>2, LowerPiece
  <2>11. f \in DOMAIN virt /\ f <= p /\ f \in Nat
    BY <1>1, <2>6, <2>8, <2>10, LaidSlot
  <2>12. Min(L) = f
    <3>1. L \in SUBSET Int
      BY <1>1, <2>6 DEF Ordered
    <3>2. \A y \in L : f <= y
      BY <2>6, <2>8
    <3> QED
      BY <2>10, <3>1, <3>2, MinIs
  <2>13. L # {} /\ size = a - f /\ from = virt[f].physical /\ len = size
    BY <1>0, <2>2, <2>9, <2>10, <2>12
  <2>14. size \in Nat /\ size <= a /\ a - size = f
    BY <2>2, <2>11, <2>13
  <2>15. p \in L
    BY <2>2, <2>6, <2>8, <2>11
  <2>16. \A k \in DOMAIN virt : EndOf(virt, k) = a => k \in L
    BY <1>2, <2>3, <2>15
  <2> QED
    BY <1>4, <2>5, <2>10, <2>13, <2>14, <2>16
<1> QED
  BY <1>3, <1>4

\* What MapMove takes for the upper neighbor is one, and cutting it out leaves the lower one alone.
LEMMA UpperIs ==
    ASSUME NEW e, NEW cut, Sound(virt, cut, e), NEW a \in Nat, NEW n \in Nat, n > 0,
           Unused(virt, a, a + n),
           NEW next, NEW cuts, NEW U, NEW size, NEW from, UpperOf(a + n, next, cut, cuts, U, size, from),
           NEW L, NEW v, NEW lf, NEW ls, Piece(virt, cut, L, v, lf, ls), v + ls = a
    PROVE  /\ Sound(virt, cuts, e) /\ Piece(virt, cuts, U, a + n, from, size)
           /\ Piece(virt, cuts, L, v, lf, ls)
           /\ (U = {} <=> next = {})
           /\ \A k \in DOMAIN virt : k = a + n => k \in U
<1>1. Laid(virt) /\ Ordered(virt) /\ TiledTo(cut, e) /\ Backing(virt, cut)
  BY DEF Sound, Laid
<1>2. PICK w \in Nat : w = a + n
  OBVIOUS
<1>3. /\ \A k : k \in next <=> k = w /\ k \in DOMAIN virt
      /\ next = {} => cuts = cut
      /\ next # {} => cuts = CutAbove(cut, w)
  BY <1>2 DEF UpperOf
<1>0. /\ \A s : s \in U <=> s \in DOMAIN virt /\ \E k \in next : k <= s /\ s <= FinalOf(cut, k)
      /\ U = {} => size = 0 /\ from = 0
      /\ U # {} => size = EndOf(virt, Max(U)) - w /\ from = virt[w].physical
  BY <1>2 DEF UpperOf
<1>4. CASE w \notin DOMAIN virt
  <2>1. next = {}
    BY <1>3, <1>4
  <2>2. U = {}
    BY <1>0, <2>1
  <2>3. size = 0 /\ from = 0 /\ cuts = cut
    BY <1>0, <1>3, <2>1, <2>2
  <2>4. Piece(virt, cuts, U, w, 0, 0)
    BY <1>1, <2>2, NoPiece
  <2> QED
    BY <1>2, <1>4, <2>1, <2>2, <2>3, <2>4
<1>5. CASE w \in DOMAIN virt
  <2>1. next # {} /\ cuts = CutAbove(cut, w)
    BY <1>3, <1>5
  <2>2. \A s : s \in U <=> s \in DOMAIN virt /\ w <= s /\ s <= FinalOf(cut, w)
    BY <1>0, <1>3, <1>5
  <2>3. ASSUME NEW t \in DOMAIN virt, EndOf(virt, t) = w
        PROVE  FALSE
    <3>1. t \in Nat /\ t < EndOf(virt, t)
      BY <1>1, LaidSlot
    <3>2. EndOf(virt, t) <= a \/ w <= t
      BY <1>2 DEF Unused
    <3> QED
      BY <1>2, <2>3, <3>1, <3>2
  <2>4. PICK l : l = FinalOf(cut, w)
    OBVIOUS
  <2>5. PICK len : len = EndOf(virt, l) - w
    OBVIOUS
  <2>6. PICK R : R = CutAbove(cut, w)
    OBVIOUS
  <2>7. /\ Sound(virt, R, e)
        /\ Piece(virt, R, U, w, virt[w].physical, len)
        /\ w \in U /\ l \in U /\ Run(virt, w, l)
        /\ \A j \in DOMAIN cut : cut[j].users = 1 =>
                (PhysEnd(virt[l]) <= j \/ EndOf(cut, j) <= virt[w].physical
                    => j \in DOMAIN R /\ R[j] = cut[j])
    <3>1. len = EndOf(virt, FinalOf(cut, w)) - w
      BY <2>4, <2>5
    <3> QED
      BY <1>5, <2>2, <2>3, <2>4, <2>6, <3>1, UpperPiece
  <2>8. Max(U) = l
    <3>1. U \in SUBSET Int
      BY <1>1, <2>2 DEF Ordered
    <3>2. \A y \in U : y <= l
      BY <2>2, <2>4
    <3> QED
      BY <2>7, <3>1, <3>2, MaxIs
  <2>9. U # {} /\ size = len /\ from = virt[w].physical
    BY <1>0, <1>2, <2>5, <2>7, <2>8
  <2>10. Piece(virt, R, L, v, lf, ls)
    <3>1. CASE lf \in DOMAIN cut /\ cut[lf].users = 1 /\ L # {}
      <4>1. EndOf(cut, lf) = lf + ls /\ lf \in Nat /\ ls \in Nat
        BY <3>1 DEF Piece
      <4>2. PICK f \in Nat : f = virt[w].physical
        BY <1>1, <1>5, LaidSlot
      <4>3. l \in DOMAIN virt
        BY <2>7 DEF Run
      <4>4. PICK t \in Nat : t = PhysEnd(virt[l])
        BY <1>1, <4>3, LaidSlot
      <4>5. /\ LiesIn(cut, f, t, 1)
            /\ \A s \in DOMAIN virt : w <= s /\ s <= l => PhysEnd(virt[s]) <= t
        BY <1>1, <2>7, <4>2, <4>4, RunPlaced
      <4>6. PICK j \in DOMAIN cut : cut[j].users = 1 /\ j <= f /\ t <= EndOf(cut, j)
        BY <4>5 DEF LiesIn
      <4>7. j \in Nat /\ EndOf(cut, j) \in Nat
        BY <1>1, NextIs DEF TiledTo
      <4>8. w \notin L
        <5>1. ASSUME w \in L
              PROVE  FALSE
          <6>1. EndOf(virt, w) <= v + ls
            BY <5>1 DEF Piece
          <6>2. EndOf(virt, w) \in Nat /\ w < EndOf(virt, w)
            BY <1>1, <1>5, LaidSlot
          <6> QED
            BY <1>2, <6>1, <6>2
        <5> QED
          BY <5>1
      <4>9. PhysEnd(virt[w]) <= lf \/ lf + ls <= f
        BY <1>5, <4>2, <4>8 DEF Piece
      <4>10. PhysEnd(virt[w]) \in Nat /\ f < PhysEnd(virt[w]) /\ PhysEnd(virt[w]) <= t
        <5>1. w <= l /\ w \in DOMAIN virt
          BY <2>7 DEF Run
        <5> QED
          BY <1>1, <1>2, <4>2, <4>5, <5>1, LaidSlot
      <4>11. CASE j = lf
        BY <4>1, <4>6, <4>9, <4>10, <4>11
      <4>12. CASE j # lf
        <5>1. EndOf(cut, j) <= lf \/ EndOf(cut, lf) <= j
          BY <1>1, <3>1, <4>1, <4>7, <4>12 DEF TiledTo
        <5>2. t <= lf \/ EndOf(cut, lf) <= f
          BY <4>1, <4>6, <4>7, <5>1
        <5>3. lf \in DOMAIN R /\ R[lf] = cut[lf]
          BY <2>7, <3>1, <4>2, <4>4, <5>2
        <5>4. EndOf(R, lf) = EndOf(cut, lf) /\ R[lf].users = 1
          BY <3>1, <5>3 DEF EndOf
        <5> QED
          BY <5>3, <5>4, PieceKept
      <4>13. CASE j = lf /\ lf + ls <= f
        BY <4>1, <4>6, <4>10, <4>13
      <4> QED
        BY <4>11, <4>12, <4>13
    <3>2. CASE L = {}
      <4>1. Piece(virt, R, L, v, lf, ls)
        BY <3>2 DEF Piece
      <4> QED
        BY <4>1
    <3>3. L # {} => lf \in DOMAIN cut /\ cut[lf].users = 1
      BY DEF Piece
    <3> QED
      BY <3>1, <3>2, <3>3
  <2>11. \A k \in DOMAIN virt : k = a + n => k \in U
    BY <1>2, <2>7
  <2> QED
    BY <1>2, <2>1, <2>6, <2>7, <2>9, <2>10, <2>11
<1> QED
  BY <1>4, <1>5

\* What moving the neighbors results in: the pieces L and U go to `slot' and behind the new slot,
\* and then everything is lowered by m pages.
Relocation(e, a, n, u, X, L, v, lf, ls, U, hf, hs, growth, slot, R, vt, ph, m) ==
    /\ Piece(virt, X, L, v, lf, ls) /\ Piece(virt, X, U, a + n, hf, hs) /\ v + ls = a
    /\ ls > 0 => lf + ls <= e
    /\ hs > 0 => hf + hs <= e
    /\ growth \in Nat /\ slot \in Nat /\ slot + (ls + n + hs) <= e + growth
    /\ \A j \in DOMAIN virt : PhysEnd(virt[j]) <= slot \/ slot + (ls + n + hs) <= virt[j].physical
    /\ Sound(vt, ph, e + growth)
    /\ MovedTo(virt, R, L, v, U, a + n, slot, slot + ls + n) /\ Ordered(R)
    /\ NewPages(R, vt, a, n, slot + ls, u)
    /\ m \in Nat /\ m < e + growth /\ Ordered(vt) /\ Lowered(vt, virt', m)
    /\ Sound(virt', phys', e + growth - m)
    /\ data' = Moved(Cleared(Moved(Moved(Expanded(data, growth), slot + ls + n, hf, hs), slot, lf, ls),
                             slot + ls, n),
                     0, m, IF m > 0 THEN e + growth - m ELSE 0)

\* A piece ends within the memory.
LEMMA PieceEnds ==
    ASSUME NEW vt, NEW ph, NEW e, TiledTo(ph, e), NEW B, NEW v, NEW from, NEW size, Piece(vt, ph, B, v, from, size)
    PROVE  size > 0 => from + size <= e
<1> SUFFICES ASSUME size > 0
             PROVE  from + size <= e
  OBVIOUS
<1>1. from \in DOMAIN ph /\ EndOf(ph, from) = from + size
  BY DEF Piece
<1> QED
  BY <1>1, NextIs

\* The neighbors stay, split or not, or they are moved around the new slot.
LEMMA MapMoveIs ==
    ASSUME NEW e, Sound(virt, phys, e), Grown \in Nat, NEW a \in Nat, NEW n \in Nat, n > 0,
           a + n <= PageCount, NEW u \in SUBSET Rights,
           Unused(virt, a, a + n), MapMove(a, n, u)
    PROVE  \/ Sound(virt, phys', e) /\ virt' = virt /\ data' = data
           \/ \E X, L, v, lf, ls, U, hf, hs, growth, slot, R, vt, ph, m :
                Relocation(e, a, n, u, X, L, v, lf, ls, U, hf, hs, growth, slot, R, vt, ph, m)
<1> DEFINE prev  == {k \in DOMAIN virt : VirtEnd(k) = a}
           next  == {a + n} \intersect DOMAIN virt
           cut   == IF prev = {} THEN phys ELSE CutBelow(Max(prev))
           cuts  == IF next = {} THEN cut ELSE CutAbove(cut, a + n)
           L     == {s \in DOMAIN virt : \E k \in prev : FirstOf(k) <= s /\ s <= k}
           U     == {s \in DOMAIN virt : \E k \in next : k <= s /\ s <= FinalOf(cut, k)}
           ls    == IF L = {} THEN 0 ELSE a - Min(L)
           lf    == IF L = {} THEN 0 ELSE virt[Min(L)].physical
           hs    == IF U = {} THEN 0 ELSE VirtEnd(Max(U)) - (a + n)
           hf    == IF U = {} THEN 0 ELSE virt[a + n].physical
           total == ls + n + hs
           room  == Allocate(cuts, total, n)
           slot  == CHOOSE k \in room.slot : TRUE
           sized == PhysCut(room.phys, slot + total)
           freed == IF U = {} THEN sized ELSE Assign(sized, hf, 0)
           frees == IF L = {} THEN freed ELSE Assign(freed, lf, 0)
           at    == slot + ls
           ph    == Assign(frees, slot, 1)
           moved == [s \in DOMAIN virt |->
                        CASE s \in L -> [virt[s] EXCEPT !.physical = slot + (@ - lf)]
                          [] s \in U -> [virt[s] EXCEPT !.physical = at + n + (@ - hf)]
                          [] OTHER -> virt[s]]
           new   == VirtMergePrev(Put(moved, a, [physical |-> at, size |-> n, usage |-> u]), a)
           vt    == IF U = {} THEN new ELSE VirtMergePrev(new, a + n)
           copy  == Moved(Moved(Expanded(data, room.growth), at + n, hf, hs), slot, lf, ls)
<1>1. (CASE room.slot = {} ->
                phys' = cuts /\ UNCHANGED <<virt, data, cacheVars, fault>>
          [] room.slot # {} /\ slot \notin DOMAIN frees ->
                fault' = "dangling" /\ UNCHANGED <<slotVars, data, cacheVars>>
          [] OTHER ->
                \/ Settle(vt, ph, Cleared(copy, at, n))
                \/ a \notin DOMAIN new /\ fault' = "erased" /\ UNCHANGED <<slotVars, data, cacheVars>>)
  BY DEF MapMove
<1>2. prev = {k \in DOMAIN virt : VirtEnd(k) = a} /\ next = {a + n} \intersect DOMAIN virt
  OBVIOUS
<1>3. cut = (IF prev = {} THEN phys ELSE CutBelow(Max(prev)))
  OBVIOUS
<1>4. cuts = (IF next = {} THEN cut ELSE CutAbove(cut, a + n))
  OBVIOUS
<1>5. \A s : s \in L <=> s \in DOMAIN virt /\ \E k \in prev : FirstOf(k) <= s /\ s <= k
  <2> HIDE DEF prev
  <2> QED
    OBVIOUS
<1>6. \A s : s \in U <=> s \in DOMAIN virt /\ \E k \in next : k <= s /\ s <= FinalOf(cut, k)
  <2> HIDE DEF next, cut
  <2> QED
    OBVIOUS
<1>7. ls = (IF L = {} THEN 0 ELSE a - Min(L)) /\ lf = (IF L = {} THEN 0 ELSE virt[Min(L)].physical)
  OBVIOUS
<1>8. hs = (IF U = {} THEN 0 ELSE VirtEnd(Max(U)) - (a + n)) /\ hf = (IF U = {} THEN 0 ELSE virt[a + n].physical)
  OBVIOUS
<1>9. total = ls + n + hs /\ room = Allocate(cuts, total, n) /\ slot = (CHOOSE k \in room.slot : TRUE)
  OBVIOUS
<1>10. frees = Freed(Freed(PhysCut(room.phys, slot + total), U, hf), L, lf)
  <2> HIDE DEF L, U, hf, lf, total, room, slot
  <2> QED
    BY Zenon DEF Freed
<1>11. at = slot + ls /\ ph = Assign(frees, slot, 1)
  OBVIOUS
<1>12. moved = [s \in DOMAIN virt |->
                    CASE s \in L -> [virt[s] EXCEPT !.physical = slot + (@ - lf)]
                      [] s \in U -> [virt[s] EXCEPT !.physical = at + n + (@ - hf)]
                      [] OTHER -> virt[s]]
  OBVIOUS
<1>13. new = VirtMergePrev(Put(moved, a, [physical |-> at, size |-> n, usage |-> u]), a)
  OBVIOUS
<1>14. vt = (IF U = {} THEN new ELSE VirtMergePrev(new, a + n))
  OBVIOUS
<1>15. copy = Moved(Moved(Expanded(data, room.growth), at + n, hf, hs), slot, lf, ls)
  OBVIOUS
<1> HIDE DEF prev, next, cut, cuts, L, U, ls, lf, hs, hf, total, room, slot, frees, at, ph, moved, new, vt, copy
<1>16. \/ room.slot = {} /\ phys' = cuts /\ virt' = virt /\ data' = data
       \/ phys' = phys /\ virt' = virt /\ data' = data
       \/ room.slot # {} /\ slot \in DOMAIN frees /\ Settle(vt, ph, Cleared(copy, at, n))
  BY <1>1 DEF slotVars
<1>17. Laid(virt)
  BY DEF Sound
<1>18. /\ Sound(virt, cut, e) /\ Piece(virt, cut, L, a - ls, lf, ls)
       /\ ls \in Nat /\ ls <= a /\ \A k \in DOMAIN virt : EndOf(virt, k) = a => k \in L
  <2>1. PICK Q, C, B, z, f : Q = prev /\ C = cut /\ B = L /\ z = ls /\ f = lf
    OBVIOUS
  <2>2. LowerOf(a, Q, C, B, z, f)
    <3>1. \A k : k \in Q <=> k \in DOMAIN virt /\ EndOf(virt, k) = a
      BY <1>2, <2>1 DEF VirtEnd
    <3>2. (Q = {} => C = phys) /\ (Q # {} => C = CutBelow(Max(Q)))
      BY <1>3, <2>1
    <3>3. \A s : s \in B <=> s \in DOMAIN virt /\ \E k \in Q : FirstOf(k) <= s /\ s <= k
      BY <1>5, <2>1
    <3>4. (B = {} => z = 0 /\ f = 0) /\ (B # {} => z = a - Min(B) /\ f = virt[Min(B)].physical)
      BY <1>7, <2>1
    <3> QED
      BY <3>1, <3>2, <3>3, <3>4 DEF LowerOf
  <2>3. /\ Sound(virt, C, e) /\ Piece(virt, C, B, a - z, f, z)
        /\ z \in Nat /\ z <= a /\ \A k \in DOMAIN virt : EndOf(virt, k) = a => k \in B
    BY <2>2, LowerIs
  <2> QED
    BY <2>1, <2>3
<1>19. PICK v : v = a - ls
  OBVIOUS
<1>20. v \in Nat /\ v + ls = a
  BY <1>18, <1>19
<1>21. /\ Sound(virt, cuts, e) /\ Piece(virt, cuts, U, a + n, hf, hs) /\ Piece(virt, cuts, L, v, lf, ls)
       /\ U = {} <=> next = {}
       /\ \A k \in DOMAIN virt : k = a + n => k \in U
  <2>1. Piece(virt, cut, L, v, lf, ls)
    BY <1>18, <1>19
  <2> QED
    <3>1. PICK Q, C, D, B, z, f : Q = next /\ C = cut /\ D = cuts /\ B = U /\ z = hs /\ f = hf
      OBVIOUS
    <3>2. PICK B0, z0, f0 : B0 = L /\ z0 = ls /\ f0 = lf
      OBVIOUS
    <3>3. UpperOf(a + n, Q, C, D, B, z, f)
      <4>1. \A k : k \in Q <=> k = a + n /\ k \in DOMAIN virt
        BY <1>2, <3>1
      <4>2. (Q = {} => D = C) /\ (Q # {} => D = CutAbove(C, a + n))
        BY <1>4, <3>1
      <4>3. \A s : s \in B <=> s \in DOMAIN virt /\ \E k \in Q : k <= s /\ s <= FinalOf(C, k)
        BY <1>6, <3>1
      <4>4. (B = {} => z = 0 /\ f = 0) /\ (B # {} => z = EndOf(virt, Max(B)) - (a + n) /\ f = virt[a + n].physical)
        BY <1>8, <3>1 DEF VirtEnd
      <4> QED
        BY <4>1, <4>2, <4>3, <4>4 DEF UpperOf
    <3>6. Sound(virt, C, e) /\ Piece(virt, C, B0, v, f0, z0) /\ v + z0 = a
      BY <1>18, <1>20, <2>1, <3>1, <3>2
    <3>7. /\ Sound(virt, D, e) /\ Piece(virt, D, B, a + n, f, z) /\ Piece(virt, D, B0, v, f0, z0)
          /\ B = {} <=> Q = {}
          /\ \A k \in DOMAIN virt : k = a + n => k \in B
      BY <3>3, <3>6, UpperIs
    <3> QED
      BY <3>1, <3>2, <3>7
<1>22. CASE room.slot = {} /\ phys' = cuts /\ virt' = virt /\ data' = data
  BY <1>21, <1>22
<1>23. CASE phys' = phys /\ virt' = virt /\ data' = data
  BY <1>23
<1>24. CASE room.slot # {} /\ slot \in DOMAIN frees /\ Settle(vt, ph, Cleared(copy, at, n))
  <2>1. slot \in room.slot
    BY <1>9, <1>24
  <2>2. ls \in Nat /\ hs \in Nat /\ lf \in Nat /\ hf \in Nat
    BY <1>18, <1>21 DEF Piece
  <2>3. total \in Nat /\ total > 0 /\ total = ls + n + hs
    BY <1>9, <2>2
  <2>4. room = Allocate(cuts, ls + n + hs, n)
    BY <1>9
  <2>5. frees = Freed(Freed(PhysCut(room.phys, slot + (ls + n + hs)), U, hf), L, lf)
    BY <1>10, <2>3
  <2>6. PICK growth : growth = room.growth
    OBVIOUS
  <2>7. PICK E : E = e + growth
    OBVIOUS
  <2>8. growth \in Nat /\ Sound(virt, room.phys, E) /\ slot \in DOMAIN room.phys
    BY <1>9, <1>21, <2>1, <2>3, <2>6, <2>7, AllocateSound
  <2>9. slot \in Nat
    BY <2>8 DEF Sound, TiledTo
  <2>10. MovedTo(virt, moved, L, v, U, a + n, slot, slot + ls + n)
    <3>1. IsMap(moved) /\ DOMAIN moved = DOMAIN virt
      BY <1>12 DEF IsMap
    <3>2. ASSUME NEW s \in DOMAIN virt
          PROVE  /\ moved[s] \in [physical : Nat, size : Nat, usage : SUBSET Rights]
                 /\ moved[s].size = virt[s].size /\ moved[s].usage = virt[s].usage
                 /\ s \in L => moved[s].physical = slot + (s - v)
                 /\ s \in U => moved[s].physical = slot + ls + n + (s - (a + n))
                 /\ s \notin L /\ s \notin U => moved[s].physical = virt[s].physical
      <4>1. PICK r \in [physical : Nat, size : Nat, usage : SUBSET Rights] : r = virt[s]
        BY <1>17 DEF Laid
      <4>2. s \in Nat /\ EndOf(virt, s) \in Nat /\ s < EndOf(virt, s)
        BY <1>17, LaidSlot
      <4>3. moved[s] = (CASE s \in L -> [r EXCEPT !.physical = slot + (@ - lf)]
                          [] s \in U -> [r EXCEPT !.physical = at + n + (@ - hf)]
                          [] OTHER -> r)
        BY <1>12, <4>1
      <4>4. s \in L => v <= s /\ EndOf(virt, s) <= a /\ r.physical = lf + (s - v)
        BY <1>20, <1>21, <4>1 DEF Piece
      <4>5. s \in U => a + n <= s /\ r.physical = hf + (s - (a + n))
        BY <1>21, <4>1 DEF Piece
      <4>6. CASE s \in L
        <5>1. s \notin U
          BY <4>2, <4>4, <4>5, <4>6
        <5>2. moved[s] = [r EXCEPT !.physical = slot + (@ - lf)]
          BY <4>3, <4>6, <5>1
        <5>3. slot + (r.physical - lf) = slot + (s - v) /\ slot + (s - v) \in Nat
          BY <1>20, <2>2, <2>9, <4>2, <4>4, <4>6
        <5> QED
          BY <4>1, <4>6, <5>1, <5>2, <5>3
      <4>7. CASE s \in U
        <5>1. s \notin L
          BY <4>2, <4>4, <4>5, <4>7
        <5>2. moved[s] = [r EXCEPT !.physical = at + n + (@ - hf)]
          BY <4>3, <4>7, <5>1
        <5>3. at = slot + ls
          BY <1>11
        <5>4. /\ at + n + (r.physical - hf) = slot + ls + n + (s - (a + n))
              /\ at + n + (r.physical - hf) \in Nat
          BY <2>2, <2>9, <4>2, <4>5, <4>7, <5>3
        <5> QED
          BY <4>1, <4>7, <5>1, <5>2, <5>4
      <4>8. CASE s \notin L /\ s \notin U
        BY <4>1, <4>3, <4>8
      <4> QED
        BY <4>6, <4>7, <4>8
    <3>3. \A s : s \in DOMAIN moved <=> s \in DOMAIN virt
      BY <3>1
    <3> QED
      BY <3>1, <3>2, <3>3 DEF MovedTo
  <2>11. /\ slot + (ls + n + hs) <= E
         /\ \A j \in DOMAIN virt : PhysEnd(virt[j]) <= slot \/ slot + (ls + n + hs) <= virt[j].physical
         /\ Sound(moved, ph, E) /\ Room(moved, ph, a, n, at)
    <3>1. PICK C, B, f, z, D, g, y : C = cuts /\ B = L /\ f = lf /\ z = ls /\ D = U /\ g = hf /\ y = hs
      OBVIOUS
    <3>2. PICK r, k, fr, R, x : r = room /\ k = slot /\ fr = frees /\ R = moved /\ x = ph
      OBVIOUS
    <3>3. Chosen(C, B, f, z, D, g, y, n, growth, k, fr)
      <4>1. r = Allocate(C, z + n + y, n) /\ growth = r.growth /\ k \in r.slot /\ k \in DOMAIN fr
        BY <1>24, <2>1, <2>4, <2>6, <3>1, <3>2
      <4>2. fr = Freed(Freed(PhysCut(r.phys, k + (z + n + y)), D, g), B, f)
        BY <2>5, <3>1, <3>2
      <4> QED
        BY <4>1, <4>2 DEF Chosen
    <3>4. Sound(virt, C, e) /\ Piece(virt, C, B, v, f, z) /\ Piece(virt, C, D, a + n, g, y)
      BY <1>21, <3>1
    <3>5. Around(virt, a, a + n, B, D)
      BY <1>18, <1>21, <3>1 DEF Around
    <3>6. MovedTo(virt, R, B, v, D, a + n, k, k + z + n) /\ v + z = a
      BY <1>20, <2>10, <3>1, <3>2
    <3>7. /\ growth \in Nat /\ k \in Nat /\ k + (z + n + y) <= e + growth
          /\ \A j \in DOMAIN virt : PhysEnd(virt[j]) <= k \/ k + (z + n + y) <= virt[j].physical
          /\ Sound(R, Assign(fr, k, 1), e + growth)
          /\ Room(R, Assign(fr, k, 1), a, n, k + z)
      BY <3>3, <3>4, <3>5, <3>6, MoveIs
    <3>8. x = Assign(fr, k, 1) /\ at = k + z
      BY <1>11, <3>1, <3>2
    <3> QED
      BY <2>7, <3>1, <3>2, <3>7, <3>8
  <2>12. new = Added(moved, a, n, at, u)
    BY <1>13, Zenon DEF Added, Slot
  <2>13. /\ Sound(new, ph, E) /\ NewPages(moved, new, a, n, at, u)
         /\ \A j : j \in DOMAIN moved => j \in DOMAIN new
    BY <2>11, <2>12, AddedIs
  <2>14. Sound(vt, ph, E) /\ NewPages(moved, vt, a, n, at, u)
    <3>1. CASE U = {}
      BY <1>14, <2>13, <3>1
    <3>2. CASE U # {}
      <4>1. vt = VirtMergePrev(new, a + n)
        BY <1>14, <3>2
      <4>2. a + n \in DOMAIN virt
        BY <1>2, <1>21, <3>2
      <4>3. a + n \in DOMAIN new
        BY <2>10, <2>13, <4>2 DEF MovedTo
      <4>4. Sound(vt, ph, E) /\ SamePages(new, vt)
        BY <2>13, <4>1, <4>3, MergedIs
      <4> QED
        BY <2>13, <4>4, NewPagesTrans
    <3> QED
      BY <3>1, <3>2
  <2>15. PICK top \in DOMAIN vt : TRUE
    <3>1. a <= a /\ a < a + n
      OBVIOUS
    <3>2. Holds(vt, a)
      BY <2>14, <3>1 DEF NewPages
    <3> QED
      BY <3>2, HoldsSlot
  <2>16. Settle(vt, ph, Cleared(copy, at, n))
    BY <1>24
  <2>17. PICK m \in Nat : /\ m < E /\ Sound(virt', phys', E - m) /\ Lowered(vt, virt', m)
                          /\ data' = Moved(Cleared(copy, at, n), 0, m, IF m > 0 THEN E - m ELSE 0)
    BY <2>14, <2>15, <2>16, SettleKeeps
  <2>18. Cleared(copy, at, n) =
            Cleared(Moved(Moved(Expanded(data, growth), slot + ls + n, hf, hs), slot, lf, ls), slot + ls, n)
    BY <1>11, <1>15, <2>6, Zenon
  <2>19. data' = Moved(Cleared(Moved(Moved(Expanded(data, growth), slot + ls + n, hf, hs), slot, lf, ls),
                               slot + ls, n),
                       0, m, IF m > 0 THEN e + growth - m ELSE 0)
    <3>1. PICK len : len = IF m > 0 THEN E - m ELSE 0
      OBVIOUS
    <3>2. len = IF m > 0 THEN e + growth - m ELSE 0
      <4>1. e \in Nat /\ growth \in Nat /\ m \in Nat
        BY <2>8, <2>17 DEF Sound, TiledTo
      <4>2. e + growth - m = E - m
        BY <2>7, <4>1
      <4> QED
        BY <3>1, <4>2
    <3>3. data' = Moved(Cleared(copy, at, n), 0, m, len)
      BY <2>17, <3>1, Zenon
    <3> QED
      BY <2>18, <3>2, <3>3, Zenon
  <2>20. Ordered(moved) /\ Ordered(vt)
    BY <2>11, <2>14 DEF Sound, Laid
  <2>21. NewPages(moved, vt, a, n, slot + ls, u)
    BY <1>11, <2>14
  <2>22. Relocation(e, a, n, u, cuts, L, v, lf, ls, U, hf, hs, growth, slot, moved, vt, ph, m)
    <3>1. E = e + growth
      BY <2>7
    <3>2. slot + (ls + n + hs) <= e + growth /\ Sound(vt, ph, e + growth)
      BY <2>11, <2>14, <3>1
    <3>3. m < e + growth /\ Sound(virt', phys', e + growth - m)
      <4>1. e \in Nat /\ growth \in Nat /\ m \in Nat
        BY <2>8, <2>17 DEF Sound, TiledTo
      <4>2. e + growth - m = E - m
        BY <3>1, <4>1
      <4> QED
        BY <2>17, <3>1, <4>1, <4>2
    <3>4. \A j \in DOMAIN virt : PhysEnd(virt[j]) <= slot \/ slot + (ls + n + hs) <= virt[j].physical
      BY <2>11
    <3>5. TiledTo(cuts, e)
      BY <1>21 DEF Sound
    <3>6. ls > 0 => lf + ls <= e
      BY <1>21, <3>5, PieceEnds
    <3>7. hs > 0 => hf + hs <= e
      BY <1>20, <1>21, <3>5, PieceEnds
    <3> QED
      BY <1>20, <1>21, <2>8, <2>9, <2>10, <2>17, <2>19, <2>20, <2>21, <3>2, <3>3, <3>4, <3>6, <3>7 DEF Relocation
  <2> QED
    BY <2>22
<1> QED
  BY <1>16, <1>22, <1>23, <1>24

\* Pages lie in the memory, apart from each other, and neighbors next to each other.
LEMMA PlacesAre ==
    ASSUME NEW vt, NEW ph, NEW e, Sound(vt, ph, e)
    PROVE  /\ \A p \in Int : Holds(vt, p) =>
                /\ p \in Nat /\ p < PageCount /\ UsageIn(vt, p) \in SUBSET Rights
                /\ PlaceIn(vt, p) \in Nat /\ PlaceIn(vt, p) < e
                /\ LiesIn(ph, PlaceIn(vt, p), PlaceIn(vt, p) + 1, 1)
           /\ \A p, q \in Int : Holds(vt, p) /\ Holds(vt, q) /\ p # q => PlaceIn(vt, p) # PlaceIn(vt, q)
           /\ \A p \in Int : Holds(vt, p) /\ Holds(vt, p + 1) => PlaceIn(vt, p + 1) = PlaceIn(vt, p) + 1
<1>1. /\ Laid(vt) /\ Ordered(vt) /\ TiledTo(ph, e) /\ Backing(vt, ph)
  BY DEF Sound, Laid
<1>2. ASSUME NEW p \in Int, Holds(vt, p)
      PROVE  \E k \in DOMAIN vt : /\ k <= p /\ p < EndOf(vt, k) /\ UsageIn(vt, p) = vt[k].usage
                                  /\ PlaceIn(vt, p) = vt[k].physical + (p - k)
                                  /\ vt[k].physical <= PlaceIn(vt, p) /\ PlaceIn(vt, p) < PhysEnd(vt[k])
                                  /\ PlaceIn(vt, p) \in Nat
  <2>1. PICK k \in DOMAIN vt : k <= p /\ p < EndOf(vt, k)
    BY <1>2, HoldsIs
  <2>2. UsageIn(vt, p) = vt[k].usage /\ PlaceIn(vt, p) = vt[k].physical + (p - k)
    BY <1>1, <2>1, PageIn
  <2>3. /\ k \in Nat /\ vt[k].physical \in Nat /\ vt[k].size \in Nat
        /\ EndOf(vt, k) = k + vt[k].size /\ PhysEnd(vt[k]) = vt[k].physical + vt[k].size
    BY <1>1, LaidSlot
  <2> QED
    BY <2>1, <2>2, <2>3
<1>3. ASSUME NEW p \in Int, Holds(vt, p)
      PROVE  /\ p \in Nat /\ p < PageCount /\ UsageIn(vt, p) \in SUBSET Rights
             /\ PlaceIn(vt, p) \in Nat /\ PlaceIn(vt, p) < e
             /\ LiesIn(ph, PlaceIn(vt, p), PlaceIn(vt, p) + 1, 1)
  <2>1. PICK k \in DOMAIN vt : /\ k <= p /\ p < EndOf(vt, k) /\ UsageIn(vt, p) = vt[k].usage
                               /\ vt[k].physical <= PlaceIn(vt, p) /\ PlaceIn(vt, p) < PhysEnd(vt[k])
                               /\ PlaceIn(vt, p) \in Nat
    BY <1>2, <1>3
  <2>2. /\ k \in Nat /\ EndOf(vt, k) \in Nat /\ EndOf(vt, k) <= PageCount /\ vt[k].usage \in SUBSET Rights
        /\ vt[k].physical \in Nat /\ PhysEnd(vt[k]) \in Nat
    BY <1>1, LaidSlot
  <2>3. PICK j \in DOMAIN ph : ph[j].users = 1 /\ j <= vt[k].physical /\ PhysEnd(vt[k]) <= EndOf(ph, j)
    BY <1>1 DEF Backing, LiesIn
  <2>4. j \in Nat /\ EndOf(ph, j) \in Nat /\ EndOf(ph, j) <= e /\ e \in Nat
    BY <1>1, NextIs DEF TiledTo
  <2>5. PICK q \in Nat : q = PlaceIn(vt, p)
    BY <2>1
  <2>6. j <= q /\ q + 1 <= EndOf(ph, j)
    BY <2>1, <2>2, <2>3, <2>4, <2>5
  <2>7. LiesIn(ph, q, q + 1, 1)
    BY <2>3, <2>6 DEF LiesIn
  <2>8. p < PageCount /\ q < e
    BY <2>1, <2>2, <2>4, <2>6, MemoryAssumption
  <2> QED
    BY <2>1, <2>2, <2>5, <2>7, <2>8
<1>4. ASSUME NEW p \in Int, NEW q \in Int, Holds(vt, p), Holds(vt, q), p # q
      PROVE  PlaceIn(vt, p) # PlaceIn(vt, q)
  <2>1. PICK j \in DOMAIN vt : /\ PlaceIn(vt, p) = vt[j].physical + (p - j)
                               /\ vt[j].physical <= PlaceIn(vt, p) /\ PlaceIn(vt, p) < PhysEnd(vt[j])
                               /\ PlaceIn(vt, p) \in Nat
    BY <1>2, <1>4
  <2>2. PICK k \in DOMAIN vt : /\ PlaceIn(vt, q) = vt[k].physical + (q - k)
                               /\ vt[k].physical <= PlaceIn(vt, q) /\ PlaceIn(vt, q) < PhysEnd(vt[k])
                               /\ PlaceIn(vt, q) \in Nat
    BY <1>2, <1>4
  <2>3. /\ j \in Nat /\ vt[j].physical \in Nat /\ PhysEnd(vt[j]) \in Nat
        /\ k \in Nat /\ vt[k].physical \in Nat /\ PhysEnd(vt[k]) \in Nat
    BY <1>1, LaidSlot
  <2>4. CASE j = k
    BY <1>4, <2>1, <2>2, <2>3, <2>4
  <2>5. CASE j # k
    <3>1. PhysEnd(vt[j]) <= vt[k].physical \/ PhysEnd(vt[k]) <= vt[j].physical
      BY <1>1, <2>5 DEF Backing
    <3> QED
      BY <2>1, <2>2, <2>3, <3>1
  <2> QED
    BY <2>4, <2>5
<1>5. ASSUME NEW p \in Int, Holds(vt, p), Holds(vt, p + 1)
      PROVE  PlaceIn(vt, p + 1) = PlaceIn(vt, p) + 1
  <2>1. PICK q \in Int : q = p + 1
    OBVIOUS
  <2>2. PICK j \in DOMAIN vt : /\ j <= p /\ p < EndOf(vt, j)
                               /\ PlaceIn(vt, p) = vt[j].physical + (p - j)
    BY <1>2, <1>5
  <2>3. PICK k \in DOMAIN vt : /\ k <= q /\ q < EndOf(vt, k)
                               /\ PlaceIn(vt, q) = vt[k].physical + (q - k)
    BY <1>2, <1>5, <2>1
  <2>4. /\ j \in Nat /\ vt[j].physical \in Nat /\ PhysEnd(vt[j]) \in Nat /\ EndOf(vt, j) \in Nat
        /\ k \in Nat /\ vt[k].physical \in Nat /\ PhysEnd(vt[k]) \in Nat /\ EndOf(vt, k) \in Nat
        /\ EndOf(vt, j) = j + vt[j].size /\ PhysEnd(vt[j]) = vt[j].physical + vt[j].size /\ vt[j].size \in Nat
    BY <1>1, LaidSlot
  <2>5. CASE j = k
    BY <2>1, <2>2, <2>3, <2>4, <2>5
  <2>6. CASE j # k
    <3>1. j < k => EndOf(vt, j) <= k
      BY <1>1 DEF Ordered
    <3>2. k < j => EndOf(vt, k) <= j
      BY <1>1 DEF Ordered
    <3>3. EndOf(vt, j) = k /\ k = q
      <4>1. PICK x \in Nat, y \in Nat : x = EndOf(vt, j) /\ y = EndOf(vt, k)
        BY <2>4
      <4>2. /\ j <= p /\ p < x /\ k <= p + 1 /\ p + 1 < y
            /\ j < k => x <= k
            /\ k < j => y <= j
        BY <2>1, <2>2, <2>3, <3>1, <3>2, <4>1
      <4>3. j \in Nat /\ k \in Nat
        BY <2>4
      <4> QED
        BY <2>1, <2>6, <4>1, <4>2, <4>3
    <3>4. PhysEnd(vt[j]) = vt[k].physical
      BY <1>1, <3>3 DEF Backing
    <3> QED
      BY <2>1, <2>2, <2>3, <2>4, <3>3, <3>4
  <2> QED
    BY <2>5, <2>6
<1> QED
  BY <1>3, <1>4, <1>5

\* The guest finds the same contents, with the same usages.
SameContents(vt, d, R, c) ==
    \A p \in Int : /\ Holds(R, p) <=> Holds(vt, p)
                   /\ Holds(vt, p) => UsageIn(R, p) = UsageIn(vt, p) /\ c[PlaceIn(R, p)] = d[PlaceIn(vt, p)]

\* It finds new pages, which are empty, and otherwise what it found before.
NewContents(vt, d, R, c, a, n, u) ==
    \A p \in Int :
        /\ a <= p /\ p < a + n => Holds(R, p) /\ UsageIn(R, p) = u /\ c[PlaceIn(R, p)] = 0
        /\ p < a \/ a + n <= p => /\ Holds(R, p) <=> Holds(vt, p)
                                  /\ Holds(vt, p) => /\ UsageIn(R, p) = UsageIn(vt, p)
                                                     /\ c[PlaceIn(R, p)] = d[PlaceIn(vt, p)]

\* What came before new pages, or comes after them, may leave the contents alone.
LEMMA ContentsTrans ==
    ASSUME NEW vt, NEW d, NEW m, NEW dm, NEW k, NEW dk, NEW R, NEW c, NEW a \in Nat, NEW n \in Nat, NEW u,
           SameContents(vt, d, m, dm), NewContents(m, dm, k, dk, a, n, u), SameContents(k, dk, R, c)
    PROVE  NewContents(vt, d, R, c, a, n, u)
<1>1. ASSUME NEW p \in Int
      PROVE  /\ a <= p /\ p < a + n => Holds(R, p) /\ UsageIn(R, p) = u /\ c[PlaceIn(R, p)] = 0
             /\ p < a \/ a + n <= p => /\ Holds(R, p) <=> Holds(vt, p)
                                       /\ Holds(vt, p) => /\ UsageIn(R, p) = UsageIn(vt, p)
                                                          /\ c[PlaceIn(R, p)] = d[PlaceIn(vt, p)]
  <2>1. /\ Holds(m, p) <=> Holds(vt, p)
        /\ Holds(vt, p) => UsageIn(m, p) = UsageIn(vt, p) /\ dm[PlaceIn(m, p)] = d[PlaceIn(vt, p)]
    BY DEF SameContents
  <2>2. /\ Holds(R, p) <=> Holds(k, p)
        /\ Holds(k, p) => UsageIn(R, p) = UsageIn(k, p) /\ c[PlaceIn(R, p)] = dk[PlaceIn(k, p)]
    BY DEF SameContents
  <2>3. /\ a <= p /\ p < a + n => Holds(k, p) /\ UsageIn(k, p) = u /\ dk[PlaceIn(k, p)] = 0
        /\ p < a \/ a + n <= p => /\ Holds(k, p) <=> Holds(m, p)
                                  /\ Holds(m, p) => /\ UsageIn(k, p) = UsageIn(m, p)
                                                    /\ dk[PlaceIn(k, p)] = dm[PlaceIn(m, p)]
    BY DEF NewContents
  <2> QED
    BY <2>1, <2>2, <2>3
<1> QED
  BY <1>1 DEF NewContents

\* Nothing changes where nothing changes.
LEMMA SameContentsRefl ==
    ASSUME NEW vt, NEW d
    PROVE  SameContents(vt, d, vt, d)
BY DEF SameContents

\* A larger memory holds the same.
LEMMA ExpandedSame ==
    ASSUME NEW vt, NEW ph, NEW e, Sound(vt, ph, e), NEW d, NEW N \in Nat, Sized(d, N), e <= N, NEW g \in Nat
    PROVE  SameContents(vt, d, vt, Expanded(d, g)) /\ Sized(Expanded(d, g), N + g)
<1>1. DOMAIN d = 0 .. N - 1
  BY DEF Sized
<1>2. Cardinality(DOMAIN d) = N
  <2>1. Cardinality(0 .. N - 1) = N
    BY FS_Interval
  <2> QED
    BY <1>1, <2>1
<1>3. PICK c : c = Expanded(d, g)
  OBVIOUS
<1>4. c = [q \in 0 .. N + g - 1 |-> IF q \in DOMAIN d THEN d[q] ELSE 0]
  BY <1>2, <1>3 DEF Expanded
<1>5. Sized(c, N + g)
  BY <1>4 DEF Sized
<1>6. ASSUME NEW p \in Int, Holds(vt, p)
      PROVE  c[PlaceIn(vt, p)] = d[PlaceIn(vt, p)]
  <2>1. PICK q \in Nat : q = PlaceIn(vt, p) /\ q < e
    BY <1>6, PlacesAre
  <2>2. e \in Nat
    BY DEF Sound, TiledTo
  <2>3. q \in 0 .. N + g - 1 /\ q \in DOMAIN d
    BY <1>1, <2>1, <2>2
  <2> QED
    BY <1>4, <2>1, <2>3
<1> QED
  BY <1>3, <1>5, <1>6 DEF SameContents

\* New pages are cleared, and no other.
LEMMA ClearedNew ==
    ASSUME NEW vt, NEW R, NEW ph, NEW e, Sound(R, ph, e), NEW d, NEW N \in Nat, Sized(d, N), e <= N,
           NEW a \in Nat, NEW n \in Nat, NEW q \in Nat, NEW u, NewPages(vt, R, a, n, q, u)
    PROVE  NewContents(vt, d, R, Cleared(d, q, n), a, n, u) /\ Sized(Cleared(d, q, n), N)
<1>1. PICK c : c = Cleared(d, q, n)
  OBVIOUS
<1>2. c = [x \in 0 .. N - 1 |-> IF x \in q .. q + n - 1 THEN 0 ELSE d[x]]
  BY <1>1 DEF Sized, Cleared
<1>3. Sized(c, N)
  BY <1>2 DEF Sized
<1>4. e \in Nat
  BY DEF Sound, TiledTo
<1>5. ASSUME NEW p \in Int, a <= p, p < a + n
      PROVE  Holds(R, p) /\ UsageIn(R, p) = u /\ c[PlaceIn(R, p)] = 0
  <2>1. Holds(R, p) /\ UsageIn(R, p) = u /\ PlaceIn(R, p) = q + (p - a)
    BY <1>5 DEF NewPages
  <2>2. PICK x \in Nat : x = PlaceIn(R, p) /\ x < e
    BY <2>1, PlacesAre
  <2>3. x \in 0 .. N - 1 /\ x \in q .. q + n - 1
    BY <1>4, <1>5, <2>1, <2>2
  <2> QED
    BY <1>2, <2>1, <2>2, <2>3
<1>6. ASSUME NEW p \in Int, p < a \/ a + n <= p
      PROVE  /\ Holds(R, p) <=> Holds(vt, p)
             /\ Holds(vt, p) => /\ UsageIn(R, p) = UsageIn(vt, p)
                                /\ c[PlaceIn(R, p)] = d[PlaceIn(vt, p)]
  <2>1. /\ Holds(R, p) <=> Holds(vt, p)
        /\ Holds(vt, p) => UsageIn(R, p) = UsageIn(vt, p) /\ PlaceIn(R, p) = PlaceIn(vt, p)
    BY <1>6 DEF NewPages
  <2>2. ASSUME Holds(vt, p)
        PROVE  c[PlaceIn(R, p)] = d[PlaceIn(vt, p)]
    <3>1. PICK x \in Nat : x = PlaceIn(R, p) /\ x < e
      BY <2>1, <2>2, PlacesAre
    <3>2. x \notin q .. q + n - 1
      <4>1. ASSUME x \in q .. q + n - 1
            PROVE  FALSE
        <5>1. PICK y \in Int : y = a + (x - q)
          OBVIOUS
        <5>2. a <= y /\ y < a + n /\ q + (y - a) = x
          BY <4>1, <5>1
        <5>3. Holds(R, y) /\ PlaceIn(R, y) = x
          BY <5>2 DEF NewPages
        <5>4. y # p
          BY <1>6, <5>2
        <5> QED
          BY <2>1, <2>2, <3>1, <5>3, <5>4, PlacesAre
      <4> QED
        BY <4>1
    <3>3. x \in 0 .. N - 1
      BY <1>4, <3>1
    <3> QED
      BY <1>2, <2>1, <2>2, <3>1, <3>2, <3>3
  <2> QED
    BY <2>1, <2>2
<1> QED
  BY <1>1, <1>3, <1>5, <1>6 DEF NewContents

\* The contents of the neighbors follow them.
LEMMA MovedSame ==
    ASSUME NEW vt, NEW ph, NEW e, Sound(vt, ph, e), NEW d, NEW N \in Nat, Sized(d, N), e <= N,
           NEW L, NEW v, NEW lf, NEW ls, NEW U, NEW w \in Nat, NEW n \in Nat, NEW hf, NEW hs, NEW X,
           Piece(vt, X, L, v, lf, ls), Piece(vt, X, U, w, hf, hs), v + ls <= w,
           NEW slot \in Nat, slot + (ls + n + hs) <= N,
           \A j \in DOMAIN vt : PhysEnd(vt[j]) <= slot \/ slot + (ls + n + hs) <= vt[j].physical,
           NEW R, Ordered(R), MovedTo(vt, R, L, v, U, w, slot, slot + ls + n)
    PROVE  /\ SameContents(vt, d, R, Moved(Moved(d, slot + ls + n, hf, hs), slot, lf, ls))
           /\ Sized(Moved(Moved(d, slot + ls + n, hf, hs), slot, lf, ls), N)
<1>1. /\ Laid(vt) /\ v \in Nat /\ lf \in Nat /\ ls \in Nat /\ hf \in Nat /\ hs \in Nat /\ e \in Nat
  BY DEF Sound, Piece, TiledTo
<1>2. PICK at \in Nat : at = slot + ls + n
  BY <1>1
<1>3. PICK b : b = Moved(d, at, hf, hs)
  OBVIOUS
<1>4. PICK c : c = Moved(b, slot, lf, ls)
  OBVIOUS
<1>5. b = [q \in 0 .. N - 1 |-> IF q \in at .. at + hs - 1 THEN d[hf + (q - at)] ELSE d[q]]
  BY <1>3 DEF Moved, Sized
<1>6. c = [q \in 0 .. N - 1 |-> IF q \in slot .. slot + ls - 1 THEN b[lf + (q - slot)] ELSE b[q]]
  BY <1>4, <1>5 DEF Moved
<1>7. Sized(c, N)
  BY <1>6 DEF Sized
<1>8. ASSUME NEW p \in Int
      PROVE  /\ Holds(R, p) <=> Holds(vt, p)
             /\ Holds(vt, p) => UsageIn(R, p) = UsageIn(vt, p) /\ c[PlaceIn(R, p)] = d[PlaceIn(vt, p)]
  <2>1. MovedTo(vt, R, L, v, U, w, slot, at)
    BY <1>2
  <2>2. /\ Holds(R, p) <=> Holds(vt, p)
        /\ Holds(vt, p) =>
            /\ UsageIn(R, p) = UsageIn(vt, p)
            /\ \/ /\ v <= p /\ p < v + ls
                  /\ PlaceIn(vt, p) = lf + (p - v) /\ PlaceIn(R, p) = slot + (p - v)
               \/ /\ w <= p /\ p < w + hs
                  /\ PlaceIn(vt, p) = hf + (p - w) /\ PlaceIn(R, p) = at + (p - w)
               \/ \E k \in DOMAIN vt : /\ k \notin L /\ k \notin U /\ k <= p /\ p < EndOf(vt, k)
                                       /\ PlaceIn(vt, p) = vt[k].physical + (p - k)
                                       /\ PlaceIn(R, p) = PlaceIn(vt, p)
    BY <1>1, <2>1, MovedPages
  <2>3. ASSUME Holds(vt, p)
        PROVE  c[PlaceIn(R, p)] = d[PlaceIn(vt, p)]
    <3>1. PICK x \in Nat : x = PlaceIn(vt, p) /\ x < e
      BY <2>3, PlacesAre
    <3>2. x < slot \/ slot + (ls + n + hs) <= x
      <4>1. PICK k \in DOMAIN vt : k <= p /\ p < EndOf(vt, k)
        BY <2>3, HoldsIs
      <4>2. x = vt[k].physical + (p - k)
        BY <1>1, <3>1, <4>1, PageIn DEF Laid
      <4>3. /\ k \in Nat /\ vt[k].physical \in Nat /\ vt[k].size \in Nat
            /\ EndOf(vt, k) = k + vt[k].size /\ PhysEnd(vt[k]) = vt[k].physical + vt[k].size
        BY <1>1, LaidSlot
      <4>4. PhysEnd(vt[k]) <= slot \/ slot + (ls + n + hs) <= vt[k].physical
        OBVIOUS
      <4> QED
        BY <1>1, <4>1, <4>2, <4>3, <4>4
    <3>3. x \in 0 .. N - 1 /\ x \notin at .. at + hs - 1 /\ x \notin slot .. slot + ls - 1
      BY <1>1, <1>2, <3>1, <3>2
    <3>4. b[x] = d[x]
      BY <1>5, <3>3
    <3>5. CASE v <= p /\ p < v + ls /\ x = lf + (p - v) /\ PlaceIn(R, p) = slot + (p - v)
      <4>1. PICK y \in Nat : y = slot + (p - v)
        BY <1>1, <3>5
      <4>2. y \in 0 .. N - 1 /\ y \in slot .. slot + ls - 1 /\ lf + (y - slot) = x
        BY <1>1, <3>5, <4>1
      <4>3. c[y] = b[x]
        BY <1>6, <4>2
      <4> QED
        BY <3>1, <3>4, <3>5, <4>1, <4>3
    <3>6. CASE w <= p /\ p < w + hs /\ x = hf + (p - w) /\ PlaceIn(R, p) = at + (p - w)
      <4>1. PICK y \in Nat : y = at + (p - w)
        BY <1>1, <3>6
      <4>2. /\ y \in 0 .. N - 1 /\ y \notin slot .. slot + ls - 1 /\ y \in at .. at + hs - 1
            /\ hf + (y - at) = x
        BY <1>1, <1>2, <3>6, <4>1
      <4>3. c[y] = b[y] /\ b[y] = d[x]
        BY <1>5, <1>6, <4>2
      <4> QED
        BY <3>1, <3>6, <4>1, <4>3
    <3>7. CASE PlaceIn(R, p) = x
      <4>1. c[x] = b[x]
        BY <1>6, <3>3
      <4> QED
        BY <3>1, <3>4, <3>7, <4>1
    <3> QED
      BY <2>2, <2>3, <3>1, <3>5, <3>6, <3>7
  <2> QED
    BY <2>2, <2>3
<1>9. SameContents(vt, d, R, c)
  BY <1>8 DEF SameContents
<1> QED
  BY <1>2, <1>3, <1>4, <1>7, <1>9

\* The contents follow what is moved down.
LEMMA LoweredSame ==
    ASSUME NEW vt, NEW ph, NEW e, Sound(vt, ph, e), NEW d, NEW N \in Nat, Sized(d, N), e <= N,
           NEW m \in Nat, m < e, NEW R, Lowered(vt, R, m), NEW low, Sound(R, low, e - m)
    PROVE  /\ SameContents(vt, d, R, Moved(d, 0, m, IF m > 0 THEN e - m ELSE 0))
           /\ Sized(Moved(d, 0, m, IF m > 0 THEN e - m ELSE 0), N)
<1>1. Laid(vt) /\ Laid(R) /\ e \in Nat
  BY DEF Sound, TiledTo
<1>2. PICK len \in Nat : len = IF m > 0 THEN e - m ELSE 0
  BY <1>1
<1>3. PICK c : c = Moved(d, 0, m, len)
  OBVIOUS
<1>4. c = [q \in 0 .. N - 1 |-> IF q \in 0 .. 0 + len - 1 THEN d[m + (q - 0)] ELSE d[q]]
  BY <1>3 DEF Moved, Sized
<1>5. Sized(c, N)
  BY <1>4 DEF Sized
<1>6. \A k : k \in DOMAIN R <=> k \in DOMAIN vt
  BY DEF Lowered
<1>7. \A k \in DOMAIN vt : EndOf(R, k) = EndOf(vt, k)
  BY DEF Lowered, EndOf
<1>8. ASSUME NEW p \in Int
      PROVE  /\ Holds(R, p) <=> Holds(vt, p)
             /\ Holds(vt, p) => UsageIn(R, p) = UsageIn(vt, p) /\ c[PlaceIn(R, p)] = d[PlaceIn(vt, p)]
  <2>1. Holds(R, p) <=> Holds(vt, p)
    BY <1>6, <1>7, HoldsIs
  <2>2. ASSUME Holds(vt, p)
        PROVE  UsageIn(R, p) = UsageIn(vt, p) /\ c[PlaceIn(R, p)] = d[PlaceIn(vt, p)]
    <3>1. PICK k \in DOMAIN vt : k <= p /\ p < EndOf(vt, k)
      BY <2>2, HoldsIs
    <3>2. UsageIn(vt, p) = vt[k].usage /\ PlaceIn(vt, p) = vt[k].physical + (p - k)
      BY <1>1, <3>1, PageIn DEF Laid
    <3>3. k \in DOMAIN R /\ p < EndOf(R, k)
      BY <1>6, <1>7, <3>1
    <3>4. UsageIn(R, p) = R[k].usage /\ PlaceIn(R, p) = R[k].physical + (p - k)
      BY <1>1, <3>1, <3>3, PageIn DEF Laid
    <3>5. R[k].usage = vt[k].usage /\ R[k].physical = vt[k].physical - m /\ vt[k].physical \in Nat /\ k \in Nat
      BY <1>1, LaidSlot DEF Lowered
    <3>6. PICK x \in Nat : x = PlaceIn(vt, p) /\ x < e
      BY <2>2, PlacesAre
    <3>7. PICK y \in Nat : y = PlaceIn(R, p) /\ y < e - m
      BY <2>1, <2>2, PlacesAre
    <3>8. y = x - m
      BY <3>2, <3>4, <3>5, <3>6, <3>7
    <3>9. y \in 0 .. N - 1 /\ m + (y - 0) = x
      BY <1>1, <3>6, <3>7, <3>8
    <3>10. m > 0 => y \in 0 .. 0 + len - 1
      BY <1>1, <1>2, <3>7
    <3>11. m = 0 => y = x
      BY <3>8
    <3>12. c[y] = d[x]
      BY <1>4, <3>9, <3>10, <3>11
    <3> QED
      BY <3>2, <3>4, <3>5, <3>6, <3>7, <3>12
  <2> QED
    BY <2>1, <2>2
<1>9. SameContents(vt, d, R, c)
  BY <1>8 DEF SameContents
<1> QED
  BY <1>2, <1>3, <1>5, <1>9

\* What leaves the contents alone twice leaves them alone.
LEMMA SameContentsTrans ==
    ASSUME NEW vt, NEW d, NEW m, NEW dm, NEW R, NEW c,
           SameContents(vt, d, m, dm), SameContents(m, dm, R, c)
    PROVE  SameContents(vt, d, R, c)
BY DEF SameContents

\* the memory holds what was written, or zero
Valued(d) == \A q \in DOMAIN d : d[q] \in Values \union {0}

\* It does so however it is enlarged, cleared and moved within.
LEMMA ValuesKept ==
    ASSUME NEW d, Valued(d), NEW N \in Nat, Sized(d, N)
    PROVE  /\ \A g \in Nat : Valued(Expanded(d, g))
           /\ \A q, n \in Nat : Valued(Cleared(d, q, n))
           /\ \A dest, source, n \in Nat : (n > 0 => source + n <= N) =>
                    Valued(Moved(d, dest, source, n)) /\ Sized(Moved(d, dest, source, n), N)
<1>1. \A q \in 0 .. N - 1 : d[q] \in Values \union {0}
  BY DEF Valued, Sized
<1>2. ASSUME NEW g \in Nat
      PROVE  Valued(Expanded(d, g))
  BY DEF Expanded, Valued
<1>3. ASSUME NEW q \in Nat, NEW n \in Nat
      PROVE  Valued(Cleared(d, q, n))
  BY DEF Cleared, Valued
<1>4. ASSUME NEW dest \in Nat, NEW source \in Nat, NEW n \in Nat, n > 0 => source + n <= N
      PROVE  Valued(Moved(d, dest, source, n)) /\ Sized(Moved(d, dest, source, n), N)
  <2>1. ASSUME NEW q \in DOMAIN d, q \in dest .. dest + n - 1
        PROVE  d[source + (q - dest)] \in Values \union {0}
    <3>1. source + (q - dest) \in 0 .. N - 1
      BY <1>4, <2>1
    <3> QED
      BY <1>1, <3>1
  <2> QED
    BY <2>1 DEF Moved, Valued, Sized
<1> QED
  BY <1>2, <1>3, <1>4

\* Moving the neighbors is invisible, but for the new pages.
LEMMA RelocatedContents ==
    ASSUME NEW e, Sound(virt, phys, e), NEW N \in Nat, Sized(data, N), e <= N,
           NEW a \in Nat, NEW n \in Nat, NEW u,
           NEW X, NEW L, NEW v, NEW lf, NEW ls, NEW U, NEW hf, NEW hs, NEW growth, NEW slot, NEW R, NEW vt,
           NEW ph, NEW m,
           Relocation(e, a, n, u, X, L, v, lf, ls, U, hf, hs, growth, slot, R, vt, ph, m)
    PROVE  /\ growth \in Nat /\ m \in Nat /\ m < e + growth /\ Sound(virt', phys', e + growth - m)
           /\ Sized(data', N + growth)
           /\ NewContents(virt, data, virt', data', a, n, u)
           /\ Valued(data) => Valued(data')
<1>1. /\ Piece(virt, X, L, v, lf, ls) /\ Piece(virt, X, U, a + n, hf, hs) /\ v + ls = a
      /\ ls > 0 => lf + ls <= e
      /\ hs > 0 => hf + hs <= e
      /\ growth \in Nat /\ slot \in Nat /\ slot + (ls + n + hs) <= e + growth
      /\ \A j \in DOMAIN virt : PhysEnd(virt[j]) <= slot \/ slot + (ls + n + hs) <= virt[j].physical
      /\ Sound(vt, ph, e + growth)
      /\ MovedTo(virt, R, L, v, U, a + n, slot, slot + ls + n) /\ Ordered(R)
      /\ NewPages(R, vt, a, n, slot + ls, u)
      /\ m \in Nat /\ m < e + growth /\ Ordered(vt) /\ Lowered(vt, virt', m)
      /\ Sound(virt', phys', e + growth - m)
      /\ data' = Moved(Cleared(Moved(Moved(Expanded(data, growth), slot + ls + n, hf, hs), slot, lf, ls),
                               slot + ls, n),
                       0, m, IF m > 0 THEN e + growth - m ELSE 0)
  BY DEF Relocation
<1>2. e \in Nat /\ ls \in Nat /\ hs \in Nat /\ v \in Nat
  BY <1>1 DEF Sound, TiledTo, Piece
<1>3. PICK E \in Nat, M \in Nat, w \in Nat, q \in Nat :
            E = e + growth /\ M = N + growth /\ w = a + n /\ q = slot + ls
  <2>1. e + growth \in Nat /\ N + growth \in Nat /\ a + n \in Nat /\ slot + ls \in Nat
    BY <1>1, <1>2
  <2> QED
    BY <2>1, Zenon
<1>4. E <= M
  BY <1>1, <1>2, <1>3
<1>5. PICK d0 : d0 = Expanded(data, growth)
  OBVIOUS
<1>6. SameContents(virt, data, virt, d0) /\ Sized(d0, M)
  BY <1>1, <1>3, <1>5, ExpandedSame
<1>7. PICK d2 : d2 = Moved(Moved(d0, slot + ls + n, hf, hs), slot, lf, ls)
  OBVIOUS
<1>8. SameContents(virt, d0, R, d2) /\ Sized(d2, M)
  <2>1. Piece(virt, X, U, w, hf, hs) /\ v + ls <= w /\ MovedTo(virt, R, L, v, U, w, slot, slot + ls + n)
    BY <1>1, <1>2, <1>3
  <2>2. slot + (ls + n + hs) <= M /\ e <= M
    BY <1>1, <1>2, <1>3, <1>4
  <2> QED
    BY <1>1, <1>6, <1>7, <2>1, <2>2, MovedSame
<1>9. PICK d3 : d3 = Cleared(d2, q, n)
  OBVIOUS
<1>10. NewContents(R, d2, vt, d3, a, n, u) /\ Sized(d3, M)
  <2>1. NewPages(R, vt, a, n, q, u) /\ Sound(vt, ph, E)
    BY <1>1, <1>3
  <2> QED
    BY <1>4, <1>8, <1>9, <2>1, ClearedNew
<1>11. PICK d4 : d4 = Moved(d3, 0, m, IF m > 0 THEN E - m ELSE 0)
  OBVIOUS
<1>12. SameContents(vt, d3, virt', d4) /\ Sized(d4, M)
  <2>0. e + growth - m = E - m
    BY <1>1, <1>2, <1>3
  <2>1. Sound(vt, ph, E) /\ m < E /\ Sound(virt', phys', E - m)
    BY <1>1, <1>3, <2>0
  <2> QED
    BY <1>1, <1>4, <1>10, <1>11, <2>1, LoweredSame
<1>13. data' = d4
  <2>1. PICK len : len = IF m > 0 THEN E - m ELSE 0
    OBVIOUS
  <2>0. e + growth - m = E - m
    BY <1>1, <1>2, <1>3
  <2>2. len = IF m > 0 THEN e + growth - m ELSE 0
    BY <2>0, <2>1
  <2>3. d4 = Moved(d3, 0, m, len)
    BY <1>11, <2>1, Zenon
  <2>4. data' = Moved(Cleared(Moved(Moved(Expanded(data, growth), slot + ls + n, hf, hs), slot, lf, ls),
                              slot + ls, n), 0, m, len)
    BY <1>1, <2>2, Zenon
  <2>5. q = slot + ls
    BY <1>3
  <2> QED
    BY <1>5, <1>7, <1>9, <2>3, <2>4, <2>5, Zenon
<1>14. SameContents(virt, data, R, d2)
  BY <1>6, <1>8, SameContentsTrans
<1>15. NewContents(virt, data, virt', data', a, n, u)
  BY <1>10, <1>12, <1>13, <1>14, ContentsTrans
<1>16. ASSUME Valued(data)
       PROVE  Valued(d4)
  <2>1. lf \in Nat /\ hf \in Nat /\ slot + ls + n \in Nat /\ slot \in Nat
    BY <1>1, <1>2 DEF Piece
  <2>2. Valued(d0)
    BY <1>1, <1>5, <1>16, ValuesKept
  <2>3. PICK d1 : d1 = Moved(d0, slot + ls + n, hf, hs)
    OBVIOUS
  <2>4. Valued(d1) /\ Sized(d1, M)
    <3>1. hs > 0 => hf + hs <= M
      BY <1>1, <1>2, <1>3, <1>4, <2>1
    <3> QED
      BY <1>2, <1>6, <2>1, <2>2, <2>3, <3>1, ValuesKept
  <2>5. Valued(d2)
    <3>1. ls > 0 => lf + ls <= M
      BY <1>1, <1>2, <1>3, <1>4, <2>1
    <3>2. d2 = Moved(d1, slot, lf, ls)
      BY <1>7, <2>3
    <3> QED
      BY <1>2, <2>1, <2>4, <3>1, <3>2, ValuesKept
  <2>6. Valued(d3)
    BY <1>8, <1>9, <2>5, ValuesKept
  <2>7. PICK len \in Nat : len = IF m > 0 THEN E - m ELSE 0
    <3>1. (IF m > 0 THEN E - m ELSE 0) \in Nat
      BY <1>1, <1>2, <1>3
    <3> QED
      BY <3>1
  <2>8. len > 0 => m + len <= M
    BY <1>1, <1>3, <1>4, <2>7
  <2>9. PICK z \in Nat : z = 0
    OBVIOUS
  <2>10. d4 = Moved(d3, z, m, len)
    BY <1>11, <2>7, <2>9, Zenon
  <2> QED
    BY <1>1, <1>10, <2>6, <2>8, <2>10, ValuesKept
<1> QED
  BY <1>1, <1>3, <1>12, <1>13, <1>15, <1>16

\* What a step may do to the memory: the slots stay sound, whatever the memory has grown to.
SoundAfter == \E e, n \in Nat : e <= n /\ Sized(data', n) /\ Sound(virt', phys', e)

\* The neighbor below a range is the only slot that ends there.
LEMMA PrevIsOne ==
    ASSUME NEW e, Sound(virt, phys, e), NEW a \in Nat, NEW prev, prev = {k \in DOMAIN virt : VirtEnd(k) = a},
           prev # {}
    PROVE  Max(prev) \in DOMAIN virt /\ EndOf(virt, Max(prev)) = a
<1>1. Laid(virt) /\ Ordered(virt)
  BY DEF Sound, Laid
<1>2. \A k : k \in prev <=> k \in DOMAIN virt /\ EndOf(virt, k) = a
  BY DEF VirtEnd
<1>3. PICK p \in prev : TRUE
  OBVIOUS
<1>4. p \in DOMAIN virt /\ EndOf(virt, p) = a /\ p \in Nat /\ p < a
  BY <1>1, <1>2, <1>3, LaidSlot
<1>5. ASSUME NEW k \in prev
      PROVE  k = p
  <2>1. k \in DOMAIN virt /\ EndOf(virt, k) = a /\ k \in Nat /\ k < a
    BY <1>1, <1>2, <1>5, LaidSlot
  <2> QED
    BY <1>1, <1>4, <2>1 DEF Ordered
<1>6. Max(prev) = p
  <2>1. prev \in SUBSET Int
    BY <1>4, <1>5
  <2>2. \A y \in prev : y <= p
    BY <1>4, <1>5
  <2> QED
    BY <1>3, <2>1, <2>2, MaxIs
<1> QED
  BY <1>4, <1>6

\* Mapping keeps the memory sound; the new pages are empty, unless there was no room for them.
LEMMA MMapKeeps ==
    ASSUME NEW e, NEW N \in Nat, Sound(virt, phys, e), Sized(data, N), e <= N,
           NEW a \in Nat, NEW n \in Nat, n > 0, a + n <= PageCount, NEW u \in SUBSET Rights, MMap(a, n, u)
    PROVE  /\ SoundAfter
           /\ \/ virt' = virt /\ data' = data
              \/ NewContents(virt, data, virt', data', a, n, u)
           /\ Valued(data) => Valued(data')
<1> DEFINE prev == {k \in DOMAIN virt : VirtEnd(k) = a}
           next == {a + n} \intersect DOMAIN virt
           grow == IF prev = {} THEN {} ELSE Expansions(Max(prev), n)
<1>1. \/ /\ prev # {} /\ next # {} /\ Aligned(Max(prev), a + n, n)
         /\ MapBetween(Max(prev), a + n, n, u)
      \/ /\ next = {}
         /\ \E growth \in grow : MapExpand(Max(prev), n, u, growth)
      \/ MapMove(a, n, u)
  BY DEF MMap
<1>2. Unused(virt, a, a + n)
  BY DEF MMap, Unused, VirtEnd
<1>3. prev = {k \in DOMAIN virt : VirtEnd(k) = a} /\ next = {a + n} \intersect DOMAIN virt
  OBVIOUS
<1>4. \A g : g \in grow => prev # {} /\ g \in Expansions(Max(prev), n)
  OBVIOUS
<1> HIDE DEF prev, next, grow
<1>5. PICK p : p = Max(prev)
  OBVIOUS
<1>6. Laid(virt) /\ TiledTo(phys, e) /\ e \in Nat
  BY DEF Sound, TiledTo
<1>7. prev # {} => p \in DOMAIN virt /\ EndOf(virt, p) = a
  BY <1>3, <1>5, PrevIsOne
<1>8. Grown \in Nat
  BY GrownIs
<1>9. SameContents(virt, data, virt, data)
  BY SameContentsRefl
<1>10. CASE prev # {} /\ next # {} /\ Aligned(Max(prev), a + n, n) /\ MapBetween(Max(prev), a + n, n, u)
  <2>1. Aligned(p, a + n, n)
    BY <1>5, <1>10 DEF Aligned
  <2>2. MapBetween(p, a + n, n, u)
    BY <1>5, <1>10 DEF MapBetween
  <2>3. PICK w \in DOMAIN virt : w = a + n
    BY <1>3, <1>10
  <2>4. Aligned(p, w, n) /\ MapBetween(p, w, n, u)
    BY <2>1, <2>2, <2>3
  <2>5. \A k \in DOMAIN virt : EndOf(virt, k) <= EndOf(virt, p) \/ w <= k
    BY <1>2, <1>7, <1>10, <2>3 DEF Unused
  <2>6. /\ Sound(virt', phys', e)
        /\ NewPages(virt, virt', EndOf(virt, p), n, PhysEnd(virt[p]), u)
        /\ data' = Cleared(data, PhysEnd(virt[p]), n)
    BY <1>7, <1>10, <2>3, <2>4, <2>5, MapBetweenKeeps
  <2>7. PICK q \in Nat : q = PhysEnd(virt[p])
    BY <1>6, <1>7, <1>10, LaidSlot
  <2>8. NewPages(virt, virt', a, n, q, u) /\ data' = Cleared(data, q, n)
    BY <1>7, <1>10, <2>6, <2>7
  <2>9. NewContents(virt, data, virt', data', a, n, u) /\ Sized(data', N)
    BY <2>6, <2>8, ClearedNew
  <2>10. SoundAfter
    BY <1>6, <2>6, <2>9 DEF SoundAfter
  <2>11. Valued(data) => Valued(data')
    BY <2>7, <2>8, ValuesKept
  <2> QED
    BY <2>9, <2>10, <2>11
<1>11. ASSUME next = {}, NEW growth \in grow, MapExpand(Max(prev), n, u, growth)
       PROVE  SoundAfter /\ NewContents(virt, data, virt', data', a, n, u) /\ (Valued(data) => Valued(data'))
  <2>1. prev # {} /\ growth \in Expansions(Max(prev), n)
    BY <1>4, <1>11
  <2>2. growth \in Expansions(p, n)
    BY <1>5, <2>1 DEF Expansions
  <2>3. MapExpand(p, n, u, growth)
    BY <1>5, <1>11 DEF MapExpand
  <2>4. p \in DOMAIN virt /\ EndOf(virt, p) = a
    BY <1>7, <2>1
  <2>5. \A j \in DOMAIN virt : EndOf(virt, j) <= EndOf(virt, p) \/ EndOf(virt, p) + n < j
    <3>1. ASSUME NEW j \in DOMAIN virt, ~(EndOf(virt, j) <= a)
          PROVE  a + n < j
      <4>1. a + n <= j /\ j \in Nat
        BY <1>2, <1>6, <3>1, LaidSlot DEF Unused
      <4>2. j # a + n
        BY <1>3, <1>11, <3>1
      <4> QED
        BY <4>1, <4>2
    <3> QED
      BY <2>4, <3>1
  <2>6. EndOf(virt, p) + n <= PageCount
    BY <2>4
  <2>7. /\ growth \in Nat /\ Sound(virt', phys', e + growth)
        /\ NewPages(virt, virt', EndOf(virt, p), n, PhysEnd(virt[p]), u)
        /\ data' = Cleared(Expanded(data, growth), PhysEnd(virt[p]), n)
    BY <1>8, <2>2, <2>3, <2>4, <2>5, <2>6, MapExpandKeeps
  <2>8. PICK q \in Nat : q = PhysEnd(virt[p])
    BY <1>6, <2>4, LaidSlot
  <2>9. PICK d : d = Expanded(data, growth)
    OBVIOUS
  <2>10. NewPages(virt, virt', a, n, q, u) /\ data' = Cleared(d, q, n)
    BY <2>4, <2>7, <2>8, <2>9
  <2>11. SameContents(virt, data, virt, d) /\ Sized(d, N + growth)
    BY <2>7, <2>9, ExpandedSame
  <2>12. PICK E \in Nat, M \in Nat : E = e + growth /\ M = N + growth
    BY <1>6, <2>7
  <2>13. E <= M
    BY <1>6, <2>7, <2>12
  <2>14. Sound(virt', phys', E) /\ Sized(d, M)
    BY <2>7, <2>11, <2>12
  <2>15. NewContents(virt, d, virt', data', a, n, u) /\ Sized(data', M)
    BY <2>10, <2>13, <2>14, ClearedNew
  <2>16. SameContents(virt', data', virt', data')
    BY SameContentsRefl
  <2>17. NewContents(virt, data, virt', data', a, n, u)
    BY <2>11, <2>15, <2>16, ContentsTrans
  <2>18. SoundAfter
    BY <2>13, <2>14, <2>15 DEF SoundAfter
  <2>19. Valued(data) => Valued(d)
    BY <2>7, <2>9, ValuesKept
  <2>20. Valued(d) => Valued(data')
    BY <2>8, <2>10, <2>12, <2>14, ValuesKept
  <2> QED
    BY <2>17, <2>18, <2>19, <2>20
<1>12. CASE MapMove(a, n, u)
  <2>1. \/ Sound(virt, phys', e) /\ virt' = virt /\ data' = data
        \/ \E X, L, v, lf, ls, U, hf, hs, growth, slot, R, vt, ph, m :
                Relocation(e, a, n, u, X, L, v, lf, ls, U, hf, hs, growth, slot, R, vt, ph, m)
    BY <1>2, <1>8, <1>12, MapMoveIs
  <2>2. CASE Sound(virt, phys', e) /\ virt' = virt /\ data' = data
    <3>1. Sound(virt', phys', e) /\ Sized(data', N)
      BY <2>2
    <3>2. SoundAfter
      BY <1>6, <3>1 DEF SoundAfter
    <3> QED
      BY <2>2, <3>2
  <2>3. CASE \E X, L, v, lf, ls, U, hf, hs, growth, slot, R, vt, ph, m :
                Relocation(e, a, n, u, X, L, v, lf, ls, U, hf, hs, growth, slot, R, vt, ph, m)
    <3>1. PICK X, L, v, lf, ls, U, hf, hs, growth, slot, R, vt, ph, m :
                Relocation(e, a, n, u, X, L, v, lf, ls, U, hf, hs, growth, slot, R, vt, ph, m)
      BY <2>3
    <3>2. /\ growth \in Nat /\ m \in Nat /\ m < e + growth /\ Sound(virt', phys', e + growth - m)
          /\ Sized(data', N + growth)
          /\ NewContents(virt, data, virt', data', a, n, u)
          /\ Valued(data) => Valued(data')
      BY <3>1, RelocatedContents
    <3>3. PICK E \in Nat, M \in Nat : E = e + growth - m /\ M = N + growth
      BY <1>6, <3>2
    <3>4. E <= M
      BY <1>6, <3>2, <3>3
    <3>5. Sound(virt', phys', E) /\ Sized(data', M)
      BY <3>2, <3>3
    <3>6. SoundAfter
      BY <3>4, <3>5 DEF SoundAfter
    <3> QED
      BY <3>2, <3>6
  <2> QED
    BY <2>1, <2>2, <2>3
<1> QED
  BY <1>1, <1>10, <1>11, <1>12

\* A program starts with one free slot.
LEMMA SoundAtStart ==
    ASSUME Init
    PROVE  MemorySound
<1>1. InitPages \in Nat /\ InitPages > 0
  BY MemoryAssumption
<1>2. virt = [p \in {} |-> 0] /\ phys = [k \in {0} |-> [size |-> InitPages, users |-> 0]]
  <2>1. virt = [p \in {} |-> 0]
    BY DEF Init, Nothing
  <2>2. phys = [k \in {0} |-> [size |-> InitPages, users |-> 0]]
    BY DEF Init
  <2> QED
    BY <2>1, <2>2
<1>3. Sized(data, InitPages)
  BY <1>1 DEF Init, Sized
<1>4. Laid(virt) /\ IsMap(virt) /\ Backing(virt, phys)
  BY <1>2 DEF Laid, Ordered, IsMap, Backing
<1>5. IsMap(phys) /\ DOMAIN phys = {0} /\ phys[0] = [size |-> InitPages, users |-> 0]
  BY <1>2 DEF IsMap
<1>6. EndOf(phys, 0) = InitPages
  BY <1>1, <1>5 DEF EndOf
<1>7. TiledTo(phys, InitPages)
  BY <1>1, <1>5, <1>6 DEF TiledTo
<1>8. Sound(virt, phys, InitPages)
  BY <1>4, <1>5, <1>7 DEF Sound
<1> QED
  BY <1>1, <1>3, <1>8 DEF MemorySound

\* Lookups, accesses and fences leave the slots where they are and the memory as large as it is.
Touches == virt' = virt /\ phys' = phys /\ DOMAIN data' = DOMAIN data

\* Whatever only touches the memory leaves it sound.
LEMMA TouchesKeep ==
    ASSUME MemorySound, Touches
    PROVE  SoundAfter
<1>1. PICK e \in Nat, n \in Nat : e <= n /\ Sized(data, n) /\ Sound(virt, phys, e)
  BY DEF MemorySound
<1>2. Sized(data', n) /\ Sound(virt', phys', e)
  BY <1>1 DEF Touches, Sized
<1> QED
  BY <1>1, <1>2 DEF SoundAfter

\* Writing to the memory does not change its size.
LEMMA WrittenKeeps ==
    ASSUME NEW places, NEW v
    PROVE  DOMAIN Written(places, v) = DOMAIN data
BY DEF Written

\* Uses of the memory only touch it.
LEMMA UseTouches ==
    ASSUME Use \/ Fence \/ CheckXInvalidated \/ Halted
    PROVE  Touches
<1>1. CASE Use
  <2>1. PICK p \in Pages : \/ Fetch(p)
                           \/ \E n \in Spans : \/ Load(p, n)
                                               \/ \E v \in Values : Store(p, n, v) \/ SystemWrite(p, n, v)
    BY <1>1 DEF Use
  <2>2. CASE Fetch(p)
    BY <2>2 DEF Fetch, slotVars, Touches
  <2>3. ASSUME NEW n \in Spans, Load(p, n)
        PROVE  Touches
    BY <2>3 DEF Load, slotVars, Touches
  <2>4. ASSUME NEW n \in Spans, NEW v \in Values, Store(p, n, v)
        PROVE  Touches
    <3>1. virt' = virt /\ phys' = phys
      BY <2>4, Zenon DEF Store, slotVars
    <3>2. data' = Written(Access("store", p, n).places, v)
      BY <2>4, Zenon DEF Store
    <3> QED
      BY <3>1, <3>2, WrittenKeeps DEF Touches
  <2>5. ASSUME NEW n \in Spans, NEW v \in Values, SystemWrite(p, n, v)
        PROVE  Touches
    <3>1. virt' = virt /\ phys' = phys
      BY <2>5, Zenon DEF SystemWrite, slotVars
    <3>2. \/ data' = data
          \/ \E places : data' = Written(places, v)
      BY <2>5, Zenon DEF SystemWrite
    <3> QED
      BY <3>1, <3>2, WrittenKeeps DEF Touches
  <2> QED
    BY <2>1, <2>2, <2>3, <2>4, <2>5
<1>2. CASE Fence
  BY <1>2 DEF Fence, slotVars, Touches
<1>3. CASE CheckXInvalidated
  BY <1>3 DEF CheckXInvalidated, slotVars, Touches
<1>4. CASE Halted
  BY <1>4 DEF Halted, vars, slotVars, Touches
<1> QED
  BY <1>1, <1>2, <1>3, <1>4

\* The invariant holds after every step.
LEMMA SoundStep ==
    ASSUME MemorySound, [Next]_vars
    PROVE  MemorySound'
<1>1. PICK e \in Nat, N \in Nat : e <= N /\ Sized(data, N) /\ Sound(virt, phys, e)
  BY DEF MemorySound
<1>2. CASE Call
  <2>1. PICK a \in Pages : \E n \in 1 .. PageCount - a :
            Munmap(a, n) \/ \E u \in Usages : MMap(a, n, u) \/ Mprotect(a, n, u)
    BY <1>2 DEF Call
  <2>2. PICK n \in 1 .. PageCount - a :
            Munmap(a, n) \/ \E u \in Usages : MMap(a, n, u) \/ Mprotect(a, n, u)
    BY <2>1
  <2>3. a \in Nat /\ n \in Nat /\ n > 0 /\ a + n <= PageCount
    BY <2>2, MemoryAssumption DEF Pages
  <2>4. CASE Munmap(a, n)
    <3>1. Sound(virt', phys', e)
      BY <1>1, <2>3, <2>4, MunmapKeeps
    <3>2. data' = data
      BY <2>4, Zenon DEF Munmap
    <3> QED
      BY <1>1, <3>1, <3>2 DEF MemorySound
  <2>5. ASSUME NEW u \in Usages, MMap(a, n, u)
        PROVE  MemorySound'
    <3>1. u \in SUBSET Rights
      BY MemoryAssumption DEF Rights
    <3>2. SoundAfter
      BY <1>1, <2>3, <2>5, <3>1, MMapKeeps
    <3> QED
      BY <3>2 DEF SoundAfter, MemorySound
  <2>6. ASSUME NEW u \in Usages, Mprotect(a, n, u)
        PROVE  MemorySound'
    <3>1. u \in SUBSET Rights
      BY MemoryAssumption DEF Rights
    <3>2. Sound(virt', phys', e)
      BY <1>1, <2>3, <2>6, <3>1, MprotectKeeps
    <3>3. data' = data
      BY <2>6, Zenon DEF Mprotect
    <3> QED
      BY <1>1, <3>2, <3>3 DEF MemorySound
  <2> QED
    BY <2>2, <2>4, <2>5, <2>6
<1>3. CASE Use \/ Fence \/ CheckXInvalidated \/ Halted
  BY <1>3, UseTouches, TouchesKeep DEF SoundAfter, MemorySound
<1>4. CASE UNCHANGED vars
  <2>1. virt' = virt /\ phys' = phys /\ data' = data
    BY <1>4 DEF vars, slotVars
  <2> QED
    BY <2>1 DEF MemorySound
<1> QED
  BY <1>2, <1>3, <1>4 DEF Next

\* The slots are sound in every state: the virtual ones are disjoint and below the end, the physical
\* ones cover the memory, each virtual one lies in a used physical one which it shares with none
\* elsewhere, and virtual neighbors are physical neighbors in the same one.
THEOREM SlotsSound == Spec => []MemorySound
<1>1. Init => MemorySound
  BY SoundAtStart
<1>2. MemorySound /\ [Next]_vars => MemorySound'
  BY SoundStep
<1> QED
  BY <1>1, <1>2, PTL DEF Spec

\* What the invariant says of the pages of the guest.
LEMMA SoundPages ==
    ASSUME MemorySound
    PROVE  PagesBacked /\ NeighborsContiguous
<1>1. PICK e \in Nat, n \in Nat : e <= n /\ Sized(data, n) /\ Sound(virt, phys, e)
  BY DEF MemorySound
<1>2. TiledTo(phys, e)
  BY <1>1 DEF Sound
<1>3. \A p \in Mapped : p \in Int /\ Holds(virt, p) /\ Translate(p) = PlaceIn(virt, p)
  BY DEF Mapped, Pages, Translate, PlaceIn
<1>4. ASSUME NEW p \in Mapped, NEW q \in Mapped, p # q
      PROVE  Translate(p) # Translate(q)
  BY <1>1, <1>3, <1>4, PlacesAre
<1>5. ASSUME NEW p \in Mapped
      PROVE  \E k \in Used(phys) : k <= Translate(p) /\ Translate(p) < EndOf(phys, k)
  <2>1. PICK x \in Nat : x = Translate(p) /\ LiesIn(phys, x, x + 1, 1)
    BY <1>1, <1>3, PlacesAre
  <2>2. PICK k \in DOMAIN phys : phys[k].users = 1 /\ k <= x /\ x + 1 <= EndOf(phys, k)
    BY <2>1 DEF LiesIn
  <2>3. EndOf(phys, k) \in Nat
    BY <1>2, NextIs
  <2>4. k \in Used(phys) /\ x < EndOf(phys, k)
    BY <2>2, <2>3 DEF Used
  <2> QED
    BY <2>1, <2>2, <2>4
<1>6. Tiled(phys) /\ EndOf(phys, LastOf(phys)) <= Grown
  <2>1. \A k \in DOMAIN phys : phys[k].size > 0
    BY <1>2 DEF TiledTo
  <2>2. \A j, k \in DOMAIN phys : j < k => EndOf(phys, j) <= k
    BY <1>2 DEF TiledTo
  <2>3. \A k \in DOMAIN phys : k = 0 \/ k = EndOf(phys, PrevOf(phys, k))
    BY <1>2, PrevIs
  <2>4. 0 \in DOMAIN phys
    BY <1>2 DEF TiledTo
  <2>5. Tiled(phys)
    BY <2>1, <2>2, <2>3, <2>4 DEF Tiled, Disjoint
  <2>6. EndOf(phys, LastOf(phys)) = e /\ Grown = n
    BY <1>1, <1>2, LastIs, GrownIs
  <2> QED
    BY <1>1, <2>5, <2>6
<1>7. ASSUME NEW p \in Mapped, NEW q \in Mapped, q = p + 1
      PROVE  Translate(q) = Translate(p) + 1
  BY <1>1, <1>3, <1>7, PlacesAre
<1> QED
  BY <1>4, <1>5, <1>6, <1>7 DEF PagesBacked, NeighborsContiguous

\* Whatever is mapped, moved, protected and unmapped, every mapped page has a page of the
\* WebAssembly memory of its own, in a used physical slot that exists (fMMap, fMUnmap, fReducePhysical).
THEOREM AllPagesBacked == Spec => []PagesBacked
BY SlotsSound, SoundPages, PTL

\* Pages next to each other are next to each other in physical memory, which fConstructLookup and
\* the accesses that straddle two pages rely on.
THEOREM AllNeighborsContiguous == Spec => []NeighborsContiguous
BY SlotsSound, SoundPages, PTL
=============================================================================
