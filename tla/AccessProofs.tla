---------------------------- MODULE AccessProofs ----------------------------
(***************************************************************************)
(* What the guest finds in its memory: lookups describe pages which lie in *)
(* physical memory as they do in the virtual one and which allow what they *)
(* were made for, in whichever cache they are; so accesses end where they  *)
(* should, translations are of the code as it is, and the memory           *)
(* implements AddressSpace.                                                *)
(***************************************************************************)
EXTENDS MemoryProofs

-----------------------------------------------------------------------------
(* Lookups. *)

Kinds == {{"read"}, {"write"}, {"execute"}}

\* the range of a lookup lies together, and its pages allow the access
Covers(vt, l, need) ==
    \A p \in Int : l.address <= p /\ p < l.address + l.size =>
        /\ Holds(vt, p) /\ need \subseteq UsageIn(vt, p)
        /\ PlaceIn(vt, p) = l.physical + (p - l.address)

\* the pages of a lookup found for detected writes cannot be executed
Plain(vt, l) ==
    \A p \in Int : l.address <= p /\ p < l.address + l.size => "execute" \notin UsageIn(vt, p)

\* A chain of slots holds every page from its first to its last.
LEMMA ChainHolds ==
    ASSUME NEW vt, Laid(vt), NEW f \in DOMAIN vt, NEW l \in DOMAIN vt,
           \A s \in DOMAIN vt : f <= s /\ s < l => EndOf(vt, s) \in DOMAIN vt,
           NEW p \in Int, f <= p, p < EndOf(vt, l)
    PROVE  \E s \in DOMAIN vt : f <= s /\ s <= l /\ s <= p /\ p < EndOf(vt, s)
<1> DEFINE T == {s \in DOMAIN vt : f <= s /\ s <= p}
<1>1. \A s \in DOMAIN vt : s \in Nat /\ EndOf(vt, s) \in Nat /\ s < EndOf(vt, s)
  BY LaidSlot
<1>2. T \in SUBSET Nat /\ f \in T /\ p \in Nat /\ \A s \in T : s <= p
  BY <1>1
<1>3. PICK s \in T : \A j \in T : j <= s
  <2> HIDE DEF T
  <2> QED
    BY <1>2, GreatestNumber
<1>4. s <= l
  <2>1. l < s => EndOf(vt, l) <= s
    BY DEF Laid, Ordered
  <2> QED
    BY <1>1, <2>1
<1>5. p < EndOf(vt, s)
  <2> SUFFICES ASSUME EndOf(vt, s) <= p
               PROVE  FALSE
    BY <1>1
  <2>1. s < l
    BY <1>1, <1>4
  <2>2. EndOf(vt, s) \in T
    BY <1>1, <2>1
  <2> QED
    BY <1>1, <1>3, <2>2
<1> QED
  BY <1>4, <1>5

\* what fConstructLookup collects: slots right behind each other, as far up as they join
Collected(vt, f, k, l, need) ==
    /\ f \in DOMAIN vt /\ k \in DOMAIN vt /\ l \in DOMAIN vt /\ f <= k /\ k <= l
    /\ \A s \in DOMAIN vt : f <= s /\ s < l => EndOf(vt, s) \in DOMAIN vt
    /\ \A s \in DOMAIN vt : f <= s /\ s <= l => s = k \/ Joins(vt[s], need)
    /\ EndOf(vt, l) \in DOMAIN vt => ~Joins(vt[EndOf(vt, l)], need)

\* fConstructLookup finds such slots around the given one.
LEMMA ConstructIs ==
    ASSUME NEW e, Sound(virt, phys, e), NEW k \in DOMAIN virt, NEW need
    PROVE  \E f, l \in DOMAIN virt :
                /\ ConstructLookup(k, need)
                    = [address |-> f, physical |-> virt[f].physical, size |-> EndOf(virt, l) - f]
                /\ Collected(virt, f, k, l, need)
<1> DEFINE next(s, t) == t = VirtEnd(s) /\ virt[t].physical = PhysEnd(virt[s])
           low(s)  == \E t \in DOMAIN virt : next(t, s) /\ Joins(virt[t], need)
           high(s) == \E t \in DOMAIN virt : next(s, t) /\ Joins(virt[t], need)
           A == {f \in DOMAIN virt : f <= k /\ \A s \in DOMAIN virt : f < s /\ s <= k => low(s)}
           B == {l \in DOMAIN virt : k <= l /\ \A s \in DOMAIN virt : k <= s /\ s < l => high(s)}
           LA == {s \in DOMAIN virt : low(s)}
           LB == {s \in DOMAIN virt : high(s)}
<1>1. Laid(virt) /\ Ordered(virt) /\ Backing(virt, phys)
  BY DEF Sound, Laid
<1>2. \A s \in DOMAIN virt : s \in Nat /\ EndOf(virt, s) \in Nat /\ s < EndOf(virt, s)
  BY <1>1, LaidSlot
<1>3. PICK f, l : f = Min(A) /\ l = Max(B)
  OBVIOUS
<1>4. ConstructLookup(k, need) = [address |-> f, physical |-> virt[f].physical, size |-> EndOf(virt, l) - f]
  BY <1>3, Zenon DEF ConstructLookup, VirtEnd
<1>5. /\ f \in DOMAIN virt /\ f <= k
      /\ \A s \in DOMAIN virt : f < s /\ s <= k => s \in LA
  <2>1. \A j : j \in A <=> /\ j \in DOMAIN virt /\ j <= k
                           /\ \A s \in DOMAIN virt : j < s /\ s <= k => s \in LA
    OBVIOUS
  <2> HIDE DEF A, LA
  <2> QED
    BY <1>1, <1>3, <2>1, Downward
<1>6. /\ l \in DOMAIN virt /\ k <= l
      /\ \A s \in DOMAIN virt : k <= s /\ s < l => s \in LB
      /\ EndOf(virt, l) \in DOMAIN virt => l \notin LB
  <2>1. \A j : j \in B <=> /\ j \in DOMAIN virt /\ k <= j
                           /\ \A s \in DOMAIN virt : k <= s /\ s < j => s \in LB
    OBVIOUS
  <2> HIDE DEF B, LB
  <2> QED
    BY <1>1, <1>3, <2>1, Upward
<1>7. \A s : s \in LA => s \in DOMAIN virt /\ \E t \in DOMAIN virt : EndOf(virt, t) = s /\ Joins(virt[t], need)
  BY DEF VirtEnd
<1>8. \A s : s \in LB => s \in DOMAIN virt /\ EndOf(virt, s) \in DOMAIN virt /\ Joins(virt[EndOf(virt, s)], need)
  BY DEF VirtEnd
<1>9. ASSUME NEW s \in DOMAIN virt, EndOf(virt, s) \in DOMAIN virt, Joins(virt[EndOf(virt, s)], need)
      PROVE  s \in LB
  <2>1. virt[EndOf(virt, s)].physical = PhysEnd(virt[s])
    BY <1>1, <1>9 DEF Backing
  <2> QED
    BY <1>9, <2>1 DEF VirtEnd
<1> HIDE DEF A, B, LA, LB
<1>10. ASSUME NEW s \in DOMAIN virt, f <= s, s < k
       PROVE  EndOf(virt, s) \in DOMAIN virt /\ Joins(virt[s], need)
  <2> DEFINE T == {j \in DOMAIN virt : s < j /\ j <= k}
  <2>1. T \in SUBSET Nat /\ k \in T
    BY <1>2, <1>10
  <2>2. PICK j \in T : \A i \in T : j <= i
    <3> HIDE DEF T
    <3> QED
      BY <2>1, LeastNumber
  <2>3. j \in DOMAIN virt /\ s < j /\ j <= k
    OBVIOUS
  <2>4. f < j
    BY <1>2, <1>5, <1>10, <2>3
  <2>5. PICK t \in DOMAIN virt : EndOf(virt, t) = j /\ Joins(virt[t], need)
    BY <1>5, <1>7, <2>3, <2>4
  <2>6. t < j /\ t <= k
    BY <1>2, <2>3, <2>5
  <2>7. t <= s
    <3> SUFFICES ASSUME s < t
                 PROVE  FALSE
      BY <1>2
    <3>1. t \in T
      BY <2>6
    <3> QED
      BY <1>2, <2>2, <2>3, <2>6, <3>1
  <2>8. t = s
    <3>1. t < s => EndOf(virt, t) <= s
      BY <1>1 DEF Ordered
    <3> QED
      BY <1>2, <2>3, <2>5, <2>7, <3>1
  <2> QED
    BY <2>3, <2>5, <2>8
<1>11. ASSUME NEW s \in DOMAIN virt, k < s, s <= l
       PROVE  Joins(virt[s], need)
  <2> DEFINE T == {j \in DOMAIN virt : k <= j /\ j < s}
  <2>1. T \in SUBSET Nat /\ k \in T /\ s \in Nat /\ \A i \in T : i <= s
    BY <1>2, <1>11
  <2>2. PICK j \in T : \A i \in T : i <= j
    <3> HIDE DEF T
    <3> QED
      BY <2>1, GreatestNumber
  <2>3. j \in DOMAIN virt /\ k <= j /\ j < s
    OBVIOUS
  <2>4. j < l
    BY <1>2, <1>6, <1>11, <2>3
  <2>5. EndOf(virt, j) \in DOMAIN virt /\ Joins(virt[EndOf(virt, j)], need)
    BY <1>6, <1>8, <2>3, <2>4
  <2>6. EndOf(virt, j) <= s
    BY <1>1, <2>3 DEF Ordered
  <2>7. EndOf(virt, j) = s
    <3> SUFFICES ASSUME EndOf(virt, j) < s
                 PROVE  FALSE
      BY <1>2, <2>5, <2>6
    <3>1. EndOf(virt, j) \in T
      BY <1>2, <2>3, <2>5
    <3> QED
      BY <1>2, <2>2, <2>3, <3>1
  <2> QED
    BY <2>5, <2>7
<1>12. Collected(virt, f, k, l, need)
  <2>1. \A s \in DOMAIN virt : f <= s /\ s < l => EndOf(virt, s) \in DOMAIN virt
    BY <1>2, <1>6, <1>8, <1>10
  <2>2. \A s \in DOMAIN virt : f <= s /\ s <= l => s = k \/ Joins(virt[s], need)
    BY <1>2, <1>10, <1>11
  <2>3. EndOf(virt, l) \in DOMAIN virt => ~Joins(virt[EndOf(virt, l)], need)
    BY <1>6, <1>9
  <2> QED
    BY <1>5, <1>6, <2>1, <2>2, <2>3 DEF Collected
<1> QED
  BY <1>4, <1>5, <1>6, <1>12

\* A lookup made at a page covers it, and describes pages that allow the access.  It ends before the
\* next page only if that does not allow it, or is executable while writes to such pages are detected.
LEMMA LookupIs ==
    ASSUME NEW e, Sound(virt, phys, e), NEW need, NEW p \in Int, Holds(virt, p),
           need \subseteq UsageIn(virt, p), NEW r, r = ConstructLookup(SlotAt(virt, p), need)
    PROVE  /\ r \in Lookup /\ r.address <= p /\ p < r.address + r.size
           /\ Covers(virt, r, need)
           /\ DetectWrites /\ "write" \in need /\ "execute" \notin UsageIn(virt, p) => Plain(virt, r)
           /\ Holds(virt, p + 1) /\ need \subseteq UsageIn(virt, p + 1) /\ r.address + r.size <= p + 1 =>
                    DetectWrites /\ "write" \in need /\ "execute" \in UsageIn(virt, p + 1)
<1>1. PICK k : k = SlotAt(virt, p)
  OBVIOUS
<1>2. k \in DOMAIN virt /\ k <= p /\ p < EndOf(virt, k) /\ virt[k].usage = UsageIn(virt, p)
  BY <1>1, HoldsSlot DEF UsageIn
<1>3. PICK f \in DOMAIN virt, l \in DOMAIN virt :
                /\ ConstructLookup(k, need)
                    = [address |-> f, physical |-> virt[f].physical, size |-> EndOf(virt, l) - f]
                /\ Collected(virt, f, k, l, need)
  BY <1>2, ConstructIs
<1>4. r.address = f /\ r.physical = virt[f].physical /\ r.size = EndOf(virt, l) - f
      /\ r = [address |-> f, physical |-> virt[f].physical, size |-> EndOf(virt, l) - f]
  BY <1>1, <1>3
<1>5. Laid(virt) /\ Ordered(virt) /\ Backing(virt, phys) /\ TiledTo(phys, e)
  BY DEF Sound, Laid
<1>6. \A s \in DOMAIN virt : s \in Nat /\ EndOf(virt, s) \in Nat /\ s < EndOf(virt, s)
                             /\ virt[s].physical \in Nat
  BY <1>5, LaidSlot
<1>7. /\ f \in DOMAIN virt /\ l \in DOMAIN virt /\ f <= k /\ k <= l
      /\ \A s \in DOMAIN virt : f <= s /\ s < l => EndOf(virt, s) \in DOMAIN virt
      /\ \A s \in DOMAIN virt : f <= s /\ s <= l => s = k \/ Joins(virt[s], need)
      /\ (EndOf(virt, l) \in DOMAIN virt => ~Joins(virt[EndOf(virt, l)], need))
  BY <1>3 DEF Collected
<1>8. EndOf(virt, k) <= EndOf(virt, l)
  <2>1. k < l => EndOf(virt, k) <= l
    BY <1>2, <1>5, <1>7 DEF Ordered
  <2> QED
    BY <1>2, <1>6, <1>7, <2>1
<1>9. f < EndOf(virt, l) /\ r.address <= p /\ p < EndOf(virt, l) /\ r.address + r.size = EndOf(virt, l)
  BY <1>2, <1>4, <1>6, <1>7, <1>8
<1>10. r \in Lookup
  <2>1. EndOf(virt, l) - f \in Nat
    BY <1>6, <1>7, <1>9
  <2> QED
    BY <1>4, <1>6, <1>7, <2>1 DEF Lookup
<1>11. \A s \in DOMAIN virt : f <= s /\ s <= l => virt[s].physical = virt[f].physical + (s - f)
  <2>1. ASSUME NEW s \in DOMAIN virt, f < s, s <= l
        PROVE  \E t \in DOMAIN virt : EndOf(virt, t) = s
    <3>1. s - 1 \in Int /\ f <= s - 1 /\ s - 1 < EndOf(virt, l)
      BY <1>6, <1>7, <2>1
    <3>2. PICK t \in DOMAIN virt : f <= t /\ t <= s - 1 /\ s - 1 < EndOf(virt, t)
      BY <1>5, <1>7, <3>1, ChainHolds
    <3>3. t < s => EndOf(virt, t) <= s
      BY <1>5, <2>1 DEF Ordered
    <3> QED
      BY <1>6, <2>1, <3>2, <3>3
  <2>2. Run(virt, f, l)
    BY <1>2, <1>6, <1>7, <2>1 DEF Run
  <2> QED
    BY <1>5, <2>2, RunPlaced
<1>12. ASSUME NEW q \in Int, f <= q, q < EndOf(virt, l)
       PROVE  \E s \in DOMAIN virt :
                /\ f <= s /\ s <= l /\ s <= q /\ q < EndOf(virt, s)
                /\ Holds(virt, q) /\ UsageIn(virt, q) = virt[s].usage
                /\ PlaceIn(virt, q) = virt[f].physical + (q - f)
  <2>1. PICK s \in DOMAIN virt : f <= s /\ s <= l /\ s <= q /\ q < EndOf(virt, s)
    BY <1>5, <1>7, <1>12, ChainHolds
  <2>2. Holds(virt, q) /\ SlotAt(virt, q) = s
    BY <1>5, <2>1, SlotAtIs
  <2>3. PlaceIn(virt, q) = virt[s].physical + (q - s)
    BY <2>2 DEF PlaceIn
  <2>4. PlaceIn(virt, q) = virt[f].physical + (q - f)
    BY <1>6, <1>7, <1>11, <2>1, <2>3
  <2> QED
    BY <2>1, <2>2, <2>4 DEF UsageIn
<1>13. Covers(virt, r, need)
  <2>1. ASSUME NEW q \in Int, r.address <= q, q < r.address + r.size
        PROVE  /\ Holds(virt, q) /\ need \subseteq UsageIn(virt, q)
               /\ PlaceIn(virt, q) = r.physical + (q - r.address)
    <3>1. f <= q /\ q < EndOf(virt, l)
      BY <1>4, <1>9, <2>1
    <3>2. PICK s \in DOMAIN virt :
                /\ f <= s /\ s <= l /\ Holds(virt, q) /\ UsageIn(virt, q) = virt[s].usage
                /\ PlaceIn(virt, q) = virt[f].physical + (q - f)
      BY <1>12, <3>1
    <3>3. need \subseteq virt[s].usage
      BY <1>2, <1>7, <3>2 DEF Joins
    <3> QED
      BY <1>4, <3>2, <3>3
  <2> QED
    BY <2>1 DEF Covers
<1>14. ASSUME DetectWrites, "write" \in need, "execute" \notin UsageIn(virt, p)
       PROVE  Plain(virt, r)
  <2>1. ASSUME NEW q \in Int, r.address <= q, q < r.address + r.size
        PROVE  "execute" \notin UsageIn(virt, q)
    <3>1. f <= q /\ q < EndOf(virt, l)
      BY <1>4, <1>9, <2>1
    <3>2. PICK s \in DOMAIN virt : f <= s /\ s <= l /\ UsageIn(virt, q) = virt[s].usage
      BY <1>12, <3>1
    <3> QED
      BY <1>2, <1>7, <1>14, <3>2 DEF Joins, Executable
  <2> QED
    BY <2>1 DEF Plain
<1>15. ASSUME Holds(virt, p + 1), need \subseteq UsageIn(virt, p + 1), r.address + r.size <= p + 1
       PROVE  DetectWrites /\ "write" \in need /\ "execute" \in UsageIn(virt, p + 1)
  <2>1. p + 1 = EndOf(virt, l)
    BY <1>6, <1>7, <1>9, <1>15
  <2>2. PICK s \in DOMAIN virt : s <= p + 1 /\ p + 1 < EndOf(virt, s) /\ s = SlotAt(virt, p + 1)
    BY <1>15, HoldsSlot
  <2>3. s = EndOf(virt, l)
    <3>1. s < EndOf(virt, l) => FALSE
      <4>1. l < s => EndOf(virt, l) <= s
        BY <1>5, <1>7 DEF Ordered
      <4>2. s < l => EndOf(virt, s) <= l
        BY <1>5, <1>7 DEF Ordered
      <4> QED
        BY <1>6, <1>7, <2>1, <2>2, <4>1, <4>2
    <3> QED
      BY <1>6, <1>7, <2>1, <2>2, <3>1
  <2>4. ~Joins(virt[s], need) /\ need \subseteq virt[s].usage /\ virt[s].usage = UsageIn(virt, p + 1)
    BY <1>7, <1>15, <2>2, <2>3 DEF UsageIn
  <2> QED
    BY <2>4 DEF Joins, Executable
<1> QED
  BY <1>9, <1>10, <1>13, <1>14, <1>15

-----------------------------------------------------------------------------
(* Caches. *)

\* a lookup that may be cached for an access
CacheSound(vt, l, need) ==
    /\ l \in Lookup /\ Covers(vt, l, need)
    /\ DetectWrites /\ "write" \in need => Plain(vt, l)

CacheTypes(cs, fs) ==
    /\ cs \in [Caches -> Lookup]
    /\ fs \in [0 .. FastCount - 1 -> [lookup : Lookup, usage : SUBSET Rights]]

CachesSound(vt, cs, fs) ==
    /\ \A c \in Caches : CacheSound(vt, cs[c], Need(c))
    /\ \A i \in 0 .. FastCount - 1 : CacheSound(vt, fs[i].lookup, fs[i].usage)

\* A cache that describes no page is sound.
LEMMA NoneSound ==
    ASSUME NEW vt
    PROVE  CacheTypes(NoCaches, NoFast) /\ CachesSound(vt, NoCaches, NoFast)
<1>1. NoCache \in Lookup /\ NoCache.address = 0 /\ NoCache.size = 0
  BY DEF NoCache, Lookup
<1>2. ASSUME NEW need
      PROVE  CacheSound(vt, NoCache, need)
  BY <1>1 DEF CacheSound, Covers, Plain
<1>3. \A c \in Caches : NoCaches[c] = NoCache
  BY DEF NoCaches
<1>4. \A i \in 0 .. FastCount - 1 : NoFast[i].lookup = NoCache
  BY DEF NoFast
<1>5. NoCaches \in [Caches -> Lookup]
  BY <1>1 DEF NoCaches
<1>6. NoFast \in [0 .. FastCount - 1 -> [lookup : Lookup, usage : SUBSET Rights]]
  BY <1>1 DEF NoFast
<1> QED
  BY <1>2, <1>3, <1>4, <1>5, <1>6 DEF CacheTypes, CachesSound

\* The index of an entry of the fast cache.
LEMMA IndexIs ==
    ASSUME NEW p \in Nat, NEW need \in Kinds
    PROVE  FastIndex(p, need) \in 0 .. FastCount - 1
<1>1. FastCount \in Nat /\ FastCount > 0
  BY MemoryAssumption
<1>2. PICK m : m = CASE need = {"read"} -> 31 [] need = {"write"} -> 37 [] need = {"execute"} -> 1
  OBVIOUS
<1>3. {"read"} # {"write"} /\ {"read"} # {"execute"} /\ {"write"} # {"execute"}
  <2>1. "read" \in {"read"} /\ "read" \notin {"write"} /\ "read" \notin {"execute"}
        /\ "write" \in {"write"} /\ "write" \notin {"execute"}
    OBVIOUS
  <2> QED
    BY <2>1
<1>4. m \in {31, 37, 1}
  BY <1>2, <1>3 DEF Kinds
<1>5. FastIndex(p, need) = (p * m) % FastCount
  BY <1>2, Zenon DEF FastIndex
<1>6. p * m \in Nat
  BY <1>4
<1>7. PICK x \in Nat : x = p * m
  BY <1>6
<1>8. x % FastCount \in 0 .. FastCount - 1
  BY <1>1, <1>7
<1> QED
  BY <1>5, <1>7, <1>8

\* A lookup put into the fast cache.
LEMMA FilledIs ==
    ASSUME NEW vt, NEW cs, NEW fs, CacheTypes(cs, fs), NEW p \in Nat, NEW need \in Kinds, NEW l \in Lookup
    PROVE  /\ CacheTypes(cs, Filled(fs, p, need, l))
           /\ CachesSound(vt, cs, fs) /\ CacheSound(vt, l, need)
                    => CachesSound(vt, cs, Filled(fs, p, need, l))
<1>1. PICK i \in 0 .. FastCount - 1 : i = FastIndex(p, need)
  BY IndexIs
<1>2. PICK g : g = Filled(fs, p, need, l)
  OBVIOUS
<1>3. need \in SUBSET Rights
  BY DEF Kinds, Rights
<1>4. g = [fs EXCEPT ![i] = [lookup |-> l, usage |-> need]]
  BY <1>1, <1>2 DEF Filled
<1>5. g \in [0 .. FastCount - 1 -> [lookup : Lookup, usage : SUBSET Rights]]
  BY <1>3, <1>4 DEF CacheTypes
<1>6. g[i].lookup = l /\ g[i].usage = need /\ \A j \in 0 .. FastCount - 1 : j # i => g[j] = fs[j]
  BY <1>4 DEF CacheTypes
<1>7. ASSUME CachesSound(vt, cs, fs), CacheSound(vt, l, need)
      PROVE  CachesSound(vt, cs, g)
  BY <1>6, <1>7 DEF CachesSound
<1> QED
  BY <1>2, <1>5, <1>7 DEF CacheTypes

\* A hit of the fast cache.
LEMMA HitIs ==
    ASSUME NEW cs, NEW fs, CacheTypes(cs, fs), NEW p \in Nat, NEW need \in Kinds, NEW n \in Nat,
           FastHit(fs, p, n, need), NEW r, r = Find(fs, p, n, need)
    PROVE  /\ r \in Lookup /\ Within(r, p, IF n = 0 THEN 1 ELSE n)
           /\ \A vt : CachesSound(vt, cs, fs) => CacheSound(vt, r, need)
<1>1. PICK i \in 0 .. FastCount - 1 : i = FastIndex(p, need)
  BY IndexIs
<1>2. fs[i].usage = need /\ Within(fs[i].lookup, p, IF n = 0 THEN 1 ELSE n)
  BY <1>1 DEF FastHit
<1>3. r = fs[i].lookup
  BY <1>1 DEF Find
<1>4. r \in Lookup
  BY <1>3 DEF CacheTypes
<1> QED
  BY <1>2, <1>3, <1>4 DEF CachesSound

-----------------------------------------------------------------------------
(* Accesses. *)

\* The three ways of an access: the cache, a lookup that covers it, or two lookups.
Ways(c, p, n, a, first, f1, second, need) ==
    \/ /\ Within(caches[c], p, n)
       /\ a.places = [i \in 0 .. n - 1 |-> caches[c].physical + (p - caches[c].address) + i]
       /\ a.caches = caches /\ a.fast = fast /\ a.marked = FALSE
    \/ /\ ~Within(caches[c], p, n) /\ Within(first, p, n)
       /\ a.places = [i \in 0 .. n - 1 |-> first.physical + (p - first.address) + i]
       /\ a.caches = [caches EXCEPT ![c] = first] /\ a.fast = f1
       /\ a.marked = (~FastHit(fast, p, n, need) /\ Marks(p, n, need))
    \/ /\ ~Within(caches[c], p, n) /\ ~Within(first, p, n)
       /\ DOMAIN a.places = 0 .. n - 1
       /\ a.caches = [caches EXCEPT ![c] = second] /\ a.fast = Filled(f1, p + 1, need, second)
       /\ a.marked = Marks(p, n, need)

\* An access goes one of them.
LEMMA AccessCases ==
    ASSUME NEW c, NEW p, NEW n, NEW a, a = Access(c, p, n),
           NEW first, first = Find(fast, p, n, Need(c)),
           NEW f1, f1 = Filled(fast, p, Need(c), first),
           NEW second, second = Find(f1, p + 1, 0, Need(c))
    PROVE  Ways(c, p, n, a, first, f1, second, Need(c))
<1> DEFINE at(l)  == [i \in 0 .. n - 1 |-> l.physical + (p - l.address) + i]
           B == [places |-> at(caches[c]), caches |-> caches, fast |-> fast, marked |-> FALSE]
           C == [places |-> at(first), caches |-> [caches EXCEPT ![c] = first], fast |-> f1,
                 marked |-> ~FastHit(fast, p, n, Need(c)) /\ Marks(p, n, Need(c))]
           D == [places |-> [i \in 0 .. n - 1 |-> IF i = 0 THEN at(first)[0] ELSE second.physical],
                 caches |-> [caches EXCEPT ![c] = second],
                 fast |-> Filled(f1, p + 1, Need(c), second),
                 marked |-> Marks(p, n, Need(c))]
<1>1. a = CASE Within(caches[c], p, n) -> B
            [] ~Within(caches[c], p, n) /\ Within(first, p, n) -> C
            [] OTHER -> D
  BY Zenon DEF Access
<1>2. CASE Within(caches[c], p, n)
  <2> HIDE DEF B, C, D
  <2>1. a = B
    BY <1>1, <1>2
  <2> QED
    BY <1>2, <2>1 DEF B, Ways
<1>3. CASE ~Within(caches[c], p, n) /\ Within(first, p, n)
  <2> HIDE DEF B, C, D
  <2>1. a = C
    BY <1>1, <1>3
  <2> QED
    BY <1>3, <2>1 DEF C, Ways
<1>4. CASE ~Within(caches[c], p, n) /\ ~Within(first, p, n)
  <2> HIDE DEF B, C, D
  <2>1. a = D
    BY <1>1, <1>4
  <2> QED
    BY <1>4, <2>1 DEF D, Ways
<1> QED
  BY <1>2, <1>3, <1>4 DEF Ways

\* What is needed for an access, and that it is one of the kinds the fast cache tells apart.
LEMMA NeedIs ==
    ASSUME NEW c \in Caches
    PROVE  Need(c) \in Kinds /\ ("write" \in Need(c) <=> c = "store")
<1>1. CASE c = "load"
  BY <1>1 DEF Need, Kinds
<1>2. CASE c = "store"
  BY <1>2 DEF Need, Kinds
<1>3. CASE c = "fetch"
  BY <1>3 DEF Need, Kinds
<1> QED
  BY <1>1, <1>2, <1>3 DEF Caches

\* the pages of an access are there and allow it
Allows(vt, p, n, need) == \A q \in Int : p <= q /\ q < p + n => Holds(vt, q) /\ need \subseteq UsageIn(vt, q)

\* The pages of a granted range allow the access, and the other way round.
LEMMA GrantedIs ==
    ASSUME NEW e, Sound(virt, phys, e), NEW p \in Nat, NEW n \in Nat, NEW need
    PROVE  Granted(p, n, need) <=> Allows(virt, p, n, need)
<1>1. \A q \in Int : q \in Mapped <=> Holds(virt, q)
  BY PlacesAre, MemoryAssumption DEF Mapped, Pages
<1>2. \A q : UsageOf(q) = UsageIn(virt, q)
  BY DEF UsageOf, UsageIn
<1>3. \A q : q \in p .. p + n - 1 <=> q \in Int /\ p <= q /\ q < p + n
  OBVIOUS
<1> QED
  BY <1>1, <1>2, <1>3 DEF Granted, Allows

\* An access that is let through is allowed by its pages, whichever cache said so.
LEMMA AllowedIs ==
    ASSUME NEW e, Sound(virt, phys, e), CacheTypes(caches, fast), CachesSound(virt, caches, fast),
           NEW c \in Caches, NEW p \in Nat, NEW n \in {1, 2}, Allowed(c, p, n)
    PROVE  Allows(virt, p, n, Need(c))
<1>1. Need(c) \in Kinds
  BY NeedIs
<1>2. ASSUME NEW l \in Lookup, Covers(virt, l, Need(c)), Within(l, p, n)
      PROVE  Allows(virt, p, n, Need(c))
  <2>1. l.address \in Nat /\ l.size \in Nat
    BY DEF Lookup
  <2>2. l.address <= p /\ p + n <= l.address + l.size
    BY <1>2 DEF Within
  <2>3. ASSUME NEW q \in Int, p <= q, q < p + n
        PROVE  l.address <= q /\ q < l.address + l.size
    BY <2>1, <2>2, <2>3
  <2> QED
    BY <1>2, <2>3 DEF Covers, Allows
<1>3. CASE Within(caches[c], p, n)
  BY <1>2, <1>3 DEF CacheTypes, CachesSound, CacheSound
<1>4. CASE FastHit(fast, p, n, Need(c))
  <2>1. PICK r : r = Find(fast, p, n, Need(c))
    OBVIOUS
  <2>2. n \in Nat /\ (IF n = 0 THEN 1 ELSE n) = n
    OBVIOUS
  <2>3. r \in Lookup /\ Within(r, p, n) /\ CacheSound(virt, r, Need(c))
    BY <1>1, <1>4, <2>1, <2>2, HitIs
  <2> QED
    BY <1>2, <2>3 DEF CacheSound
<1>5. CASE Granted(p, n, Need(c))
  BY <1>5, GrantedIs
<1> QED
  BY <1>3, <1>4, <1>5 DEF Allowed

\* where an access should end
Lands(vt, p, n, places) == \A i \in 0 .. n - 1 : places[i] = PlaceIn(vt, p + i)

\* none of the pages can be executed
PlainPages(vt, p, n) == \A q \in Int : p <= q /\ q < p + n => "execute" \notin UsageIn(vt, q)

\* A sound lookup that covers an access leads to its pages.
LEMMA LandsIs ==
    ASSUME NEW vt, NEW l \in Lookup, NEW need, Covers(vt, l, need), NEW p \in Nat, NEW n \in {1, 2}, Within(l, p, n),
           NEW places, places = [i \in 0 .. n - 1 |-> l.physical + (p - l.address) + i]
    PROVE  /\ Lands(vt, p, n, places)
           /\ Plain(vt, l) => PlainPages(vt, p, n)
<1>1. l.address \in Nat /\ l.size \in Nat /\ l.physical \in Nat
  BY DEF Lookup
<1>2. l.address <= p /\ p + n <= l.address + l.size
  BY DEF Within
<1>3. ASSUME NEW q \in Int, p <= q, q < p + n
      PROVE  l.address <= q /\ q < l.address + l.size
  BY <1>1, <1>2, <1>3
<1>4. ASSUME NEW i \in 0 .. n - 1
      PROVE  places[i] = PlaceIn(vt, p + i)
  <2>1. places[i] = l.physical + (p - l.address) + i
    OBVIOUS
  <2>2. p + i \in Int /\ p <= p + i /\ p + i < p + n
    BY <1>4
  <2>3. PlaceIn(vt, p + i) = l.physical + ((p + i) - l.address)
    BY <1>3, <2>2 DEF Covers
  <2> QED
    BY <1>1, <2>1, <2>2, <2>3
<1> QED
  BY <1>3, <1>4 DEF Lands, Plain, PlainPages

\* A page that was granted and not marked cannot be executed.
LEMMA NotMarked ==
    ASSUME NEW e, Sound(virt, phys, e), NEW p \in Nat, NEW n \in {1, 2}, NEW need, Granted(p, n, need),
           DetectWrites, "write" \in need
    PROVE  Marks(p, n, need) <=> ~PlainPages(virt, p, n)
<1>1. ASSUME NEW i \in 1 .. n
      PROVE  Granted(p, i, need) /\ (Executable(virt[SlotAt(virt, p + i - 1)])
                                        <=> "execute" \in UsageIn(virt, p + i - 1))
  <2>1. \A q : q \in p .. p + i - 1 => q \in p .. p + n - 1
    BY <1>1
  <2> QED
    BY <2>1 DEF Granted, Executable, UsageIn
<1>2. Marks(p, n, need) <=> \E i \in 1 .. n : "execute" \in UsageIn(virt, p + i - 1)
  BY <1>1 DEF Marks
<1>3. ASSUME NEW i \in 1 .. n
      PROVE  p + i - 1 \in Int /\ p <= p + i - 1 /\ p + i - 1 < p + n
  BY <1>3
<1>4. ASSUME NEW q \in Int, p <= q, q < p + n
      PROVE  \E i \in 1 .. n : q = p + i - 1
  <2>1. q - p + 1 \in 1 .. n /\ q = p + (q - p + 1) - 1
    BY <1>4
  <2> QED
    BY <2>1
<1> QED
  BY <1>2, <1>3, <1>4 DEF PlainPages

\* An access that is let through ends in the pages it asks for and leaves the caches sound, unless it is
\* a store over two pages to detected executable memory, which flushes them.
LEMMA AccessIs ==
    ASSUME NEW e, Sound(virt, phys, e), CacheTypes(caches, fast), CachesSound(virt, caches, fast),
           NEW c \in Caches, NEW p \in Nat, NEW n \in {1, 2}, Allowed(c, p, n),
           NEW a, a = Access(c, p, n)
    PROVE  /\ CacheTypes(a.caches, a.fast)
           /\ DOMAIN a.places = 0 .. n - 1
           /\ Lands(virt, p, n, a.places) \/ (DetectWrites /\ n = 2 /\ a.marked)
           /\ ~a.marked => CachesSound(virt, a.caches, a.fast)
           /\ a.marked => c = "store"
           /\ DetectWrites /\ c = "store" /\ ~a.marked => PlainPages(virt, p, n)
<1>0. PICK need : need = Need(c)
  OBVIOUS
<1>1. PICK first : first = Find(fast, p, n, need)
  OBVIOUS
<1>2. PICK f1 : f1 = Filled(fast, p, need, first)
  OBVIOUS
<1>3. PICK second : second = Find(f1, p + 1, 0, need)
  OBVIOUS
<1>4. Allows(virt, p, n, need) /\ need \in Kinds /\ ("write" \in need <=> c = "store") /\ n \in Nat /\ p \in Int
  BY <1>0, AllowedIs, NeedIs
<1>5. Holds(virt, p) /\ need \subseteq UsageIn(virt, p)
  BY <1>4 DEF Allows
<1>6. /\ first \in Lookup
      /\ FastHit(fast, p, n, need) => Within(first, p, n) /\ CacheSound(virt, first, need)
      /\ ~FastHit(fast, p, n, need) =>
            /\ first.address <= p /\ p < first.address + first.size
            /\ Covers(virt, first, need)
            /\ DetectWrites /\ "write" \in need /\ "execute" \notin UsageIn(virt, p) => Plain(virt, first)
            /\ Holds(virt, p + 1) /\ need \subseteq UsageIn(virt, p + 1) /\ first.address + first.size <= p + 1 =>
                    DetectWrites /\ "write" \in need /\ "execute" \in UsageIn(virt, p + 1)
  <2>1. CASE FastHit(fast, p, n, need)
    <3>1. (IF n = 0 THEN 1 ELSE n) = n
      OBVIOUS
    <3> QED
      BY <1>1, <1>4, <2>1, <3>1, HitIs
  <2>2. CASE ~FastHit(fast, p, n, need)
    <3>1. first = ConstructLookup(SlotAt(virt, p), need)
      BY <1>1, <2>2 DEF Find
    <3> QED
      BY <1>4, <1>5, <2>2, <3>1, LookupIs
  <2> QED
    BY <2>1, <2>2
<1>7. CacheTypes(caches, f1)
  BY <1>2, <1>4, <1>6, FilledIs
<1>8. \/ /\ Within(caches[c], p, n)
         /\ a.places = [i \in 0 .. n - 1 |-> caches[c].physical + (p - caches[c].address) + i]
         /\ a.caches = caches /\ a.fast = fast /\ a.marked = FALSE
      \/ /\ ~Within(caches[c], p, n) /\ Within(first, p, n)
         /\ a.places = [i \in 0 .. n - 1 |-> first.physical + (p - first.address) + i]
         /\ a.caches = [caches EXCEPT ![c] = first] /\ a.fast = f1
         /\ a.marked = (~FastHit(fast, p, n, need) /\ Marks(p, n, need))
      \/ /\ ~Within(caches[c], p, n) /\ ~Within(first, p, n)
         /\ DOMAIN a.places = 0 .. n - 1
         /\ a.caches = [caches EXCEPT ![c] = second] /\ a.fast = Filled(f1, p + 1, need, second)
         /\ a.marked = Marks(p, n, need)
  <2>1. first = Find(fast, p, n, Need(c)) /\ f1 = Filled(fast, p, Need(c), first) /\ second = Find(f1, p + 1, 0, Need(c))
    BY <1>0, <1>1, <1>2, <1>3, Zenon
  <2>2. Ways(c, p, n, a, first, f1, second, Need(c))
    BY <2>1, AccessCases, Zenon
  <2> QED
    BY <1>0, <2>2 DEF Ways
<1>9. Marks(p, n, need) => DetectWrites /\ "write" \in need
  BY DEF Marks
<1>10. CASE Within(caches[c], p, n)
  <2>1. /\ a.places = [i \in 0 .. n - 1 |-> caches[c].physical + (p - caches[c].address) + i]
        /\ a.caches = caches /\ a.fast = fast /\ a.marked = FALSE
    BY <1>8, <1>10
  <2>2. CacheSound(virt, caches[c], need)
    BY <1>0 DEF CachesSound
  <2>3. /\ caches[c] \in Lookup /\ Covers(virt, caches[c], need)
        /\ DetectWrites /\ "write" \in need => Plain(virt, caches[c])
    BY <2>2 DEF CacheSound
  <2>4. Lands(virt, p, n, a.places) /\ (Plain(virt, caches[c]) => PlainPages(virt, p, n))
    <3>1. PICK l : l = caches[c]
      OBVIOUS
    <3>2. /\ l \in Lookup /\ Covers(virt, l, need) /\ Within(l, p, n)
          /\ a.places = [i \in 0 .. n - 1 |-> l.physical + (p - l.address) + i]
      BY <1>10, <2>1, <2>3, <3>1
    <3>3. Lands(virt, p, n, a.places) /\ (Plain(virt, l) => PlainPages(virt, p, n))
      BY <3>2, LandsIs
    <3> QED
      BY <3>1, <3>3
  <2> QED
    BY <1>4, <2>1, <2>3, <2>4
<1>11. CASE ~Within(caches[c], p, n) /\ Within(first, p, n)
  <2>1. /\ a.places = [i \in 0 .. n - 1 |-> first.physical + (p - first.address) + i]
        /\ a.caches = [caches EXCEPT ![c] = first] /\ a.fast = f1
        /\ a.marked = (~FastHit(fast, p, n, need) /\ Marks(p, n, need))
    BY <1>8, <1>11
  <2>2. Covers(virt, first, need)
    BY <1>6 DEF CacheSound
  <2>3. Lands(virt, p, n, a.places) /\ (Plain(virt, first) => PlainPages(virt, p, n))
    <3>1. a.places = [i \in 0 .. n - 1 |-> first.physical + (p - first.address) + i]
      BY <2>1
    <3>2. first \in Lookup /\ Within(first, p, n)
      BY <1>6, <1>11
    <3> QED
      BY <2>2, <3>1, <3>2, LandsIs
  <2>4. ASSUME ~a.marked, DetectWrites, "write" \in need
        PROVE  Plain(virt, first)
    <3>1. CASE FastHit(fast, p, n, need)
      BY <1>6, <2>4, <3>1 DEF CacheSound
    <3>2. CASE ~FastHit(fast, p, n, need)
      <4>1. Granted(p, n, need)
        BY <1>0, <1>11, <3>2 DEF Allowed
      <4>2. PlainPages(virt, p, n)
        BY <2>1, <2>4, <3>2, <4>1, NotMarked
      <4>3. "execute" \notin UsageIn(virt, p)
        BY <1>4, <4>2 DEF PlainPages
      <4> QED
        BY <1>6, <2>4, <3>2, <4>3
    <3> QED
      BY <3>1, <3>2
  <2>5. ~a.marked => CacheSound(virt, first, need)
    BY <1>6, <2>2, <2>4 DEF CacheSound
  <2>6. CacheTypes(a.caches, a.fast)
    BY <1>6, <1>7, <2>1 DEF CacheTypes
  <2>7. ASSUME ~a.marked
        PROVE  CachesSound(virt, a.caches, a.fast)
    <3>1. CachesSound(virt, caches, f1)
      BY <1>2, <1>4, <1>6, <2>5, <2>7, FilledIs
    <3>2. \A d \in Caches : a.caches[d] = IF d = c THEN first ELSE caches[d]
      BY <2>1 DEF CacheTypes
    <3>3. \A d \in Caches : CacheSound(virt, a.caches[d], Need(d))
      BY <1>0, <2>5, <2>7, <3>1, <3>2 DEF CachesSound
    <3> QED
      BY <2>1, <3>1, <3>3 DEF CachesSound
  <2>8. DOMAIN a.places = 0 .. n - 1
    BY <2>1
  <2>9. a.marked => c = "store"
    BY <1>4, <1>9, <2>1
  <2>10. DetectWrites /\ c = "store" /\ ~a.marked => PlainPages(virt, p, n)
    BY <1>4, <2>3, <2>4
  <2> QED
    BY <2>3, <2>6, <2>7, <2>8, <2>9, <2>10
<1>12. CASE ~Within(caches[c], p, n) /\ ~Within(first, p, n)
  <2>1. /\ DOMAIN a.places = 0 .. n - 1
        /\ a.caches = [caches EXCEPT ![c] = second] /\ a.fast = Filled(f1, p + 1, need, second)
        /\ a.marked = Marks(p, n, need)
    BY <1>8, <1>12
  <2>2. ~FastHit(fast, p, n, need)
    BY <1>6, <1>12
  <2>3. Granted(p, n, need)
    BY <1>0, <1>12, <2>2 DEF Allowed
  <2>4. first.address \in Nat /\ first.size \in Nat
    BY <1>6 DEF Lookup
  <2>5. n = 2 /\ first.address + first.size <= p + 1
    BY <1>6, <1>12, <2>2, <2>4 DEF Within
  <2>6. Holds(virt, p + 1) /\ need \subseteq UsageIn(virt, p + 1)
    BY <1>4, <2>5 DEF Allows
  <2>7. DetectWrites /\ "write" \in need /\ "execute" \in UsageIn(virt, p + 1)
    BY <1>6, <2>2, <2>5, <2>6
  <2>8. a.marked
    <3>1. ~PlainPages(virt, p, n)
      BY <1>4, <2>5, <2>7 DEF PlainPages
    <3> QED
      BY <2>1, <2>3, <2>7, <3>1, NotMarked
  <2>9. second \in Lookup
    <3>1. CASE FastHit(f1, p + 1, 0, need)
      BY <1>3, <1>4, <1>7, <3>1, HitIs
    <3>2. CASE ~FastHit(f1, p + 1, 0, need)
      <4>1. second = ConstructLookup(SlotAt(virt, p + 1), need)
        BY <1>3, <3>2 DEF Find
      <4> QED
        BY <1>4, <2>6, <4>1, LookupIs
    <3> QED
      BY <3>1, <3>2
  <2>10. CacheTypes(a.caches, a.fast)
    <3>0. PICK p1 \in Nat : p1 = p + 1
      OBVIOUS
    <3>1. CacheTypes(caches, Filled(f1, p + 1, need, second))
      BY <1>4, <1>7, <2>9, <3>0, FilledIs
    <3> QED
      BY <2>1, <2>9, <3>1 DEF CacheTypes
  <2> QED
    BY <1>4, <2>1, <2>5, <2>7, <2>8, <2>10
<1> QED
  BY <1>10, <1>11, <1>12

-----------------------------------------------------------------------------
(* The caches after a step. *)

\* neither the slots nor the caches nor the contents are touched, and the application may have ended
Untouched ==
    /\ virt' = virt /\ data' = data /\ caches' = caches /\ fast' = fast
    /\ fault' = fault \/ fault' \in {"dangling", "erased"}

\* A movement flushes the caches, or nothing is moved.
LEMMA MoveEnds ==
    ASSUME NEW a, NEW n, NEW u, MapMove(a, n, u)
    PROVE  FlushCaches \/ Untouched
BY Zenon DEF MapMove, Settle, slotVars, cacheVars, Untouched

\* Mapping pages flushes the caches, or nothing is mapped.
LEMMA MapEnds ==
    ASSUME NEW a, NEW n, NEW u, MMap(a, n, u)
    PROVE  Running /\ (FlushCaches \/ Untouched)
<1>1. \/ \E prev, next : MapBetween(prev, next, n, u)
      \/ \E prev, growth : MapExpand(prev, n, u, growth)
      \/ MapMove(a, n, u)
  BY Zenon DEF MMap
<1>2. Running
  BY DEF MMap
<1>3. CASE \E prev, next : MapBetween(prev, next, n, u)
  BY <1>2, <1>3, Zenon DEF MapBetween
<1>4. CASE \E prev, growth : MapExpand(prev, n, u, growth)
  BY <1>2, <1>4, Zenon DEF MapExpand
<1>5. CASE MapMove(a, n, u)
  BY <1>2, <1>5, MoveEnds
<1> QED
  BY <1>1, <1>3, <1>4, <1>5

\* Flushed caches describe nothing; if the check of the consistency fails nothing is flushed.
LEMMA FlushedSound ==
    ASSUME FlushCaches, CacheTypes(caches, fast)
    PROVE  /\ CacheTypes(caches', fast')
           /\ fault' = "none" => CachesSound(virt', caches', fast')
           /\ fault' \in {"none", "inconsistent"}
<1>1. \/ caches' = NoCaches /\ fast' = NoFast /\ fault' = "none"
      \/ caches' = caches /\ fast' = fast /\ fault' = "inconsistent"
  BY DEF FlushCaches, cacheVars
<1>2. CASE caches' = NoCaches /\ fast' = NoFast /\ fault' = "none"
  BY <1>2, NoneSound
<1>3. CASE caches' = caches /\ fast' = fast /\ fault' = "inconsistent"
  BY <1>3
<1> QED
  BY <1>1, <1>2, <1>3

\* whatever the guest finds in the caches is so
CachesInv == CacheTypes(caches, fast) /\ (Running => CachesSound(virt, caches, fast))

AccessInv == MemorySound /\ CachesInv

\* Spans are of one page or two.
LEMMA SpansAre ==
    ASSUME NEW p \in Pages, NEW n \in Spans
    PROVE  p \in Nat /\ n \in {1, 2} /\ (n = 2 => Straddling)
BY MemoryAssumption DEF Pages, Spans

\* Flushed caches are sound, and so are untouched ones.
LEMMA EndsKeep ==
    ASSUME CachesInv, Running, FlushCaches \/ Untouched
    PROVE  CachesInv'
<1>1. CASE FlushCaches
  BY <1>1, FlushedSound DEF CachesInv, Running
<1>2. CASE Untouched
  <2>1. fault' = "none" => virt' = virt /\ caches' = caches /\ fast' = fast
    BY <1>2 DEF Untouched
  <2>2. caches' = caches /\ fast' = fast
    BY <1>2 DEF Untouched
  <2> QED
    BY <2>1, <2>2 DEF CachesInv, Running
<1> QED
  BY <1>1, <1>2

\* The steps which change neither slots nor caches.
LEMMA CachesKept ==
    ASSUME CachesInv, virt' = virt, caches' = caches, fast' = fast, fault' = fault
    PROVE  CachesInv'
BY DEF CachesInv, Running

\* An access fills the caches with what it found.
LEMMA FilledKeep ==
    ASSUME AccessInv, Running, NEW c \in Caches, NEW p \in Pages, NEW n \in Spans, Allowed(c, p, n),
           NEW a, a = Access(c, p, n), virt' = virt, caches' = a.caches, fast' = a.fast, ~a.marked
    PROVE  CachesInv'
<1>1. PICK e \in Nat : Sound(virt, phys, e)
  BY DEF AccessInv, MemorySound
<1>2. p \in Nat /\ n \in {1, 2}
  BY SpansAre
<1>3. CacheTypes(caches, fast) /\ CachesSound(virt, caches, fast)
  BY DEF AccessInv, CachesInv
<1>4. CacheTypes(a.caches, a.fast) /\ (~a.marked => CachesSound(virt, a.caches, a.fast))
  BY <1>1, <1>2, <1>3, AccessIs, ZenonT(90)
<1> QED
  BY <1>4 DEF CachesInv

\* Only stores are marked.
LEMMA MarkedIs ==
    ASSUME AccessInv, Running, NEW c \in Caches, NEW p \in Pages, NEW n \in Spans, Allowed(c, p, n),
           NEW a, a = Access(c, p, n), a.marked
    PROVE  c = "store"
<1>1. PICK e \in Nat : Sound(virt, phys, e)
  BY DEF AccessInv, MemorySound
<1>2. p \in Nat /\ n \in {1, 2}
  BY SpansAre
<1>3. CacheTypes(caches, fast) /\ CachesSound(virt, caches, fast)
  BY DEF AccessInv, CachesInv
<1>4. a.marked => c = "store"
  BY <1>1, <1>2, <1>3, AccessIs, ZenonT(90)
<1> QED
  BY <1>4

\* The caches are sound after every step.
LEMMA CachesStep ==
    ASSUME AccessInv, [Next]_vars
    PROVE  CachesInv'
<1>1. CachesInv
  BY DEF AccessInv
<1>2. CASE Call
  <2>1. PICK a, n : Munmap(a, n) \/ \E u \in Usages : MMap(a, n, u) \/ Mprotect(a, n, u)
    BY <1>2 DEF Call
  <2>2. Munmap(a, n) => Running /\ FlushCaches
    BY Zenon DEF Munmap
  <2>3. \A u \in Usages : Mprotect(a, n, u) => Running /\ FlushCaches
    BY Zenon DEF Mprotect
  <2> QED
    BY <1>1, <2>1, <2>2, <2>3, MapEnds, EndsKeep
<1>3. CASE Use
  <2>1. PICK p \in Pages : \/ Fetch(p)
                           \/ \E n \in Spans : \/ Load(p, n)
                                               \/ \E v \in Values : Store(p, n, v) \/ SystemWrite(p, n, v)
    BY <1>3 DEF Use
  <2>2. CASE Fetch(p)
    <3>1. Running /\ virt' = virt /\ fault' = fault
      BY <2>2, Zenon DEF Fetch, Guest, slotVars
    <3>2. PICK a : a = Access("fetch", p, 1)
      OBVIOUS
    <3>3. \/ Allowed("fetch", p, 1) /\ caches' = a.caches /\ fast' = a.fast
          \/ caches' = caches /\ fast' = fast
      BY <2>2, <3>2, Zenon DEF Fetch, cacheVars
    <3>4. 1 \in Spans /\ "fetch" \in Caches
      BY DEF Spans, Caches
    <3>5. CASE Allowed("fetch", p, 1) /\ caches' = a.caches /\ fast' = a.fast
      <4>1. ~a.marked
        BY <3>1, <3>2, <3>4, <3>5, MarkedIs
      <4> QED
        BY <3>1, <3>2, <3>4, <3>5, <4>1, FilledKeep
    <3> QED
      BY <1>1, <3>1, <3>3, <3>5, CachesKept
  <2>3. ASSUME NEW n \in Spans, Load(p, n)
        PROVE  CachesInv'
    <3>1. Running /\ virt' = virt /\ Allowed("load", p, n)
      BY <2>3, Zenon DEF Load, Guest, slotVars
    <3>2. PICK a : a = Access("load", p, n)
      OBVIOUS
    <3>3. caches' = a.caches /\ fast' = a.fast
      BY <2>3, <3>2, Zenon DEF Load
    <3>4. "load" \in Caches
      BY DEF Caches
    <3>5. ~a.marked
      BY <3>1, <3>2, <3>4, MarkedIs
    <3> QED
      BY <3>1, <3>2, <3>3, <3>4, <3>5, FilledKeep
  <2>4. ASSUME NEW n \in Spans, NEW v \in Values, Store(p, n, v)
        PROVE  CachesInv'
    <3>1. Running /\ virt' = virt /\ Allowed("store", p, n)
      BY <2>4, Zenon DEF Store, Guest, slotVars
    <3>2. PICK a : a = Access("store", p, n)
      OBVIOUS
    <3>3. \/ a.marked /\ FlushCaches
          \/ ~a.marked /\ caches' = a.caches /\ fast' = a.fast
      BY <2>4, <3>2, Zenon DEF Store, Dirty
    <3>4. "store" \in Caches
      BY DEF Caches
    <3>5. CASE a.marked /\ FlushCaches
      BY <1>1, <3>1, <3>5, EndsKeep
    <3>6. CASE ~a.marked /\ caches' = a.caches /\ fast' = a.fast
      BY <3>1, <3>2, <3>4, <3>6, FilledKeep
    <3> QED
      BY <3>3, <3>5, <3>6
  <2>5. ASSUME NEW n \in Spans, NEW v \in Values, SystemWrite(p, n, v)
        PROVE  CachesInv'
    <3>1. virt' = virt /\ caches' = caches /\ fast' = fast /\ fault' = fault
      BY <2>5, Zenon DEF SystemWrite, slotVars, cacheVars
    <3> QED
      BY <1>1, <3>1, CachesKept
  <2> QED
    BY <2>1, <2>2, <2>3, <2>4, <2>5
<1>4. CASE Fence
  <2>1. virt' = virt /\ caches' = caches /\ fast' = fast /\ fault' = fault
    BY <1>4, Zenon DEF Fence, slotVars, cacheVars
  <2> QED
    BY <1>1, <2>1, CachesKept
<1>5. CASE CheckXInvalidated
  BY <1>1, <1>5, EndsKeep DEF CheckXInvalidated, Dirty
<1>6. CASE UNCHANGED vars \/ Halted
  <2>1. virt' = virt /\ caches' = caches /\ fast' = fast /\ fault' = fault
    BY <1>6, Zenon DEF Halted, vars, slotVars, cacheVars
  <2> QED
    BY <1>1, <2>1, CachesKept
<1> QED
  BY <1>2, <1>3, <1>4, <1>5, <1>6 DEF Next

\* The caches are sound in every state: what they hold is of pages that lie in physical memory as they do in
\* the virtual one and allow the access, and with detection the cache for writes is of no executable page.
THEOREM AllCachesSound == Spec => []AccessInv
<1>1. Init => AccessInv
  BY SoundAtStart, NoneSound DEF Init, AccessInv, CachesInv
<1>2. AccessInv /\ [Next]_vars => AccessInv'
  BY SoundStep, CachesStep DEF AccessInv
<1> QED
  BY <1>1, <1>2, PTL DEF Spec

-----------------------------------------------------------------------------
(* Accesses end in their pages. *)

\* Except for a store over two pages of which the second is detected to be executable.
LEMMA SoundLands ==
    ASSUME AccessInv, ~(DetectWrites /\ Straddling)
    PROVE  AccessesLand
<1> SUFFICES ASSUME Running, NEW c \in Accesses \ {"write"}, NEW p \in Pages, NEW n \in Spans, Allowed(c, p, n)
             PROVE  /\ Granted(p, n, Need(c))
                    /\ \A i \in 0 .. n - 1 : Access(c, p, n).places[i] = Translate(p + i)
  BY DEF AccessesLand
<1>1. PICK e \in Nat : Sound(virt, phys, e)
  BY DEF AccessInv, MemorySound
<1>2. p \in Nat /\ n \in {1, 2} /\ n \in Nat /\ (n = 2 => Straddling)
  BY SpansAre
<1>3. CacheTypes(caches, fast) /\ CachesSound(virt, caches, fast)
  BY DEF AccessInv, CachesInv
<1>4. c \in Caches
  BY MemoryAssumption DEF Caches
<1>5. PICK need : need = Need(c)
  OBVIOUS
<1>6. Granted(p, n, need)
  BY <1>1, <1>2, <1>3, <1>4, <1>5, AllowedIs, GrantedIs
<1>7. PICK a : a = Access(c, p, n)
  OBVIOUS
<1>8. Lands(virt, p, n, a.places)
  BY <1>1, <1>2, <1>3, <1>4, <1>7, AccessIs, ZenonT(90)
<1>9. \A i \in 0 .. n - 1 : a.places[i] = Translate(p + i)
  BY <1>8 DEF Lands, PlaceIn, Translate
<1> QED
  BY <1>5, <1>6, <1>7, <1>9

\* Whatever is in the caches, an access by the guest ends up in the pages it asks for, and only if they
\* allow it (the wrappers of MemoryBuilder and fCacheLookup), unless the access could be a store which
\* straddles detected executable memory.
THEOREM AllAccessesLand ==
    ASSUME ~(DetectWrites /\ Straddling)
    PROVE  Spec => []AccessesLand
<1>1. AccessInv => AccessesLand
  BY SoundLands
<1> QED
  BY <1>1, AllCachesSound, PTL

-----------------------------------------------------------------------------
(* What accesses do to the contents. *)

\* the pages from p on are written, and no other
Overwrites(vt, d, c, p, n, v) ==
    \A q \in Int : Holds(vt, q) => c[PlaceIn(vt, q)] = IF p <= q /\ q < p + n THEN v ELSE d[PlaceIn(vt, q)]

\* Where an access lands its pages are written: no other page shares their place.
LEMMA WrittenIs ==
    ASSUME NEW e, Sound(virt, phys, e), NEW N, Sized(data, N), e <= N, NEW p \in Nat, NEW n \in {1, 2}, NEW v,
           NEW places, DOMAIN places = 0 .. n - 1, Lands(virt, p, n, places), Allows(virt, p, n, {"write"})
    PROVE  Overwrites(virt, data, Written(places, v), p, n, v)
<1> SUFFICES ASSUME NEW q \in Int, Holds(virt, q)
             PROVE  Written(places, v)[PlaceIn(virt, q)]
                        = IF p <= q /\ q < p + n THEN v ELSE data[PlaceIn(virt, q)]
  BY DEF Overwrites
<1>1. PICK x : x = PlaceIn(virt, q)
  OBVIOUS
<1>2. x \in DOMAIN data
  <2>1. x \in Nat /\ x < e
    BY <1>1, PlacesAre
  <2>2. e \in Nat
    BY DEF Sound, TiledTo
  <2> QED
    BY <2>1, <2>2 DEF Sized
<1>3. Written(places, v)[x] = IF \E i \in DOMAIN places : places[i] = x THEN v ELSE data[x]
  BY <1>2 DEF Written
<1>4. (\E i \in DOMAIN places : places[i] = x) <=> p <= q /\ q < p + n
  <2>1. ASSUME NEW i \in 0 .. n - 1
        PROVE  /\ p + i \in Int /\ p <= p + i /\ p + i < p + n
               /\ places[i] = PlaceIn(virt, p + i) /\ Holds(virt, p + i)
    <3>1. p + i \in Int /\ p <= p + i /\ p + i < p + n
      BY <2>1
    <3>2. Holds(virt, p + i)
      BY <3>1 DEF Allows
    <3>3. places[i] = PlaceIn(virt, p + i)
      BY DEF Lands
    <3> QED
      BY <3>1, <3>2, <3>3
  <2>2. ASSUME NEW i \in 0 .. n - 1, places[i] = x
        PROVE  p <= q /\ q < p + n
    <3>1. PICK r \in Int : r = p + i
      BY <2>1
    <3>2. Holds(virt, r) /\ PlaceIn(virt, r) = PlaceIn(virt, q) /\ p <= r /\ r < p + n
      BY <1>1, <2>1, <2>2, <3>1
    <3>3. r = q
      BY <3>2, PlacesAre
    <3> QED
      BY <3>2, <3>3
  <2>3. ASSUME p <= q, q < p + n
        PROVE  \E i \in 0 .. n - 1 : places[i] = x
    <3>1. PICK i \in 0 .. n - 1 : q = p + i
      <4>1. q - p \in 0 .. n - 1 /\ q = p + (q - p)
        BY <2>3
      <4> QED
        BY <4>1
    <3>2. places[i] = x
      BY <1>1, <2>1, <3>1
    <3> QED
      BY <3>2
  <2> QED
    BY <2>2, <2>3
<1> QED
  BY <1>1, <1>3, <1>4

\* A store writes what it is allowed to and nothing else; or, with detection, the translations are dropped.
LEMMA StoreIs ==
    ASSUME AccessInv, NEW p \in Pages, NEW n \in Spans, NEW v, Store(p, n, v)
    PROVE  /\ Running /\ virt' = virt /\ Allows(virt, p, n, {"write"})
           /\ ~(DetectWrites /\ Straddling) => Overwrites(virt, data, data', p, n, v)
           /\ \/ translated' = Nothing
              \/ /\ translated' = translated /\ xInvalid' = xInvalid
                 /\ Overwrites(virt, data, data', p, n, v)
                 /\ DetectWrites => PlainPages(virt, p, n)
<1>1. Running /\ virt' = virt /\ Allowed("store", p, n)
  BY Zenon DEF Store, Guest, slotVars
<1>2. PICK a : a = Access("store", p, n)
  OBVIOUS
<1>3. /\ data' = Written(a.places, v)
      /\ \/ a.marked /\ translated' = Nothing
         \/ ~a.marked /\ xInvalid' = xInvalid /\ translated' = translated
  BY <1>2, Zenon DEF Store, Dirty
<1>4. PICK e \in Nat, N \in Nat : e <= N /\ Sized(data, N) /\ Sound(virt, phys, e)
  BY DEF AccessInv, MemorySound
<1>5. p \in Nat /\ n \in {1, 2} /\ (n = 2 => Straddling)
  BY SpansAre
<1>6. CacheTypes(caches, fast) /\ CachesSound(virt, caches, fast)
  BY <1>1 DEF AccessInv, CachesInv
<1>7. "store" \in Caches /\ Need("store") = {"write"}
  BY DEF Caches, Need
<1>8. Allows(virt, p, n, {"write"})
  <2>1. Allows(virt, p, n, Need("store"))
    BY <1>1, <1>4, <1>5, <1>6, <1>7, AllowedIs
  <2> QED
    BY <1>7, <2>1
<1>9. /\ DOMAIN a.places = 0 .. n - 1
      /\ Lands(virt, p, n, a.places) \/ (DetectWrites /\ n = 2 /\ a.marked)
      /\ DetectWrites /\ ~a.marked => PlainPages(virt, p, n)
  <2>1. PICK c : c = "store"
    OBVIOUS
  <2>2. c \in Caches /\ Allowed(c, p, n) /\ a = Access(c, p, n)
    BY <1>1, <1>2, <1>7, <2>1
  <2>3. /\ DOMAIN a.places = 0 .. n - 1
        /\ Lands(virt, p, n, a.places) \/ (DetectWrites /\ n = 2 /\ a.marked)
        /\ DetectWrites /\ c = "store" /\ ~a.marked => PlainPages(virt, p, n)
    <3>1. Sound(virt, phys, e)
      BY <1>4
    <3> QED
      BY <1>5, <1>6, <2>2, <3>1, AccessIs, ZenonT(90)
  <2> QED
    BY <2>1, <2>3
<1>10. Lands(virt, p, n, a.places) => Overwrites(virt, data, data', p, n, v)
  BY <1>3, <1>4, <1>5, <1>8, <1>9, WrittenIs
<1> QED
  BY <1>1, <1>3, <1>5, <1>8, <1>9, <1>10

\* A write by a system call writes what it is allowed to and nothing else, or nothing at all.
LEMMA SystemWriteIs ==
    ASSUME AccessInv, NEW p \in Pages, NEW n \in Spans, NEW v, SystemWrite(p, n, v)
    PROVE  /\ virt' = virt /\ translated' = translated /\ fault' = fault
           /\ \/ data' = data
              \/ Allows(virt, p, n, {"write"}) /\ Overwrites(virt, data, data', p, n, v)
           /\ ~xInvalid' => ~xInvalid /\ (DetectWrites => data' = data \/ PlainPages(virt, p, n))
           /\ xInvalid \in BOOLEAN => xInvalid' \in BOOLEAN
<1>1. virt' = virt /\ translated' = translated /\ fault' = fault
  BY Zenon DEF SystemWrite, slotVars
<1>2. xInvalid' = (xInvalid \/ Marks(p, n, {"write"}))
  BY Zenon DEF SystemWrite
<1>3. PICK e \in Nat, N \in Nat : e <= N /\ Sized(data, N) /\ Sound(virt, phys, e)
  BY DEF AccessInv, MemorySound
<1>4. p \in Nat /\ n \in {1, 2} /\ n \in Nat
  BY SpansAre
<1>5. PICK need : need = {"write"}
  OBVIOUS
<1>6. CASE ~Granted(p, n, need)
  <2>1. data' = data
    BY <1>5, <1>6, Zenon DEF SystemWrite
  <2> QED
    BY <1>1, <1>2, <2>1
<1>7. CASE Granted(p, n, need)
  <2>1. Allows(virt, p, n, need)
    BY <1>3, <1>4, <1>7, GrantedIs
  <2>2. PICK places : /\ data' = Written(places, v)
                      /\ places = [i \in 0 .. n - 1 |->
                            ConstructLookup(SlotAt(virt, p + i), need).physical
                                + ((p + i) - ConstructLookup(SlotAt(virt, p + i), need).address)]
    BY <1>5, <1>7, Zenon DEF SystemWrite
  <2>3. Lands(virt, p, n, places)
    <3> SUFFICES ASSUME NEW i \in 0 .. n - 1
                 PROVE  places[i] = PlaceIn(virt, p + i)
      BY DEF Lands
    <3>1. PICK q \in Int : q = p + i
      BY <1>4
    <3>2. p <= q /\ q < p + n
      BY <1>4, <3>1
    <3>3. Holds(virt, q) /\ need \subseteq UsageIn(virt, q)
      BY <2>1, <3>2 DEF Allows
    <3>4. PICK r : r = ConstructLookup(SlotAt(virt, q), need)
      OBVIOUS
    <3>5. r.address <= q /\ q < r.address + r.size /\ Covers(virt, r, need)
      BY <1>3, <3>3, <3>4, LookupIs
    <3>6. PlaceIn(virt, q) = r.physical + (q - r.address)
      BY <3>5 DEF Covers
    <3>7. places[i] = r.physical + (q - r.address)
      BY <2>2, <3>1, <3>4
    <3> QED
      BY <3>1, <3>6, <3>7
  <2>4. DOMAIN places = 0 .. n - 1
    BY <2>2
  <2>5. Allows(virt, p, n, {"write"})
    BY <1>5, <2>1
  <2>6. Overwrites(virt, data, data', p, n, v)
    BY <1>3, <1>4, <2>2, <2>3, <2>4, <2>5, WrittenIs
  <2>7. DetectWrites => (Marks(p, n, need) <=> ~PlainPages(virt, p, n))
    BY <1>3, <1>4, <1>5, <1>7, NotMarked
  <2>8. ~xInvalid' => ~xInvalid /\ ~Marks(p, n, need)
    BY <1>2, <1>5
  <2> QED
    BY <1>1, <1>2, <2>5, <2>6, <2>7, <2>8
<1> QED
  BY <1>6, <1>7

\* The translator reads the code that is there, or finds that there is none.
LEMMA FetchIs ==
    ASSUME AccessInv, NEW p \in Pages, Fetch(p)
    PROVE  /\ Running /\ virt' = virt /\ data' = data /\ xInvalid' = xInvalid /\ fault' = fault
           /\ p \notin DOMAIN translated
           /\ \E x : /\ translated' = Put(translated, p, x)
                     /\ \/ x = Stub
                        \/ Allows(virt, p, 1, {"execute"}) /\ x = data[PlaceIn(virt, p)]
<1>1. /\ Running /\ virt' = virt /\ data' = data /\ xInvalid' = xInvalid /\ fault' = fault
      /\ p \notin DOMAIN translated
  BY Zenon DEF Fetch, Guest, slotVars
<1>2. PICK a : a = Access("fetch", p, 1)
  OBVIOUS
<1>3. \/ Allowed("fetch", p, 1) /\ translated' = Put(translated, p, data[a.places[0]])
      \/ translated' = Put(translated, p, Stub)
  BY <1>2, Zenon DEF Fetch
<1>4. CASE Allowed("fetch", p, 1) /\ translated' = Put(translated, p, data[a.places[0]])
  <2>1. PICK e \in Nat : Sound(virt, phys, e)
    BY DEF AccessInv, MemorySound
  <2>2. p \in Nat
    BY MemoryAssumption DEF Pages
  <2>3. CacheTypes(caches, fast) /\ CachesSound(virt, caches, fast)
    BY <1>1 DEF AccessInv, CachesInv
  <2>4. PICK c, n : c = "fetch" /\ n = 1
    OBVIOUS
  <2>5. c \in Caches /\ Allowed(c, p, n) /\ a = Access(c, p, n) /\ n \in {1, 2} /\ Need(c) = {"execute"}
    BY <1>2, <1>4, <2>4 DEF Caches, Need
  <2>6. Allows(virt, p, n, Need(c))
    BY <2>1, <2>2, <2>3, <2>5, AllowedIs
  <2>7. Lands(virt, p, n, a.places) \/ (DetectWrites /\ n = 2 /\ a.marked)
    BY <2>1, <2>2, <2>3, <2>5, AccessIs, ZenonT(90)
  <2>8. a.places[0] = PlaceIn(virt, p + 0)
    BY <2>4, <2>7 DEF Lands
  <2>9. p + 0 = p
    BY <2>2
  <2>10. a.places[0] = PlaceIn(virt, p)
    BY <2>8, <2>9
  <2>11. Allows(virt, p, 1, {"execute"})
    BY <2>4, <2>5, <2>6
  <2> QED
    BY <1>1, <1>4, <2>10, <2>11
<1> QED
  BY <1>1, <1>3, <1>4

-----------------------------------------------------------------------------
(* Translations are of the code as it is. *)

\* the pages code was translated from hold it, and can be executed
CodeCurrent(vt, d, tr) ==
    \A p \in DOMAIN tr : tr[p] # Stub =>
        /\ Holds(vt, p) /\ "execute" \in UsageIn(vt, p)
        /\ DetectWrites => tr[p] = d[PlaceIn(vt, p)]

CodeInv ==
    /\ DOMAIN translated \subseteq Pages
    /\ Running /\ ~xInvalid => CodeCurrent(virt, data, translated)

\* Every page of a range is in one of the slots the range consists of once it is cut out.
LEMMA InsideIs ==
    ASSUME NEW e, Sound(virt, phys, e), NEW a \in Nat, NEW n \in Nat, NEW p \in Int, a <= p, p < a + n,
           Holds(virt, p)
    PROVE  \E k \in Inside(Cut(a, n), a, n) : Cut(a, n)[k].usage = UsageIn(virt, p)
<1>1. PICK vt : vt = VirtCut(VirtCut(virt, a), a + n)
  OBVIOUS
<1>2. vt = Cut(a, n)
  BY <1>1 DEF Cut
<1>3. /\ Laid(vt) /\ SamePages(virt, vt)
      /\ \A k \in DOMAIN vt : a <= k \/ EndOf(vt, k) <= a
  BY <1>1, CutOut DEF Sound
<1>4. Holds(vt, p) /\ UsageIn(vt, p) = UsageIn(virt, p)
  BY <1>3 DEF SamePages
<1>5. PICK k \in DOMAIN vt : k <= p /\ p < EndOf(vt, k)
  BY <1>4, HoldsIs
<1>6. k \in Nat /\ EndOf(vt, k) \in Nat /\ Ordered(vt)
  BY <1>3, LaidSlot DEF Laid
<1>7. vt[k].usage = UsageIn(virt, p)
  BY <1>4, <1>5, <1>6, PageIn
<1>8. k \in Inside(vt, a, n)
  BY <1>3, <1>5, <1>6 DEF Inside
<1> QED
  BY <1>2, <1>7, <1>8

\* Code is not unmapped without notice.
LEMMA MunmapCode ==
    ASSUME NEW e, Sound(virt, phys, e), NEW a \in Nat, NEW n \in Nat, Munmap(a, n), CodeInv
    PROVE  CodeInv'
<1>1. LessPages(virt, virt', a, n)
  BY MunmapKeeps
<1>2. Running /\ data' = data /\ translated' = translated
  BY Zenon DEF Munmap
<1>3. xInvalid' = (xInvalid \/ \E k \in Inside(Cut(a, n), a, n) : Executable(Cut(a, n)[k]))
  BY Zenon DEF Munmap
<1>4. DOMAIN translated' \subseteq Pages
  BY <1>2 DEF CodeInv
<1>5. ASSUME ~xInvalid', NEW p \in DOMAIN translated, translated[p] # Stub
      PROVE  /\ Holds(virt', p) /\ "execute" \in UsageIn(virt', p)
             /\ DetectWrites => translated[p] = data[PlaceIn(virt', p)]
  <2>1. ~xInvalid /\ \A k \in Inside(Cut(a, n), a, n) : ~Executable(Cut(a, n)[k])
    BY <1>3, <1>5
  <2>2. p \in Int /\ Holds(virt, p) /\ "execute" \in UsageIn(virt, p)
        /\ (DetectWrites => translated[p] = data[PlaceIn(virt, p)])
    BY <1>2, <1>5, <2>1 DEF CodeInv, CodeCurrent, Pages
  <2>3. ~(a <= p /\ p < a + n)
    BY <2>1, <2>2, InsideIs DEF Executable
  <2>4. p < a \/ a + n <= p
    BY <2>2, <2>3
  <2>5. Holds(virt', p) /\ UsageIn(virt', p) = UsageIn(virt, p) /\ PlaceIn(virt', p) = PlaceIn(virt, p)
    BY <1>1, <2>2, <2>4 DEF LessPages
  <2> QED
    BY <2>2, <2>5
<1> QED
  BY <1>2, <1>4, <1>5 DEF CodeInv, CodeCurrent

\* Code does not become anything else without notice.
LEMMA MprotectCode ==
    ASSUME NEW e, Sound(virt, phys, e), NEW a \in Nat, NEW n \in Nat, NEW u \in SUBSET Rights,
           Mprotect(a, n, u), CodeInv
    PROVE  CodeInv'
<1>1. OtherUsage(virt, virt', a, n, u)
  BY MprotectKeeps
<1>2. Running /\ data' = data /\ translated' = translated
  BY Zenon DEF Mprotect
<1>3. xInvalid' = (xInvalid \/ \E k \in Inside(Cut(a, n), a, n) :
                                    Executable(Cut(a, n)[k]) # Executable([usage |-> u]))
  BY Zenon DEF Mprotect
<1>4. DOMAIN translated' \subseteq Pages
  BY <1>2 DEF CodeInv
<1>5. ASSUME ~xInvalid', NEW p \in DOMAIN translated, translated[p] # Stub
      PROVE  /\ Holds(virt', p) /\ "execute" \in UsageIn(virt', p)
             /\ DetectWrites => translated[p] = data[PlaceIn(virt', p)]
  <2>1. ~xInvalid /\ \A k \in Inside(Cut(a, n), a, n) : "execute" \in Cut(a, n)[k].usage <=> "execute" \in u
    BY <1>3, <1>5 DEF Executable
  <2>2. p \in Int /\ Holds(virt, p) /\ "execute" \in UsageIn(virt, p)
        /\ (DetectWrites => translated[p] = data[PlaceIn(virt, p)])
    BY <1>2, <1>5, <2>1 DEF CodeInv, CodeCurrent, Pages
  <2>3. Holds(virt', p) /\ PlaceIn(virt', p) = PlaceIn(virt, p)
    BY <1>1, <2>2 DEF OtherUsage
  <2>4. CASE a <= p /\ p < a + n
    <3>1. "execute" \in u
      BY <2>1, <2>2, <2>4, InsideIs
    <3>2. UsageIn(virt', p) = u
      BY <1>1, <2>2, <2>4 DEF OtherUsage
    <3> QED
      BY <2>2, <2>3, <3>1, <3>2
  <2>5. CASE p < a \/ a + n <= p
    <3>1. UsageIn(virt', p) = UsageIn(virt, p)
      BY <1>1, <2>2, <2>5 DEF OtherUsage
    <3> QED
      BY <2>2, <2>3, <3>1
  <2> QED
    BY <2>2, <2>4, <2>5
<1> QED
  BY <1>2, <1>4, <1>5 DEF CodeInv, CodeCurrent

\* Code follows when its pages are moved to make room.
LEMMA MMapCode ==
    ASSUME NEW e, Sound(virt, phys, e), NEW N \in Nat, Sized(data, N), e <= N, NEW a \in Nat, NEW n \in Nat, n > 0,
           a + n <= PageCount, NEW u \in SUBSET Rights, MMap(a, n, u), CodeInv
    PROVE  CodeInv'
<1>0. e \in Nat
  BY DEF Sound, TiledTo
<1>1. \/ virt' = virt /\ data' = data
      \/ NewContents(virt, data, virt', data', a, n, u)
  BY <1>0, MMapKeeps
<1>2. Running /\ xInvalid' = xInvalid /\ translated' = translated
  BY Zenon DEF MMap
<1>3. \A k \in DOMAIN virt : VirtEnd(k) <= a \/ a + n <= k
  BY Zenon DEF MMap
<1>4. DOMAIN translated' \subseteq Pages
  BY <1>2 DEF CodeInv
<1>5. ASSUME ~xInvalid', NEW p \in DOMAIN translated, translated[p] # Stub
      PROVE  /\ Holds(virt', p) /\ "execute" \in UsageIn(virt', p)
             /\ DetectWrites => translated[p] = data'[PlaceIn(virt', p)]
  <2>1. p \in Int /\ Holds(virt, p) /\ "execute" \in UsageIn(virt, p)
        /\ (DetectWrites => translated[p] = data[PlaceIn(virt, p)])
    BY <1>2, <1>5 DEF CodeInv, CodeCurrent, Pages
  <2>2. PICK k \in DOMAIN virt : k <= p /\ p < EndOf(virt, k)
    BY <2>1, HoldsIs
  <2>3. k \in Nat /\ EndOf(virt, k) \in Nat
    BY LaidSlot DEF Sound
  <2>4. p < a \/ a + n <= p
    BY <1>3, <2>1, <2>2, <2>3 DEF VirtEnd
  <2>5. /\ Holds(virt', p) /\ UsageIn(virt', p) = UsageIn(virt, p)
        /\ data'[PlaceIn(virt', p)] = data[PlaceIn(virt, p)]
    BY <1>1, <2>1, <2>4 DEF NewContents
  <2> QED
    BY <2>1, <2>5
<1> QED
  BY <1>2, <1>4, <1>5 DEF CodeInv, CodeCurrent

\* Writing elsewhere does not change code.
LEMMA WriteCode ==
    ASSUME NEW p \in Nat, NEW n \in {1, 2}, NEW v, Overwrites(virt, data, data', p, n, v),
           DetectWrites => PlainPages(virt, p, n),
           DOMAIN translated \subseteq Pages, CodeCurrent(virt, data, translated)
    PROVE  CodeCurrent(virt, data', translated)
<1> SUFFICES ASSUME NEW q \in DOMAIN translated, translated[q] # Stub
             PROVE  /\ Holds(virt, q) /\ "execute" \in UsageIn(virt, q)
                    /\ DetectWrites => translated[q] = data'[PlaceIn(virt, q)]
  BY DEF CodeCurrent
<1>1. q \in Int /\ Holds(virt, q) /\ "execute" \in UsageIn(virt, q)
      /\ (DetectWrites => translated[q] = data[PlaceIn(virt, q)])
  BY DEF CodeCurrent, Pages
<1>2. DetectWrites => ~(p <= q /\ q < p + n)
  BY <1>1 DEF PlainPages
<1>3. DetectWrites => data'[PlaceIn(virt, q)] = data[PlaceIn(virt, q)]
  BY <1>1, <1>2 DEF Overwrites
<1> QED
  BY <1>1, <1>3

\* The translations are current after every step, once changed code was dealt with.
LEMMA CodeStep ==
    ASSUME AccessInv, CodeInv, [Next]_vars
    PROVE  CodeInv'
<1>1. PICK e \in Nat, N \in Nat : e <= N /\ Sized(data, N) /\ Sound(virt, phys, e)
  BY DEF AccessInv, MemorySound
<1>2. translated' = Nothing => CodeInv'
  BY DEF Nothing, CodeInv, CodeCurrent
<1>3. CASE Call
  <2>1. PICK a \in Pages : \E n \in 1 .. PageCount - a :
            Munmap(a, n) \/ \E u \in Usages : MMap(a, n, u) \/ Mprotect(a, n, u)
    BY <1>3 DEF Call
  <2>2. PICK n \in 1 .. PageCount - a :
            Munmap(a, n) \/ \E u \in Usages : MMap(a, n, u) \/ Mprotect(a, n, u)
    BY <2>1
  <2>3. a \in Nat /\ n \in Nat /\ n > 0 /\ a + n <= PageCount
    BY <2>2, MemoryAssumption DEF Pages
  <2>4. \A u \in Usages : u \in SUBSET Rights
    BY MemoryAssumption DEF Rights
  <2> QED
    BY <1>1, <2>2, <2>3, <2>4, MunmapCode, MprotectCode, MMapCode
<1>4. CASE Use
  <2>1. PICK p \in Pages : \/ Fetch(p)
                           \/ \E n \in Spans : \/ Load(p, n)
                                               \/ \E v \in Values : Store(p, n, v) \/ SystemWrite(p, n, v)
    BY <1>4 DEF Use
  <2>2. CASE Fetch(p)
    <3>1. PICK x : /\ virt' = virt /\ data' = data /\ xInvalid' = xInvalid /\ fault' = fault
                   /\ translated' = Put(translated, p, x)
                   /\ \/ x = Stub
                      \/ Allows(virt, p, 1, {"execute"}) /\ x = data[PlaceIn(virt, p)]
      BY <2>2, FetchIs
    <3>2. /\ DOMAIN translated' = DOMAIN translated \union {p}
          /\ translated'[p] = x /\ \A q \in DOMAIN translated : q # p => translated'[q] = translated[q]
      BY <3>1 DEF Put
    <3>3. x = Stub \/ (Holds(virt, p) /\ "execute" \in UsageIn(virt, p) /\ x = data[PlaceIn(virt, p)])
      <4>1. p \in Int /\ p <= p /\ p < p + 1
        BY MemoryAssumption DEF Pages
      <4> QED
        BY <3>1, <4>1 DEF Allows
    <3>4. CodeCurrent(virt, data, translated) => CodeCurrent(virt', data', translated')
      BY <3>1, <3>2, <3>3 DEF CodeCurrent
    <3> QED
      BY <3>1, <3>2, <3>4 DEF CodeInv, Running
  <2>3. ASSUME NEW n \in Spans, Load(p, n)
        PROVE  CodeInv'
    <3>1. virt' = virt /\ data' = data /\ xInvalid' = xInvalid /\ fault' = fault /\ translated' = translated
      BY <2>3, Zenon DEF Load, slotVars
    <3> QED
      BY <3>1 DEF CodeInv, Running
  <2>4. ASSUME NEW n \in Spans, NEW v \in Values, Store(p, n, v)
        PROVE  CodeInv'
    <3>1. p \in Nat /\ n \in {1, 2}
      BY SpansAre
    <3>2. /\ Running /\ virt' = virt
          /\ \/ translated' = Nothing
             \/ /\ translated' = translated /\ xInvalid' = xInvalid
                /\ Overwrites(virt, data, data', p, n, v)
                /\ DetectWrites => PlainPages(virt, p, n)
      BY <2>4, StoreIs
    <3>3. CASE translated' = translated /\ xInvalid' = xInvalid /\ Overwrites(virt, data, data', p, n, v)
               /\ (DetectWrites => PlainPages(virt, p, n))
      <4>1. CodeCurrent(virt, data, translated) => CodeCurrent(virt, data', translated)
        BY <3>1, <3>3, WriteCode DEF CodeInv
      <4> QED
        BY <3>2, <3>3, <4>1 DEF CodeInv
    <3> QED
      BY <1>2, <3>2, <3>3
  <2>5. ASSUME NEW n \in Spans, NEW v \in Values, SystemWrite(p, n, v)
        PROVE  CodeInv'
    <3>1. p \in Nat /\ n \in {1, 2}
      BY SpansAre
    <3>2. /\ virt' = virt /\ translated' = translated /\ fault' = fault
          /\ \/ data' = data
             \/ Allows(virt, p, n, {"write"}) /\ Overwrites(virt, data, data', p, n, v)
          /\ ~xInvalid' => ~xInvalid /\ (DetectWrites => data' = data \/ PlainPages(virt, p, n))
      BY <2>5, SystemWriteIs
    <3>3. CodeCurrent(virt, data, translated) /\ ~xInvalid' => CodeCurrent(virt, data', translated)
      BY <3>1, <3>2, WriteCode DEF CodeInv
    <3> QED
      BY <3>2, <3>3 DEF CodeInv, Running
  <2> QED
    BY <2>1, <2>2, <2>3, <2>4, <2>5
<1>5. CASE Fence \/ CheckXInvalidated
  BY <1>2, <1>5, Zenon DEF Fence, CheckXInvalidated, Dirty
<1>6. CASE UNCHANGED vars \/ Halted
  <2>1. virt' = virt /\ data' = data /\ xInvalid' = xInvalid /\ fault' = fault /\ translated' = translated
    BY <1>6, Zenon DEF Halted, vars, slotVars
  <2> QED
    BY <2>1 DEF CodeInv, Running
<1> QED
  BY <1>3, <1>4, <1>5, <1>6 DEF Next

\* When the guest runs, no translation is left of a page that cannot be executed any more, and with detection
\* none of a content that was overwritten (fMUnmap, fMProtect, fCheckLookup, CheckXInvalidated): every
\* change is noticed before the guest runs on, whatever was moved in between.
THEOREM AllTranslationsCurrent == Spec => []TranslationsCurrent
<1>1. Init => CodeInv
  BY DEF Init, Nothing, CodeInv, CodeCurrent
<1>2. AccessInv /\ CodeInv /\ [Next]_vars => CodeInv'
  BY CodeStep
<1>3. CodeInv => TranslationsCurrent
  <2>1. \A p \in Pages : Holds(virt, p) => p \in Mapped /\ UsageOf(p) = UsageIn(virt, p) /\ Translate(p) = PlaceIn(virt, p)
    BY DEF Mapped, UsageOf, UsageIn, Translate, PlaceIn
  <2> QED
    BY <2>1 DEF CodeInv, CodeCurrent, TranslationsCurrent
<1> QED
  BY <1>1, <1>2, <1>3, AllCachesSound, PTL DEF Spec

-----------------------------------------------------------------------------
(* Types. *)

Plainly ==
    /\ Valued(data) /\ xInvalid \in BOOLEAN
    /\ fault \in {"none", "inconsistent", "dangling", "erased"}

\* What is written is a value.
LEMMA WrittenValued ==
    ASSUME NEW places, NEW v \in Values, Valued(data)
    PROVE  Valued(Written(places, v))
BY DEF Valued, Written

\* A call leaves values and flags what they are.
LEMMA CallPlain ==
    ASSUME AccessInv, Plainly, Call
    PROVE  Plainly'
<1>1. PICK e \in Nat, N \in Nat : e <= N /\ Sized(data, N) /\ Sound(virt, phys, e)
  BY DEF AccessInv, MemorySound
<1>2. PICK a \in Pages : \E n \in 1 .. PageCount - a :
          Munmap(a, n) \/ \E u \in Usages : MMap(a, n, u) \/ Mprotect(a, n, u)
  BY DEF Call
<1>3. PICK n \in 1 .. PageCount - a : Munmap(a, n) \/ \E u \in Usages : MMap(a, n, u) \/ Mprotect(a, n, u)
  BY <1>2
<1>4. a \in Nat /\ n \in Nat /\ n > 0 /\ a + n <= PageCount
  BY <1>3, MemoryAssumption DEF Pages
<1>5. CacheTypes(caches, fast)
  BY DEF AccessInv, CachesInv
<1>6. CASE Munmap(a, n)
  <2>1. data' = data /\ FlushCaches
    BY <1>6, Zenon DEF Munmap
  <2>2. \E b : xInvalid' = (xInvalid \/ b)
    BY <1>6, Zenon DEF Munmap
  <2> QED
    BY <1>5, <2>1, <2>2, FlushedSound DEF Plainly
<1>7. ASSUME NEW u \in Usages, Mprotect(a, n, u)
      PROVE  Plainly'
  <2>1. data' = data /\ FlushCaches
    BY <1>7, Zenon DEF Mprotect
  <2>2. \E b : xInvalid' = (xInvalid \/ b)
    BY <1>7, Zenon DEF Mprotect
  <2> QED
    BY <1>5, <2>1, <2>2, FlushedSound DEF Plainly
<1>8. ASSUME NEW u \in Usages, MMap(a, n, u)
      PROVE  Plainly'
  <2>1. u \in SUBSET Rights
    BY MemoryAssumption DEF Rights
  <2>2. Valued(data')
    BY <1>1, <1>4, <1>8, <2>1, MMapKeeps DEF Plainly
  <2>3. xInvalid' = xInvalid
    BY <1>8, Zenon DEF MMap
  <2>4. FlushCaches \/ Untouched
    BY <1>8, MapEnds
  <2>5. fault' \in {"none", "inconsistent", "dangling", "erased"}
    BY <1>5, <2>4, FlushedSound DEF Untouched, Plainly
  <2> QED
    BY <2>2, <2>3, <2>5 DEF Plainly
<1> QED
  BY <1>3, <1>6, <1>7, <1>8

\* So does every step.
LEMMA PlainStep ==
    ASSUME AccessInv, Plainly, [Next]_vars
    PROVE  Plainly'
<1>1. CacheTypes(caches, fast)
  BY DEF AccessInv, CachesInv
<1>2. Dirty => /\ xInvalid' \in BOOLEAN
               /\ fault' \in {"none", "inconsistent", "dangling", "erased"}
  BY <1>1, FlushedSound DEF Dirty
<1>3. CASE Use
  <2>1. PICK p \in Pages : \/ Fetch(p)
                           \/ \E n \in Spans : \/ Load(p, n)
                                               \/ \E v \in Values : Store(p, n, v) \/ SystemWrite(p, n, v)
    BY <1>3 DEF Use
  <2>2. CASE Fetch(p)
    BY <2>2, FetchIs DEF Plainly
  <2>3. ASSUME NEW n \in Spans, Load(p, n)
        PROVE  Plainly'
    <3>1. data' = data /\ xInvalid' = xInvalid /\ fault' = fault
      BY <2>3, Zenon DEF Load
    <3> QED
      BY <3>1 DEF Plainly
  <2>4. ASSUME NEW n \in Spans, NEW v \in Values, Store(p, n, v)
        PROVE  Plainly'
    <3>1. \E places : data' = Written(places, v)
      BY <2>4, Zenon DEF Store
    <3>2. Valued(data')
      BY <3>1, WrittenValued DEF Plainly
    <3>3. Dirty \/ (xInvalid' = xInvalid /\ fault' = fault)
      BY <2>4, Zenon DEF Store
    <3> QED
      BY <1>2, <3>2, <3>3 DEF Plainly
  <2>5. ASSUME NEW n \in Spans, NEW v \in Values, SystemWrite(p, n, v)
        PROVE  Plainly'
    <3>1. data' = data \/ \E places : data' = Written(places, v)
      BY <2>5, Zenon DEF SystemWrite
    <3>2. Valued(data')
      BY <3>1, WrittenValued DEF Plainly
    <3>3. xInvalid' \in BOOLEAN /\ fault' = fault
      BY <2>5, SystemWriteIs DEF Plainly
    <3> QED
      BY <3>2, <3>3 DEF Plainly
  <2> QED
    BY <2>1, <2>2, <2>3, <2>4, <2>5
<1>4. CASE Fence \/ UNCHANGED vars \/ Halted
  <2>1. data' = data /\ xInvalid' = xInvalid /\ fault' = fault
    BY <1>4, Zenon DEF Fence, Halted, vars
  <2> QED
    BY <2>1 DEF Plainly
<1>5. CASE CheckXInvalidated
  <2>1. data' = data /\ Dirty
    BY <1>5, Zenon DEF CheckXInvalidated
  <2> QED
    BY <1>2, <2>1 DEF Plainly
<1> QED
  BY <1>3, <1>4, <1>5, CallPlain DEF Next

\* Every variable has its type.
THEOREM TypesOK == Spec => []TypeOK
<1>1. Init => Plainly /\ CodeInv
  BY MemoryAssumption DEF Init, Plainly, Valued, Nothing, CodeInv, CodeCurrent
<1>2. AccessInv /\ Plainly /\ [Next]_vars => Plainly'
  BY PlainStep
<1>3. AccessInv /\ CodeInv /\ [Next]_vars => CodeInv'
  BY CodeStep
<1>4. ASSUME AccessInv, Plainly, CodeInv
      PROVE  TypeOK
  <2>1. PICK e \in Nat, N \in Nat : e <= N /\ Sized(data, N) /\ Sound(virt, phys, e)
    BY <1>4 DEF AccessInv, MemorySound
  <2>2. \A k \in DOMAIN virt :
            k \in Pages /\ virt[k] \in [physical : Nat, size : Nat, usage : SUBSET {"read", "write", "execute", "lock"}]
    <3>1. Laid(virt)
      BY <2>1 DEF Sound
    <3>2. \A k \in DOMAIN virt : k \in Pages
      BY <3>1, LaidSlot, MemoryAssumption DEF Pages
    <3> QED
      BY <3>1, <3>2 DEF Laid, Rights
  <2>3. \A k \in DOMAIN phys : k \in Nat /\ phys[k] \in [size : Nat, users : {0, 1}]
    BY <2>1 DEF Sound, TiledTo
  <2>4. DOMAIN data = 0 .. Grown - 1
    BY <2>1, GrownIs DEF Sized
  <2>5. (\A c \in Caches : caches[c] \in Lookup) /\ \A i \in 0 .. FastCount - 1 : fast[i].lookup \in Lookup
    BY <1>4 DEF AccessInv, CachesInv, CacheTypes
  <2> QED
    BY <1>4, <2>2, <2>3, <2>4, <2>5 DEF TypeOK, Plainly, Valued, CodeInv
<1> QED
  BY <1>1, <1>2, <1>3, <1>4, AllCachesSound, PTL DEF Spec

-----------------------------------------------------------------------------
(* The memory implements AddressSpace. *)

\* what the guest sees of the memory
UsageNow == [p \in Pages |-> IF Holds(virt, p) THEN UsageIn(virt, p) ELSE {"unmapped"}]
ContentNow == [p \in Pages |-> IF Holds(virt, p) THEN data[PlaceIn(virt, p)] ELSE 0]

\* This is what the refinement maps the slots and the contents to.
LEMMA SpaceIs ==
    /\ Space!Init <=> /\ UsageNow = [p \in Pages |-> {"unmapped"}]
                      /\ ContentNow = [p \in Pages |-> 0]
    /\ \A r, u : Space!Map(r, u) <=>
            /\ \A p \in r : UsageNow[p] = {"unmapped"}
            /\ UsageNow' = [p \in Pages |-> IF p \in r THEN u ELSE UsageNow[p]]
            /\ ContentNow' = ContentNow
    /\ \A r : Space!Unmap(r) <=>
            /\ \A p \in r : UsageNow[p] # {"unmapped"}
            /\ UsageNow' = [p \in Pages |-> IF p \in r THEN {"unmapped"} ELSE UsageNow[p]]
            /\ ContentNow' = [p \in Pages |-> IF p \in r THEN 0 ELSE ContentNow[p]]
    /\ \A r, u : Space!Protect(r, u) <=>
            /\ \A p \in r : UsageNow[p] # {"unmapped"}
            /\ UsageNow' = [p \in Pages |-> IF p \in r THEN u ELSE UsageNow[p]]
            /\ ContentNow' = ContentNow
    /\ \A r, v : Space!Write(r, v) <=>
            /\ \A p \in r : UsageNow[p] # {"unmapped"} /\ "write" \in UsageNow[p]
            /\ ContentNow' = [p \in Pages |-> IF p \in r THEN v ELSE ContentNow[p]]
            /\ UsageNow' = UsageNow
    /\ UNCHANGED Space!spaceVars <=> UsageNow' = UsageNow /\ ContentNow' = ContentNow
<1>1. UsageNow = [p \in Pages |-> IF p \in Mapped THEN UsageOf(p) ELSE {"unmapped"}]
  BY DEF UsageNow, Mapped, UsageOf, UsageIn
<1>2. ContentNow = [p \in Pages |-> IF p \in Mapped THEN data[Translate(p)] ELSE 0]
  BY DEF ContentNow, Mapped, Translate, PlaceIn
<1>3. UsageNow' = [p \in Pages |-> IF p \in Mapped THEN UsageOf(p) ELSE {"unmapped"}]'
  BY DEF UsageNow, Mapped, UsageOf, UsageIn
<1>4. ContentNow' = [p \in Pages |-> IF p \in Mapped THEN data[Translate(p)] ELSE 0]'
  BY DEF ContentNow, Mapped, Translate, PlaceIn
<1> QED
  BY <1>1, <1>2, <1>3, <1>4, Zenon
     DEF Space!Init, Space!Map, Space!Unmap, Space!Protect, Space!Write, Space!spaceVars,
         Space!Used, Space!Free, Space!Pages, Pages

RangeOf(r, a, n) == r = a .. a + n - 1

\* The pages of a call, or of an access, are a range.
LEMMA RangeIs ==
    ASSUME NEW a \in Nat, NEW n \in Nat, n > 0, a + n <= PageCount, NEW r, RangeOf(r, a, n)
    PROVE  /\ r \in Space!Ranges
           /\ \A p \in r : p \in Pages /\ p \in Int /\ a <= p /\ p < a + n
           /\ \A p \in Pages : p \in Int /\ (p \in r <=> a <= p /\ p < a + n)
<1>1. PageCount \in Nat
  BY MemoryAssumption
<1>2. /\ \A p \in r : p \in Pages /\ p \in Int /\ a <= p /\ p < a + n
      /\ \A p \in Pages : p \in Int /\ (p \in r <=> a <= p /\ p < a + n)
  BY <1>1 DEF Pages, RangeOf
<1>3. PICK b : b = a + n - 1
  OBVIOUS
<1>4. a \in Pages /\ b \in Pages /\ a <= b /\ r = a .. b
  BY <1>1, <1>3 DEF Pages, RangeOf
<1>5. r \in SUBSET Pages
  BY <1>2
<1> QED
  BY <1>2, <1>4, <1>5, Zenon DEF Space!Ranges, Space!Pages, Pages

\* A mapped page is not an unmapped one.
LEMMA UsageIs ==
    ASSUME NEW e, Sound(virt, phys, e), NEW p \in Pages
    PROVE  UsageNow[p] = {"unmapped"} <=> ~Holds(virt, p)
<1>1. Holds(virt, p) => UsageIn(virt, p) \in SUBSET Rights
  BY PlacesAre DEF Pages
<1> QED
  BY <1>1 DEF UsageNow, Rights

\* what the calls do to pages
UnmapsPages(r) ==
    /\ \A p \in r : UsageNow[p] # {"unmapped"}
    /\ UsageNow' = [p \in Pages |-> IF p \in r THEN {"unmapped"} ELSE UsageNow[p]]
    /\ ContentNow' = [p \in Pages |-> IF p \in r THEN 0 ELSE ContentNow[p]]
UsesPages(r, u) ==
    /\ \A p \in r : UsageNow[p] # {"unmapped"}
    /\ UsageNow' = [p \in Pages |-> IF p \in r THEN u ELSE UsageNow[p]]
    /\ ContentNow' = ContentNow
MapsPages(r, u) ==
    /\ virt' # virt
    /\ \A p \in r : UsageNow[p] = {"unmapped"}
    /\ UsageNow' = [p \in Pages |-> IF p \in r THEN u ELSE UsageNow[p]]
    /\ ContentNow' = ContentNow

\* munmap takes its pages away.
LEMMA UnmapPages ==
    ASSUME NEW e, Sound(virt, phys, e), NEW a \in Nat, NEW n \in Nat, n > 0, a + n <= PageCount, Munmap(a, n),
           NEW r, RangeOf(r, a, n)
    PROVE  UnmapsPages(r)
<1>1. LessPages(virt, virt', a, n)
  BY MunmapKeeps
<1>2. data' = data /\ a .. a + n - 1 \subseteq Mapped
  BY Zenon DEF Munmap
<1>3. r = a .. a + n - 1
  BY DEF RangeOf
<1>4. /\ \A p \in r : p \in Pages /\ p \in Int /\ a <= p /\ p < a + n
      /\ \A p \in Pages : p \in Int /\ (p \in r <=> a <= p /\ p < a + n)
  BY RangeIs
<1>5. \A p \in r : UsageNow[p] # {"unmapped"}
  BY <1>2, <1>3, <1>4, UsageIs DEF Mapped
<1>6. \A p \in Pages : /\ p \in r => ~Holds(virt', p)
                       /\ p \notin r => /\ Holds(virt', p) <=> Holds(virt, p)
                                        /\ Holds(virt, p) => /\ UsageIn(virt', p) = UsageIn(virt, p)
                                                             /\ PlaceIn(virt', p) = PlaceIn(virt, p)
  <2>1. ASSUME NEW p \in Pages, p \notin r
        PROVE  p \in Int /\ (p < a \/ a + n <= p)
    BY <1>4, <2>1
  <2> QED
    BY <1>1, <1>4, <2>1 DEF LessPages
<1>7. UsageNow' = [p \in Pages |-> IF p \in r THEN {"unmapped"} ELSE UsageNow[p]]
  BY <1>6 DEF UsageNow
<1>8. ContentNow' = [p \in Pages |-> IF p \in r THEN 0 ELSE ContentNow[p]]
  BY <1>2, <1>6 DEF ContentNow
<1> QED
  BY <1>5, <1>7, <1>8, Zenon DEF UnmapsPages

\* mprotect gives them another usage.
LEMMA ProtectPages ==
    ASSUME NEW e, Sound(virt, phys, e), NEW a \in Nat, NEW n \in Nat, n > 0, a + n <= PageCount,
           NEW u \in SUBSET Rights, Mprotect(a, n, u), NEW r, RangeOf(r, a, n)
    PROVE  UsesPages(r, u)
<1>1. OtherUsage(virt, virt', a, n, u)
  BY MprotectKeeps
<1>2. data' = data /\ a .. a + n - 1 \subseteq Mapped
  BY Zenon DEF Mprotect
<1>3. r = a .. a + n - 1
  BY DEF RangeOf
<1>4. /\ \A p \in r : p \in Pages /\ p \in Int /\ a <= p /\ p < a + n
      /\ \A p \in Pages : p \in Int /\ (p \in r <=> a <= p /\ p < a + n)
  BY RangeIs
<1>5. \A p \in r : Holds(virt, p) /\ UsageNow[p] # {"unmapped"}
  BY <1>2, <1>3, <1>4, UsageIs DEF Mapped
<1>6. \A p \in Pages : /\ Holds(virt', p) <=> Holds(virt, p)
                       /\ Holds(virt, p) => /\ PlaceIn(virt', p) = PlaceIn(virt, p)
                                            /\ UsageIn(virt', p) = IF p \in r THEN u ELSE UsageIn(virt, p)
  <2>1. ASSUME NEW p \in Pages, p \notin r
        PROVE  p \in Int /\ (p < a \/ a + n <= p)
    BY <1>4, <2>1
  <2> QED
    BY <1>1, <1>4, <2>1 DEF OtherUsage
<1>7. UsageNow' = [p \in Pages |-> IF p \in r THEN u ELSE UsageNow[p]]
  BY <1>5, <1>6 DEF UsageNow
<1>8. ContentNow' = ContentNow
  BY <1>2, <1>6 DEF ContentNow
<1>9. \A p \in r : UsageNow[p] # {"unmapped"}
  BY <1>5
<1> QED
  BY <1>7, <1>8, <1>9, Zenon DEF UsesPages

\* mmap adds them, even if it moves other pages; or nothing is mapped.
LEMMA MapPages ==
    ASSUME NEW e, Sound(virt, phys, e), NEW N \in Nat, Sized(data, N), e <= N, NEW a \in Nat, NEW n \in Nat, n > 0,
           a + n <= PageCount, NEW u \in SUBSET Rights, MMap(a, n, u), NEW r, RangeOf(r, a, n)
    PROVE  (virt' = virt /\ data' = data) \/ MapsPages(r, u)
<1>0. e \in Nat
  BY DEF Sound, TiledTo
<1>1. \/ virt' = virt /\ data' = data
      \/ NewContents(virt, data, virt', data', a, n, u)
  BY <1>0, MMapKeeps
<1>2. CASE NewContents(virt, data, virt', data', a, n, u)
  <2>1. \A k \in DOMAIN virt : VirtEnd(k) <= a \/ a + n <= k
    BY Zenon DEF MMap
  <2>3. /\ \A p \in r : p \in Pages /\ p \in Int /\ a <= p /\ p < a + n
        /\ \A p \in Pages : p \in Int /\ (p \in r <=> a <= p /\ p < a + n)
    BY RangeIs
  <2>4. ASSUME NEW p \in r
        PROVE  ~Holds(virt, p) /\ UsageNow[p] = {"unmapped"}
    <3>1. ASSUME NEW k \in DOMAIN virt, k <= p, p < EndOf(virt, k)
          PROVE  FALSE
      <4>1. k \in Nat /\ EndOf(virt, k) \in Nat
        BY LaidSlot DEF Sound
      <4> QED
        BY <2>1, <2>3, <3>1, <4>1 DEF VirtEnd
    <3> QED
      BY <2>3, <3>1, HoldsIs, UsageIs
  <2>5. \A p \in Pages :
            /\ p \in r => Holds(virt', p) /\ UsageIn(virt', p) = u /\ data'[PlaceIn(virt', p)] = 0
            /\ p \notin r => /\ Holds(virt', p) <=> Holds(virt, p)
                             /\ Holds(virt, p) => /\ UsageIn(virt', p) = UsageIn(virt, p)
                                                  /\ data'[PlaceIn(virt', p)] = data[PlaceIn(virt, p)]
    <3>1. ASSUME NEW p \in Pages, p \notin r
          PROVE  p \in Int /\ (p < a \/ a + n <= p)
      BY <2>3, <3>1
    <3> QED
      BY <1>2, <2>3, <3>1 DEF NewContents
  <2>6. UsageNow' = [p \in Pages |-> IF p \in r THEN u ELSE UsageNow[p]]
    BY <2>5 DEF UsageNow
  <2>7. ContentNow' = ContentNow
    BY <2>4, <2>5 DEF ContentNow
  <2>8. \A p \in r : UsageNow[p] = {"unmapped"}
    BY <2>4
  <2>9. virt' # virt
    <3>1. a \in r
      BY DEF RangeOf
    <3> QED
      BY <2>4, <2>5, <2>3, <3>1
  <2> QED
    BY <2>6, <2>7, <2>8, <2>9, Zenon DEF MapsPages
<1> QED
  BY <1>1, <1>2

\* Each of them is a step of the abstract memory.
LEMMA PagesStep ==
    ASSUME NEW a \in Nat, NEW n \in Nat, n > 0, a + n <= PageCount, NEW r, RangeOf(r, a, n), NEW u,
           UnmapsPages(r) \/ (u \in Usages /\ (UsesPages(r, u) \/ MapsPages(r, u)))
    PROVE  Space!Next
<1>1. r \in Space!Ranges
  BY RangeIs
<1>2. Space!Unmap(r) \/ (u \in Usages /\ (Space!Protect(r, u) \/ Space!Map(r, u)))
  BY SpaceIs, Zenon DEF UnmapsPages, UsesPages, MapsPages
<1> QED
  BY <1>1, <1>2, Zenon DEF Space!Next

\* A write to the pages it is allowed to write is one.
LEMMA WriteStep ==
    ASSUME NEW e, Sound(virt, phys, e), NEW p \in Pages, NEW n \in {1, 2}, NEW v \in Values, virt' = virt,
           Allows(virt, p, n, {"write"}), Overwrites(virt, data, data', p, n, v)
    PROVE  Space!Next
<1>1. p \in Nat /\ PageCount \in Nat
  BY MemoryAssumption DEF Pages
<1>2. \A q \in Int : p <= q /\ q < p + n => q < PageCount /\ Holds(virt, q) /\ "write" \in UsageIn(virt, q)
  BY PlacesAre DEF Allows
<1>3. p + n <= PageCount
  <2>1. p + n - 1 \in Int /\ p <= p + n - 1 /\ p + n - 1 < p + n
    BY <1>1
  <2>2. p + n - 1 < PageCount
    BY <1>2, <2>1
  <2> QED
    BY <1>1, <2>2
<1>4. PICK r : r = p .. p + n - 1
  OBVIOUS
<1>5. /\ r \in Space!Ranges
      /\ \A q \in r : q \in Pages /\ q \in Int /\ p <= q /\ q < p + n
      /\ \A q \in Pages : q \in Int /\ (q \in r <=> p <= q /\ q < p + n)
  <2>1. n \in Nat /\ n > 0
    OBVIOUS
  <2> QED
    BY <1>1, <1>3, <1>4, <2>1, RangeIs DEF RangeOf
<1>6. \A q \in r : Holds(virt, q) /\ UsageNow[q] # {"unmapped"} /\ "write" \in UsageNow[q]
  <2>1. \A q \in r : Holds(virt, q) /\ UsageNow[q] # {"unmapped"} /\ "write" \in UsageIn(virt, q)
    BY <1>2, <1>5, UsageIs
  <2> QED
    BY <1>5, <2>1 DEF UsageNow
<1>7. UsageNow' = UsageNow
  BY DEF UsageNow
<1>8. ContentNow' = [q \in Pages |-> IF q \in r THEN v ELSE ContentNow[q]]
  BY <1>5, <1>6 DEF ContentNow, Overwrites
<1>9. Space!Write(r, v)
  <2>1. \A q \in r : UsageNow[q] # {"unmapped"} /\ "write" \in UsageNow[q]
    BY <1>6
  <2> QED
    BY <1>7, <1>8, <2>1, SpaceIs, Zenon
<1> QED
  BY <1>5, <1>9, Zenon DEF Space!Next

\* Every step of the memory is a step of the abstract one, or invisible.
LEMMA SpaceStep ==
    ASSUME AccessInv, ~(DetectWrites /\ Straddling), [Next]_vars
    PROVE  Space!Next \/ UNCHANGED Space!spaceVars
<1>1. PICK e \in Nat, N \in Nat : e <= N /\ Sized(data, N) /\ Sound(virt, phys, e)
  BY DEF AccessInv, MemorySound
<1>2. virt' = virt /\ data' = data => UNCHANGED Space!spaceVars
  <2>1. virt' = virt /\ data' = data => UsageNow' = UsageNow /\ ContentNow' = ContentNow
    BY DEF UsageNow, ContentNow
  <2> QED
    BY <2>1, SpaceIs, Zenon
<1>3. CASE Call
  <2>1. PICK a \in Pages : \E n \in 1 .. PageCount - a :
            Munmap(a, n) \/ \E u \in Usages : MMap(a, n, u) \/ Mprotect(a, n, u)
    BY <1>3 DEF Call
  <2>2. PICK n \in 1 .. PageCount - a :
            Munmap(a, n) \/ \E u \in Usages : MMap(a, n, u) \/ Mprotect(a, n, u)
    BY <2>1
  <2>3. a \in Nat /\ n \in Nat /\ n > 0 /\ a + n <= PageCount
    BY <2>2, MemoryAssumption DEF Pages
  <2>7. PICK r : RangeOf(r, a, n)
    BY DEF RangeOf
  <2>4. CASE Munmap(a, n)
    <3>1. UnmapsPages(r)
      BY <1>1, <2>3, <2>4, <2>7, UnmapPages
    <3> QED
      BY <2>3, <2>7, <3>1, PagesStep
  <2>5. ASSUME NEW u \in Usages, MMap(a, n, u)
        PROVE  Space!Next \/ UNCHANGED Space!spaceVars
    <3>1. (virt' = virt /\ data' = data) \/ MapsPages(r, u)
      BY <1>1, <2>3, <2>5, <2>7, MapPages, MemoryAssumption DEF Rights
    <3> QED
      BY <1>2, <2>3, <2>7, <3>1, PagesStep
  <2>6. ASSUME NEW u \in Usages, Mprotect(a, n, u)
        PROVE  Space!Next
    <3>1. UsesPages(r, u)
      BY <1>1, <2>3, <2>6, <2>7, ProtectPages, MemoryAssumption DEF Rights
    <3> QED
      BY <2>3, <2>7, <3>1, PagesStep
  <2> QED
    BY <2>2, <2>4, <2>5, <2>6
<1>4. CASE Use
  <2>1. PICK p \in Pages : \/ Fetch(p)
                           \/ \E n \in Spans : \/ Load(p, n)
                                               \/ \E v \in Values : Store(p, n, v) \/ SystemWrite(p, n, v)
    BY <1>4 DEF Use
  <2>2. CASE Fetch(p)
    BY <1>2, <2>2, FetchIs
  <2>3. ASSUME NEW n \in Spans, Load(p, n)
        PROVE  UNCHANGED Space!spaceVars
    <3>1. virt' = virt /\ data' = data
      BY <2>3, Zenon DEF Load, slotVars
    <3> QED
      BY <1>2, <3>1
  <2>4. ASSUME NEW n \in Spans, NEW v \in Values, Store(p, n, v)
        PROVE  Space!Next
    <3>1. virt' = virt /\ Allows(virt, p, n, {"write"}) /\ Overwrites(virt, data, data', p, n, v)
      BY <2>4, StoreIs
    <3>2. n \in {1, 2}
      BY SpansAre
    <3> QED
      BY <1>1, <3>1, <3>2, WriteStep
  <2>5. ASSUME NEW n \in Spans, NEW v \in Values, SystemWrite(p, n, v)
        PROVE  Space!Next \/ UNCHANGED Space!spaceVars
    <3>1. /\ virt' = virt
          /\ \/ data' = data
             \/ Allows(virt, p, n, {"write"}) /\ Overwrites(virt, data, data', p, n, v)
      BY <2>5, SystemWriteIs
    <3>2. n \in {1, 2}
      BY SpansAre
    <3> QED
      BY <1>1, <1>2, <3>1, <3>2, WriteStep
  <2> QED
    BY <2>1, <2>2, <2>3, <2>4, <2>5
<1>5. CASE Fence \/ CheckXInvalidated \/ Halted \/ UNCHANGED vars
  <2>1. virt' = virt /\ data' = data
    BY <1>5, Zenon DEF Fence, CheckXInvalidated, Halted, vars, slotVars
  <2> QED
    BY <1>2, <2>1
<1> QED
  BY <1>3, <1>4, <1>5 DEF Next

\* Slots, caches and movements are invisible to the guest: a new page is empty, a page keeps its content
\* until it is written or unmapped, and a range is changed as a whole or not at all (env::Memory), unless a
\* store could straddle detected executable memory.
THEOREM MemoryImplementsSpace ==
    ASSUME ~(DetectWrites /\ Straddling)
    PROVE  Spec => ImplementsAddressSpace
<1>1. Init => Space!Init
  <2>1. ASSUME Init
        PROVE  UsageNow = [p \in Pages |-> {"unmapped"}] /\ ContentNow = [p \in Pages |-> 0]
    <3>1. \A p : ~Holds(virt, p)
      BY <2>1, HoldsIs DEF Init, Nothing
    <3> QED
      BY <3>1 DEF UsageNow, ContentNow
  <2> QED
    BY <2>1, SpaceIs, Zenon
<1>2. AccessInv /\ [Next]_vars => [Space!Next]_Space!spaceVars
  BY SpaceStep
<1> QED
  BY <1>1, <1>2, AllCachesSound, PTL DEF Spec, ImplementsAddressSpace, Space!Spec
=============================================================================
