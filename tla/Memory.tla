-------------------------------- MODULE Memory --------------------------------
(***************************************************************************)
(* The memory of the guest (env::Memory): the map of virtual slots, the    *)
(* map of physical slots, the WebAssembly memory behind them, and the      *)
(* caches through which generated code accesses it.                        *)
(*                                                                         *)
(* A lookup, and with it an access, assumes that neighboring virtual slots *)
(* are neighbors in physical memory too.  So mapping between two slots     *)
(* moves both, to wherever all three fit, and when the lowest physical     *)
(* slot has become too large everything is moved down.  Every such move    *)
(* has to be followed by the slots, the contents, and the caches.          *)
(*                                                                         *)
(* Addresses and sizes are counted in pages of the guest; an access lies   *)
(* in one page or straddles two.                                           *)
(***************************************************************************)
EXTENDS Slots, TLC

CONSTANTS
    PageCount,      \* pages of the guest
    Usages,         \* usages a page can be given
    Values,         \* what may be written to a page; a cleared one holds zero
    Accesses,       \* "load", "store", "fetch" by the guest and its translator, "write" by the system
    Straddling,     \* TRUE: accesses may straddle two pages
    DetectWrites,   \* pDetectExecuteWrite
    InitPages,      \* InitAllocPages
    MinGrowth,      \* MinGrowthPages
    Granule,        \* PhysPageSize in pages of the guest
    MaxPhysical,    \* what the WebAssembly memory can grow to
    FastCount       \* MemoryFastCount

ASSUME MemoryAssumption ==
    /\ PageCount \in Nat \ {0}
    /\ Usages \subseteq SUBSET {"read", "write", "execute", "lock"}
    /\ Values \subseteq Nat
    /\ Accesses \subseteq {"load", "store", "fetch", "write"}
    /\ Straddling \in BOOLEAN /\ DetectWrites \in BOOLEAN
    /\ InitPages \in Nat \ {0} /\ MinGrowth \in Nat \ {0} /\ Granule \in Nat \ {0}
    /\ InitPages % Granule = 0 /\ MaxPhysical \in Nat /\ InitPages <= MaxPhysical
    /\ FastCount \in Nat \ {0}

ShiftFactor == 3

VARIABLES
    virt,           \* pVirtual: first page -> its physical address, size and usage
    phys,           \* pPhysical: first page -> its size and users
    data,           \* the WebAssembly memory
    caches,         \* the read, write and code cache of pCaches
    fast,           \* pFastCache
    xInvalid,       \* pXInvalidated
    translated,     \* the pages code was translated from, and what was translated
    fault           \* what ended the application: the consistency check, or the use of an erased slot

slotVars  == <<virt, phys>>
cacheVars == <<caches, fast>>
vars == <<slotVars, data, cacheVars, xInvalid, translated, fault>>

Pages  == 0 .. PageCount - 1
Grown  == Cardinality(DOMAIN data)
Stub   == -1            \* translated from a page that cannot be executed
Nothing == [p \in {} |-> 0]

Lookup  == [address : Nat, physical : Nat, size : Nat]
NoCache == [address |-> 0, physical |-> 0, size |-> 0]
Caches  == {"load", "store", "fetch"}
NoCaches == [c \in Caches |-> NoCache]
NoFast   == [i \in 0 .. FastCount - 1 |-> [lookup |-> NoCache, usage |-> {}]]

\* the usage an access asks for
Need(access) == CASE access = "load" -> {"read"}
                  [] access \in {"store", "write"} -> {"write"}
                  [] access = "fetch" -> {"execute"}

Init ==
    /\ virt = Nothing
    /\ phys = [k \in {0} |-> [size |-> InitPages, users |-> 0]]
    /\ data = [q \in 0 .. InitPages - 1 |-> 0]
    /\ caches = NoCaches /\ fast = NoFast
    /\ xInvalid = FALSE /\ translated = Nothing /\ fault = "none"

-----------------------------------------------------------------------------
(* Slots. *)

VirtEnd(k)  == EndOf(virt, k)
PhysEnd(v)  == v.physical + v.size      \* of a virtual slot

Mapped == {p \in Pages : Holds(virt, p)}
UsageOf(p) == virt[SlotAt(virt, p)].usage
Executable(v) == "execute" \in v.usage
Translate(p) == virt[SlotAt(virt, p)].physical + (p - SlotAt(virt, p))

PhysSplit(ph, k, a) ==
    Put(Resize(ph, k, a - k), a, [size |-> EndOf(ph, k) - a, users |-> ph[k].users])

\* split at an address, unless a slot starts or ends there
PhysCut(ph, a) ==
    IF a \in DOMAIN ph \/ ~Holds(ph, a) THEN ph ELSE PhysSplit(ph, SlotAt(ph, a), a)

\* fPhysMerge: with the next slot, then with the previous one
PhysMerge(ph, k) ==
    LET same(j, m) == m[j].users = m[k].users
        up == IF After(ph, k) # {} /\ same(NextOf(ph, k), ph)
              THEN Erase(Resize(ph, k, ph[k].size + ph[NextOf(ph, k)].size), NextOf(ph, k))
              ELSE ph
    IN  IF Before(up, k) # {} /\ same(PrevOf(up, k), up)
        THEN Erase(Resize(up, PrevOf(up, k), up[PrevOf(up, k)].size + up[k].size), k)
        ELSE up

Assign(ph, k, users) == PhysMerge([ph EXCEPT ![k].users = users], k)

VirtSplit(vt, k, a) ==
    Put(Resize(vt, k, a - k), a,
        [physical |-> vt[k].physical + (a - k), size |-> EndOf(vt, k) - a, usage |-> vt[k].usage])

VirtCut(vt, a) ==
    IF a \in DOMAIN vt \/ ~Holds(vt, a) THEN vt ELSE VirtSplit(vt, SlotAt(vt, a), a)

\* Mutant: slots are merged although they are apart in physical memory or of different usage
VirtMergeAny(vt, k) ==
    IF \E j \in DOMAIN vt : EndOf(vt, j) = k
    THEN LET prev == PrevOf(vt, k) IN Erase(Resize(vt, prev, vt[prev].size + vt[k].size), k)
    ELSE vt

VirtMergePrev(vt, k) ==
    IF \E j \in DOMAIN vt : /\ EndOf(vt, j) = k
                            /\ vt[j].usage = vt[k].usage
                            /\ PhysEnd(vt[j]) = vt[k].physical
    THEN LET prev == PrevOf(vt, k) IN Erase(Resize(vt, prev, vt[prev].size + vt[k].size), k)
    ELSE vt

\* the slot is extended by n pages, of the given usage
Extend(vt, k, n, u) ==
    LET longer == Resize(vt, k, vt[k].size + n)
        start  == EndOf(vt, k)
    IN  IF vt[k].usage = u THEN longer
        ELSE [VirtSplit(longer, k, start) EXCEPT ![start].usage = u]

-----------------------------------------------------------------------------
(* The WebAssembly memory. *)

RoundUp(n) == ((n + Granule - 1) \div Granule) * Granule

\* fExpandPhysical: how much the memory grows, zero if it cannot
Expansion(size, growth) ==
    LET generous == RoundUp(Max({MinGrowth, size + growth}))
        exact    == RoundUp(size)
        fits(n)  == Grown + n <= MaxPhysical
    IN  IF fits(generous) THEN generous
        ELSE IF exact < generous /\ fits(exact) THEN exact
        ELSE 0

Expanded(d, n) == [q \in 0 .. Cardinality(DOMAIN d) + n - 1 |-> IF q \in DOMAIN d THEN d[q] ELSE 0]
Cleared(d, at, n) == [q \in DOMAIN d |-> IF q \in at .. at + n - 1 THEN 0 ELSE d[q]]
Moved(d, dest, source, n) ==
    [q \in DOMAIN d |-> IF q \in dest .. dest + n - 1 THEN d[source + (q - dest)] ELSE d[q]]

-----------------------------------------------------------------------------
(* fFlushCaches and fCheckConsistency. *)

Merged(ph) == \A k \in DOMAIN ph : k = 0 \/ ph[k].users # ph[PrevOf(ph, k)].users

Used(ph) == {k \in DOMAIN ph : ph[k].users > 0}

\* all the slots are backed by used ones
Backed(vt, ph) ==
    \A k \in DOMAIN vt : \A q \in vt[k].physical .. PhysEnd(vt[k]) - 1 :
        Holds(ph, q) /\ SlotAt(ph, q) \in Used(ph)

Accounted(vt, ph) ==
    MapThenSumSet(LAMBDA k : ph[k].size * ph[k].users, DOMAIN ph)
        = MapThenSumSet(LAMBDA k : vt[k].size, DOMAIN vt)

Consistent(vt, ph) ==
    /\ Tiled(ph) /\ Merged(ph)
    /\ Disjoint(vt) /\ Backed(vt, ph)
    /\ \A j, k \in DOMAIN vt : EndOf(vt, j) = k => vt[j].usage # vt[k].usage
    /\ Accounted(vt, ph)

\* Mutant: the caches of generated code are left alone
FlushFast ==
    /\ caches' = caches /\ fast' = NoFast
    /\ fault' = IF Consistent(virt', phys') THEN "none" ELSE "inconsistent"

\* the check ends the application before anything is flushed
FlushCaches ==
    IF Consistent(virt', phys')
    THEN caches' = NoCaches /\ fast' = NoFast /\ fault' = "none"
    ELSE UNCHANGED cacheVars /\ fault' = "inconsistent"

-----------------------------------------------------------------------------
(* fMMap.  `prev' ends where the new slot begins, `next' begins where it ends. *)

Running == fault = "none"

\* the slots below (above) the given one which lie next to each other, virtually and in the
\* same physical slot: the first (last) of them
FirstOf(k) ==
    LET start == SlotAt(phys, virt[k].physical)
        linked(s) == \E t \in DOMAIN virt : /\ VirtEnd(t) = s
                                            /\ PhysEnd(virt[t]) = virt[s].physical
                                            /\ virt[s].physical # start
    IN  Min({f \in DOMAIN virt : f <= k /\ \A s \in DOMAIN virt : f < s /\ s <= k => linked(s)})

\* Mutant: only the slot itself is moved
FinalSelf(ph, k) == k

FinalOf(ph, k) ==
    LET end == EndOf(ph, SlotAt(ph, virt[k].physical))
        linked(s) == /\ VirtEnd(s) \in DOMAIN virt
                     /\ virt[VirtEnd(s)].physical = PhysEnd(virt[s])
                     /\ PhysEnd(virt[s]) # end
    IN  Max({l \in DOMAIN virt : k <= l /\ \A s \in DOMAIN virt : k <= s /\ s < l => linked(s)})

\* the physical slots, split so that the neighbors to be moved are slots of their own
CutBelow(k) == PhysCut(PhysCut(phys, PhysEnd(virt[k])), virt[FirstOf(k)].physical)
CutAbove(ph, k) ==
    LET low == PhysCut(ph, virt[k].physical) IN PhysCut(low, PhysEnd(virt[FinalOf(low, k)]))

\* fMemAllocatePhysical: growth, slots with room, and the chosen slot; no slot if it fails
Allocate(ph, size, growth) ==
    LET roomy == {k \in DOMAIN ph : ph[k].users = 0 /\ ph[k].size >= size}
        more  == Expansion(size, growth)
        last  == LastOf(ph)
        longer == Resize(ph, last, ph[last].size + more)
    IN  CASE roomy # {} -> [growth |-> 0, phys |-> ph, slot |-> {Min(roomy)}]
          [] roomy = {} /\ more = 0 -> [growth |-> 0, phys |-> ph, slot |-> {}]
          [] roomy = {} /\ more > 0 /\ ph[last].users = 0 ->
                [growth |-> more, phys |-> longer, slot |-> {last}]
          [] OTHER ->
                LET start == EndOf(ph, last) IN
                [growth |-> more, slot |-> {start},
                 phys |-> [PhysSplit(longer, last, start) EXCEPT ![start].users = 0]]

\* fMemAllocateIntermediate
Aligned(prev, next, n) ==
    LET k == SlotAt(phys, virt[prev].physical) IN
    /\ PhysEnd(virt[prev]) + n = virt[next].physical
    /\ EndOf(phys, k) <= virt[next].physical
    /\ phys[NextOf(phys, k)].users = 0 /\ phys[NextOf(phys, k)].size = n

MapBetween(prev, next, n, u) ==
    LET hole == NextOf(phys, SlotAt(phys, virt[prev].physical)) IN
    /\ data' = Cleared(data, hole, n)
    /\ phys' = Assign(phys, hole, 1)
    /\ virt' = VirtMergePrev(Extend(virt, prev, n, u), next)
    /\ FlushCaches

\* fMemExpandPrevious: how the memory has to grow for it, nothing if it is impossible
Expansions(prev, n) ==
    LET k == SlotAt(phys, virt[prev].physical)
        some == After(phys, k) # {}
        next == NextOf(phys, k)
        room == IF some THEN phys[next].size ELSE 0
    IN  IF PhysEnd(virt[prev]) # EndOf(phys, k) \/ (some /\ phys[next].users > 0) THEN {}
        ELSE IF some /\ room >= n THEN {0}
        ELSE IF some /\ After(phys, next) # {} THEN {}
        ELSE {Expansion(n - room, n)} \ {0}

MapExpand(prev, n, u, growth) ==
    LET k == SlotAt(phys, virt[prev].physical)
        some == After(phys, k) # {}
        allocated == growth + (IF some THEN phys[NextOf(phys, k)].size ELSE 0)
        longer == Resize(IF some THEN Erase(phys, NextOf(phys, k)) ELSE phys, k,
                         phys[k].size + allocated)
        cut == EndOf(phys, k) + n
    IN  /\ data' = Cleared(Expanded(data, growth), PhysEnd(virt[prev]), n)
        /\ phys' = IF allocated > n THEN [PhysSplit(longer, k, cut) EXCEPT ![cut].users = 0]
                                    ELSE longer
        /\ virt' = Extend(virt, prev, n, u)
        /\ FlushCaches

\* Mutant: the lowest slot is removed although it is in use
ReducibleUsed(ph) == ShiftFactor * ph[0].size >= EndOf(ph, LastOf(ph))

\* fReducePhysical: move everything down once the lowest slot is free and a third of all
Reducible(ph) == ph[0].users = 0 /\ ShiftFactor * ph[0].size >= EndOf(ph, LastOf(ph))

Shifted(ph, n) == [k \in {j - n : j \in DOMAIN ph \ {0}} |-> ph[k + n]]

\* fReducePhysical, on the slots and the memory a move results in
Settle(vt, ph, d) ==
    LET shift == IF Reducible(ph) THEN ph[0].size ELSE 0 IN
    /\ virt' = [k \in DOMAIN vt |-> [vt[k] EXCEPT !.physical = @ - shift]]
    /\ phys' = IF shift > 0 THEN Shifted(ph, shift) ELSE ph
    /\ data' = Moved(d, 0, shift, IF shift > 0 THEN EndOf(ph, LastOf(ph)) - shift ELSE 0)
    /\ FlushCaches

\* Move both neighbors around the new slot, to where all three fit.  When there is no room, the
\* neighbors stay split.  The chosen slot is used after the old ones were released: if that erased
\* it, there is no telling what happens.  The new virtual slot is read after it was merged: if that
\* erased it, its pages are cleared only if the erased element still holds its value.
MapMove(a, n, u) ==
    LET prev  == {k \in DOMAIN virt : VirtEnd(k) = a}
        next  == {a + n} \intersect DOMAIN virt
        cut   == IF prev = {} THEN phys ELSE CutBelow(Max(prev))
        cuts  == IF next = {} THEN cut ELSE CutAbove(cut, a + n)
        lower == {s \in DOMAIN virt : \E k \in prev : FirstOf(k) <= s /\ s <= k}
        upper == {s \in DOMAIN virt : \E k \in next : k <= s /\ s <= FinalOf(cut, k)}
        lowSize  == IF lower = {} THEN 0 ELSE a - Min(lower)
        lowFrom  == IF lower = {} THEN 0 ELSE virt[Min(lower)].physical
        highSize == IF upper = {} THEN 0 ELSE VirtEnd(Max(upper)) - (a + n)
        highFrom == IF upper = {} THEN 0 ELSE virt[a + n].physical
        total == lowSize + n + highSize
        room  == Allocate(cuts, total, n)
        slot  == CHOOSE k \in room.slot : TRUE
        sized == PhysCut(room.phys, slot + total)
        freed == IF upper = {} THEN sized ELSE Assign(sized, highFrom, 0)
        frees == IF lower = {} THEN freed ELSE Assign(freed, lowFrom, 0)
        at    == slot + lowSize
        ph    == Assign(frees, slot, 1)
        moved == [s \in DOMAIN virt |->
                    CASE s \in lower -> [virt[s] EXCEPT !.physical = slot + (@ - lowFrom)]
                      [] s \in upper -> [virt[s] EXCEPT !.physical = at + n + (@ - highFrom)]
                      [] OTHER -> virt[s]]
        new   == VirtMergePrev(Put(moved, a, [physical |-> at, size |-> n, usage |-> u]), a)
        vt    == IF upper = {} THEN new ELSE VirtMergePrev(new, a + n)
        copy  == Moved(Moved(Expanded(data, room.growth), at + n, highFrom, highSize),
                       slot, lowFrom, lowSize)
    IN  CASE room.slot = {} ->
                phys' = cuts /\ UNCHANGED <<virt, data, cacheVars, fault>>
          [] room.slot # {} /\ slot \notin DOMAIN frees ->
                fault' = "dangling" /\ UNCHANGED <<slotVars, data, cacheVars>>
          [] OTHER ->
                \/ Settle(vt, ph, Cleared(copy, at, n))
                \/ a \notin DOMAIN new /\ fault' = "erased" /\ UNCHANGED <<slotVars, data, cacheVars>>

\* calls that are refused, because the range is in use, change nothing
MMap(a, n, u) ==
    /\ Running
    /\ \A k \in DOMAIN virt : VirtEnd(k) <= a \/ a + n <= k
    /\ LET prev == {k \in DOMAIN virt : VirtEnd(k) = a}
           next == {a + n} \intersect DOMAIN virt
           grow == IF prev = {} THEN {} ELSE Expansions(Max(prev), n)
       IN  \/ /\ prev # {} /\ next # {} /\ Aligned(Max(prev), a + n, n)
              /\ MapBetween(Max(prev), a + n, n, u)
           \/ /\ next = {}
              /\ \E growth \in grow : MapExpand(Max(prev), n, u, growth)
           \/ /\ ~(prev # {} /\ next # {} /\ Aligned(Max(prev), a + n, n))
              /\ ~(next = {} /\ grow # {})
              /\ MapMove(a, n, u)
    /\ UNCHANGED <<xInvalid, translated>>

-----------------------------------------------------------------------------
(* munmap and mprotect, both of ranges that are mapped as a whole. *)

\* the virtual slots, split at the ends of the range, and those inside of it
Cut(a, n) == VirtCut(VirtCut(virt, a), a + n)
Inside(vt, a, n) == {k \in DOMAIN vt : a <= k /\ k < a + n}

\* Mutant: whole physical slots are released
ReleaseWhole(vt, gone) ==
    FoldSet(LAMBDA k, ph : Assign(ph, SlotAt(ph, vt[k].physical), 0), phys, gone)

\* the physical slots behind some virtual ones become free
Release(vt, gone) ==
    LET cuts == FoldSet(LAMBDA k, ph : PhysCut(PhysCut(ph, vt[k].physical), PhysEnd(vt[k])),
                        phys, gone)
        freed == {q \in DOMAIN cuts : \E k \in gone : vt[k].physical <= q /\ q < PhysEnd(vt[k])}
    IN  FoldSet(LAMBDA k, ph : Assign(ph, k, 0), cuts, freed)

Munmap(a, n) ==
    /\ Running /\ a .. a + n - 1 \subseteq Mapped
    /\ LET vt == Cut(a, n)
           gone == Inside(vt, a, n)
       IN  /\ virt' = Restrict(vt, DOMAIN vt \ gone)
           /\ phys' = Release(vt, gone)
           /\ xInvalid' = (xInvalid \/ \E k \in gone : Executable(vt[k]))
    /\ FlushCaches
    /\ UNCHANGED <<data, translated>>

\* the changed slots, and the one after them, are merged with the ones before
Mprotect(a, n, u) ==
    /\ Running /\ a .. a + n - 1 \subseteq Mapped
    /\ LET vt == Cut(a, n)
           inside == Inside(vt, a, n)
           changed == [k \in DOMAIN vt |-> IF k \in inside THEN [vt[k] EXCEPT !.usage = u] ELSE vt[k]]
       IN  /\ virt' = FoldSet(LAMBDA k, m : VirtMergePrev(m, k), changed,
                              inside \union ({a + n} \intersect DOMAIN vt))
           /\ xInvalid' = (xInvalid \/ \E k \in inside : Executable(vt[k]) # Executable([usage |-> u]))
    /\ UNCHANGED phys
    /\ FlushCaches
    /\ UNCHANGED <<data, translated>>

-----------------------------------------------------------------------------
(* Lookups. *)

\* Mutant: writes are collected across executable pages
JoinsWritable(v, need) == need \subseteq v.usage

\* fConstructLookup: the contiguous slots around the given one which allow the access
Joins(v, need) ==
    /\ need \subseteq v.usage
    /\ ~(DetectWrites /\ "write" \in need /\ Executable(v))

ConstructLookup(k, need) ==
    LET next(s, t) == t = VirtEnd(s) /\ virt[t].physical = PhysEnd(virt[s])
        low(s)  == \E t \in DOMAIN virt : next(t, s) /\ Joins(virt[t], need)
        high(s) == \E t \in DOMAIN virt : next(s, t) /\ Joins(virt[t], need)
        first == Min({f \in DOMAIN virt : f <= k /\ \A s \in DOMAIN virt : f < s /\ s <= k => low(s)})
        last  == Max({l \in DOMAIN virt : k <= l /\ \A s \in DOMAIN virt : k <= s /\ s < l => high(s)})
    IN  [address |-> first, physical |-> virt[first].physical, size |-> VirtEnd(last) - first]

\* fCheckLookup: the whole range allows the access, and a write to executable memory is marked,
\* even if the range is found not to allow it further on
Granted(p, n, need) == \A q \in p .. p + n - 1 : q \in Mapped /\ need \subseteq UsageOf(q)
Marks(p, n, need) ==
    /\ DetectWrites /\ "write" \in need
    /\ \E i \in 1 .. n : Granted(p, i, need) /\ Executable(virt[SlotAt(virt, p + i - 1)])

\* fCacheLookup: the index (the mixing with the upper bits of large addresses left out), a
\* hit of the fast cache, and the lookup; n = 0 asks for the rest of an access
FastIndex(p, need) ==
    (p * (CASE need = {"read"} -> 31 [] need = {"write"} -> 37 [] need = {"execute"} -> 1)) % FastCount

Within(l, p, n) == l.address <= p /\ p + n <= l.address + l.size

FastHit(fs, p, n, need) ==
    LET e == fs[FastIndex(p, need)] IN
    e.usage = need /\ Within(e.lookup, p, IF n = 0 THEN 1 ELSE n)

Find(fs, p, n, need) ==
    IF FastHit(fs, p, n, need) THEN fs[FastIndex(p, need)].lookup
    ELSE ConstructLookup(SlotAt(virt, p), need)

Filled(fs, p, need, l) == [fs EXCEPT ![FastIndex(p, need)] = [lookup |-> l, usage |-> need]]

-----------------------------------------------------------------------------
(* Accesses by generated code: an inline check of the cache, or the wrapper around the lookups. *)

Allowed(c, p, n) ==
    \/ Within(caches[c], p, n)
    \/ FastHit(fast, p, n, Need(c))
    \/ Granted(p, n, Need(c))

\* where each page of the access is found, the caches afterwards, and whether the check for
\* writes to executable memory comes out true.  When the first lookup ends within the access,
\* the second page is taken to be at the start of the second lookup.
Access(c, p, n) ==
    LET need   == Need(c)
        first  == Find(fast, p, n, need)
        fast1  == Filled(fast, p, need, first)
        second == Find(fast1, p + 1, 0, need)
        whole  == Within(first, p, n)
        at(l)  == [i \in 0 .. n - 1 |-> l.physical + (p - l.address) + i]
    IN  CASE Within(caches[c], p, n) ->
                [places |-> at(caches[c]), caches |-> caches, fast |-> fast, marked |-> FALSE]
          [] ~Within(caches[c], p, n) /\ whole ->
                [places |-> at(first), caches |-> [caches EXCEPT ![c] = first], fast |-> fast1,
                 marked |-> ~FastHit(fast, p, n, need) /\ Marks(p, n, need)]
          [] OTHER ->
                [places |-> [i \in 0 .. n - 1 |-> IF i = 0 THEN at(first)[0] ELSE second.physical],
                 caches |-> [caches EXCEPT ![c] = second],
                 fast |-> Filled(fast1, p + 1, need, second),
                 marked |-> Marks(p, n, need)]

\* guest code, and its translation, run only after changed code was dealt with; an access
\* that is not allowed is a fault, which ends the guest
Guest(c, p, n) ==
    /\ Running /\ ~xInvalid
    /\ c \in Accesses
    /\ p + n <= PageCount

Load(p, n) ==
    /\ Guest("load", p, n) /\ Allowed("load", p, n)
    /\ caches' = Access("load", p, n).caches
    /\ fast' = Access("load", p, n).fast
    /\ UNCHANGED <<slotVars, data, xInvalid, translated, fault>>

Written(places, v) ==
    [q \in DOMAIN data |-> IF \E i \in DOMAIN places : places[i] = q THEN v ELSE data[q]]

\* ExecuteDirty, which flushes the translations
Dirty ==
    /\ xInvalid' = FALSE
    /\ FlushCaches
    /\ translated' = Nothing

Store(p, n, v) ==
    /\ Guest("store", p, n) /\ Allowed("store", p, n)
    /\ LET a == Access("store", p, n) IN
       /\ data' = Written(a.places, v)
       /\ UNCHANGED slotVars
       /\ IF a.marked
          THEN Dirty
          ELSE /\ caches' = a.caches /\ fast' = a.fast
               /\ UNCHANGED <<xInvalid, translated, fault>>

\* the translator reads the code of a page which is not translated yet
Fetch(p) ==
    /\ Guest("fetch", p, 1) /\ p \notin DOMAIN translated
    /\ IF Allowed("fetch", p, 1)
       THEN LET a == Access("fetch", p, 1) IN
            /\ translated' = Put(translated, p, data[a.places[0]])
            /\ caches' = a.caches /\ fast' = a.fast
       ELSE translated' = Put(translated, p, Stub) /\ UNCHANGED cacheVars
    /\ UNCHANGED <<slotVars, data, xInvalid, fault>>

\* FENCE.I
Fence ==
    /\ Guest("fetch", 0, 1) /\ translated # Nothing
    /\ translated' = Nothing
    /\ UNCHANGED <<slotVars, data, cacheVars, xInvalid, fault>>

\* mwrite, by a system call, uses no caches; a refused one writes nothing
SystemWrite(p, n, v) ==
    /\ Running /\ "write" \in Accesses /\ p + n <= PageCount
    /\ LET place(q) == LET l == ConstructLookup(SlotAt(virt, q), {"write"})
                       IN  l.physical + (q - l.address)
       IN  data' = IF Granted(p, n, {"write"})
                   THEN Written([i \in 0 .. n - 1 |-> place(p + i)], v) ELSE data
    /\ xInvalid' = (xInvalid \/ Marks(p, n, {"write"}))
    /\ UNCHANGED <<slotVars, cacheVars, translated, fault>>

\* fCheckXInvalidated, before the guest runs on
CheckXInvalidated ==
    /\ Running /\ xInvalid
    /\ UNCHANGED <<slotVars, data>>
    /\ Dirty

\* the application has failed
Halted == ~Running /\ UNCHANGED vars

-----------------------------------------------------------------------------

Call ==
    \E a \in Pages : \E n \in 1 .. PageCount - a :
        \/ Munmap(a, n)
        \/ \E u \in Usages : MMap(a, n, u) \/ Mprotect(a, n, u)

Spans == IF Straddling THEN {1, 2} ELSE {1}

Use ==
    \E p \in Pages :
        \/ Fetch(p)
        \/ \E n \in Spans : Load(p, n) \/ (\E v \in Values : Store(p, n, v) \/ SystemWrite(p, n, v))

Next == Call \/ Use \/ Fence \/ CheckXInvalidated \/ Halted

Spec == Init /\ [][Next]_vars

-----------------------------------------------------------------------------
(* Properties. *)

\* Every variable has its type.
TypeOK ==
    /\ DOMAIN virt \subseteq Pages
    /\ \A k \in DOMAIN virt : virt[k] \in [physical : Nat, size : Nat, usage : SUBSET {"read", "write", "execute", "lock"}]
    /\ DOMAIN phys \subseteq Nat
    /\ \A k \in DOMAIN phys : phys[k] \in [size : Nat, users : {0, 1}]
    /\ DOMAIN data = 0 .. Grown - 1 /\ \A q \in DOMAIN data : data[q] \in Values \union {0}
    /\ \A c \in Caches : caches[c] \in Lookup
    /\ \A i \in 0 .. FastCount - 1 : fast[i].lookup \in Lookup
    /\ xInvalid \in BOOLEAN /\ DOMAIN translated \subseteq Pages
    /\ fault \in {"none", "inconsistent", "dangling", "erased"}

\* However slots are split, merged, moved and shifted down, every mapped page has a page of the
\* WebAssembly memory of its own, in a used physical slot that exists.
PagesBacked ==
    /\ \A p, q \in Mapped : p # q => Translate(p) # Translate(q)
    /\ \A p \in Mapped : \E k \in Used(phys) : k <= Translate(p) /\ Translate(p) < EndOf(phys, k)
    /\ Tiled(phys) /\ EndOf(phys, LastOf(phys)) <= Grown

\* Pages next to each other are next to each other in physical memory, which accesses that
\* straddle two of them rely on.
NeighborsContiguous ==
    \A p, q \in Mapped : q = p + 1 => Translate(q) = Translate(p) + 1

\* Whatever is in the caches, an access by the guest ends up in the pages it asks for, and only
\* if they allow it.
AccessesLand ==
    Running => \A c \in Accesses \ {"write"} : \A p \in Pages : \A n \in Spans :
        p + n <= PageCount /\ Allowed(c, p, n) =>
            /\ Granted(p, n, Need(c))
            /\ \A i \in 0 .. n - 1 : Access(c, p, n).places[i] = Translate(p + i)

\* When the guest runs, no translation is left of a page that cannot be executed any more, and
\* with detection none of a content that was overwritten.
TranslationsCurrent ==
    Running /\ ~xInvalid =>
        \A p \in DOMAIN translated : translated[p] # Stub =>
            /\ p \in Mapped /\ "execute" \in UsageOf(p)
            /\ DetectWrites => translated[p] = data[Translate(p)]

\* Slots, caches and movements are invisible to the guest.
Space == INSTANCE AddressSpace WITH
    usage   <- [p \in Pages |-> IF p \in Mapped THEN UsageOf(p) ELSE {"unmapped"}],
    content <- [p \in Pages |-> IF p \in Mapped THEN data[Translate(p)] ELSE 0]

ImplementsAddressSpace == Space!Spec

-----------------------------------------------------------------------------
(* What the source says of itself, and what is not always so. *)

\* The consistency check at the end of every call finds nothing.
ChecksPass == fault # "inconsistent"

=============================================================================
