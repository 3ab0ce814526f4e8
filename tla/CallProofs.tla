---------------------------- MODULE CallProofs ----------------------------
(***************************************************************************)
(* Proofs about the memory calls, for every program, every break, all      *)
(* ranges for allocations and all requests within the address space: what  *)
(* the operations of the memory do to the pages is known from              *)
(* AccessProofs, and each call is followed from one to the next.           *)
(***************************************************************************)
EXTENDS MemoryCalls, AccessProofs, FiniteSetTheorems

-----------------------------------------------------------------------------
(* Bytes and pages. *)

\* The assumptions about the sizes.
LEMMA SizesAre == PageBytes \in Nat /\ PageBytes > 0 /\ PageCount \in Nat /\ PageCount > 0
BY CallsAssumption, MemoryAssumption

\* Multiples are ordered as what they are multiples of.
LEMMA TimesIs ==
    ASSUME NEW p \in Nat, NEW q \in Nat
    PROVE  /\ p * PageBytes \in Nat
           /\ p < q => p * PageBytes + PageBytes <= q * PageBytes
           /\ (p + q) * PageBytes = p * PageBytes + q * PageBytes
           /\ p <= q => (q - p) * PageBytes = q * PageBytes - p * PageBytes
<1>1. PageBytes \in Nat /\ PageBytes > 0
  BY SizesAre
<1>2. p * PageBytes \in Nat /\ (p + q) * PageBytes = p * PageBytes + q * PageBytes
  BY <1>1
<1>3. p <= q => (q - p) * PageBytes = q * PageBytes - p * PageBytes
  BY <1>1
<1>4. ASSUME p < q
      PROVE  p * PageBytes + PageBytes <= q * PageBytes
  <2>1. PICK d \in Nat : q = p + 1 + d
    <3>1. q - p - 1 \in Nat /\ q = p + 1 + (q - p - 1)
      BY <1>4
    <3> QED
      BY <3>1
  <2>2. q * PageBytes = p * PageBytes + PageBytes + d * PageBytes /\ d * PageBytes \in Nat
    BY <1>1, <2>1
  <2> QED
    BY <1>1, <1>2, <2>2
<1> QED
  BY <1>2, <1>3, <1>4

\* A number of bytes is a number of pages and a rest.
LEMMA PartsAre ==
    ASSUME NEW a \in Nat
    PROVE  /\ PageOf(a) \in Nat /\ a % PageBytes \in Nat /\ a % PageBytes < PageBytes
           /\ a = PageOf(a) * PageBytes + (a % PageBytes)
<1>1. PageBytes \in Nat /\ PageBytes > 0
  BY SizesAre
<1>2. a \div PageBytes \in Nat
  BY <1>1
<1>3. a = (a \div PageBytes) * PageBytes + (a % PageBytes) /\ a % PageBytes \in 0 .. PageBytes - 1
  BY <1>1, <1>2
<1> QED
  BY <1>1, <1>2, <1>3 DEF PageOf

\* They are known by that.
LEMMA PartsOne ==
    ASSUME NEW p \in Nat, NEW x \in Nat, x < PageBytes
    PROVE  PageOf(p * PageBytes + x) = p /\ (p * PageBytes + x) % PageBytes = x
<1>1. PageBytes \in Nat /\ PageBytes > 0 /\ p * PageBytes \in Nat
  BY SizesAre, TimesIs
<1>2. PICK a \in Nat : a = p * PageBytes + x
  BY <1>1
<1>3. PICK q \in Nat, y \in Nat : q = PageOf(a) /\ y = a % PageBytes /\ y < PageBytes /\ a = q * PageBytes + y
  BY PartsAre
<1>4. q * PageBytes \in Nat
  BY TimesIs
<1>5. ~(p < q)
  <2>1. p < q => p * PageBytes + PageBytes <= q * PageBytes
    BY TimesIs
  <2> QED
    BY <1>1, <1>2, <1>3, <1>4, <2>1
<1>6. ~(q < p)
  <2>1. q < p => q * PageBytes + PageBytes <= p * PageBytes
    BY TimesIs
  <2> QED
    BY <1>1, <1>2, <1>3, <1>4, <2>1
<1>7. p = q
  BY <1>5, <1>6
<1>8. x = y
  <2>1. a = p * PageBytes + x /\ a = p * PageBytes + y
    BY <1>2, <1>3, <1>7
  <2> QED
    BY <1>1, <2>1
<1> QED
  BY <1>2, <1>3, <1>7, <1>8

\* Whole pages.
LEMMA WholeIs ==
    ASSUME NEW a \in Nat
    PROVE  /\ Whole(a) => a = PageOf(a) * PageBytes
           /\ PageOf(a) \in Nat /\ Whole(a * PageBytes) /\ PageOf(a * PageBytes) = a
<1>1. Whole(a) => a = PageOf(a) * PageBytes
  <2>1. PICK q \in Nat : q = PageOf(a) /\ a = q * PageBytes + (a % PageBytes)
    BY PartsAre
  <2>2. q * PageBytes \in Nat
    BY TimesIs
  <2> QED
    BY <2>1, <2>2 DEF Whole
<1>2. PageOf(a * PageBytes) = a /\ Whole(a * PageBytes)
  <2>1. PageOf(a * PageBytes + 0) = a /\ (a * PageBytes + 0) % PageBytes = 0
    BY PartsOne, SizesAre
  <2>2. a * PageBytes + 0 = a * PageBytes
    BY TimesIs
  <2> QED
    BY <2>1, <2>2 DEF Whole
<1> QED
  BY <1>1, <1>2, PartsAre

\* Rounded up, to the number of pages n bytes take.
LEMMA AlignIs ==
    ASSUME NEW n \in Nat
    PROVE  \E q \in Nat : /\ AlignUp(n) = q * PageBytes /\ n <= AlignUp(n) /\ AlignUp(n) < n + PageBytes
                          /\ AlignUp(n) \in Nat /\ Whole(AlignUp(n)) /\ PageOf(AlignUp(n)) = q
                          /\ n > 0 => q > 0
                          /\ Whole(n) => AlignUp(n) = n
<1>1. PageBytes \in Nat /\ PageBytes > 0
  BY SizesAre
<1>2. PICK m \in Nat : m = n + PageBytes - 1
  BY <1>1
<1>3. PICK q \in Nat, y \in Nat : q = PageOf(m) /\ y < PageBytes /\ m = q * PageBytes + y
  BY PartsAre
<1>4. q * PageBytes \in Nat
  BY TimesIs
<1>5. AlignUp(n) = q * PageBytes
  BY <1>2, <1>3, Zenon DEF AlignUp, PageOf
<1>6. n <= q * PageBytes /\ q * PageBytes < n + PageBytes
  BY <1>1, <1>2, <1>3, <1>4
<1>7. Whole(q * PageBytes) /\ PageOf(q * PageBytes) = q
  BY WholeIs
<1>8. n > 0 => q > 0
  <2>1. q = 0 => q * PageBytes = 0
    BY <1>1
  <2> QED
    BY <1>6, <2>1
<1>9. Whole(n) => q * PageBytes = n
  <2>1. PICK k \in Nat : k = PageOf(n) /\ (Whole(n) => n = k * PageBytes)
    BY WholeIs
  <2>2. k * PageBytes \in Nat
    BY TimesIs
  <2>3. q < k => q * PageBytes + PageBytes <= k * PageBytes
    BY TimesIs
  <2>4. k < q => k * PageBytes + PageBytes <= q * PageBytes
    BY TimesIs
  <2> QED
    BY <1>1, <1>4, <1>6, <2>1, <2>2, <2>3, <2>4
<1> QED
  BY <1>4, <1>5, <1>6, <1>7, <1>8, <1>9

\* Rounding keeps the order.
LEMMA AlignOrder ==
    ASSUME NEW n \in Nat, NEW m \in Nat, n <= m
    PROVE  AlignUp(n) <= AlignUp(m) /\ PageOf(AlignUp(n)) <= PageOf(AlignUp(m))
<1>1. PICK p \in Nat : AlignUp(n) = p * PageBytes /\ AlignUp(n) < n + PageBytes /\ PageOf(AlignUp(n)) = p
  BY AlignIs
<1>2. PICK q \in Nat : AlignUp(m) = q * PageBytes /\ m <= AlignUp(m) /\ PageOf(AlignUp(m)) = q
  BY AlignIs
<1>3. p * PageBytes \in Nat /\ q * PageBytes \in Nat /\ PageBytes \in Nat
  BY SizesAre, TimesIs
<1>4. q < p => q * PageBytes + PageBytes <= p * PageBytes
  BY TimesIs
<1>5. p < q => p * PageBytes + PageBytes <= q * PageBytes
  BY TimesIs
<1>6. p <= q
  BY <1>1, <1>2, <1>3, <1>4
<1>7. p * PageBytes <= q * PageBytes
  BY <1>3, <1>5, <1>6
<1> QED
  BY <1>1, <1>2, <1>6, <1>7

\* Whole pages before a range are kept apart when it is rounded.
LEMMA AlignShift ==
    ASSUME NEW a \in Nat, Whole(a), NEW n \in Nat
    PROVE  AlignUp(a + n) = a + AlignUp(n) /\ PageOf(AlignUp(a + n)) = PageOf(a) + PageOf(AlignUp(n))
<1>1. PICK p \in Nat : p = PageOf(a) /\ a = p * PageBytes
  BY WholeIs
<1>2. PICK q \in Nat : /\ AlignUp(n) = q * PageBytes /\ n <= AlignUp(n) /\ AlignUp(n) < n + PageBytes
                       /\ PageOf(AlignUp(n)) = q
  BY AlignIs
<1>3. PICK k \in Nat : /\ AlignUp(a + n) = k * PageBytes /\ a + n <= AlignUp(a + n)
                       /\ AlignUp(a + n) < a + n + PageBytes /\ PageOf(AlignUp(a + n)) = k
  <2>1. a + n \in Nat
    OBVIOUS
  <2> QED
    BY <2>1, AlignIs
<1>4. PICK r \in Nat : r = p + q
  OBVIOUS
<1>5. r * PageBytes = p * PageBytes + q * PageBytes
  BY <1>4, TimesIs
<1>6. p * PageBytes \in Nat /\ q * PageBytes \in Nat /\ k * PageBytes \in Nat /\ PageBytes \in Nat
  BY SizesAre, TimesIs
<1>7. k < r => k * PageBytes + PageBytes <= r * PageBytes
  BY TimesIs
<1>8. r < k => r * PageBytes + PageBytes <= k * PageBytes
  BY TimesIs
<1>9. k = r
  BY <1>1, <1>2, <1>3, <1>5, <1>6, <1>7, <1>8
<1> QED
  BY <1>1, <1>2, <1>3, <1>4, <1>5, <1>9

\* The pages of a range that begins with a page.
LEMMA PagesAre ==
    ASSUME NEW a \in Nat, Whole(a), NEW n \in Nat
    PROVE  /\ PagesIn(a, n) = PageOf(a) .. PageOf(a) + PageOf(AlignUp(n)) - 1
           /\ PagesIn(a, AlignUp(n)) = PagesIn(a, n)
<1>1. PICK q \in Nat : PageOf(AlignUp(n)) = q /\ AlignUp(n) \in Nat /\ Whole(AlignUp(n))
  BY AlignIs
<1>2. AlignUp(AlignUp(n)) = AlignUp(n)
  BY <1>1, AlignIs
<1>3. /\ PageOf(AlignUp(a + n)) = PageOf(a) + PageOf(AlignUp(n))
      /\ PageOf(AlignUp(a + AlignUp(n))) = PageOf(a) + PageOf(AlignUp(AlignUp(n)))
  BY <1>1, AlignShift
<1>4. PICK p \in Nat : p = PageOf(a)
  BY WholeIs
<1>5. PICK k \in Nat : k = p + q
  OBVIOUS
<1>6. PagesIn(a, n) = p .. k - 1 /\ PagesIn(a, AlignUp(n)) = p .. k - 1
  BY <1>1, <1>2, <1>3, <1>4, <1>5, Zenon DEF PagesIn
<1>7. k - 1 = p + q - 1
  BY <1>5
<1> QED
  BY <1>1, <1>4, <1>6, <1>7, Zenon

\* They are pages of the guest if the range is one of its addresses.
LEMMA PagesFit ==
    ASSUME NEW a \in Nat, Whole(a), NEW n \in Nat, a + n <= PageCount * PageBytes
    PROVE  /\ PageOf(a) \in Nat /\ PageOf(AlignUp(n)) \in Nat
           /\ PageOf(a) + PageOf(AlignUp(n)) <= PageCount
           /\ AlignUp(a + n) = a + AlignUp(n) /\ a + AlignUp(n) <= PageCount * PageBytes
           /\ n > 0 => PageOf(AlignUp(n)) > 0
           /\ \A p \in PagesIn(a, n) : p \in Pages
<1>1. PageCount \in Nat /\ PageCount * PageBytes \in Nat
  BY SizesAre, TimesIs
<1>2. PICK m : m = PageCount * PageBytes /\ m \in Nat /\ Whole(m) /\ PageOf(m) = PageCount
  BY <1>1, WholeIs
<1>3. PageOf(a) \in Nat /\ PageOf(AlignUp(n)) \in Nat /\ (n > 0 => PageOf(AlignUp(n)) > 0)
  BY AlignIs, WholeIs
<1>4. AlignUp(m) = m
  BY <1>2, AlignIs
<1>5. AlignUp(a + n) <= m /\ PageOf(AlignUp(a + n)) <= PageCount
  <2>1. a + n \in Nat /\ a + n <= m
    BY <1>2
  <2> QED
    BY <1>2, <1>4, <2>1, AlignOrder
<1>6. AlignUp(a + n) = a + AlignUp(n) /\ PageOf(AlignUp(a + n)) = PageOf(a) + PageOf(AlignUp(n))
  BY AlignShift
<1>7. \A p \in PagesIn(a, n) : p \in Pages
  BY <1>1, <1>3, <1>5, <1>6 DEF PagesIn, Pages
<1> QED
  BY <1>2, <1>3, <1>5, <1>6, <1>7

\* A range of so many pages.
LEMMA PagesRange ==
    ASSUME NEW a \in Nat, Whole(a), NEW n \in Nat, Whole(n)
    PROVE  RangeOf(PagesIn(a, n), PageOf(a), PageOf(n))
<1>1. AlignUp(n) = n
  BY AlignIs
<1> QED
  BY <1>1, PagesAre DEF RangeOf

-----------------------------------------------------------------------------
(* What the operations do to the pages. *)

\* while nothing has failed, slots next to each other are of different usage
Joined(vt) == \A j, k \in DOMAIN vt : EndOf(vt, j) = k => vt[j].usage # vt[k].usage
CallMemory == MemorySound /\ (Running => Joined(virt))

\* The consistency check finds those that are not.
LEMMA FlushedJoined ==
    ASSUME FlushCaches
    PROVE  Running' => Joined(virt')
<1>1. fault' = "none" => Consistent(virt', phys')
  BY Zenon DEF FlushCaches
<1> QED
  BY <1>1, Zenon DEF Running, Consistent, Joined

\* What the guest sees is what the calls hold on to.
LEMMA HeldIs == Held.usage = UsageNow /\ Held.content = ContentNow
<1>1. UsageNow = [p \in Pages |-> IF p \in Mapped THEN UsageOf(p) ELSE {"unmapped"}]
  BY DEF UsageNow, Mapped, UsageOf, UsageIn
<1>2. ContentNow = [p \in Pages |-> IF p \in Mapped THEN data[Translate(p)] ELSE 0]
  BY DEF ContentNow, Mapped, Translate, PlaceIn
<1> QED
  BY <1>1, <1>2 DEF Held

\* A page that is not mapped is empty.
LEMMA FreeEmpty ==
    ASSUME MemorySound, NEW p \in Pages
    PROVE  /\ UsageNow[p] = {"unmapped"} <=> p \notin Mapped
           /\ UsageNow[p] = {"unmapped"} => ContentNow[p] = 0
<1>1. PICK e : Sound(virt, phys, e)
  BY DEF MemorySound
<1>2. UsageNow[p] = {"unmapped"} <=> ~Holds(virt, p)
  BY <1>1, UsageIs
<1> QED
  BY <1>2 DEF ContentNow, Mapped

\* nothing the guest sees is changed
SameNow == UsageNow' = UsageNow /\ ContentNow' = ContentNow

\* It depends on the virtual slots and the content of the memory only.
LEMMA SameIf == virt' = virt /\ data' = data => SameNow
BY DEF SameNow, UsageNow, ContentNow

\* env::Memory::mmap: nothing is mapped, or the pages, which were not, are.
LEMMA MapEffect ==
    ASSUME CallMemory, Running, NEW a \in Nat, NEW n \in Nat, a + n <= PageCount * PageBytes,
           NEW u \in SUBSET Rights,
           MapBytes(a, n, u)
    PROVE  /\ CallMemory'
           /\ ~Taken => SameNow
           /\ Taken => Whole(a) /\ Whole(n) /\ n > 0 /\ MapsPages(PagesIn(a, n), u)
<1>1. CASE MapRefused(a, n)
  <2>1. virt' = virt /\ phys' = phys /\ data' = data /\ fault' = fault
    BY <1>1, Zenon DEF MapBytes, vars, slotVars
  <2>2. MemorySound' <=> MemorySound
    BY <2>1 DEF MemorySound
  <2>3. CallMemory'
    BY <2>1, <2>2 DEF CallMemory, Running
  <2> QED
    BY <2>1, <2>3, SameIf DEF Taken
<1>2. CASE ~MapRefused(a, n)
  <2>1. Whole(a) /\ Whole(n) /\ n > 0 /\ MMap(PageOf(a), PageOf(n), u)
    <3>1. Whole(a) /\ Whole(n) /\ n # 0 /\ MMap(PageOf(a), PageOf(n), u)
      BY <1>2, Zenon DEF MapBytes, MapRefused
    <3>2. n # 0 => n > 0
      OBVIOUS
    <3> QED
      BY <3>1, <3>2, Zenon
  <2>2. PICK p \in Nat, k \in Nat : p = PageOf(a) /\ k = PageOf(n) /\ k > 0 /\ p + k <= PageCount
    <3>1. AlignUp(n) = n
      BY <2>1, AlignIs
    <3> QED
      BY <2>1, <3>1, PagesFit
  <2>3. PICK r : r = PagesIn(a, n) /\ RangeOf(r, p, k)
    BY <2>1, <2>2, PagesRange
  <2>4. PICK e \in Nat, N \in Nat : e <= N /\ Sized(data, N) /\ Sound(virt, phys, e)
    BY DEF CallMemory, MemorySound
  <2>5. MMap(p, k, u)
    BY <2>1, <2>2
  <2>6. SoundAfter
    BY <2>2, <2>4, <2>5, MMapKeeps
  <2>7. (virt' = virt /\ data' = data) \/ MapsPages(r, u)
    BY <2>2, <2>3, <2>4, <2>5, MapPages
  <2>8. FlushCaches \/ (virt' = virt /\ (fault' = fault \/ fault' \in {"dangling", "erased"}))
    BY <2>5, MapEnds, Zenon DEF Untouched
  <2>9. Running' => Joined(virt')
    <3>1. CASE FlushCaches
      BY <3>1, FlushedJoined
    <3>2. CASE virt' = virt
      BY <3>2 DEF CallMemory
    <3> QED
      BY <2>8, <3>1, <3>2
  <2>10. CallMemory'
    BY <2>6, <2>9 DEF CallMemory, MemorySound, SoundAfter
  <2>11. Taken => MapsPages(r, u)
    BY <2>7 DEF Taken
  <2>12. ~Taken => SameNow
    BY <2>7, SameIf DEF MapsPages, Taken
  <2> QED
    BY <2>1, <2>3, <2>10, <2>11, <2>12
<1> QED
  BY <1>1, <1>2

\* env::Memory::munmap, of pages that are mapped,
LEMMA MunmapEffect ==
    ASSUME CallMemory, NEW p \in Nat, NEW k \in Nat, k > 0, p + k <= PageCount, Munmap(p, k), NEW r, RangeOf(r, p, k)
    PROVE  CallMemory' /\ UnmapsPages(r)
<1>1. PICK e \in Nat, N \in Nat : e <= N /\ Sized(data, N) /\ Sound(virt, phys, e)
  BY DEF CallMemory, MemorySound
<1>2. Sound(virt', phys', e) /\ data' = data /\ FlushCaches
  BY <1>1, MunmapKeeps DEF Munmap
<1>3. UnmapsPages(r)
  BY <1>1, UnmapPages
<1>4. MemorySound'
  BY <1>1, <1>2 DEF MemorySound
<1>5. CallMemory'
  BY <1>2, <1>4, FlushedJoined DEF CallMemory
<1> QED
  BY <1>3, <1>5

\* and of addresses: they were mapped, and are not any more.
LEMMA UnmapEffect ==
    ASSUME CallMemory, Running, NEW a \in Nat, NEW n \in Nat, n > 0, a + n <= PageCount * PageBytes, UnmapBytes(a, n)
    PROVE  /\ CallMemory'
           /\ UnmapRefused(a, n) => SameNow
           /\ ~UnmapRefused(a, n) => Whole(a) /\ Whole(n) /\ UnmapsPages(PagesIn(a, n))
<1>1. CASE UnmapRefused(a, n)
  <2>1. virt' = virt /\ phys' = phys /\ data' = data /\ fault' = fault
    BY <1>1, Zenon DEF UnmapBytes, vars, slotVars
  <2>2. MemorySound' <=> MemorySound
    BY <2>1 DEF MemorySound
  <2>3. CallMemory'
    BY <2>1, <2>2 DEF CallMemory, Running
  <2> QED
    BY <1>1, <2>1, <2>3, SameIf
<1>2. CASE ~UnmapRefused(a, n)
  <2>1. Whole(a) /\ Whole(n) /\ Munmap(PageOf(a), PageOf(n))
    BY <1>2, Zenon DEF UnmapBytes, UnmapRefused
  <2>2. PICK p \in Nat, k \in Nat : p = PageOf(a) /\ k = PageOf(n) /\ k > 0 /\ p + k <= PageCount
    <3>1. AlignUp(n) = n
      BY <2>1, AlignIs
    <3> QED
      BY <2>1, <3>1, PagesFit
  <2>3. PICK r : r = PagesIn(a, n) /\ RangeOf(r, p, k)
    BY <2>1, <2>2, PagesRange
  <2>4. Munmap(p, k)
    BY <2>1, <2>2
  <2>5. CallMemory' /\ UnmapsPages(r)
    BY <2>2, <2>3, <2>4, MunmapEffect
  <2> QED
    BY <1>2, <2>1, <2>3, <2>5
<1> QED
  BY <1>1, <1>2

\* env::Memory::mprotect: the pages are mapped, and get another usage.
LEMMA ProtectEffect ==
    ASSUME CallMemory, Running, NEW a \in Nat, NEW n \in Nat, n > 0, a + n <= PageCount * PageBytes,
           NEW u \in SUBSET Rights,
           ProtectBytes(a, n, u)
    PROVE  /\ CallMemory'
           /\ UnmapRefused(a, n) => SameNow
           /\ ~UnmapRefused(a, n) => Whole(a) /\ Whole(n) /\ UsesPages(PagesIn(a, n), u)
<1>1. CASE UnmapRefused(a, n)
  <2>1. virt' = virt /\ phys' = phys /\ data' = data /\ fault' = fault
    BY <1>1, Zenon DEF ProtectBytes, vars, slotVars
  <2>2. MemorySound' <=> MemorySound
    BY <2>1 DEF MemorySound
  <2>3. CallMemory'
    BY <2>1, <2>2 DEF CallMemory, Running
  <2> QED
    BY <1>1, <2>1, <2>3, SameIf
<1>2. CASE ~UnmapRefused(a, n)
  <2>1. Whole(a) /\ Whole(n) /\ Mprotect(PageOf(a), PageOf(n), u)
    BY <1>2, Zenon DEF ProtectBytes, UnmapRefused
  <2>2. PICK p \in Nat, k \in Nat : p = PageOf(a) /\ k = PageOf(n) /\ k > 0 /\ p + k <= PageCount
    <3>1. AlignUp(n) = n
      BY <2>1, AlignIs
    <3> QED
      BY <2>1, <3>1, PagesFit
  <2>3. PICK r : r = PagesIn(a, n) /\ RangeOf(r, p, k)
    BY <2>1, <2>2, PagesRange
  <2>4. PICK e \in Nat, N \in Nat : e <= N /\ Sized(data, N) /\ Sound(virt, phys, e)
    BY DEF CallMemory, MemorySound
  <2>5. Mprotect(p, k, u)
    BY <2>1, <2>2
  <2>6. Sound(virt', phys', e) /\ data' = data /\ FlushCaches
    BY <2>4, <2>5, MprotectKeeps DEF Mprotect
  <2>7. UsesPages(r, u)
    BY <2>2, <2>3, <2>4, <2>5, ProtectPages
  <2>8. MemorySound'
    BY <2>4, <2>6 DEF MemorySound
  <2>9. CallMemory'
    BY <2>6, <2>8, FlushedJoined DEF CallMemory
  <2> QED
    BY <1>2, <2>1, <2>3, <2>7, <2>9
<1> QED
  BY <1>1, <1>2

-----------------------------------------------------------------------------
(* The invariant of the calls: where each of them stands, and what it has done so far to the memory it found. *)

Limit == PageCount * PageBytes

\* the break stays at an end of pages
BreakInv == brk.aligned \in Nat /\ Whole(brk.aligned) /\ brk.aligned <= Limit

\* the memory a call found
IsView(b) == b.usage = [p \in Pages |-> b.usage[p]] /\ b.content = [p \in Pages |-> b.content[p]]

\* fMapRange clears the pages it is to replace, some of which may be left
ClearInv(r, at, b) ==
    /\ r.op = "mmap" /\ r.how # "any" /\ r.from # "refused" /\ Whole(r.address) /\ r.length > 0
    /\ at \in Nat /\ PageOf(r.address) <= at
    /\ \A p \in Pages : \/ UsageNow[p] = b.usage[p] /\ ContentNow[p] = b.content[p]
                        \/ r.how = "fixed" /\ p \in PagesIn(r.address, r.length) /\ UsageNow[p] = {"unmapped"}

\* the pages of a mapping are where they were asked for, and replace nothing if they must not
FileAt(r, at, b) ==
    /\ r.op = "mmap" /\ r.from = "file" /\ Whole(r.address) /\ r.length > 0
    /\ at \in Nat /\ Whole(at) /\ at + r.length <= Limit
    /\ r.how # "any" => at = r.address
    /\ r.how # "fixed" => \A p \in PagesIn(at, r.length) : b.usage[p] = {"unmapped"}
    /\ UsageNow = [p \in Pages |-> IF p \in PagesIn(at, r.length) THEN r.usage ELSE b.usage[p]]

\* and they hold the file as far as it was read
FileRead(r, at, size, b) ==
    ContentNow = [p \in Pages |-> IF p \in PagesIn(at, size) THEN 1
                                  ELSE IF p \in PagesIn(at, r.length) THEN 0 ELSE b.content[p]]

ReadInv(r, at, b) ==
    /\ FileAt(r, at, b)
    /\ ContentNow = [p \in Pages |-> IF p \in PagesIn(at, r.length) THEN 0 ELSE b.content[p]]

LockInv(r, at, rest, b) ==
    /\ FileAt(r, at, b)
    /\ \E size \in 0 .. r.length :
          /\ size <= r.file /\ rest = AlignUp(r.length) - AlignUp(size) /\ rest # 0
          /\ FileRead(r, at, size, b)

\* the pages that move are of one usage, and those at the destination were unused and are of it now
OneUsage(r, usage) == \A p \in PagesIn(r.address, r.length) : /\ usage[p] # {"unmapped"}
                                                             /\ usage[p] = usage[PageOf(r.address)]
MoveTo(r, at, b) ==
    /\ r.op = "mremap" /\ "maymove" \in r.flags /\ Whole(r.address) /\ r.length > 0 /\ Whole(r.to) /\ r.to > 0
    /\ at \in Nat /\ Whole(at) /\ at + r.to <= Limit
    /\ "fixed" \in r.flags => at = r.dest
    /\ OneUsage(r, b.usage)
    /\ \A p \in PagesIn(at, r.to) : b.usage[p] = {"unmapped"} /\ b.content[p] = 0
    /\ UsageNow = [p \in Pages |-> IF p \in PagesIn(at, r.to) THEN b.usage[PageOf(r.address)] ELSE b.usage[p]]

CopyInv(r, at, b) == MoveTo(r, at, b) /\ ContentNow = b.content

ReleaseInv(r, at, b) ==
    /\ MoveTo(r, at, b)
    /\ ContentNow = [p \in Pages |-> IF p \in PagesIn(at, Copied(r)) THEN b.content[p - PageOf(at) + PageOf(r.address)]
                                     ELSE b.content[p]]

\* a call that is not at its end
Stands(phase) ==
    /\ call = [phase |-> phase, request |-> call.request, at |-> call.at, before |-> call.before]
    /\ call.request \in Requests /\ IsView(call.before)

PhaseInv ==
    \/ call = Idle
    \/ call.phase = "ended"
    \/ Stands("clear") /\ ClearInv(call.request, call.at, call.before)
    \/ Stands("read") /\ ReadInv(call.request, call.at, call.before)
    \/ /\ call.phase = "lock" /\ call.request \in Requests /\ IsView(call.before)
       /\ LockInv(call.request, call.at, call.rest, call.before)
    \/ Stands("copy") /\ CopyInv(call.request, call.at, call.before)
    \/ Stands("release") /\ ReleaseInv(call.request, call.at, call.before)

CallInv == CallMemory /\ BreakInv /\ PhaseInv

-----------------------------------------------------------------------------
(* What the calls show of the memory, before and after a step. *)

\* While no call is on, what there is; otherwise what the call found.
LEMMA SeenIs ==
    /\ call = Idle => Seen.usage = UsageNow /\ Seen.content = ContentNow
    /\ call # Idle => Seen = call.before
BY HeldIs DEF Seen

\* The same after a step.
LEMMA SeenNext ==
    /\ call' = Idle => Seen'.usage = UsageNow' /\ Seen'.content = ContentNow'
    /\ call' # Idle => Seen' = call'.before
<1>1. UsageNow' = [p \in Pages |-> IF p \in Mapped THEN UsageOf(p) ELSE {"unmapped"}]'
  BY DEF UsageNow, Mapped, UsageOf, UsageIn
<1>2. ContentNow' = [p \in Pages |-> IF p \in Mapped THEN data[Translate(p)] ELSE 0]'
  BY DEF ContentNow, Mapped, Translate, PlaceIn
<1>3. Held'.usage = UsageNow' /\ Held'.content = ContentNow'
  BY <1>1, <1>2 DEF Held
<1> QED
  BY <1>3 DEF Seen

Shows(U, C, V, D) == Seen.usage = U /\ Seen.content = C /\ Seen'.usage = V /\ Seen'.content = D

\* What the promise says of it.
LEMMA CallsAre ==
    ASSUME NEW U, NEW C, NEW V, NEW D, Shows(U, C, V, D)
    PROVE  /\ Calls!Same <=> V = U /\ D = C
           /\ \A s : Calls!Used(s) <=> \A p \in s : U[p] # {"unmapped"}
           /\ \A s : Calls!Unused(s) <=> s \subseteq Pages /\ \A p \in s : U[p] = {"unmapped"}
           /\ \A s, u, full : Calls!Mapped(s, u, full) <=>
                /\ V = [p \in Pages |-> IF p \in s THEN u ELSE U[p]]
                /\ D = [p \in Pages |-> IF p \in full THEN 1 ELSE IF p \in s THEN 0 ELSE C[p]]
           /\ \A s : Calls!Cleared(s) <=>
                /\ V = [p \in Pages |-> IF p \in s THEN {"unmapped"} ELSE U[p]]
                /\ D = [p \in Pages |-> IF p \in s THEN 0 ELSE C[p]]
<1>1. Seen.usage = U /\ Seen.content = C /\ Seen'.usage = V /\ Seen'.content = D
  BY Zenon DEF Shows
<1>2. Calls!Same <=> V = U /\ D = C
  BY <1>1, Zenon DEF Calls!Same
<1>3. \A s : Calls!Used(s) <=> \A p \in s : U[p] # {"unmapped"}
  BY <1>1, Zenon DEF Calls!Used, Calls!Free
<1>4. \A s : Calls!Unused(s) <=> s \subseteq Pages /\ \A p \in s : U[p] = {"unmapped"}
  BY <1>1, Zenon DEF Calls!Unused, Calls!Free, Calls!Pages, Pages
<1>5. \A s, u, full : Calls!Mapped(s, u, full) <=>
                /\ V = [p \in Pages |-> IF p \in s THEN u ELSE U[p]]
                /\ D = [p \in Pages |-> IF p \in full THEN 1 ELSE IF p \in s THEN 0 ELSE C[p]]
  BY <1>1, Zenon DEF Calls!Mapped, Calls!Pages, Pages
<1>6. \A s : [p \in Pages |-> IF p \in {} THEN 1 ELSE IF p \in s THEN 0 ELSE C[p]]
              = [p \in Pages |-> IF p \in s THEN 0 ELSE C[p]]
  OBVIOUS
<1>7. \A s : Calls!Cleared(s) <=>
                /\ V = [p \in Pages |-> IF p \in s THEN {"unmapped"} ELSE U[p]]
                /\ D = [p \in Pages |-> IF p \in s THEN 0 ELSE C[p]]
  BY <1>5, <1>6, Zenon DEF Calls!Cleared, Calls!Free
<1> QED
  BY <1>2, <1>3, <1>4, <1>5, <1>7, Zenon

Replies(r, e, v) == answer' = [request |-> r, error |-> e, value |-> v]

\* How a call ends.
LEMMA ReturnIs ==
    ASSUME NEW r, NEW e, NEW v, (Return(r, v) /\ e = "none") \/ (Fail(r, e) /\ v = 0)
    PROVE  call' = Idle /\ Replies(r, e, v)
BY Zenon DEF Return, Fail, Replies

\* What it answers is what the promise answers.
LEMMA AnswersAre ==
    ASSUME NEW r, NEW e, NEW v, Replies(r, e, v)
    PROVE  /\ e = "none" => Calls!Answered(r, v)
           /\ v = 0 => Calls!Failed(r, e)
           /\ answer'.request = r
<1>1. answer'.request = r
  BY DEF Replies
<1> QED
  BY <1>1, Zenon DEF Replies, Calls!Answered, Calls!Failed

\* A call that goes on still shows what it found.
LEMMA GoesOn ==
    ASSUME NEW phase, NEW r, NEW at, GoOn(phase, r, at), phase # "idle"
    PROVE  /\ call' = [phase |-> phase, request |-> r, at |-> at, before |-> Seen]
           /\ Seen' = Seen /\ answer' = answer
<1>1. call' = [phase |-> phase, request |-> r, at |-> at, before |-> Seen] /\ answer' = answer
  BY Zenon DEF GoOn, Seen
<1>2. call'.before = Seen /\ call' # Idle
  <2>1. call'.phase = phase /\ Idle.phase = "idle" /\ call'.before = Seen
    BY <1>1 DEF Idle
  <2> QED
    BY <2>1
<1> QED
  BY <1>1, <1>2, SeenNext

\* every step keeps to the promise, and to the invariant
Agrees == CallInv' /\ (Calls!Called \/ UNCHANGED Calls!mappingVars)

\* A step that shows nothing is none for the promise.
LEMMA Quiet ==
    ASSUME CallInv', Seen' = Seen, brk' = brk, answer' = answer
    PROVE  Agrees
BY Zenon DEF Agrees, Calls!mappingVars

\* A step that serves a call is one of the promise.
LEMMA Served ==
    ASSUME CallInv', NEW r \in Requests, Calls!Serve(r), answer'.request = r
    PROVE  Agrees
BY Zenon DEF Agrees, Calls!Called

\* A call that ends leaves the invariant, if the memory is sound.
LEMMA InvIdle ==
    ASSUME CallMemory', BreakInv', call' = Idle
    PROVE  CallInv'
BY DEF CallInv, PhaseInv

-----------------------------------------------------------------------------
(* mprotect, munmap and brk. *)

\* The ranges that are asked for are addresses of the guest.
LEMMA RequestIs ==
    ASSUME NEW r \in Requests
    PROVE  /\ r.op = "brk" => r.address \in Nat /\ r.address <= Limit
           /\ r.op \in {"mmap", "mprotect", "munmap", "mremap"} =>
                r.address \in Nat /\ r.length \in Nat /\ r.address + r.length <= Limit
           /\ r.op \in {"mmap", "mprotect"} => r.usage \in SUBSET Rights
           /\ r.op = "mmap" => /\ r.file \in Nat /\ r.how \in {"any", "fixed", "noreplace"}
                               /\ r.from \in {"anonymous", "file", "refused"}
           /\ r.op = "mremap" => r.to \in Nat /\ r.address + r.to <= Limit /\ r.dest \in Nat /\ r.dest + r.to <= Limit
<1>1. \A a : Addresses(a, 0) => a \in Nat /\ a <= Limit
  BY DEF Addresses, Limit
<1>2. \A a, n : Addresses(a, n) => a \in Nat /\ n \in Nat /\ a + n <= Limit
  BY Zenon DEF Addresses, Limit
<1>3. \A u : u \in Usages => u \in SUBSET Rights
  BY MemoryAssumption DEF Rights
<1> QED
  BY <1>1, <1>2, <1>3, RequestsAssumption

\* A call begins with what there is, and ends with what there is then.
LEMMA Begun ==
    ASSUME CallInv, Waiting
    PROVE  /\ Running /\ CallMemory /\ BreakInv /\ call = Idle
           /\ Seen.usage = UsageNow /\ Seen.content = ContentNow
           /\ call' = Idle => Shows(UsageNow, ContentNow, UsageNow', ContentNow')
<1>1. Running /\ CallMemory /\ BreakInv /\ call = Idle
  BY Zenon DEF CallInv, Waiting
<1> QED
  BY <1>1, SeenIs, SeenNext, Zenon DEF Shows

\* If no operation is made, nothing changes.
LEMMA StillMemory ==
    ASSUME CallMemory, UNCHANGED vars
    PROVE  CallMemory' /\ SameNow
<1>1. virt' = virt /\ phys' = phys /\ data' = data /\ fault' = fault
  BY Zenon DEF vars, slotVars
<1>2. MemorySound' <=> MemorySound
  BY <1>1 DEF MemorySound
<1> QED
  BY <1>1, <1>2, SameIf DEF CallMemory, Running

\* the break is where it was
LEMMA StillBreak ==
    ASSUME BreakInv, brk' = brk
    PROVE  BreakInv'
BY Zenon DEF BreakInv, Limit

\* Pages are mapped if they have a usage.
LEMMA MappedIs ==
    ASSUME CallMemory, NEW s \in SUBSET Pages
    PROVE  s \subseteq Mapped <=> \A p \in s : UsageNow[p] # {"unmapped"}
BY FreeEmpty DEF CallMemory

\* mprotect and munmap of nothing, or of what they refuse.
LEMMA RangeRefused ==
    ASSUME CallInv, Waiting, NEW r \in Requests, r.op \in {"mprotect", "munmap"}, CallMemory', brk' = brk, SameNow,
           \/ r.length = 0 /\ Return(r, 0)
           \/ r.length > 0 /\ ~Whole(r.address) /\ Fail(r, "eInvalid")
           \/ r.length > 0 /\ Whole(r.address) /\ UnmapRefused(r.address, AlignUp(r.length)) /\ Fail(r, "eNoMemory")
    PROVE  Agrees
<1>1. /\ call' = Idle /\ answer'.request = r
      /\ r.length = 0 => Calls!Answered(r, 0)
      /\ r.length > 0 /\ ~Whole(r.address) => Calls!Failed(r, "eInvalid")
      /\ r.length > 0 /\ Whole(r.address) => Calls!Failed(r, "eNoMemory")
  <2>1. CASE r.length = 0
    <3>1. Return(r, 0)
      BY <2>1
    <3>2. Replies(r, "none", 0) /\ call' = Idle
      BY <3>1, ReturnIs
    <3> QED
      BY <2>1, <3>2, AnswersAre
  <2>2. CASE r.length > 0 /\ ~Whole(r.address)
    <3>1. Fail(r, "eInvalid")
      BY <2>2
    <3>2. Replies(r, "eInvalid", 0) /\ call' = Idle
      BY <3>1, ReturnIs
    <3> QED
      BY <2>2, <3>2, AnswersAre
  <2>3. CASE r.length > 0 /\ Whole(r.address) /\ UnmapRefused(r.address, AlignUp(r.length)) /\ Fail(r, "eNoMemory")
    <3>2. Replies(r, "eNoMemory", 0) /\ call' = Idle
      BY <2>3, ReturnIs
    <3> QED
      BY <2>3, <3>2, AnswersAre
  <2> QED
    BY <2>1, <2>2, <2>3
<1>2. CallMemory /\ BreakInv /\ Shows(UsageNow, ContentNow, UsageNow', ContentNow')
  BY <1>1, Begun
<1>3. CallInv'
  BY <1>1, <1>2, StillBreak, InvIdle
<1>4. Calls!Same
  BY <1>2, CallsAre DEF SameNow
<1>5. r.address \in Nat /\ r.length \in Nat /\ r.address + r.length <= Limit
  BY RequestIs
<1>6. ASSUME r.length > 0, Whole(r.address)
      PROVE  ~(PagesIn(r.address, r.length) \subseteq Pages /\ Calls!Used(PagesIn(r.address, r.length)))
  <2>1. UnmapRefused(r.address, AlignUp(r.length))
    BY <1>5, <1>6
  <2>2. Whole(AlignUp(r.length)) /\ PagesIn(r.address, AlignUp(r.length)) = PagesIn(r.address, r.length)
    BY <1>5, <1>6, AlignIs, PagesAre
  <2>3. ~(PagesIn(r.address, r.length) \subseteq Mapped)
    BY <1>6, <2>1, <2>2, Zenon DEF UnmapRefused
  <2>4. PICK s : s = PagesIn(r.address, r.length)
    OBVIOUS
  <2>5. s \subseteq Pages => ~(\A p \in s : UsageNow[p] # {"unmapped"})
    BY <1>2, <2>3, <2>4, MappedIs
  <2>6. Calls!Used(s) <=> \A p \in s : UsageNow[p] # {"unmapped"}
    BY <1>2, CallsAre
  <2> QED
    BY <2>4, <2>5, <2>6
<1>7. r.length = 0 \/ r.length > 0
  BY <1>5
<1>8. \/ r.length = 0 /\ Calls!Same /\ Calls!Answered(r, 0)
      \/ r.length > 0 /\ ~Whole(r.address) /\ Calls!Same /\ Calls!Failed(r, "eInvalid")
      \/ /\ r.length > 0 /\ Whole(r.address)
         /\ ~(PagesIn(r.address, r.length) \subseteq Pages /\ Calls!Used(PagesIn(r.address, r.length)))
         /\ Calls!Same /\ Calls!Failed(r, "eNoMemory")
  BY <1>1, <1>4, <1>6, <1>7, Zenon
<1>9. PagesIn(r.address, AlignUp(r.length)) = PagesIn(r.address, r.length) \/ ~Whole(r.address)
  BY <1>5, PagesAre
<1>10. Calls!ChangeUsage(r) /\ Calls!Remove(r)
  <2>1. Calls!PagesOf(r.address, Calls!Up(r.length)) = PagesIn(r.address, AlignUp(r.length))
    BY Zenon DEF Calls!PagesOf, Calls!Up, PagesIn, PageOf, AlignUp
  <2>2. Calls!Whole(r.address) <=> Whole(r.address)
    BY Zenon DEF Calls!Whole, Whole
  <2>3. \A c : Calls!Range(r, "eNoMemory", c)
    BY <1>8, <1>9, <2>1, <2>2, Zenon DEF Calls!Range, Calls!Pages, Pages
  <2> QED
    BY <2>3, Zenon DEF Calls!ChangeUsage, Calls!Remove
<1> QED
  BY <1>1, <1>3, <1>10, Served DEF Calls!Serve

\* The pages of a range are pages of the guest.
LEMMA RangeFits ==
    ASSUME NEW r \in Requests, r.op \in {"mmap", "mprotect", "munmap", "mremap"}, Whole(r.address), NEW s,
           s = PagesIn(r.address, r.length)
    PROVE  /\ r.address \in Nat /\ r.length \in Nat /\ AlignUp(r.length) \in Nat /\ Whole(AlignUp(r.length))
           /\ r.address + AlignUp(r.length) <= Limit
           /\ s \in SUBSET Pages /\ PagesIn(r.address, AlignUp(r.length)) = s
           /\ r.length > 0 => AlignUp(r.length) > 0
<1>1. r.address \in Nat /\ r.length \in Nat /\ r.address + r.length <= Limit
  BY RequestIs
<1>2. /\ AlignUp(r.length) \in Nat /\ Whole(AlignUp(r.length)) /\ r.length <= AlignUp(r.length)
      /\ PagesIn(r.address, AlignUp(r.length)) = s
  BY <1>1, AlignIs, PagesAre
<1>3. r.address + AlignUp(r.length) <= Limit /\ \A p \in s : p \in Pages
  BY <1>1, PagesFit DEF Limit
<1> QED
  BY <1>1, <1>2, <1>3

\* What a call does to a range that it does not refuse.
LEMMA RangeServed ==
    ASSUME CallInv, Waiting, NEW r \in Requests, r.length > 0, Whole(r.address), CallMemory', brk' = brk, Return(r, 0),
           NEW s, s = PagesIn(r.address, r.length), s \in SUBSET Pages,
           \/ r.op = "mprotect" /\ UsesPages(s, r.usage)
           \/ r.op = "munmap" /\ UnmapsPages(s)
    PROVE  Agrees
<1>1. call' = Idle /\ Replies(r, "none", 0)
  BY ReturnIs
<1>2. CallMemory /\ BreakInv /\ Shows(UsageNow, ContentNow, UsageNow', ContentNow')
  BY <1>1, Begun
<1>3. CallInv'
  BY <1>1, <1>2, StillBreak, InvIdle
<1>4. Calls!Answered(r, 0) /\ answer'.request = r
  BY <1>1, AnswersAre
<1>5. r.address \in Nat /\ r.length \in Nat /\ PagesIn(r.address, AlignUp(r.length)) = s
  BY RangeFits
<1>6. /\ Calls!PagesOf(r.address, Calls!Up(r.length)) = s
      /\ Calls!PagesOf(r.address, r.length) = s
      /\ Calls!Whole(r.address)
  BY <1>5, Zenon DEF Calls!PagesOf, Calls!Up, PagesIn, PageOf, AlignUp, Calls!Whole, Whole
<1>7. Calls!Used(s)
  BY <1>2, CallsAre DEF UsesPages, UnmapsPages
<1>8. \A c : c => Calls!Range(r, "eNoMemory", c)
  BY <1>4, <1>6, <1>7, Zenon DEF Calls!Range, Calls!Pages, Pages
<1>9. CASE r.op = "mprotect" /\ UsesPages(s, r.usage)
  <2>1. Seen'.usage = [p \in Pages |-> IF p \in s THEN r.usage ELSE Seen.usage[p]] /\ Seen'.content = Seen.content
    BY <1>2, <1>9, Zenon DEF UsesPages, Shows
  <2>2. Calls!ChangeUsage(r)
    BY <1>6, <1>8, <2>1, Zenon DEF Calls!ChangeUsage, Calls!Pages, Pages
  <2> QED
    BY <1>3, <1>4, <1>9, <2>2, Served, Zenon DEF Calls!Serve
<1>10. CASE r.op = "munmap" /\ UnmapsPages(s)
  <2>1. Calls!Cleared(s)
    BY <1>2, <1>10, CallsAre DEF UnmapsPages
  <2>2. Calls!Remove(r)
    BY <1>6, <1>8, <2>1, Zenon DEF Calls!Remove
  <2> QED
    BY <1>3, <1>4, <1>10, <2>2, Served, Zenon DEF Calls!Serve
<1> QED
  BY <1>9, <1>10

\* mprotect and munmap.
LEMMA RangeCall ==
    ASSUME CallInv, Waiting, NEW r \in Requests,
           \/ r.op = "mprotect" /\ ProtectCall(r)
           \/ r.op = "munmap" /\ UnmapCall(r)
    PROVE  Agrees
<1>1. Running /\ CallMemory
  BY Begun
<1>2. brk' = brk
  BY Zenon DEF ProtectCall, UnmapCall, Changed
<1>3. r.length \in Nat
  BY RequestIs
<1>4. CASE r.length = 0
  <2>1. Return(r, 0) /\ UNCHANGED vars
    <3>1. ~(r.length > 0)
      BY <1>4
    <3> QED
      BY <3>1, Zenon DEF ProtectCall, UnmapCall, Changed
  <2> QED
    BY <1>1, <1>2, <1>4, <2>1, StillMemory, RangeRefused
<1>5. CASE r.length > 0 /\ ~Whole(r.address)
  <2>1. r.length # 0
    BY <1>3, <1>5
  <2>2. Fail(r, "eInvalid") /\ UNCHANGED vars
    BY <1>5, <2>1, Zenon DEF ProtectCall, UnmapCall, Changed, Refuse
  <2> QED
    BY <1>1, <1>2, <1>5, <2>2, StillMemory, RangeRefused
<1>6. CASE r.length > 0 /\ Whole(r.address)
  <2>1. r.length # 0
    BY <1>3, <1>6
  <2>2. /\ \/ r.op = "mprotect" /\ ProtectBytes(r.address, AlignUp(r.length), r.usage)
           \/ r.op = "munmap" /\ UnmapBytes(r.address, AlignUp(r.length))
        /\ IF UnmapRefused(r.address, AlignUp(r.length)) THEN Fail(r, "eNoMemory") ELSE Return(r, 0)
    BY <1>6, <2>1, Zenon DEF ProtectCall, UnmapCall, Changed
  <2>3. PICK n \in Nat : n = AlignUp(r.length) /\ n > 0 /\ Whole(n) /\ r.address + n <= PageCount * PageBytes
    BY <1>6, RangeFits DEF Limit
  <2>4. PICK s \in SUBSET Pages : s = PagesIn(r.address, r.length) /\ s = PagesIn(r.address, n)
    BY <1>6, <2>3, RangeFits
  <2>5. PICK a \in Nat : a = r.address
    BY <1>6, RangeFits
  <2>6. PICK u : u = r.usage
    OBVIOUS
  <2>7. r.op = "mprotect" => u \in SUBSET Rights
    BY <2>6, RequestIs
  <2>8. /\ CallMemory'
        /\ UnmapRefused(a, n) => SameNow
        /\ ~UnmapRefused(a, n) => \/ r.op = "mprotect" /\ UsesPages(PagesIn(a, n), u)
                                  \/ r.op = "munmap" /\ UnmapsPages(PagesIn(a, n))
    <3>1. CASE r.op = "mprotect" /\ ProtectBytes(a, n, u)
      BY <1>1, <2>3, <2>5, <2>7, <3>1, ProtectEffect
    <3>2. CASE r.op = "munmap" /\ UnmapBytes(a, n)
      BY <1>1, <2>3, <2>5, <3>2, UnmapEffect
    <3> QED
      BY <2>2, <2>3, <2>5, <2>6, <3>1, <3>2
  <2>9. CASE UnmapRefused(a, n)
    <3>1. Fail(r, "eNoMemory") /\ UnmapRefused(r.address, AlignUp(r.length))
      BY <2>2, <2>3, <2>5, <2>9
    <3>2. r.op \in {"mprotect", "munmap"}
      OBVIOUS
    <3> QED
      BY <1>2, <1>6, <2>8, <2>9, <3>1, <3>2, RangeRefused
  <2>10. CASE ~UnmapRefused(a, n)
    <3>1. Return(r, 0)
      BY <2>2, <2>3, <2>5, <2>10
    <3>2. \/ r.op = "mprotect" /\ UsesPages(s, r.usage)
          \/ r.op = "munmap" /\ UnmapsPages(s)
      BY <2>4, <2>5, <2>6, <2>8, <2>10
    <3> QED
      BY <1>2, <1>6, <2>4, <2>8, <3>1, <3>2, RangeServed
  <2> QED
    BY <2>9, <2>10
<1> QED
  BY <1>3, <1>4, <1>5, <1>6

\* How the break is where it ends up.
MovesBreak(c, a) == brk' = [current |-> c, aligned |-> a]

\* It is again at an end of pages.
LEMMA BreakMoves ==
    ASSUME NEW c, NEW a \in Nat, Whole(a), a <= Limit, MovesBreak(c, a)
    PROVE  BreakInv'
<1>1. brk'.aligned = a
  BY DEF MovesBreak
<1>2. BreakInv' <=> brk'.aligned \in Nat /\ Whole(brk'.aligned) /\ brk'.aligned <= Limit
  BY Zenon DEF BreakInv, Limit, Whole
<1> QED
  BY <1>1, <1>2

\* No pages from an end of pages on.
LEMMA NoPages ==
    ASSUME NEW a \in Nat, Whole(a)
    PROVE  PagesIn(a, 0) = {} /\ a - a = 0
<1>1. AlignUp(a + 0) = a
  BY AlignIs
<1>2. PageOf(a) \in Nat
  BY WholeIs
<1> QED
  BY <1>1, <1>2 DEF PagesIn

\* The end of the pages of an address.
LEMMA EndIs ==
    ASSUME NEW a \in Nat, a <= Limit
    PROVE  AlignUp(a) \in Nat /\ Whole(AlignUp(a)) /\ a <= AlignUp(a) /\ AlignUp(a) <= Limit
<1>1. PageCount \in Nat /\ Limit \in Nat
  BY SizesAre, TimesIs DEF Limit
<1>2. Whole(Limit)
  BY <1>1, WholeIs DEF Limit
<1>3. AlignUp(Limit) = Limit
  BY <1>1, <1>2, AlignIs
<1> QED
  BY <1>1, <1>3, AlignIs, AlignOrder

\* What lies between two ends of pages.
LEMMA Between ==
    ASSUME NEW a \in Nat, Whole(a), NEW b \in Nat, Whole(b), a <= b, b <= Limit
    PROVE  /\ b - a \in Nat /\ Whole(b - a) /\ a + (b - a) = b /\ a + (b - a) <= PageCount * PageBytes
           /\ PagesIn(a, b - a) \in SUBSET Pages
           /\ \A p \in Int : p \in PagesIn(a, b - a) <=> PageOf(a) <= p /\ p < PageOf(b)
<1>1. PICK p \in Nat, q \in Nat : p = PageOf(a) /\ a = p * PageBytes /\ q = PageOf(b) /\ b = q * PageBytes
  BY WholeIs
<1>2. p <= q
  <2>1. q < p => q * PageBytes + PageBytes <= p * PageBytes
    BY TimesIs
  <2>2. q * PageBytes \in Nat /\ p * PageBytes \in Nat /\ PageBytes \in Nat /\ PageBytes > 0
    BY SizesAre, TimesIs
  <2> QED
    BY <1>1, <2>1, <2>2
<1>3. b - a = (q - p) * PageBytes
  BY <1>1, <1>2, TimesIs
<1>4. q - p \in Nat
  BY <1>2
<1>5. Whole(b - a)
  BY <1>3, <1>4, WholeIs
<1>6. b - a \in Nat /\ a + (b - a) = b /\ a + (b - a) <= PageCount * PageBytes
  BY DEF Limit
<1>7. PICK n \in Nat : n = b - a
  BY <1>6
<1>8. PagesIn(a, n) \in SUBSET Pages
  BY <1>6, <1>7, PagesFit
<1>9. AlignUp(b) = b
  BY AlignIs
<1>10. PagesIn(a, b - a) = p .. q - 1
  BY <1>1, <1>6, <1>9, Zenon DEF PagesIn
<1> QED
  BY <1>1, <1>5, <1>6, <1>7, <1>8, <1>10

\* The terms of the promise are those of the calls.
LEMMA SameTerms ==
    /\ \A a : Calls!Up(a) = AlignUp(a)
    /\ \A a : Calls!Whole(a) <=> Whole(a)
    /\ \A a, n : Calls!PagesOf(a, n) = PagesIn(a, n)
    /\ Calls!Pages = Pages
<1>1. \A a : Calls!Up(a) = AlignUp(a)
  BY Zenon DEF Calls!Up, AlignUp
<1>2. \A a : Calls!Whole(a) <=> Whole(a)
  BY Zenon DEF Calls!Whole, Whole
<1>3. \A a, n : Calls!PagesOf(a, n) = PagesIn(a, n)
  BY Zenon DEF Calls!PagesOf, Calls!Up, PagesIn, PageOf, AlignUp
<1> QED
  BY <1>1, <1>2, <1>3, Zenon DEF Calls!Pages, Pages

\* Nothing is set for no pages.
LEMMA SetsNothing ==
    ASSUME Calls!Same, NEW U, NEW C, NEW V, NEW D, Shows(U, C, V, D), U = [p \in Pages |-> U[p]], C = [p \in Pages |-> C[p]]
    PROVE  Calls!Cleared({}) /\ Calls!Used({})
<1>1. V = U /\ D = C
  BY CallsAre
<1>2. /\ V = [p \in Pages |-> IF p \in {} THEN {"unmapped"} ELSE U[p]]
      /\ D = [p \in Pages |-> IF p \in {} THEN 0 ELSE C[p]]
  BY <1>1
<1>3. Calls!Cleared({})
  BY <1>2, CallsAre
<1> QED
  BY <1>3, CallsAre

\* UsageNow and ContentNow are of the pages.
LEMMA NowIs == UsageNow = [p \in Pages |-> UsageNow[p]] /\ ContentNow = [p \in Pages |-> ContentNow[p]]
BY DEF UsageNow, ContentNow

\* Pages that are mapped are empty.
LEMMA EmptyPages ==
    ASSUME CallMemory, NEW s \in SUBSET Pages, NEW u, MapsPages(s, u), Shows(UsageNow, ContentNow, UsageNow', ContentNow')
    PROVE  Calls!Unused(s) /\ Calls!Mapped(s, u, {})
<1>1. /\ \A p \in s : UsageNow[p] = {"unmapped"}
      /\ UsageNow' = [p \in Pages |-> IF p \in s THEN u ELSE UsageNow[p]]
      /\ ContentNow' = ContentNow
  BY Zenon DEF MapsPages
<1>2. \A p \in s : ContentNow[p] = 0
  BY <1>1, FreeEmpty DEF CallMemory
<1>3. ContentNow' = [p \in Pages |-> IF p \in {} THEN 1 ELSE IF p \in s THEN 0 ELSE ContentNow[p]]
  BY <1>1, <1>2, NowIs
<1> QED
  BY <1>1, <1>3, CallsAre

\* A call that has served what was asked for.
LEMMA Ends ==
    ASSUME NEW r \in Requests, CallMemory', BreakInv', call' = Idle, answer'.request = r, Calls!Serve(r)
    PROVE  Agrees
BY InvIdle, Served

\* brk.
LEMMA BrkCall ==
    ASSUME CallInv, Waiting, NEW r \in Requests, r.op = "brk", Brk(r)
    PROVE  Agrees
<1>1. Running /\ CallMemory /\ BreakInv
  BY Begun
<1>2. PICK b \in Nat : b = brk.aligned /\ Whole(b) /\ b <= Limit
  BY <1>1 DEF BreakInv
<1>3. r.address \in Nat /\ r.address <= Limit
  BY RequestIs
<1>4. PICK e \in Nat : e = AlignUp(r.address) /\ Whole(e) /\ e <= Limit
  BY <1>3, EndIs
<1>5. BreakStart \in Nat
  BY CallsAssumption
<1>6. \A v : Return(r, v) => /\ call' = Idle /\ answer'.request = r /\ Calls!Answered(r, v)
                             /\ Shows(UsageNow, ContentNow, UsageNow', ContentNow')
  <2>1. ASSUME NEW v, Return(r, v)
        PROVE  /\ call' = Idle /\ answer'.request = r /\ Calls!Answered(r, v)
               /\ Shows(UsageNow, ContentNow, UsageNow', ContentNow')
    <3>1. call' = Idle /\ Replies(r, "none", v)
      BY <2>1, Zenon DEF Return, Replies
    <3> QED
      BY <3>1, AnswersAre, Begun
  <2> QED
    BY <2>1
<1>7. ASSUME Shows(UsageNow, ContentNow, UsageNow', ContentNow'), SameNow
      PROVE  Calls!Same
  BY <1>7, CallsAre DEF SameNow
<1>8. SUFFICES ASSUME NEW v, Return(r, v)
               PROVE  CallMemory' /\ BreakInv' /\ Calls!Brk(r)
  <2>1. \E v : Return(r, v)
    BY Zenon DEF Brk, BrkGrow, BrkShrink
  <2>2. CallMemory' /\ BreakInv' /\ Calls!Brk(r)
    BY <1>8, <2>1
  <2>3. Calls!Serve(r)
    BY <2>2, Zenon DEF Calls!Serve
  <2> QED
    BY <1>6, <2>1, <2>2, <2>3, Ends
<1>9. Shows(UsageNow, ContentNow, UsageNow', ContentNow')
  BY <1>6, <1>8
<1>10. CASE r.address < BreakStart
  <2>1. ~(r.address >= BreakStart)
    BY <1>3, <1>5, <1>10
  <2>2. Return(r, brk.current) /\ UNCHANGED vars /\ brk' = brk
    BY <2>1, Zenon DEF Brk
  <2>3. CallMemory' /\ SameNow /\ BreakInv'
    BY <1>1, <2>2, StillMemory, StillBreak
  <2>4. Calls!Same /\ Calls!Answered(r, brk.current)
    BY <1>6, <1>7, <1>9, <2>2, <2>3
  <2> QED
    BY <1>10, <2>2, <2>3, <2>4, Zenon DEF Calls!Brk
<1>11. CASE BrkGrow(r, e) /\ r.address >= BreakStart
  <2>1. e > b /\ MapBytes(b, e - b, {"read", "write"})
    BY <1>2, <1>11, Zenon DEF BrkGrow
  <2>2. PICK n \in Nat : n = e - b /\ b + n <= PageCount * PageBytes /\ Whole(n) /\ PagesIn(b, n) \in SUBSET Pages
    BY <1>2, <1>4, <2>1, Between
  <2>3. {"read", "write"} \in SUBSET Rights
    BY DEF Rights
  <2>4. CallMemory' /\ (~Taken => SameNow) /\ (Taken => MapsPages(PagesIn(b, n), {"read", "write"}))
    <3>1. PICK u \in SUBSET Rights : u = {"read", "write"}
      BY <2>3
    <3>2. MapBytes(b, n, u)
      BY <2>1, <2>2, <3>1
    <3> QED
      BY <1>1, <2>2, <3>1, <3>2, MapEffect
  <2>5. CASE Taken
    <3>1. MovesBreak(r.address, e) /\ Return(r, r.address)
      BY <1>11, <2>5, Zenon DEF BrkGrow, MovesBreak
    <3>2. BreakInv'
      BY <1>4, <3>1, BreakMoves
    <3>3. Calls!Unused(PagesIn(b, n)) /\ Calls!Mapped(PagesIn(b, n), {"read", "write"}, {})
      <4>0. PICK u : u = {"read", "write"}
        OBVIOUS
      <4>1. PICK s \in SUBSET Pages : s = PagesIn(b, n)
        BY <2>2
      <4>2. MapsPages(s, u)
        BY <2>4, <2>5, <4>0, <4>1
      <4>3. Calls!Unused(s) /\ Calls!Mapped(s, u, {})
        BY <1>1, <1>9, <4>2, EmptyPages
      <4> QED
        BY <4>0, <4>1, <4>3
    <3>5. Calls!Answered(r, r.address)
      BY <1>6, <3>1
    <3>6. Calls!Up(r.address) = e /\ Calls!PagesOf(b, n) = PagesIn(b, n)
      BY <1>4, SameTerms
    <3> QED
      BY <1>2, <2>1, <2>2, <2>4, <3>1, <3>2, <3>3, <3>5, <3>6, Zenon DEF Calls!Brk, MovesBreak
  <2>6. CASE ~Taken
    <3>1. brk' = brk /\ Return(r, brk.current)
      BY <1>11, <2>6, Zenon DEF BrkGrow
    <3>2. BreakInv'
      BY <1>1, <3>1, StillBreak
    <3>3. Calls!Same /\ Calls!Answered(r, brk.current)
      BY <1>6, <1>7, <1>9, <2>4, <2>6, <3>1
    <3>4. Calls!Up(r.address) = e
      BY <1>4, SameTerms
    <3> QED
      BY <1>2, <2>1, <2>4, <3>1, <3>2, <3>3, <3>4, Zenon DEF Calls!Brk
  <2> QED
    BY <2>5, <2>6
<1>12. CASE BrkShrink(r, e) /\ r.address >= BreakStart
  <2>1. /\ e <= b /\ Return(r, r.address)
        /\ IF e = b THEN UNCHANGED vars ELSE UnmapBytes(e, b - e)
        /\ MovesBreak(r.address, IF UnmapRefused(e, b - e) THEN b ELSE e)
    BY <1>2, <1>12, Zenon DEF BrkShrink, MovesBreak
  <2>2. PICK n \in Nat : n = b - e /\ e + n <= PageCount * PageBytes /\ Whole(n) /\ PagesIn(e, n) \in SUBSET Pages
    BY <1>2, <1>4, <2>1, Between
  <2>3. PICK s \in SUBSET Pages : s = PagesIn(e, n)
    BY <2>2
  <2>4. Calls!Used(s) <=> ~UnmapRefused(e, n)
    <3>1. s \subseteq Mapped <=> \A p \in s : UsageNow[p] # {"unmapped"}
      BY <1>1, MappedIs
    <3>2. Calls!Used(s) <=> \A p \in s : UsageNow[p] # {"unmapped"}
      BY <1>9, CallsAre
    <3> QED
      BY <1>4, <2>2, <2>3, <3>1, <3>2, Zenon DEF UnmapRefused
  <2>5. CallMemory' /\ IF UnmapRefused(e, n) THEN SameNow ELSE Calls!Cleared(s)
    <3>1. CASE e = b
      <4>1. CallMemory' /\ SameNow
        BY <1>1, <2>1, <3>1, StillMemory
      <4>2. Calls!Same /\ n = 0 /\ s = {}
        BY <1>4, <1>7, <1>9, <2>2, <2>3, <3>1, <4>1, NoPages
      <4>3. Calls!Cleared(s)
        BY <1>9, <4>2, SetsNothing, NowIs
      <4> QED
        BY <4>1, <4>3
    <3>2. CASE e # b
      <4>1. n > 0 /\ UnmapBytes(e, n)
        BY <2>1, <2>2, <3>2
      <4>2. CallMemory' /\ (UnmapRefused(e, n) => SameNow) /\ (~UnmapRefused(e, n) => UnmapsPages(s))
        BY <1>1, <2>2, <2>3, <4>1, UnmapEffect
      <4>3. UnmapsPages(s) => Calls!Cleared(s)
        BY <1>9, CallsAre DEF UnmapsPages
      <4> QED
        BY <4>2, <4>3
    <3> QED
      BY <3>1, <3>2
  <2>6. BreakInv'
    <3>1. CASE UnmapRefused(e, n)
      <4>1. MovesBreak(r.address, b)
        BY <2>1, <2>2, <3>1, Zenon
      <4> QED
        BY <1>2, <4>1, BreakMoves
    <3>2. CASE ~UnmapRefused(e, n)
      <4>1. MovesBreak(r.address, e)
        BY <2>1, <2>2, <3>2, Zenon
      <4> QED
        BY <1>4, <4>1, BreakMoves
    <3> QED
      BY <3>1, <3>2
  <2>7. IF Calls!Used(s) THEN Calls!Cleared(s) /\ MovesBreak(r.address, e) ELSE Calls!Same /\ MovesBreak(r.address, b)
    BY <1>7, <1>9, <2>1, <2>2, <2>4, <2>5, Zenon
  <2>8. Calls!Answered(r, r.address) /\ Calls!Up(r.address) = e /\ Calls!PagesOf(e, n) = s
    BY <1>4, <1>6, <2>1, <2>3, SameTerms
  <2>9. BreakStart <= r.address
    BY <1>3, <1>5, <1>12
  <2> QED
    BY <1>2, <2>1, <2>2, <2>5, <2>6, <2>7, <2>8, <2>9, Zenon DEF Calls!Brk, MovesBreak
<1>13. r.address < BreakStart \/ r.address >= BreakStart
  BY <1>3, <1>5
<1>14. r.address < BreakStart \/ (r.address >= BreakStart /\ (BrkGrow(r, e) \/ BrkShrink(r, e)))
  BY <1>4, Zenon DEF Brk
<1> QED
  BY <1>10, <1>11, <1>12, <1>14

-----------------------------------------------------------------------------
(* Where the memory is looked through, and where there is room. *)

\* Sets of numbers have a least one, and if they are bounded a greatest one.
LEMMA LeastIs ==
    ASSUME NEW S \in SUBSET Nat, S # {}
    PROVE  Min(S) \in S /\ \A y \in S : Min(S) <= y
<1>1. PICK m \in S : \A y \in S : m <= y
  BY LeastNumber
<1>2. Min(S) = m
  BY <1>1, MinIs
<1> QED
  BY <1>1, <1>2

\* The greatest one.
LEMMA GreatestIs ==
    ASSUME NEW S \in SUBSET Nat, S # {}, NEW n \in Nat, \A y \in S : y <= n
    PROVE  Max(S) \in S /\ \A y \in S : y <= Max(S)
<1>1. PICK m \in S : \A y \in S : y <= m
  BY GreatestNumber
<1>2. Max(S) = m
  BY <1>1, MaxIs
<1> QED
  BY <1>1, <1>2

\* findNext finds the slot that holds a page,
LEMMA FindHeld ==
    ASSUME NEW e, Sound(virt, phys, e), NEW p \in Int, NEW k \in DOMAIN virt, k <= p, p < EndOf(virt, k)
    PROVE  FindNext(p) = {k}
<1>1. Holds(virt, p) /\ SlotAt(virt, p) = k
  BY SlotAtIs DEF Sound, Laid
<1> QED
  BY <1>1, Zenon DEF FindNext

\* or else one behind it.
LEMMA FindAfter ==
    ASSUME NEW e, Sound(virt, phys, e), NEW p \in Nat, NEW k \in FindNext(p)
    PROVE  k \in DOMAIN virt /\ p < EndOf(virt, k) /\ (k <= p => Holds(virt, p) /\ SlotAt(virt, p) = k)
<1>1. Laid(virt)
  BY DEF Sound
<1>2. \A j \in DOMAIN virt : j \in Nat /\ EndOf(virt, j) \in Nat /\ j < EndOf(virt, j)
  BY <1>1, LaidSlot
<1>3. CASE Holds(virt, p)
  <2>1. PICK j \in DOMAIN virt : j <= p /\ p < EndOf(virt, j)
    BY <1>3, HoldsIs
  <2>2. FindNext(p) = {j} /\ SlotAt(virt, p) = j
    BY <1>1, <2>1, FindHeld, SlotAtIs DEF Laid
  <2> QED
    BY <1>3, <2>1, <2>2
<1>4. CASE ~Holds(virt, p)
  <2>1. PICK last : /\ last = IF Before(virt, p) # {} THEN PrevOf(virt, p) ELSE Min(DOMAIN virt)
                    /\ After(virt, last) # {} /\ k = NextOf(virt, last)
    BY <1>4, Zenon DEF FindNext
  <2>2. /\ After(virt, last) \in SUBSET Nat /\ Before(virt, p) \in SUBSET Nat /\ DOMAIN virt \in SUBSET Nat
        /\ DOMAIN virt # {} /\ \A j \in Before(virt, p) : j <= p
    BY <1>2, <2>1 DEF After, Before
  <2>3. k \in After(virt, last)
    BY <2>1, <2>2, LeastIs DEF NextOf
  <2>4. last \in Nat /\ \A j \in DOMAIN virt : j <= last \/ p <= j
    <3>1. CASE Before(virt, p) # {}
      <4>1. last \in Before(virt, p) /\ \A j \in Before(virt, p) : j <= last
        BY <2>1, <2>2, <3>1, GreatestIs DEF PrevOf
      <4> QED
        BY <1>2, <4>1 DEF Before
    <3>2. CASE Before(virt, p) = {}
      <4>1. last \in DOMAIN virt
        BY <2>1, <2>2, <3>2, LeastIs
      <4> QED
        BY <1>2, <3>2, <4>1 DEF Before
    <3> QED
      BY <3>1, <3>2
  <2>5. k \in DOMAIN virt /\ p <= k
    BY <1>2, <2>3, <2>4 DEF After
  <2>6. k # p
    BY <1>2, <1>4, <2>5, HoldsIs
  <2> QED
    BY <1>2, <2>5, <2>6
<1> QED
  BY <1>3, <1>4

\* An address rounded down.
LEMMA DownIs ==
    ASSUME NEW x \in Nat, NEW a, a = (x \div PageBytes) * PageBytes
    PROVE  a \in Nat /\ Whole(a) /\ a <= x
<1>1. PICK q \in Nat, y \in Nat : q = PageOf(x) /\ y = x % PageBytes /\ x = q * PageBytes + y
  BY PartsAre
<1>2. a = q * PageBytes
  BY <1>1 DEF PageOf
<1>3. q * PageBytes \in Nat /\ Whole(q * PageBytes)
  BY TimesIs, WholeIs
<1> QED
  BY <1>1, <1>2, <1>3

\* Among bounded gaps there is a first largest one.
GapsTo(G, n) == \A g \in G : g[1] \in Nat /\ g[2] \in Nat /\ g[1] < g[2] /\ g[2] <= n
Widest(G) == {g \in G : \A h \in G : h[2] - h[1] <= g[2] - g[1]}

\* It is the one that is taken.
LEMMA LargestExists ==
    ASSUME NEW G, G # {}, NEW n \in Nat, GapsTo(G, n), NEW w, w = Widest(G)
    PROVE  \E g \in w : \A h \in w : g[1] <= h[1]
<1>0. /\ \A g \in G : g[1] \in Nat /\ g[2] \in Nat /\ g[1] < g[2] /\ g[2] <= n
      /\ w = {g \in G : \A h \in G : h[2] - h[1] <= g[2] - g[1]}
  BY Zenon DEF GapsTo, Widest
<1> DEFINE W == {g[2] - g[1] : g \in G}
           F == {g[1] : g \in w}
<1>1. W \in SUBSET Nat /\ W # {} /\ \A d \in W : d <= n
  BY <1>0
<1>2. PICK m \in W : \A d \in W : d <= m
  <2> HIDE DEF W
  <2> QED
    BY <1>1, GreatestNumber
<1>3. PICK g \in G : m = g[2] - g[1]
  OBVIOUS
<1>4. g \in w
  BY <1>0, <1>2, <1>3
<1>5. F \in SUBSET Nat /\ F # {}
  BY <1>0, <1>4
<1>6. PICK f \in F : \A h \in F : f <= h
  <2> HIDE DEF F
  <2> QED
    BY <1>5, LeastNumber
<1>7. PICK b \in w : f = b[1]
  OBVIOUS
<1>8. \A h \in w : b[1] <= h[1]
  BY <1>6, <1>7
<1> QED
  BY <1>8

\* What is allocated is a range of addresses.
LEMMA AllocationFits ==
    ASSUME NEW e, Sound(virt, phys, e), NEW n \in Nat, NEW a \in Allocation(n)
    PROVE  a \in Nat /\ Whole(a) /\ a + n <= Limit
<1>1. PICK s, t, d \in Nat : s = StartOfAllocations /\ t = EndOfAllocations /\ d = SpacingBetweenAllocations /\ s \in Nat /\ t \in Nat
  BY AllocationsAssumption
<1>2. PICK w \in Nat, h \in Nat : w = t - s /\ t = s + w /\ h = w \div 2 /\ s + h + w <= Limit
  <2>1. t - s \in Nat /\ t = s + (t - s) /\ (t - s) \div 2 \in Nat
    BY <1>1, AllocationsAssumption
  <2>2. s + ((t - s) \div 2) + (t - s) <= Limit
    BY <1>1, AllocationsAssumption, Zenon DEF Limit
  <2> QED
    BY <2>1, <2>2
<1>3. Limit \in Nat
  BY SizesAre, TimesIs DEF Limit
<1>4. t <= Limit /\ s <= Limit
  BY <1>1, <1>2, <1>3
<1>5. Laid(virt)
  BY DEF Sound
<1>6. \A k \in DOMAIN virt : k \in Nat /\ k <= PageCount /\ VirtEnd(k) \in Nat /\ k * PageBytes \in Nat /\ VirtEnd(k) * PageBytes \in Nat
  <2>1. ASSUME NEW k \in DOMAIN virt
        PROVE  k \in Nat /\ k <= PageCount /\ VirtEnd(k) \in Nat
    BY <1>5, LaidSlot, SizesAre DEF VirtEnd
  <2> QED
    BY <2>1, TimesIs
<1>7. Last \in Nat
  <2>1. CASE DOMAIN virt = {}
    <3>1. virt = Nothing
      BY <2>1 DEF Sound, IsMap, Nothing
    <3> QED
      BY <3>1 DEF Last
  <2>2. CASE DOMAIN virt # {}
    <3>1. LastOf(virt) \in DOMAIN virt
      BY <1>6, <2>2, SizesAre, GreatestIs DEF LastOf
    <3> QED
      BY <1>6, <3>1 DEF Last
  <2> QED
    BY <2>1, <2>2
<1>8. PICK l \in Nat : l = Last
  BY <1>7
<1>9. ~(n > w)
  BY <1>1, <1>2, Zenon DEF Allocation
<1>10. n <= w
  BY <1>2, <1>9
<1>11. PICK x : /\ a = (x \div PageBytes) * PageBytes
                /\ \/ x = s
                   \/ x = l + d /\ Behind(n)
                   \/ x = s + h
                   \/ x = LargestGap[1] + (LargestGap[2] - LargestGap[1] - n) \div 2 /\ Gaps # {} /\ ~(LargestGap[2] - LargestGap[1] < n)
  BY <1>1, <1>2, <1>8, <1>9, Zenon DEF Allocation
<1>12. x \in Nat /\ x + n <= Limit
  <2>1. CASE x = s
    BY <1>1, <1>2, <1>3, <1>10, <2>1
  <2>2. CASE x = s + h
    BY <1>1, <1>2, <1>3, <1>10, <2>2
  <2>3. CASE x = l + d /\ Behind(n)
    <3>1. t - (l + 2 * d) >= n
      BY <1>1, <1>8, <2>3, Zenon DEF Behind
    <3> QED
      BY <1>1, <1>3, <1>4, <2>3, <3>1
  <2>4. CASE x = LargestGap[1] + (LargestGap[2] - LargestGap[1] - n) \div 2 /\ Gaps # {} /\ ~(LargestGap[2] - LargestGap[1] < n)
    <3>1. PICK G : G = Gaps
      OBVIOUS
    <3>2. \A g \in G : g[1] \in Nat /\ g[2] \in Nat /\ g[1] < g[2] /\ g[2] <= t
      BY <1>1, <1>6, <3>1 DEF Gaps
    <3>3. LargestGap \in G
      <4>1. PICK W : W = Widest(G)
        OBVIOUS
      <4>2. \E g \in W : \A f \in W : g[1] <= f[1]
        BY <1>1, <2>4, <3>1, <3>2, <4>1, LargestExists DEF GapsTo
      <4>3. LargestGap = CHOOSE g \in W : \A f \in W : g[1] <= f[1]
        BY <3>1, <4>1, Zenon DEF LargestGap, Widest
      <4>4. LargestGap \in W
        BY <4>2, <4>3
      <4> QED
        BY <4>1, <4>4 DEF Widest
    <3>4. PICK b \in Nat, c \in Nat : b = LargestGap[1] /\ c = LargestGap[2] /\ b < c /\ c <= t
      BY <3>2, <3>3
    <3>5. PICK m \in Nat : m = c - b - n
      BY <2>4, <3>4
    <3>6. x = b + m \div 2 /\ m \div 2 \in Nat /\ m \div 2 <= m
      BY <2>4, <3>4, <3>5
    <3> QED
      BY <1>1, <1>3, <1>4, <3>4, <3>5, <3>6
  <2> QED
    BY <1>11, <2>1, <2>2, <2>3, <2>4
<1>13. a \in Nat /\ Whole(a) /\ a <= x
  BY <1>11, <1>12, DownIs
<1> QED
  BY <1>3, <1>12, <1>13

-----------------------------------------------------------------------------
(* mmap. *)

\* A call that goes on stands where the invariant says.
LEMMA StandsAt ==
    ASSUME NEW r \in Requests, NEW at, NEW b, NEW phase, CallMemory', BreakInv', IsView(b),
           call' = [phase |-> phase, request |-> r, at |-> at, before |-> b],
           \/ phase = "clear" /\ ClearInv(r, at, b)'
           \/ phase = "read" /\ ReadInv(r, at, b)'
           \/ phase = "copy" /\ CopyInv(r, at, b)'
           \/ phase = "release" /\ ReleaseInv(r, at, b)'
    PROVE  CallInv'
<1>1. call'.phase = phase /\ call'.request = r /\ call'.at = at /\ call'.before = b
  OBVIOUS
<1>3. Stands(phase)'
  BY <1>1 DEF Stands
<1>4. CASE phase = "clear" /\ ClearInv(r, at, b)'
  <2>1. ClearInv(call.request, call.at, call.before)'
    BY <1>1, <1>4 DEF ClearInv
  <2> QED
    BY <1>3, <1>4, <2>1 DEF CallInv, PhaseInv
<1>5. CASE phase = "read" /\ ReadInv(r, at, b)'
  <2>1. ReadInv(call.request, call.at, call.before)'
    BY <1>1, <1>5 DEF ReadInv, FileAt
  <2> QED
    BY <1>3, <1>5, <2>1 DEF CallInv, PhaseInv
<1>6. CASE phase = "copy" /\ CopyInv(r, at, b)'
  <2>1. CopyInv(call.request, call.at, call.before)'
    BY <1>1, <1>6 DEF CopyInv, MoveTo
  <2> QED
    BY <1>3, <1>6, <2>1 DEF CallInv, PhaseInv
<1>7. CASE phase = "release" /\ ReleaseInv(r, at, b)'
  <2>1. ReleaseInv(call.request, call.at, call.before)'
    BY <1>1, <1>7 DEF ReleaseInv, MoveTo
  <2> QED
    BY <1>3, <1>7, <2>1 DEF CallInv, PhaseInv
<1> QED
  BY <1>4, <1>5, <1>6, <1>7

\* A refused mmap.
LEMMA MmapRefused ==
    ASSUME CallMemory', BreakInv', brk' = brk, Calls!Same, NEW r \in Requests, r.op = "mmap", NEW e, Fail(r, e),
           \/ e = "eInvalid" /\ (~Whole(r.address) \/ ~(r.length > 0))
           \/ e = "eAccess" /\ Whole(r.address) /\ r.length > 0 /\ r.from = "refused"
           \/ e = "eNoMemory" /\ Whole(r.address) /\ r.length > 0 /\ r.from # "refused"
    PROVE  Agrees
<1>1. call' = Idle /\ Replies(r, e, 0)
  BY Zenon DEF Fail, Replies
<1>2. Calls!Failed(r, e) /\ answer'.request = r
  BY <1>1, AnswersAre
<1>3. Calls!Refused(r, e)
  BY <1>2, Zenon DEF Calls!Refused
<1>4. Calls!Mmap(r)
  BY <1>3, Zenon DEF Calls!Mmap, Calls!Whole, Whole
<1>5. Calls!Serve(r)
  BY <1>4, Zenon DEF Calls!Serve
<1> QED
  BY <1>1, <1>2, <1>5, Ends

\* Pages that are given to the guest are where it may get them.
LEMMA GivenServes ==
    ASSUME NEW r \in Requests, r.op = "mmap", Whole(r.address), r.length > 0, r.from # "refused",
           NEW at \in Nat, Whole(at), at + r.length <= Limit, r.how # "any" => at = r.address,
           r.how # "fixed" => Calls!Unused(PagesIn(at, r.length)), Calls!Given(r, at)
    PROVE  Calls!Serve(r)
<1>1. r.length \in Nat /\ r.how \in {"any", "fixed", "noreplace"}
  BY RequestIs
<1>2. PICK s : s = PagesIn(at, r.length)
  OBVIOUS
<1>3. Calls!PagesOf(at, Calls!Up(r.length)) = s
  BY <1>1, <1>2, PagesAre, SameTerms
<1>4. Calls!Whole(r.address)
  BY SameTerms
<1>5. CASE r.how = "any"
  <2>1. PICK p \in Nat, k \in Nat : p = PageOf(at) /\ k = PageOf(AlignUp(r.length)) /\ k > 0 /\ p + k <= PageCount
    BY <1>1, PagesFit DEF Limit
  <2>2. p \in Pages /\ p * PageBytes = at
    BY <2>1, WholeIs, SizesAre DEF Pages
  <2>3. Calls!Unused(s)
    BY <1>2, <1>5
  <2>4. \E q \in Calls!Pages : Calls!Unused(Calls!PagesOf(q * PageBytes, Calls!Up(r.length))) /\ Calls!Given(r, q * PageBytes)
    BY <1>3, <2>2, <2>3, SameTerms
  <2> QED
    BY <1>4, <1>5, <2>4, Zenon DEF Calls!Serve, Calls!Mmap
<1>6. CASE r.how # "any"
  <2>1. at = r.address /\ (r.how = "fixed" \/ (r.how = "noreplace" /\ Calls!Unused(s)))
    BY <1>1, <1>2, <1>6
  <2>2. Calls!PagesOf(r.address, Calls!Up(r.length)) = s /\ Calls!Given(r, r.address)
    BY <1>3, <2>1
  <2> QED
    BY <1>4, <2>1, <2>2, Zenon DEF Calls!Serve, Calls!Mmap
<1> QED
  BY <1>5, <1>6

\* the pages a fixed mapping is to replace may be lost, all else is as the call found it
Replaced(r, b) ==
    \A p \in Pages : \/ UsageNow[p] = b.usage[p] /\ ContentNow[p] = b.content[p]
                     \/ r.how = "fixed" /\ p \in PagesIn(r.address, r.length) /\ UsageNow[p] = {"unmapped"}

\* a mapping that was not refused, at the place that was found for it
MapReady(r, at) ==
    /\ r \in Requests /\ r.op = "mmap" /\ Whole(r.address) /\ r.length > 0 /\ r.from # "refused"
    /\ at \in Nat /\ Whole(at) /\ at + r.length <= Limit
    /\ r.how # "any" => at = r.address
    /\ IsView(Seen) /\ Replaced(r, Seen)

\* its pages
LEMMA MapRange ==
    ASSUME NEW r, NEW at, MapReady(r, at)
    PROVE  \E n \in Nat : /\ n = AlignUp(r.length) /\ n > 0 /\ Whole(n) /\ at + n <= PageCount * PageBytes
                          /\ PagesIn(at, n) = PagesIn(at, r.length) /\ PagesIn(at, r.length) \in SUBSET Pages
                          /\ at \in Nat /\ r.length \in Nat /\ r.usage \in SUBSET Rights
<1>1. r \in Requests /\ r.op = "mmap" /\ r.length > 0 /\ at \in Nat /\ Whole(at) /\ at + r.length <= Limit
  BY Zenon DEF MapReady
<1>2. r.length \in Nat /\ r.usage \in SUBSET Rights
  BY <1>1, RequestIs
<1>3. /\ AlignUp(r.length) \in Nat /\ Whole(AlignUp(r.length)) /\ r.length <= AlignUp(r.length)
      /\ PagesIn(at, AlignUp(r.length)) = PagesIn(at, r.length)
  BY <1>1, <1>2, AlignIs, PagesAre
<1>4. at + AlignUp(r.length) <= Limit /\ PagesIn(at, r.length) \in SUBSET Pages
  BY <1>1, <1>2, PagesFit DEF Limit
<1> QED
  BY <1>1, <1>2, <1>3, <1>4 DEF Limit

\* If they are mapped, they are new, and empty, and all else is as the call found it.
LEMMA MapsNew ==
    ASSUME CallMemory, NEW r, NEW at, MapReady(r, at), NEW u, MapsPages(PagesIn(at, r.length), u), NEW s, s = PagesIn(at, r.length)
    PROVE  /\ UsageNow' = [p \in Pages |-> IF p \in s THEN u ELSE Seen.usage[p]]
           /\ ContentNow' = [p \in Pages |-> IF p \in s THEN 0 ELSE Seen.content[p]]
           /\ r.how # "fixed" => \A p \in s : Seen.usage[p] = {"unmapped"}
<1>1. MapsPages(s, u) /\ s \in SUBSET Pages
  BY MapRange
<1>2. /\ \A p \in s : UsageNow[p] = {"unmapped"}
      /\ UsageNow' = [p \in Pages |-> IF p \in s THEN u ELSE UsageNow[p]]
      /\ ContentNow' = ContentNow
  BY <1>1, Zenon DEF MapsPages
<1>3. \A p \in s : ContentNow[p] = 0
  BY <1>1, <1>2, FreeEmpty DEF CallMemory
<1>4. PICK b : b = Seen
  OBVIOUS
<1>5. \A p \in Pages : p \notin s \/ r.how # "fixed" => UsageNow[p] = b.usage[p] /\ ContentNow[p] = b.content[p]
  <2>1. r.how = "fixed" => at = r.address
    BY Zenon DEF MapReady
  <2>2. \A p \in Pages : \/ UsageNow[p] = b.usage[p] /\ ContentNow[p] = b.content[p]
                         \/ r.how = "fixed" /\ p \in PagesIn(r.address, r.length) /\ UsageNow[p] = {"unmapped"}
    BY <1>4, Zenon DEF MapReady, Replaced
  <2> QED
    BY <2>1, <2>2
<1>6. UsageNow' = [p \in Pages |-> IF p \in s THEN u ELSE b.usage[p]]
  BY <1>2, <1>5
<1>7. ContentNow' = [p \in Pages |-> IF p \in s THEN 0 ELSE b.content[p]]
  BY <1>2, <1>3, <1>5, NowIs
<1>8. r.how # "fixed" => \A p \in s : b.usage[p] = {"unmapped"}
  BY <1>1, <1>2, <1>5
<1> QED
  BY <1>4, <1>6, <1>7, <1>8, Zenon

\* If there is no memory for them, nothing is changed, or some of the pages to be replaced are lost.
LEMMA MapFails ==
    ASSUME CallMemory, CallMemory', BreakInv', brk' = brk, NEW r, NEW at, MapReady(r, at), SameNow, Fail(r, "eNoMemory")
    PROVE  Agrees
<1>1. call' = Idle /\ Replies(r, "eNoMemory", 0)
  BY Zenon DEF Fail, Replies
<1>2. Calls!Failed(r, "eNoMemory") /\ answer'.request = r
  BY <1>1, AnswersAre
<1>3. PICK b : b = Seen
  OBVIOUS
<1>4. Shows(b.usage, b.content, UsageNow', ContentNow')
  BY <1>1, <1>3, SeenNext, Zenon DEF Shows
<1>5. /\ r \in Requests /\ r.op = "mmap" /\ Whole(r.address) /\ r.length > 0 /\ r.from # "refused"
      /\ b.usage = [p \in Pages |-> b.usage[p]] /\ b.content = [p \in Pages |-> b.content[p]]
  BY <1>3, Zenon DEF MapReady, IsView
<1>6. \A p \in Pages : \/ UsageNow[p] = b.usage[p] /\ ContentNow[p] = b.content[p]
                       \/ r.how = "fixed" /\ p \in PagesIn(r.address, r.length) /\ UsageNow[p] = {"unmapped"}
  BY <1>3, Zenon DEF MapReady, Replaced
<1>7. CASE r.how # "fixed"
  <2>1. UsageNow' = b.usage /\ ContentNow' = b.content
    BY <1>5, <1>6, <1>7, NowIs DEF SameNow
  <2>2. Calls!Same
    BY <1>4, <2>1, CallsAre
  <2> QED
    BY <1>5, <2>2, MmapRefused
<1>8. CASE r.how = "fixed"
  <2>1. PICK s : s = PagesIn(r.address, r.length) /\ s \in SUBSET Pages
    BY <1>8, MapRange, Zenon DEF MapReady
  <2>2. PICK lost : lost = {p \in s : UsageNow[p] = {"unmapped"}}
    OBVIOUS
  <2>3. \A p \in lost : p \in Pages /\ UsageNow[p] = {"unmapped"} /\ ContentNow[p] = 0
    BY <2>1, <2>2, FreeEmpty DEF CallMemory
  <2>4. \A p \in Pages : p \notin lost => UsageNow[p] = b.usage[p] /\ ContentNow[p] = b.content[p]
    BY <1>6, <2>1, <2>2
  <2>5. UsageNow' = [p \in Pages |-> IF p \in lost THEN {"unmapped"} ELSE b.usage[p]]
    BY <2>3, <2>4, NowIs DEF SameNow
  <2>6. ContentNow' = [p \in Pages |-> IF p \in lost THEN 0 ELSE b.content[p]]
    BY <2>3, <2>4, NowIs DEF SameNow
  <2>7. Calls!Cleared(lost)
    BY <1>4, <2>5, <2>6, CallsAre
  <2>8. Calls!PagesOf(r.address, Calls!Up(r.length)) = s /\ Calls!Whole(r.address)
    <3>1. r.address \in Nat /\ r.length \in Nat
      BY <1>5, RequestIs
    <3> QED
      BY <1>5, <2>1, <3>1, PagesAre, SameTerms
  <2>9. lost \in SUBSET s
    BY <2>2
  <2>10. Calls!Serve(r)
    BY <1>2, <1>5, <1>8, <2>7, <2>8, <2>9, Zenon DEF Calls!Serve, Calls!Mmap
  <2> QED
    BY <1>1, <1>2, <1>5, <2>10, Ends
<1> QED
  BY <1>7, <1>8

\* fMapRange, once nothing is in the way any more.
LEMMA MapAtAgrees ==
    ASSUME CallMemory, Running, BreakInv, brk' = brk, NEW r, NEW at, MapReady(r, at), MapAt(r, at)
    PROVE  Agrees
<1>1. /\ r \in Requests /\ r.op = "mmap" /\ Whole(r.address) /\ r.length > 0 /\ r.from # "refused"
      /\ at \in Nat /\ Whole(at) /\ at + r.length <= Limit /\ (r.how # "any" => at = r.address)
      /\ IsView(Seen)
  BY Zenon DEF MapReady
<1>2. PICK n \in Nat : /\ n = AlignUp(r.length) /\ n > 0 /\ Whole(n) /\ at + n <= PageCount * PageBytes
                       /\ PagesIn(at, n) = PagesIn(at, r.length) /\ PagesIn(at, r.length) \in SUBSET Pages
                       /\ r.length \in Nat /\ r.usage \in SUBSET Rights
  BY MapRange
<1>3. PICK s \in SUBSET Pages : s = PagesIn(at, r.length)
  BY <1>2
<1>4. PICK u \in SUBSET Rights : u = r.usage
  BY <1>2
<1>5. MapBytes(at, n, u) /\ IF Taken THEN Placed(r, at) ELSE Fail(r, "eNoMemory")
  BY <1>2, <1>4, Zenon DEF MapAt
<1>6. CallMemory' /\ (~Taken => SameNow) /\ (Taken => MapsPages(PagesIn(at, r.length), u))
  BY <1>1, <1>2, <1>5, MapEffect
<1>7. BreakInv'
  BY StillBreak
<1>8. PICK b : b = Seen
  OBVIOUS
<1>9. CASE ~Taken
  BY <1>5, <1>6, <1>7, <1>9, MapFails
<1>10. CASE Taken
  <2>1. /\ UsageNow' = [p \in Pages |-> IF p \in s THEN u ELSE b.usage[p]]
        /\ ContentNow' = [p \in Pages |-> IF p \in s THEN 0 ELSE b.content[p]]
        /\ r.how # "fixed" => \A p \in s : b.usage[p] = {"unmapped"}
    BY <1>3, <1>6, <1>8, <1>10, MapsNew
  <2>2. CASE r.from = "anonymous"
    <3>1. Return(r, at)
      BY <1>5, <1>10, <2>2, Zenon DEF Placed
    <3>2. call' = Idle /\ Replies(r, "none", at)
      BY <3>1, Zenon DEF Return, Replies
    <3>3. Shows(b.usage, b.content, UsageNow', ContentNow')
      BY <1>8, <3>2, SeenNext, Zenon DEF Shows
    <3>4. Calls!Answered(r, at) /\ answer'.request = r
      BY <3>2, AnswersAre
    <3>5. ContentNow' = [p \in Pages |-> IF p \in {} THEN 1 ELSE IF p \in s THEN 0 ELSE b.content[p]]
      BY <2>1
    <3>6. Calls!Mapped(s, u, {})
      BY <2>1, <3>3, <3>5, CallsAre
    <3>7. Calls!PagesOf(at, Calls!Up(r.length)) = s
      BY <1>2, <1>3, SameTerms
    <3>8. Calls!Given(r, at)
      BY <1>4, <2>2, <3>4, <3>6, <3>7, Zenon DEF Calls!Given
    <3>9. r.how # "fixed" => Calls!Unused(s)
      BY <2>1, <3>3, CallsAre
    <3>10. Calls!Serve(r)
      BY <1>1, <1>3, <3>8, <3>9, GivenServes
    <3> QED
      BY <1>1, <1>6, <1>7, <3>2, <3>4, <3>10, Ends
  <2>3. CASE r.from # "anonymous"
    <3>1. GoOn("read", r, at)
      BY <1>5, <1>10, <2>3, Zenon DEF Placed
    <3>2. PICK phase : phase = "read"
      OBVIOUS
    <3>3. call' = [phase |-> phase, request |-> r, at |-> at, before |-> b] /\ Seen' = Seen /\ answer' = answer
      BY <1>8, <3>1, <3>2, GoesOn
    <3>4. r.from = "file"
      BY <1>1, <2>3, RequestIs
    <3>5. ReadInv(r, at, b)'
      <4>1. FileAt(r, at, b)'
        BY <1>1, <1>3, <1>4, <2>1, <3>4, Zenon DEF FileAt
      <4> QED
        BY <1>3, <2>1, <4>1, Zenon DEF ReadInv
    <3>6. CallInv'
      BY <1>1, <1>6, <1>7, <1>8, <3>2, <3>3, <3>5, StandsAt
    <3> QED
      BY <3>3, <3>6, Quiet
  <2> QED
    BY <2>2, <2>3
<1> QED
  BY <1>9, <1>10

\* mmap, as it begins.
LEMMA MmapCall ==
    ASSUME CallInv, Waiting, NEW r \in Requests, r.op = "mmap", Mmap(r)
    PROVE  Agrees
<1>1. Running /\ CallMemory /\ BreakInv /\ call = Idle /\ Seen.usage = UsageNow /\ Seen.content = ContentNow
  BY Begun
<1>2. brk' = brk
  BY Zenon DEF Mmap
<1>3. BreakInv'
  BY <1>1, <1>2, StillBreak
<1>4. r.address \in Nat /\ r.length \in Nat /\ r.address + r.length <= Limit
  BY RequestIs
<1>5. IsView(Seen) /\ Replaced(r, Seen)
  BY <1>1, NowIs DEF IsView, Replaced
<1>6. ASSUME NEW e, Refuse(r, e)
      PROVE  CallMemory' /\ Calls!Same /\ Fail(r, e)
  <2>1. Fail(r, e) /\ UNCHANGED vars
    BY <1>6, Zenon DEF Refuse
  <2>2. CallMemory' /\ SameNow /\ call' = Idle
    BY <1>1, <2>1, StillMemory DEF Fail
  <2>3. Shows(UsageNow, ContentNow, UsageNow', ContentNow')
    BY <2>2, Begun
  <2> QED
    BY <2>1, <2>2, <2>3, CallsAre DEF SameNow
<1>7. CASE ~Whole(r.address) \/ ~(r.length > 0)
  <2>1. Refuse(r, "eInvalid")
    BY <1>7, Zenon DEF Mmap
  <2>2. CallMemory' /\ Calls!Same /\ Fail(r, "eInvalid")
    BY <1>6, <2>1
  <2> QED
    BY <1>2, <1>3, <1>7, <2>2, MmapRefused
<1>8. CASE Whole(r.address) /\ r.length > 0
  <2>0. r.length # 0
    BY <1>8
  <2>1. CASE r.from = "refused"
    <3>1. Refuse(r, "eAccess")
      BY <1>8, <2>0, <2>1, Zenon DEF Mmap
    <3>2. CallMemory' /\ Calls!Same /\ Fail(r, "eAccess")
      BY <1>6, <3>1
    <3> QED
      BY <1>2, <1>3, <1>8, <2>1, <3>2, MmapRefused
  <2>2. CASE r.from # "refused" /\ r.how = "any"
    <3>1. MapAnywhere(r)
      BY <1>8, <2>0, <2>2, Zenon DEF Mmap
    <3>2. CASE Refuse(r, "eNoMemory")
      <4>1. CallMemory' /\ Calls!Same /\ Fail(r, "eNoMemory")
        BY <1>6, <3>2
      <4> QED
        BY <1>2, <1>3, <1>8, <2>2, <4>1, MmapRefused
    <3>3. ASSUME NEW at \in Allocation(AlignUp(r.length)), MapAt(r, at)
          PROVE  Agrees
      <4>1. PICK n \in Nat : n = AlignUp(r.length) /\ r.length <= n
        BY <1>4, AlignIs
      <4>2. PICK e : Sound(virt, phys, e)
        BY <1>1 DEF CallMemory, MemorySound
      <4>3. at \in Nat /\ Whole(at) /\ at + n <= Limit
        BY <3>3, <4>1, <4>2, AllocationFits
      <4>4. at + r.length <= Limit
        <5>1. Limit \in Nat
          BY SizesAre, TimesIs DEF Limit
        <5> QED
          BY <1>4, <4>1, <4>3, <5>1
      <4>5. MapReady(r, at)
        BY <1>5, <1>8, <2>2, <4>3, <4>4, Zenon DEF MapReady
      <4> QED
        BY <1>1, <1>2, <3>3, <4>5, MapAtAgrees
    <3> QED
      BY <3>1, <3>2, <3>3, Zenon DEF MapAnywhere
  <2>3. CASE r.from # "refused" /\ r.how # "any"
    <3>1. GoOn("clear", r, PageOf(r.address)) /\ UNCHANGED vars
      BY <1>8, <2>0, <2>3, Zenon DEF Mmap
    <3>2. PICK phase, at, b : phase = "clear" /\ at = PageOf(r.address) /\ b = Seen
      OBVIOUS
    <3>3. call' = [phase |-> phase, request |-> r, at |-> at, before |-> b] /\ Seen' = Seen /\ answer' = answer
      BY <3>1, <3>2, GoesOn
    <3>4. CallMemory' /\ SameNow
      BY <1>1, <3>1, StillMemory
    <3>5. at \in Nat /\ PageOf(r.address) <= at
      BY <1>4, <3>2, WholeIs
    <3>6. b.usage = UsageNow /\ b.content = ContentNow /\ IsView(b)
      BY <1>1, <1>5, <3>2
    <3>7. \A p \in Pages : UsageNow'[p] = b.usage[p] /\ ContentNow'[p] = b.content[p]
      BY <3>4, <3>6 DEF SameNow
    <3>8. ClearInv(r, at, b)'
      BY <1>8, <2>3, <3>5, <3>7, Zenon DEF ClearInv
    <3>9. CallInv'
      BY <1>3, <3>2, <3>3, <3>4, <3>6, <3>8, StandsAt
    <3> QED
      BY <1>2, <3>3, <3>9, Quiet
  <2> QED
    BY <2>1, <2>2, <2>3
<1> QED
  BY <1>7, <1>8

\* A call that is in a phase stands there.
LEMMA StandsIn ==
    ASSUME CallInv, NEW phase, In(phase), phase # "idle", phase # "ended"
    PROVE  /\ Running /\ CallMemory /\ BreakInv /\ call # Idle /\ Seen = call.before
           /\ call.request \in Requests /\ IsView(Seen)
           /\ phase = "clear" => ClearInv(call.request, call.at, Seen)
           /\ phase = "read" => ReadInv(call.request, call.at, Seen)
           /\ phase = "lock" => LockInv(call.request, call.at, call.rest, Seen)
           /\ phase = "copy" => CopyInv(call.request, call.at, Seen)
           /\ phase = "release" =>
                /\ ReleaseInv(call.request, call.at, Seen)
                /\ call = [phase |-> phase, request |-> call.request, at |-> call.at, before |-> Seen]
<1>1. Running /\ call.phase = phase /\ CallMemory /\ BreakInv /\ PhaseInv
  BY Zenon DEF CallInv, In
<1>2. call # Idle
  BY <1>1 DEF Idle
<1>3. Seen = call.before
  BY <1>2, SeenIs
<1>4. \A f : Stands(f) => call.phase = f /\ call.request \in Requests /\ IsView(call.before)
                          /\ call = [phase |-> f, request |-> call.request, at |-> call.at, before |-> call.before]
  <2>1. ASSUME NEW f, Stands(f)
        PROVE  call.phase = f
    <3>1. call = [phase |-> f, request |-> call.request, at |-> call.at, before |-> call.before]
      BY <2>1, Zenon DEF Stands
    <3> QED
      BY <3>1
  <2> QED
    BY <2>1, Zenon DEF Stands
<1>5. \/ phase = "clear" /\ Stands("clear") /\ ClearInv(call.request, call.at, call.before)
      \/ phase = "read" /\ Stands("read") /\ ReadInv(call.request, call.at, call.before)
      \/ /\ phase = "lock" /\ call.request \in Requests /\ IsView(call.before)
         /\ LockInv(call.request, call.at, call.rest, call.before)
      \/ phase = "copy" /\ Stands("copy") /\ CopyInv(call.request, call.at, call.before)
      \/ phase = "release" /\ Stands("release") /\ ReleaseInv(call.request, call.at, call.before)
  <2>1. /\ Stands("clear") => phase = "clear"
        /\ Stands("read") => phase = "read"
        /\ Stands("copy") => phase = "copy"
        /\ Stands("release") => phase = "release"
    BY <1>1, <1>4
  <2> QED
    BY <1>1, <1>2, <2>1, Zenon DEF PhaseInv
<1>6. call.request \in Requests /\ IsView(call.before)
  BY <1>4, <1>5
<1> QED
  BY <1>1, <1>2, <1>3, <1>4, <1>5, <1>6

\* The larger and the smaller of two.
LEMMA OfTwo ==
    ASSUME NEW x \in Int, NEW y \in Int
    PROVE  /\ Max({x, y}) \in {x, y} /\ x <= Max({x, y}) /\ y <= Max({x, y})
           /\ Min({x, y}) \in {x, y} /\ Min({x, y}) <= x /\ Min({x, y}) <= y
<1>1. PICK S \in SUBSET Int : S = {x, y}
  OBVIOUS
<1>2. PICK g \in S, l \in S : \A z \in S : z <= g /\ l <= z
  <2>1. CASE x <= y
    BY <1>1, <2>1
  <2>2. CASE ~(x <= y)
    BY <1>1, <2>2
  <2> QED
    BY <2>1, <2>2
<1>3. Max(S) = g /\ Min(S) = l
  BY <1>2, MaxIs, MinIs
<1> QED
  BY <1>1, <1>2, <1>3

\* fCheckRange, and the mapping after it.
LEMMA CheckRangeAgrees ==
    ASSUME CallInv, CheckRange
    PROVE  Agrees
<1> DEFINE found == {k \in FindNext(call.at) : call.at < PageOf(call.request.address + AlignUp(call.request.length))
                                               /\ k < PageOf(call.request.address + AlignUp(call.request.length))}
           from(k) == Max({k, PageOf(call.request.address)})
           until(k) == Min({VirtEnd(k), PageOf(call.request.address + AlignUp(call.request.length))})
<1>1. /\ In("clear") /\ brk' = brk
      /\ \/ found = {} /\ MapAt(call.request, call.request.address)
         \/ found # {} /\ call.request.how = "noreplace" /\ Refuse(call.request, "eExists")
         \/ /\ call.request.how = "fixed"
            /\ \E k \in found : Munmap(from(k), until(k) - from(k)) /\ GoOn("clear", call.request, VirtEnd(k))
  BY Zenon DEF CheckRange
<1>2. /\ Running /\ CallMemory /\ BreakInv /\ call # Idle /\ IsView(Seen)
      /\ call.request \in Requests /\ ClearInv(call.request, call.at, Seen)
  BY <1>1, StandsIn
<1>3a. PICK r \in Requests : r = call.request
  BY <1>2
<1>3b. PICK at, b : at = call.at /\ b = Seen
  OBVIOUS
<1>4. /\ r.op = "mmap" /\ r.how # "any" /\ r.from # "refused" /\ Whole(r.address) /\ r.length > 0
      /\ at \in Nat /\ PageOf(r.address) <= at
      /\ \A p \in Pages : \/ UsageNow[p] = b.usage[p] /\ ContentNow[p] = b.content[p]
                          \/ r.how = "fixed" /\ p \in PagesIn(r.address, r.length) /\ UsageNow[p] = {"unmapped"}
  BY <1>2, <1>3a, <1>3b, Zenon DEF ClearInv
<1>5. /\ r.address \in Nat /\ r.length \in Nat /\ r.address + r.length <= Limit
      /\ r.how \in {"any", "fixed", "noreplace"}
  BY <1>4, RequestIs
<1>6. PICK first \in Nat, end \in Nat : /\ first = PageOf(r.address) /\ end = PageOf(r.address + AlignUp(r.length))
                                        /\ end <= PageCount
                                        /\ \A p \in Int : p \in PagesIn(r.address, r.length) <=> first <= p /\ p < end
  <2>1. PICK p \in Nat, k \in Nat : p = PageOf(r.address) /\ k = PageOf(AlignUp(r.length)) /\ p + k <= PageCount
    BY <1>4, <1>5, PagesFit DEF Limit
  <2>2. PICK m \in Nat : m = p + k /\ PageOf(r.address + AlignUp(r.length)) = m
    BY <1>4, <1>5, <2>1, AlignShift
  <2>3. PagesIn(r.address, r.length) = p .. m - 1
    <3>1. PagesIn(r.address, r.length) = PageOf(r.address) .. PageOf(AlignUp(r.address + r.length)) - 1
      BY Zenon DEF PagesIn
    <3>2. PageOf(AlignUp(r.address + r.length)) = m
      BY <1>4, <1>5, <2>1, <2>2, AlignShift
    <3> QED
      BY <2>1, <3>1, <3>2, Zenon
  <2> QED
    BY <2>1, <2>2, <2>3
<1>7. PagesIn(r.address, r.length) \in SUBSET Pages
  BY <1>4, <1>5, PagesFit DEF Limit
<1>8. BreakInv'
  BY <1>1, <1>2, StillBreak
<1>9. PICK e : Sound(virt, phys, e)
  BY <1>2 DEF CallMemory, MemorySound
<1>10. \A k \in found : /\ k \in DOMAIN virt /\ k \in Nat /\ VirtEnd(k) \in Nat /\ k < VirtEnd(k) /\ at < VirtEnd(k)
                        /\ k \in FindNext(at) /\ at < end /\ k < end
  <2>1. ASSUME NEW k \in found
        PROVE  k \in FindNext(at) /\ at < end /\ k < end
    BY <1>3a, <1>3b, <1>6
  <2>2. ASSUME NEW k \in FindNext(at)
        PROVE  k \in DOMAIN virt /\ k \in Nat /\ VirtEnd(k) \in Nat /\ k < VirtEnd(k) /\ at < VirtEnd(k)
    BY <1>4, <1>9, <2>2, FindAfter, LaidSlot DEF Sound, VirtEnd
  <2> QED
    BY <2>1, <2>2
<1> HIDE DEF found
<1>11. CASE MapAt(r, r.address)
  <2>1. MapReady(r, r.address)
    BY <1>2, <1>3a, <1>3b, <1>4, <1>5, Zenon DEF MapReady, Replaced
  <2> QED
    BY <1>1, <1>2, <1>11, <2>1, MapAtAgrees
<1>12. CASE found # {} /\ r.how = "noreplace" /\ Refuse(r, "eExists")
  <2>1. PICK k \in found : TRUE
    BY <1>12
  <2>2. PICK p \in Nat : p \in PagesIn(r.address, r.length) /\ Holds(virt, p)
    <3>1. CASE k <= at
      <4>1. Holds(virt, at)
        BY <1>4, <1>9, <1>10, <2>1, <3>1, FindAfter
      <4> QED
        BY <1>4, <1>6, <1>10, <2>1, <4>1
    <3>2. CASE ~(k <= at)
      <4>1. k \in PagesIn(r.address, r.length)
        BY <1>4, <1>6, <1>10, <2>1, <3>2
      <4>2. Holds(virt, k)
        BY <1>10, <2>1, HoldsIs DEF VirtEnd
      <4> QED
        BY <1>10, <2>1, <4>1, <4>2
    <3> QED
      BY <3>1, <3>2
  <2>3. p \in Pages /\ UsageNow[p] # {"unmapped"}
    BY <1>2, <1>7, <1>9, <2>2, UsageIs
  <2>4. Fail(r, "eExists") /\ UNCHANGED vars
    BY <1>12, Zenon DEF Refuse
  <2>5. call' = Idle /\ Replies(r, "eExists", 0)
    BY <2>4, Zenon DEF Fail, Replies
  <2>6. Calls!Failed(r, "eExists") /\ answer'.request = r
    BY <2>5, AnswersAre
  <2>7. CallMemory' /\ SameNow
    BY <1>2, <2>4, StillMemory
  <2>8. Shows(b.usage, b.content, UsageNow', ContentNow')
    BY <1>3a, <1>3b, <2>5, SeenNext, Zenon DEF Shows
  <2>9. UsageNow' = b.usage /\ ContentNow' = b.content
    <3>1. b.usage = [q \in Pages |-> b.usage[q]] /\ b.content = [q \in Pages |-> b.content[q]]
      BY <1>2, <1>3a, <1>3b, Zenon DEF IsView
    <3>2. \A q \in Pages : UsageNow[q] = b.usage[q] /\ ContentNow[q] = b.content[q]
      BY <1>4, <1>12
    <3> QED
      BY <2>7, <3>1, <3>2, NowIs DEF SameNow
  <2>10. Calls!Same
    BY <2>8, <2>9, CallsAre
  <2>11. ~Calls!Unused(PagesIn(r.address, r.length))
    <3>1. PICK s : s = PagesIn(r.address, r.length)
      OBVIOUS
    <3>2. Calls!Unused(s) => \A q \in s : b.usage[q] = {"unmapped"}
      BY <2>8, CallsAre
    <3>3. b.usage[p] # {"unmapped"}
      BY <1>4, <1>12, <2>3
    <3> QED
      BY <2>2, <3>1, <3>2, <3>3
  <2>12. Calls!PagesOf(r.address, Calls!Up(r.length)) = PagesIn(r.address, r.length) /\ Calls!Whole(r.address)
    BY <1>4, <1>5, PagesAre, SameTerms
  <2>13. Calls!Refused(r, "eExists")
    BY <1>1, <2>6, <2>10, Zenon DEF Calls!Refused
  <2>14. Calls!Serve(r)
    BY <1>4, <1>12, <2>11, <2>12, <2>13, Zenon DEF Calls!Serve, Calls!Mmap
  <2> QED
    BY <1>8, <2>5, <2>6, <2>7, <2>14, Ends
<1>13. ASSUME NEW k \in found, r.how = "fixed", Munmap(from(k), until(k) - from(k)), GoOn("clear", r, VirtEnd(k))
       PROVE  Agrees
  <2>1. PICK x \in Nat, y \in Nat : /\ x = from(k) /\ y = until(k) /\ x < y /\ y <= end /\ first <= x
    <3>1. /\ from(k) \in {k, first} /\ k <= from(k) /\ first <= from(k)
          /\ until(k) \in {VirtEnd(k), end} /\ until(k) <= VirtEnd(k) /\ until(k) <= end
      <4>1. PICK z \in Nat : z = VirtEnd(k)
        BY <1>10
      <4>2. from(k) = Max({k, first}) /\ until(k) = Min({z, end})
        BY <1>3a, <1>6, <4>1
      <4>3. /\ Max({k, first}) \in {k, first} /\ k <= Max({k, first}) /\ first <= Max({k, first})
            /\ Min({z, end}) \in {z, end} /\ Min({z, end}) <= z /\ Min({z, end}) <= end
        <5>1. k \in Int /\ first \in Int /\ z \in Int /\ end \in Int
          BY <1>10, <4>1
        <5>2. /\ Max({k, first}) \in {k, first} /\ k <= Max({k, first}) /\ first <= Max({k, first})
          BY <5>1, OfTwo, Zenon
        <5>3. /\ Min({z, end}) \in {z, end} /\ Min({z, end}) <= z /\ Min({z, end}) <= end
          BY <5>1, OfTwo, Zenon
        <5> QED
          BY <5>2, <5>3
      <4>4. PICK q, w : q = Max({k, first}) /\ w = Min({z, end})
        OBVIOUS
      <4>5. from(k) = q /\ until(k) = w
        BY <4>2, <4>4
      <4>6. /\ q \in {k, first} /\ k <= q /\ first <= q
            /\ w \in {z, end} /\ w <= z /\ w <= end
        BY <4>3, <4>4
      <4> QED
        BY <4>1, <4>5, <4>6
    <3> QED
      BY <1>3a, <1>3b, <1>4, <1>6, <1>10, <3>1
  <2>2. PICK m \in Nat : m = y - x /\ m > 0 /\ x + m <= PageCount /\ x + m = y
    BY <1>6, <2>1, SizesAre
  <2>3. PICK s : RangeOf(s, x, m)
    BY DEF RangeOf
  <2>4. Munmap(x, m)
    BY <1>13, <2>1, <2>2
  <2>5. CallMemory' /\ UnmapsPages(s)
    BY <1>2, <2>2, <2>3, <2>4, MunmapEffect
  <2>6. \A p \in Pages : p \in s => p \in PagesIn(r.address, r.length)
    <3>1. \A p \in s : p \in Int /\ x <= p /\ p < x + m
      BY <2>1, <2>2, <2>3 DEF RangeOf
    <3>2. \A p \in Int : x <= p /\ p < x + m => first <= p /\ p < end
      BY <1>6, <2>1, <2>2
    <3> QED
      BY <1>6, <3>1, <3>2, Zenon
  <2>7. PICK phase, v : phase = "clear" /\ v = VirtEnd(k)
    OBVIOUS
  <2>8. call' = [phase |-> phase, request |-> r, at |-> v, before |-> b] /\ Seen' = Seen /\ answer' = answer
    BY <1>3a, <1>3b, <1>13, <2>7, GoesOn
  <2>9. v \in Nat /\ PageOf(r.address) <= v
    BY <1>4, <1>6, <1>10, <2>7
  <2>10. \A p \in Pages :
            \/ UsageNow'[p] = b.usage[p] /\ ContentNow'[p] = b.content[p]
            \/ r.how = "fixed" /\ p \in PagesIn(r.address, r.length) /\ UsageNow'[p] = {"unmapped"}
    BY <1>4, <1>13, <2>5, <2>6 DEF UnmapsPages
  <2>11. ClearInv(r, v, b)'
    BY <1>4, <2>9, <2>10, Zenon DEF ClearInv
  <2>12. CallInv'
    BY <1>2, <1>3a, <1>3b, <1>8, <2>5, <2>7, <2>8, <2>11, StandsAt
  <2> QED
    BY <1>1, <2>8, <2>12, Quiet
<1> QED
  BY <1>1, <1>3a, <1>3b, <1>11, <1>12, <1>13

-----------------------------------------------------------------------------
(* Writing to pages. *)

\* A mapped page has a place of its own.
LEMMA PlacesHeld ==
    ASSUME CallMemory, NEW s, \A p \in s : p \in Pages /\ UsageNow[p] # {"unmapped"}
    PROVE  /\ \A p \in s : Holds(virt, p) /\ Translate(p) = PlaceIn(virt, p) /\ Translate(p) \in DOMAIN data
           /\ \A p, q \in Pages : Holds(virt, p) /\ Holds(virt, q) /\ PlaceIn(virt, p) = PlaceIn(virt, q) => p = q
           /\ \A p \in Pages : Holds(virt, p) => PlaceIn(virt, p) \in DOMAIN data
<1>1. PICK e \in Nat, N \in Nat : e <= N /\ Sized(data, N) /\ Sound(virt, phys, e)
  BY DEF CallMemory, MemorySound
<1>2. \A p \in Pages : p \in Int
  BY DEF Pages
<1>3. \A p \in s : Holds(virt, p)
  BY <1>1, UsageIs
<1>4. \A p : Translate(p) = PlaceIn(virt, p)
  BY Zenon DEF Translate, PlaceIn
<1>5. \A p \in Pages : Holds(virt, p) => PlaceIn(virt, p) \in DOMAIN data
  <2>1. \A p \in Pages : Holds(virt, p) => PlaceIn(virt, p) \in Nat /\ PlaceIn(virt, p) < e
    BY <1>1, <1>2, PlacesAre
  <2> QED
    BY <1>1, <2>1 DEF Sized
<1>6. \A p, q \in Pages : Holds(virt, p) /\ Holds(virt, q) /\ PlaceIn(virt, p) = PlaceIn(virt, q) => p = q
  BY <1>1, <1>2, PlacesAre
<1> QED
  BY <1>3, <1>4, <1>5, <1>6

\* only the contents change
OnlyData == virt' = virt /\ phys' = phys /\ fault' = fault /\ DOMAIN data' = DOMAIN data

\* When only content is written, the memory stays sound, and each page of its usage.
LEMMA DataMemory ==
    ASSUME CallMemory, OnlyData
    PROVE  CallMemory' /\ UsageNow' = UsageNow
<1>1. PICK e \in Nat, N \in Nat : e <= N /\ Sized(data, N) /\ Sound(virt, phys, e)
  BY DEF CallMemory, MemorySound
<1>2. Sized(data', N) /\ Sound(virt', phys', e)
  BY <1>1 DEF OnlyData, Sized
<1>3. MemorySound'
  BY <1>1, <1>2 DEF MemorySound
<1>4. UsageNow' = UsageNow
  BY DEF OnlyData, UsageNow
<1> QED
  BY <1>3, <1>4 DEF CallMemory, OnlyData, Running

\* pages are filled with one value
Fills(s, v) == data' = [q \in DOMAIN data |-> IF \E p \in s : Translate(p) = q THEN v ELSE data[q]]

\* Pages that are filled show what they are filled with.
LEMMA FillEffect ==
    ASSUME CallMemory, NEW s, \A p \in s : p \in Pages /\ UsageNow[p] # {"unmapped"}, NEW v, Fills(s, v), virt' = virt
    PROVE  ContentNow' = [p \in Pages |-> IF p \in s THEN v ELSE ContentNow[p]]
<1>1. /\ \A p \in s : Holds(virt, p) /\ Translate(p) = PlaceIn(virt, p) /\ Translate(p) \in DOMAIN data
      /\ \A p, q \in Pages : Holds(virt, p) /\ Holds(virt, q) /\ PlaceIn(virt, p) = PlaceIn(virt, q) => p = q
      /\ \A p \in Pages : Holds(virt, p) => PlaceIn(virt, p) \in DOMAIN data
  BY PlacesHeld
<1>2. \A q \in DOMAIN data : data'[q] = IF \E p \in s : Translate(p) = q THEN v ELSE data[q]
  BY DEF Fills
<1>3. ASSUME NEW p \in Pages
      PROVE  ContentNow'[p] = IF p \in s THEN v ELSE ContentNow[p]
  <2>1. CASE ~Holds(virt, p)
    <3>1. p \notin s /\ ContentNow'[p] = 0 /\ ContentNow[p] = 0
      BY <1>1, <2>1 DEF ContentNow
    <3> QED
      BY <3>1
  <2>2. CASE Holds(virt, p)
    <3>1. ContentNow'[p] = data'[PlaceIn(virt, p)] /\ ContentNow[p] = data[PlaceIn(virt, p)]
      BY <2>2 DEF ContentNow
    <3>2. (\E q \in s : Translate(q) = PlaceIn(virt, p)) <=> p \in s
      BY <1>1, <2>2
    <3> QED
      BY <1>1, <1>2, <2>2, <3>1, <3>2
  <2> QED
    BY <2>1, <2>2
<1> QED
  BY <1>3, NowIs DEF ContentNow

\* pages are copied to others, from as far away as y is from x
Copies(s, x, y) ==
    data' = [q \in DOMAIN data |-> IF {p \in s : Translate(p) = q} = {} THEN data[q]
                                   ELSE data[Translate(Max({p \in s : Translate(p) = q}) - x + y)]]
Copyable(s, x, y) ==
    \A p \in s : /\ p \in Pages /\ UsageNow[p] # {"unmapped"}
                 /\ p - x + y \in Pages /\ UsageNow[p - x + y] # {"unmapped"}
HasCopied(s, x, y) ==
    ContentNow' = [p \in Pages |-> IF p \in s THEN ContentNow[p - x + y] ELSE ContentNow[p]]

\* Pages that are copied to show what was at the pages they are copied from.
LEMMA CopyEffect ==
    ASSUME CallMemory, NEW s, NEW x \in Nat, NEW y \in Nat, Copyable(s, x, y), Copies(s, x, y), virt' = virt
    PROVE  HasCopied(s, x, y)
<1>0. /\ \A p \in s : p \in Pages /\ UsageNow[p] # {"unmapped"}
      /\ \A p \in s : p - x + y \in Pages /\ UsageNow[p - x + y] # {"unmapped"}
  BY Zenon DEF Copyable
<1>1. /\ \A p \in s : Holds(virt, p) /\ Translate(p) = PlaceIn(virt, p) /\ Translate(p) \in DOMAIN data
      /\ \A p, q \in Pages : Holds(virt, p) /\ Holds(virt, q) /\ PlaceIn(virt, p) = PlaceIn(virt, q) => p = q
      /\ \A p \in Pages : Holds(virt, p) => PlaceIn(virt, p) \in DOMAIN data
  BY <1>0, PlacesHeld
<1>2. \A q \in DOMAIN data : data'[q] = IF {p \in s : Translate(p) = q} = {} THEN data[q]
                                        ELSE data[Translate(Max({p \in s : Translate(p) = q}) - x + y)]
  BY DEF Copies
<1>3. ASSUME NEW p \in s
      PROVE  ContentNow'[p] = ContentNow[p - x + y]
  <2>1. p \in Pages /\ p \in Int /\ Holds(virt, p) /\ Translate(p) = PlaceIn(virt, p)
    BY <1>0, <1>1 DEF Pages
  <2>2. PICK S : S = {q \in s : Translate(q) = PlaceIn(virt, p)}
    OBVIOUS
  <2>3. S = {p}
    BY <1>0, <1>1, <2>1, <2>2
  <2>4. Max(S) = p
    <3>1. S \in SUBSET Int /\ p \in S /\ \A z \in S : z <= p
      BY <2>1, <2>3
    <3> QED
      BY <3>1, MaxIs
  <2>5. PICK f : f = p - x + y /\ f \in Pages /\ Holds(virt, f)
    <3>1. PICK g : g = p - x + y /\ g \in Pages /\ UsageNow[g] # {"unmapped"}
      BY <1>0
    <3>2. Holds(virt, g)
      BY <3>1 DEF UsageNow
    <3> QED
      BY <3>1, <3>2
  <2>6. data'[PlaceIn(virt, p)] = data[Translate(f)]
    <3>1. PlaceIn(virt, p) \in DOMAIN data /\ S # {}
      BY <1>1, <2>1, <2>3
    <3>2. data'[PlaceIn(virt, p)] = IF S = {} THEN data[PlaceIn(virt, p)] ELSE data[Translate(Max(S) - x + y)]
      BY <1>2, <2>2, <3>1
    <3> QED
      BY <2>4, <2>5, <3>1, <3>2
  <2>7. Translate(f) = PlaceIn(virt, f)
    BY Zenon DEF Translate, PlaceIn
  <2> QED
    BY <2>1, <2>5, <2>6, <2>7 DEF ContentNow
<1>4. ASSUME NEW p \in Pages, p \notin s
      PROVE  ContentNow'[p] = ContentNow[p]
  <2>1. CASE ~Holds(virt, p)
    BY <2>1 DEF ContentNow
  <2>2. CASE Holds(virt, p)
    <3>1. PICK S : S = {q \in s : Translate(q) = PlaceIn(virt, p)}
      OBVIOUS
    <3>2. S = {}
      BY <1>0, <1>1, <1>4, <2>2, <3>1
    <3>3. PlaceIn(virt, p) \in DOMAIN data
      BY <1>1, <2>2
    <3>4. data'[PlaceIn(virt, p)] = data[PlaceIn(virt, p)]
      BY <1>2, <3>1, <3>2, <3>3
    <3> QED
      BY <2>2, <3>4 DEF ContentNow
  <2> QED
    BY <2>1, <2>2
<1> QED
  BY <1>3, <1>4 DEF ContentNow, HasCopied

-----------------------------------------------------------------------------
(* The content of a file. *)

\* A part of a range, and the rest of it.
LEMMA RangeSplit ==
    ASSUME NEW at \in Nat, Whole(at), NEW n \in Nat, at + n <= Limit, NEW size \in Nat, size <= n,
           NEW S, S = PagesIn(at, n), NEW s, s = PagesIn(at, size)
    PROVE  /\ S \in SUBSET Pages /\ s \subseteq S
           /\ AlignUp(n) - AlignUp(size) \in Nat
           /\ AlignUp(n) = AlignUp(size) => s = S
           /\ \E a \in Nat : /\ a = at + AlignUp(size) /\ Whole(a) /\ Whole(AlignUp(n) - AlignUp(size))
                             /\ a + (AlignUp(n) - AlignUp(size)) <= PageCount * PageBytes
                             /\ \A p \in Pages : p \in PagesIn(a, AlignUp(n) - AlignUp(size)) <=> p \in S /\ p \notin s
                             /\ PagesIn(a, AlignUp(n) - AlignUp(size)) \in SUBSET Pages
<1>1. PICK k \in Nat, m \in Nat : /\ k = AlignUp(size) /\ m = AlignUp(n) /\ k <= m /\ Whole(k) /\ Whole(m)
                                  /\ PageOf(k) \in Nat /\ PageOf(m) \in Nat /\ PageOf(k) <= PageOf(m)
  <2>1. /\ AlignUp(size) \in Nat /\ Whole(AlignUp(size)) /\ PageOf(AlignUp(size)) \in Nat
        /\ AlignUp(n) \in Nat /\ Whole(AlignUp(n)) /\ PageOf(AlignUp(n)) \in Nat
    BY AlignIs
  <2>2. AlignUp(size) <= AlignUp(n) /\ PageOf(AlignUp(size)) <= PageOf(AlignUp(n))
    BY AlignOrder
  <2> QED
    BY <2>1, <2>2
<1>2. S \in SUBSET Pages /\ at + m <= Limit
  BY <1>1, PagesFit DEF Limit
<1>3. PICK a \in Nat, c \in Nat : a = at + k /\ c = at + m
  BY <1>1
<1>4. Whole(a) /\ PageOf(a) = PageOf(at) + PageOf(k) /\ Whole(c) /\ PageOf(c) = PageOf(at) + PageOf(m)
  <2>1. \A j \in Nat : Whole(j) => AlignUp(at + j) = at + j /\ PageOf(at + j) = PageOf(at) + PageOf(j) /\ Whole(at + j)
    <3>1. ASSUME NEW j \in Nat, Whole(j)
          PROVE  AlignUp(at + j) = at + j /\ PageOf(at + j) = PageOf(at) + PageOf(j) /\ Whole(at + j)
      <4>1. AlignUp(j) = j
        BY <3>1, AlignIs
      <4>2. AlignUp(at + j) = at + AlignUp(j) /\ PageOf(AlignUp(at + j)) = PageOf(at) + PageOf(AlignUp(j))
        BY AlignShift
      <4>3. at + j \in Nat
        OBVIOUS
      <4>4. Whole(AlignUp(at + j))
        BY <4>3, AlignIs
      <4> QED
        BY <4>1, <4>2, <4>4
    <3> QED
      BY <3>1
  <2> QED
    BY <1>1, <1>3, <2>1
<1>5. PageOf(at) \in Nat
  BY WholeIs
<1>6. \A p \in Int : p \in S <=> PageOf(at) <= p /\ p < PageOf(c)
  <2>1. S = PageOf(at) .. PageOf(at) + PageOf(m) - 1
    BY <1>1, PagesAre
  <2> QED
    BY <1>1, <1>4, <1>5, <2>1
<1>7. \A p \in Int : p \in s <=> PageOf(at) <= p /\ p < PageOf(a)
  <2>1. s = PageOf(at) .. PageOf(at) + PageOf(k) - 1
    BY <1>1, PagesAre
  <2> QED
    BY <1>1, <1>4, <1>5, <2>1
<1>8. PICK d \in Nat : /\ d = c - a /\ d = m - k /\ Whole(d) /\ a + d <= PageCount * PageBytes
                       /\ PagesIn(a, d) \in SUBSET Pages
                       /\ \A p \in Int : p \in PagesIn(a, d) <=> PageOf(a) <= p /\ p < PageOf(c)
  <2>1. a <= c /\ c <= Limit /\ c - a = m - k
    BY <1>1, <1>2, <1>3
  <2> QED
    BY <1>4, <2>1, Between
<1>9. s \subseteq S
  <2>1. \A p \in s : p \in Int
    <3>1. s = PageOf(at) .. PageOf(at) + PageOf(k) - 1
      BY <1>1, PagesAre
    <3> QED
      BY <1>1, <1>5, <3>1
  <2> QED
    BY <1>1, <1>4, <1>5, <1>6, <1>7, <2>1
<1>10. k = m => s = S
  <2>1. /\ S = PageOf(at) .. PageOf(at) + PageOf(AlignUp(n)) - 1
        /\ s = PageOf(at) .. PageOf(at) + PageOf(AlignUp(size)) - 1
    BY PagesAre
  <2> QED
    BY <1>1, <2>1
<1>11. \A p \in Pages : p \in Int
  BY DEF Pages
<1>12. \A p \in Pages : p \in PagesIn(a, d) <=> p \in S /\ p \notin s
  BY <1>1, <1>4, <1>5, <1>6, <1>7, <1>8, <1>11
<1> QED
  BY <1>1, <1>2, <1>3, <1>4, <1>8, <1>9, <1>10, <1>12

\* the pages of a mapping hold a file as far as it was read, and are locked behind it
FileShown(r, b, s, S) ==
    /\ UsageNow' = [p \in Pages |-> IF p \in s THEN r.usage ELSE IF p \in S THEN {"lock"} ELSE b.usage[p]]
    /\ ContentNow' = [p \in Pages |-> IF p \in s THEN 1 ELSE IF p \in S THEN 0 ELSE b.content[p]]

\* A file that was mapped.
LEMMA FileServes ==
    ASSUME CallMemory', BreakInv', brk' = brk, NEW r \in Requests, NEW at, NEW b, b = Seen, FileAt(r, at, b),
           NEW size \in Nat, size <= r.length, size <= r.file, Return(r, at), NEW s, s = PagesIn(at, size),
           NEW S, S = PagesIn(at, r.length), FileShown(r, b, s, S)
    PROVE  Agrees
<1>1. /\ r.op = "mmap" /\ r.from = "file" /\ Whole(r.address) /\ r.length > 0
      /\ at \in Nat /\ Whole(at) /\ at + r.length <= Limit
      /\ (r.how # "any" => at = r.address)
      /\ (r.how # "fixed" => \A p \in PagesIn(at, r.length) : b.usage[p] = {"unmapped"})
  BY Zenon DEF FileAt
<1>2. r.length \in Nat /\ r.file \in Nat
  BY <1>1, RequestIs
<1>3. call' = Idle /\ Replies(r, "none", at)
  BY Zenon DEF Return, Replies
<1>4. Calls!Answered(r, at) /\ answer'.request = r
  BY <1>3, AnswersAre
<1>5. Shows(b.usage, b.content, UsageNow', ContentNow')
  BY <1>3, SeenNext, Zenon DEF Shows
<1>6. S \in SUBSET Pages
  BY <1>1, <1>2, PagesFit DEF Limit
<1>7. Calls!PagesOf(at, size) = s /\ Calls!PagesOf(at, Calls!Up(r.length)) = S
  BY <1>1, <1>2, PagesAre, SameTerms
<1>8. size \in 0 .. Calls!Least(r.length, r.file)
  BY <1>2 DEF Calls!Least
<1>9. /\ Seen'.usage = [p \in Pages |-> IF p \in s THEN r.usage ELSE IF p \in S THEN {"lock"} ELSE Seen.usage[p]]
      /\ Seen'.content = [p \in Pages |-> IF p \in s THEN 1 ELSE IF p \in S THEN 0 ELSE Seen.content[p]]
  BY <1>5, Zenon DEF FileShown, Shows
<1>10. Calls!Given(r, at)
  <2> DEFINE Full(x, y) ==
                /\ Seen'.usage = [p \in Pages |-> IF p \in x THEN r.usage ELSE IF p \in y THEN {"lock"} ELSE Seen.usage[p]]
                /\ Seen'.content = [p \in Pages |-> IF p \in x THEN 1 ELSE IF p \in y THEN 0 ELSE Seen.content[p]]
  <2>1. Full(s, S)
    BY <1>9, Zenon
  <2>2. Full(Calls!PagesOf(at, size), Calls!PagesOf(at, Calls!Up(r.length)))
    <3> HIDE DEF Full
    <3> QED
      BY <1>7, <2>1, Zenon
  <2>3. \E read \in 0 .. Calls!Least(r.length, r.file) :
            Full(Calls!PagesOf(at, read), Calls!PagesOf(at, Calls!Up(r.length)))
    <3> HIDE DEF Full
    <3> QED
      BY <1>8, <2>2, Zenon
  <2>4. brk' = brk
    OBVIOUS
  <2> QED
    BY <1>1, <1>4, <2>3, <2>4, Zenon DEF Calls!Given, Calls!Pages, Pages
<1>11. r.how # "fixed" => Calls!Unused(S)
  BY <1>1, <1>5, <1>6, CallsAre
<1>12. Calls!Serve(r)
  <2>1. r.from # "refused"
    BY <1>1
  <2> QED
    BY <1>1, <1>10, <1>11, <2>1, GivenServes
<1> QED
  BY <1>3, <1>4, <1>12, Ends

\* A call whose mapping is still to be locked behind the end of the file.
LEMMA StandsLock ==
    ASSUME NEW r \in Requests, NEW at, NEW b, NEW rest, CallMemory', BreakInv', IsView(b), LockInv(r, at, rest, b)',
           call' = [phase |-> "lock", request |-> r, at |-> at, before |-> b, rest |-> rest]
    PROVE  CallInv' /\ Seen' = b
<1>1. call'.phase = "lock" /\ call'.request = r /\ call'.at = at /\ call'.before = b /\ call'.rest = rest
  OBVIOUS
<1>2. call' # Idle
  BY <1>1 DEF Idle
<1>3. LockInv(call.request, call.at, call.rest, call.before)'
  BY <1>1 DEF LockInv, FileAt, FileRead
<1> QED
  BY <1>1, <1>2, <1>3, SeenNext DEF CallInv, PhaseInv

\* The file is read.
LEMMA ReadFileAgrees ==
    ASSUME CallInv, ReadFile
    PROVE  Agrees
<1>1. In("read")
  BY Zenon DEF ReadFile
<1>2. /\ Running /\ CallMemory /\ BreakInv /\ call # Idle /\ Seen = call.before /\ IsView(Seen)
      /\ call.request \in Requests /\ ReadInv(call.request, call.at, Seen)
  BY <1>1, StandsIn
<1>3a. PICK r \in Requests : r = call.request
  BY <1>2
<1>3b. PICK at, b : at = call.at /\ b = Seen
  OBVIOUS
<1>4. /\ FileAt(r, at, b)
      /\ ContentNow = [p \in Pages |-> IF p \in PagesIn(at, r.length) THEN 0 ELSE b.content[p]]
  BY <1>2, <1>3a, <1>3b, Zenon DEF ReadInv
<1>5. /\ r.op = "mmap" /\ r.length > 0 /\ at \in Nat /\ Whole(at) /\ at + r.length <= Limit
      /\ UsageNow = [p \in Pages |-> IF p \in PagesIn(at, r.length) THEN r.usage ELSE b.usage[p]]
  BY <1>4, Zenon DEF FileAt
<1>6. r.length \in Nat /\ r.file \in Nat /\ r.usage \in SUBSET Rights
  BY <1>5, RequestIs
<1>7. PICK size : /\ size \in 0 .. Min({r.length, r.file})
                  /\ Fills(PagesIn(at, size), 1)
                  /\ IF AlignUp(r.length) - AlignUp(size) = 0 THEN Return(r, at)
                     ELSE /\ call' = [phase |-> "lock", request |-> r, at |-> at, before |-> call.before,
                                      rest |-> AlignUp(r.length) - AlignUp(size)]
                          /\ UNCHANGED answer
  BY <1>3a, <1>3b, Zenon DEF ReadFile, Fills
<1>8. size \in Nat /\ size <= r.length /\ size <= r.file
  <2>1. PICK x \in Int, y \in Int : x = r.length /\ y = r.file
    BY <1>6
  <2>2. Min({x, y}) \in {x, y} /\ Min({x, y}) <= x /\ Min({x, y}) <= y
    BY OfTwo
  <2> QED
    BY <1>6, <1>7, <2>1, <2>2
<1>9. PICK s, S : s = PagesIn(at, size) /\ S = PagesIn(at, r.length)
  OBVIOUS
<1>10. PICK rest \in Nat : rest = AlignUp(r.length) - AlignUp(size) /\ (rest = 0 => s = S)
  <2>1. AlignUp(r.length) - AlignUp(size) \in Nat /\ (AlignUp(r.length) = AlignUp(size) => s = S)
    BY <1>5, <1>6, <1>8, <1>9, RangeSplit
  <2>2. AlignUp(r.length) \in Nat /\ AlignUp(size) \in Nat
    BY <1>6, <1>8, AlignIs
  <2> QED
    BY <2>1, <2>2
<1>11. S \in SUBSET Pages /\ s \subseteq S
  BY <1>5, <1>6, <1>8, <1>9, RangeSplit
<1>12. brk' = brk /\ OnlyData
  <2>1. brk' = brk /\ virt' = virt /\ phys' = phys /\ fault' = fault
    BY Zenon DEF ReadFile, slotVars
  <2>2. DOMAIN data' = DOMAIN data
    BY <1>7 DEF Fills
  <2> QED
    BY <2>1, <2>2 DEF OnlyData
<1>13. CallMemory' /\ UsageNow' = UsageNow /\ BreakInv'
  BY <1>2, <1>12, DataMemory, StillBreak
<1>14. ContentNow' = [p \in Pages |-> IF p \in s THEN 1 ELSE ContentNow[p]]
  <2>1. \A p \in s : p \in Pages /\ UsageNow[p] # {"unmapped"}
    BY <1>5, <1>6, <1>9, <1>11 DEF Rights
  <2>2. Fills(s, 1) /\ virt' = virt
    BY <1>7, <1>9, <1>12 DEF OnlyData
  <2> QED
    BY <1>2, <2>1, <2>2, FillEffect
<1>15. ContentNow' = [p \in Pages |-> IF p \in s THEN 1 ELSE IF p \in S THEN 0 ELSE b.content[p]]
  BY <1>4, <1>9, <1>14
<1>16. CASE rest = 0
  <2>1. Return(r, at) /\ s = S
    BY <1>7, <1>10, <1>16
  <2>2. UsageNow' = [p \in Pages |-> IF p \in s THEN r.usage ELSE IF p \in S THEN {"lock"} ELSE b.usage[p]]
    BY <1>5, <1>9, <1>13, <2>1
  <2>3. FileShown(r, b, s, S)
    BY <1>15, <2>2, Zenon DEF FileShown
  <2> QED
    BY <1>3a, <1>3b, <1>4, <1>8, <1>9, <1>12, <1>13, <2>1, <2>3, FileServes
<1>17. CASE rest # 0
  <2>1. /\ call' = [phase |-> "lock", request |-> r, at |-> at, before |-> b, rest |-> rest]
        /\ answer' = answer
    BY <1>2, <1>3a, <1>3b, <1>7, <1>10, <1>17
  <2>2. FileAt(r, at, b)'
    BY <1>4, <1>13, Zenon DEF FileAt
  <2>3. FileRead(r, at, size, b)'
    BY <1>9, <1>15, Zenon DEF FileRead
  <2>4. LockInv(r, at, rest, b)'
    <3>1. size \in 0 .. r.length
      BY <1>6, <1>8
    <3> QED
      BY <1>8, <1>10, <1>17, <2>2, <2>3, <3>1, Zenon DEF LockInv
  <2>5. CallInv' /\ Seen' = b
    BY <1>2, <1>3a, <1>3b, <1>13, <2>1, <2>4, StandsLock
  <2> QED
    BY <1>3a, <1>3b, <1>12, <2>1, <2>5, Quiet
<1> QED
  BY <1>16, <1>17

\* And its pages behind the end of it are locked.
LEMMA LockRestAgrees ==
    ASSUME CallInv, LockRest
    PROVE  Agrees
<1>1. In("lock")
  BY Zenon DEF LockRest
<1>2. /\ Running /\ CallMemory /\ BreakInv /\ call # Idle /\ Seen = call.before
      /\ call.request \in Requests /\ LockInv(call.request, call.at, call.rest, Seen)
  BY <1>1, StandsIn
<1>3a. PICK r \in Requests : r = call.request
  BY <1>2
<1>3b. PICK at, b, rest : at = call.at /\ b = Seen /\ rest = call.rest
  OBVIOUS
<1>4. PICK size : /\ FileAt(r, at, b) /\ size \in 0 .. r.length /\ size <= r.file
                  /\ rest = AlignUp(r.length) - AlignUp(size) /\ rest # 0 /\ FileRead(r, at, size, b)
  BY <1>2, <1>3a, <1>3b, Zenon DEF LockInv
<1>5. /\ r.op = "mmap" /\ r.length > 0 /\ at \in Nat /\ Whole(at) /\ at + r.length <= Limit
      /\ UsageNow = [p \in Pages |-> IF p \in PagesIn(at, r.length) THEN r.usage ELSE b.usage[p]]
  BY <1>4, Zenon DEF FileAt
<1>6. r.length \in Nat /\ r.file \in Nat /\ r.usage \in SUBSET Rights
  BY <1>5, RequestIs
<1>7. size \in Nat /\ size <= r.length
  BY <1>4, <1>6
<1>8. PICK s, S : s = PagesIn(at, size) /\ S = PagesIn(at, r.length)
  OBVIOUS
<1>9. /\ S \in SUBSET Pages /\ s \subseteq S /\ rest \in Nat /\ rest > 0
  <2>1. S \in SUBSET Pages /\ s \subseteq S /\ AlignUp(r.length) - AlignUp(size) \in Nat
    BY <1>5, <1>6, <1>7, <1>8, RangeSplit
  <2> QED
    BY <1>4, <2>1
<1>10. PICK a \in Nat : /\ a = at + AlignUp(size) /\ Whole(a) /\ Whole(rest) /\ a + rest <= PageCount * PageBytes
                        /\ \A p \in Pages : p \in PagesIn(a, rest) <=> p \in S /\ p \notin s
                        /\ PagesIn(a, rest) \in SUBSET Pages
  BY <1>4, <1>5, <1>6, <1>7, <1>8, RangeSplit
<1>11. a = at + AlignUp(r.length) - rest
  <2>1. PICK k \in Nat, m \in Nat : k = AlignUp(size) /\ m = AlignUp(r.length)
    BY <1>6, <1>7, AlignIs
  <2> QED
    BY <1>4, <1>5, <1>9, <1>10, <2>1
<1>12. PICK t \in SUBSET Pages : t = PagesIn(a, rest)
  BY <1>10
<1>13. /\ ProtectBytes(a, rest, {"lock"}) /\ Return(r, at) /\ brk' = brk
  BY <1>3a, <1>3b, <1>11, Zenon DEF LockRest
<1>14. \A p \in t : UsageNow[p] # {"unmapped"}
  BY <1>5, <1>6, <1>8, <1>10, <1>12 DEF Rights
<1>15. ~UnmapRefused(a, rest)
  <2>1. t \subseteq Mapped
    BY <1>2, <1>14, MappedIs
  <2> QED
    BY <1>10, <1>12, <2>1, Zenon DEF UnmapRefused
<1>16. CallMemory' /\ UsesPages(t, {"lock"})
  <2>1. PICK u \in SUBSET Rights : u = {"lock"}
    BY DEF Rights
  <2>2. ProtectBytes(a, rest, u)
    BY <1>13, <2>1
  <2>3. CallMemory' /\ UsesPages(PagesIn(a, rest), u)
    BY <1>2, <1>9, <1>10, <1>15, <2>2, ProtectEffect
  <2> QED
    BY <1>12, <2>1, <2>3
<1>17. BreakInv'
  BY <1>2, <1>13, StillBreak
<1>18. FileShown(r, b, s, S)
  <2>1. /\ UsageNow' = [p \in Pages |-> IF p \in t THEN {"lock"} ELSE UsageNow[p]]
        /\ ContentNow' = ContentNow
    BY <1>16, Zenon DEF UsesPages
  <2>2. UsageNow' = [p \in Pages |-> IF p \in s THEN r.usage ELSE IF p \in S THEN {"lock"} ELSE b.usage[p]]
    BY <1>5, <1>8, <1>9, <1>10, <1>12, <2>1
  <2>3. ContentNow' = [p \in Pages |-> IF p \in s THEN 1 ELSE IF p \in S THEN 0 ELSE b.content[p]]
    BY <1>4, <1>8, <2>1 DEF FileRead
  <2> QED
    BY <2>2, <2>3, Zenon DEF FileShown
<1> QED
  BY <1>3a, <1>3b, <1>4, <1>7, <1>8, <1>13, <1>16, <1>17, <1>18, FileServes

-----------------------------------------------------------------------------
(* mremap. *)

\* Pages up to an end of pages.
LEMMA Reaches ==
    ASSUME NEW a \in Nat, Whole(a), NEW n \in Nat, NEW k \in Nat, NEW v \in Nat
    PROVE  /\ v * PageBytes >= a + n <=> PageOf(a) + PageOf(AlignUp(n)) <= v
           /\ k * PageBytes <= a <=> k <= PageOf(a)
<1>1. PICK c \in Nat : c = a + n
  OBVIOUS
<1>2. PICK q \in Nat : AlignUp(c) = q * PageBytes /\ c <= AlignUp(c) /\ PageOf(AlignUp(c)) = q
  BY AlignIs
<1>3. q = PageOf(a) + PageOf(AlignUp(n))
  BY <1>1, <1>2, AlignShift
<1>4. PICK w \in Nat : w = v * PageBytes
  BY TimesIs
<1>5. PageOf(AlignUp(w)) = v
  <2>1. Whole(w) /\ PageOf(w) = v
    BY <1>4, WholeIs
  <2> QED
    BY <2>1, AlignIs
<1>6. c <= w => q <= v
  BY <1>2, <1>5, AlignOrder
<1>7. q <= v => c <= w
  <2>1. q < v => q * PageBytes + PageBytes <= v * PageBytes
    BY TimesIs
  <2>2. q * PageBytes \in Nat /\ PageBytes \in Nat
    BY SizesAre, TimesIs
  <2> QED
    BY <1>2, <1>4, <2>1, <2>2
<1>8. PICK p \in Nat : p = PageOf(a) /\ a = p * PageBytes
  BY WholeIs
<1>9. k * PageBytes <= a <=> k <= p
  <2>1. /\ k < p => k * PageBytes + PageBytes <= p * PageBytes
        /\ p < k => p * PageBytes + PageBytes <= k * PageBytes
    BY TimesIs
  <2>2. p * PageBytes \in Nat /\ k * PageBytes \in Nat /\ PageBytes \in Nat /\ PageBytes > 0
    BY SizesAre, TimesIs
  <2> QED
    BY <1>8, <2>1, <2>2
<1> QED
  BY <1>1, <1>3, <1>4, <1>6, <1>7, <1>8, <1>9

\* a virtual slot holds all of what is to be moved or resized
WithinSlot(r) == \E k \in FindNext(PageOf(r.address)) :
                     k * PageBytes <= r.address /\ VirtEnd(k) * PageBytes >= r.address + r.length

\* The pages of a slot are of its usage.
LEMMA SlotUsage ==
    ASSUME NEW e, Sound(virt, phys, e), NEW k \in DOMAIN virt, NEW p \in Int, k <= p, p < EndOf(virt, k)
    PROVE  /\ p \in Pages /\ UsageNow[p] = virt[k].usage /\ UsageOf(p) = virt[k].usage
           /\ UsageNow[p] # {"unmapped"}
<1>1. Laid(virt)
  BY DEF Sound
<1>2. k \in Nat /\ EndOf(virt, k) <= PageCount /\ virt[k].usage \in SUBSET Rights /\ EndOf(virt, k) \in Nat
  BY <1>1, LaidSlot
<1>3. p \in Pages
  BY <1>2, SizesAre DEF Pages
<1>4. Holds(virt, p) /\ SlotAt(virt, p) = k
  BY <1>1, SlotAtIs DEF Laid
<1>5. UsageNow[p] # {"unmapped"}
  BY <1>3, <1>4, UsageIs
<1>6. UsageNow[p] = virt[k].usage
  BY <1>3, <1>4 DEF UsageNow, UsageIn
<1> QED
  BY <1>3, <1>4, <1>5, <1>6 DEF UsageOf

\* While slots next to each other differ, pages that are mapped and of one usage lie in one slot.
LEMMA OneIsWhole ==
    ASSUME CallMemory, Running, NEW r \in Requests, r.op = "mremap", Whole(r.address), r.length > 0
    PROVE  /\ WithinSlot(r) <=> OneUsage(r, UsageNow)
           /\ WithinSlot(r) => UsageOf(PageOf(r.address)) = UsageNow[PageOf(r.address)]
           /\ WithinSlot(r) => UsageNow[PageOf(r.address)] \in SUBSET Rights
<1>1. PICK e : Sound(virt, phys, e)
  BY DEF CallMemory, MemorySound
<1>2. Laid(virt) /\ Joined(virt)
  BY <1>1 DEF Sound, CallMemory
<1>3. PICK a \in Nat, n \in Nat : a = r.address /\ n = r.length /\ a + n <= PageCount * PageBytes
  BY RequestIs DEF Limit
<1>4. PICK P \in Nat, N \in Nat : P = PageOf(a) /\ N = PageOf(AlignUp(n)) /\ N > 0 /\ P + N <= PageCount
  BY <1>3, PagesFit
<1>5. PICK s : s = PagesIn(r.address, r.length) /\ s = P .. P + N - 1
  BY <1>3, <1>4, PagesAre
<1>6. \A p : p \in s <=> p \in Int /\ P <= p /\ p < P + N
  BY <1>4, <1>5
<1>7. P \in s /\ \A p \in s : p \in Pages
  BY <1>4, <1>6, SizesAre DEF Pages
<1>8. \A k \in DOMAIN virt : k \in Nat /\ EndOf(virt, k) \in Nat /\ k < EndOf(virt, k) /\ EndOf(virt, k) <= PageCount
  BY <1>2, LaidSlot
<1>9. \A k \in DOMAIN virt : /\ VirtEnd(k) * PageBytes >= r.address + r.length <=> P + N <= EndOf(virt, k)
                             /\ k * PageBytes <= r.address <=> k <= P
  <2>1. ASSUME NEW k \in DOMAIN virt
        PROVE  /\ VirtEnd(k) * PageBytes >= r.address + r.length <=> P + N <= EndOf(virt, k)
               /\ k * PageBytes <= r.address <=> k <= P
    <3>1. PICK x \in Nat, y \in Nat : x = k /\ y = EndOf(virt, k)
      BY <1>8
    <3>2. y * PageBytes >= a + n <=> P + N <= y
      BY <1>3, <1>4, Reaches
    <3>3. x * PageBytes <= a <=> x <= P
      BY <1>3, <1>4, Reaches
    <3> QED
      BY <1>3, <3>1, <3>2, <3>3 DEF VirtEnd
  <2> QED
    BY <2>1
<1>10. FindNext(P) \subseteq DOMAIN virt
  BY <1>1, FindAfter
<1>11. WithinSlot(r) <=> \E k \in FindNext(P) : k <= P /\ P + N <= EndOf(virt, k)
  BY <1>3, <1>4, <1>9, <1>10 DEF WithinSlot
<1>12. OneUsage(r, UsageNow) <=> \A p \in s : UsageNow[p] # {"unmapped"} /\ UsageNow[p] = UsageNow[P]
  BY <1>3, <1>4, <1>5 DEF OneUsage
<1>13. ASSUME WithinSlot(r)
       PROVE  OneUsage(r, UsageNow) /\ UsageOf(P) = UsageNow[P] /\ UsageNow[P] \in SUBSET Rights
  <2>1. PICK k \in DOMAIN virt : k <= P /\ P + N <= EndOf(virt, k)
    BY <1>10, <1>11, <1>13
  <2>2. \A p \in s : UsageNow[p] = virt[k].usage /\ UsageNow[p] # {"unmapped"} /\ UsageOf(p) = virt[k].usage
    <3>1. ASSUME NEW p \in s
          PROVE  UsageNow[p] = virt[k].usage /\ UsageNow[p] # {"unmapped"} /\ UsageOf(p) = virt[k].usage
      <4>1. p \in Int /\ k <= p /\ p < EndOf(virt, k)
        BY <1>4, <1>6, <1>8, <2>1
      <4> QED
        BY <1>1, <4>1, SlotUsage
    <3> QED
      BY <3>1
  <2>3. virt[k].usage \in SUBSET Rights
    BY <1>2, LaidSlot
  <2> QED
    BY <1>7, <1>12, <2>2, <2>3
<1>14. ASSUME OneUsage(r, UsageNow)
       PROVE  WithinSlot(r)
  <2>1. Holds(virt, P)
    BY <1>1, <1>7, <1>12, <1>14, UsageIs
  <2>2. PICK k \in DOMAIN virt : k <= P /\ P < EndOf(virt, k)
    BY <2>1, HoldsIs
  <2>3. FindNext(P) = {k}
    BY <1>1, <2>2, FindHeld
  <2>4. SUFFICES ASSUME EndOf(virt, k) < P + N
                 PROVE  FALSE
    BY <1>4, <1>8, <1>11, <2>2, <2>3
  <2>5. PICK x \in Nat : x = EndOf(virt, k) /\ x \in s
    BY <1>4, <1>6, <1>8, <2>2, <2>4
  <2>6. UsageNow[x] # {"unmapped"} /\ UsageNow[x] = UsageNow[P] /\ x \in Pages
    BY <1>7, <1>12, <1>14, <2>5
  <2>7. Holds(virt, x)
    BY <1>1, <2>6, UsageIs
  <2>8. PICK j \in DOMAIN virt : j <= x /\ x < EndOf(virt, j)
    BY <2>7, HoldsIs
  <2>9. k # j => EndOf(virt, k) <= j \/ EndOf(virt, j) <= k
    BY <1>2, <1>8 DEF Laid, Ordered
  <2>10. j = x
    BY <1>8, <2>2, <2>5, <2>8, <2>9
  <2>11. virt[k].usage # virt[j].usage
    BY <1>2, <2>5, <2>10 DEF Joined
  <2>12. UsageNow[P] = virt[k].usage
    BY <1>1, <2>2, SlotUsage
  <2>13. UsageNow[x] = virt[j].usage
    BY <1>1, <2>8, SlotUsage
  <2> QED
    BY <2>6, <2>11, <2>12, <2>13
<1> QED
  BY <1>3, <1>4, <1>13, <1>14

\* the conditions of the promise, and what it says of a move
RemapValid(r) == Whole(r.address) /\ r.length > 0 /\ r.to > 0
RemapOne(r) ==
    /\ PagesIn(r.address, r.length) \subseteq Pages /\ Calls!Used(PagesIn(r.address, r.length))
    /\ \A p \in PagesIn(r.address, r.length) : Seen.usage[p] = Seen.usage[PageOf(r.address)]
RemapMoves(r, at) ==
    /\ Calls!Unused(PagesIn(at, r.to))
    /\ Seen'.usage = [p \in Pages |-> IF p \in PagesIn(at, r.to) THEN Seen.usage[PageOf(r.address)]
                                      ELSE IF p \in PagesIn(r.address, r.length) /\ ~("dontunmap" \in r.flags)
                                           THEN Calls!Free ELSE Seen.usage[p]]
    /\ Seen'.content = [p \in Pages |-> IF p \in PagesIn(at, Calls!Least(r.length, r.to))
                                        THEN Seen.content[p - PageOf(at) + PageOf(r.address)]
                                        ELSE IF p \in PagesIn(at, r.to) \union PagesIn(r.address, r.length) THEN 0
                                        ELSE Seen.content[p]]

\* So mremap is served.
LEMMA RemapServes ==
    ASSUME NEW r, r.op = "mremap", brk' = brk,
           NEW end, end = AlignUp(r.address + r.length), NEW wish, wish = AlignUp(r.address + r.to),
           \/ ~RemapValid(r) /\ Calls!Same /\ Calls!Failed(r, "eInvalid")
           \/ /\ RemapValid(r)
              /\ \/ ~RemapOne(r) /\ Calls!Same /\ Calls!Failed(r, "eFault")
                 \/ /\ RemapOne(r)
                    /\ \/ "maymove" \notin r.flags /\ r.flags # {} /\ Calls!Same /\ Calls!Failed(r, "eInvalid")
                       \/ /\ r.flags = {} /\ wish <= end /\ Calls!Cleared(PagesIn(wish, end - wish))
                          /\ Calls!Answered(r, r.address)
                       \/ /\ r.flags = {} /\ wish > end /\ Calls!Unused(PagesIn(end, wish - end))
                          /\ Calls!Mapped(PagesIn(end, wish - end), Seen.usage[PageOf(r.address)], {})
                          /\ Calls!Answered(r, r.address)
                       \/ /\ "maymove" \in r.flags \/ (r.flags = {} /\ wish > end)
                          /\ Calls!Same /\ Calls!Failed(r, "eNoMemory")
                       \/ /\ "maymove" \in r.flags /\ Whole(r.to)
                          /\ \E p \in Pages : /\ "fixed" \in r.flags => p * PageBytes = r.dest
                                              /\ RemapMoves(r, p * PageBytes) /\ Calls!Answered(r, p * PageBytes)
                       \/ /\ "maymove" \in r.flags /\ Whole(r.to) /\ "dontunmap" \notin r.flags /\ ~Whole(r.length)
                          /\ Calls!Same /\ Calls!Failed(r, "fatal")
    PROVE  Calls!Serve(r)
<1>1. CASE ~RemapValid(r)
  BY <1>1, Zenon DEF RemapValid, Whole, Calls!Serve, Calls!Remap, Calls!Whole
<1>2. CASE RemapValid(r) /\ ~RemapOne(r)
  BY <1>2, Zenon DEF RemapValid, Whole, RemapOne, Calls!Serve, Calls!Remap, Calls!Whole,
       Calls!PagesOf, Calls!Up, PagesIn, PageOf, AlignUp, Calls!Pages, Pages
<1>3. CASE RemapValid(r) /\ RemapOne(r)
  <2> DEFINE E == Calls!Up(r.address + r.length)
             W == Calls!Up(r.address + r.to)
             V == Calls!Whole(r.address) /\ r.length > 0 /\ r.to > 0
             s == Calls!PagesOf(r.address, r.length)
             O == s \subseteq Calls!Pages /\ Calls!Used(s) /\ \A p \in s : Seen.usage[p] = Seen.usage[r.address \div PageBytes]
             M(at) == RemapMoves(r, at)
  <2>1. E = end /\ W = wish
    BY SameTerms
  <2>2. V /\ O
    BY <1>3, Zenon DEF RemapValid, Whole, RemapOne, Calls!Whole,
       Calls!PagesOf, Calls!Up, PagesIn, PageOf, AlignUp, Calls!Pages, Pages
  <2>3. \/ "maymove" \notin r.flags /\ r.flags # {} /\ Calls!Same /\ Calls!Failed(r, "eInvalid")
        \/ /\ r.flags = {} /\ W <= E /\ Calls!Cleared(Calls!PagesOf(W, E - W)) /\ Calls!Answered(r, r.address)
        \/ /\ r.flags = {} /\ W > E /\ Calls!Unused(Calls!PagesOf(E, W - E))
           /\ Calls!Mapped(Calls!PagesOf(E, W - E), Seen.usage[r.address \div PageBytes], {})
           /\ Calls!Answered(r, r.address)
        \/ /\ "maymove" \in r.flags \/ (r.flags = {} /\ W > E)
           /\ Calls!Same /\ Calls!Failed(r, "eNoMemory")
        \/ /\ "maymove" \in r.flags /\ Whole(r.to)
           /\ \E p \in Pages : /\ "fixed" \in r.flags => p * PageBytes = r.dest
                               /\ M(p * PageBytes) /\ Calls!Answered(r, p * PageBytes)
        \/ /\ "maymove" \in r.flags /\ Whole(r.to) /\ "dontunmap" \notin r.flags /\ ~Whole(r.length)
           /\ Calls!Same /\ Calls!Failed(r, "fatal")
    <3>1. Calls!PagesOf(wish, end - wish) = PagesIn(wish, end - wish) /\ Calls!PagesOf(end, wish - end) = PagesIn(end, wish - end)
      BY SameTerms
    <3> HIDE DEF E, W
    <3> QED
      BY <1>3, <2>1, <3>1, Zenon DEF PageOf
  <2>4. Calls!Remap(r)
    <3> HIDE DEF E, W, V, O, M
    <3>1. ASSUME NEW p
          PROVE  M(p) <=> /\ Calls!Unused(Calls!PagesOf(p, r.to))
                          /\ Seen'.usage = [i \in Calls!Pages |-> IF i \in Calls!PagesOf(p, r.to) THEN Seen.usage[r.address \div PageBytes]
                                      ELSE IF i \in s /\ ~("dontunmap" \in r.flags)
                                           THEN Calls!Free ELSE Seen.usage[i]]
                          /\ Seen'.content = [i \in Calls!Pages |-> IF i \in Calls!PagesOf(p, Calls!Least(r.length, r.to))
                                        THEN Seen.content[i - p \div PageBytes + r.address \div PageBytes]
                                        ELSE IF i \in Calls!PagesOf(p, r.to) \union s THEN 0
                                        ELSE Seen.content[i]]
      BY Zenon DEF M, s, RemapMoves, Calls!PagesOf, Calls!Up, PagesIn, PageOf, AlignUp, Calls!Pages, Pages
    <3> QED
      BY <2>2, <2>3, <3>1, Zenon DEF Calls!Remap, E, W, V, O, Calls!Pages, Pages, Whole, Calls!Whole
  <2> QED
    BY <2>4, Zenon DEF Calls!Serve
<1> QED
  BY <1>1, <1>2, <1>3

\* What it finds to be one is one slot.
LEMMA RemapOneIs ==
    ASSUME CallMemory, Running, NEW r \in Requests, r.op = "mremap", RemapValid(r), Seen.usage = UsageNow
    PROVE  /\ RemapOne(r) <=> WithinSlot(r)
           /\ WithinSlot(r) => /\ OneUsage(r, UsageNow)
                            /\ UsageOf(PageOf(r.address)) = Seen.usage[PageOf(r.address)]
                            /\ UsageOf(PageOf(r.address)) \in SUBSET Rights
<1>1. Whole(r.address) /\ r.length > 0
  BY Zenon DEF RemapValid
<1>2. /\ WithinSlot(r) <=> OneUsage(r, UsageNow)
      /\ WithinSlot(r) => UsageOf(PageOf(r.address)) = UsageNow[PageOf(r.address)]
      /\ WithinSlot(r) => UsageNow[PageOf(r.address)] \in SUBSET Rights
  BY <1>1, OneIsWhole
<1>3. PICK s : s = PagesIn(r.address, r.length) /\ s \in SUBSET Pages
  BY <1>1, RangeFits
<1>4. OneUsage(r, UsageNow) <=> \A p \in s : UsageNow[p] # {"unmapped"} /\ UsageNow[p] = UsageNow[PageOf(r.address)]
  BY <1>3, Zenon DEF OneUsage
<1>5. RemapOne(r) <=> \A p \in s : UsageNow[p] # {"unmapped"} /\ UsageNow[p] = UsageNow[PageOf(r.address)]
  BY <1>3, Zenon DEF RemapOne, Calls!Used, Calls!Free
<1> QED
  BY <1>2, <1>4, <1>5, Zenon

\* A call of which nothing comes.
LEMMA RemapRefused ==
    ASSUME CallInv, Waiting, NEW r \in Requests, r.op = "mremap", brk' = brk, CallMemory', SameNow, NEW e, Fail(r, e),
           NEW end, end = AlignUp(r.address + r.length), NEW wish, wish = AlignUp(r.address + r.to),
           \/ ~RemapValid(r) /\ e = "eInvalid"
           \/ RemapValid(r) /\ ~WithinSlot(r) /\ e = "eFault"
           \/ RemapValid(r) /\ WithinSlot(r) /\ "maymove" \notin r.flags /\ r.flags # {} /\ e = "eInvalid"
           \/ RemapValid(r) /\ WithinSlot(r) /\ ("maymove" \in r.flags \/ (r.flags = {} /\ wish > end)) /\ e = "eNoMemory"
    PROVE  Agrees
<1>1. call' = Idle /\ Replies(r, e, 0)
  BY Zenon DEF Fail, Replies
<1>2. /\ Running /\ CallMemory /\ BreakInv /\ Seen.usage = UsageNow
      /\ Shows(UsageNow, ContentNow, UsageNow', ContentNow')
  BY <1>1, Begun
<1>3. Calls!Failed(r, e) /\ answer'.request = r
  BY <1>1, AnswersAre
<1>4. Calls!Same
  BY <1>2, CallsAre DEF SameNow
<1>5. RemapValid(r) => (RemapOne(r) <=> WithinSlot(r))
  BY <1>2, RemapOneIs
<1>6. Calls!Serve(r)
  <2>1. \/ ~RemapValid(r) /\ Calls!Same /\ Calls!Failed(r, "eInvalid")
        \/ /\ RemapValid(r)
           /\ \/ ~RemapOne(r) /\ Calls!Same /\ Calls!Failed(r, "eFault")
              \/ /\ RemapOne(r)
                 /\ \/ "maymove" \notin r.flags /\ r.flags # {} /\ Calls!Same /\ Calls!Failed(r, "eInvalid")
                    \/ /\ "maymove" \in r.flags \/ (r.flags = {} /\ wish > end)
                       /\ Calls!Same /\ Calls!Failed(r, "eNoMemory")
    BY <1>3, <1>4, <1>5, Zenon
  <2> QED
    BY <2>1, RemapServes, Zenon
<1>7. BreakInv'
  BY <1>2, StillBreak
<1> QED
  BY <1>1, <1>3, <1>6, <1>7, Ends

\* In place.
LEMMA ResizedAgrees ==
    ASSUME CallInv, Waiting, NEW r \in Requests, r.op = "mremap", RemapValid(r), WithinSlot(r), r.flags = {}, brk' = brk,
           NEW u, u = UsageOf(PageOf(r.address)), Resized(r, u)
    PROVE  Agrees
<1>1. Running /\ CallMemory /\ BreakInv /\ Seen.usage = UsageNow
  BY Begun
<1>2. PICK a \in Nat, n \in Nat, m \in Nat : /\ a = r.address /\ n = r.length /\ m = r.to
                                             /\ a + n <= Limit /\ a + m <= Limit /\ Whole(a)
  BY RequestIs DEF RemapValid
<1>3. PICK end \in Nat : end = AlignUp(a + n) /\ Whole(end) /\ end <= Limit
  BY <1>2, EndIs
<1>4. PICK wish \in Nat : wish = AlignUp(a + m) /\ Whole(wish) /\ a <= wish /\ wish <= Limit
  BY <1>2, EndIs
<1>5. /\ RemapOne(r) /\ OneUsage(r, UsageNow)
      /\ u = Seen.usage[PageOf(r.address)] /\ u \in SUBSET Rights
  BY <1>1, RemapOneIs
<1>6. \/ wish = end /\ Return(r, r.address) /\ UNCHANGED vars
      \/ wish < end /\ UnmapBytes(wish, end - wish) /\ Return(r, r.address)
      \/ wish > end /\ MapBytes(end, wish - end, u) /\ IF Taken THEN Return(r, r.address) ELSE Fail(r, "eNoMemory")
  BY <1>2, <1>3, <1>4, Zenon DEF Resized
<1>7. BreakInv'
  BY <1>1, StillBreak
<1>8. end = AlignUp(r.address + r.length) /\ wish = AlignUp(r.address + r.to)
  BY <1>2, <1>3, <1>4
<1>9. ASSUME Return(r, r.address)
      PROVE  /\ call' = Idle /\ Calls!Answered(r, r.address) /\ answer'.request = r
             /\ Shows(UsageNow, ContentNow, UsageNow', ContentNow')
  <2>1. call' = Idle /\ Replies(r, "none", r.address)
    BY <1>9, Zenon DEF Return, Replies
  <2> QED
    BY <2>1, AnswersAre, Begun
<1>10. ASSUME Return(r, r.address), wish <= end, Calls!Cleared(PagesIn(wish, end - wish)), CallMemory'
       PROVE  Agrees
  <2>1. Calls!Serve(r)
    BY <1>5, <1>8, <1>9, <1>10, RemapServes, Zenon
  <2> QED
    BY <1>7, <1>9, <1>10, <2>1, Ends
<1>11. CASE wish = end /\ Return(r, r.address) /\ UNCHANGED vars
  <2>1. CallMemory' /\ SameNow
    BY <1>1, <1>11, StillMemory
  <2>2. Shows(UsageNow, ContentNow, UsageNow', ContentNow')
    BY <1>9, <1>11
  <2>3. Calls!Same
    BY <2>1, <2>2, CallsAre DEF SameNow
  <2>4. Calls!Cleared({})
    BY <2>2, <2>3, SetsNothing, NowIs
  <2>5. PagesIn(wish, end - wish) = {}
    <3>1. end - wish = 0
      BY <1>11
    <3>2. PagesIn(wish, 0) = {}
      BY <1>4, NoPages
    <3> QED
      BY <3>1, <3>2
  <2>6. wish <= end
    BY <1>11
  <2> QED
    BY <1>10, <1>11, <2>1, <2>4, <2>5, <2>6
<1>12. CASE wish < end /\ UnmapBytes(wish, end - wish) /\ Return(r, r.address)
  <2>1. PICK d \in Nat : /\ d = end - wish /\ d > 0 /\ wish + d <= PageCount * PageBytes /\ Whole(d)
                         /\ PagesIn(wish, d) \in SUBSET Pages
                         /\ \A p \in Int : p \in PagesIn(wish, d) <=> PageOf(wish) <= p /\ p < PageOf(end)
    <3>1. wish <= end /\ end - wish > 0
      BY <1>12
    <3> QED
      BY <1>3, <1>4, <3>1, Between
  <2>2. PICK t \in SUBSET Pages : t = PagesIn(wish, d)
    BY <2>1
  <2>3. PageOf(a) \in Nat /\ PageOf(wish) \in Nat /\ PageOf(end) \in Nat /\ PageOf(a) <= PageOf(wish)
    <3>1. AlignUp(a) = a /\ AlignUp(wish) = wish
      BY <1>2, <1>4, AlignIs
    <3> QED
      BY <1>4, <3>1, AlignOrder, WholeIs
  <2>4. \A p \in t : UsageNow[p] # {"unmapped"}
    <3>1. PagesIn(r.address, r.length) = PageOf(a) .. PageOf(end) - 1
      BY <1>2, <1>3, Zenon DEF PagesIn
    <3>2. \A p \in t : p \in Int
      BY <2>2 DEF Pages
    <3>3. \A p \in t : p \in PagesIn(r.address, r.length)
      BY <2>1, <2>2, <2>3, <3>1, <3>2
    <3> QED
      BY <1>5, <3>3, Zenon DEF OneUsage
  <2>5. ~UnmapRefused(wish, d)
    <3>1. t \subseteq Mapped
      BY <1>1, <2>4, MappedIs
    <3> QED
      BY <1>4, <2>1, <2>2, <3>1, Zenon DEF UnmapRefused
  <2>6. CallMemory' /\ UnmapsPages(t)
    <3>1. UnmapBytes(wish, d)
      BY <1>12, <2>1
    <3> QED
      BY <1>1, <1>4, <2>1, <2>2, <2>5, <3>1, UnmapEffect
  <2>7. Calls!Cleared(t)
    <3>1. Shows(UsageNow, ContentNow, UsageNow', ContentNow')
      BY <1>9, <1>12
    <3> QED
      BY <2>6, <3>1, CallsAre DEF UnmapsPages
  <2>8. wish <= end
    BY <1>12
  <2> QED
    BY <1>10, <1>12, <2>1, <2>2, <2>6, <2>7, <2>8
<1>13. CASE wish > end /\ MapBytes(end, wish - end, u) /\ IF Taken THEN Return(r, r.address) ELSE Fail(r, "eNoMemory")
  <2>1. PICK d \in Nat : d = wish - end /\ end + d <= PageCount * PageBytes /\ PagesIn(end, d) \in SUBSET Pages
    <3>1. end <= wish
      BY <1>13
    <3> QED
      BY <1>3, <1>4, <3>1, Between
  <2>2. PICK t \in SUBSET Pages : t = PagesIn(end, d)
    BY <2>1
  <2>3. CallMemory' /\ (~Taken => SameNow) /\ (Taken => MapsPages(t, u))
    <3>1. MapBytes(end, d, u)
      BY <1>13, <2>1
    <3> QED
      BY <1>1, <1>5, <2>1, <2>2, <3>1, MapEffect
  <2>4. CASE Taken
    <3>1. Return(r, r.address) /\ MapsPages(t, u)
      BY <1>13, <2>3, <2>4
    <3>2. Calls!Unused(t) /\ Calls!Mapped(t, u, {})
      BY <1>1, <1>9, <3>1, EmptyPages
    <3>3. Calls!Serve(r)
      BY <1>5, <1>8, <1>9, <1>13, <2>1, <2>2, <3>1, <3>2, RemapServes, Zenon
    <3> QED
      BY <1>7, <1>9, <2>3, <3>1, <3>3, Ends
  <2>5. CASE ~Taken
    <3>1. Fail(r, "eNoMemory") /\ SameNow
      BY <1>13, <2>3, <2>5
    <3> QED
      BY <1>8, <1>13, <2>3, <3>1, RemapRefused
  <2> QED
    BY <2>4, <2>5
<1> QED
  BY <1>6, <1>11, <1>12, <1>13

\* Elsewhere: the pages are mapped, and their content is to follow.
LEMMA RelocatedAgrees ==
    ASSUME CallInv, Waiting, NEW r \in Requests, r.op = "mremap", RemapValid(r), WithinSlot(r), "maymove" \in r.flags, brk' = brk,
           NEW u, u = UsageOf(PageOf(r.address)), Relocated(r, u)
    PROVE  Agrees
<1>1. Running /\ CallMemory /\ BreakInv /\ call = Idle /\ Seen.usage = UsageNow /\ Seen.content = ContentNow
  BY Begun
<1>2. /\ r.to \in Nat /\ r.dest \in Nat /\ r.dest + r.to <= Limit /\ Whole(r.address) /\ r.length > 0 /\ r.to > 0
  BY RequestIs DEF RemapValid
<1>3. /\ OneUsage(r, UsageNow) /\ u = UsageNow[PageOf(r.address)] /\ u \in SUBSET Rights
  BY <1>1, RemapOneIs
<1>4. BreakInv'
  BY <1>1, StillBreak
<1>5. PICK at : /\ at = IF "fixed" \in r.flags THEN {r.dest} ELSE Allocation(r.to)
                /\ \/ at = {} /\ Refuse(r, "eNoMemory")
                   \/ \E a \in at : MapBytes(a, r.to, u) /\ IF Taken THEN GoOn("copy", r, a) ELSE Fail(r, "eNoMemory")
  BY Zenon DEF Relocated
<1>6. ASSUME CallMemory', SameNow, Fail(r, "eNoMemory")
      PROVE  Agrees
  BY <1>6, RemapRefused
<1>7. CASE Refuse(r, "eNoMemory")
  <2>1. Fail(r, "eNoMemory") /\ UNCHANGED vars
    BY <1>7, Zenon DEF Refuse
  <2> QED
    BY <1>1, <1>6, <2>1, StillMemory
<1>8. CASE \E a \in at : MapBytes(a, r.to, u) /\ IF Taken THEN GoOn("copy", r, a) ELSE Fail(r, "eNoMemory")
  <2>1. PICK a \in at : MapBytes(a, r.to, u) /\ IF Taken THEN GoOn("copy", r, a) ELSE Fail(r, "eNoMemory")
    BY <1>8
  <2>2. PICK n \in Nat : n = r.to /\ n > 0
    BY <1>2
  <2>3. a \in Nat /\ a + n <= Limit /\ ("fixed" \in r.flags => a = r.dest)
    <3>1. CASE "fixed" \in r.flags
      BY <1>2, <1>5, <2>2, <3>1
    <3>2. CASE "fixed" \notin r.flags
      <4>1. PICK e : Sound(virt, phys, e)
        BY <1>1 DEF CallMemory, MemorySound
      <4>2. a \in Allocation(n)
        BY <1>5, <2>2, <3>2
      <4> QED
        BY <3>2, <4>1, <4>2, AllocationFits
    <3> QED
      BY <3>1, <3>2
  <2>4. /\ CallMemory' /\ (~Taken => SameNow)
        /\ Taken => Whole(a) /\ Whole(n) /\ MapsPages(PagesIn(a, n), u)
    <3>1. MapBytes(a, n, u)
      BY <2>1, <2>2
    <3> QED
      BY <1>1, <1>3, <2>3, <3>1, MapEffect DEF Limit
  <2>5. CASE ~Taken
    BY <1>6, <2>1, <2>4, <2>5
  <2>6. CASE Taken
    <3>1. PICK b : b = Seen /\ b.usage = UsageNow /\ b.content = ContentNow
      BY <1>1
    <3>2. /\ call' = [phase |-> "copy", request |-> r, at |-> a, before |-> b]
          /\ Seen' = Seen /\ answer' = answer
      BY <2>1, <2>6, <3>1, GoesOn
    <3>3. PICK t \in SUBSET Pages : t = PagesIn(a, n)
      <4>1. \A p \in PagesIn(a, n) : p \in Pages
        BY <2>3, <2>4, <2>6, PagesFit DEF Limit
      <4> QED
        BY <4>1
    <3>4. /\ \A p \in t : UsageNow[p] = {"unmapped"}
          /\ UsageNow' = [p \in Pages |-> IF p \in t THEN u ELSE UsageNow[p]]
          /\ ContentNow' = ContentNow
      BY <2>4, <2>6, <3>3, Zenon DEF MapsPages
    <3>5. \A p \in t : b.usage[p] = {"unmapped"} /\ b.content[p] = 0
      BY <1>1, <3>1, <3>4, FreeEmpty DEF CallMemory
    <3>6. IsView(b)
      BY <3>1, NowIs DEF IsView
    <3>7. UsageNow' = [p \in Pages |-> IF p \in PagesIn(a, r.to) THEN b.usage[PageOf(r.address)] ELSE b.usage[p]]
      BY <1>3, <2>2, <3>1, <3>3, <3>4
    <3>8. OneUsage(r, b.usage)
      BY <1>3, <3>1, Zenon
    <3>9. MoveTo(r, a, b)'
      BY <1>2, <2>2, <2>3, <2>4, <2>6, <3>3, <3>5, <3>7, <3>8, Zenon DEF MoveTo, Limit
    <3>10. ContentNow' = b.content
      BY <3>1, <3>4
    <3>11. CopyInv(r, a, b)'
      BY <3>9, <3>10, Zenon DEF CopyInv
    <3>12. CallInv'
      BY <1>4, <2>4, <3>2, <3>6, <3>11, StandsAt
    <3> QED
      BY <3>2, <3>12, Quiet
  <2> QED
    BY <2>5, <2>6
<1> QED
  BY <1>5, <1>7, <1>8

\* mremap.
LEMMA RemapCall ==
    ASSUME CallInv, Waiting, NEW r \in Requests, r.op = "mremap", Remap(r)
    PROVE  Agrees
<1>1. CallMemory
  BY Begun
<1>2. brk' = brk
  BY Zenon DEF Remap
<1>3. PICK u : u = UsageOf(PageOf(r.address))
  OBVIOUS
<1>4. \/ ~RemapValid(r) /\ Refuse(r, "eInvalid")
      \/ RemapValid(r) /\ ~WithinSlot(r) /\ Refuse(r, "eFault")
      \/ RemapValid(r) /\ WithinSlot(r) /\ r.flags \intersect {"fixed", "dontunmap"} # {} /\ "maymove" \notin r.flags
           /\ Refuse(r, "eInvalid")
      \/ RemapValid(r) /\ WithinSlot(r) /\ r.flags = {} /\ Resized(r, u)
      \/ RemapValid(r) /\ WithinSlot(r) /\ "maymove" \in r.flags /\ Relocated(r, u)
  BY <1>3, Zenon DEF Remap, RemapValid, WithinSlot
<1>5. ASSUME NEW e, Refuse(r, e)
      PROVE  CallMemory' /\ SameNow /\ Fail(r, e)
  <2>1. Fail(r, e) /\ UNCHANGED vars
    BY <1>5, Zenon DEF Refuse
  <2> QED
    BY <1>1, <2>1, StillMemory
<1>6. CASE ~RemapValid(r) /\ Refuse(r, "eInvalid")
  BY <1>2, <1>5, <1>6, RemapRefused
<1>7. CASE RemapValid(r) /\ ~WithinSlot(r) /\ Refuse(r, "eFault")
  BY <1>2, <1>5, <1>7, RemapRefused
<1>8. CASE RemapValid(r) /\ WithinSlot(r) /\ r.flags \intersect {"fixed", "dontunmap"} # {} /\ "maymove" \notin r.flags
             /\ Refuse(r, "eInvalid")
  <2>1. r.flags # {}
    BY <1>8
  <2> QED
    BY <1>2, <1>5, <1>8, <2>1, RemapRefused
<1>9. CASE RemapValid(r) /\ WithinSlot(r) /\ r.flags = {} /\ Resized(r, u)
  BY <1>2, <1>3, <1>9, ResizedAgrees
<1>10. CASE RemapValid(r) /\ WithinSlot(r) /\ "maymove" \in r.flags /\ Relocated(r, u)
  BY <1>2, <1>3, <1>10, RelocatedAgrees
<1> QED
  BY <1>4, <1>6, <1>7, <1>8, <1>9, <1>10

\* The pages that are copied are among those of both ranges.
LEMMA CopiedFits ==
    ASSUME NEW r \in Requests, NEW at, NEW b, MoveTo(r, at, b), NEW x, x = PageOf(at), NEW y, y = PageOf(r.address),
           NEW s, s = PagesIn(at, Copied(r)), NEW S, S = PagesIn(r.address, r.length), NEW D, D = PagesIn(at, r.to)
    PROVE  /\ x \in Nat /\ y \in Nat /\ s \subseteq D /\ D \in SUBSET Pages /\ S \in SUBSET Pages
           /\ \A p \in s : p - x + y \in S
           /\ Copied(r) = Calls!Least(r.length, r.to)
<1>1. /\ r.op = "mremap" /\ Whole(r.address) /\ r.length > 0 /\ r.to > 0 /\ at \in Nat /\ Whole(at) /\ at + r.to <= Limit
  BY Zenon DEF MoveTo
<1>2. PICK a \in Nat, n \in Nat, m \in Nat : /\ a = r.address /\ n = r.length /\ m = r.to
                                             /\ a + n <= PageCount * PageBytes /\ at + m <= PageCount * PageBytes /\ Whole(a)
  BY <1>1, RequestIs DEF Limit
<1>3. PICK c \in Nat : c = Copied(r) /\ c <= n /\ c <= m /\ c = Calls!Least(n, m)
  <2>1. PICK i \in Int, j \in Int : i = n /\ j = m
    OBVIOUS
  <2>2. Min({i, j}) \in {i, j} /\ Min({i, j}) <= i /\ Min({i, j}) <= j
    BY OfTwo
  <2>3. Copied(r) = Min({i, j})
    BY <1>2, <2>1 DEF Copied
  <2>4. Calls!Least(n, m) = Min({i, j})
    BY <2>1, <2>2 DEF Calls!Least
  <2> QED
    BY <2>1, <2>2, <2>3, <2>4
<1>4. /\ s = x .. x + PageOf(AlignUp(c)) - 1 /\ D = x .. x + PageOf(AlignUp(m)) - 1
      /\ S = y .. y + PageOf(AlignUp(n)) - 1
  BY <1>1, <1>2, <1>3, PagesAre
<1>5. /\ PageOf(AlignUp(c)) <= PageOf(AlignUp(n)) /\ PageOf(AlignUp(c)) <= PageOf(AlignUp(m))
      /\ PageOf(AlignUp(c)) \in Nat /\ PageOf(AlignUp(n)) \in Nat /\ PageOf(AlignUp(m)) \in Nat
  BY <1>3, AlignIs, AlignOrder
<1>6. x \in Nat /\ y \in Nat
  BY <1>1, <1>2, WholeIs
<1>7. D \in SUBSET Pages /\ S \in SUBSET Pages
  <2>1. (\A p \in D : p \in Pages) /\ (\A p \in S : p \in Pages)
    BY <1>1, <1>2, PagesFit
  <2> QED
    BY <2>1
<1>8. s \subseteq D /\ \A p \in s : p - x + y \in S
  <2>1. PICK i \in Nat, j \in Nat, k \in Nat : /\ i = PageOf(AlignUp(c)) /\ j = PageOf(AlignUp(m)) /\ k = PageOf(AlignUp(n))
                                               /\ i <= j /\ i <= k
    BY <1>5
  <2>2. PICK v \in Nat, w \in Nat : v = x /\ w = y
    BY <1>6
  <2>3. s = v .. v + i - 1 /\ D = v .. v + j - 1 /\ S = w .. w + k - 1
    BY <1>4, <2>1, <2>2
  <2>4. s \subseteq D
    BY <2>1, <2>3
  <2>5. ASSUME NEW p \in s
        PROVE  p - v + w \in S
    <3>1. PICK q \in Int : q = p /\ v <= q /\ q <= v + i - 1
      BY <2>3
    <3>2. q - v + w \in Int /\ w <= q - v + w /\ q - v + w <= w + k - 1
      BY <2>1, <3>1
    <3> QED
      BY <2>3, <3>1, <3>2
  <2> QED
    BY <2>2, <2>4, <2>5
<1> QED
  BY <1>2, <1>3, <1>6, <1>7, <1>8

\* The content moves.
LEMMA CopyAgrees ==
    ASSUME CallInv, Copy
    PROVE  Agrees
<1>1. In("copy")
  BY Zenon DEF Copy
<1>2. /\ Running /\ CallMemory /\ BreakInv /\ call # Idle /\ Seen = call.before /\ IsView(Seen)
      /\ call.request \in Requests /\ CopyInv(call.request, call.at, Seen)
  BY <1>1, StandsIn
<1>3a. PICK r \in Requests : r = call.request
  BY <1>2
<1>3b. PICK at, b : at = call.at /\ b = Seen
  OBVIOUS
<1>4. MoveTo(r, at, b) /\ ContentNow = b.content
  BY <1>2, <1>3a, <1>3b, Zenon DEF CopyInv
<1>5. PICK x, y, s, S, D : /\ x = PageOf(at) /\ y = PageOf(r.address) /\ s = PagesIn(at, Copied(r))
                           /\ S = PagesIn(r.address, r.length) /\ D = PagesIn(at, r.to)
  OBVIOUS
<1>6. /\ x \in Nat /\ y \in Nat /\ s \subseteq D /\ D \in SUBSET Pages /\ S \in SUBSET Pages
      /\ \A p \in s : p - x + y \in S
  BY <1>4, <1>5, CopiedFits
<1>7. /\ GoOn("release", r, at) /\ brk' = brk /\ virt' = virt /\ phys' = phys /\ fault' = fault
      /\ Copies(s, x, y)
  BY <1>3a, <1>3b, <1>5, Zenon DEF Copy, Copies, slotVars
<1>8. /\ call' = [phase |-> "release", request |-> r, at |-> at, before |-> b]
      /\ Seen' = Seen /\ answer' = answer
  BY <1>3a, <1>3b, <1>7, GoesOn
<1>9. OnlyData
  <2>1. DOMAIN data' = DOMAIN data
    BY <1>7 DEF Copies
  <2> QED
    BY <1>7, <2>1 DEF OnlyData
<1>10. CallMemory' /\ UsageNow' = UsageNow /\ BreakInv'
  BY <1>2, <1>7, <1>9, DataMemory, StillBreak
<1>11. /\ \A p \in S : b.usage[p] # {"unmapped"} /\ b.usage[p] = b.usage[y]
       /\ UsageNow = [p \in Pages |-> IF p \in D THEN b.usage[y] ELSE b.usage[p]]
       /\ \A p \in D : b.usage[p] = {"unmapped"}
  BY <1>4, <1>5, Zenon DEF MoveTo, OneUsage
<1>12. y \in S
  <2>1. /\ r.op = "mremap" /\ Whole(r.address) /\ r.length > 0
    BY <1>4, Zenon DEF MoveTo
  <2>2. PICK a \in Nat, n \in Nat : a = r.address /\ n = r.length /\ a + n <= PageCount * PageBytes
    BY <2>1, RequestIs DEF Limit
  <2>3. S = y .. y + PageOf(AlignUp(n)) - 1 /\ PageOf(AlignUp(n)) > 0 /\ PageOf(AlignUp(n)) \in Nat
    BY <1>5, <2>1, <2>2, PagesAre, PagesFit
  <2> QED
    BY <1>6, <2>3
<1>13. \A p \in D \union S : p \in Pages /\ UsageNow[p] # {"unmapped"}
  BY <1>6, <1>11, <1>12
<1>14. ContentNow' = [p \in Pages |-> IF p \in s THEN ContentNow[p - x + y] ELSE ContentNow[p]]
  <2>1. PICK v \in Nat, w \in Nat : v = x /\ w = y
    BY <1>6
  <2>2. \A p \in s : p \in Pages /\ UsageNow[p] # {"unmapped"}
    BY <1>6, <1>13
  <2>3. \A p \in s : p - v + w \in Pages /\ UsageNow[p - v + w] # {"unmapped"}
    BY <1>6, <1>13, <2>1
  <2>4. CallMemory /\ Copies(s, v, w) /\ virt' = virt
    BY <1>2, <1>7, <2>1
  <2>5. Copyable(s, v, w)
    BY <2>2, <2>3, Zenon DEF Copyable
  <2>6. HasCopied(s, v, w)
    BY <2>4, <2>5, CopyEffect
  <2> QED
    BY <2>1, <2>6, Zenon DEF HasCopied
<1>15. ReleaseInv(r, at, b)'
  <2>1. MoveTo(r, at, b)'
    BY <1>4, <1>10, Zenon DEF MoveTo, OneUsage, Limit
  <2>2. ContentNow' = [p \in Pages |-> IF p \in s THEN b.content[p - x + y] ELSE b.content[p]]
    BY <1>4, <1>14
  <2> QED
    BY <1>5, <2>1, <2>2, Zenon DEF ReleaseInv, Copied
<1>16. CallInv'
  BY <1>2, <1>3a, <1>3b, <1>8, <1>10, <1>15, StandsAt
<1> QED
  BY <1>7, <1>8, <1>16, Quiet

\* the pages were moved, and their content
Relocates(r, at, b) ==
    /\ UsageNow' = [p \in Pages |-> IF p \in PagesIn(at, r.to) THEN b.usage[PageOf(r.address)]
                                    ELSE IF p \in PagesIn(r.address, r.length) /\ ~("dontunmap" \in r.flags)
                                         THEN {"unmapped"} ELSE b.usage[p]]
    /\ ContentNow' = [p \in Pages |-> IF p \in PagesIn(at, Copied(r)) THEN b.content[p - PageOf(at) + PageOf(r.address)]
                                      ELSE IF p \in PagesIn(at, r.to) \union PagesIn(r.address, r.length) THEN 0
                                      ELSE b.content[p]]

\* What is moved is what the promise allows to be moved.
LEMMA MoveValid ==
    ASSUME NEW r \in Requests, NEW at, NEW b, MoveTo(r, at, b), b = Seen
    PROVE  /\ RemapValid(r) /\ RemapOne(r)
           /\ PageOf(at) \in Pages /\ at = PageOf(at) * PageBytes
           /\ "fixed" \in r.flags => PageOf(at) * PageBytes = r.dest
<1>1. /\ r.op = "mremap" /\ Whole(r.address) /\ r.length > 0 /\ r.to > 0
      /\ at \in Nat /\ Whole(at) /\ at + r.to <= Limit /\ ("fixed" \in r.flags => at = r.dest)
  BY Zenon DEF MoveTo
<1>2. RemapValid(r)
  BY <1>1, Zenon DEF RemapValid
<1>3. PICK S : S = PagesIn(r.address, r.length) /\ S \in SUBSET Pages
  BY <1>1, RangeFits
<1>4. RemapOne(r)
  <2>1. \A p \in S : b.usage[p] # {"unmapped"} /\ b.usage[p] = b.usage[PageOf(r.address)]
    BY <1>3, Zenon DEF MoveTo, OneUsage
  <2> QED
    BY <1>3, <2>1, Zenon DEF RemapOne, Calls!Used, Calls!Free
<1>5. PageOf(at) \in Nat /\ at = PageOf(at) * PageBytes
  BY <1>1, WholeIs
<1>6. PageOf(at) \in Pages
  <2>1. PICK m \in Nat : m = r.to /\ m > 0 /\ at + m <= PageCount * PageBytes
    BY <1>1, RequestIs DEF Limit
  <2>2. PICK x \in Nat, k \in Nat : x = PageOf(at) /\ k = PageOf(AlignUp(m)) /\ k > 0 /\ x + k <= PageCount
    BY <1>1, <2>1, PagesFit
  <2> QED
    BY <2>2, SizesAre DEF Pages
<1> QED
  BY <1>1, <1>2, <1>4, <1>5, <1>6

\* A move that was finished.
LEMMA MoveServes ==
    ASSUME CallMemory', BreakInv', brk' = brk, NEW r \in Requests, NEW at, NEW b, MoveTo(r, at, b), b = Seen,
           Return(r, at), Relocates(r, at, b)
    PROVE  Agrees
<1>1. call' = Idle /\ Replies(r, "none", at)
  BY Zenon DEF Return, Replies
<1>2. Calls!Answered(r, at) /\ answer'.request = r
  BY <1>1, AnswersAre
<1>3. /\ RemapValid(r) /\ RemapOne(r) /\ PageOf(at) \in Pages /\ at = PageOf(at) * PageBytes
      /\ "fixed" \in r.flags => PageOf(at) * PageBytes = r.dest
  BY MoveValid
<1>4. /\ r.op = "mremap" /\ "maymove" \in r.flags /\ Whole(r.to)
      /\ \A p \in PagesIn(at, r.to) : b.usage[p] = {"unmapped"}
  BY Zenon DEF MoveTo
<1>5. Shows(b.usage, b.content, UsageNow', ContentNow')
  BY <1>1, SeenNext, Zenon DEF Shows
<1>6. PICK c : c = Copied(r) /\ c = Calls!Least(r.length, r.to) /\ PagesIn(at, r.to) \in SUBSET Pages
  BY CopiedFits
<1>7. Calls!Unused(PagesIn(at, r.to))
  BY <1>4, <1>6, Zenon DEF Calls!Unused, Calls!Free, Calls!Pages, Pages
<1>8. RemapMoves(r, at)
  <2> DEFINE Left(k) == [p \in Pages |-> IF p \in PagesIn(at, k) THEN b.content[p - PageOf(at) + PageOf(r.address)]
                                         ELSE IF p \in PagesIn(at, r.to) \union PagesIn(r.address, r.length) THEN 0
                                         ELSE b.content[p]]
  <2>1. Seen'.content = Left(Copied(r))
    BY <1>5, Zenon DEF Relocates, Shows
  <2>2. Seen'.content = Left(Calls!Least(r.length, r.to))
    <3> HIDE DEF Left
    <3> QED
      BY <1>6, <2>1, Zenon
  <2>3. Seen'.usage = [p \in Pages |-> IF p \in PagesIn(at, r.to) THEN b.usage[PageOf(r.address)]
                                    ELSE IF p \in PagesIn(r.address, r.length) /\ ~("dontunmap" \in r.flags)
                                         THEN Calls!Free ELSE b.usage[p]]
    BY <1>5, Zenon DEF Relocates, Shows, Calls!Free
  <2>4. Seen = b
    OBVIOUS
  <2> QED
    BY <1>7, <2>2, <2>3, <2>4, Zenon DEF RemapMoves
<1>9. \E p \in Pages : /\ "fixed" \in r.flags => p * PageBytes = r.dest
                       /\ RemapMoves(r, p * PageBytes) /\ Calls!Answered(r, p * PageBytes)
  BY <1>2, <1>3, <1>8, Zenon
<1>10. Calls!Serve(r)
  BY <1>3, <1>4, <1>9, RemapServes, Zenon
<1> QED
  BY <1>1, <1>2, <1>10, Ends

\* What was moved is released, emptied, or found not to be releasable.
LEMMA ReleaseAgrees ==
    ASSUME CallInv, ReleaseSource
    PROVE  Agrees
<1>1. In("release") /\ brk' = brk
  BY Zenon DEF ReleaseSource
<1>2. /\ Running /\ CallMemory /\ BreakInv /\ call # Idle /\ Seen = call.before /\ IsView(Seen)
      /\ call.request \in Requests /\ ReleaseInv(call.request, call.at, Seen)
      /\ call = [phase |-> "release", request |-> call.request, at |-> call.at, before |-> Seen]
  BY <1>1, StandsIn
<1>3a. PICK r \in Requests : r = call.request
  BY <1>2
<1>3b. PICK at, b : at = call.at /\ b = Seen
  OBVIOUS
<1>4. MoveTo(r, at, b)
  BY <1>2, <1>3a, <1>3b, Zenon DEF ReleaseInv
<1>5. PICK x, y, s, S, D : /\ x = PageOf(at) /\ y = PageOf(r.address) /\ s = PagesIn(at, Copied(r))
                           /\ S = PagesIn(r.address, r.length) /\ D = PagesIn(at, r.to)
  OBVIOUS
<1>6. s \subseteq D /\ D \in SUBSET Pages /\ S \in SUBSET Pages
  BY <1>4, <1>5, CopiedFits
<1>7. ContentNow = [p \in Pages |-> IF p \in s THEN b.content[p - x + y] ELSE b.content[p]]
  BY <1>2, <1>3a, <1>3b, <1>5, Zenon DEF ReleaseInv
<1>8. /\ \A p \in S : b.usage[p] # {"unmapped"} /\ b.usage[p] = b.usage[y]
      /\ UsageNow = [p \in Pages |-> IF p \in D THEN b.usage[y] ELSE b.usage[p]]
      /\ \A p \in D : b.usage[p] = {"unmapped"} /\ b.content[p] = 0
  BY <1>4, <1>5, Zenon DEF MoveTo, OneUsage
<1>9. /\ r.op = "mremap" /\ Whole(r.address) /\ r.length > 0 /\ "maymove" \in r.flags /\ Whole(r.to)
  BY <1>4, Zenon DEF MoveTo
<1>10. PICK a \in Nat, n \in Nat : a = r.address /\ n = r.length /\ n > 0 /\ a + n <= PageCount * PageBytes
  BY <1>9, RequestIs DEF Limit
<1>11. \A p \in S : p \notin D /\ p \notin s /\ UsageNow[p] # {"unmapped"}
  BY <1>6, <1>8
<1>12. BreakInv'
  BY <1>1, <1>2, StillBreak
<1>13. PICK f : f = [p \in Pages |-> IF p \in s THEN b.content[p - x + y] ELSE IF p \in D \union S THEN 0 ELSE b.content[p]]
  OBVIOUS
<1>14. [p \in Pages |-> IF p \in S THEN 0 ELSE ContentNow[p]] = f
  <2>1. \A p \in Pages : (IF p \in S THEN 0 ELSE ContentNow[p])
                           = (IF p \in s THEN b.content[p - x + y] ELSE IF p \in D \union S THEN 0 ELSE b.content[p])
    BY <1>6, <1>7, <1>8, <1>11
  <2> QED
    BY <1>13, <2>1
<1>15. ASSUME ContentNow' = f,
              UsageNow' = [p \in Pages |-> IF p \in D THEN b.usage[y]
                                           ELSE IF p \in S /\ ~("dontunmap" \in r.flags) THEN {"unmapped"} ELSE b.usage[p]]
       PROVE  Relocates(r, at, b)
  BY <1>5, <1>13, <1>15, Zenon DEF Relocates
<1>16. CASE "dontunmap" \in r.flags
  <2>1. Fills(S, 0) /\ Return(r, at) /\ virt' = virt /\ phys' = phys /\ fault' = fault
    BY <1>3a, <1>3b, <1>5, <1>16, Zenon DEF ReleaseSource, Fills, slotVars
  <2>2. OnlyData
    <3>1. DOMAIN data' = DOMAIN data
      BY <2>1 DEF Fills
    <3> QED
      BY <2>1, <3>1 DEF OnlyData
  <2>3. CallMemory' /\ UsageNow' = UsageNow
    BY <1>2, <2>2, DataMemory
  <2>4. ContentNow' = f
    <3>1. \A p \in S : p \in Pages /\ UsageNow[p] # {"unmapped"}
      BY <1>6, <1>11
    <3>2. ContentNow' = [p \in Pages |-> IF p \in S THEN 0 ELSE ContentNow[p]]
      BY <1>2, <2>1, <3>1, FillEffect
    <3> QED
      BY <1>14, <3>2
  <2>5. UsageNow' = [p \in Pages |-> IF p \in D THEN b.usage[y]
                                     ELSE IF p \in S /\ ~("dontunmap" \in r.flags) THEN {"unmapped"} ELSE b.usage[p]]
    BY <1>8, <1>16, <2>3
  <2> QED
    BY <1>1, <1>3a, <1>3b, <1>4, <1>12, <1>15, <2>1, <2>3, <2>4, <2>5, MoveServes
<1>17. CASE "dontunmap" \notin r.flags
  <2>1. /\ UnmapBytes(a, n)
        /\ IF UnmapRefused(a, n) THEN Fatal(r) ELSE Return(r, at)
    BY <1>3a, <1>3b, <1>10, <1>17, Zenon DEF ReleaseSource
  <2>2. /\ CallMemory'
        /\ ~UnmapRefused(a, n) => UnmapsPages(S)
    BY <1>2, <1>5, <1>10, <2>1, UnmapEffect
  <2>3. CASE ~UnmapRefused(a, n)
    <3>1. /\ UsageNow' = [p \in Pages |-> IF p \in S THEN {"unmapped"} ELSE UsageNow[p]]
          /\ ContentNow' = [p \in Pages |-> IF p \in S THEN 0 ELSE ContentNow[p]]
      BY <2>2, <2>3, Zenon DEF UnmapsPages
    <3>2. UsageNow' = [p \in Pages |-> IF p \in D THEN b.usage[y]
                                       ELSE IF p \in S /\ ~("dontunmap" \in r.flags) THEN {"unmapped"} ELSE b.usage[p]]
      BY <1>8, <1>11, <1>17, <3>1
    <3>3. ContentNow' = f
      BY <1>14, <3>1
    <3>4. Return(r, at)
      BY <2>1, <2>3
    <3> QED
      BY <1>1, <1>3a, <1>3b, <1>4, <1>12, <1>15, <2>2, <3>2, <3>3, <3>4, MoveServes
  <2>4. CASE UnmapRefused(a, n)
    <3>1. ~Whole(n)
      <4>1. S \subseteq Mapped
        BY <1>2, <1>6, <1>11, MappedIs
      <4> QED
        BY <1>5, <1>9, <1>10, <2>4, <4>1, Zenon DEF UnmapRefused
    <3>2. call' = [call EXCEPT !.phase = "ended"] /\ Replies(r, "fatal", 0)
      BY <2>1, <2>4, Zenon DEF Fatal, Replies
    <3>3. call' = [phase |-> "ended", request |-> r, at |-> at, before |-> b]
      <4>1. call = [phase |-> "release", request |-> r, at |-> at, before |-> b]
        BY <1>2, <1>3a, <1>3b
      <4> QED
        BY <3>2, <4>1
    <3>4. call' # Idle /\ call'.before = b /\ call'.phase = "ended"
      BY <3>3 DEF Idle
    <3>5. CallInv'
      BY <1>12, <2>2, <3>4 DEF CallInv, PhaseInv
    <3>6. Shows(b.usage, b.content, b.usage, b.content)
      BY <1>3a, <1>3b, <3>4, SeenNext, Zenon DEF Shows
    <3>7. Calls!Same
      BY <3>6, CallsAre
    <3>8. Calls!Failed(r, "fatal") /\ answer'.request = r
      BY <3>2, AnswersAre
    <3>9. RemapValid(r) /\ RemapOne(r)
      BY <1>3a, <1>3b, <1>4, MoveValid
    <3>10. Calls!Serve(r)
      BY <1>1, <1>9, <1>10, <1>17, <3>1, <3>7, <3>8, <3>9, RemapServes, Zenon
    <3> QED
      BY <3>5, <3>8, <3>10, Served
  <2> QED
    BY <2>3, <2>4
<1> QED
  BY <1>16, <1>17

-----------------------------------------------------------------------------
(* Steps between the calls, and the start. *)

\* What a call relies on stays as it is.
LEMMA StillPhase ==
    ASSUME PhaseInv, call' = call, SameNow
    PROVE  PhaseInv'
<1>1. UsageNow' = UsageNow /\ ContentNow' = ContentNow
  BY Zenon DEF SameNow
<1>2. ASSUME NEW r, NEW at, NEW b, ClearInv(r, at, b)
      PROVE  ClearInv(r, at, b)'
  BY <1>1, <1>2, Zenon DEF ClearInv
<1>3. ASSUME NEW r, NEW at, NEW b, FileAt(r, at, b)
      PROVE  FileAt(r, at, b)'
  BY <1>1, <1>3, Zenon DEF FileAt, Limit
<1>4. ASSUME NEW r, NEW at, NEW b, ReadInv(r, at, b)
      PROVE  ReadInv(r, at, b)'
  BY <1>1, <1>3, <1>4, Zenon DEF ReadInv
<1>5. ASSUME NEW r, NEW at, NEW rest, NEW b, LockInv(r, at, rest, b)
      PROVE  LockInv(r, at, rest, b)'
  BY <1>1, <1>3, <1>5, Zenon DEF LockInv, FileRead
<1>6. ASSUME NEW r, NEW at, NEW b, MoveTo(r, at, b)
      PROVE  MoveTo(r, at, b)'
  BY <1>1, <1>6, Zenon DEF MoveTo, OneUsage, Limit
<1>7. ASSUME NEW r, NEW at, NEW b, CopyInv(r, at, b)
      PROVE  CopyInv(r, at, b)'
  BY <1>1, <1>6, <1>7, Zenon DEF CopyInv
<1>8. ASSUME NEW r, NEW at, NEW b, ReleaseInv(r, at, b)
      PROVE  ReleaseInv(r, at, b)'
  BY <1>1, <1>6, <1>8, Zenon DEF ReleaseInv, Copied
<1>9. \A phase : Stands(phase) => Stands(phase)'
  BY Zenon DEF Stands, IsView
<1> QED
  BY <1>2, <1>4, <1>5, <1>7, <1>8, <1>9, Zenon DEF PhaseInv, Idle, IsView

\* A step that leaves the memory and the call alone.
LEMMA StillAgrees ==
    ASSUME CallInv, CallMemory', virt' = virt, data' = data, UNCHANGED <<brk, call, answer>>
    PROVE  Agrees
<1>1. CallMemory /\ BreakInv /\ PhaseInv
  BY DEF CallInv
<1>2. SameNow
  BY SameIf
<1>3. CallInv'
  <2>1. PhaseInv'
    BY <1>1, <1>2, StillPhase, Zenon
  <2>2. BreakInv'
    BY <1>1, StillBreak, Zenon
  <2> QED
    BY <2>1, <2>2 DEF CallInv
<1>4. Seen' = Seen
  BY DEF Seen, Held, Mapped, UsageOf, Translate, Idle
<1> QED
  BY <1>3, <1>4, Quiet, Zenon

\* Code that changed is dealt with, the application has ended, or nothing happens.
LEMMA ResumeAgrees ==
    ASSUME CallInv, Resume \/ Ended \/ UNCHANGED callVars
    PROVE  Agrees
<1>1. CallMemory
  BY DEF CallInv
<1>2. CASE Resume
  <2>1. virt' = virt /\ phys' = phys /\ data' = data /\ UNCHANGED <<brk, call, answer>> /\ FlushCaches
    BY <1>2, Zenon DEF Resume, CheckXInvalidated, Dirty, slotVars
  <2>2. MemorySound' <=> MemorySound
    BY <2>1 DEF MemorySound
  <2>3. CallMemory'
    BY <1>1, <2>1, <2>2, FlushedJoined DEF CallMemory
  <2> QED
    BY <2>1, <2>3, StillAgrees
<1>3. CASE Ended \/ UNCHANGED callVars
  <2>1. UNCHANGED vars /\ UNCHANGED <<brk, call, answer>>
    BY <1>3, Zenon DEF Ended, callVars
  <2>2. virt' = virt /\ data' = data
    BY <2>1, Zenon DEF vars, slotVars
  <2>3. CallMemory'
    BY <1>1, <2>1, StillMemory
  <2> QED
    BY <2>1, <2>2, <2>3, StillAgrees
<1> QED
  BY <1>2, <1>3

\* The program at the start.
LEMMA StartIs ==
    ASSUME Start
    PROVE  \E first \in Nat, n \in Nat :
             /\ n > 0 /\ n < InitPages /\ first + n <= PageCount
             /\ \A p \in Pages : p \in Program <=> first <= p /\ p < first + n
             /\ DOMAIN virt = {first} /\ IsMap(virt)
             /\ virt[first] = [physical |-> 0, size |-> n, usage |-> ProgramUsage]
             /\ DOMAIN phys = {0, n} /\ IsMap(phys)
             /\ phys[0] = [size |-> n, users |-> 1] /\ phys[n] = [size |-> InitPages - n, users |-> 0]
             /\ data = [q \in 0 .. InitPages - 1 |-> IF q < n THEN 1 ELSE 0]
<1>1. PICK first \in Pages, last \in Pages : first <= last /\ Program = first .. last /\ last - first + 1 < InitPages
  BY CallsAssumption
<1>2. PICK f \in Nat, l \in Nat : f = first /\ l = last /\ l < PageCount /\ f <= l
  BY <1>1, SizesAre DEF Pages
<1>3. PICK n \in Nat : n = l - f + 1 /\ n > 0 /\ n < InitPages /\ f + n <= PageCount
  BY <1>1, <1>2, SizesAre
<1>4. Cardinality(Program) = n
  <2>1. f \in Int /\ l \in Int /\ ~(f > l)
    BY <1>2
  <2>2. Cardinality(f .. l) = l - f + 1
    BY <2>1, FS_Interval
  <2> QED
    BY <1>1, <1>2, <1>3, <2>2
<1>5. Min(Program) = f
  <2>1. f .. l \in SUBSET Int /\ f \in f .. l /\ \A y \in f .. l : f <= y
    BY <1>2
  <2>2. Min(f .. l) = f
    BY <2>1, MinIs
  <2> QED
    BY <1>1, <1>2, <2>2
<1>6. /\ virt = [k \in {f} |-> [physical |-> 0, size |-> n, usage |-> ProgramUsage]]
      /\ phys = [k \in {0, n} |-> IF k = 0 THEN [size |-> n, users |-> 1] ELSE [size |-> InitPages - n, users |-> 0]]
      /\ data = [q \in 0 .. InitPages - 1 |-> IF q < n THEN 1 ELSE 0]
  BY <1>4, <1>5, Zenon DEF Start
<1>7. \A p \in Pages : p \in Program <=> f <= p /\ p < f + n
  BY <1>1, <1>2, <1>3 DEF Pages
<1>8. DOMAIN virt = {f} /\ IsMap(virt) /\ virt[f] = [physical |-> 0, size |-> n, usage |-> ProgramUsage]
  BY <1>6 DEF IsMap
<1>9. /\ DOMAIN phys = {0, n} /\ IsMap(phys)
      /\ phys[0] = [size |-> n, users |-> 1] /\ phys[n] = [size |-> InitPages - n, users |-> 0]
  BY <1>3, <1>6 DEF IsMap
<1> QED
  BY <1>3, <1>6, <1>7, <1>8, <1>9

\* It is sound, and what the promise begins with.
LEMMA StartAgrees ==
    ASSUME Start
    PROVE  CallInv /\ Calls!Begin
<1>1. PICK f \in Nat, n \in Nat :
             /\ n > 0 /\ n < InitPages /\ f + n <= PageCount
             /\ \A p \in Pages : p \in Program <=> f <= p /\ p < f + n
             /\ DOMAIN virt = {f} /\ IsMap(virt)
             /\ virt[f] = [physical |-> 0, size |-> n, usage |-> ProgramUsage]
             /\ DOMAIN phys = {0, n} /\ IsMap(phys)
             /\ phys[0] = [size |-> n, users |-> 1] /\ phys[n] = [size |-> InitPages - n, users |-> 0]
             /\ data = [q \in 0 .. InitPages - 1 |-> IF q < n THEN 1 ELSE 0]
  BY StartIs
<1>2. InitPages \in Nat /\ ProgramUsage \in SUBSET Rights
  BY MemoryAssumption, CallsAssumption DEF Rights
<1>3. EndOf(virt, f) = f + n /\ EndOf(phys, 0) = n /\ EndOf(phys, n) = InitPages /\ PhysEnd(virt[f]) = n
  BY <1>1, <1>2 DEF EndOf, PhysEnd
<1>4. Laid(virt)
  <2>1. Ordered(virt)
    BY <1>1 DEF Ordered
  <2>2. virt[f] \in [physical : Nat, size : Nat, usage : SUBSET Rights]
    BY <1>1, <1>2
  <2> QED
    BY <1>1, <1>3, <2>1, <2>2 DEF Laid
<1>5. TiledTo(phys, InitPages)
  <2>1. /\ phys[0] \in [size : Nat \ {0}, users : {0, 1}]
        /\ phys[n] \in [size : Nat \ {0}, users : {0, 1}]
    <3>1. InitPages - n \in Nat \ {0} /\ n \in Nat \ {0}
      BY <1>1, <1>2
    <3> QED
      BY <1>1, <3>1
  <2>2. \A k \in DOMAIN phys : k = 0 \/ k = n
    BY <1>1
  <2>3. \A j, k \in DOMAIN phys : j < k => EndOf(phys, j) <= k
    BY <1>1, <1>3, <2>2
  <2>4. \A k \in DOMAIN phys :
        /\ k \in Nat /\ k < InitPages
        /\ phys[k] \in [size : Nat \ {0}, users : {0, 1}]
        /\ EndOf(phys, k) = InitPages \/ EndOf(phys, k) \in DOMAIN phys
    BY <1>1, <1>2, <1>3, <2>1, <2>2
  <2> QED
    BY <1>1, <1>2, <2>3, <2>4 DEF TiledTo
<1>6. Backing(virt, phys)
  <2>1. LiesIn(phys, virt[f].physical, PhysEnd(virt[f]), 1)
    BY <1>1, <1>3 DEF LiesIn
  <2>2. \A j, k \in DOMAIN virt : j = k /\ EndOf(virt, j) # k
    BY <1>1, <1>3
  <2> QED
    BY <1>1, <2>1, <2>2 DEF Backing
<1>7. Sound(virt, phys, InitPages) /\ Sized(data, InitPages)
  BY <1>1, <1>2, <1>4, <1>5, <1>6 DEF Sound, Sized
<1>8. MemorySound
  BY <1>2, <1>7 DEF MemorySound
<1>9. Joined(virt)
  BY <1>1, <1>3 DEF Joined
<1>10. \A p \in Pages : p \in Int
  BY DEF Pages
<1>11. \A p \in Pages : Holds(virt, p) <=> p \in Program
  BY <1>1, <1>3, <1>10, HoldsIs
<1>12. \A p \in Pages : p \in Program => SlotAt(virt, p) = f
  <2>1. ASSUME NEW p \in Pages, p \in Program
        PROVE  SlotAt(virt, p) = f
    <3>1. p \in Int /\ f \in DOMAIN virt /\ f <= p /\ p < EndOf(virt, f)
      BY <1>1, <1>3, <1>10, <2>1
    <3> QED
      BY <1>4, <3>1, SlotAtIs DEF Laid
  <2> QED
    BY <2>1
<1>13. UsageNow = [p \in Pages |-> IF p \in Program THEN ProgramUsage ELSE {"unmapped"}]
  BY <1>1, <1>11, <1>12 DEF UsageNow, UsageIn
<1>14. ContentNow = [p \in Pages |-> IF p \in Program THEN 1 ELSE 0]
  <2>1. \A p \in Pages : p \in Program => data[PlaceIn(virt, p)] = 1
    <3>1. ASSUME NEW p \in Pages, p \in Program
          PROVE  data[PlaceIn(virt, p)] = 1
      <4>1. PlaceIn(virt, p) = 0 + (p - f)
        BY <1>1, <1>12, <3>1 DEF PlaceIn
      <4>2. p - f \in 0 .. InitPages - 1 /\ p - f < n /\ PlaceIn(virt, p) = p - f
        BY <1>1, <1>2, <1>10, <3>1, <4>1
      <4> QED
        BY <1>1, <4>2
    <3> QED
      BY <3>1
  <2> QED
    BY <1>11, <2>1 DEF ContentNow
<1>15. call = Idle /\ brk = [current |-> BreakStart, aligned |-> BreakStart]
       /\ answer = [request |-> [op |-> "none"], error |-> "none", value |-> 0]
  BY Zenon DEF Start
<1>16. Seen.usage = UsageNow /\ Seen.content = ContentNow
  BY <1>15, SeenIs
<1>17. Calls!Begin
  BY <1>13, <1>14, <1>15, <1>16, Zenon DEF Calls!Begin, Calls!Free, Calls!Pages, Pages
<1>18. BreakInv
  <2>1. brk.aligned = BreakStart
    BY <1>15
  <2> QED
    BY <2>1, CallsAssumption DEF BreakInv, Whole, Limit
<1> QED
  BY <1>8, <1>9, <1>15, <1>17, <1>18 DEF CallInv, CallMemory, PhaseInv

\* Every step of a call keeps the invariant, and is one that the promise allows or one that is not seen.
LEMMA StepAgrees ==
    ASSUME CallInv, [Step]_callVars
    PROVE  Agrees
<1>1. CASE \E r \in Requests : Request(r)
  <2>1. PICK r \in Requests : Request(r)
    BY <1>1
  <2>2. /\ Waiting
        /\ \/ r.op = "brk" /\ Brk(r)
           \/ r.op = "mmap" /\ Mmap(r)
           \/ r.op = "mprotect" /\ ProtectCall(r)
           \/ r.op = "munmap" /\ UnmapCall(r)
           \/ r.op = "mremap" /\ Remap(r)
    BY <2>1, Zenon DEF Request
  <2> QED
    BY <2>2, BrkCall, MmapCall, RangeCall, RemapCall
<1>2. CASE CheckRange
  BY <1>2, CheckRangeAgrees
<1>3. CASE ReadFile
  BY <1>3, ReadFileAgrees
<1>4. CASE LockRest
  BY <1>4, LockRestAgrees
<1>5. CASE Copy
  BY <1>5, CopyAgrees
<1>6. CASE ReleaseSource
  BY <1>6, ReleaseAgrees
<1>7. CASE Resume \/ Ended \/ UNCHANGED callVars
  BY <1>7, ResumeAgrees
<1> QED
  BY <1>1, <1>2, <1>3, <1>4, <1>5, <1>6, <1>7, Zenon DEF Step

-----------------------------------------------------------------------------
(* What holds of the calls, for all of their requests. *)

\* The memory stays sound, its slots joined, the break at an end of pages, and a call that stands
\* somewhere has done to the pages what it is to have done so far, and nothing else.
THEOREM CallsSound == CallsSpec => []CallInv
<1>1. Start => CallInv
  BY StartAgrees
<1>2. CallInv /\ [Step]_callVars => CallInv'
  BY StepAgrees DEF Agrees
<1> QED
  BY <1>1, <1>2, PTL DEF CallsSpec

\* Whatever the guest asks for, and whichever operation of a call fails, every page that is mapped has
\* a page of the WebAssembly memory of its own (sys::detail::MemoryInteract over env::Memory).
THEOREM CallsBacked == CallsSpec => []PagesBacked
<1>1. CallInv => PagesBacked
  BY SoundPages DEF CallInv, CallMemory
<1> QED
  BY <1>1, CallsSound, PTL

\* And pages next to each other are next to each other in physical memory.
THEOREM CallsContiguous == CallsSpec => []NeighborsContiguous
<1>1. CallInv => NeighborsContiguous
  BY SoundPages DEF CallInv, CallMemory
<1> QED
  BY <1>1, CallsSound, PTL

\* Every call does to the pages of the guest, as one step, what the promise allows, and answers
\* accordingly: however many operations it is made of, and whichever of them fails.
THEOREM CallsImplementMappings == CallsSpec => ImplementsMappings
<1>1. Start => Calls!Begin
  BY StartAgrees
<1>2. CallInv /\ [Step]_callVars => [Calls!Called]_Calls!mappingVars
  BY StepAgrees DEF Agrees
<1> QED
  BY <1>1, <1>2, CallsSound, PTL DEF CallsSpec, ImplementsMappings, Calls!Promise
=============================================================================
