----------------------------- MODULE MemoryCalls -----------------------------
(***************************************************************************)
(* The memory calls of the guest (sys::detail::MemoryInteract) on top of   *)
(* its memory: each is a sequence of operations of env::Memory, any of     *)
(* which may fail, and the guest waits for its end.                        *)
(*                                                                         *)
(* Addresses and lengths are in bytes, PageBytes to a page; the content of *)
(* a page stands for its first byte, so copying or clearing a range that   *)
(* begins with a page reaches the content of each page of it.              *)
(***************************************************************************)
EXTENDS Memory

CONSTANTS
    PageBytes,          \* pPageSize
    Program,            \* the pages the program was loaded to, all of one usage,
    ProgramUsage,       \* which is this one
    BreakStart,         \* the end of its data
    StartOfAllocations, EndOfAllocations, SpacingBetweenAllocations,
    Requests            \* the calls the guest makes

ASSUME CallsAssumption ==
    /\ PageBytes \in Nat \ {0}
    /\ \E first, last \in Pages : first <= last /\ Program = first .. last /\ last - first + 1 < InitPages
    /\ {ProgramUsage, {"read", "write"}, {"lock"}} \subseteq Usages
    /\ BreakStart \in Nat /\ BreakStart % PageBytes = 0 /\ BreakStart <= PageCount * PageBytes

\* the addresses that memory is allocated at are far from the end of all
ASSUME AllocationsAssumption ==
    /\ StartOfAllocations \in Nat /\ EndOfAllocations \in Nat /\ SpacingBetweenAllocations \in Nat
    /\ StartOfAllocations <= EndOfAllocations
    /\ LET width == EndOfAllocations - StartOfAllocations
       IN  StartOfAllocations + width \div 2 + width <= PageCount * PageBytes

\* n bytes from an address on are addresses
Addresses(a, n) == a \in Nat /\ n \in Nat /\ a + n <= PageCount * PageBytes

\* what the guest passes; lengths that wrap around are left out
ASSUME RequestsAssumption ==
    \A r \in Requests :
        \/ r.op = "brk" /\ Addresses(r.address, 0)
        \/ r.op = "mmap" /\ Addresses(r.address, r.length) /\ r.usage \in Usages /\ r.file \in Nat
             /\ r.how \in {"any", "fixed", "noreplace"} /\ r.from \in {"anonymous", "file", "refused"}
        \/ r.op = "mprotect" /\ Addresses(r.address, r.length) /\ r.usage \in Usages
        \/ r.op = "munmap" /\ Addresses(r.address, r.length)
        \/ r.op = "mremap" /\ Addresses(r.address, r.length) /\ Addresses(r.address, r.to) /\ Addresses(r.dest, r.to)

VARIABLES
    brk,        \* pBrk: `current' and `aligned'; `init' is BreakStart
    call,       \* where the current call stands, with the memory it found; idle while the guest runs
    answer      \* the last call and what it answered

callVars   == <<vars, brk, call, answer>>

Whole(a) == a % PageBytes = 0
PageOf(a) == a \div PageBytes
AlignUp(a) == ((a + PageBytes - 1) \div PageBytes) * PageBytes
PagesIn(a, n) == PageOf(a) .. PageOf(AlignUp(a + n)) - 1

Idle == [phase |-> "idle"]
Held == [usage   |-> [p \in Pages |-> IF p \in Mapped THEN UsageOf(p) ELSE {"unmapped"}],
           content |-> [p \in Pages |-> IF p \in Mapped THEN data[Translate(p)] ELSE 0]]

\* the program was loaded by one mmap, and its pages hold something
Start ==
    LET first == Min(Program) n == Cardinality(Program) IN
    /\ virt = [k \in {first} |-> [physical |-> 0, size |-> n, usage |-> ProgramUsage]]
    /\ phys = [k \in {0, n} |-> IF k = 0 THEN [size |-> n, users |-> 1] ELSE [size |-> InitPages - n, users |-> 0]]
    /\ data = [q \in 0 .. InitPages - 1 |-> IF q < n THEN 1 ELSE 0]
    /\ caches = NoCaches /\ fast = NoFast
    /\ xInvalid = FALSE /\ translated = Nothing /\ fault = "none"
    /\ brk = [current |-> BreakStart, aligned |-> BreakStart]
    /\ call = Idle /\ answer = [request |-> [op |-> "none"], error |-> "none", value |-> 0]

-----------------------------------------------------------------------------
(* The operations of env::Memory, with what they refuse. *)

UnmapRefused(a, n) == ~Whole(a) \/ ~Whole(n) \/ ~(PagesIn(a, n) \subseteq Mapped)
MapRefused(a, n) ==
    ~Whole(a) \/ ~Whole(n) \/ n = 0 \/ PagesIn(a, n) \intersect Mapped # {}

MapBytes(a, n, u) ==
    IF MapRefused(a, n) THEN UNCHANGED vars ELSE MMap(PageOf(a), PageOf(n), u)
UnmapBytes(a, n) ==
    IF UnmapRefused(a, n) THEN UNCHANGED vars ELSE Munmap(PageOf(a), PageOf(n))
ProtectBytes(a, n, u) ==
    IF UnmapRefused(a, n) THEN UNCHANGED vars ELSE Mprotect(PageOf(a), PageOf(n), u)

\* whether the memory could be mapped
Taken == virt' # virt

\* findNext: the slot that holds a page, or else the one after it.  Below the first slot, the step
\* back is left out but the step to the next one is made.
FindNext(p) ==
    LET last == IF Before(virt, p) # {} THEN PrevOf(virt, p) ELSE Min(DOMAIN virt)
    IN  IF Holds(virt, p) THEN {SlotAt(virt, p)}
        ELSE IF virt = Nothing \/ After(virt, last) = {} THEN {}
        ELSE {NextOf(virt, last)}

\* alloc: behind everything, at the start, or in the middle of the largest gap
Last == IF virt = Nothing THEN 0 ELSE VirtEnd(LastOf(virt)) * PageBytes

Gaps ==
    LET starts == {StartOfAllocations} \union {VirtEnd(k) * PageBytes : k \in DOMAIN virt}
        ends   == {EndOfAllocations} \union {k * PageBytes : k \in DOMAIN virt}
        free(s, e) == \A k \in DOMAIN virt : VirtEnd(k) * PageBytes <= s \/ e <= k * PageBytes
    IN  {g \in starts \X ends : /\ StartOfAllocations <= g[1] /\ g[1] < g[2] /\ g[2] <= EndOfAllocations
                                /\ free(g[1], g[2])}

LargestGap ==
    LET width(g) == g[2] - g[1]
        widest == {g \in Gaps : \A h \in Gaps : width(h) <= width(g)}
    IN  CHOOSE g \in widest : \A h \in widest : g[1] <= h[1]

Behind(n) ==
    LET required == Last + 2 * SpacingBetweenAllocations IN
    required < EndOfAllocations /\ EndOfAllocations - required >= n

\* where n bytes are put, nothing if there is no room
Allocation(n) ==
    LET width == LargestGap[2] - LargestGap[1]
        Down(a) == {(a \div PageBytes) * PageBytes}
    IN  CASE n > EndOfAllocations - StartOfAllocations -> {}
          [] OTHER ->
             IF Last = 0 \/ Last <= StartOfAllocations - SpacingBetweenAllocations THEN Down(StartOfAllocations)
             ELSE IF Behind(n) THEN Down(Last + SpacingBetweenAllocations)
             ELSE IF Last <= StartOfAllocations
                  THEN Down(StartOfAllocations + (EndOfAllocations - StartOfAllocations) \div 2)
             ELSE IF Gaps = {} \/ width < n THEN {}
             ELSE Down(LargestGap[1] + (width - n) \div 2)

-----------------------------------------------------------------------------
(* Calls: how they begin, go on, and end. *)

Waiting == Running /\ call = Idle
In(phase) == Running /\ call.phase = phase

Return(r, v) ==
    /\ call' = Idle
    /\ answer' = [request |-> r, error |-> "none", value |-> v]

Fail(r, e) ==
    /\ call' = Idle
    /\ answer' = [request |-> r, error |-> e, value |-> 0]

GoOn(phase, r, at) ==
    /\ call' = [phase |-> phase, request |-> r, at |-> at,
                before |-> IF call = Idle THEN Held ELSE call.before]
    /\ UNCHANGED answer

Fatal(r) ==
    /\ call' = [call EXCEPT !.phase = "ended"]
    /\ answer' = [request |-> r, error |-> "fatal", value |-> 0]

Refuse(r, e) == Fail(r, e) /\ UNCHANGED vars

-----------------------------------------------------------------------------
(* brk *)

BrkGrow(r, end) ==
    /\ end > brk.aligned
    /\ MapBytes(brk.aligned, end - brk.aligned, {"read", "write"})
    /\ IF Taken THEN brk' = [current |-> r.address, aligned |-> end] /\ Return(r, r.address)
                ELSE UNCHANGED brk /\ Return(r, brk.current)

\* Mutant: the end of the pages of the break is not lowered with them
BrkShrinkForgets(r, end) ==
    /\ end <= brk.aligned
    /\ IF end = brk.aligned THEN UNCHANGED vars ELSE UnmapBytes(end, brk.aligned - end)
    /\ brk' = [current |-> r.address, aligned |-> brk.aligned]
    /\ Return(r, r.address)

BrkShrink(r, end) ==
    /\ end <= brk.aligned
    /\ IF end = brk.aligned THEN UNCHANGED vars ELSE UnmapBytes(end, brk.aligned - end)
    /\ brk' = [current |-> r.address,
               aligned |-> IF UnmapRefused(end, brk.aligned - end) THEN brk.aligned ELSE end]
    /\ Return(r, r.address)

Brk(r) ==
    \/ r.address < BreakStart /\ Return(r, brk.current) /\ UNCHANGED <<vars, brk>>
    \/ /\ r.address >= BreakStart
       /\ BrkGrow(r, AlignUp(r.address)) \/ BrkShrink(r, AlignUp(r.address))

-----------------------------------------------------------------------------
(* mmap: fMapRange, then the content of a file. *)

Placed(r, at) == IF r.from = "anonymous" THEN Return(r, at) ELSE GoOn("read", r, at)

MapAt(r, at) ==
    /\ MapBytes(at, AlignUp(r.length), r.usage)
    /\ IF Taken THEN Placed(r, at) ELSE Fail(r, "eNoMemory")

MapAnywhere(r) ==
    LET at == Allocation(AlignUp(r.length)) IN
    \/ at = {} /\ Refuse(r, "eNoMemory")
    \/ \E a \in at : MapAt(r, a)

Mmap(r) ==
    /\ UNCHANGED brk
    /\ \/ (~Whole(r.address) \/ r.length = 0) /\ Refuse(r, "eInvalid")
       \/ /\ Whole(r.address) /\ r.length > 0
          /\ \/ r.from = "refused" /\ Refuse(r, "eAccess")
             \/ r.from # "refused" /\ r.how = "any" /\ MapAnywhere(r)
             \/ r.from # "refused" /\ r.how # "any" /\ GoOn("clear", r, PageOf(r.address)) /\ UNCHANGED vars

\* fCheckRange, one mapping at a time, and then the mapping itself
CheckRange ==
    LET r == call.request
        end == PageOf(r.address + AlignUp(r.length))
        found == {k \in FindNext(call.at) : call.at < end /\ k < end}
    IN  /\ In("clear") /\ UNCHANGED brk
        /\ \/ found = {} /\ MapAt(r, r.address)
           \/ found # {} /\ r.how = "noreplace" /\ Refuse(r, "eExists")
           \/ /\ r.how = "fixed"
              /\ \E k \in found :
                    LET from == Max({k, PageOf(r.address)}) IN
                    /\ Munmap(from, Min({VirtEnd(k), end}) - from)
                    /\ GoOn("clear", r, VirtEnd(k))

\* the file is read, whose size may have changed, and what it does not fill is locked
ReadFile ==
    LET r == call.request IN
    /\ In("read")
    /\ \E size \in 0 .. Min({r.length, r.file}) :
        LET rest == AlignUp(r.length) - AlignUp(size) IN
        /\ data' = [q \in DOMAIN data |-> IF \E p \in PagesIn(call.at, size) : Translate(p) = q
                                          THEN 1 ELSE data[q]]
        /\ IF rest = 0 THEN Return(r, call.at)
           ELSE /\ call' = [phase |-> "lock", request |-> r, at |-> call.at, before |-> call.before, rest |-> rest]
                /\ UNCHANGED answer
    /\ UNCHANGED <<slotVars, cacheVars, xInvalid, translated, fault, brk>>

LockRest ==
    LET r == call.request IN
    /\ In("lock")
    /\ ProtectBytes(call.at + AlignUp(r.length) - call.rest, call.rest, {"lock"})
    /\ Return(r, call.at)
    /\ UNCHANGED brk

-----------------------------------------------------------------------------
(* mprotect and munmap *)

Changed(r, operation) ==
    /\ UNCHANGED brk
    /\ \/ r.length = 0 /\ Return(r, 0) /\ UNCHANGED vars
       \/ r.length > 0 /\ ~Whole(r.address) /\ Refuse(r, "eInvalid")
       \/ /\ r.length > 0 /\ Whole(r.address)
          /\ operation
          /\ IF UnmapRefused(r.address, AlignUp(r.length)) THEN Fail(r, "eNoMemory") ELSE Return(r, 0)

ProtectCall(r) == Changed(r, ProtectBytes(r.address, AlignUp(r.length), r.usage))
UnmapCall(r)   == Changed(r, UnmapBytes(r.address, AlignUp(r.length)))

-----------------------------------------------------------------------------
(* mremap *)

\* in place: pages are released, nothing changes, or new ones are mapped behind
Resized(r, u) ==
    LET end  == AlignUp(r.address + r.length)
        nend == AlignUp(r.address + r.to)
    IN  \/ nend = end /\ Return(r, r.address) /\ UNCHANGED vars
        \/ nend < end /\ UnmapBytes(nend, end - nend) /\ Return(r, r.address)
        \/ /\ nend > end /\ MapBytes(end, nend - end, u)
           /\ IF Taken THEN Return(r, r.address) ELSE Fail(r, "eNoMemory")

\* elsewhere: at a given address, or where there is room
Relocated(r, u) ==
    LET at == IF "fixed" \in r.flags THEN {r.dest} ELSE Allocation(r.to) IN
    \/ at = {} /\ Refuse(r, "eNoMemory")
    \/ \E a \in at : /\ MapBytes(a, r.to, u)
                     /\ IF Taken THEN GoOn("copy", r, a) ELSE Fail(r, "eNoMemory")

Remap(r) ==
    LET found == FindNext(PageOf(r.address))
        whole == \E k \in found : /\ k * PageBytes <= r.address
                                  /\ VirtEnd(k) * PageBytes >= r.address + r.length
        valid == Whole(r.address) /\ r.length > 0 /\ r.to > 0
        u     == UsageOf(PageOf(r.address))
    IN  /\ UNCHANGED brk
        /\ \/ ~valid /\ Refuse(r, "eInvalid")
           \/ valid /\ ~whole /\ Refuse(r, "eFault")
           \/ valid /\ whole /\ r.flags \intersect {"fixed", "dontunmap"} # {} /\ "maymove" \notin r.flags
                /\ Refuse(r, "eInvalid")
           \/ valid /\ whole /\ r.flags = {} /\ Resized(r, u)
           \/ valid /\ whole /\ "maymove" \in r.flags /\ Relocated(r, u)

Copied(r) == Min({r.length, r.to})

\* the content moves, by mread and mwrite, which ask for no usage and mark nothing
Copy ==
    LET r == call.request
        from(p) == p - PageOf(call.at) + PageOf(r.address)
        source(q) == {p \in PagesIn(call.at, Copied(r)) : Translate(p) = q}
    IN  /\ In("copy") /\ GoOn("release", r, call.at)
        /\ data' = [q \in DOMAIN data |-> IF source(q) = {} THEN data[q]
                                          ELSE data[Translate(from(Max(source(q))))]]
        /\ UNCHANGED <<slotVars, cacheVars, xInvalid, translated, fault, brk>>

ReleaseSource ==
    LET r == call.request IN
    /\ In("release") /\ UNCHANGED brk
    /\ \/ /\ "dontunmap" \in r.flags
          /\ data' = [q \in DOMAIN data |-> IF \E p \in PagesIn(r.address, r.length) : Translate(p) = q
                                            THEN 0 ELSE data[q]]
          /\ Return(r, call.at)
          /\ UNCHANGED <<slotVars, cacheVars, xInvalid, translated, fault>>
       \/ /\ "dontunmap" \notin r.flags
          /\ UnmapBytes(r.address, r.length)
          /\ IF UnmapRefused(r.address, r.length) THEN Fatal(r) ELSE Return(r, call.at)

-----------------------------------------------------------------------------

Request(r) ==
    /\ Waiting
    /\ \/ r.op = "brk" /\ Brk(r)
       \/ r.op = "mmap" /\ Mmap(r)
       \/ r.op = "mprotect" /\ ProtectCall(r)
       \/ r.op = "munmap" /\ UnmapCall(r)
       \/ r.op = "mremap" /\ Remap(r)

\* the guest goes on, after code that changed was dealt with
Resume == Waiting /\ CheckXInvalidated /\ UNCHANGED <<brk, call, answer>>

Ended == (~Running \/ call.phase = "ended") /\ UNCHANGED callVars

Step == (\E r \in Requests : Request(r)) \/ CheckRange \/ ReadFile \/ LockRest \/ Copy \/ ReleaseSource
            \/ Resume \/ Ended

CallsSpec == Start /\ [][Step]_callVars

\* what the calls to come depend on: not on the last answer, nor on what is in unused memory
Relevant == <<virt, phys, Grown, Held, xInvalid, fault, brk, call>>

-----------------------------------------------------------------------------
(* Properties. *)

\* Whatever sequence of operations a call needs, and whichever of them fails, it does to the pages
\* of the guest what Mappings promises, answers accordingly, and touches no other page.
Seen == IF call = Idle THEN Held ELSE call.before

Calls == INSTANCE Mappings WITH usage <- Seen.usage, content <- Seen.content, top <- brk, ret <- answer

ImplementsMappings == Calls!Promise
=============================================================================
