------------------------------- MODULE Mappings -------------------------------
(***************************************************************************)
(* What the memory calls promise to a program, each as one step: pages of  *)
(* the address space are mapped, unmapped, protected and moved as a whole, *)
(* new pages are empty or hold a file, the break grows and shrinks, and a  *)
(* call that fails changes nothing it may not change.                      *)
(*                                                                         *)
(* A call may run out of memory at any time.  What is weaker here than in  *)
(* Unix is marked `Deviates'.                                              *)
(***************************************************************************)
EXTENDS AddressSpace

CONSTANTS
    PageBytes,      \* addresses and lengths are in bytes, and may end within a page
    Program,        \* the pages the program was loaded to, all of one usage,
    ProgramUsage,   \* which is this one
    BreakStart,     \* the first address after it
    Requests        \* the calls the program makes

VARIABLES
    top,            \* the break, and the end of the pages that belong to it
    ret             \* the last call and its answer

mappingVars == <<usage, content, top, ret>>

Up(a) == ((a + PageBytes - 1) \div PageBytes) * PageBytes
Whole(a) == a % PageBytes = 0
PagesOf(a, n) == a \div PageBytes .. Up(a + n) \div PageBytes - 1
Unused(s) == s \subseteq Pages /\ \A p \in s : usage[p] = Free
Least(a, b) == IF a < b THEN a ELSE b

Begin ==
    /\ usage = [p \in Pages |-> IF p \in Program THEN ProgramUsage ELSE Free]
    /\ content = [p \in Pages |-> IF p \in Program THEN 1 ELSE 0]
    /\ top = [current |-> BreakStart, aligned |-> BreakStart]
    /\ ret = [request |-> [op |-> "none"], error |-> "none", value |-> 0]

Answered(r, v) == ret' = [request |-> r, error |-> "none", value |-> v]
Failed(r, e)   == ret' = [request |-> r, error |-> e, value |-> 0]
Same == UNCHANGED <<usage, content>>
Refused(r, e)  == Failed(r, e) /\ Same /\ UNCHANGED top

\* the pages of s get a usage and lose their content; those of `full' hold a file
Mapped(s, u, full) ==
    /\ usage' = [p \in Pages |-> IF p \in s THEN u ELSE usage[p]]
    /\ content' = [p \in Pages |-> IF p \in full THEN 1 ELSE IF p \in s THEN 0 ELSE content[p]]
Cleared(s) == Mapped(s, Free, {})

-----------------------------------------------------------------------------
(* brk.  Deviates: pages are released only if all of them are still mapped, *)
(* and the break moves nevertheless.                                        *)

Brk(r) ==
    LET end      == Up(r.address)
        released == PagesOf(end, top.aligned - end)
        added    == PagesOf(top.aligned, end - top.aligned)
        moved(a) == top' = [current |-> r.address, aligned |-> a]
    IN  \/ r.address < BreakStart /\ Answered(r, top.current) /\ Same /\ UNCHANGED top
        \/ /\ BreakStart <= r.address /\ end <= top.aligned
           /\ Answered(r, r.address)
           /\ IF Used(released) THEN Cleared(released) /\ moved(end) ELSE Same /\ moved(top.aligned)
        \/ /\ end > top.aligned /\ Unused(added)
           /\ Answered(r, r.address)
           /\ Mapped(added, {"read", "write"}, {}) /\ moved(end)
        \/ end > top.aligned /\ Answered(r, top.current) /\ Same /\ UNCHANGED top

-----------------------------------------------------------------------------
(* mmap.  The pages of a file behind its end are locked.  Deviates: a fixed *)
(* mapping may fail and lose some of the pages it was to replace, or find   *)
(* nothing to be in use and then fail for want of memory.                   *)

Given(r, at) ==
    LET s == PagesOf(at, Up(r.length)) IN
    /\ UNCHANGED top /\ Answered(r, at)
    /\ \/ r.from = "anonymous" /\ Mapped(s, r.usage, {})
       \/ /\ r.from = "file"
          /\ \E read \in 0 .. Least(r.length, r.file) :
                LET full == PagesOf(at, read) IN
                /\ usage' = [p \in Pages |-> IF p \in full THEN r.usage
                                             ELSE IF p \in s THEN {"lock"} ELSE usage[p]]
                /\ content' = [p \in Pages |-> IF p \in full THEN 1 ELSE IF p \in s THEN 0 ELSE content[p]]

Mmap(r) ==
    LET s == PagesOf(r.address, Up(r.length))
        valid == Whole(r.address) /\ r.length > 0
    IN  \/ ~valid /\ Refused(r, "eInvalid")
        \/ valid /\ r.from = "refused" /\ Refused(r, "eAccess")
        \/ /\ valid /\ r.from # "refused"
           /\ \/ Refused(r, "eNoMemory")
              \/ /\ r.how = "any"
                 /\ \E p \in Pages : Unused(PagesOf(p * PageBytes, Up(r.length))) /\ Given(r, p * PageBytes)
              \/ r.how = "noreplace" /\ Unused(s) /\ Given(r, r.address)
              \/ r.how = "noreplace" /\ ~Unused(s) /\ Refused(r, "eExists")
              \/ r.how = "fixed" /\ Given(r, r.address)
              \/ /\ r.how = "fixed"
                 /\ \E lost \in SUBSET s : Cleared(lost)
                 /\ Failed(r, "eNoMemory") /\ UNCHANGED top

-----------------------------------------------------------------------------
(* mprotect and munmap.  Deviate: munmap fails if anything in the range is  *)
(* not mapped, and neither changes a part of it then.                       *)

Range(r, error, change) ==
    LET s == PagesOf(r.address, Up(r.length)) IN
    /\ UNCHANGED top
    /\ \/ r.length = 0 /\ Same /\ Answered(r, 0)
       \/ r.length > 0 /\ ~Whole(r.address) /\ Same /\ Failed(r, "eInvalid")
       \/ r.length > 0 /\ Whole(r.address) /\ ~(s \subseteq Pages /\ Used(s)) /\ Same /\ Failed(r, error)
       \/ r.length > 0 /\ Whole(r.address) /\ s \subseteq Pages /\ Used(s) /\ change /\ Answered(r, 0)

ChangeUsage(r) ==
    Range(r, "eNoMemory",
          /\ usage' = [p \in Pages |-> IF p \in PagesOf(r.address, r.length) THEN r.usage ELSE usage[p]]
          /\ UNCHANGED content)

Remove(r) == Range(r, "eNoMemory", Cleared(PagesOf(r.address, r.length)))

-----------------------------------------------------------------------------
(* mremap of pages of one usage.  Deviates: what a fixed destination holds  *)
(* is not replaced, and lengths that are no multiples of a page are not     *)
(* rounded: a new one finds no memory, an old one ends the application.     *)

Remap(r) ==
    LET end  == Up(r.address + r.length)
        wish == Up(r.address + r.to)
        s    == PagesOf(r.address, r.length)
        u    == usage[r.address \div PageBytes]
        stay == "maymove" \notin r.flags
        valid == Whole(r.address) /\ r.length > 0 /\ r.to > 0
        one  == s \subseteq Pages /\ Used(s) /\ \A p \in s : usage[p] = u
        moved(at) ==
            LET dest == PagesOf(at, r.to)
                from(p) == p - at \div PageBytes + r.address \div PageBytes
                kept == PagesOf(at, Least(r.length, r.to))
                keep == "dontunmap" \in r.flags
            IN  /\ Unused(dest)
                /\ usage' = [p \in Pages |-> IF p \in dest THEN u
                                             ELSE IF p \in s /\ ~keep THEN Free ELSE usage[p]]
                /\ content' = [p \in Pages |-> IF p \in kept THEN content[from(p)]
                                               ELSE IF p \in dest \union s THEN 0 ELSE content[p]]
    IN  /\ UNCHANGED top
        /\ \/ ~valid /\ Same /\ Failed(r, "eInvalid")
           \/ valid /\ ~one /\ Same /\ Failed(r, "eFault")
           \/ /\ valid /\ one /\ stay /\ r.flags # {}
              /\ Same /\ Failed(r, "eInvalid")
           \/ /\ valid /\ one /\ r.flags = {} /\ wish <= end
              /\ Cleared(PagesOf(wish, end - wish)) /\ Answered(r, r.address)
           \/ /\ valid /\ one /\ r.flags = {} /\ wish > end /\ Unused(PagesOf(end, wish - end))
              /\ Mapped(PagesOf(end, wish - end), u, {}) /\ Answered(r, r.address)
           \/ /\ valid /\ one /\ (~stay \/ (r.flags = {} /\ wish > end))
              /\ Same /\ Failed(r, "eNoMemory")
           \/ /\ valid /\ one /\ ~stay /\ Whole(r.to)
              /\ \E p \in Pages :
                    /\ "fixed" \in r.flags => p * PageBytes = r.dest
                    /\ moved(p * PageBytes) /\ Answered(r, p * PageBytes)
           \/ /\ valid /\ one /\ ~stay /\ Whole(r.to) /\ "dontunmap" \notin r.flags /\ ~Whole(r.length)
              /\ Same /\ Failed(r, "fatal")

-----------------------------------------------------------------------------

Serve(r) ==
    \/ r.op = "brk" /\ Brk(r)
    \/ r.op = "mmap" /\ Mmap(r)
    \/ r.op = "mprotect" /\ ChangeUsage(r)
    \/ r.op = "munmap" /\ Remove(r)
    \/ r.op = "mremap" /\ Remap(r)

\* a call is served as it is answered
Called == ret'.request \in Requests /\ Serve(ret'.request)

Promise == Begin /\ [][Called]_mappingVars
=============================================================================
