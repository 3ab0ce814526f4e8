----------------------------- MODULE AddressSpace -----------------------------
(***************************************************************************)
(* What the guest may expect of its memory: pages with a usage and a       *)
(* content.  A new page is empty, a page keeps its content until it is     *)
(* written or unmapped, however often other pages are mapped, unmapped or  *)
(* protected, and a range is changed as a whole or not at all.             *)
(***************************************************************************)
EXTENDS Integers

CONSTANTS
    PageCount,      \* the pages of the guest
    Usages,         \* the usages a page can be given
    Values          \* what may be written to a page; a cleared one holds zero

VARIABLES usage, content

spaceVars == <<usage, content>>

Pages == 0 .. PageCount - 1
Ranges == {r \in SUBSET Pages : \E a, b \in Pages : a <= b /\ r = a .. b}
Free == {"unmapped"}

Used(r) == \A p \in r : usage[p] # Free

Init ==
    /\ usage = [p \in Pages |-> Free]
    /\ content = [p \in Pages |-> 0]

Map(r, u) ==
    /\ \A p \in r : usage[p] = Free
    /\ usage' = [p \in Pages |-> IF p \in r THEN u ELSE usage[p]]
    /\ UNCHANGED content

Unmap(r) ==
    /\ Used(r)
    /\ usage' = [p \in Pages |-> IF p \in r THEN Free ELSE usage[p]]
    /\ content' = [p \in Pages |-> IF p \in r THEN 0 ELSE content[p]]

Protect(r, u) ==
    /\ Used(r)
    /\ usage' = [p \in Pages |-> IF p \in r THEN u ELSE usage[p]]
    /\ UNCHANGED content

Write(r, v) ==
    /\ \A p \in r : usage[p] # Free /\ "write" \in usage[p]
    /\ content' = [p \in Pages |-> IF p \in r THEN v ELSE content[p]]
    /\ UNCHANGED usage

Next ==
    \E r \in Ranges :
        \/ Unmap(r)
        \/ \E u \in Usages : Map(r, u) \/ Protect(r, u)
        \/ \E v \in Values : Write(r, v)

Spec == Init /\ [][Next]_spaceVars
=============================================================================
