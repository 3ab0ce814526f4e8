--------------------------------- MODULE Slots ---------------------------------
(***************************************************************************)
(* Ordered maps of slots (std::map in env-memory.h): a function from the   *)
(* first address of a slot to a record with at least its size.             *)
(***************************************************************************)
EXTENDS Integers, FiniteSets, FiniteSetsExt, Functions

EndOf(m, k) == k + m[k].size

\* upper_bound, a step back, and the check of the end
Holding(m, a) == {k \in DOMAIN m : k <= a /\ a < EndOf(m, k)}
Holds(m, a)   == Holding(m, a) # {}
SlotAt(m, a)  == CHOOSE k \in Holding(m, a) : TRUE

After(m, k)  == {j \in DOMAIN m : j > k}
Before(m, k) == {j \in DOMAIN m : j < k}

\* std::next and std::prev, where there is one
NextOf(m, k) == Min(After(m, k))
PrevOf(m, k) == Max(Before(m, k))

LastOf(m) == Max(DOMAIN m)

Put(m, k, slot) == [j \in DOMAIN m \union {k} |-> IF j = k THEN slot ELSE m[j]]
Erase(m, k)     == Restrict(m, DOMAIN m \ {k})
Resize(m, k, n) == [m EXCEPT ![k].size = n]

\* slots are not empty and do not overlap
Disjoint(m) ==
    /\ \A k \in DOMAIN m : m[k].size > 0
    /\ \A j, k \in DOMAIN m : j < k => EndOf(m, j) <= k

\* they cover everything from zero to the end of the last one
Tiled(m) ==
    /\ Disjoint(m)
    /\ 0 \in DOMAIN m
    /\ \A k \in DOMAIN m : k = 0 \/ k = EndOf(m, PrevOf(m, k))
=============================================================================
