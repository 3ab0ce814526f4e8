-------------------------- MODULE SuperblockProofs --------------------------
(***************************************************************************)
(* The ranges of a super-block nest, for strands of any length with any    *)
(* jumps: resolving one cluster of ranges after the other ends, and leaves *)
(* no two ranges that cross each other.                                    *)
(***************************************************************************)
EXTENDS Superblock, Induction, SequenceTheorems

-----------------------------------------------------------------------------
(* Spans, and the order they are gone through in. *)

Types == {"backwards", "conditional", "forwards"}

\* What a range consists of.
LEMMA RangeIs ==
    ASSUME NEW r \in Spans
    PROVE  r.last <= Length /\ r.first \in Nat /\ r.last \in Nat /\ r.first <= r.last /\ r.type \in Types
BY LengthAssumption DEF Spans, Types

\* A span that ends no earlier than it begins is a range.
LEMMA SpanIs ==
    ASSUME NEW first \in Nat, NEW last \in Nat, first <= last, last <= Length, NEW type \in Types,
           NEW r, r = Span(first, last, type)
    PROVE  r \in Spans /\ r.first = first /\ r.last = last /\ r.type = type
BY LengthAssumption DEF Spans, Types, Span

\* Two ranges that are not the same come one before the other.
LEMMA OrderTotal ==
    ASSUME NEW a \in Spans, NEW b \in Spans, a # b
    PROVE  Precedes(a, b) \/ Precedes(b, a)
<1>1. a = [first |-> a.first, last |-> a.last, type |-> a.type]
  BY DEF Spans
<1>2. b = [first |-> b.first, last |-> b.last, type |-> b.type]
  BY DEF Spans
<1>3. a.first # b.first \/ a.last # b.last \/ a.type # b.type
  BY <1>1, <1>2
<1>4. a.type # b.type => Rank(a.type) < Rank(b.type) \/ Rank(b.type) < Rank(a.type)
  BY RangeIs DEF Rank, Types
<1> QED
  BY <1>3, <1>4, RangeIs DEF Precedes

\* The order is transitive.
LEMMA OrderTransitive ==
    ASSUME NEW a \in Spans, NEW b \in Spans, NEW c \in Spans, Precedes(a, b), Precedes(b, c)
    PROVE  Precedes(a, c)
<1>1. Rank(a.type) \in Nat /\ Rank(b.type) \in Nat /\ Rank(c.type) \in Nat
  BY RangeIs DEF Rank, Types
<1> QED
  BY <1>1, RangeIs DEF Precedes

\* A set of ranges has an earliest one, which begins no later than any other.
LEMMA EarliestIs ==
    ASSUME NEW S, IsFiniteSet(S), S # {}, S \subseteq Spans
    PROVE  /\ Earliest(S) \in S
           /\ \A other \in S : Earliest(S) = other \/ Precedes(Earliest(S), other)
           /\ \A other \in S : Earliest(S).first <= other.first
<1> DEFINE Least(X, r) == \A other \in X : r = other \/ Precedes(r, other)
           Q == {X \in SUBSET S : X = {} \/ \E r \in X : Least(X, r)}
<1>1. {} \in Q
  OBVIOUS
<1>2. ASSUME NEW X \in SUBSET S, X # {}, \A x \in X : X \ {x} \in Q
      PROVE  X \in Q
  <2>1. PICK x \in X : TRUE
    BY <1>2
  <2>2. CASE X \ {x} = {}
    BY <2>1, <2>2
  <2>3. CASE X \ {x} # {}
    <3>1. PICK r \in X \ {x} : Least(X \ {x}, r)
      BY <1>2, <2>1, <2>3
    <3>2. CASE Precedes(r, x)
      BY <2>1, <3>1, <3>2
    <3>3. CASE Precedes(x, r)
      <4>1. Least(X, x)
        BY <2>1, <3>1, <3>3, OrderTransitive
      <4> QED
        BY <2>1, <4>1
    <3> QED
      BY <2>1, <3>1, <3>2, <3>3, OrderTotal
  <2> QED
    BY <2>2, <2>3
<1>3. S \in Q
  <2> HIDE DEF Q
  <2> QED
    BY <1>1, <1>2, SetInduction
<1>4. PICK r \in S : Least(S, r)
  BY <1>3
<1>5. Earliest(S) \in S /\ Least(S, Earliest(S))
  BY <1>4 DEF Earliest
<1>6. PICK e : e = Earliest(S)
  OBVIOUS
<1> QED
  BY <1>5, <1>6, RangeIs DEF Precedes

\* A set of ranges has one that reaches furthest.
LEMMA FurthestIs ==
    ASSUME NEW S, IsFiniteSet(S), S # {}, S \subseteq Spans
    PROVE  \E r \in S : \A other \in S : other.last <= r.last
<1> DEFINE Most(X, r) == \A other \in X : other.last <= r.last
           Q == {X \in SUBSET S : X = {} \/ \E r \in X : Most(X, r)}
<1>1. {} \in Q
  OBVIOUS
<1>2. ASSUME NEW X \in SUBSET S, X # {}, \A x \in X : X \ {x} \in Q
      PROVE  X \in Q
  <2>1. PICK x \in X : TRUE
    BY <1>2
  <2>2. CASE X \ {x} = {}
    <3>1. Most(X, x)
      BY <2>1, <2>2, RangeIs
    <3> QED
      BY <2>1, <3>1
  <2>3. CASE X \ {x} # {}
    <3>1. PICK r \in X \ {x} : Most(X \ {x}, r)
      BY <1>2, <2>1, <2>3
    <3>2. \A y \in X : y \in Spans /\ y.last \in Nat
      BY RangeIs
    <3>3. CASE x.last <= r.last
      <4>1. Most(X, r)
        BY <3>1, <3>3
      <4> QED
        BY <3>1, <4>1
    <3>4. CASE ~(x.last <= r.last)
      <4>1. Most(X, x)
        BY <2>1, <3>1, <3>2, <3>4
      <4> QED
        BY <2>1, <4>1
    <3> QED
      BY <3>3, <3>4
  <2> QED
    BY <2>2, <2>3
<1>3. S \in Q
  <2> HIDE DEF Q
  <2> QED
    BY <1>1, <1>2, SetInduction
<1> QED
  BY <1>3

-----------------------------------------------------------------------------
(* Clusters. *)

Inside(r, o) == o.first <= r.first /\ r.last <= o.last
Apart(r, o) == r.last < o.first \/ o.last < r.first
Fits(r, o) == Inside(r, o) \/ Apart(r, o)

\* the members are what begins up to the last place, which they reach without a gap
Cuts(raw, members, first, last) ==
    /\ members \subseteq raw /\ first \in Nat /\ last \in Nat /\ first <= last /\ last <= Length
    /\ \A r \in raw : r \in members <=> r.first <= last
    /\ \A r \in members : first <= r.first /\ r.last <= last
    /\ \E r \in members : r.first = first
    /\ \E r \in members : r.last = last
    /\ \A x \in Nat : first <= x /\ x < last => \E r \in raw : r.first <= x /\ x < r.last

\* The first ranges that overlap reach from the begin of the earliest without a gap to their end, and the
\* others begin behind it.
LEMMA ClusterIs ==
    ASSUME NEW raw, IsFiniteSet(raw), raw # {}, raw \subseteq Spans, NEW c, c = Cluster(raw)
    PROVE  Cuts(raw, c.members, c.first, c.last)
<1> DEFINE closed == {last \in {r.last : r \in raw} : \A r \in raw : r.first <= last => r.last <= last}
           l == CHOOSE l \in closed : \A other \in closed : l <= other
<1>1. PICK e \in raw : e.first = Earliest(raw).first /\ \A r \in raw : e.first <= r.first
  BY EarliestIs
<1>2. \A r \in raw : r \in Spans /\ r.first \in Nat /\ r.last \in Nat /\ r.first <= r.last
  BY RangeIs
<1>3. PICK f \in raw : \A r \in raw : r.last <= f.last
  BY FurthestIs
<1>4. f.last \in closed
  BY <1>3
<1>5. closed \in SUBSET Nat
  BY <1>2
<1>6. \E m \in closed : \A k \in closed : m <= k
  <2> HIDE DEF closed
  <2> QED
    BY <1>4, <1>5, LeastNumber
<1>7. l \in closed /\ \A k \in closed : l <= k
  <2> HIDE DEF closed
  <2> QED
    BY <1>6
<1>8. PICK last \in Nat : last = l
  BY <1>5, <1>7
<1>9. PICK g \in raw : g.last = last
  BY <1>7, <1>8
<1>10. \A r \in raw : r.first <= last => r.last <= last
  BY <1>7, <1>8
<1>11. \A y \in raw : (\A r \in raw : r.first <= y.last => r.last <= y.last) => last <= y.last
  BY <1>7, <1>8
<1>12. c = [members |-> {r \in raw : r.first <= last}, first |-> e.first, last |-> last]
  BY <1>1, <1>8 DEF Cluster
<1>13. PICK first \in Nat : first = e.first
  BY <1>2
<1> HIDE DEF closed, l
<1>14. PICK members : members = {r \in raw : r.first <= last}
  OBVIOUS
<1>15. g \in members /\ e \in members
  BY <1>1, <1>2, <1>9, <1>14
<1>16. \A r \in raw : r \in members <=> r.first <= last
  BY <1>14
<1>17. \A r \in members : first <= r.first /\ r.last <= last
  BY <1>1, <1>10, <1>13, <1>14
<1>18. ASSUME NEW x \in Nat, first <= x, x < last
       PROVE  \E r \in raw : r.first <= x /\ x < r.last
  <2> DEFINE below == {r \in raw : r.first <= x}
  <2>1. e \in below
    BY <1>13, <1>18
  <2>2. IsFiniteSet(below) /\ below \subseteq Spans
    BY <1>2, FS_Subset
  <2>3. PICK y \in below : \A r \in below : r.last <= y.last
    <3> HIDE DEF below
    <3> QED
      BY <2>1, <2>2, FurthestIs
  <2>4. y \in raw /\ y.first <= x
    BY <2>3
  <2>5. SUFFICES ASSUME y.last <= x
                 PROVE  FALSE
    BY <1>2, <2>4
  <2>6. \A r \in raw : r.first <= y.last => r.last <= y.last
    BY <1>2, <2>3, <2>4, <2>5
  <2>7. last <= y.last
    BY <1>11, <2>4, <2>6
  <2> QED
    BY <1>2, <1>18, <2>4, <2>5, <2>7
<1>19. c.members = members /\ c.first = first /\ c.last = last
  BY <1>12, <1>13, <1>14
<1>20. members \subseteq raw /\ first <= last /\ last <= Length
  BY <1>2, <1>9, <1>13, <1>14, <1>15, <1>17, RangeIs
<1> QED
  BY <1>9, <1>13, <1>15, <1>16, <1>17, <1>18, <1>19, <1>20 DEF Cuts

\* If no range of a set crosses another one, a cluster of the set does not cross it either.
LEMMA ClusterFits ==
    ASSUME NEW raw, raw \subseteq Spans, NEW members, NEW first, NEW last, Cuts(raw, members, first, last),
           NEW o \in Spans, \A r \in raw : Fits(r, o), NEW s, s.first = first, s.last = last
    PROVE  Fits(s, o)
<1>1. first \in Nat /\ last \in Nat /\ first <= last
  BY DEF Cuts
<1>2. \A r \in raw : r.first \in Nat /\ r.last \in Nat /\ r.first <= r.last
  BY RangeIs
<1>3. o.first \in Nat /\ o.last \in Nat /\ o.first <= o.last
  BY RangeIs
<1>4. \A x \in Nat : first <= x /\ x < last => \E r \in raw : r.first <= x /\ x < r.last
  BY DEF Cuts
<1>5. ~(first <= o.last /\ o.last < last)
  <2> SUFFICES ASSUME first <= o.last, o.last < last
               PROVE  FALSE
    OBVIOUS
  <2>1. PICK r \in raw : r.first <= o.last /\ o.last < r.last
    BY <1>3, <1>4
  <2> QED
    BY <1>2, <1>3, <2>1 DEF Fits, Inside, Apart
<1>6. ~(first < o.first /\ o.first <= last)
  <2> SUFFICES ASSUME first < o.first, o.first <= last
               PROVE  FALSE
    OBVIOUS
  <2>1. PICK x \in Nat : x = o.first - 1
    BY <1>1, <1>3
  <2>2. first <= x /\ x < last
    BY <1>1, <1>3, <2>1
  <2>3. PICK r \in raw : r.first <= x /\ x < r.last
    BY <1>4, <2>2
  <2> QED
    BY <1>2, <1>3, <2>1, <2>3 DEF Fits, Inside, Apart
<1> QED
  BY <1>1, <1>3, <1>5, <1>6 DEF Fits, Inside, Apart

-----------------------------------------------------------------------------
(* How a cluster is resolved. *)

\* what is taken from a cluster and put into it, and what is put out
Swapped(members, left, X, Y) == X \subseteq members /\ X # {} /\ left = (members \ X) \cup Y
Widened(members, first, last, resolved, X, r) ==
    /\ r \in X /\ Swapped(members, resolved.left, X, {}) /\ resolved.out = {Span(first, last, r.type)}
    /\ \/ r.type # "backwards" /\ X = {q \in members : q.type # "backwards" /\ q.last = last}
       \/ r.type = "backwards" /\ X = {q \in members : q.type = "backwards" /\ q.first = first}
    /\ \A q \in members : q.type # "backwards" /\ q.last = last => q = r \/ Precedes(r, q)
Drawn(members, first, last, resolved, r) ==
    /\ r \in members /\ r.type = "backwards" /\ r.last = last /\ first < r.first
    /\ Swapped(members, resolved.left, {r}, {Span(first, r.first - 1, "conditional")})
    /\ resolved.out = {Span(first, last, "backwards")}

\* Spans that end or begin with the cluster are replaced by the one that spans it; failing that, a loop
\* spans it, and a conditional range leads from its begin to where the loop was.  There is always one of them.
LEMMA ConflictIs ==
    ASSUME NEW raw, raw \subseteq Spans, NEW members, IsFiniteSet(members), NEW first, NEW last,
           Cuts(raw, members, first, last), NEW resolved, resolved = ConflictCluster(members, first, last)
    PROVE  \/ \E X, r : Widened(members, first, last, resolved, X, r)
           \/ \E r : Drawn(members, first, last, resolved, r)
<1>1. members \subseteq Spans /\ \A r \in members : first <= r.first /\ first \in Nat
  BY DEF Cuts
<1>2. PICK forwards : forwards = {r \in members : r.type # "backwards" /\ r.last = last}
  OBVIOUS
<1>3. PICK backwards : backwards = {r \in members : r.type = "backwards" /\ r.first = first}
  OBVIOUS
<1>4. PICK irreducible : irreducible = {r \in members : r.type = "backwards" /\ r.last = last}
  OBVIOUS
<1>5. PICK r : r = Earliest(forwards \cup backwards)
  OBVIOUS
<1>6. PICK d : d = Earliest(irreducible)
  OBVIOUS
<1>7. resolved = CASE forwards \cup backwards # {} ->
                         [left |-> members \ (IF r.type = "backwards" THEN backwards ELSE forwards),
                          out |-> {Span(first, last, r.type)}]
                   [] forwards \cup backwards = {} /\ irreducible # {} ->
                         [left |-> (members \ {d}) \cup {Span(first, d.first - 1, "conditional")},
                          out |-> {Span(first, last, "backwards")}]
                   [] OTHER -> [left |-> {}, out |-> {Span(first, last, "none")}]
  BY <1>2, <1>3, <1>4, <1>5, <1>6, Zenon DEF ConflictCluster
<1>8. CASE forwards \cup backwards # {}
  <2>1. PICK X : X = IF r.type = "backwards" THEN backwards ELSE forwards
    OBVIOUS
  <2>2. resolved = [left |-> members \ X, out |-> {Span(first, last, r.type)}]
    BY <1>7, <1>8, <2>1
  <2>3. PICK S : S = forwards \cup backwards
    OBVIOUS
  <2>4. IsFiniteSet(S) /\ S \subseteq Spans /\ S # {} /\ S \subseteq members
    BY <1>1, <1>2, <1>3, <1>8, <2>3, FS_Subset
  <2>5. r \in S /\ \A q \in S : r = q \/ Precedes(r, q)
    BY <1>5, <2>3, <2>4, EarliestIs
  <2>6. r \in X
    BY <1>2, <1>3, <2>1, <2>3, <2>5
  <2>7. Swapped(members, resolved.left, X, {})
    BY <1>2, <1>3, <2>1, <2>2, <2>6 DEF Swapped
  <2>8. \/ r.type # "backwards" /\ X = {q \in members : q.type # "backwards" /\ q.last = last}
        \/ r.type = "backwards" /\ X = {q \in members : q.type = "backwards" /\ q.first = first}
    BY <1>2, <1>3, <2>1
  <2>9. \A q \in members : q.type # "backwards" /\ q.last = last => q = r \/ Precedes(r, q)
    BY <1>2, <2>3, <2>5
  <2>10. resolved.out = {Span(first, last, r.type)}
    BY <2>2
  <2>11. Widened(members, first, last, resolved, X, r)
    BY <2>6, <2>7, <2>8, <2>9, <2>10 DEF Widened
  <2> QED
    BY <2>11
<1>9. CASE forwards \cup backwards = {}
  <2>1. PICK m \in members : m.last = last
    BY DEF Cuts
  <2>2. m.type = "backwards"
    BY <1>2, <1>9, <2>1
  <2>3. irreducible # {} /\ irreducible \subseteq members
    BY <1>4, <2>1, <2>2
  <2>4. IsFiniteSet(irreducible) /\ irreducible \subseteq Spans
    BY <1>1, <2>3, FS_Subset
  <2>5. d \in irreducible
    BY <1>6, <2>3, <2>4, EarliestIs
  <2>6. d \in members /\ d.type = "backwards" /\ d.last = last /\ d.first # first
    BY <1>3, <1>4, <1>9, <2>5
  <2>7. first < d.first
    BY <1>1, <2>6, RangeIs
  <2>8. resolved = [left |-> (members \ {d}) \cup {Span(first, d.first - 1, "conditional")},
                    out |-> {Span(first, last, "backwards")}]
    BY <1>7, <1>9, <2>3
  <2>9. Swapped(members, resolved.left, {d}, {Span(first, d.first - 1, "conditional")})
    BY <2>6, <2>8 DEF Swapped
  <2>10. resolved.out = {Span(first, last, "backwards")}
    BY <2>8
  <2>11. Drawn(members, first, last, resolved, d)
    BY <2>6, <2>7, <2>9, <2>10 DEF Drawn
  <2> QED
    BY <2>11
<1> QED
  BY <1>8, <1>9

\* how much there is to resolve: a loop may be replaced by a range that is none
Loops(raw) == {r \in raw : r.type = "backwards"}
Weight(raw) == Cardinality(raw) + Cardinality(Loops(raw))

\* The weight of a finite set of ranges is a number.
LEMMA WeightIs ==
    ASSUME NEW raw, IsFiniteSet(raw)
    PROVE  Weight(raw) \in Nat /\ IsFiniteSet(Loops(raw))
<1>1. Loops(raw) \subseteq raw
  BY DEF Loops
<1>2. IsFiniteSet(Loops(raw))
  BY <1>1, FS_Subset
<1> QED
  BY <1>2, FS_CardinalityType DEF Weight

\* Taking ranges out lowers the weight.
LEMMA WeightOfRest ==
    ASSUME NEW raw, IsFiniteSet(raw), NEW X \in SUBSET raw, X # {}
    PROVE  IsFiniteSet(raw \ X) /\ Weight(raw \ X) < Weight(raw)
<1>1. PICK rest : rest = raw \ X
  OBVIOUS
<1>2. rest \subseteq raw /\ rest # raw /\ Loops(rest) \subseteq Loops(raw)
  BY <1>1 DEF Loops
<1>3. IsFiniteSet(rest) /\ Cardinality(rest) <= Cardinality(raw) /\ Cardinality(rest) # Cardinality(raw)
  BY <1>2, FS_Subset
<1>4. IsFiniteSet(Loops(raw)) /\ Cardinality(Loops(rest)) <= Cardinality(Loops(raw))
  BY <1>2, WeightIs, FS_Subset
<1>5. IsFiniteSet(Loops(rest))
  BY <1>3, WeightIs
<1>6. /\ Cardinality(rest) \in Nat /\ Cardinality(raw) \in Nat
      /\ Cardinality(Loops(rest)) \in Nat /\ Cardinality(Loops(raw)) \in Nat
  BY <1>3, <1>4, <1>5, FS_CardinalityType
<1> QED
  BY <1>1, <1>3, <1>4, <1>6 DEF Weight

\* Replacing a loop by a range that is none lowers the weight.
LEMMA WeightOfSwap ==
    ASSUME NEW raw, IsFiniteSet(raw), NEW d \in raw, d.type = "backwards", NEW y, y.type # "backwards"
    PROVE  IsFiniteSet((raw \ {d}) \cup {y}) /\ Weight((raw \ {d}) \cup {y}) < Weight(raw)
<1>1. PICK less : less = raw \ {d}
  OBVIOUS
<1>2. PICK new : new = less \cup {y}
  OBVIOUS
<1>3. IsFiniteSet(less) /\ Cardinality(less) = Cardinality(raw) - 1 /\ Cardinality(less) \in Nat
  BY <1>1, FS_RemoveElement, FS_CardinalityType
<1>4. IsFiniteSet(new) /\ Cardinality(new) <= Cardinality(less) + 1
  <2>1. IsFiniteSet(new) /\ Cardinality(new) = IF y \in less THEN Cardinality(less) ELSE Cardinality(less) + 1
    BY <1>2, <1>3, FS_AddElement
  <2> QED
    BY <1>3, <2>1
<1>5. Loops(new) = Loops(raw) \ {d} /\ d \in Loops(raw)
  BY <1>1, <1>2 DEF Loops
<1>6. IsFiniteSet(Loops(raw)) /\ Cardinality(Loops(new)) = Cardinality(Loops(raw)) - 1
  BY <1>5, WeightIs, FS_RemoveElement
<1>7. IsFiniteSet(Loops(new))
  BY <1>4, WeightIs
<1>8. /\ Cardinality(raw) \in Nat /\ Cardinality(less) \in Nat /\ Cardinality(new) \in Nat
      /\ Cardinality(Loops(raw)) \in Nat /\ Cardinality(Loops(new)) \in Nat
  BY <1>3, <1>4, <1>6, <1>7, FS_CardinalityType
<1>9. Weight(new) < Weight(raw)
  BY <1>3, <1>4, <1>6, <1>8 DEF Weight
<1> QED
  BY <1>1, <1>2, <1>4, <1>9

-----------------------------------------------------------------------------
(* All clusters, one after the other. *)

\* no range that was put out crosses another one, nor one that is still to be resolved
Nested(out) == \A r, o \in out : Fits(r, o) \/ Fits(o, r)
Untangling(raw, out) ==
    /\ IsFiniteSet(raw) /\ raw \subseteq Spans /\ out \subseteq Spans
    /\ Nested(out) /\ \A r \in raw, o \in out : Fits(r, o)

\* what is left of a cluster lies inside of it, and so does what is put out
Resolves(raw, out, raw2, out2) ==
    \E members, first, last, s, X, Y :
        /\ Cuts(raw, members, first, last)
        /\ s \in Spans /\ s.first = first /\ s.last = last /\ out2 = out \cup {s}
        /\ X \subseteq members /\ raw2 = (raw \ X) \cup Y /\ Y \subseteq Spans /\ \A y \in Y : Inside(y, s)

\* the two patterns of fConflictCluster: ranges X replaced by w, or a loop r drawn up to the begin as w
WidensBy(raw, raw2, members, first, last, X, r, w) ==
    /\ Cuts(raw, members, first, last) /\ X \subseteq members /\ r \in X /\ raw2 = raw \ X
    /\ w \in Spans /\ w.first = first /\ w.last = last /\ w.type = r.type
    /\ \/ r.type # "backwards" /\ X = {q \in members : q.type # "backwards" /\ q.last = last}
       \/ r.type = "backwards" /\ X = {q \in members : q.type = "backwards" /\ q.first = first}
    /\ \A q \in members : q.type # "backwards" /\ q.last = last => q = r \/ Precedes(r, q)
DrawsBy(raw, raw2, members, first, last, r, y, w) ==
    /\ Cuts(raw, members, first, last) /\ r \in members /\ r.type = "backwards" /\ r.last = last /\ first < r.first
    /\ y \in Spans /\ y.first = first /\ y.last = r.first - 1 /\ y.type = "conditional" /\ raw2 = (raw \ {r}) \cup {y}
    /\ w \in Spans /\ w.first = first /\ w.last = last /\ w.type = "backwards"
Passes(raw, out, raw2, out2) ==
    \E members, first, last, r, w :
        /\ out2 = out \cup {w}
        /\ \/ \E X : WidensBy(raw, raw2, members, first, last, X, r, w)
           \/ \E y : DrawsBy(raw, raw2, members, first, last, r, y, w)

\* Resolving a cluster replaces some of it, and leaves less to resolve.
LEMMA ResolvedIs ==
    ASSUME NEW state, IsFiniteSet(state.raw), state.raw \subseteq Spans, state.raw # {},
           NEW after, after = Resolved(state)
    PROVE  /\ Resolves(state.raw, state.out, after.raw, after.out)
           /\ Passes(state.raw, state.out, after.raw, after.out)
           /\ IsFiniteSet(after.raw) /\ Weight(after.raw) < Weight(state.raw)
           /\ after = [raw |-> after.raw, out |-> after.out]
<1>1. PICK raw : raw = state.raw
  OBVIOUS
<1>2. PICK c : c = Cluster(raw)
  OBVIOUS
<1>3. PICK members, first, last : members = c.members /\ first = c.first /\ last = c.last
  OBVIOUS
<1>4. Cuts(raw, members, first, last)
  BY <1>1, <1>2, <1>3, ClusterIs
<1>5. PICK resolved : resolved = ConflictCluster(members, first, last)
  OBVIOUS
<1>6. after = [raw |-> (raw \ members) \cup resolved.left, out |-> state.out \cup resolved.out]
  BY <1>1, <1>2, <1>3, <1>5 DEF Resolved
<1>7. members \subseteq raw /\ first \in Nat /\ last \in Nat /\ first <= last /\ last <= Length
  BY <1>4 DEF Cuts
<1>8. IsFiniteSet(raw) /\ IsFiniteSet(members)
  BY <1>1, <1>7, FS_Subset
<1>9. CASE \E X, r : Widened(members, first, last, resolved, X, r)
  <2>1. PICK X, r :
          /\ r \in X /\ Swapped(members, resolved.left, X, {}) /\ resolved.out = {Span(first, last, r.type)}
          /\ \/ r.type # "backwards" /\ X = {q \in members : q.type # "backwards" /\ q.last = last}
             \/ r.type = "backwards" /\ X = {q \in members : q.type = "backwards" /\ q.first = first}
          /\ \A q \in members : q.type # "backwards" /\ q.last = last => q = r \/ Precedes(r, q)
    BY <1>9, Zenon DEF Widened
  <2>2. X \subseteq members /\ X # {} /\ resolved.left = members \ X
    BY <2>1 DEF Swapped
  <2>3. after.raw = raw \ X /\ r \in Spans
    BY <1>1, <1>6, <1>7, <2>1, <2>2
  <2>4. PICK s : s = Span(first, last, r.type)
    OBVIOUS
  <2>5. s \in Spans /\ s.first = first /\ s.last = last /\ s.type = r.type
    BY <1>7, <2>3, <2>4, RangeIs, SpanIs
  <2>6. after.out = state.out \cup {s}
    BY <1>6, <2>1, <2>4
  <2>7. IsFiniteSet(after.raw) /\ Weight(after.raw) < Weight(raw)
    BY <1>7, <1>8, <2>2, <2>3, WeightOfRest
  <2>8. PICK Y : Y = {}
    OBVIOUS
  <2>9. after.raw = (raw \ X) \cup Y /\ Y \subseteq Spans /\ \A y \in Y : Inside(y, s)
    BY <2>3, <2>8
  <2>10. WidensBy(raw, after.raw, members, first, last, X, r, s)
    BY <1>4, <2>1, <2>2, <2>3, <2>5, Zenon DEF WidensBy
  <2>11. Passes(raw, state.out, after.raw, after.out)
    BY <2>6, <2>10, Zenon DEF Passes
  <2> QED
    BY <1>1, <1>4, <1>6, <2>2, <2>5, <2>6, <2>7, <2>9, <2>11, Zenon DEF Resolves
<1>10. CASE \E r : Drawn(members, first, last, resolved, r)
  <2>1. PICK r \in members : /\ r.type = "backwards" /\ r.last = last /\ first < r.first
                             /\ Swapped(members, resolved.left, {r}, {Span(first, r.first - 1, "conditional")})
                             /\ resolved.out = {Span(first, last, "backwards")}
    BY <1>10 DEF Drawn
  <2>2. r \in raw /\ r \in Spans
    BY <1>1, <1>7
  <2>3. PICK before \in Nat : before = r.first - 1 /\ first <= before /\ before <= last /\ before <= Length
    BY <1>7, <2>1, <2>2, RangeIs, LengthAssumption
  <2>4. PICK y : y = Span(first, before, "conditional")
    OBVIOUS
  <2>5. PICK s : s = Span(first, last, "backwards")
    OBVIOUS
  <2>6. s \in Spans /\ s.first = first /\ s.last = last /\ s.type = "backwards"
    BY <1>7, <2>5, SpanIs DEF Types
  <2>7. y \in Spans /\ y.first = first /\ y.last = before /\ y.type = "conditional"
    BY <1>7, <2>3, <2>4, SpanIs DEF Types
  <2>8. resolved.left = (members \ {r}) \cup {y}
    BY <2>1, <2>3, <2>4 DEF Swapped
  <2>9. after.raw = (raw \ {r}) \cup {y}
    BY <1>6, <1>7, <2>1, <2>8
  <2>10. IsFiniteSet(after.raw) /\ Weight(after.raw) < Weight(raw)
    BY <1>8, <2>1, <2>2, <2>7, <2>9, WeightOfSwap
  <2>11. PICK X, Y : X = {r} /\ Y = {y}
    OBVIOUS
  <2>12. /\ X \subseteq members /\ after.raw = (raw \ X) \cup Y /\ Y \subseteq Spans
         /\ after.out = state.out \cup {s}
    BY <1>6, <2>1, <2>5, <2>7, <2>9, <2>11
  <2>13. \A z \in Y : Inside(z, s)
    BY <1>7, <2>3, <2>6, <2>7, <2>11 DEF Inside
  <2>14. DrawsBy(raw, after.raw, members, first, last, r, y, s)
    BY <1>4, <2>1, <2>3, <2>6, <2>7, <2>9, Zenon DEF DrawsBy
  <2>15. Passes(raw, state.out, after.raw, after.out)
    BY <2>12, <2>14, Zenon DEF Passes
  <2> QED
    BY <1>1, <1>4, <1>6, <2>6, <2>10, <2>12, <2>13, <2>15, Zenon DEF Resolves
<1> QED
  BY <1>1, <1>4, <1>5, <1>8, <1>9, <1>10, ConflictIs

\* So ranges that are put out never cross each other, nor those that are left.
LEMMA ResolvesKeeps ==
    ASSUME NEW raw, NEW out, Untangling(raw, out), NEW raw2, NEW out2, Resolves(raw, out, raw2, out2),
           IsFiniteSet(raw2)
    PROVE  Untangling(raw2, out2)
<1>1. PICK members, first, last, s, X, Y :
        /\ Cuts(raw, members, first, last)
        /\ s \in Spans /\ s.first = first /\ s.last = last /\ out2 = out \cup {s}
        /\ X \subseteq members /\ raw2 = (raw \ X) \cup Y /\ Y \subseteq Spans /\ \A y \in Y : Inside(y, s)
  BY Zenon DEF Resolves
<1>2. /\ raw \subseteq Spans /\ out \subseteq Spans /\ Nested(out)
      /\ \A r \in raw, o \in out : Fits(r, o)
  BY DEF Untangling
<1>3. \A o \in out : Fits(s, o)
  BY <1>1, <1>2, ClusterFits
<1>4. raw2 \subseteq Spans /\ out2 \subseteq Spans
  BY <1>1, <1>2
<1>5. Nested(out2)
  <2>1. Fits(s, s)
    BY <1>1, RangeIs DEF Fits, Inside
  <2> QED
    BY <1>1, <1>2, <1>3, <2>1 DEF Nested
<1>6. ASSUME NEW r \in raw
      PROVE  Fits(r, s)
  <2>1. r \in members => first <= r.first /\ r.last <= last
    BY <1>1 DEF Cuts
  <2>2. r \notin members => last < r.first
    BY <1>1, <1>2, RangeIs DEF Cuts
  <2> QED
    BY <1>1, <2>1, <2>2 DEF Fits, Inside, Apart
<1>7. ASSUME NEW y \in Y, NEW o \in out
      PROVE  Fits(y, o)
  <2>1. y \in Spans /\ o \in Spans /\ Inside(y, s) /\ Fits(s, o)
    BY <1>1, <1>2, <1>3
  <2> QED
    BY <1>1, <2>1, RangeIs DEF Fits, Inside, Apart
<1>8. \A y \in Y : Fits(y, s)
  BY <1>1 DEF Fits
<1>9. ASSUME NEW r \in raw2, NEW o \in out2
      PROVE  Fits(r, o)
  BY <1>1, <1>2, <1>6, <1>7, <1>8
<1> QED
  BY <1>4, <1>5, <1>9 DEF Untangling

States == [raw : SUBSET Spans, out : SUBSET Spans]
Proper == {state \in States : Untangling(state.raw, state.out)}

\* Every subset of the spans is finite.
LEMMA SpansFinite == IsFiniteSet(Spans)
<1>1. IsFiniteSet(0..Length)
  BY LengthAssumption, FS_Interval
<1>2. IsFiniteSet(Types)
  <2>1. IsFiniteSet({"backwards"})
    BY FS_Singleton
  <2>2. IsFiniteSet({"backwards"} \cup {"conditional"})
    BY <2>1, FS_AddElement
  <2>3. IsFiniteSet(({"backwards"} \cup {"conditional"}) \cup {"forwards"})
    BY <2>2, FS_AddElement
  <2>4. Types = ({"backwards"} \cup {"conditional"}) \cup {"forwards"}
    BY DEF Types
  <2> QED
    BY <2>3, <2>4
<1>3. PICK N : N = 0..Length
  OBVIOUS
<1>4. PICK P : P = (N \X N) \X Types
  OBVIOUS
<1>5. IsFiniteSet(N \X N)
  BY <1>1, <1>3, FS_Product
<1>6. IsFiniteSet(P)
  BY <1>2, <1>4, <1>5, FS_Product
<1>7. PICK R : R = [first : N, last : N, type : Types]
  OBVIOUS
<1>8. PICK f : f = [p \in P |-> [first |-> p[1][1], last |-> p[1][2], type |-> p[2]]]
  OBVIOUS
<1>9. f \in [P -> R]
  BY <1>4, <1>7, <1>8
<1>10. ASSUME NEW r \in R
       PROVE  \E p \in P : f[p] = r
  <2>1. PICK p : p = <<<<r.first, r.last>>, r.type>>
    OBVIOUS
  <2>2. p \in P
    BY <1>4, <1>7, <2>1
  <2>3. f[p] = r
    BY <1>7, <1>8, <2>1, <2>2
  <2> QED
    BY <2>2, <2>3
<1>11. f \in Surjection(P, R)
  BY <1>9, <1>10 DEF Surjection
<1>12. IsFiniteSet(R)
  BY <1>6, <1>11, FS_Surjection
<1>13. Spans \subseteq R
  BY <1>3, <1>7 DEF Spans, Types
<1> QED
  BY <1>12, <1>13, FS_Subset

\* A state leads to one with less to resolve, and one that is proper to one that is.
LEMMA GoesOn ==
    ASSUME NEW state \in States, state.raw # {}
    PROVE  /\ Resolved(state) \in States
           /\ state \in Proper => Resolved(state) \in Proper /\ Weight(Resolved(state).raw) < Weight(state.raw)
<1>1. PICK after : after = Resolved(state)
  OBVIOUS
<1>2. IsFiniteSet(state.raw) /\ state.raw \subseteq Spans /\ state.out \subseteq Spans
  BY SpansFinite, FS_Subset DEF States
<1>3. /\ Resolves(state.raw, state.out, after.raw, after.out)
      /\ IsFiniteSet(after.raw) /\ Weight(after.raw) < Weight(state.raw)
      /\ after = [raw |-> after.raw, out |-> after.out]
  BY <1>1, <1>2, ResolvedIs
<1>4. after.raw \in SUBSET Spans /\ after.out \in SUBSET Spans
  BY <1>2, <1>3 DEF Resolves
<1>5. after \in States
  BY <1>3, <1>4 DEF States
<1>6. state \in Proper => Untangling(after.raw, after.out)
  BY <1>2, <1>3, ResolvesKeeps DEF Proper
<1> QED
  BY <1>1, <1>3, <1>5, <1>6 DEF Proper

IsUntangled(run) ==
    run = [state \in States |-> IF state.raw = {} THEN state.out ELSE run[Resolved(state)]]

\* Resolving cluster after cluster is defined for every state.
LEMMA UntangledExists == \E run : IsUntangled(run)
<1>1. PICK going : going \notin SUBSET Spans
  BY SomethingElse
<1>2. PICK E : E = [state \in States |-> IF state.raw = {} THEN state.out ELSE going]
  OBVIOUS
<1>3. PICK O : O = [state \in States |-> Resolved(state)]
  OBVIOUS
<1>4. \A state \in States : /\ E[state] = going <=> state.raw # {}
                            /\ state.raw = {} => E[state] = state.out
                            /\ O[state] = Resolved(state)
  BY <1>1, <1>2, <1>3 DEF States
<1>5. PICK D : D = States
  OBVIOUS
<1>6. \A state \in D : E[state] = going => O[state] \in D
  BY <1>4, <1>5, GoesOn
<1>7. PICK run : IsRun(run, D, E, O, going)
  BY <1>6, RunExists
<1>8. run = [state \in D |-> IF E[state] # going THEN E[state] ELSE run[O[state]]]
  BY <1>7 DEF IsRun
<1>9. \A state \in D : (IF E[state] # going THEN E[state] ELSE run[O[state]])
                        = IF state.raw = {} THEN state.out ELSE run[Resolved(state)]
  BY <1>4, <1>5
<1>10. run = [state \in D |-> IF state.raw = {} THEN state.out ELSE run[Resolved(state)]]
  BY <1>8, <1>9
<1> QED
  BY <1>5, <1>10 DEF IsUntangled

\* What holds of a proper state and is kept while there is something to resolve, holds of the outcome too.
LEMMA UntangledKeeps ==
    ASSUME NEW Good, NEW raw \in SUBSET Spans, [raw |-> raw, out |-> {}] \in Good, Good \subseteq Proper,
           \A state \in Good : state.raw # {} => Resolved(state) \in Good
    PROVE  [raw |-> {}, out |-> Untangled(raw)] \in Good
<1>1. PICK run : run = CHOOSE one : IsUntangled(one)
  OBVIOUS
<1>2. IsUntangled(run)
  BY <1>1, UntangledExists
<1>3. Untangled(raw) = run[[raw |-> raw, out |-> {}]]
  BY <1>1 DEF Untangled, IsUntangled, States
<1>4. \A state \in States : run[state] = IF state.raw = {} THEN state.out ELSE run[Resolved(state)]
  BY <1>2 DEF IsUntangled
<1>5. \A state \in Good : state \in States /\ state \in Proper /\ Weight(state.raw) \in Nat
  BY WeightIs DEF Proper, Untangling
<1> DEFINE Outcome(state) == [raw |-> {}, out |-> run[state]] \in Good
           T == {n \in Nat : \A state \in Good : Weight(state.raw) <= n => Outcome(state)}
<1>6. ASSUME NEW state \in Good, state.raw = {}
      PROVE  Outcome(state)
  <2>1. state = [raw |-> {}, out |-> state.out] /\ run[state] = state.out
    BY <1>4, <1>5, <1>6 DEF States
  <2> QED
    BY <2>1
<1>7. ASSUME NEW state \in Good, state.raw # {}
      PROVE  /\ Resolved(state) \in Good /\ Weight(Resolved(state).raw) < Weight(state.raw)
             /\ run[state] = run[Resolved(state)]
  BY <1>4, <1>5, <1>7, GoesOn
<1>8. 0 \in T
  <2>1. ASSUME NEW state \in Good, Weight(state.raw) <= 0
        PROVE  state.raw = {}
    <3>1. state.raw # {} => Weight(Resolved(state).raw) \in Nat /\ Weight(Resolved(state).raw) < Weight(state.raw)
      BY <1>5, <1>7
    <3> QED
      BY <1>5, <2>1, <3>1
  <2> HIDE DEF Outcome
  <2> QED
    BY <1>6, <2>1
<1>9. ASSUME NEW n \in Nat, n \in T
      PROVE  n + 1 \in T
  <2> SUFFICES ASSUME NEW state \in Good, Weight(state.raw) <= n + 1
               PROVE  Outcome(state)
    OBVIOUS
  <2>1. CASE state.raw = {}
    BY <1>6, <2>1
  <2>2. CASE state.raw # {}
    <3>1. PICK after : after = Resolved(state)
      OBVIOUS
    <3>2. after \in Good /\ Weight(after.raw) < Weight(state.raw) /\ run[state] = run[after]
      BY <1>7, <2>2, <3>1
    <3>3. Weight(after.raw) <= n
      BY <1>5, <3>2
    <3>4. Outcome(after)
      BY <1>9, <3>2, <3>3
    <3> QED
      BY <3>2, <3>4
  <2> QED
    BY <2>1, <2>2
<1>10. \A n \in Nat : n \in T
  <2> HIDE DEF T
  <2> QED
    BY <1>8, <1>9, NumberInduction
<1>11. PICK start \in Good : start = [raw |-> raw, out |-> {}]
  OBVIOUS
<1>12. Outcome(start)
  BY <1>5, <1>10, <1>11
<1> QED
  BY <1>3, <1>11, <1>12

-----------------------------------------------------------------------------
(* The ranges of a strand. *)

Entries == [kind : Kinds, target : Addresses \cup {Elsewhere}, branches : BOOLEAN, invalid : BOOLEAN]
Strand(entries) == entries \in Seq(Entries) /\ Len(entries) <= Length + 1

\* The jumps of a strand are ranges in it.
LEMMA SetupIs ==
    ASSUME Strand(list)
    PROVE  SetupRanges \subseteq Spans
<1> SUFFICES ASSUME NEW k \in 0..Size - 1, At(k).branches, At(k).target < Size
             PROVE  (LET target == At(k).target
                     IN IF target <= k THEN Span(target, k, "backwards") ELSE Span(k, target - 1, "forwards")) \in Spans
  BY Zenon DEF SetupRanges
<1>1. At(k) \in Entries /\ Size <= Length + 1 /\ Size \in Nat /\ k \in Nat
  BY DEF Strand, At, Size
<1>2. PICK target \in Nat : target = At(k).target
  BY <1>1, LengthAssumption DEF Entries, Addresses, Elsewhere
<1>3. CASE target <= k
  <2>1. PICK r : r = Span(target, k, "backwards")
    OBVIOUS
  <2>2. r \in Spans
    BY <1>1, <1>2, <1>3, <2>1, SpanIs, LengthAssumption DEF Types
  <2> QED
    BY <1>2, <1>3, <2>1, <2>2
<1>4. CASE ~(target <= k)
  <2>1. PICK before \in Nat : before = target - 1 /\ k <= before /\ before <= Length
    BY <1>1, <1>2, <1>4, LengthAssumption
  <2>2. PICK r : r = Span(k, before, "forwards")
    OBVIOUS
  <2>3. r \in Spans
    BY <1>1, <2>1, <2>2, SpanIs DEF Types
  <2> QED
    BY <1>2, <1>4, <2>1, <2>2, <2>3
<1> QED
  BY <1>3, <1>4

\* The ranges that are written have been untangled.
LEMMA SetupNests ==
    ASSUME Strand(list)
    PROVE  Cleaned(Untangled(SetupRanges)) \subseteq Spans /\ Nested(Cleaned(Untangled(SetupRanges)))
<1>1. PICK raw \in SUBSET Spans : raw = SetupRanges
  BY SetupIs
<1>2. PICK none : none = {}
  OBVIOUS
<1>3. Untangling(raw, none)
  BY <1>2, SpansFinite, FS_Subset DEF Untangling, Nested
<1>4. [raw |-> raw, out |-> {}] \in Proper
  BY <1>2, <1>3 DEF Proper, States
<1>5. \A state \in Proper : state.raw # {} => Resolved(state) \in Proper
  BY GoesOn DEF Proper
<1>6. [raw |-> {}, out |-> Untangled(raw)] \in Proper
  BY <1>4, <1>5, UntangledKeeps
<1>7. Untangled(raw) \subseteq Spans /\ Nested(Untangled(raw))
  BY <1>6 DEF Proper, Untangling
<1>8. Cleaned(Untangled(raw)) \subseteq Untangled(raw)
  BY DEF Cleaned
<1> QED
  BY <1>1, <1>7, <1>8 DEF Nested

-----------------------------------------------------------------------------
(* While the ranges are resolved, each jump keeps a way to its target. *)

\* the jump at k to t: over the end of a range, back to the begin of a loop, or over the end of a conditional
\* range that starts with a loop the jump is in
Served(raw, out, k, t) ==
    \/ k < t /\ \E r \in raw \cup out : r.type # "backwards" /\ r.last + 1 = t /\ r.first <= k
    \/ t <= k /\ \E r \in raw \cup out : r.type = "backwards" /\ r.first = t /\ k <= r.last
    \/ t <= k /\ \E q \in raw \cup out, l \in out :
           /\ q.type = "conditional" /\ q.last + 1 = t
           /\ l.type = "backwards" /\ l.first = q.first /\ k <= l.last
\* a conditional range starts with a loop that reaches further, and where the first cluster does
Headed(raw, out) ==
    /\ \A q \in raw \cup out : q.type = "conditional" =>
           \E l \in out : l.type = "backwards" /\ l.first = q.first /\ q.last <= l.last
    /\ \A q, r \in raw : q.type = "conditional" => q.first <= r.first
\* the ranges end within the strand, and before its last entry if something follows them
Within(set, n) == \A r \in set : r.last < n /\ (r.type # "backwards" => r.last + 1 < n)

Replaces(raw, members, first, last, X, w) ==
    /\ \A q \in members : q \in Spans /\ q \in raw /\ first <= q.first /\ q.last <= last
    /\ \A q \in members : q.type = "conditional" => q.first = first
    /\ \A q \in X : q.type = "conditional" => w.type = "conditional" /\ w.last = q.last /\ w.first = q.first
    /\ \A q \in X : q.type # "backwards" => w.type # "backwards" /\ w.last = q.last
    /\ \A q \in X : q.type = "backwards" => w.type = "backwards" /\ w.first = q.first
\* What is widened starts where its cluster does, if it is conditional, and stays what it is.
LEMMA WidenedIs ==
    ASSUME NEW raw, raw \subseteq Spans, NEW out, Headed(raw, out), NEW raw2, NEW members, NEW first, NEW last,
           NEW X, NEW r, NEW w, WidensBy(raw, raw2, members, first, last, X, r, w)
    PROVE  Replaces(raw, members, first, last, X, w)
<1>1. Cuts(raw, members, first, last)
  BY DEF WidensBy
<1>2. \A q \in members : q \in Spans /\ q \in raw /\ first <= q.first /\ q.last <= last
  BY <1>1 DEF Cuts
<1>3. ASSUME NEW q \in members, q.type = "conditional"
      PROVE  q.first = first
  <2>1. PICK o \in members : o.first = first
    BY <1>1 DEF Cuts
  <2>2. q.first <= o.first
    BY <1>2, <1>3, <2>1 DEF Headed
  <2> QED
    BY <1>2, <2>1, <2>2, RangeIs
<1>4. ASSUME NEW q \in X, q.type = "conditional"
      PROVE  w.type = "conditional" /\ w.last = q.last /\ w.first = q.first
  <2>1. q \in members /\ r \in members /\ w.first = first /\ w.last = last /\ w.type = r.type
    BY DEF WidensBy
  <2>2. q.last = last /\ r.type # "backwards" /\ r.last = last
    BY <1>4, <2>1 DEF WidensBy
  <2>3. q = r \/ Precedes(r, q)
    BY <1>4, <2>1, <2>2 DEF WidensBy
  <2>4. q.first = first
    BY <1>3, <1>4, <2>1
  <2>5. ASSUME Precedes(r, q)
        PROVE  r.type = "conditional"
    <3>1. r \in Spans /\ q \in Spans /\ first <= r.first
      BY <1>2, <2>1
    <3>2. Rank(r.type) < Rank(q.type)
      BY <2>2, <2>4, <2>5, <3>1, RangeIs DEF Precedes
    <3> QED
      BY <1>4, <2>2, <3>1, <3>2, RangeIs DEF Rank, Types
  <2> QED
    BY <1>4, <2>1, <2>2, <2>3, <2>4, <2>5
<1>5. ASSUME NEW q \in X
      PROVE  /\ q.type # "backwards" => w.type # "backwards" /\ w.last = q.last
             /\ q.type = "backwards" => w.type = "backwards" /\ w.first = q.first
  BY DEF WidensBy
<1>6. \A q \in members : q.type = "conditional" => q.first = first
  BY <1>3
<1>7. \A q \in X : q.type = "conditional" => w.type = "conditional" /\ w.last = q.last /\ w.first = q.first
  BY <1>4
<1>8. /\ \A q \in X : q.type # "backwards" => w.type # "backwards" /\ w.last = q.last
      /\ \A q \in X : q.type = "backwards" => w.type = "backwards" /\ w.first = q.first
  BY <1>5
<1> QED
  BY <1>2, <1>6, <1>7, <1>8, Zenon DEF Replaces

\* A range that is not replaced by the wider one stays.
LEMMA WidenedKeeps ==
    ASSUME NEW raw, raw \subseteq Spans, NEW out, out \subseteq Spans, Headed(raw, out), NEW n \in Nat,
           Within(raw \cup out, n), NEW raw2,
           NEW members, NEW first, NEW last, NEW X, NEW r, NEW w,
           WidensBy(raw, raw2, members, first, last, X, r, w),
           NEW out2, out2 = out \cup {w}
    PROVE  /\ Headed(raw2, out2) /\ Within(raw2 \cup out2, n)
           /\ \A k \in Nat, t \in Nat : Served(raw, out, k, t) => Served(raw2, out2, k, t)
<1>1. /\ \A q \in members : q \in Spans /\ q \in raw /\ first <= q.first /\ q.last <= last
      /\ \A q \in members : q.type = "conditional" => q.first = first
      /\ \A q \in X : q.type = "conditional" => w.type = "conditional" /\ w.last = q.last /\ w.first = q.first
      /\ \A q \in X : q.type # "backwards" => w.type # "backwards" /\ w.last = q.last
      /\ \A q \in X : q.type = "backwards" => w.type = "backwards" /\ w.first = q.first
  <2>1. Replaces(raw, members, first, last, X, w)
    BY WidenedIs
  <2> QED
    BY <2>1, Zenon DEF Replaces
<1>2. /\ raw2 = raw \ X /\ X \subseteq members /\ r \in X /\ w.type = r.type /\ w.first = first /\ w.last = last
      /\ w \in Spans
  BY DEF WidensBy
<1>3. \A q \in raw \cup out : q \in raw2 \cup out2 \/ q \in X
  BY <1>2
<1>4. \A q \in raw \cup out : q \in Spans /\ q.first \in Nat /\ q.last \in Nat
  BY RangeIs
<1>5. w.first \in Nat /\ w.last \in Nat
  BY <1>2, RangeIs
<1>6. \A q \in X : first <= q.first /\ q.last <= last /\ q \in raw /\ q \in Spans
  BY <1>1, <1>2
<1>7. ASSUME NEW k \in Nat, NEW t \in Nat, Served(raw, out, k, t)
      PROVE  Served(raw2, out2, k, t)
  <2>1. CASE k < t /\ \E q \in raw \cup out : q.type # "backwards" /\ q.last + 1 = t /\ q.first <= k
    <3>1. PICK q \in raw \cup out : q.type # "backwards" /\ q.last + 1 = t /\ q.first <= k
      BY <2>1
    <3>2. CASE q \in X
      <4>1. w.type # "backwards" /\ w.last + 1 = t /\ w.first <= k
        BY <1>1, <1>2, <1>4, <1>5, <1>6, <3>1, <3>2
      <4> QED
        BY <2>1, <4>1 DEF Served
    <3>3. CASE q \in raw2 \cup out2
      BY <2>1, <3>1, <3>3 DEF Served
    <3> QED
      BY <1>3, <3>2, <3>3
  <2>2. CASE t <= k /\ \E q \in raw \cup out : q.type = "backwards" /\ q.first = t /\ k <= q.last
    <3>1. PICK q \in raw \cup out : q.type = "backwards" /\ q.first = t /\ k <= q.last
      BY <2>2
    <3>2. CASE q \in X
      <4>1. w.type = "backwards" /\ w.first = t /\ k <= w.last
        BY <1>1, <1>2, <1>4, <1>5, <1>6, <3>1, <3>2
      <4> QED
        BY <2>2, <4>1 DEF Served
    <3>3. CASE q \in raw2 \cup out2
      BY <2>2, <3>1, <3>3 DEF Served
    <3> QED
      BY <1>3, <3>2, <3>3
  <2>3. CASE t <= k /\ \E q \in raw \cup out, l \in out :
                 /\ q.type = "conditional" /\ q.last + 1 = t
                 /\ l.type = "backwards" /\ l.first = q.first /\ k <= l.last
    <3>1. PICK q \in raw \cup out, l \in out :
                 /\ q.type = "conditional" /\ q.last + 1 = t
                 /\ l.type = "backwards" /\ l.first = q.first /\ k <= l.last
      BY <2>3
    <3>2. CASE q \in X
      <4>1. w.type = "conditional" /\ w.last + 1 = t /\ l.first = w.first
        BY <1>1, <3>1, <3>2
      <4> QED
        BY <2>3, <3>1, <4>1 DEF Served
    <3>3. CASE q \in raw2 \cup out2
      BY <2>3, <3>1, <3>3 DEF Served
    <3> QED
      BY <1>3, <3>2, <3>3
  <2> QED
    BY <1>7, <2>1, <2>2, <2>3 DEF Served
<1>8. Headed(raw2, out2)
  <2>1. ASSUME NEW q \in raw2 \cup out2, q.type = "conditional"
        PROVE  \E l \in out2 : l.type = "backwards" /\ l.first = q.first /\ q.last <= l.last
    <3>1. CASE q \in raw \cup out
      BY <2>1, <3>1 DEF Headed
    <3>2. CASE q = w
      <4>1. PICK l \in out : l.type = "backwards" /\ l.first = r.first /\ r.last <= l.last
        BY <1>2, <1>6, <2>1, <3>2 DEF Headed
      <4>2. w.first = r.first /\ w.last = r.last
        BY <1>1, <1>2, <2>1, <3>2
      <4> QED
        BY <3>2, <4>1, <4>2
    <3> QED
      BY <1>2, <2>1, <3>1, <3>2
  <2>2. \A q, o \in raw2 : q.type = "conditional" => q.first <= o.first
    BY <1>2 DEF Headed
  <2> QED
    BY <2>1, <2>2 DEF Headed
<1>9. Within(raw2 \cup out2, n)
  <2>1. w.last < n /\ (w.type # "backwards" => w.last + 1 < n)
    <3>1. PICK q \in members : q.last = last
      BY Zenon DEF WidensBy, Cuts
    <3>2. w.last < n
      BY <1>1, <1>2, <3>1 DEF Within
    <3>3. w.type # "backwards" => w.last = r.last
      BY <1>1, <1>2
    <3>4. r \in raw
      BY <1>2, <1>6
    <3> QED
      BY <1>2, <3>2, <3>3, <3>4 DEF Within
  <2> QED
    BY <1>2, <2>1 DEF Within
<1> QED
  BY <1>7, <1>8, <1>9

\* So does each range but the loop that is drawn up: what jumped back to it goes by the conditional range.
LEMMA DrawnKeeps ==
    ASSUME NEW raw, raw \subseteq Spans, NEW out, out \subseteq Spans, Headed(raw, out), NEW n \in Nat,
           Within(raw \cup out, n), NEW raw2,
           NEW members, NEW first, NEW last, NEW r, NEW y, NEW w,
           DrawsBy(raw, raw2, members, first, last, r, y, w),
           NEW out2, out2 = out \cup {w}
    PROVE  /\ Headed(raw2, out2) /\ Within(raw2 \cup out2, n)
           /\ \A k \in Nat, t \in Nat : Served(raw, out, k, t) => Served(raw2, out2, k, t)
<1>1. /\ r \in members /\ r.type = "backwards" /\ r.last = last /\ first < r.first
      /\ y \in Spans /\ y.first = first /\ y.last = r.first - 1 /\ y.type = "conditional" /\ raw2 = (raw \ {r}) \cup {y}
      /\ w \in Spans /\ w.first = first /\ w.last = last /\ w.type = "backwards"
  BY DEF DrawsBy
<1>2. /\ members \subseteq raw /\ first \in Nat /\ last \in Nat /\ first <= last
      /\ \A q \in raw : q \in members <=> q.first <= last
      /\ \A q \in members : first <= q.first /\ q.last <= last
      /\ \E q \in members : q.first = first
  BY DEF DrawsBy, Cuts
<1>3. \A q \in raw \cup out : q \in Spans /\ q.first \in Nat /\ q.last \in Nat
  BY RangeIs
<1>4. y.first \in Nat /\ y.last \in Nat /\ w.first \in Nat /\ w.last \in Nat /\ r.first \in Nat /\ r.last \in Nat
      /\ r \in raw /\ r.first <= r.last
  BY <1>1, <1>2, RangeIs
<1>5. y.last + 1 = r.first /\ y.last <= w.last /\ w.first = y.first
  BY <1>1, <1>2, <1>4
<1>6. \A q \in raw \cup out : q \in raw2 \cup out2 \/ q = r
  BY <1>1
<1>7. y \in raw2 \cup out2 /\ w \in out2
  BY <1>1
<1>8. \A q \in raw : first <= q.first
  BY <1>2, <1>3
<1>9. ASSUME NEW k \in Nat, NEW t \in Nat, Served(raw, out, k, t)
      PROVE  Served(raw2, out2, k, t)
  <2>1. CASE k < t /\ \E q \in raw \cup out : q.type # "backwards" /\ q.last + 1 = t /\ q.first <= k
    <3>1. PICK q \in raw \cup out : q.type # "backwards" /\ q.last + 1 = t /\ q.first <= k
      BY <2>1
    <3>2. q \in raw2 \cup out2
      BY <1>1, <1>6, <3>1
    <3> QED
      BY <2>1, <3>1, <3>2 DEF Served
  <2>2. CASE t <= k /\ \E q \in raw \cup out : q.type = "backwards" /\ q.first = t /\ k <= q.last
    <3>1. PICK q \in raw \cup out : q.type = "backwards" /\ q.first = t /\ k <= q.last
      BY <2>2
    <3>2. CASE q = r
      <4>1. y.last + 1 = t /\ k <= w.last
        BY <1>1, <1>5, <3>1, <3>2
      <4>2. \E z \in raw2 \cup out2, l \in out2 :
                 /\ z.type = "conditional" /\ z.last + 1 = t
                 /\ l.type = "backwards" /\ l.first = z.first /\ k <= l.last
        BY <1>1, <1>5, <1>7, <4>1
      <4> QED
        BY <2>2, <4>2 DEF Served
    <3>3. CASE q \in raw2 \cup out2
      BY <2>2, <3>1, <3>3 DEF Served
    <3> QED
      BY <1>6, <3>2, <3>3
  <2>3. CASE t <= k /\ \E q \in raw \cup out, l \in out :
                 /\ q.type = "conditional" /\ q.last + 1 = t
                 /\ l.type = "backwards" /\ l.first = q.first /\ k <= l.last
    <3>1. PICK q \in raw \cup out, l \in out :
                 /\ q.type = "conditional" /\ q.last + 1 = t
                 /\ l.type = "backwards" /\ l.first = q.first /\ k <= l.last
      BY <2>3
    <3>2. q \in raw2 \cup out2 /\ l \in out2
      BY <1>1, <1>6, <3>1
    <3> QED
      BY <2>3, <3>1, <3>2 DEF Served
  <2> QED
    BY <1>9, <2>1, <2>2, <2>3 DEF Served
<1>10. Headed(raw2, out2)
  <2>1. ASSUME NEW q \in raw2 \cup out2, q.type = "conditional"
        PROVE  \E l \in out2 : l.type = "backwards" /\ l.first = q.first /\ q.last <= l.last
    <3>1. CASE q \in raw \cup out
      BY <2>1, <3>1 DEF Headed
    <3>2. CASE q = y
      BY <1>1, <1>5, <1>7, <3>2
    <3>3. CASE q = w
      BY <1>1, <2>1, <3>3
    <3> QED
      BY <1>1, <2>1, <3>1, <3>2, <3>3
  <2>2. ASSUME NEW q \in raw2, NEW o \in raw2, q.type = "conditional"
        PROVE  q.first <= o.first
    <3>1. PICK b \in members : b.first = first
      BY <1>2
    <3>2. CASE q = y
      BY <1>1, <1>4, <1>8, <3>2
    <3>3. CASE q \in raw
      <4>1. q.first <= b.first /\ b \in raw
        BY <1>2, <2>2, <3>1, <3>3 DEF Headed
      <4>2. q.first <= first /\ q.first \in Nat
        BY <1>3, <3>1, <3>3, <4>1
      <4>3. CASE o = y
        BY <1>1, <4>2, <4>3
      <4>4. CASE o \in raw
        BY <2>2, <3>3, <4>4 DEF Headed
      <4> QED
        BY <1>1, <2>2, <4>3, <4>4
    <3> QED
      BY <1>1, <2>2, <3>2, <3>3
  <2> QED
    BY <2>1, <2>2 DEF Headed
<1>11. Within(raw2 \cup out2, n)
  <2>1. r.last < n /\ \A q \in raw \cup out : q.last < n /\ (q.type # "backwards" => q.last + 1 < n)
    BY <1>4 DEF Within
  <2>2. w.last < n /\ w.type = "backwards" /\ y.last + 1 < n /\ y.last < n
    BY <1>1, <1>4, <1>5, <2>1
  <2> QED
    BY <1>1, <2>1, <2>2 DEF Within
<1> QED
  BY <1>9, <1>10, <1>11

\* A pass of the loop keeps all of it.
LEMMA PassKeeps ==
    ASSUME NEW raw, raw \subseteq Spans, NEW out, out \subseteq Spans, Headed(raw, out), NEW n \in Nat,
           Within(raw \cup out, n), NEW raw2, NEW out2, Passes(raw, out, raw2, out2)
    PROVE  /\ Headed(raw2, out2) /\ Within(raw2 \cup out2, n)
           /\ \A k \in Nat, t \in Nat : Served(raw, out, k, t) => Served(raw2, out2, k, t)
<1>1. PICK members, first, last, r, w :
        /\ out2 = out \cup {w}
        /\ \/ \E X : WidensBy(raw, raw2, members, first, last, X, r, w)
           \/ \E y : DrawsBy(raw, raw2, members, first, last, r, y, w)
  BY Zenon DEF Passes
<1>2. CASE \E X : WidensBy(raw, raw2, members, first, last, X, r, w)
  <2>1. PICK X : WidensBy(raw, raw2, members, first, last, X, r, w)
    BY <1>2
  <2> QED
    BY <1>1, <2>1, WidenedKeeps, Zenon
<1>3. CASE \E y : DrawsBy(raw, raw2, members, first, last, r, y, w)
  <2>1. PICK y : DrawsBy(raw, raw2, members, first, last, r, y, w)
    BY <1>3
  <2> QED
    BY <1>1, <2>1, DrawnKeeps, Zenon
<1> QED
  BY <1>1, <1>2, <1>3

\* one loop is left for each place
OneLoop(set) == \A r, o \in set : r.type = "backwards" /\ o.type = "backwards" /\ r.first = o.first => r = o

\* The cleanup keeps the longest loop of those that begin at the same place.
LEMMA CleanedIs ==
    ASSUME NEW out, out \subseteq Spans, NEW set, set = Cleaned(out)
    PROVE  /\ set \subseteq out /\ OneLoop(set)
           /\ \A r \in out : r.type # "backwards" => r \in set
           /\ \A r \in out : r.type = "backwards" =>
                  \E l \in set : l.type = "backwards" /\ l.first = r.first /\ r.last <= l.last
<1>1. /\ set \subseteq out
      /\ \A r \in out : r.type # "backwards" => r \in set
  BY DEF Cleaned
<1>2. OneLoop(set)
  <2> SUFFICES ASSUME NEW r \in set, NEW o \in set, r.type = "backwards", o.type = "backwards", r.first = o.first, r # o
               PROVE  FALSE
    BY DEF OneLoop
  <2>1. ~Precedes(r, o) /\ ~Precedes(o, r)
    BY DEF Cleaned
  <2>2. r \in Spans /\ o \in Spans
    BY <1>1
  <2> QED
    BY <2>1, <2>2, OrderTotal
<1>3. ASSUME NEW r \in out, r.type = "backwards"
      PROVE  \E l \in set : l.type = "backwards" /\ l.first = r.first /\ r.last <= l.last
  <2>1. PICK S : S = {o \in out : o.type = "backwards" /\ o.first = r.first}
    OBVIOUS
  <2>2. S \subseteq Spans /\ r \in S /\ S # {} /\ IsFiniteSet(S)
    BY <1>3, <2>1, SpansFinite, FS_Subset
  <2>3. PICK l \in S : \A other \in S : l = other \/ Precedes(l, other)
    BY <2>2, EarliestIs
  <2>4. l \in out /\ l.type = "backwards" /\ l.first = r.first
    BY <2>1
  <2>5. r.last <= l.last
    BY <2>2, <2>3, <2>4, RangeIs DEF Precedes
  <2>6. ASSUME NEW other \in out, other.type = "backwards", other.first = l.first, Precedes(other, l)
        PROVE  FALSE
    <3>1. other \in S
      BY <2>1, <2>4, <2>6
    <3>2. Precedes(l, l) \/ Precedes(l, other)
      BY <2>3, <2>6, <3>1
    <3>3. Rank(l.type) \in Nat /\ Rank(other.type) \in Nat
      BY <2>4, <2>6 DEF Rank
    <3>4. l \in Spans /\ other \in Spans
      BY <2>2, <3>1
    <3> QED
      BY <2>6, <3>2, <3>3, <3>4, RangeIs DEF Precedes
  <2>7. l \in set
    BY <2>4, <2>6 DEF Cleaned
  <2> QED
    BY <2>4, <2>5, <2>7
<1> QED
  BY <1>1, <1>2, <1>3

\* the ranges by which a strand l is written
Planned(F, l) ==
    /\ F \subseteq Spans /\ IsFiniteSet(F) /\ Nested(F) /\ OneLoop(F) /\ Headed({}, F) /\ Within(F, Len(l))
    /\ \A k \in 0..Len(l) - 1 : l[k + 1].branches /\ l[k + 1].target < Len(l) => Served({}, F, k, l[k + 1].target)

\* What is taken out of the jumps serves them.
LEMMA SetupServes ==
    ASSUME Strand(list), NEW raw, raw = SetupRanges, NEW none, none = {}
    PROVE  /\ Headed(raw, none) /\ Within(raw \cup none, Size)
           /\ \A k \in 0..Size - 1 : At(k).branches /\ At(k).target < Size => Served(raw, none, k, At(k).target)
<1> DEFINE Ways(k, target) == IF target <= k THEN Span(target, k, "backwards") ELSE Span(k, target - 1, "forwards")
           K == {n \in 0..Size - 1 : At(n).branches /\ At(n).target < Size}
<1>1. Size \in Nat /\ \A k \in K : k \in Nat /\ At(k).target \in Nat
  <2>1. \A k \in 0..Size - 1 : At(k) \in Entries
    BY DEF Strand, At, Size
  <2> QED
    BY <2>1, LengthAssumption DEF Strand, Size, Entries, Addresses, Elsewhere
<1>2. raw = {Ways(k, At(k).target) : k \in K}
  BY Zenon DEF SetupRanges
<1> HIDE DEF K
<1>3. ASSUME NEW k \in K
      PROVE  /\ Ways(k, At(k).target).type # "conditional" /\ Ways(k, At(k).target).last < Size
             /\ Ways(k, At(k).target).type # "backwards" => Ways(k, At(k).target).last + 1 < Size
             /\ Served(raw, none, k, At(k).target)
  <2>1. PICK t \in Nat : t = At(k).target /\ t < Size /\ k < Size
    BY <1>1 DEF K
  <2>2. PICK w \in raw : w = Ways(k, t)
    BY <1>2, <2>1
  <2>3. CASE t <= k
    <3>1. w.type = "backwards" /\ w.first = t /\ w.last = k
      BY <2>2, <2>3 DEF Span
    <3>2. Served(raw, none, k, t)
      BY <1>1, <2>3, <3>1 DEF Served
    <3> QED
      BY <2>1, <2>2, <3>1, <3>2
  <2>4. CASE ~(t <= k)
    <3>1. w.type = "forwards" /\ w.first = k /\ w.last = t - 1
      BY <2>2, <2>4 DEF Span
    <3>2. k < t /\ w.last + 1 = t /\ w.first <= k /\ w.last < Size
      BY <1>1, <2>1, <2>4, <3>1
    <3>3. Served(raw, none, k, t)
      BY <3>1, <3>2 DEF Served
    <3> QED
      BY <2>1, <2>2, <3>1, <3>2, <3>3
  <2> QED
    BY <2>3, <2>4
<1>4. \A r \in raw : r.type # "conditional" /\ r.last < Size /\ (r.type # "backwards" => r.last + 1 < Size)
  BY <1>2, <1>3
<1>5. Headed(raw, none) /\ Within(raw \cup none, Size)
  BY <1>4 DEF Headed, Within
<1> QED
  BY <1>3, <1>5 DEF K

\* The ranges of setupRanges serve all jumps of the strand.
LEMMA SetupPlans ==
    ASSUME Strand(list)
    PROVE  Planned(Cleaned(Untangled(SetupRanges)), list)
<1>1. PICK raw \in SUBSET Spans : raw = SetupRanges
  BY SetupIs
<1>2. PICK none : none = {}
  OBVIOUS
<1>3. Size \in Nat
  BY DEF Strand, Size
<1>4. PICK J : J = {j \in Nat \X Nat : Served(raw, none, j[1], j[2])}
  OBVIOUS
<1> DEFINE Keeps(state) == /\ Headed(state.raw, state.out) /\ Within(state.raw \cup state.out, Size)
                           /\ \A j \in J : Served(state.raw, state.out, j[1], j[2])
           Good == {state \in Proper : Keeps(state)}
<1>5. [raw |-> raw, out |-> none] \in Good
  <2>1. Untangling(raw, none)
    BY <1>2, SpansFinite, FS_Subset DEF Untangling, Nested
  <2>2. [raw |-> raw, out |-> none] \in Proper
    BY <1>2, <2>1 DEF Proper, States
  <2>3. Headed(raw, none) /\ Within(raw \cup none, Size)
    BY <1>1, <1>2, SetupServes, Zenon
  <2> QED
    BY <1>4, <2>2, <2>3
<1>6. ASSUME NEW state \in Good, state.raw # {}
      PROVE  Resolved(state) \in Good
  <2>1. PICK after : after = Resolved(state)
    OBVIOUS
  <2>2. state \in States /\ state \in Proper /\ after \in Proper
    BY <1>6, <2>1, GoesOn DEF Proper
  <2>3. IsFiniteSet(state.raw) /\ state.raw \subseteq Spans /\ state.out \subseteq Spans
    BY <2>2, SpansFinite, FS_Subset DEF States
  <2>4. Passes(state.raw, state.out, after.raw, after.out)
    BY <1>6, <2>1, <2>3, ResolvedIs
  <2>5. /\ Headed(after.raw, after.out) /\ Within(after.raw \cup after.out, Size)
        /\ \A k \in Nat, t \in Nat : Served(state.raw, state.out, k, t) => Served(after.raw, after.out, k, t)
    BY <1>3, <1>6, <2>3, <2>4, PassKeeps
  <2>6. \A j \in J : Served(after.raw, after.out, j[1], j[2])
    BY <1>4, <1>6, <2>5
  <2>7. after \in Good
    BY <2>2, <2>5, <2>6
  <2> HIDE DEF Good
  <2> QED
    BY <2>1, <2>7
<1>7. PICK out : out = Untangled(raw)
  OBVIOUS
<1>8. [raw |-> none, out |-> out] \in Good
  <2>1. Good \subseteq Proper /\ [raw |-> raw, out |-> {}] \in Good
    BY <1>2, <1>5
  <2>2. \A state \in Good : state.raw # {} => Resolved(state) \in Good
    BY <1>6
  <2> HIDE DEF Good
  <2> QED
    BY <1>2, <1>7, <2>1, <2>2, UntangledKeeps
<1>9. /\ Headed(none, out) /\ Within(none \cup out, Size) /\ out \subseteq Spans /\ Nested(out)
      /\ \A k \in Nat, t \in Nat : Served(raw, none, k, t) => Served(none, out, k, t)
  <2>1. PICK end : end = [raw |-> none, out |-> out]
    OBVIOUS
  <2>2. end \in Proper /\ Keeps(end) /\ end.raw = none /\ end.out = out
    BY <1>8, <2>1
  <2>3. Headed(none, out) /\ Within(none \cup out, Size) /\ out \subseteq Spans /\ Nested(out)
    BY <2>2 DEF Proper, Untangling
  <2>4. ASSUME NEW k \in Nat, NEW t \in Nat, Served(raw, none, k, t)
        PROVE  Served(none, out, k, t)
    <3>1. PICK j : j = <<k, t>>
      OBVIOUS
    <3>2. j[1] = k /\ j[2] = t /\ j \in Nat \X Nat
      BY <3>1
    <3>3. j \in J
      BY <1>4, <2>4, <3>2
    <3>4. Served(none, out, j[1], j[2])
      BY <2>2, <3>3
    <3> QED
      BY <3>2, <3>4
  <2> QED
    BY <2>3, <2>4
<1>10. PICK F : F = Cleaned(out)
  OBVIOUS
<1>11. /\ F \subseteq out /\ OneLoop(F)
       /\ \A r \in out : r.type # "backwards" => r \in F
       /\ \A r \in out : r.type = "backwards" =>
              \E l \in F : l.type = "backwards" /\ l.first = r.first /\ r.last <= l.last
  BY <1>9, <1>10, CleanedIs
<1>12. F \subseteq Spans /\ IsFiniteSet(F) /\ Nested(F) /\ Within(F, Size)
  BY <1>2, <1>9, <1>11, SpansFinite, FS_Subset DEF Nested, Within
<1>13. \A r \in out : r.first \in Nat /\ r.last \in Nat
  BY <1>9, RangeIs
<1>14. Headed({}, F)
  <2>1. ASSUME NEW q \in F, q.type = "conditional"
        PROVE  \E l \in F : l.type = "backwards" /\ l.first = q.first /\ q.last <= l.last
    <3>1. PICK m \in out : m.type = "backwards" /\ m.first = q.first /\ q.last <= m.last
      BY <1>9, <1>11, <2>1 DEF Headed
    <3>2. PICK l \in F : l.type = "backwards" /\ l.first = m.first /\ m.last <= l.last
      BY <1>11, <3>1
    <3> QED
      BY <1>11, <1>13, <3>1, <3>2
  <2> QED
    BY <2>1 DEF Headed
<1>15. ASSUME NEW k \in Nat, NEW t \in Nat, Served(none, out, k, t)
       PROVE  Served({}, F, k, t)
  <2>1. CASE k < t /\ \E r \in none \cup out : r.type # "backwards" /\ r.last + 1 = t /\ r.first <= k
    BY <1>2, <1>11, <2>1 DEF Served
  <2>2. CASE t <= k /\ \E r \in none \cup out : r.type = "backwards" /\ r.first = t /\ k <= r.last
    <3>1. PICK r \in out : r.type = "backwards" /\ r.first = t /\ k <= r.last
      BY <1>2, <2>2
    <3>2. PICK l \in F : l.type = "backwards" /\ l.first = r.first /\ r.last <= l.last
      BY <1>11, <3>1
    <3>3. l.type = "backwards" /\ l.first = t /\ k <= l.last
      BY <1>11, <1>13, <3>1, <3>2
    <3> QED
      BY <2>2, <3>3 DEF Served
  <2>3. CASE t <= k /\ \E q \in none \cup out, l \in out :
                 /\ q.type = "conditional" /\ q.last + 1 = t
                 /\ l.type = "backwards" /\ l.first = q.first /\ k <= l.last
    <3>1. PICK q \in out, m \in out : /\ q.type = "conditional" /\ q.last + 1 = t
                                      /\ m.type = "backwards" /\ m.first = q.first /\ k <= m.last
      BY <1>2, <2>3
    <3>2. PICK l \in F : l.type = "backwards" /\ l.first = m.first /\ m.last <= l.last
      BY <1>11, <3>1
    <3>3. q \in F /\ l.first = q.first /\ k <= l.last
      BY <1>11, <1>13, <3>1, <3>2
    <3> QED
      BY <2>3, <3>1, <3>2, <3>3 DEF Served
  <2> QED
    BY <1>15, <2>1, <2>2, <2>3 DEF Served
<1>16. ASSUME NEW k \in 0..Len(list) - 1, list[k + 1].branches, list[k + 1].target < Len(list)
       PROVE  Served({}, F, k, list[k + 1].target)
  <2>1. PICK t : t = list[k + 1].target
    OBVIOUS
  <2>2. list[k + 1] \in Entries
    BY DEF Strand
  <2>3. t \in Nat /\ k \in Nat
    BY <2>1, <2>2, LengthAssumption DEF Entries, Addresses, Elsewhere
  <2>4. Served(raw, none, k, At(k).target)
    <3>1. k \in 0..Size - 1 /\ At(k).branches /\ At(k).target < Size
      BY <1>16 DEF At, Size
    <3> QED
      BY <1>1, <1>2, <3>1, SetupServes
  <2>5. Served(raw, none, k, t)
    BY <2>1, <2>4 DEF At
  <2> QED
    BY <1>9, <1>15, <2>1, <2>3, <2>5
<1> QED
  BY <1>1, <1>7, <1>10, <1>11, <1>12, <1>14, <1>16 DEF Planned, Size
-----------------------------------------------------------------------------
(* The conditional ranges that start together are numbered, the longest first. *)

Conds(F, f) == {q \in F : q.type = "conditional" /\ q.first = f}
Total(F, f) == Cardinality(Conds(F, f))
Number(F, r) == Cardinality({q \in Conds(F, r.first) : q.last > r.last})
\* by which value the dispatch at the begin of a loop leads to the end of a range
IndexOf(F, r) == IF Total(F, r.first) = 1 THEN 1 ELSE Number(F, r)

\* Each has a number below their count.
LEMMA NumberIs ==
    ASSUME NEW F, IsFiniteSet(F), F \subseteq Spans, NEW r \in F, r.type = "conditional"
    PROVE  /\ Number(F, r) \in Nat /\ Total(F, r.first) \in Nat /\ Number(F, r) < Total(F, r.first)
<1>1. PICK C : C = Conds(F, r.first)
  OBVIOUS
<1>2. PICK B : B = {q \in C : q.last > r.last}
  OBVIOUS
<1>3. r \in C /\ C \subseteq F
  BY <1>1 DEF Conds
<1>4. B \subseteq C \ {r} /\ r \in Spans
  BY <1>2, <1>3, RangeIs
<1>5. IsFiniteSet(C) /\ IsFiniteSet(C \ {r})
  BY <1>3, FS_Subset
<1>6. Cardinality(C \ {r}) = Cardinality(C) - 1 /\ Cardinality(C) \in Nat
  BY <1>3, <1>5, FS_RemoveElement, FS_CardinalityType
<1>7. Cardinality(B) <= Cardinality(C \ {r}) /\ Cardinality(B) \in Nat
  BY <1>4, <1>5, FS_Subset, FS_CardinalityType
<1>8. Number(F, r) = Cardinality(B) /\ Total(F, r.first) = Cardinality(C)
  BY <1>1, <1>2 DEF Number, Total
<1> QED
  BY <1>6, <1>7, <1>8

\* A shorter one has a higher number.
LEMMA NumberGrows ==
    ASSUME NEW F, IsFiniteSet(F), F \subseteq Spans, NEW r \in F, NEW q \in F, r.type = "conditional",
           q.type = "conditional", r.first = q.first, r.last < q.last
    PROVE  Number(F, q) < Number(F, r)
<1>1. PICK C : C = Conds(F, r.first)
  OBVIOUS
<1>2. PICK A, B : A = {o \in C : o.last > q.last} /\ B = {o \in C : o.last > r.last}
  OBVIOUS
<1>3. C \subseteq F /\ q \in C
  BY <1>1 DEF Conds
<1>4. \A o \in F : o.last \in Nat
  BY RangeIs
<1>5. A \subseteq B \ {q} /\ q \in B /\ B \subseteq C
  BY <1>2, <1>3, <1>4
<1>6. IsFiniteSet(B) /\ IsFiniteSet(B \ {q})
  BY <1>3, <1>5, FS_Subset
<1>7. Cardinality(B \ {q}) = Cardinality(B) - 1 /\ Cardinality(B) \in Nat
  BY <1>5, <1>6, FS_RemoveElement, FS_CardinalityType
<1>8. Cardinality(A) <= Cardinality(B \ {q}) /\ Cardinality(A) \in Nat
  BY <1>5, <1>6, FS_Subset, FS_CardinalityType
<1>9. Number(F, q) = Cardinality(A) /\ Number(F, r) = Cardinality(B)
  BY <1>1, <1>2 DEF Number
<1> QED
  BY <1>7, <1>8, <1>9

\* No two have the same number.
LEMMA NumberUnique ==
    ASSUME NEW F, IsFiniteSet(F), F \subseteq Spans, NEW r \in F, NEW q \in F, r.type = "conditional",
           q.type = "conditional", r.first = q.first, Number(F, r) = Number(F, q)
    PROVE  r = q
<1>1. r \in Spans /\ q \in Spans /\ r.last \in Nat /\ q.last \in Nat
  BY RangeIs
<1>2. Number(F, r) \in Nat
  BY NumberIs
<1>3. ~(r.last < q.last)
  BY <1>2, NumberGrows
<1>4. ~(q.last < r.last)
  BY <1>2, NumberGrows
<1>5. r.last = q.last
  BY <1>1, <1>3, <1>4
<1> QED
  BY <1>1, <1>5 DEF Spans

-----------------------------------------------------------------------------
(* Code that is well built.  en gives the constructs that are open behind a place, own the range of a construct, *)
(* at the address of what comes next. *)

IsOpen(op) == op[1] \in {"loop", "block"}
Gives(op) == op[1] = "const" \/ (op[1] \in {"loop", "block"} /\ op[2])
Valued(c, p) == p > 1 /\ Gives(c[p - 1])

\* what leads to t behind the begin of a loop at f
Chooses(F, f, value, t) ==
    /\ value \in Nat
    /\ \/ value = DefaultExit(Total(F, f)) /\ t = f
       \/ \E r \in Conds(F, f) : value = IndexOf(F, r) /\ t = r.last + 1
\* a branch to one of the constructs in open leads to t
Landing(F, c, open, own, level, conditional, value, t) ==
    /\ level \in 1..Len(open)
    /\ \/ conditional = FALSE /\ c[open[level]][1] = "block" /\ own[open[level]].last + 1 = t
       \/ conditional = FALSE /\ c[open[level]] = <<"loop", FALSE>> /\ own[open[level]].first = t
       \/ conditional = TRUE /\ c[open[level]] = <<"loop", TRUE>> /\ Chooses(F, own[open[level]].first, value, t)
\* a dispatch at f has the conditional ranges that start there, in order
Labelled(F, c, open, own, labels, f) ==
    /\ labels \in Seq(Nat) /\ Len(labels) = Total(F, f) /\ Len(labels) > 0
    /\ \A j \in 1..Len(labels) :
           /\ labels[j] \in 1..Len(open) /\ c[open[labels[j]]][1] = "block"
           /\ own[open[labels[j]]] \in Conds(F, f) /\ Number(F, own[open[labels[j]]]) = j - 1

FineInst(F, l, c, en, at, own, p) ==
    /\ c[p][1] = "inst" /\ c[p][2] = at[p] /\ at[p] < Len(l)
    /\ l[at[p] + 1].branches /\ l[at[p] + 1].target < Len(l) =>
           Landing(F, c, en[p], own, c[p][3].target, c[p][3].conditional, c[p][3].index, l[at[p] + 1].target)
FineEnd(c, en, at, own, p) ==
    /\ c[p] = <<"end">> /\ en[p - 1] # <<>>
    /\ c[Last(en[p - 1])][1] = "block" => own[Last(en[p - 1])].last + 1 = at[p]
FineOpen(F, c, at, own, p) ==
    /\ IsOpen(c[p]) /\ c[p] = <<c[p][1], c[p][2]>> /\ c[p][2] \in BOOLEAN
    /\ own[p] \in F /\ own[p].first = at[p] /\ (c[p][1] = "loop" <=> own[p].type = "backwards")
FineConst(F, c, at, p) == c[p][1] = "const" /\ c[p][2] = DefaultExit(Total(F, at[p])) /\ Total(F, at[p]) > 0
FineDispatch(F, c, en, at, own, p) == c[p][1] = "dispatch" /\ Labelled(F, c, en[p], own, c[p][2], at[p])
Fine(F, l, c, en, at, own, p) ==
    /\ en[p] \in Seq(1..p)
    /\ en[p] = IF IsOpen(c[p]) THEN Append(en[p - 1], p) ELSE IF c[p][1] = "end" THEN Front(en[p - 1]) ELSE en[p - 1]
    /\ at[p] \in Nat /\ at[p + 1] = IF c[p][1] = "inst" THEN at[p] + 1 ELSE at[p]
    /\ Valued(c, p) <=> Takes(c[p])
    /\ \/ FineInst(F, l, c, en, at, own, p)
       \/ c[p][1] = "stub" /\ c[p][2] = at[p]
       \/ FineEnd(c, en, at, own, p)
       \/ FineOpen(F, c, at, own, p)
       \/ FineConst(F, c, at, p)
       \/ FineDispatch(F, c, en, at, own, p)
Built(F, l, c, en, at, own) ==
    /\ Len(c) \in Nat /\ DOMAIN c = 1..Len(c) /\ en[0] = <<>> /\ at[1] = 0
    /\ \A p \in 1..Len(c) : Fine(F, l, c, en, at, own, p)

\* the code is complete
Finished(F, en, at, own) ==
    /\ IsFiniteSet(F) /\ F \subseteq Spans /\ Built(F, list, code, en, at, own)
    /\ Len(code) > 0 /\ code[Len(code)][1] = "stub" /\ en[Len(code)] = <<>>

\* What kind of instruction stands at a place.
LEMMA KindIs ==
    ASSUME NEW F, NEW l, NEW c, NEW en, NEW at, NEW own, NEW p, Fine(F, l, c, en, at, own, p)
    PROVE  /\ c[p][1] \in {"inst", "stub", "end", "loop", "block", "const", "dispatch"}
           /\ c[p][1] = "inst" => FineInst(F, l, c, en, at, own, p)
           /\ c[p][1] = "stub" => c[p][2] = at[p]
           /\ c[p][1] = "end" => FineEnd(c, en, at, own, p)
           /\ IsOpen(c[p]) => FineOpen(F, c, at, own, p)
           /\ c[p][1] = "const" => FineConst(F, c, at, p)
           /\ c[p][1] = "dispatch" => FineDispatch(F, c, en, at, own, p)
<1>1. FineInst(F, l, c, en, at, own, p) => c[p][1] = "inst"
  BY DEF FineInst
<1>2. FineEnd(c, en, at, own, p) => c[p][1] = "end"
  BY DEF FineEnd
<1>3. FineOpen(F, c, at, own, p) => c[p][1] \in {"loop", "block"}
  BY DEF FineOpen, IsOpen
<1>4. FineConst(F, c, at, p) => c[p][1] = "const"
  BY DEF FineConst
<1>5. FineDispatch(F, c, en, at, own, p) => c[p][1] = "dispatch"
  BY DEF FineDispatch
<1>6. \/ FineInst(F, l, c, en, at, own, p) \/ (c[p][1] = "stub" /\ c[p][2] = at[p]) \/ FineEnd(c, en, at, own, p)
      \/ FineOpen(F, c, at, own, p) \/ FineConst(F, c, at, p) \/ FineDispatch(F, c, en, at, own, p)
  BY DEF Fine
<1>7. IsOpen(c[p]) <=> c[p][1] \in {"loop", "block"}
  BY DEF IsOpen
<1> QED
  BY <1>1, <1>2, <1>3, <1>4, <1>5, <1>6, <1>7

\* The constructs that WebAssembly sees open are those of the construction.
LEMMA EnclosingIs ==
    ASSUME NEW F, NEW en, NEW at, NEW own, Built(F, list, code, en, at, own)
    PROVE  \A p \in 0..Len(code) : Enclosing[p] = en[p]
<1> DEFINE IsEn(f) == f = [p \in 0..Len(code) |->
            IF p = 0 THEN <<>>
            ELSE IF code[p][1] \in {"loop", "block"} THEN Append(f[p - 1], p)
            ELSE IF code[p][1] = "end" THEN Front(f[p - 1]) ELSE f[p - 1]]
<1>1. PICK n \in Nat : n = Len(code)
  BY DEF Built
<1>2. PICK g : g = [p \in 0..n |-> en[p]]
  OBVIOUS
<1>3. en[0] = <<>> /\ \A p \in 1..n : Fine(F, list, code, en, at, own, p)
  BY <1>1 DEF Built
<1>4. ASSUME NEW p \in 0..n, p # 0
      PROVE  en[p] = IF code[p][1] \in {"loop", "block"} THEN Append(en[p - 1], p)
                     ELSE IF code[p][1] = "end" THEN Front(en[p - 1]) ELSE en[p - 1]
  <2>1. Fine(F, list, code, en, at, own, p)
    BY <1>3, <1>4
  <2> QED
    BY <2>1, Zenon DEF Fine, IsOpen
<1>5. IsEn(g)
  <2>1. \A p \in 0..n : p # 0 => p - 1 \in 0..n
    BY <1>1
  <2>2. \A p \in 0..n : g[p] = en[p] /\ (p # 0 => g[p - 1] = en[p - 1])
    BY <1>2, <2>1
  <2>3. \A p \in 0..n : g[p] = IF p = 0 THEN <<>>
            ELSE IF code[p][1] \in {"loop", "block"} THEN Append(g[p - 1], p)
            ELSE IF code[p][1] = "end" THEN Front(g[p - 1]) ELSE g[p - 1]
    BY <1>3, <1>4, <2>2
  <2> QED
    BY <1>1, <1>2, <2>3
<1>6. PICK f : f = Enclosing
  OBVIOUS
<1>7. IsEn(f)
  <2>1. f = CHOOSE h : IsEn(h)
    BY <1>6, Zenon DEF Enclosing
  <2> HIDE DEF IsEn
  <2> QED
    BY <1>5, <2>1
<1>8. \A p \in 0..n : f[p] = IF p = 0 THEN <<>>
            ELSE IF code[p][1] \in {"loop", "block"} THEN Append(f[p - 1], p)
            ELSE IF code[p][1] = "end" THEN Front(f[p - 1]) ELSE f[p - 1]
  BY <1>1, <1>7
<1> DEFINE T == {k \in Nat : k <= n => f[k] = en[k]}
<1> HIDE DEF IsEn
<1>9. 0 \in T
  BY <1>1, <1>3, <1>8
<1>10. ASSUME NEW k \in Nat, k \in T
       PROVE  k + 1 \in T
  <2>1. CASE k + 1 <= n
    <3>1. PICK p \in 0..n : p = k + 1 /\ p # 0 /\ p - 1 = k
      BY <1>1, <2>1
    <3>2. f[k] = en[k]
      BY <1>1, <1>10, <2>1
    <3>3. f[p] = en[p]
      BY <1>4, <1>8, <3>1, <3>2
    <3> QED
      BY <3>1, <3>3
  <2> QED
    BY <1>1, <2>1
<1>11. \A k \in Nat : k \in T
  BY <1>9, <1>10, NumberInduction
<1> QED
  BY <1>1, <1>6, <1>11

\* Each construct is closed, by an end that has it as the innermost one.
LEMMA AllClosed ==
    ASSUME NEW F, NEW en, NEW at, NEW own, Finished(F, en, at, own), NEW x \in 1..Len(code), IsOpen(code[x])
    PROVE  \E e \in x..Len(code) : code[e] = <<"end">> /\ en[e] = Front(en[x]) /\ en[e - 1] = en[x]
<1>1. PICK n \in Nat : n = Len(code)
  BY DEF Finished, Built
<1>2. en[0] = <<>> /\ \A p \in 1..n : Fine(F, list, code, en, at, own, p)
  BY <1>1 DEF Finished, Built
<1> DEFINE Ends(e) == code[e] = <<"end">> /\ en[e] = Front(en[x]) /\ en[e - 1] = en[x]
           Begins(p) == /\ Len(en[x]) \in Nat /\ Len(en[x]) >= 1 /\ Len(en[x]) <= Len(en[p])
                        /\ \A k \in 1..Len(en[x]) : en[p][k] = en[x][k]
           T == {p \in Nat : x <= p /\ p <= n => Begins(p) \/ \E e \in x..p : Ends(e)}
<1>3. x \in Nat /\ x <= n /\ x >= 1
  BY <1>1
<1>4. \A p \in 0..n : en[p] \in Seq(Nat)
  <2>1. ASSUME NEW p \in 1..n
        PROVE  en[p] \in Seq(Nat)
    <3>1. en[p] \in Seq(1..p)
      BY <1>2, <2>1, Zenon DEF Fine
    <3> QED
      BY <3>1
  <2>2. en[0] \in Seq(Nat)
    BY <1>2, EmptySeq, Zenon
  <2>3. \A p \in 0..n : p = 0 \/ p \in 1..n
    BY <1>1
  <2> QED
    BY <2>1, <2>2, <2>3
<1>5. Begins(x)
  <2>0. Fine(F, list, code, en, at, own, x)
    BY <1>2, <1>3
  <2>1. en[x] = Append(en[x - 1], x)
    BY <2>0, Zenon DEF Fine
  <2>2. en[x - 1] \in Seq(Nat)
    BY <1>3, <1>4
  <2> QED
    BY <1>3, <2>1, <2>2
<1>6. ASSUME NEW p \in Nat, p \in T
      PROVE  p + 1 \in T
  <2>1. CASE p + 1 <= x
    BY <1>3, <1>5, <2>1
  <2>2. CASE x <= p /\ p + 1 <= n
    <3>1. PICK q \in 1..n : q = p + 1 /\ q - 1 = p
      BY <1>3, <2>2
    <3>2. Fine(F, list, code, en, at, own, q)
      BY <1>2
    <3>3. Begins(p) \/ \E e \in x..p : Ends(e)
      BY <1>1, <1>6, <2>2
    <3>4. ASSUME \E e \in x..p : Ends(e)
          PROVE  \E e \in x..q : Ends(e)
      <4>1. PICK e \in x..p : Ends(e)
        BY <3>4
      <4>2. e \in x..q
        BY <1>3, <3>1
      <4> QED
        BY <4>1, <4>2, Zenon
    <3>5. ASSUME Begins(p)
          PROVE  Begins(q) \/ \E e \in x..q : Ends(e)
      <4>1. PICK a, b, s : a = en[p] /\ b = en[q] /\ s = en[x]
        OBVIOUS
      <4>2. a \in Seq(Nat) /\ b \in Seq(Nat) /\ s \in Seq(Nat)
        BY <1>3, <1>4, <2>2, <4>1
      <4>3. Len(s) >= 1 /\ Len(s) <= Len(a) /\ \A k \in 1..Len(s) : a[k] = s[k]
        BY <3>5, <4>1
      <4>4. CASE IsOpen(code[q])
        <5>1. b = Append(a, q)
          BY <3>1, <3>2, <4>1, <4>4 DEF Fine
        <5>2. Len(s) <= Len(b) /\ \A k \in 1..Len(s) : b[k] = s[k]
          BY <4>2, <4>3, <5>1
        <5> QED
          BY <4>1, <4>2, <4>3, <5>2
      <4>5. CASE code[q][1] = "end"
        <5>1. b = Front(a) /\ code[q] = <<"end">>
          <6>1. ~IsOpen(code[q])
            BY <4>5 DEF IsOpen
          <6>2. b = Front(a)
            BY <3>1, <3>2, <4>1, <4>5, <6>1, Zenon DEF Fine
          <6>3. FineEnd(code, en, at, own, q)
            BY <3>2, <4>5, KindIs
          <6> QED
            BY <6>2, <6>3 DEF FineEnd
        <5>2. CASE Len(s) < Len(a)
          <6>1. Len(s) <= Len(b) /\ \A k \in 1..Len(s) : b[k] = s[k]
            BY <4>2, <4>3, <5>1, <5>2 DEF Front
          <6> QED
            BY <4>1, <4>2, <4>3, <6>1
        <5>3. CASE Len(s) = Len(a)
          <6>1. \A k \in 1..Len(a) : a[k] = s[k]
            BY <4>3, <5>3
          <6>2. a = s
            BY <4>2, <5>3, <6>1, SeqEqual
          <6>3. Ends(q)
            BY <3>1, <4>1, <5>1, <6>2
          <6> QED
            BY <1>3, <2>2, <3>1, <6>3
        <5> QED
          BY <4>2, <4>3, <5>2, <5>3
      <4>6. CASE ~IsOpen(code[q]) /\ code[q][1] # "end"
        <5>1. b = a
          BY <3>1, <3>2, <4>1, <4>6, Zenon DEF Fine
        <5> QED
          BY <4>1, <4>2, <4>3, <5>1
      <4> QED
        BY <4>4, <4>5, <4>6
    <3> HIDE DEF Begins, Ends
    <3>6. Begins(q) \/ \E e \in x..q : Ends(e)
      BY <3>3, <3>4, <3>5
    <3> QED
      BY <1>3, <3>1, <3>6
  <2> QED
    BY <1>3, <2>1, <2>2
<1>7. 0 \in T
  BY <1>3
<1>8. n \in T
  <2> HIDE DEF T
  <2> QED
    BY <1>6, <1>7, NumberInduction
<1>9. ~Begins(n)
  BY <1>1, EmptySeq DEF Finished
<1> QED
  BY <1>1, <1>3, <1>8, <1>9

\* the same up to a place
Agree(c, en, at, own, c2, en2, at2, own2, p) ==
    /\ \A k \in 1..p : c2[k] = c[k] /\ own2[k] = own[k]
    /\ \A k \in 0..p : en2[k] = en[k]
    /\ \A k \in 1..p + 1 : at2[k] = at[k]

LandsSame(F, c, open, own, c2, own2) ==
    /\ \A level, conditional, value, t : Landing(F, c, open, own, level, conditional, value, t)
           => Landing(F, c2, open, own2, level, conditional, value, t)
    /\ \A labels, f : Labelled(F, c, open, own, labels, f) => Labelled(F, c2, open, own2, labels, f)
\* A branch leads where it did when code is added.
LEMMA LandingSame ==
    ASSUME NEW F, NEW c, NEW open, NEW own, NEW c2, NEW own2, NEW p \in Nat, open \in Seq(1..p),
           \A k \in 1..p : c2[k] = c[k] /\ own2[k] = own[k]
    PROVE  LandsSame(F, c, open, own, c2, own2)
<1>1. \A k \in 1..Len(open) : c2[open[k]] = c[open[k]] /\ own2[open[k]] = own[open[k]]
  OBVIOUS
<1>2. ASSUME NEW level, NEW conditional, NEW value, NEW t, Landing(F, c, open, own, level, conditional, value, t)
      PROVE  Landing(F, c2, open, own2, level, conditional, value, t)
  <2>1. level \in 1..Len(open) /\ c2[open[level]] = c[open[level]] /\ own2[open[level]] = own[open[level]]
    BY <1>1, <1>2 DEF Landing
  <2> QED
    BY <1>2, <2>1, Zenon DEF Landing
<1>3. ASSUME NEW labels, NEW f, Labelled(F, c, open, own, labels, f)
      PROVE  Labelled(F, c2, open, own2, labels, f)
  BY <1>1, <1>3 DEF Labelled
<1> QED
  BY <1>2, <1>3, Zenon DEF LandsSame

\* So does every instruction.
LEMMA FineSame ==
    ASSUME NEW F, NEW l, NEW c, NEW en, NEW at, NEW own, NEW c2, NEW en2, NEW at2, NEW own2, NEW p \in Nat, p > 0,
           Agree(c, en, at, own, c2, en2, at2, own2, p), en[p - 1] \in Seq(1..p), Fine(F, l, c, en, at, own, p)
    PROVE  Fine(F, l, c2, en2, at2, own2, p)
<1>0. p \in 1..p /\ p \in 0..p /\ p - 1 \in 0..p /\ p \in 1..p + 1 /\ p + 1 \in 1..p + 1
  OBVIOUS
<1>1. /\ c2[p] = c[p] /\ own2[p] = own[p] /\ en2[p] = en[p] /\ en2[p - 1] = en[p - 1]
      /\ at2[p] = at[p] /\ at2[p + 1] = at[p + 1]
  BY <1>0, Zenon DEF Agree
<1>2. \A k \in 1..p : c2[k] = c[k] /\ own2[k] = own[k]
  BY DEF Agree
<1>3. Valued(c2, p) <=> Valued(c, p)
  <2>1. p > 1 => c2[p - 1] = c[p - 1]
    BY <1>2
  <2> QED
    BY <2>1 DEF Valued
<1>4. en[p] \in Seq(1..p)
  BY Zenon DEF Fine
<1>5. FineInst(F, l, c, en, at, own, p) => FineInst(F, l, c2, en2, at2, own2, p)
  <2> SUFFICES ASSUME FineInst(F, l, c, en, at, own, p)
               PROVE  FineInst(F, l, c2, en2, at2, own2, p)
    OBVIOUS
  <2>1. \A level, conditional, value, t : Landing(F, c, en[p], own, level, conditional, value, t)
            => Landing(F, c2, en[p], own2, level, conditional, value, t)
    BY <1>2, <1>4, LandingSame DEF LandsSame
  <2> QED
    BY <1>1, <2>1, Zenon DEF FineInst
<1>6. FineEnd(c, en, at, own, p) => FineEnd(c2, en2, at2, own2, p)
  <2> SUFFICES ASSUME FineEnd(c, en, at, own, p)
               PROVE  FineEnd(c2, en2, at2, own2, p)
    OBVIOUS
  <2>1. Last(en[p - 1]) \in 1..p
    BY EmptySeq DEF FineEnd, Last
  <2>2. c2[Last(en[p - 1])] = c[Last(en[p - 1])] /\ own2[Last(en[p - 1])] = own[Last(en[p - 1])]
    BY <1>2, <2>1
  <2> QED
    BY <1>1, <2>2, Zenon DEF FineEnd
<1>7. FineOpen(F, c, at, own, p) => FineOpen(F, c2, at2, own2, p)
  BY <1>1, Zenon DEF FineOpen
<1>8. FineConst(F, c, at, p) => FineConst(F, c2, at2, p)
  BY <1>1, Zenon DEF FineConst
<1>9. FineDispatch(F, c, en, at, own, p) => FineDispatch(F, c2, en2, at2, own2, p)
  <2>1. \A labels, f : Labelled(F, c, en[p], own, labels, f) => Labelled(F, c2, en[p], own2, labels, f)
    BY <1>2, <1>4, LandingSame DEF LandsSame
  <2> QED
    BY <1>1, <2>1, Zenon DEF FineDispatch
<1> QED
  BY <1>1, <1>3, <1>5, <1>6, <1>7, <1>8, <1>9, Zenon DEF Fine

\* The open constructs of code stand before the place.
LEMMA BuiltOpen ==
    ASSUME NEW F, NEW l, NEW c, NEW en, NEW at, NEW own, Built(F, l, c, en, at, own), NEW p \in 0..Len(c)
    PROVE  en[p] \in Seq(1..p) /\ en[p] \in Seq(1..p + 1)
<1>1. PICK n \in Nat : n = Len(c)
  BY DEF Built
<1>2. CASE p = 0
  <2>1. en[p] = <<>>
    BY <1>2 DEF Built
  <2> QED
    BY <2>1, EmptySeq, Zenon
<1>3. CASE p # 0
  <2>1. p \in 1..n /\ p \in Nat
    BY <1>1, <1>3
  <2>2. Fine(F, l, c, en, at, own, p)
    BY <1>1, <2>1 DEF Built
  <2>3. en[p] \in Seq(1..p)
    BY <2>2, Zenon DEF Fine
  <2> QED
    BY <2>1, <2>3
<1> QED
  BY <1>2, <1>3

\* The construction may as well be read with the constructs that WebAssembly sees.
LEMMA FinishedSeen ==
    ASSUME NEW F, NEW en, NEW at, NEW own, Finished(F, en, at, own)
    PROVE  Finished(F, Enclosing, at, own)
<1>1. PICK n \in Nat : n = Len(code) /\ n > 0
  BY DEF Finished, Built
<1>2. PICK E : E = Enclosing
  OBVIOUS
<1>3. Built(F, list, code, en, at, own)
  BY DEF Finished
<1>4. \A p \in 0..n : E[p] = en[p]
  BY <1>1, <1>2, <1>3, EnclosingIs
<1>5. ASSUME NEW p \in 1..n
      PROVE  Fine(F, list, code, E, at, own, p)
  <2>1. Fine(F, list, code, en, at, own, p)
    BY <1>1, <1>3 DEF Built
  <2>2. Agree(code, en, at, own, code, E, at, own, p)
    BY <1>4 DEF Agree
  <2>3. PICK q \in 0..n : q = p - 1 /\ q + 1 = p
    OBVIOUS
  <2>4. en[q] \in Seq(1..q + 1)
    BY <1>1, <1>3, BuiltOpen
  <2>5. en[p - 1] \in Seq(1..p) /\ p \in Nat /\ p > 0
    BY <2>3, <2>4
  <2> QED
    BY <2>1, <2>2, <2>5, FineSame
<1>6. E[0] = <<>> /\ E[n] = <<>>
  BY <1>1, <1>4 DEF Finished, Built
<1>7. Built(F, list, code, E, at, own)
  BY <1>1, <1>3, <1>5, <1>6 DEF Built
<1> QED
  BY <1>1, <1>2, <1>6, <1>7 DEF Finished

Ends(at, own, x, e) ==
    /\ e \in 1..Len(code) /\ e + 1 \in 1..Len(code)
    /\ ~Gives(code[e])
    /\ code[x][1] = "block" => at[e + 1] = own[x].last + 1
\* Behind the end of a block stands what follows its range.
LEMMA BehindIs ==
    ASSUME NEW F, NEW en, NEW at, NEW own, Finished(F, en, at, own), NEW x \in 1..Len(code), IsOpen(code[x]),
           NEW e, e = Behind(en, x)
    PROVE  Ends(at, own, x, e)
<1>1. PICK n \in Nat : n = Len(code)
  BY DEF Finished, Built
<1>2. x \in Nat /\ x \in 1..n
  BY <1>1
<1>3. e \in x..n /\ code[e] = <<"end">> /\ en[e] = Front(en[x]) /\ en[e - 1] = en[x]
  <2>1. \E p \in x..Len(code) : code[p] = <<"end">> /\ en[p] = Front(en[x]) /\ en[p - 1] = en[x]
    BY AllClosed
  <2> QED
    BY <1>1, <2>1 DEF Behind
<1>4. e \in 1..n /\ e # n
  <2>1. code[n][1] = "stub"
    BY <1>1 DEF Finished
  <2>2. code[e][1] = "end"
    BY <1>3
  <2> QED
    BY <1>1, <1>2, <1>3, <2>1, <2>2
<1>5. Fine(F, list, code, en, at, own, e) /\ Fine(F, list, code, en, at, own, x)
  BY <1>1, <1>4 DEF Finished, Built
<1>6. Last(en[x]) = x
  <2>1. PICK y \in 0..n : y = x - 1
    BY <1>1, <1>2
  <2>2. en[y] \in Seq(1..y)
    BY <1>1, BuiltOpen DEF Finished
  <2>3. en[x] = Append(en[y], x)
    BY <1>5, <2>1, Zenon DEF Fine
  <2>4. PICK s : s = en[y]
    OBVIOUS
  <2>5. s \in Seq(Nat)
    BY <2>2, <2>4
  <2> QED
    BY <1>2, <2>3, <2>4, <2>5 DEF Last
<1>7. code[x][1] = "block" => own[x].last + 1 = at[e]
  <2>1. code[e][1] = "end"
    BY <1>3
  <2>2. FineEnd(code, en, at, own, e)
    BY <1>5, <2>1, KindIs
  <2> QED
    BY <1>3, <1>6, <2>2, Zenon DEF FineEnd
<1>8. at[e + 1] = at[e]
  <2>1. code[e][1] # "inst"
    BY <1>3
  <2> QED
    BY <1>5, <2>1, Zenon DEF Fine
<1>9. ~Gives(code[e])
  <2>1. code[e][1] = "end"
    BY <1>3
  <2> QED
    BY <2>1 DEF Gives
<1> QED
  BY <1>1, <1>4, <1>7, <1>8, <1>9 DEF Ends

\* where the labels of a dispatch stand
Labels(F, en, at, own, p, labels) ==
    /\ labels \in Seq(Nat) /\ Len(labels) = Total(F, at[p]) /\ Len(labels) > 0
    /\ \A j \in 1..Len(labels) :
           /\ en[p][labels[j]] \in 1..Len(code) /\ code[en[p][labels[j]]][1] = "block"
           /\ own[en[p][labels[j]]] \in Conds(F, at[p]) /\ Number(F, own[en[p][labels[j]]]) = j - 1
\* The labels of a dispatch are open blocks.
LEMMA LabelIs ==
    ASSUME NEW F, NEW en, NEW at, NEW own, Finished(F, en, at, own), NEW p \in 1..Len(code), code[p][1] = "dispatch"
    PROVE  Labels(F, en, at, own, p, code[p][2])
<1>1. PICK n \in Nat : n = Len(code)
  BY DEF Finished, Built
<1>2. Fine(F, list, code, en, at, own, p)
  BY DEF Finished, Built
<1>3. FineDispatch(F, code, en, at, own, p)
  BY <1>2, KindIs
<1> DEFINE labels == code[p][2]
<1>4. Labelled(F, code, en[p], own, labels, at[p])
  BY <1>3 DEF FineDispatch
<1>5. PICK open : open = en[p]
  OBVIOUS
<1>6. open \in Seq(1..p) /\ p \in Nat /\ p <= n
  <2>1. open \in Seq(1..p)
    BY <1>2, <1>5, Zenon DEF Fine
  <2> QED
    BY <1>1, <2>1
<1>7. \A k \in 1..Len(open) : open[k] \in 1..n
  BY <1>1, <1>6
<1> QED
  BY <1>1, <1>4, <1>5, <1>7 DEF Labelled, Labels

-----------------------------------------------------------------------------
(* Where control goes. *)

Onward(en, w) ==
    LET op == code[w[1]]
        chosen == IF Len(op[2]) = 1 THEN 1 - w[2] ELSE w[2]
        label == en[w[1]][op[2][chosen + 1]]
    IN IF op[1] = "const" THEN <<w[1] + 1, op[2]>>
       ELSE IF op[1] = "dispatch"
       THEN <<IF chosen \in 0..Len(op[2]) - 1 THEN Behind(en, label) + 1 ELSE w[1] + 1, NoValue>>
       ELSE <<w[1] + 1, w[2]>>
Halts(w) == code[w[1]][1] \in {"inst", "stub"}
Matches(w) == Takes(code[w[1]]) <=> w[2] # NoValue
Positions == (DOMAIN code) \X Int

\* Control goes on within the code.
LEMMA OnwardIs ==
    ASSUME NEW F, NEW en, NEW at, NEW own, Finished(F, en, at, own), NEW w \in Positions, ~Halts(w), Matches(w)
    PROVE  Onward(en, w) \in Positions
<1>1. PICK n \in Nat : n = Len(code)
  BY DEF Finished, Built
<1>2. DOMAIN code = 1..n
  BY <1>1 DEF Finished, Built
<1>3. PICK p, v : p = w[1] /\ v = w[2] /\ p \in 1..n /\ v \in Int
  BY <1>2 DEF Positions
<1>4. Fine(F, list, code, en, at, own, p)
  BY <1>1, <1>3 DEF Finished, Built
<1>5. p # n
  BY <1>1, <1>3 DEF Finished, Halts
<1>6. p + 1 \in 1..n
  BY <1>1, <1>3, <1>5
<1>7. NoValue \in Int
  BY DEF NoValue
<1>8. CASE code[p][1] = "const"
  <2>1. FineConst(F, code, at, p)
    BY <1>4, <1>8, KindIs
  <2>2. code[p][2] \in Int
    <3>1. Total(F, at[p]) \in Nat
      <4>1. Conds(F, at[p]) \subseteq F
        BY DEF Conds
      <4> QED
        BY <4>1, FS_Subset, FS_CardinalityType DEF Total, Finished
    <3> QED
      BY <2>1, <3>1 DEF FineConst, DefaultExit
  <2>3. Onward(en, w) = <<p + 1, code[p][2]>>
    BY <1>3, <1>8, Zenon DEF Onward
  <2> QED
    BY <1>2, <1>6, <2>2, <2>3 DEF Positions
<1>9. CASE code[p][1] = "dispatch"
  <2>1. PICK labels : labels = code[p][2]
    OBVIOUS
  <2>2. /\ labels \in Seq(Nat)
        /\ \A j \in 1..Len(labels) : en[p][labels[j]] \in 1..Len(code) /\ code[en[p][labels[j]]][1] = "block"
    <3>1. p \in 1..Len(code)
      BY <1>1, <1>3
    <3>2. Labels(F, en, at, own, p, labels)
      BY <1>9, <2>1, <3>1, LabelIs
    <3> QED
      BY <3>2 DEF Labels
  <2>3. PICK chosen \in Int : chosen = IF Len(labels) = 1 THEN 1 - v ELSE v
    BY <1>3
  <2>4. Onward(en, w) = <<IF chosen \in 0..Len(labels) - 1 THEN Behind(en, en[p][labels[chosen + 1]]) + 1 ELSE p + 1, NoValue>>
    <3>1. code[p][1] # "const"
      BY <1>9
    <3> QED
      BY <1>3, <1>9, <2>1, <2>3, <3>1, Zenon DEF Onward
  <2>5. CASE chosen \in 0..Len(labels) - 1
    <3>1. PICK x : x = en[p][labels[chosen + 1]]
      OBVIOUS
    <3>2. x \in 1..Len(code) /\ IsOpen(code[x])
      <4>1. chosen + 1 \in 1..Len(labels)
        BY <2>2, <2>5
      <4> QED
        BY <2>2, <3>1, <4>1 DEF IsOpen
    <3>3. PICK e : e = Behind(en, x)
      OBVIOUS
    <3>4. e + 1 \in 1..n
      BY <1>1, <3>2, <3>3, BehindIs DEF Ends
    <3>5. Onward(en, w) = <<e + 1, NoValue>>
      BY <2>4, <2>5, <3>1, <3>3
    <3> QED
      BY <1>2, <1>7, <3>4, <3>5 DEF Positions
  <2>6. CASE ~(chosen \in 0..Len(labels) - 1)
    <3>1. Onward(en, w) = <<p + 1, NoValue>>
      BY <2>4, <2>6
    <3> QED
      BY <1>2, <1>6, <1>7, <3>1 DEF Positions
  <2> QED
    BY <2>5, <2>6
<1>10. CASE code[p][1] # "const" /\ code[p][1] # "dispatch"
  <2>1. Onward(en, w) = <<p + 1, v>>
    BY <1>3, <1>10, Zenon DEF Onward
  <2> QED
    BY <1>2, <1>3, <1>6, <2>1 DEF Positions
<1> QED
  BY <1>8, <1>9, <1>10

\* what Arrives says of one place
Body(run, en, w) ==
    LET op == code[w[1]]
        value == w[2]
        behind == w[1] + 1
        chosen == IF Len(op[2]) = 1 THEN 1 - value ELSE value
        label == en[w[1]][op[2][chosen + 1]]
        next == CASE op[1] = "const" -> <<behind, op[2]>>
                  [] op[1] = "dispatch" /\ chosen \in 0..Len(op[2]) - 1 -> <<Behind(en, label) + 1, NoValue>>
                  [] op[1] = "dispatch" /\ chosen \notin 0..Len(op[2]) - 1 -> <<behind, NoValue>>
                  [] OTHER -> <<behind, value>>
    IN IF Takes(op) # (value # NoValue) THEN -1
       ELSE IF op[1] \in {"inst", "stub"} THEN op[2] ELSE run[next]
IsWay(run, en) == run = [w \in Positions |-> Body(run, en, w)]
Steps(run, en) ==
    \A w \in Positions : run[w] = IF ~Matches(w) THEN -1 ELSE IF Halts(w) THEN code[w[1]][2] ELSE run[Onward(en, w)]
\* The way goes on from any instruction but those control stays at.
LEMMA BodyIs ==
    ASSUME NEW w, NEW run, NEW en
    PROVE  Body(run, en, w) = IF ~Matches(w) THEN -1 ELSE IF Halts(w) THEN code[w[1]][2] ELSE run[Onward(en, w)]
<1> DEFINE op == code[w[1]]
           value == w[2]
           behind == w[1] + 1
           chosen == IF Len(op[2]) = 1 THEN 1 - value ELSE value
           label == en[w[1]][op[2][chosen + 1]]
           next == CASE op[1] = "const" -> <<behind, op[2]>>
                     [] op[1] = "dispatch" /\ chosen \in 0..Len(op[2]) - 1 -> <<Behind(en, label) + 1, NoValue>>
                     [] op[1] = "dispatch" /\ chosen \notin 0..Len(op[2]) - 1 -> <<behind, NoValue>>
                     [] OTHER -> <<behind, value>>
<1>1. Body(run, en, w) = IF Takes(op) # (value # NoValue) THEN -1
                         ELSE IF op[1] \in {"inst", "stub"} THEN op[2] ELSE run[next]
  BY Zenon DEF Body
<1>2. next = Onward(en, w)
  <2>1. op[1] = "const" => op[1] # "dispatch"
    OBVIOUS
  <2>2. Onward(en, w) = IF op[1] = "const" THEN <<behind, op[2]>>
                        ELSE IF op[1] = "dispatch"
                        THEN <<IF chosen \in 0..Len(op[2]) - 1 THEN Behind(en, label) + 1 ELSE behind, NoValue>>
                        ELSE <<behind, value>>
    BY Zenon DEF Onward
  <2> HIDE DEF op, chosen, label, behind, value
  <2> QED
    BY <2>1, <2>2
<1>3. (Takes(op) # (value # NoValue)) <=> ~Matches(w)
  BY Zenon DEF Matches, Takes
<1>4. (op[1] \in {"inst", "stub"}) <=> Halts(w)
  BY DEF Halts
<1> HIDE DEF next, op, value
<1>5. Body(run, en, w) = IF ~Matches(w) THEN -1 ELSE IF Halts(w) THEN op[2] ELSE run[next]
  BY <1>1, <1>3, <1>4
<1> QED
  BY <1>2, <1>5, Zenon DEF op

\* Arrives is what its equation says.
LEMMA ArrivesIs ==
    ASSUME NEW F, NEW en, NEW at, NEW own, Finished(F, en, at, own)
    PROVE  \E run : Steps(run, en) /\ \A p, v : Arrives(en, p, v) = run[<<p, v>>]
<1>1. PICK going : going \notin {-1} \cup {code[p][2] : p \in DOMAIN code}
  BY SomethingElse
<1>2. PICK E : E = [w \in Positions |-> IF ~Matches(w) THEN -1 ELSE IF Halts(w) THEN code[w[1]][2] ELSE going]
  OBVIOUS
<1>3. PICK O : O = [w \in Positions |-> Onward(en, w)]
  OBVIOUS
<1>4. \A w \in Positions : code[w[1]][2] # going /\ -1 # going
  BY <1>1 DEF Positions
<1>5. ASSUME NEW w \in Positions
      PROVE  /\ E[w] = going <=> Matches(w) /\ ~Halts(w)
             /\ E[w] # going => E[w] = IF ~Matches(w) THEN -1 ELSE code[w[1]][2]
             /\ O[w] = Onward(en, w)
  <2>1. E[w] = IF ~Matches(w) THEN -1 ELSE IF Halts(w) THEN code[w[1]][2] ELSE going
    BY <1>2
  <2>2. O[w] = Onward(en, w)
    BY <1>3
  <2> QED
    BY <1>4, <2>1, <2>2
<1>6. PICK D : D = Positions
  OBVIOUS
<1>7. \A w \in D : E[w] = going => O[w] \in D
  BY <1>5, <1>6, OnwardIs
<1>8. PICK one : IsRun(one, D, E, O, going)
  BY <1>7, RunExists
<1>9. one = [w \in D |-> IF E[w] # going THEN E[w] ELSE one[O[w]]]
  BY <1>8 DEF IsRun
<1>10. ASSUME NEW w \in D
       PROVE  (IF E[w] # going THEN E[w] ELSE one[O[w]]) = Body(one, en, w)
  <2>1. w \in Positions
    BY <1>6, <1>10
  <2>2. Body(one, en, w) = IF ~Matches(w) THEN -1 ELSE IF Halts(w) THEN code[w[1]][2] ELSE one[Onward(en, w)]
    BY <2>1, BodyIs
  <2> QED
    BY <1>5, <2>1, <2>2
<1>11. one = [w \in D |-> Body(one, en, w)]
  BY <1>9, <1>10, Zenon
<1>12. IsWay(one, en)
  BY <1>6, <1>11 DEF IsWay
<1>13. PICK run : run = CHOOSE other : IsWay(other, en)
  OBVIOUS
<1>14. IsWay(run, en)
  BY <1>12, <1>13, Zenon
<1>15. Steps(run, en)
  <2>1. \A w \in Positions : run[w] = Body(run, en, w)
    BY <1>14 DEF IsWay
  <2> QED
    BY <2>1, BodyIs, Zenon DEF Steps
<1>16. \A p, v : Arrives(en, p, v) = run[<<p, v>>]
  BY <1>13 DEF Arrives, IsWay, Body, Positions
<1> QED
  BY <1>15, <1>16

-----------------------------------------------------------------------------
(* Where control arrives in code that is finished.  What follows a place   *)
(* is reached without a branch, so that this is an induction from the last *)
(* place to the first; the branches of a dispatch come after it.           *)

Passed(F, at, run, p) ==
    /\ ~Valued(code, p) => run[<<p, NoValue>>] = at[p]
    /\ Valued(code, p) => run[<<p, DefaultExit(Total(F, at[p]))>>] = at[p]
Led(F, at, run, p) ==
    Valued(code, p) => \A r \in Conds(F, at[p]) : run[<<p, IndexOf(F, r)>>] = r.last + 1

Moves(en, run, p, value) ==
    /\ code[p][1] \in {"inst", "stub"} => run[<<p, value>>] = code[p][2]
    /\ code[p][1] \in {"loop", "block", "end"} => run[<<p, value>>] = run[<<p + 1, value>>]
    /\ code[p][1] = "const" => run[<<p, value>>] = run[<<p + 1, code[p][2]>>]
    /\ code[p][1] = "dispatch" =>
           \A chosen : chosen = (IF Len(code[p][2]) = 1 THEN 1 - value ELSE value) =>
               /\ chosen \in 0..Len(code[p][2]) - 1
                      => run[<<p, value>>] = run[<<Behind(en, en[p][code[p][2][chosen + 1]]) + 1, NoValue>>]
               /\ chosen \notin 0..Len(code[p][2]) - 1 => run[<<p, value>>] = run[<<p + 1, NoValue>>]
\* A place is carried to the next one, or to the end of a label.
LEMMA OneStep ==
    ASSUME NEW F, NEW en, NEW at, NEW own, Finished(F, en, at, own), NEW run, Steps(run, en),
           NEW p \in 1..Len(code), NEW value \in Int, Takes(code[p]) <=> value # NoValue
    PROVE  Moves(en, run, p, value)
<1>1. PICK w : w = <<p, value>>
  OBVIOUS
<1>2. w \in Positions /\ w[1] = p /\ w[2] = value
  BY <1>1 DEF Positions, Finished, Built
<1>3. Matches(w)
  BY <1>2, Zenon DEF Matches
<1>4. run[w] = IF Halts(w) THEN code[p][2] ELSE run[Onward(en, w)]
  BY <1>2, <1>3, Zenon DEF Steps
<1>5. ASSUME code[p][1] \in {"inst", "stub"}
      PROVE  run[w] = code[p][2]
  BY <1>2, <1>4, <1>5 DEF Halts
<1>6. ASSUME code[p][1] \in {"loop", "block", "end"}
      PROVE  run[w] = run[<<p + 1, value>>]
  <2>1. ~Halts(w) /\ code[p][1] # "const" /\ code[p][1] # "dispatch"
    BY <1>2, <1>6 DEF Halts
  <2>2. Onward(en, w) = <<p + 1, value>>
    BY <1>2, <2>1, Zenon DEF Onward
  <2> QED
    BY <1>4, <2>1, <2>2
<1>7. ASSUME code[p][1] = "const"
      PROVE  run[w] = run[<<p + 1, code[p][2]>>]
  <2>1. ~Halts(w)
    BY <1>2, <1>7 DEF Halts
  <2>2. Onward(en, w) = <<p + 1, code[p][2]>>
    BY <1>2, <1>7, Zenon DEF Onward
  <2> QED
    BY <1>4, <2>1, <2>2
<1>8. ASSUME code[p][1] = "dispatch", NEW chosen, chosen = (IF Len(code[p][2]) = 1 THEN 1 - value ELSE value)
      PROVE  run[w] = run[<<IF chosen \in 0..Len(code[p][2]) - 1 THEN Behind(en, en[p][code[p][2][chosen + 1]]) + 1
                            ELSE p + 1, NoValue>>]
  <2>1. ~Halts(w) /\ code[p][1] # "const"
    BY <1>2, <1>8 DEF Halts
  <2>2. Onward(en, w) = <<IF chosen \in 0..Len(code[p][2]) - 1 THEN Behind(en, en[p][code[p][2][chosen + 1]]) + 1
                          ELSE p + 1, NoValue>>
    BY <1>2, <1>8, <2>1, Zenon DEF Onward
  <2> QED
    BY <1>4, <2>1, <2>2
<1> QED
  BY <1>1, <1>5, <1>6, <1>7, <1>8 DEF Moves

\* The total of conditional ranges and the indices are numbers.
LEMMA CountsAre ==
    ASSUME NEW F, IsFiniteSet(F), F \subseteq Spans, NEW f
    PROVE  /\ Total(F, f) \in Nat /\ DefaultExit(Total(F, f)) \in Nat
           /\ \A r \in Conds(F, f) : Number(F, r) \in Nat /\ Number(F, r) < Total(F, f) /\ IndexOf(F, r) \in Nat
<1>1. Total(F, f) \in Nat
  <2>1. Conds(F, f) \subseteq F
    BY DEF Conds
  <2> QED
    BY <2>1, FS_Subset, FS_CardinalityType DEF Total
<1>2. DefaultExit(Total(F, f)) \in Nat
  BY <1>1 DEF DefaultExit
<1>3. ASSUME NEW r \in Conds(F, f)
      PROVE  Number(F, r) \in Nat /\ Number(F, r) < Total(F, f) /\ IndexOf(F, r) \in Nat
  <2>1. r \in F /\ r.type = "conditional" /\ r.first = f
    BY DEF Conds
  <2>2. Number(F, r) \in Nat /\ Number(F, r) < Total(F, r.first)
    BY <2>1, NumberIs
  <2> QED
    BY <2>1, <2>2 DEF IndexOf
<1> QED
  BY <1>1, <1>2, <1>3

\* Whoever passes a place comes to the next instruction.
LEMMA AllPassed ==
    ASSUME NEW F, NEW en, NEW at, NEW own, Finished(F, en, at, own), NEW run, Steps(run, en)
    PROVE  \A p \in 1..Len(code) : Passed(F, at, run, p)
<1>1. PICK n \in Nat : n = Len(code) /\ n > 0 /\ code[n][1] = "stub"
  BY DEF Finished, Built
<1>2. ASSUME NEW p \in 1..n, p # n => Passed(F, at, run, p + 1)
      PROVE  Passed(F, at, run, p)
  <2>1. p \in 1..Len(code) /\ Fine(F, list, code, en, at, own, p)
    BY <1>1 DEF Finished, Built
  <2>2. Valued(code, p) <=> Takes(code[p])
    BY <2>1, Zenon DEF Fine
  <2>3. at[p + 1] = IF code[p][1] = "inst" THEN at[p] + 1 ELSE at[p]
    BY <2>1, Zenon DEF Fine
  <2>4. PICK total \in Nat, default \in Nat : total = Total(F, at[p]) /\ default = DefaultExit(total)
    BY CountsAre DEF Finished
  <2>5. PICK value \in Int : value = IF Takes(code[p]) THEN default ELSE NoValue
    BY DEF NoValue
  <2>6. Takes(code[p]) <=> value # NoValue
    BY <2>4, <2>5 DEF NoValue
  <2>11. Moves(en, run, p, value)
    BY <2>1, <2>6, OneStep
  <2>7. Passed(F, at, run, p) <=> run[<<p, value>>] = at[p]
    BY <2>2, <2>4, <2>5, Zenon DEF Passed
  <2>8. Valued(code, p + 1) <=> Gives(code[p])
    BY DEF Valued
  <2>9. CASE code[p][1] \in {"inst", "stub"}
    <3>1. code[p][2] = at[p]
      BY <2>1, <2>9, KindIs DEF FineInst
    <3>2. run[<<p, value>>] = code[p][2]
      BY <2>9, <2>11 DEF Moves
    <3> QED
      BY <2>7, <3>1, <3>2
  <2>10. CASE code[p][1] \in {"end", "loop", "block", "const", "dispatch"}
    <3>1. p # n /\ code[p][1] # "inst"
      BY <1>1, <2>10
    <3>2. Passed(F, at, run, p + 1) /\ at[p + 1] = at[p]
      BY <1>2, <2>3, <3>1
    <3>3. CASE code[p][1] \in {"end", "loop", "block"}
      <4>1. run[<<p, value>>] = run[<<p + 1, value>>]
        BY <2>11, <3>3 DEF Moves
      <4>2. Gives(code[p]) <=> Takes(code[p])
        BY <3>3 DEF Gives, Takes
      <4>3. run[<<p + 1, value>>] = at[p]
        BY <2>4, <2>5, <2>8, <3>2, <4>2, Zenon DEF Passed
      <4> QED
        BY <2>7, <4>1, <4>3
    <3>4. CASE code[p][1] = "const"
      <4>1. run[<<p, value>>] = run[<<p + 1, code[p][2]>>]
        BY <2>11, <3>4 DEF Moves
      <4>2. Gives(code[p])
        BY <3>4 DEF Gives
      <4>3. FineConst(F, code, at, p)
        BY <2>1, <3>4, KindIs
      <4>4. run[<<p + 1, code[p][2]>>] = at[p]
        BY <2>8, <3>2, <4>2, <4>3, Zenon DEF Passed, FineConst
      <4> QED
        BY <2>7, <4>1, <4>4
    <3>5. CASE code[p][1] = "dispatch"
      <4>1. PICK labels : labels = code[p][2]
        OBVIOUS
      <4>2. Labels(F, en, at, own, p, labels)
        BY <2>1, <3>5, <4>1, LabelIs
      <4>3. PICK m \in Nat : m = Len(labels) /\ m = total /\ m > 0
        BY <2>4, <4>2 DEF Labels
      <4>4. PICK chosen \in Int : chosen = IF Len(labels) = 1 THEN 1 - value ELSE value
        BY <2>5
      <4>5. Takes(code[p]) /\ ~Gives(code[p])
        BY <3>5 DEF Takes, Gives
      <4>6. chosen \notin 0..Len(labels) - 1
        <5>1. value = default /\ default = IF m <= 1 THEN 0 ELSE m
          BY <2>4, <2>5, <4>3, <4>5 DEF DefaultExit
        <5> QED
          <6>1. CASE m = 1
            <7>1. chosen = 1 - value
              BY <4>3, <4>4, <6>1
            <7> QED
              BY <4>3, <5>1, <6>1, <7>1
          <6>2. CASE m # 1
            <7>1. chosen = value
              BY <4>3, <4>4, <6>2
            <7>2. value = m
              BY <4>3, <5>1, <6>2
            <7> QED
              BY <4>3, <7>1, <7>2
          <6> QED
            BY <6>1, <6>2
      <4>7. run[<<p, value>>] = run[<<p + 1, NoValue>>]
        BY <2>11, <3>5, <4>1, <4>4, <4>6 DEF Moves
      <4>8. run[<<p + 1, NoValue>>] = at[p]
        BY <2>8, <3>2, <4>5, Zenon DEF Passed
      <4> QED
        BY <2>7, <4>7, <4>8
    <3> QED
      BY <2>10, <3>3, <3>4, <3>5
  <2> QED
    BY <2>1, <2>9, <2>10, KindIs
<1> DEFINE S == {k \in Nat : \A p \in 1..n : n - p <= k => Passed(F, at, run, p)}
<1>3. 0 \in S
  <2>1. ASSUME NEW p \in 1..n, n - p <= 0
        PROVE  Passed(F, at, run, p)
    BY <1>2, <2>1
  <2> QED
    BY <2>1
<1>4. ASSUME NEW k \in Nat, k \in S
      PROVE  k + 1 \in S
  <2>1. ASSUME NEW p \in 1..n, n - p <= k + 1
        PROVE  Passed(F, at, run, p)
    <3>1. ASSUME p # n
          PROVE  Passed(F, at, run, p + 1)
      <4>1. PICK q \in 1..n : q = p + 1 /\ n - q <= k
        BY <2>1, <3>1
      <4> QED
        BY <1>4, <4>1
    <3> QED
      BY <1>2, <3>1
  <2> QED
    BY <2>1
<1>5. \A k \in Nat : k \in S
  <2> HIDE DEF S
  <2> QED
    BY <1>3, <1>4, NumberInduction
<1> QED
  <2>1. n \in S
    BY <1>5
  <2>2. \A p \in 1..n : n - p <= n
    BY <1>1
  <2> QED
    BY <1>1, <2>1, <2>2

\* With the index of a conditional range, control comes to what follows that range.
LEMMA AllLed ==
    ASSUME NEW F, NEW en, NEW at, NEW own, Finished(F, en, at, own), NEW run, Steps(run, en)
    PROVE  \A p \in 1..Len(code) : Led(F, at, run, p)
<1>1. PICK n \in Nat : n = Len(code) /\ n > 0 /\ code[n][1] = "stub"
  BY DEF Finished, Built
<1>2. IsFiniteSet(F) /\ F \subseteq Spans
  BY DEF Finished
<1>3. ASSUME NEW p \in 1..n, p # n => Led(F, at, run, p + 1), Valued(code, p), NEW r \in Conds(F, at[p])
      PROVE  run[<<p, IndexOf(F, r)>>] = r.last + 1
  <2>1. p \in 1..Len(code) /\ Fine(F, list, code, en, at, own, p)
    BY <1>1 DEF Finished, Built
  <2>2. Takes(code[p])
    BY <1>3, <2>1, Zenon DEF Fine
  <2>3. at[p + 1] = IF code[p][1] = "inst" THEN at[p] + 1 ELSE at[p]
    BY <2>1, Zenon DEF Fine
  <2>4. PICK value \in Int : value = IndexOf(F, r) /\ value # NoValue
    <3>1. IndexOf(F, r) \in Nat
      BY <1>2, CountsAre
    <3> QED
      BY <3>1 DEF NoValue
  <2>5. Moves(en, run, p, value)
    BY <2>1, <2>2, <2>4, OneStep
  <2>6. r \in F /\ r.type = "conditional" /\ r.first = at[p]
    BY DEF Conds
  <2>7. CASE code[p][1] \in {"loop", "block"}
    <3>1. p # n /\ code[p][1] # "inst"
      BY <1>1, <2>7
    <3>2. Led(F, at, run, p + 1) /\ at[p + 1] = at[p]
      BY <1>3, <2>3, <3>1
    <3>3. Gives(code[p])
      BY <2>2, <2>7 DEF Takes, Gives
    <3>4. Valued(code, p + 1)
      BY <3>3 DEF Valued
    <3>5. run[<<p + 1, value>>] = r.last + 1
      BY <1>3, <2>4, <3>2, <3>4, Zenon DEF Led
    <3>6. run[<<p, value>>] = run[<<p + 1, value>>]
      BY <2>5, <2>7 DEF Moves
    <3> QED
      BY <2>4, <3>5, <3>6
  <2>8. CASE code[p][1] = "dispatch"
    <3>1. PICK labels : labels = code[p][2]
      OBVIOUS
    <3>2. Labels(F, en, at, own, p, labels)
      BY <2>1, <2>8, <3>1, LabelIs
    <3>3. PICK m \in Nat : m = Len(labels) /\ m = Total(F, at[p]) /\ m > 0
      BY <3>2 DEF Labels
    <3>4. PICK number \in Nat : number = Number(F, r) /\ number < m
      BY <1>2, <2>6, <3>3, NumberIs
    <3>5. number = IF m = 1 THEN 1 - value ELSE value
      <4>1. value = IF m = 1 THEN 1 ELSE number
        BY <2>4, <2>6, <3>3, <3>4 DEF IndexOf
      <4> QED
        BY <3>3, <3>4, <4>1
    <3>6. number \in 0..Len(labels) - 1 /\ number + 1 \in 1..Len(labels)
      BY <3>3, <3>4
    <3>7. PICK x : x = en[p][labels[number + 1]]
      OBVIOUS
    <3>8. /\ x \in 1..Len(code) /\ code[x][1] = "block"
          /\ own[x] \in Conds(F, at[p]) /\ Number(F, own[x]) = number + 1 - 1
      BY <3>2, <3>6, <3>7 DEF Labels
    <3>9. own[x] = r
      <4>1. own[x] \in F /\ own[x].type = "conditional" /\ own[x].first = r.first
        BY <2>6, <3>8 DEF Conds
      <4>2. Number(F, own[x]) = Number(F, r)
        BY <3>4, <3>8
      <4> QED
        BY <1>2, <2>6, <4>1, <4>2, NumberUnique
    <3>10. PICK e : e = Behind(en, x)
      OBVIOUS
    <3>11. e + 1 \in 1..Len(code) /\ ~Gives(code[e]) /\ at[e + 1] = own[x].last + 1 /\ e \in 1..Len(code)
      <4>1. x \in 1..Len(code) /\ code[x][1] = "block" /\ IsOpen(code[x])
        BY <3>8 DEF IsOpen
      <4> QED
        BY <3>10, <4>1, BehindIs DEF Ends
    <3>12. ~Valued(code, e + 1)
      BY <1>1, <3>11 DEF Valued
    <3>13. run[<<e + 1, NoValue>>] = r.last + 1
      <4>1. Passed(F, at, run, e + 1)
        BY <3>11, AllPassed
      <4> QED
        BY <3>9, <3>11, <3>12, <4>1 DEF Passed
    <3>14. run[<<p, value>>] = run[<<e + 1, NoValue>>]
      <4>1. number = (IF Len(code[p][2]) = 1 THEN 1 - value ELSE value)
        BY <3>1, <3>3, <3>5
      <4>2. run[<<p, value>>] = run[<<Behind(en, en[p][code[p][2][number + 1]]) + 1, NoValue>>]
        BY <2>5, <2>8, <3>1, <3>6, <4>1 DEF Moves
      <4> QED
        BY <3>1, <3>7, <3>10, <4>2
    <3> QED
      BY <2>4, <3>13, <3>14
  <2> QED
    BY <2>2, <2>7, <2>8 DEF Takes
<1>4. ASSUME NEW p \in 1..n, p # n => Led(F, at, run, p + 1)
      PROVE  Led(F, at, run, p)
  BY <1>3, <1>4 DEF Led
<1> DEFINE S == {k \in Nat : \A p \in 1..n : n - p <= k => Led(F, at, run, p)}
<1>5. 0 \in S
  <2>1. ASSUME NEW p \in 1..n, n - p <= 0
        PROVE  Led(F, at, run, p)
    BY <1>4, <2>1
  <2> QED
    BY <2>1
<1>6. ASSUME NEW k \in Nat, k \in S
      PROVE  k + 1 \in S
  <2>1. ASSUME NEW p \in 1..n, n - p <= k + 1
        PROVE  Led(F, at, run, p)
    <3>1. ASSUME p # n
          PROVE  Led(F, at, run, p + 1)
      <4>1. PICK q \in 1..n : q = p + 1 /\ n - q <= k
        BY <2>1, <3>1
      <4> QED
        BY <1>6, <4>1
    <3> QED
      BY <1>4, <3>1
  <2> QED
    BY <2>1
<1>7. \A k \in Nat : k \in S
  <2> HIDE DEF S
  <2> QED
    BY <1>5, <1>6, NumberInduction
<1> QED
  <2>1. n \in S
    BY <1>7
  <2>2. \A p \in 1..n : n - p <= n
    BY <1>1
  <2> QED
    BY <1>1, <2>1, <2>2

\* A branch to an open construct leads to where it was meant to.
LEMMA BranchLands ==
    ASSUME NEW F, NEW en, NEW at, NEW own, Finished(F, en, at, own), NEW p \in 1..Len(code), NEW via, NEW t,
           Landing(F, code, en[p], own, via.target, via.conditional, via.index, t)
    PROVE  Branches(en, p, via) = t
<1>1. PICK run : Steps(run, en) /\ \A q, v : Arrives(en, q, v) = run[<<q, v>>]
  BY ArrivesIs
<1>2. PICK n \in Nat : n = Len(code) /\ n > 0 /\ code[n][1] = "stub"
  BY DEF Finished, Built
<1>3. PICK open : open = en[p] /\ open \in Seq(1..p)
  BY <1>2, BuiltOpen DEF Finished
<1>4. PICK level : level = via.target
  OBVIOUS
<1>5. level \in 1..Len(open) /\ ~(level > Len(open))
  BY <1>3, <1>4 DEF Landing
<1>6. PICK x : x = open[level]
  OBVIOUS
<1>7. x \in 1..p /\ x \in 1..n /\ x \in 1..Len(code) /\ p \in Nat
  BY <1>2, <1>3, <1>5, <1>6
<1>8. PICK value : value = IF via.conditional THEN via.index ELSE NoValue
  OBVIOUS
<1>9. Branches(en, p, via) = IF code[x][1] = "block"
                             THEN IF value = NoValue THEN run[<<Behind(en, x) + 1, NoValue>>] ELSE -1
                             ELSE IF code[x][2] = (value # NoValue) THEN run[<<x + 1, value>>] ELSE -1
  <2>1. Branches(en, p, via) = IF code[x][1] = "block"
                               THEN IF value = NoValue THEN Arrives(en, Behind(en, x) + 1, NoValue) ELSE -1
                               ELSE IF code[x][2] = (value # NoValue) THEN Arrives(en, x + 1, value) ELSE -1
    BY <1>3, <1>4, <1>5, <1>6, <1>8, Zenon DEF Branches
  <2> QED
    BY <1>1, <2>1
<1>10. Fine(F, list, code, en, at, own, x)
  BY <1>7 DEF Finished, Built
<1>11. Landing(F, code, open, own, level, via.conditional, via.index, t)
  BY <1>3, <1>4
<1>12. CASE via.conditional = FALSE /\ code[x][1] = "block" /\ own[x].last + 1 = t
  <2>1. value = NoValue /\ IsOpen(code[x])
    BY <1>8, <1>12 DEF IsOpen
  <2>2. PICK e : e = Behind(en, x)
    OBVIOUS
  <2>3. e + 1 \in 1..Len(code) /\ ~Gives(code[e]) /\ at[e + 1] = t /\ e \in 1..Len(code)
    <3>1. e + 1 \in 1..Len(code) /\ ~Gives(code[e]) /\ at[e + 1] = own[x].last + 1 /\ e \in 1..Len(code)
      BY <1>7, <1>12, <2>1, <2>2, BehindIs DEF Ends
    <3> QED
      BY <1>12, <3>1
  <2>4. ~Valued(code, e + 1)
    BY <1>2, <2>3 DEF Valued
  <2>5. Passed(F, at, run, e + 1)
    BY <1>1, <2>3, AllPassed
  <2>6. run[<<e + 1, NoValue>>] = t
    BY <2>3, <2>4, <2>5 DEF Passed
  <2> QED
    BY <1>9, <1>12, <2>1, <2>2, <2>6
<1>13. ASSUME code[x][1] = "loop"
       PROVE  /\ x + 1 \in 1..Len(code) /\ Valued(code, x + 1) = code[x][2] /\ at[x + 1] = own[x].first
              /\ Passed(F, at, run, x + 1) /\ Led(F, at, run, x + 1)
  <2>1. IsOpen(code[x]) /\ x # n /\ code[x][1] # "inst"
    BY <1>2, <1>13 DEF IsOpen
  <2>2. x + 1 \in 1..Len(code)
    BY <1>2, <1>7, <2>1
  <2>3. FineOpen(F, code, at, own, x)
    BY <1>10, <2>1, KindIs
  <2>4. at[x + 1] = at[x]
    BY <1>10, <2>1, Zenon DEF Fine
  <2>5. Valued(code, x + 1) = code[x][2]
    <3>1. x + 1 > 1 /\ x + 1 - 1 = x
      BY <1>7
    <3>2. code[x][2] \in BOOLEAN
      BY <2>3, Zenon DEF FineOpen
    <3>3. Valued(code, x + 1) <=> Gives(code[x])
      BY <1>7 DEF Valued
    <3>4. Gives(code[x]) <=> code[x][2]
      BY <1>13, <3>2 DEF Gives
    <3>5. Valued(code, x + 1) \in BOOLEAN
      BY DEF Valued
    <3> QED
      BY <3>2, <3>3, <3>4, <3>5, Zenon
  <2> QED
    BY <1>1, <2>2, <2>3, <2>4, <2>5, AllPassed, AllLed DEF FineOpen
<1>14. CASE via.conditional = FALSE /\ code[x] = <<"loop", FALSE>> /\ own[x].first = t
  <2>1. value = NoValue /\ code[x][1] = "loop" /\ code[x][2] = FALSE /\ code[x][1] # "block"
    BY <1>8, <1>14
  <2>2. run[<<x + 1, NoValue>>] = t
    BY <1>13, <1>14, <2>1 DEF Passed
  <2>3. code[x][2] = (value # NoValue)
    BY <2>1, Zenon
  <2> QED
    BY <1>9, <2>1, <2>2, <2>3
<1>15. CASE via.conditional = TRUE /\ code[x] = <<"loop", TRUE>> /\ Chooses(F, own[x].first, via.index, t)
  <2>1. value = via.index /\ code[x][1] = "loop" /\ code[x][2] = TRUE /\ code[x][1] # "block"
    BY <1>8, <1>15
  <2>2. value \in Nat /\ value # NoValue
    BY <1>15, <2>1 DEF Chooses, NoValue
  <2>3. code[x][2] = (value # NoValue)
    BY <2>1, <2>2, Zenon
  <2>4. run[<<x + 1, value>>] = t
    <3>1. Valued(code, x + 1) /\ at[x + 1] = own[x].first /\ Passed(F, at, run, x + 1) /\ Led(F, at, run, x + 1)
      BY <1>13, <2>1
    <3>2. CASE value = DefaultExit(Total(F, own[x].first)) /\ t = own[x].first
      BY <3>1, <3>2 DEF Passed
    <3>3. CASE \E r \in Conds(F, own[x].first) : value = IndexOf(F, r) /\ t = r.last + 1
      BY <3>1, <3>3 DEF Led
    <3> QED
      BY <1>15, <2>1, <3>2, <3>3 DEF Chooses
  <2> QED
    BY <1>9, <2>1, <2>3, <2>4
<1> QED
  BY <1>6, <1>11, <1>12, <1>14, <1>15 DEF Landing

\* Finished code does what the strand says.
LEMMA CodeLeads ==
    ASSUME NEW F, NEW en, NEW at, NEW own, Finished(F, en, at, own)
    PROVE  JumpsLand /\ FallsThrough
<1>1. PICK E : E = Enclosing
  OBVIOUS
<1>2. Finished(F, E, at, own)
  BY <1>1, FinishedSeen
<1>3. PICK run : Steps(run, E) /\ \A q, v : Arrives(E, q, v) = run[<<q, v>>]
  BY <1>2, ArrivesIs
<1>4. PICK n \in Nat : n = Len(code) /\ n > 0 /\ code[n][1] = "stub" /\ DOMAIN code = 1..n
  BY DEF Finished, Built
<1>5. ASSUME NEW p \in Instructions
      PROVE  p \in 1..Len(code) /\ p # n /\ p \in Nat /\ Fine(F, list, code, E, at, own, p)
             /\ FineInst(F, list, code, E, at, own, p) /\ code[p][1] = "inst"
  <2>1. p \in 1..n /\ code[p][1] = "inst"
    BY <1>4 DEF Instructions
  <2>2. Fine(F, list, code, E, at, own, p)
    BY <1>2, <1>4, <2>1 DEF Finished, Built
  <2> QED
    BY <1>4, <2>1, <2>2, KindIs
<1>6. JumpsLand
  <2> SUFFICES ASSUME NEW p \in Instructions, At(code[p][2]).branches, At(code[p][2]).target < Size
               PROVE  code[p][3].target # 0 /\ Branches(Enclosing, p, code[p][3]) = At(code[p][2]).target
    BY DEF JumpsLand
  <2>1. FineInst(F, list, code, E, at, own, p) /\ p \in 1..Len(code)
    BY <1>5
  <2>2. PICK via, t : via = code[p][3] /\ t = At(code[p][2]).target
    OBVIOUS
  <2>3. Landing(F, code, E[p], own, via.target, via.conditional, via.index, t)
    BY <2>1, <2>2 DEF FineInst, At, Size
  <2>4. Branches(E, p, via) = t
    BY <1>2, <2>1, <2>3, BranchLands
  <2>5. via.target # 0
    BY <2>3 DEF Landing
  <2> QED
    BY <1>1, <2>2, <2>4, <2>5
<1>7. FallsThrough
  <2>1. E[Len(code)] = <<>>
    BY <1>2 DEF Finished
  <2>2. Arrives(E, 1, NoValue) = 0
    <3>1. Passed(F, at, run, 1) /\ at[1] = 0
      <4>1. at[1] = 0
        BY <1>2, Zenon DEF Finished, Built
      <4>2. 1 \in 1..Len(code)
        BY <1>4
      <4> QED
        BY <1>2, <1>3, <4>1, <4>2, AllPassed
    <3>2. ~Valued(code, 1)
      BY DEF Valued
    <3> QED
      BY <1>3, <3>1, <3>2 DEF Passed
  <2>3. ASSUME NEW p \in Instructions
        PROVE  Arrives(E, p + 1, NoValue) = code[p][2] + 1
    <3>1. p + 1 \in 1..Len(code) /\ p + 1 - 1 = p
      BY <1>4, <1>5
    <3>2. at[p + 1] = at[p] + 1 /\ code[p][2] = at[p]
      <4>1. Fine(F, list, code, E, at, own, p) /\ FineInst(F, list, code, E, at, own, p) /\ code[p][1] = "inst"
        BY <1>5
      <4> QED
        BY <4>1, Zenon DEF Fine, FineInst
    <3>3. ~Gives(code[p])
      BY <1>5 DEF Gives
    <3>4. ~Valued(code, p + 1)
      BY <1>5, <3>3 DEF Valued
    <3>5. Passed(F, at, run, p + 1)
      BY <1>2, <1>3, <3>1, AllPassed
    <3> QED
      BY <1>3, <3>2, <3>4, <3>5 DEF Passed
  <2> QED
    BY <1>1, <2>1, <2>2, <2>3 DEF FallsThrough
<1> QED
  BY <1>6, <1>7

-----------------------------------------------------------------------------
(* Code that grows. *)

\* c2 is c with the m operations of tail behind it
Join(c, tail, m, c2) ==
    /\ Len(c) \in Nat /\ m \in Nat /\ Len(c2) = Len(c) + m /\ DOMAIN c2 = 1..Len(c) + m
    /\ \A k \in 1..Len(c) : c2[k] = c[k]
    /\ \A k \in 1..m : c2[Len(c) + k] = tail[k]
IsSequence(c) == \E S : c \in Seq(S)
\* A concatenation is one sequence behind the other.
LEMMA JoinIs ==
    ASSUME NEW c, IsSequence(c), NEW tail, IsSequence(tail), NEW c2, c2 = c \o tail
    PROVE  IsSequence(c2) /\ Join(c, tail, Len(tail), c2)
<1>1. PICK S, T : c \in Seq(S) /\ tail \in Seq(T)
  BY DEF IsSequence
<1>2. PICK U : U = S \cup T
  OBVIOUS
<1>3. c \in Seq(U) /\ tail \in Seq(U)
  BY <1>1, <1>2
<1>4. c2 \in Seq(U)
  BY <1>3
<1>5. Len(c) \in Nat /\ Len(tail) \in Nat /\ Len(c2) = Len(c) + Len(tail) /\ DOMAIN c2 = 1..Len(c) + Len(tail)
  BY <1>3
<1>6. \A k \in 1..Len(c) : c2[k] = c[k]
  BY <1>3
<1>7. \A k \in 1..Len(tail) : c2[Len(c) + k] = tail[k]
  BY <1>3
<1> QED
  BY <1>4, <1>5, <1>6, <1>7, Zenon DEF IsSequence, Join
\* One construction of a sequence.
LEMMA CountedIs ==
    ASSUME NEW m \in Nat, NEW tail, NEW f, tail = [k \in 1..m |-> f[k]]
    PROVE  IsSequence(tail) /\ Len(tail) = m
<1>1. PICK R : R = {f[k] : k \in 1..m}
  OBVIOUS
<1>2. tail \in [1..m -> R]
  BY <1>1
<1>3. tail \in Seq(R) /\ Len(tail) = m
  BY <1>2, LenProperties
<1> QED
  BY <1>3, Zenon DEF IsSequence

\* A sequence of places is one of later places.
LEMMA Wider ==
    ASSUME NEW n \in Nat, NEW p \in Nat, n <= p, NEW s, s \in Seq(1..n)
    PROVE  s \in Seq(1..p)
<1>1. 1..n \subseteq 1..p
  OBVIOUS
<1> QED
  BY <1>1

\* What is fine stays fine when more is written behind it.
LEMMA Extend ==
    ASSUME NEW F, NEW l, NEW c, NEW en, NEW at, NEW own, Built(F, l, c, en, at, own),
           NEW c2, NEW en2, NEW at2, NEW own2, NEW n \in Nat, n = Len(c), NEW m \in Nat, Len(c2) = n + m,
           DOMAIN c2 = 1..n + m, Agree(c, en, at, own, c2, en2, at2, own2, n),
           \A k \in 1..m : Fine(F, l, c2, en2, at2, own2, n + k)
    PROVE  Built(F, l, c2, en2, at2, own2)
<1>1. ASSUME NEW p \in 1..n
      PROVE  Fine(F, l, c2, en2, at2, own2, p)
  <2>1. Fine(F, l, c, en, at, own, p)
    BY DEF Built
  <2>2. Agree(c, en, at, own, c2, en2, at2, own2, p)
    BY DEF Agree
  <2>3. PICK q \in 0..n : q = p - 1 /\ q + 1 = p
    OBVIOUS
  <2>4. en[q] \in Seq(1..q + 1)
    BY <2>3, BuiltOpen
  <2>5. en[p - 1] \in Seq(1..p) /\ p \in Nat /\ p > 0
    BY <2>3, <2>4
  <2> QED
    BY <2>1, <2>2, <2>5, FineSame
<1>2. ASSUME NEW p \in 1..n + m
      PROVE  Fine(F, l, c2, en2, at2, own2, p)
  <2>1. CASE p <= n
    BY <1>1, <2>1
  <2>2. CASE p > n
    <3>1. PICK k \in 1..m : n + k = p
      <4>1. p - n \in 1..m /\ n + (p - n) = p
        BY <2>2
      <4> QED
        BY <4>1
    <3> QED
      BY <3>1
  <2> QED
    BY <2>1, <2>2
<1>3. en2[0] = <<>> /\ at2[1] = 0
  BY DEF Built, Agree
<1>4. n + m \in Nat /\ Len(c2) \in Nat /\ DOMAIN c2 = 1..Len(c2)
  OBVIOUS
<1>5. \A p \in 1..Len(c2) : Fine(F, l, c2, en2, at2, own2, p)
  BY <1>2
<1> QED
  BY <1>3, <1>4, <1>5, Zenon DEF Built

\* c2 with its constructs is c with its own ones and more behind it, and then the constructs in open are open
Grown(F, l, c, en, at, own, c2, en2, at2, own2, open, i) ==
    /\ Built(F, l, c2, en2, at2, own2) /\ Agree(c, en, at, own, c2, en2, at2, own2, Len(c))
    /\ en2[Len(c2)] = open /\ at2[Len(c2) + 1] = i

Settled(F, l, c, en, at, own, c2, open, i) ==
    /\ \E en2, at2 : Grown(F, l, c, en, at, own, c2, en2, at2, own, open, i)
    /\ ~Valued(c2, Len(c2) + 1)

\* The constructs that have ended are closed.
LEMMA EndsBuilt ==
    ASSUME NEW F, NEW l, NEW c, NEW en, NEW at, NEW own, Built(F, l, c, en, at, own),
           NEW n \in Nat, n = Len(c), NEW top, top = en[n], NEW m \in Nat, m <= Len(top),
           NEW tail, tail = [k \in 1..m |-> <<"end">>], NEW c2, Join(c, tail, m, c2), ~Valued(c, n + 1),
           \A j \in 1..Len(top) : j > Len(top) - m /\ c[top[j]][1] = "block" => own[top[j]].last + 1 = at[n + 1],
           at[n + 1] \in Nat
    PROVE  Settled(F, l, c, en, at, own, c2, SubSeq(top, 1, Len(top) - m), at[n + 1])
<1>1. top \in Seq(1..n) /\ Len(top) \in Nat
  BY BuiltOpen, n \in 0..Len(c)
<1>2. PICK d \in Nat : d = Len(top)
  BY <1>1
<1>3. PICK i \in Nat : i = at[n + 1]
  OBVIOUS
<1>4. PICK en2 : en2 = [k \in 0..n + m |-> IF k <= n THEN en[k] ELSE SubSeq(top, 1, d - (k - n))]
  OBVIOUS
<1>5. PICK at2 : at2 = [k \in 1..n + m + 1 |-> IF k <= n THEN at[k] ELSE i]
  OBVIOUS
<1>6. Len(c2) = n + m /\ DOMAIN c2 = 1..n + m /\ (\A k \in 1..n : c2[k] = c[k])
      /\ (\A k \in 1..m : c2[n + k] = <<"end">>)
  BY DEF Join
<1>7. Agree(c, en, at, own, c2, en2, at2, own, n)
  <2>1. \A k \in 0..n : en2[k] = en[k]
    BY <1>4
  <2>2. \A k \in 1..n + 1 : at2[k] = at[k]
    BY <1>3, <1>5
  <2> QED
    BY <1>6, <2>1, <2>2 DEF Agree
<1>8. ASSUME NEW k \in 0..m
      PROVE  en2[n + k] = SubSeq(top, 1, d - k)
  <2>1. CASE k = 0
    <3>1. SubSeq(top, 1, d) = top
      BY <1>1, <1>2
    <3> QED
      BY <1>4, <2>1, <3>1
  <2>2. CASE k > 0
    <3>1. n + k \in 0..n + m /\ ~(n + k <= n) /\ n + k - n = k
      BY <2>2
    <3> QED
      BY <1>4, <3>1
  <2> QED
    BY <2>1, <2>2
<1>9. ASSUME NEW k \in 1..m + 1
      PROVE  at2[n + k] = i
  <2>1. n + k \in 1..n + m + 1 /\ ~(n + k <= n)
    OBVIOUS
  <2> QED
    BY <1>5, <2>1
<1>10. ASSUME NEW k \in 1..m
       PROVE  Fine(F, l, c2, en2, at2, own, n + k)
  <2>1. PICK p \in Nat : p = n + k /\ p - 1 = n + (k - 1) /\ p + 1 = n + (k + 1)
    OBVIOUS
  <2>2. c2[p] = <<"end">> /\ c2[p][1] = "end" /\ ~IsOpen(c2[p]) /\ ~Takes(c2[p])
    <3>1. c2[n + k] = <<"end">>
      BY <1>6
    <3>2. c2[p] = <<"end">> /\ c2[p][1] = "end"
      BY <2>1, <3>1
    <3> QED
      BY <3>2 DEF IsOpen, Takes
  <2>3. PICK e \in Nat : e = d - k /\ d - (k - 1) = e + 1 /\ e + 1 <= d
    <3>1. d - k \in Nat /\ d - (k - 1) = (d - k) + 1 /\ (d - k) + 1 <= d
      BY <1>2
    <3> QED
      BY <3>1
  <2>4. PICK before, after : before = en2[p - 1] /\ after = en2[p]
    OBVIOUS
  <2>5. before = SubSeq(top, 1, e + 1) /\ after = SubSeq(top, 1, e)
    <3>1. k - 1 \in 0..m /\ k \in 0..m
      OBVIOUS
    <3>2. en2[n + (k - 1)] = SubSeq(top, 1, d - (k - 1)) /\ en2[n + k] = SubSeq(top, 1, d - k)
      BY <1>8, <3>1
    <3> QED
      BY <2>1, <2>3, <2>4, <3>2
  <2>6. /\ before # <<>> /\ Front(before) = after /\ Last(before) = top[e + 1] /\ after \in Seq(1..n)
        /\ e + 1 \in 1..Len(top)
    <3>1. before \in Seq(1..n) /\ Len(before) = e + 1 /\ \A j \in 1..e + 1 : before[j] = top[j]
      <4>1. 1 \in 1..Len(top) + 1 /\ e + 1 \in 1 - 1..Len(top) /\ \A j \in 1..e + 1 : 1 + j - 1 = j
        BY <1>2, <2>3
      <4> QED
        BY <1>1, <2>5, <4>1, SubSeqProperties
    <3>2. after \in Seq(1..n) /\ Len(after) = e /\ \A j \in 1..e : after[j] = top[j]
      <4>1. 1 \in 1..Len(top) + 1 /\ e \in 1 - 1..Len(top) /\ \A j \in 1..e : 1 + j - 1 = j
        BY <1>2, <2>3
      <4> QED
        BY <1>1, <2>5, <4>1, SubSeqProperties
    <3>3. Front(before) = SubSeq(before, 1, e)
      BY <3>1 DEF Front
    <3>4. PICK cut : cut = SubSeq(before, 1, e)
      OBVIOUS
    <3>8. cut \in Seq(1..n) /\ Len(cut) = e /\ \A j \in 1..e : cut[j] = before[j]
      BY <3>1, <3>4
    <3>5. SubSeq(before, 1, e) = after
      <4>1. \A j \in 1..e : j \in 1..e + 1
        OBVIOUS
      <4>2. \A j \in 1..e : cut[j] = after[j]
        BY <3>1, <3>2, <3>8, <4>1, Zenon
      <4>3. cut = after
        BY <3>2, <3>8, <4>2, SeqEqual
      <4> QED
        BY <3>4, <4>3
    <3>6. before # <<>>
      BY <3>1
    <3>7. Last(before) = top[e + 1]
      BY <3>1 DEF Last
    <3> QED
      BY <1>2, <2>3, <3>2, <3>3, <3>5, <3>6, <3>7
  <2>7. at2[p] = i /\ at2[p + 1] = i
    <3>1. k \in 1..m + 1 /\ k + 1 \in 1..m + 1
      OBVIOUS
    <3> QED
      BY <1>9, <2>1, <3>1
  <2>8. ~Valued(c2, p)
    <3>1. CASE k = 1
      <4>1. p = n + 1 /\ p - 1 = n
        BY <2>1, <3>1
      <4>2. n = 0 \/ c2[n] = c[n]
        BY <1>6
      <4> QED
        BY <4>1, <4>2 DEF Valued
    <3>2. CASE k > 1
      <4>1. k - 1 \in 1..m
        BY <3>2
      <4>2. c2[p - 1] = <<"end">>
        BY <1>6, <2>1, <4>1
      <4>3. c2[p - 1][1] = "end"
        BY <4>2
      <4> QED
        BY <4>3 DEF Valued, Gives
    <3> QED
      BY <3>1, <3>2
  <2>9. FineEnd(c2, en2, at2, own, p)
    <3>1. PICK x : x = top[e + 1]
      OBVIOUS
    <3>2. x \in 1..n /\ c2[x] = c[x]
      BY <1>1, <1>6, <2>6, <3>1
    <3>3. c[x][1] = "block" => own[x].last + 1 = i
      <4>1. e + 1 > Len(top) - m
        BY <1>2, <2>3
      <4> QED
        BY <1>3, <2>6, <3>1, <4>1
    <3> QED
      BY <2>2, <2>4, <2>6, <2>7, <3>1, <3>2, <3>3 DEF FineEnd
  <2>10. after \in Seq(1..p)
    <3>1. n <= p
      BY <2>1
    <3> QED
      BY <2>6, <3>1, Wider
  <2>11. Fine(F, l, c2, en2, at2, own, p)
    <3>1. en2[p] = IF IsOpen(c2[p]) THEN Append(en2[p - 1], p) ELSE IF c2[p][1] = "end" THEN Front(en2[p - 1]) ELSE en2[p - 1]
      BY <2>2, <2>4, <2>6
    <3>2. at2[p] \in Nat /\ at2[p + 1] = IF c2[p][1] = "inst" THEN at2[p] + 1 ELSE at2[p]
      BY <2>2, <2>7
    <3> QED
      BY <2>2, <2>4, <2>8, <2>9, <2>10, <3>1, <3>2, Zenon DEF Fine
  <2> QED
    BY <2>1, <2>11
<1>11. Built(F, l, c2, en2, at2, own)
  BY <1>6, <1>7, <1>10, Extend
<1>12. en2[n + m] = SubSeq(top, 1, Len(top) - m) /\ at2[n + m + 1] = i
  <2>1. n + m + 1 = n + (m + 1)
    OBVIOUS
  <2> QED
    BY <1>2, <1>8, <1>9, <2>1
<1>13. ~Valued(c2, n + m + 1)
  <2>1. CASE m = 0
    <3>1. n = 0 \/ c2[n] = c[n]
      BY <1>6
    <3> QED
      BY <2>1, <3>1 DEF Valued
  <2>2. CASE m > 0
    <3>1. c2[n + m] = <<"end">> /\ n + m + 1 - 1 = n + m
      <4>1. m \in 1..m /\ n + m + 1 - 1 = n + m
        BY <2>2
      <4>2. c2[n + m] = <<"end">>
        BY <1>6, <4>1, Zenon
      <4> QED
        BY <4>1, <4>2
    <3>2. c2[n + m][1] = "end"
      BY <3>1
    <3> QED
      BY <3>1, <3>2 DEF Valued, Gives
  <2> QED
    BY <2>1, <2>2
<1>14. Grown(F, l, c, en, at, own, c2, en2, at2, own, SubSeq(top, 1, Len(top) - m), at[n + 1])
  BY <1>3, <1>6, <1>7, <1>11, <1>12 DEF Grown
<1>15. ~Valued(c2, Len(c2) + 1)
  BY <1>6, <1>13
<1> QED
  BY <1>14, <1>15, Zenon DEF Settled

\* Instructions are written, the jumps among them aimed at open constructs.
LEMMA InstsBuilt ==
    ASSUME NEW F, NEW l, NEW c, NEW en, NEW at, NEW own, Built(F, l, c, en, at, own),
           NEW n \in Nat, n = Len(c), NEW top, top = en[n], NEW m \in Nat, NEW i \in Nat, at[n + 1] = i,
           NEW via, NEW tail, \A k \in 1..m : tail[k] = <<"inst", i + k - 1, via[k]>>,
           NEW c2, Join(c, tail, m, c2), ~Valued(c, n + 1), i + m <= Len(l), Len(l) \in Nat,
           \A k \in 1..m : l[i + k].branches /\ l[i + k].target < Len(l) =>
               Landing(F, c, top, own, via[k].target, via[k].conditional, via[k].index, l[i + k].target)
    PROVE  Settled(F, l, c, en, at, own, c2, top, i + m)
<1>1. top \in Seq(1..n)
  BY BuiltOpen, n \in 0..Len(c)
<1>2. PICK en2 : en2 = [k \in 0..n + m |-> IF k <= n THEN en[k] ELSE top]
  OBVIOUS
<1>3. PICK at2 : at2 = [k \in 1..n + m + 1 |-> IF k <= n THEN at[k] ELSE i + (k - n - 1)]
  OBVIOUS
<1>4. Len(c2) = n + m /\ DOMAIN c2 = 1..n + m /\ \A k \in 1..n : c2[k] = c[k]
  BY DEF Join
<1>5. ASSUME NEW k \in 1..m
      PROVE  c2[n + k] = <<"inst", i + k - 1, via[k]>>
  BY DEF Join
<1>6. Agree(c, en, at, own, c2, en2, at2, own, n)
  <2>1. \A k \in 0..n : en2[k] = en[k]
    BY <1>2
  <2>2. \A k \in 1..n + 1 : at2[k] = at[k]
    BY <1>3
  <2> QED
    BY <1>4, <2>1, <2>2 DEF Agree
<1>7. ASSUME NEW k \in 0..m
      PROVE  en2[n + k] = top
  BY <1>2
<1>8. ASSUME NEW k \in 1..m + 1
      PROVE  at2[n + k] = i + k - 1
  <2>1. n + k \in 1..n + m + 1 /\ ~(n + k <= n) /\ i + (n + k - n - 1) = i + k - 1
    OBVIOUS
  <2> QED
    BY <1>3, <2>1
<1>9. ASSUME NEW k \in 1..m
      PROVE  ~Valued(c2, n + k + 1) /\ ~Takes(c2[n + k]) /\ ~IsOpen(c2[n + k]) /\ c2[n + k][1] = "inst"
             /\ c2[n + k][2] = i + k - 1 /\ c2[n + k][3] = via[k]
  <2>1. c2[n + k][1] = "inst" /\ c2[n + k][2] = i + k - 1 /\ c2[n + k][3] = via[k]
    <3>1. PICK v, j : v = via[k] /\ j = i + k - 1
      OBVIOUS
    <3>2. c2[n + k] = <<"inst", j, v>>
      BY <1>5, <3>1
    <3> QED
      BY <3>1, <3>2
  <2>2. n + k + 1 - 1 = n + k
    OBVIOUS
  <2> QED
    BY <2>1, <2>2 DEF Valued, Gives, Takes, IsOpen
<1>10. ~Valued(c2, n + 1)
  <2>1. n = 0 \/ c2[n] = c[n]
    BY <1>4
  <2> QED
    BY <2>1 DEF Valued
<1>11. ASSUME NEW k \in 1..m
       PROVE  Fine(F, l, c2, en2, at2, own, n + k)
  <2>1. PICK p \in Nat : p = n + k /\ p - 1 = n + (k - 1) /\ p + 1 = n + (k + 1)
    OBVIOUS
  <2>2. en2[p] = top /\ en2[p - 1] = top
    <3>1. k - 1 \in 0..m /\ k \in 0..m
      OBVIOUS
    <3> QED
      BY <1>7, <2>1, <3>1
  <2>3. at2[p] = i + k - 1 /\ at2[p + 1] = i + k
    <3>1. k \in 1..m + 1 /\ k + 1 \in 1..m + 1 /\ i + (k + 1) - 1 = i + k
      OBVIOUS
    <3> QED
      BY <1>8, <2>1, <3>1
  <2>4. ~Takes(c2[p]) /\ ~IsOpen(c2[p]) /\ c2[p][1] = "inst" /\ c2[p][1] # "end"
        /\ c2[p][2] = i + k - 1 /\ c2[p][3] = via[k]
    BY <1>9, <2>1
  <2>5. ~Valued(c2, p)
    <3>1. CASE k = 1
      BY <1>10, <2>1, <3>1
    <3>2. CASE k # 1
      <4>1. PICK j \in 1..m : j = k - 1 /\ n + j + 1 = n + k
        BY <3>2
      <4> QED
        BY <1>9, <2>1, <4>1
    <3> QED
      BY <3>1, <3>2
  <2>6. i + k - 1 \in Nat /\ i + k - 1 < Len(l) /\ i + k = i + k - 1 + 1
    OBVIOUS
  <2>7. FineInst(F, l, c2, en2, at2, own, p)
    <3>1. ASSUME l[i + k].branches, l[i + k].target < Len(l)
          PROVE  Landing(F, c2, top, own, via[k].target, via[k].conditional, via[k].index, l[i + k].target)
      <4>1. Landing(F, c, top, own, via[k].target, via[k].conditional, via[k].index, l[i + k].target)
        BY <3>1
      <4>2. \A j \in 1..n : c2[j] = c[j] /\ own[j] = own[j]
        BY <1>4
      <4> QED
        <5>1. LandsSame(F, c, top, own, c2, own)
          BY <1>1, <4>2, LandingSame
        <5> QED
          BY <4>1, <5>1, Zenon DEF LandsSame
    <3>2. at2[p] + 1 = i + k
      BY <2>3, <2>6
    <3> QED
      BY <2>2, <2>3, <2>4, <2>6, <3>1, <3>2 DEF FineInst
  <2>8. top \in Seq(1..p)
    <3>1. n <= p
      BY <2>1
    <3> QED
      BY <1>1, <3>1, Wider
  <2>9. Fine(F, l, c2, en2, at2, own, p)
    <3>1. at2[p] \in Nat /\ at2[p + 1] = IF c2[p][1] = "inst" THEN at2[p] + 1 ELSE at2[p]
      BY <2>3, <2>4, <2>6
    <3>2. en2[p] = IF IsOpen(c2[p]) THEN Append(en2[p - 1], p) ELSE IF c2[p][1] = "end" THEN Front(en2[p - 1]) ELSE en2[p - 1]
      BY <2>2, <2>4
    <3>3. en2[p] \in Seq(1..p) /\ (Valued(c2, p) <=> Takes(c2[p]))
      BY <2>2, <2>4, <2>5, <2>8
    <3> QED
      BY <2>7, <3>1, <3>2, <3>3, Zenon DEF Fine
  <2> QED
    BY <2>1, <2>9
<1>12. Built(F, l, c2, en2, at2, own)
  BY <1>4, <1>6, <1>11, Extend
<1>13. en2[n + m] = top /\ at2[n + m + 1] = i + m
  <2>1. m \in 0..m
    OBVIOUS
  <2>2. m + 1 \in 1..m + 1
    OBVIOUS
  <2>3. PICK k \in 1..m + 1 : k = m + 1
    BY <2>2
  <2>4. n + k = n + m + 1 /\ i + k - 1 = i + m
    BY <2>3
  <2> QED
    BY <1>7, <1>8, <2>1, <2>4
<1>14. ~Valued(c2, n + m + 1)
  <2>1. CASE m = 0
    BY <1>10, <2>1
  <2>2. CASE m > 0
    BY <1>9, <2>2, m \in 1..m
  <2> QED
    BY <2>1, <2>2
<1>15. Grown(F, l, c, en, at, own, c2, en2, at2, own, top, i + m)
  BY <1>4, <1>6, <1>12, <1>13 DEF Grown
<1>16. ~Valued(c2, Len(c2) + 1)
  BY <1>4, <1>14
<1> QED
  BY <1>15, <1>16, Zenon DEF Settled

Roomy(n, c, en, at, own, c2, top2, i2, o) ==
    \E en2, at2, own2 : /\ Agree(c, en, at, own, c2, en2, at2, own2, n)
                        /\ en2[n + 1] = top2 /\ at2[n + 2] = i2 /\ own2[n + 1] = o
\* There is room behind what is known of a place.
LEMMA Room ==
    ASSUME NEW n \in Nat, NEW c, NEW en, NEW at, NEW own, NEW c2, \A k \in 1..n : c2[k] = c[k],
           NEW top2, NEW i2, NEW o
    PROVE  Roomy(n, c, en, at, own, c2, top2, i2, o)
<1>1. PICK en2 : en2 = [k \in 0..n + 1 |-> IF k <= n THEN en[k] ELSE top2]
  OBVIOUS
<1>2. PICK at2 : at2 = [k \in 1..n + 2 |-> IF k <= n + 1 THEN at[k] ELSE i2]
  OBVIOUS
<1>3. PICK own2 : own2 = [k \in 1..n + 1 |-> IF k <= n THEN own[k] ELSE o]
  OBVIOUS
<1>4. (\A k \in 0..n : en2[k] = en[k]) /\ en2[n + 1] = top2
  BY <1>1
<1>5. (\A k \in 1..n + 1 : at2[k] = at[k]) /\ at2[n + 2] = i2
  BY <1>2
<1>6. (\A k \in 1..n : own2[k] = own[k]) /\ own2[n + 1] = o
  BY <1>3
<1> QED
  BY <1>4, <1>5, <1>6, Zenon DEF Agree, Roomy

\* an operation that is written at i, where the constructs in top are open, and leaves those in top2 open
Follows(F, c, own, n, top, i, op, top2, o) ==
    \/ op[1] = "stub" /\ op[2] = i /\ top2 = top
    \/ op[1] = "const" /\ op[2] = DefaultExit(Total(F, i)) /\ Total(F, i) > 0 /\ top2 = top
    \/ op[1] = "dispatch" /\ Labelled(F, c, top, own, op[2], i) /\ top2 = top
    \/ /\ op[1] \in {"loop", "block"} /\ op = <<op[1], op[2]>> /\ op[2] \in BOOLEAN
       /\ o \in F /\ o.first = i /\ (op[1] = "loop" <=> o.type = "backwards")
       /\ top2 = Append(top, n + 1)
Written(F, l, c, en, at, own, c2, top2, i, o) ==
    \E en2, at2, own2 : Grown(F, l, c, en, at, own, c2, en2, at2, own2, top2, i) /\ own2[Len(c) + 1] = o
\* One operation is written that is no instruction.
LEMMA OneBuilt ==
    ASSUME NEW F, NEW l, NEW c, NEW en, NEW at, NEW own, Built(F, l, c, en, at, own),
           NEW n \in Nat, n = Len(c), NEW top, top = en[n], NEW i \in Nat, at[n + 1] = i,
           NEW op, NEW top2, NEW o, Follows(F, c, own, n, top, i, op, top2, o), Valued(c, n + 1) <=> Takes(op),
           NEW tail, tail[1] = op, NEW c2, Join(c, tail, 1, c2)
    PROVE  Written(F, l, c, en, at, own, c2, top2, i, o)
<1>1. top \in Seq(1..n)
  BY BuiltOpen, n \in 0..Len(c)
<1>2. Len(c2) = n + 1 /\ DOMAIN c2 = 1..n + 1 /\ (\A k \in 1..n : c2[k] = c[k]) /\ c2[n + 1] = op
  <2>1. \A k \in 1..1 : c2[n + k] = tail[k]
    BY DEF Join
  <2> QED
    BY <2>1 DEF Join
<1>3. PICK en2, at2, own2 : /\ Agree(c, en, at, own, c2, en2, at2, own2, n)
                            /\ en2[n + 1] = top2 /\ at2[n + 2] = i /\ own2[n + 1] = o
  <2>1. Roomy(n, c, en, at, own, c2, top2, i, o)
    BY <1>2, Room
  <2> QED
    BY <2>1, Zenon DEF Roomy
<1>4. PICK p \in Nat : p = n + 1 /\ p - 1 = n /\ p + 1 = n + 2
  OBVIOUS
<1>5. en2[p - 1] = top /\ at2[p] = i /\ en2[p] = top2 /\ at2[p + 1] = i /\ own2[p] = o /\ c2[p] = op
  <2>1. n \in 0..n /\ n + 1 \in 1..n + 1
    OBVIOUS
  <2> QED
    BY <1>2, <1>3, <1>4, <2>1 DEF Agree
<1>6. Valued(c2, p) <=> Takes(c2[p])
  <2>1. n = 0 \/ c2[n] = c[n]
    BY <1>2
  <2>2. Valued(c2, p) <=> Valued(c, n + 1)
    BY <1>4, <2>1 DEF Valued
  <2> QED
    BY <1>5, <2>2
<1>7. top \in Seq(1..p)
  <2>1. n <= p
    BY <1>4
  <2> QED
    BY <1>1, <2>1, Wider
<1>8. ASSUME top2 \in Seq(1..p), op[1] # "inst",
             top2 = IF IsOpen(op) THEN Append(top, p) ELSE IF op[1] = "end" THEN Front(top) ELSE top,
             \/ op[1] = "stub" /\ op[2] = i
             \/ FineOpen(F, c2, at2, own2, p)
             \/ FineConst(F, c2, at2, p)
             \/ FineDispatch(F, c2, en2, at2, own2, p)
      PROVE  Fine(F, l, c2, en2, at2, own2, p)
  <2>1. at2[p] \in Nat /\ at2[p + 1] = IF c2[p][1] = "inst" THEN at2[p] + 1 ELSE at2[p]
    BY <1>5, <1>8
  <2>2. /\ en2[p] \in Seq(1..p)
        /\ en2[p] = IF IsOpen(c2[p]) THEN Append(en2[p - 1], p) ELSE IF c2[p][1] = "end" THEN Front(en2[p - 1]) ELSE en2[p - 1]
    BY <1>5, <1>8
  <2>3. \/ c2[p][1] = "stub" /\ c2[p][2] = at2[p]
        \/ FineOpen(F, c2, at2, own2, p)
        \/ FineConst(F, c2, at2, p)
        \/ FineDispatch(F, c2, en2, at2, own2, p)
    BY <1>5, <1>8
  <2> QED
    BY <1>6, <2>1, <2>2, <2>3, Zenon DEF Fine
<1>9. Fine(F, l, c2, en2, at2, own2, p)
  <2>1. CASE op[1] = "stub" /\ op[2] = i /\ top2 = top
    <3>1. op[1] # "inst" /\ ~IsOpen(op) /\ op[1] # "end"
      BY <2>1 DEF IsOpen
    <3> QED
      BY <1>7, <1>8, <2>1, <3>1
  <2>2. CASE op[1] = "const" /\ op[2] = DefaultExit(Total(F, i)) /\ Total(F, i) > 0 /\ top2 = top
    <3>1. op[1] # "inst" /\ ~IsOpen(op) /\ op[1] # "end"
      BY <2>2 DEF IsOpen
    <3>2. FineConst(F, c2, at2, p)
      BY <1>5, <2>2, Zenon DEF FineConst
    <3> QED
      BY <1>7, <1>8, <2>2, <3>1, <3>2
  <2>3. CASE op[1] = "dispatch" /\ Labelled(F, c, top, own, op[2], i) /\ top2 = top
    <3>1. op[1] # "inst" /\ ~IsOpen(op) /\ op[1] # "end"
      BY <2>3 DEF IsOpen
    <3>2. \A k \in 1..n : c2[k] = c[k] /\ own2[k] = own[k]
      BY <1>3 DEF Agree
    <3>3. Labelled(F, c2, top, own2, op[2], i)
      <4>1. LandsSame(F, c, top, own, c2, own2)
        BY <1>1, <3>2, LandingSame
      <4> QED
        BY <2>3, <4>1, Zenon DEF LandsSame
    <3>4. FineDispatch(F, c2, en2, at2, own2, p)
      BY <1>5, <2>3, <3>3, Zenon DEF FineDispatch
    <3> QED
      BY <1>7, <1>8, <2>3, <3>1, <3>4
  <2>4. CASE /\ op[1] \in {"loop", "block"} /\ op = <<op[1], op[2]>> /\ op[2] \in BOOLEAN
             /\ o \in F /\ o.first = i /\ (op[1] = "loop" <=> o.type = "backwards")
             /\ top2 = Append(top, n + 1)
    <3>1. op[1] # "inst" /\ IsOpen(op)
      BY <2>4 DEF IsOpen
    <3>2. FineOpen(F, c2, at2, own2, p)
      BY <1>5, <2>4, <3>1, Zenon DEF FineOpen
    <3>3. top2 \in Seq(1..p) /\ top2 = Append(top, p)
      <4>1. p \in 1..p
        BY <1>4
      <4> QED
        BY <1>4, <1>7, <2>4, <4>1
    <3> QED
      BY <1>8, <3>1, <3>2, <3>3
  <2> QED
    BY <2>1, <2>2, <2>3, <2>4 DEF Follows
<1>10. Built(F, l, c2, en2, at2, own2)
  <2>1. \A k \in 1..1 : Fine(F, l, c2, en2, at2, own2, n + k)
    BY <1>4, <1>9
  <2> QED
    BY <1>2, <1>3, <2>1, Extend, 1 \in Nat
<1>11. en2[Len(c2)] = top2 /\ at2[Len(c2) + 1] = i
  BY <1>2, <1>3
<1>12. Grown(F, l, c, en, at, own, c2, en2, at2, own2, top2, i) /\ own2[Len(c) + 1] = o
  BY <1>3, <1>10, <1>11 DEF Grown
<1> QED
  BY <1>12, Zenon DEF Written

-----------------------------------------------------------------------------
(* The targets and the stack. *)

Aimed == [address : Nat, stack : Nat, first : Nat, index : Nat, conditional : BOOLEAN, active : BOOLEAN]
Live(ts) == {ts[k] : k \in {j \in 1..Len(ts) : ts[j].active}}
\* A target that is placed is one of those that are active, and none of them is lost.
LEMMA PlacedIs ==
    ASSUME NEW ts \in Seq(Aimed), NEW t \in Aimed, t.active, NEW ts2, ts2 = Placed(ts, t)
    PROVE  ts2 \in Seq(Aimed) /\ Live(ts2) = Live(ts) \cup {t}
<1>1. PICK n \in Nat : n = Len(ts) /\ DOMAIN ts = 1..n
  OBVIOUS
<1>2. PICK free : free = {k \in 1..Len(ts) : ~ts[k].active}
  OBVIOUS
<1>3. CASE free = {}
  <2>1. ts2 = Append(ts, t)
    BY <1>2, <1>3, Zenon DEF Placed
  <2>2. ts2 \in Seq(Aimed) /\ Len(ts2) = n + 1 /\ (\A k \in 1..n : ts2[k] = ts[k]) /\ ts2[n + 1] = t
    BY <1>1, <2>1
  <2>3. Live(ts2) \subseteq Live(ts) \cup {t}
    BY <1>1, <2>2 DEF Live
  <2>4. Live(ts) \cup {t} \subseteq Live(ts2)
    BY <1>1, <2>2 DEF Live
  <2> QED
    BY <2>2, <2>3, <2>4
<1>4. CASE free # {}
  <2>1. free \subseteq Nat
    BY <1>1, <1>2
  <2>2. PICK least : least = CHOOSE k \in free : \A m \in free : k <= m
    OBVIOUS
  <2>3. least \in free
    BY <1>4, <2>1, <2>2, LeastNumber
  <2>4. ts2 = [ts EXCEPT ![least] = t]
    BY <1>2, <1>4, <2>2, Zenon DEF Placed
  <2>5. ts2 \in Seq(Aimed) /\ Len(ts2) = n /\ (\A k \in 1..n : k # least => ts2[k] = ts[k]) /\ ts2[least] = t
        /\ least \in 1..n /\ ~ts[least].active
    BY <1>1, <1>2, <2>3, <2>4
  <2>6. Live(ts2) \subseteq Live(ts) \cup {t}
    BY <1>1, <2>5 DEF Live
  <2>7. Live(ts) \cup {t} \subseteq Live(ts2)
    BY <1>1, <2>5 DEF Live
  <2> QED
    BY <2>5, <2>6, <2>7
<1> QED
  BY <1>3, <1>4

\* A target that is dropped is no longer active.
LEMMA DroppedIs ==
    ASSUME NEW t \in Aimed, NEW u, u = [t EXCEPT !.active = FALSE]
    PROVE  u \in Aimed /\ u.active = FALSE
BY DEF Aimed

\* The targets of the constructs that are gone are dropped.
LEMMA PatchedIs ==
    ASSUME NEW ts \in Seq(Aimed), NEW open, NEW m \in Nat, m = Len(open),
           \A t \in Live(ts) : t.conditional /\ t.stack > m =>
               ~\E k \in 1..Len(open) : open[k].type = "backwards" /\ open[k].first = t.first,
           NEW ts2, ts2 = [k \in DOMAIN ts |-> Patched(ts[k], open)]
    PROVE  ts2 \in Seq(Aimed) /\ Live(ts2) = {t \in Live(ts) : t.stack <= m}
<1>1. PICK n \in Nat : n = Len(ts) /\ DOMAIN ts = 1..n
  OBVIOUS
<1>2. ASSUME NEW k \in 1..n
      PROVE  /\ ts2[k] \in Aimed
             /\ ts2[k].active <=> ts[k].active /\ ts[k].stack <= m
             /\ ts2[k].active => ts2[k] = ts[k]
  <2>1. PICK t \in Aimed : t = ts[k]
    BY <1>1
  <2>2. ts2[k] = Patched(t, open)
    BY <1>1, <2>1
  <2>3. CASE ~t.active \/ t.stack <= m
    <3>1. ts2[k] = t
      BY <2>2, <2>3, Zenon DEF Patched
    <3> QED
      BY <2>1, <2>3, <3>1
  <2>4. CASE t.active /\ ~(t.stack <= m)
    <3>1. t \in Live(ts) /\ t.stack > m
      BY <1>1, <2>1, <2>4 DEF Live, Aimed
    <3>2. PICK loops : loops = {j \in 1..Len(open) : open[j].type = "backwards" /\ open[j].first = t.first}
      OBVIOUS
    <3>3. t.conditional => loops = {}
      BY <3>1, <3>2
    <3>4. ts2[k] = [t EXCEPT !.active = FALSE]
      BY <2>2, <2>4, <3>2, <3>3, Zenon DEF Patched
    <3>5. ts2[k] \in Aimed /\ ts2[k].active = FALSE
      BY <3>4, DroppedIs
    <3> QED
      BY <2>1, <2>4, <3>5
  <2> QED
    BY <2>3, <2>4
<1>3. ts2 \in Seq(Aimed) /\ Len(ts2) = n
  <2>1. ts2 \in [1..n -> Aimed]
    BY <1>1, <1>2
  <2> QED
    BY <2>1, LenProperties
<1>4. Live(ts2) \subseteq {t \in Live(ts) : t.stack <= m}
  BY <1>1, <1>2, <1>3 DEF Live
<1>5. {t \in Live(ts) : t.stack <= m} \subseteq Live(ts2)
  BY <1>1, <1>2, <1>3 DEF Live
<1> QED
  BY <1>3, <1>4, <1>5

\* A target that is looked up is one of the active ones with that address, if there is one.
LEMMA LookupIs ==
    ASSUME NEW ts \in Seq(Aimed), NEW address, \E t \in Live(ts) : t.address = address,
           NEW via, via = Lookup(ts, address)
    PROVE  \E t \in Live(ts) : /\ t.address = address /\ via.target = t.stack /\ via.conditional = t.conditional
                               /\ t.conditional => via.index = t.index
<1>1. PICK n \in Nat : n = Len(ts) /\ DOMAIN ts = 1..n
  OBVIOUS
<1> DEFINE found == {k \in DOMAIN ts : ts[k].address = address /\ ts[k].active}
           direct == {k \in found : ~ts[k].conditional}
           first == CHOOSE k \in direct : \A m \in direct : k <= m
           last == CHOOSE k \in found : \A m \in found : m <= k
<1>2. \A k : k \in found <=> k \in DOMAIN ts /\ ts[k].address = address /\ ts[k].active
  OBVIOUS
<1>3. \A k : k \in direct <=> k \in found /\ ~ts[k].conditional
  OBVIOUS
<1>4. /\ first = CHOOSE k \in direct : \A m \in direct : k <= m
      /\ last = CHOOSE k \in found : \A m \in found : m <= k
  OBVIOUS
<1>5. Lookup(ts, address) = IF direct # {} THEN [NoTarget EXCEPT !.target = ts[first].stack]
                            ELSE IF found # {} THEN [target |-> ts[last].stack, index |-> ts[last].index, conditional |-> TRUE]
                            ELSE NoTarget
  BY Zenon DEF Lookup
<1> HIDE DEF found, direct, first, last
<1>6. found # {}
  BY <1>1, <1>2 DEF Live
<1>7. \A k \in found : ts[k] \in Live(ts) /\ ts[k].address = address /\ ts[k] \in Aimed
  BY <1>1, <1>2 DEF Live
<1>8. found \subseteq Nat /\ direct \subseteq Nat /\ \A k \in found : k <= n
  BY <1>1, <1>2, <1>3
<1>9. CASE direct # {}
  <2>1. first \in direct
    BY <1>4, <1>8, <1>9, LeastNumber
  <2>2. PICK t \in Live(ts) : t = ts[first] /\ t.address = address /\ t \in Aimed /\ ~t.conditional
    BY <1>3, <1>7, <2>1
  <2>3. via = [NoTarget EXCEPT !.target = t.stack]
    BY <1>5, <1>9, <2>2
  <2>4. via.target = t.stack /\ via.conditional = FALSE
    BY <2>3 DEF NoTarget
  <2>5. t.conditional = FALSE
    BY <2>2 DEF Aimed
  <2> QED
    BY <2>2, <2>4, <2>5, Zenon
<1>10. CASE direct = {}
  <2>1. last \in found
    BY <1>4, <1>6, <1>8, GreatestNumber
  <2>2. PICK t \in Live(ts) : t = ts[last] /\ t.address = address /\ t \in Aimed /\ t.conditional
    BY <1>3, <1>7, <1>10, <2>1
  <2>3. via = [target |-> t.stack, index |-> t.index, conditional |-> TRUE]
    BY <1>5, <1>6, <1>10, <2>2
  <2>4. t.conditional = TRUE
    BY <2>2 DEF Aimed
  <2> QED
    <3>1. via.target = t.stack /\ via.index = t.index /\ via.conditional = TRUE
      BY <2>3
    <3>2. via.conditional = t.conditional
      BY <2>4, <3>1, Zenon
    <3> QED
      BY <2>2, <3>1, <3>2, Zenon
<1> QED
  BY <1>9, <1>10

\* What is kept of the stack are the ranges that have not ended.
LEMMA KeptIs ==
    ASSUME NEW s, s \in Seq(Spans), index \in Nat,
           \A i, j \in 1..Len(s) : i < j => s[j].last <= s[i].last
    PROVE  \E m \in 0..Len(s) : Kept(s) = SubSeq(s, 1, m) /\ \A i \in 1..Len(s) : i <= m <=> index <= s[i].last
<1>1. PICK n \in Nat : n = Len(s)
  OBVIOUS
<1>2. PICK ends : ends = {k \in 0..Len(s) : k = 0 \/ index <= s[k].last}
  OBVIOUS
<1>3. PICK m : m = CHOOSE k \in ends : \A j \in ends : j <= k
  OBVIOUS
<1>4. m \in ends /\ \A j \in ends : j <= m
  <2>1. ends \subseteq Nat /\ 0 \in ends /\ \A k \in ends : k <= n
    BY <1>1, <1>2
  <2> QED
    BY <1>1, <1>3, <2>1, GreatestNumber
<1>5. m \in 0..n /\ (m = 0 \/ index <= s[m].last)
  BY <1>1, <1>2, <1>4
<1>6. ASSUME NEW i \in 1..n
      PROVE  i <= m <=> index <= s[i].last
  <2>1. s[i].last \in Nat
    BY <1>1, RangeIs
  <2>2. ASSUME i <= m
        PROVE  index <= s[i].last
    <3>1. m \in 1..n /\ s[m].last \in Nat
      BY <1>1, <1>5, <2>2, RangeIs
    <3>2. i = m \/ s[m].last <= s[i].last
      BY <1>1, <2>2, <3>1
    <3> QED
      BY <1>5, <2>1, <3>1, <3>2
  <2>3. ASSUME index <= s[i].last
        PROVE  i <= m
    BY <1>1, <1>2, <1>4, <2>3
  <2> QED
    BY <2>2, <2>3
<1>7. Kept(s) = SubSeq(s, 1, m)
  BY <1>2, <1>3, Zenon DEF Kept
<1> QED
  BY <1>1, <1>5, <1>6, <1>7

-----------------------------------------------------------------------------
(* The writer: the ranges that are open and those still to come, which     *)
(* constructs take a value, and what the active targets lead to.           *)

\* rs of F is to come, and of the rest the stack holds what reaches low
Stacked(F, st, rs, low) ==
    /\ st \in Seq(F) /\ rs \subseteq F
    /\ \A j \in 1..Len(st) : st[j] \notin rs /\ low <= st[j].last
    /\ \A r \in F : r \notin rs /\ low <= r.last => \E j \in 1..Len(st) : st[j] = r
    /\ \A j, k \in 1..Len(st) : j < k => Inside(st[k], st[j]) /\ st[k] # st[j]
Split(F, rs, i) ==
    /\ \A r \in rs : i <= r.first
    /\ \A s \in F : s \notin rs => s.first <= i
    /\ \A s \in F, r \in rs : s \notin rs => Precedes(s, r)
\* the target t leads where it says
Hits(F, st, takes, t) ==
    /\ t.stack \in 1..Len(st) /\ t.first = st[t.stack].first
    /\ \/ t.conditional = FALSE /\ st[t.stack].type # "backwards" /\ st[t.stack].last + 1 = t.address
       \/ t.conditional = FALSE /\ st[t.stack].type = "backwards" /\ takes[t.stack] = FALSE /\ st[t.stack].first = t.address
       \/ t.conditional = TRUE /\ st[t.stack].type = "backwards" /\ takes[t.stack] = TRUE
          /\ Chooses(F, st[t.stack].first, t.index, t.address)
\* every open range has a target, and so have the conditional ones of a loop as long as the loop is open
Reaches(F, st, rs, T) ==
    \A j \in 1..Len(st) :
        /\ \E t \in T : t.stack = j /\ t.address = IF st[j].type = "backwards" THEN st[j].first ELSE st[j].last + 1
        /\ st[j].type = "backwards" =>
               \A q \in Conds(F, st[j].first) : q \notin rs => \E t \in T : t.stack = j /\ t.address = q.last + 1
Writer(F, st, takes, rs, low, ts) ==
    /\ Stacked(F, st, rs, low) /\ takes \in Seq(BOOLEAN) /\ Len(takes) = Len(st) /\ ts \in Seq(Aimed)
    /\ \A t \in Live(ts) : Hits(F, st, takes, t)
    /\ Reaches(F, st, rs, Live(ts))
Ranges(F) == F \subseteq Spans /\ IsFiniteSet(F) /\ Nested(F) /\ OneLoop(F) /\ Headed({}, F)

\* open is what is left of the stack
Closing(F, st, takes, rs, open, ts2) ==
    \E m \in 0..Len(st) :
        /\ open = SubSeq(st, 1, m) /\ Len(open) = m
        /\ \A j \in 1..m : open[j] = st[j]
        /\ \A j \in 1..Len(st) : j > m => st[j].last = index - 1
        /\ Writer(F, open, SubSeq(takes, 1, m), rs, index, ts2)
\* A stack stays one when the ranges are closed that have ended.
LEMMA Closed ==
    ASSUME NEW F, Ranges(F), NEW st, NEW takes, NEW rs, NEW ts, index \in Nat, Writer(F, st, takes, rs, index - 1, ts),
           NEW open, open = Kept(st), NEW ts2, ts2 = [k \in DOMAIN ts |-> Patched(ts[k], open)]
    PROVE  Closing(F, st, takes, rs, open, ts2)
<1>1. PICK n \in Nat : n = Len(st)
  BY DEF Writer, Stacked
<1>2. F \subseteq Spans /\ OneLoop(F)
  BY DEF Ranges
<1>3. Stacked(F, st, rs, index - 1)
  BY DEF Writer
<1>4. st \in Seq(F) /\ st \in Seq(Spans)
  BY <1>2, <1>3 DEF Stacked
<1>5. \A j \in 1..n : st[j] \in F /\ st[j] \in Spans /\ st[j].last \in Nat
  BY <1>1, <1>2, <1>4, RangeIs
<1>6. PICK m \in 0..n : open = SubSeq(st, 1, m) /\ \A j \in 1..n : j <= m <=> index <= st[j].last
  <2>1. \A i, j \in 1..Len(st) : i < j => st[j].last <= st[i].last
    BY <1>3 DEF Stacked, Inside
  <2> QED
    BY <1>1, <1>4, <2>1, KeptIs
<1>7. open \in Seq(F) /\ Len(open) = m /\ \A j \in 1..m : open[j] = st[j]
  <2>1. \A i \in 1..m : st[i] \in F
    BY <1>1, <1>5
  <2>2. \A j \in 1..m : 1 + j - 1 = j
    OBVIOUS
  <2> QED
    BY <1>6, <2>1, <2>2, SubSeqProperties
<1>8. PICK short : short = SubSeq(takes, 1, m)
  OBVIOUS
<1>9. short \in Seq(BOOLEAN) /\ Len(short) = m /\ \A j \in 1..m : short[j] = takes[j]
  <2>1. \A i \in 1..m : takes[i] \in BOOLEAN
    BY <1>1, <1>6 DEF Writer
  <2>2. \A j \in 1..m : 1 + j - 1 = j
    OBVIOUS
  <2> QED
    BY <1>6, <1>8, <2>1, <2>2, SubSeqProperties
<1>10. ASSUME NEW j \in 1..n, j > m
       PROVE  st[j].last = index - 1
  <2>1. index - 1 <= st[j].last /\ ~(index <= st[j].last) /\ st[j].last \in Nat
    BY <1>1, <1>3, <1>5, <1>6, <1>10 DEF Stacked
  <2> QED
    BY <2>1
<1>11. ts2 \in Seq(Aimed) /\ Live(ts2) = {t \in Live(ts) : t.stack <= m}
  <2>1. ASSUME NEW t \in Live(ts), t.conditional, t.stack > m, NEW k \in 1..Len(open),
               open[k].type = "backwards", open[k].first = t.first
        PROVE  FALSE
    <3>1. Hits(F, st, takes, t)
      BY DEF Writer
    <3>2. PICK j \in 1..n : j = t.stack
      BY <1>1, <3>1 DEF Hits
    <3>3. st[j].type = "backwards" /\ st[j].first = t.first
      BY <2>1, <3>1, <3>2 DEF Hits
    <3>4. k \in 1..n /\ open[k] = st[k] /\ k < j
      BY <1>6, <1>7, <2>1, <3>2
    <3>5. st[k] = st[j]
      BY <1>2, <1>5, <2>1, <3>3, <3>4 DEF OneLoop
    <3> QED
      BY <1>1, <1>3, <3>4, <3>5 DEF Stacked
  <2>2. ts \in Seq(Aimed)
    BY DEF Writer
  <2>3. m \in Nat /\ m = Len(open)
    BY <1>6, <1>7
  <2>4. \A t \in Live(ts) : t.conditional /\ t.stack > m =>
            ~\E k \in 1..Len(open) : open[k].type = "backwards" /\ open[k].first = t.first
    BY <2>1
  <2> QED
    BY <2>2, <2>3, <2>4, PatchedIs
<1>12. Stacked(F, open, rs, index)
  <2>1. \A j \in 1..Len(open) : open[j] \notin rs /\ index <= open[j].last
    BY <1>1, <1>3, <1>6, <1>7 DEF Stacked
  <2>2. ASSUME NEW r \in F, r \notin rs, index <= r.last
        PROVE  \E j \in 1..Len(open) : open[j] = r
    <3>1. index - 1 <= r.last
      BY <1>2, <2>2, RangeIs
    <3>2. PICK j \in 1..n : st[j] = r
      BY <1>1, <1>3, <2>2, <3>1 DEF Stacked
    <3>3. j \in 1..m
      BY <1>6, <2>2, <3>2
    <3> QED
      BY <1>7, <3>2, <3>3
  <2>3. \A j, k \in 1..Len(open) : j < k => Inside(open[k], open[j]) /\ open[k] # open[j]
    BY <1>1, <1>3, <1>6, <1>7 DEF Stacked
  <2> QED
    BY <1>3, <1>7, <2>1, <2>2, <2>3 DEF Stacked
<1>13. ASSUME NEW t \in Live(ts2)
       PROVE  Hits(F, open, short, t)
  <2>1. Hits(F, st, takes, t) /\ t.stack <= m
    BY <1>11 DEF Writer
  <2>2. PICK j : j = t.stack
    OBVIOUS
  <2>3. j \in 1..m /\ j \in 1..Len(open) /\ open[j] = st[j] /\ short[j] = takes[j]
    BY <1>1, <1>6, <1>7, <1>9, <2>1, <2>2 DEF Hits
  <2> QED
    BY <2>1, <2>2, <2>3, Zenon DEF Hits
<1>14. Reaches(F, open, rs, Live(ts2))
  <2>1. Reaches(F, st, rs, Live(ts))
    BY DEF Writer
  <2>2. \A t \in Live(ts), j \in 1..m : t.stack = j => t \in Live(ts2)
    BY <1>11
  <2>3. ASSUME NEW j \in 1..m
        PROVE  /\ \E t \in Live(ts2) : t.stack = j /\ t.address = IF open[j].type = "backwards" THEN open[j].first ELSE open[j].last + 1
               /\ open[j].type = "backwards" =>
                      \A q \in Conds(F, open[j].first) : q \notin rs => \E t \in Live(ts2) : t.stack = j /\ t.address = q.last + 1
    <3>1. j \in 1..Len(st) /\ open[j] = st[j]
      BY <1>1, <1>6, <1>7
    <3>2. \E t \in Live(ts2) : t.stack = j /\ t.address = IF open[j].type = "backwards" THEN open[j].first ELSE open[j].last + 1
      <4>1. PICK t \in Live(ts) : t.stack = j /\ t.address = IF st[j].type = "backwards" THEN st[j].first ELSE st[j].last + 1
        BY <2>1, <3>1 DEF Reaches
      <4> QED
        BY <2>2, <3>1, <4>1
    <3>3. ASSUME open[j].type = "backwards", NEW q \in Conds(F, open[j].first), q \notin rs
          PROVE  \E t \in Live(ts2) : t.stack = j /\ t.address = q.last + 1
      <4>1. PICK t \in Live(ts) : t.stack = j /\ t.address = q.last + 1
        BY <2>1, <3>1, <3>3 DEF Reaches
      <4> QED
        BY <2>2, <4>1
    <3> QED
      BY <3>2, <3>3
  <2> QED
    BY <1>7, <2>3 DEF Reaches
<1>15. Writer(F, open, short, rs, index, ts2)
  BY <1>7, <1>9, <1>11, <1>12, <1>13, <1>14 DEF Writer
<1> QED
  BY <1>1, <1>6, <1>7, <1>8, <1>10, <1>15 DEF Closing

\* r is the next range of those to come
Foremost(rs, r) == r \in rs /\ \A o \in rs : o = r \/ Precedes(r, o)
\* The next range nests in those that are open.
LEMMA OpenedStack ==
    ASSUME NEW F, Ranges(F), NEW st, NEW rs, NEW i \in Nat, Stacked(F, st, rs, i), Split(F, rs, i),
           NEW r, Foremost(rs, r), r.first = i, NEW st2, st2 = Append(st, r), NEW rs2, rs2 = rs \ {r}
    PROVE  Stacked(F, st2, rs2, i) /\ Split(F, rs2, i)
<1>1. PICK n \in Nat : n = Len(st) /\ st \in Seq(F)
  BY DEF Stacked
<1>2. r \in F /\ r \in rs /\ r \notin rs2 /\ F \subseteq Spans
  BY DEF Stacked, Foremost, Ranges
<1>3. st2 \in Seq(F) /\ Len(st2) = n + 1 /\ (\A j \in 1..n : st2[j] = st[j]) /\ st2[n + 1] = r
  BY <1>1, <1>2
<1>4. r \in Spans /\ r.first \in Nat /\ r.last \in Nat /\ i <= r.last
  BY <1>2, RangeIs
<1>5. ASSUME NEW j \in 1..n
      PROVE  Inside(r, st[j]) /\ r # st[j]
  <2>1. PICK s : s = st[j]
    OBVIOUS
  <2>2. s \in F /\ s \notin rs /\ i <= s.last
    BY <1>1, <2>1 DEF Stacked
  <2>3. s \in Spans /\ s.first \in Nat /\ s.last \in Nat
    BY <1>2, <2>2, RangeIs
  <2>4. s.first <= i
    BY <2>2 DEF Split
  <2>5. CASE s.first < i
    <3>1. Fits(r, s) \/ Fits(s, r)
      BY <1>2, <2>2 DEF Ranges, Nested
    <3>2. Inside(r, s)
      BY <1>4, <2>2, <2>3, <2>5, <3>1 DEF Fits, Inside, Apart
    <3> QED
      BY <1>2, <2>1, <2>2, <3>2
  <2>6. CASE s.first = i
    <3>1. Precedes(s, r)
      BY <1>2, <2>2 DEF Split
    <3>2. r.last <= s.last
      BY <1>4, <2>3, <2>6, <3>1 DEF Precedes
    <3>3. Inside(r, s)
      BY <1>4, <2>3, <2>6, <3>2 DEF Inside
    <3> QED
      BY <1>2, <2>1, <2>2, <3>3
  <2> QED
    BY <2>3, <2>4, <2>5, <2>6
<1>6. Stacked(F, st2, rs2, i)
  <2>1. rs2 \subseteq F
    BY DEF Stacked
  <2>2. \A j \in 1..Len(st2) : st2[j] \notin rs2 /\ i <= st2[j].last
    <3>1. ASSUME NEW j \in 1..n + 1
          PROVE  st2[j] \notin rs2 /\ i <= st2[j].last
      <4>1. CASE j = n + 1
        BY <1>2, <1>3, <1>4, <4>1
      <4>2. CASE j # n + 1
        <5>1. j \in 1..n
          BY <4>2
        <5>2. st[j] \notin rs /\ i <= st[j].last
          BY <1>1, <5>1 DEF Stacked
        <5> QED
          BY <1>3, <5>1, <5>2
      <4> QED
        BY <4>1, <4>2
    <3> QED
      BY <1>3, <3>1
  <2>3. ASSUME NEW o \in F, o \notin rs2, i <= o.last
        PROVE  \E j \in 1..Len(st2) : st2[j] = o
    <3>1. CASE o = r
      BY <1>3, <3>1
    <3>2. CASE o # r
      <4>1. PICK j \in 1..n : st[j] = o
        BY <1>1, <2>3, <3>2 DEF Stacked
      <4> QED
        BY <1>3, <4>1
    <3> QED
      BY <3>1, <3>2
  <2>4. ASSUME NEW j \in 1..n + 1, NEW k \in 1..n + 1, j < k
        PROVE  Inside(st2[k], st2[j]) /\ st2[k] # st2[j]
    <3>1. j \in 1..n /\ st2[j] = st[j]
      BY <1>3, <2>4
    <3>2. CASE k = n + 1
      BY <1>3, <1>5, <3>1, <3>2
    <3>3. CASE k # n + 1
      <4>1. k \in 1..n /\ st2[k] = st[k]
        BY <1>3, <3>3
      <4> QED
        BY <1>1, <2>4, <3>1, <4>1 DEF Stacked
    <3> QED
      BY <3>2, <3>3
  <2> QED
    BY <1>3, <2>1, <2>2, <2>3, <2>4 DEF Stacked
<1>7. Split(F, rs2, i)
  <2>1. \A o \in rs2 : i <= o.first
    BY DEF Split
  <2>2. \A s \in F : s \notin rs2 => s.first <= i
    BY <1>4 DEF Split
  <2>3. ASSUME NEW s \in F, NEW o \in rs2, s \notin rs2
        PROVE  Precedes(s, o)
    <3>1. CASE s = r
      BY <3>1 DEF Foremost
    <3>2. CASE s # r
      BY <2>3, <3>2 DEF Split
    <3> QED
      BY <3>1, <3>2
  <2> QED
    BY <2>1, <2>2, <2>3 DEF Split
<1> QED
  BY <1>6, <1>7

\* what has been opened at i: the labels are the conditional ranges of it, in order, loop is the loop of it,
\* and all of it takes a value while there are more conditional ranges to come
Placing(F, i, st, takes, rs, labels, loop) ==
    /\ labels \in Seq(Nat) /\ Len(labels) = Cardinality({q \in Conds(F, i) : q \notin rs})
    /\ \A j \in 1..Len(labels) :
           labels[j] \in 1..Len(st) /\ st[labels[j]] \in Conds(F, i) /\ Number(F, st[labels[j]]) = j - 1
    /\ \A r \in F : r.type = "backwards" /\ r.first = i /\ r \notin rs => loop \in 1..Len(st) /\ st[loop] = r
    /\ Len(labels) < Total(F, i) => \A j \in 1..Len(st) : st[j].first = i => takes[j] = TRUE
Expected(F, i, st, takes, labels, loop, r) ==
    /\ Number(F, r) = Len(labels) /\ Len(labels) < Total(F, i)
    /\ loop \in 1..Len(st) /\ st[loop].type = "backwards" /\ st[loop].first = i /\ takes[loop] = TRUE
\* A conditional range that is next is the one its number says, and its loop is open and takes a value.
LEMMA CondNext ==
    ASSUME NEW F, Ranges(F), NEW st, NEW takes, NEW rs, NEW i \in Nat, Stacked(F, st, rs, i), Split(F, rs, i),
           NEW r, Foremost(rs, r), r.first = i, r.type = "conditional",
           NEW labels, NEW loop, Placing(F, i, st, takes, rs, labels, loop)
    PROVE  Expected(F, i, st, takes, labels, loop, r)
<1>1. r \in F /\ r \in rs /\ F \subseteq Spans /\ IsFiniteSet(F) /\ rs \subseteq F
  BY DEF Stacked, Foremost, Ranges
<1>2. r \in Spans /\ r.first \in Nat /\ r.last \in Nat
  BY <1>1, RangeIs
<1>3. {q \in Conds(F, i) : q \notin rs} = {q \in Conds(F, i) : q.last > r.last}
  <2>1. ASSUME NEW q \in Conds(F, i)
        PROVE  q \notin rs <=> q.last > r.last
    <3>1. q \in F /\ q.type = "conditional" /\ q.first = i
      BY DEF Conds
    <3>2. q \in Spans /\ q.last \in Nat
      BY <1>1, <3>1, RangeIs
    <3>3. ASSUME q \notin rs
          PROVE  q.last > r.last
      <4>1. Precedes(q, r)
        BY <1>1, <3>1, <3>3 DEF Split
      <4>2. ~(Rank(q.type) < Rank(r.type))
        BY <3>1 DEF Rank
      <4> QED
        BY <1>2, <3>1, <3>2, <4>1, <4>2 DEF Precedes
    <3>4. ASSUME q \in rs
          PROVE  ~(q.last > r.last)
      <4>1. q = r \/ Precedes(r, q)
        BY <3>4 DEF Foremost
      <4> QED
        BY <1>2, <3>1, <3>2, <4>1 DEF Precedes
    <3> QED
      BY <3>3, <3>4
  <2> QED
    BY <2>1
<1>4. Number(F, r) = Len(labels)
  BY <1>3 DEF Number, Placing
<1>5. Len(labels) < Total(F, i)
  <2>1. Number(F, r) < Total(F, r.first)
    BY <1>1, NumberIs
  <2> QED
    BY <1>4, <2>1
<1>6. PICK l \in F : l.type = "backwards" /\ l.first = i /\ r.last <= l.last
  BY <1>1 DEF Ranges, Headed
<1>7. l \notin rs
  <2>1. ASSUME l \in rs
        PROVE  FALSE
    <3>1. Precedes(r, l)
      BY <1>6, <2>1 DEF Foremost
    <3>2. ~(Rank(r.type) < Rank(l.type))
      BY <1>6 DEF Rank
    <3>3. l.last \in Nat
      BY <1>1, <1>6, RangeIs
    <3> QED
      BY <1>2, <1>6, <3>1, <3>2, <3>3 DEF Precedes
  <2> QED
    BY <2>1
<1>8. loop \in 1..Len(st) /\ st[loop] = l
  BY <1>6, <1>7, Zenon DEF Placing
<1>9. takes[loop] = TRUE
  BY <1>5, <1>6, <1>8 DEF Placing
<1> QED
  BY <1>4, <1>5, <1>6, <1>8, <1>9 DEF Expected

PlacingStep(F, i, st, takes, rs, labels, loop, r, n, parameter, st2, takes2, rs2, labels2, loop2) ==
    /\ n = Len(st) /\ parameter = (Len(labels) < Total(F, i))
    /\ st2 = Append(st, r) /\ takes2 = Append(takes, parameter) /\ rs2 = rs \ {r}
    /\ labels2 = IF r.type = "conditional" THEN Append(labels, n + 1) ELSE labels
    /\ loop2 = IF r.type = "backwards" THEN n + 1 ELSE loop
\* What has been opened stays in order with the next range.
LEMMA OpenedPlacing ==
    ASSUME NEW F, Ranges(F), NEW st, NEW takes, NEW rs, NEW i \in Nat, Stacked(F, st, rs, i), Split(F, rs, i),
           takes \in Seq(BOOLEAN), Len(takes) = Len(st),
           NEW r, Foremost(rs, r), r.first = i,
           NEW labels, NEW loop, Placing(F, i, st, takes, rs, labels, loop),
           NEW n, NEW parameter, NEW st2, NEW takes2, NEW rs2, NEW labels2, NEW loop2,
           PlacingStep(F, i, st, takes, rs, labels, loop, r, n, parameter, st2, takes2, rs2, labels2, loop2)
    PROVE  Placing(F, i, st2, takes2, rs2, labels2, loop2)
<1>0. /\ n = Len(st) /\ parameter = (Len(labels) < Total(F, i))
      /\ st2 = Append(st, r) /\ takes2 = Append(takes, parameter) /\ rs2 = rs \ {r}
      /\ labels2 = IF r.type = "conditional" THEN Append(labels, n + 1) ELSE labels
      /\ loop2 = IF r.type = "backwards" THEN n + 1 ELSE loop
  BY Zenon DEF PlacingStep
<1> USE <1>0
<1>1. r \in F /\ r \in rs /\ F \subseteq Spans /\ IsFiniteSet(F) /\ rs \subseteq F /\ st \in Seq(F) /\ n \in Nat
  BY DEF Stacked, Foremost, Ranges
<1>2. st2 \in Seq(F) /\ Len(st2) = n + 1 /\ (\A j \in 1..n : st2[j] = st[j]) /\ st2[n + 1] = r
  BY <1>1
<1>3. parameter \in BOOLEAN
  OBVIOUS
<1>4. takes2 \in Seq(BOOLEAN) /\ Len(takes2) = n + 1 /\ (\A j \in 1..n : takes2[j] = takes[j]) /\ takes2[n + 1] = parameter
  BY <1>1, <1>3
<1>5. PICK m \in Nat : m = Len(labels) /\ labels \in Seq(Nat)
  <2>1. labels \in Seq(Nat)
    BY Zenon DEF Placing
  <2> QED
    BY <2>1
<1>6. Total(F, i) \in Nat
  BY <1>1, CountsAre
<1>7. PICK had : had = {q \in Conds(F, i) : q \notin rs}
  OBVIOUS
<1>8. PICK has : has = {q \in Conds(F, i) : q \notin rs2}
  OBVIOUS
<1>9. IsFiniteSet(had) /\ r \notin had /\ Cardinality(had) = m
  <2>1. had \subseteq F
    BY <1>7 DEF Conds
  <2>2. Cardinality(had) = m
    BY <1>5, <1>7 DEF Placing
  <2> QED
    BY <1>1, <1>7, <2>1, <2>2, FS_Subset
<1>10. \A l \in F : l.type = "backwards" /\ l.first = i /\ l \notin rs2 => loop2 \in 1..Len(st2) /\ st2[loop2] = l
  <2>1. ASSUME NEW l \in F, l.type = "backwards", l.first = i, l \notin rs2
        PROVE  loop2 \in 1..Len(st2) /\ st2[loop2] = l
    <3>1. CASE r.type = "backwards"
      <4>1. l = r
        BY <1>1, <2>1, <3>1 DEF Ranges, OneLoop
      <4> QED
        BY <1>1, <1>2, <3>1, <4>1
    <3>2. CASE r.type # "backwards"
      <4>1. l \notin rs
        BY <2>1, <3>2
      <4>2. loop \in 1..n /\ st[loop] = l
        BY <2>1, <4>1, Zenon DEF Placing
      <4> QED
        BY <1>1, <1>2, <3>2, <4>2
    <3> QED
      BY <3>1, <3>2
  <2> QED
    BY <2>1
<1>11. Len(labels) < Total(F, i) => \A j \in 1..Len(st2) : st2[j].first = i => takes2[j] = TRUE
  <2>1. ASSUME Len(labels) < Total(F, i), NEW j \in 1..n + 1, st2[j].first = i
        PROVE  takes2[j] = TRUE
    <3>1. CASE j = n + 1
      BY <1>4, <2>1, <3>1
    <3>2. CASE j # n + 1
      <4>1. j \in 1..n
        BY <1>1, <3>2
      <4> QED
        BY <1>2, <1>4, <2>1, <4>1 DEF Placing
    <3> QED
      BY <3>1, <3>2
  <2> QED
    BY <1>2, <2>1
<1>12. \A j \in 1..m : labels[j] \in 1..Len(st2) /\ st2[labels[j]] \in Conds(F, i) /\ Number(F, st2[labels[j]]) = j - 1
  <2>1. ASSUME NEW j \in 1..m
        PROVE  labels[j] \in 1..Len(st2) /\ st2[labels[j]] \in Conds(F, i) /\ Number(F, st2[labels[j]]) = j - 1
    <3>1. labels[j] \in 1..n /\ st[labels[j]] \in Conds(F, i) /\ Number(F, st[labels[j]]) = j - 1
      BY <1>5, Zenon DEF Placing
    <3>2. st2[labels[j]] = st[labels[j]]
      BY <1>2, <3>1
    <3> QED
      BY <1>1, <1>2, <3>1, <3>2
  <2> QED
    BY <2>1
<1>13. CASE r.type # "conditional"
  <2>1. labels2 = labels
    BY <1>13
  <2>2. has = had
    BY <1>7, <1>8, <1>13 DEF Conds
  <2>3. Len(labels2) = Cardinality(has)
    BY <1>5, <1>9, <2>1, <2>2
  <2> QED
    BY <1>5, <1>8, <1>10, <1>11, <1>12, <2>1, <2>3 DEF Placing
<1>14. CASE r.type = "conditional"
  <2>1. Expected(F, i, st, takes, labels, loop, r)
    BY <1>14, CondNext
  <2>2. r \in Conds(F, i)
    BY <1>1, <1>14 DEF Conds
  <2>3. labels2 \in Seq(Nat) /\ Len(labels2) = m + 1 /\ (\A j \in 1..m : labels2[j] = labels[j]) /\ labels2[m + 1] = n + 1
    <3>1. labels2 = Append(labels, n + 1) /\ n + 1 \in Nat
      BY <1>1, <1>14
    <3> QED
      BY <1>5, <3>1
  <2>4. has = had \cup {r}
    BY <1>1, <1>7, <1>8, <2>2
  <2>5. Len(labels2) = Cardinality(has)
    BY <1>9, <2>3, <2>4, FS_AddElement
  <2>6. \A j \in 1..Len(labels2) :
            labels2[j] \in 1..Len(st2) /\ st2[labels2[j]] \in Conds(F, i) /\ Number(F, st2[labels2[j]]) = j - 1
    <3>1. ASSUME NEW j \in 1..m + 1
          PROVE  labels2[j] \in 1..Len(st2) /\ st2[labels2[j]] \in Conds(F, i) /\ Number(F, st2[labels2[j]]) = j - 1
      <4>1. CASE j = m + 1
        <5>1. Number(F, r) = m
          BY <1>5, <2>1 DEF Expected
        <5>2. labels2[j] = n + 1 /\ m = j - 1
          BY <2>3, <4>1
        <5>3. PICK x : x = n + 1 /\ x = labels2[j]
          BY <5>2
        <5>4. st2[x] = r /\ x \in 1..Len(st2)
          BY <1>1, <1>2, <5>3
        <5>5. Number(F, st2[x]) = j - 1 /\ st2[x] \in Conds(F, i)
          BY <2>2, <5>1, <5>2, <5>4
        <5> QED
          BY <5>3, <5>4, <5>5
      <4>2. CASE j # m + 1
        <5>1. j \in 1..m
          BY <4>2
        <5>2. PICK x : x = labels2[j] /\ x = labels[j]
          BY <2>3, <5>1
        <5>3. x \in 1..Len(st2) /\ st2[x] \in Conds(F, i) /\ Number(F, st2[x]) = j - 1
          BY <1>12, <5>1, <5>2
        <5> QED
          BY <5>2, <5>3
      <4> QED
        BY <4>1, <4>2
    <3> QED
      BY <2>3, <3>1
  <2>7. Len(labels2) < Total(F, i) => Len(labels) < Total(F, i)
    BY <1>5, <1>6, <2>3
  <2> QED
    BY <1>8, <1>10, <1>11, <2>3, <2>5, <2>6, <2>7 DEF Placing
<1> QED
  BY <1>13, <1>14

PlainTarget(r, depth, index1, conditional) ==
    [address |-> IF r.type = "backwards" THEN r.first ELSE r.last + 1, stack |-> depth, first |-> r.first,
     index |-> index1, conditional |-> conditional, active |-> TRUE]
Plain(r, depth, index1, conditional, t) ==
    /\ t.address = IF r.type = "backwards" THEN r.first ELSE r.last + 1
    /\ t.stack = depth /\ t.first = r.first /\ t.index = index1 /\ t.conditional = conditional
    /\ t.active = TRUE
\* its fields
LEMMA PlainIs ==
    ASSUME NEW r, NEW depth, NEW index1, NEW conditional, NEW t, t = PlainTarget(r, depth, index1, conditional)
    PROVE  /\ Plain(r, depth, index1, conditional, t)
           /\ r \in Spans /\ depth \in Nat /\ index1 \in Nat /\ conditional \in BOOLEAN => t \in Aimed
<1>1. Plain(r, depth, index1, conditional, t)
  BY DEF PlainTarget, Plain
<1>2. ASSUME r \in Spans, depth \in Nat, index1 \in Nat, conditional \in BOOLEAN
      PROVE  t \in Aimed
  <2>1. PICK a \in Nat, f \in Nat : a = (IF r.type = "backwards" THEN r.first ELSE r.last + 1) /\ f = r.first
    BY <1>2, RangeIs
  <2>2. t = [address |-> a, stack |-> depth, first |-> f, index |-> index1, conditional |-> conditional, active |-> TRUE]
    BY <2>1, Zenon DEF PlainTarget
  <2> QED
    BY <1>2, <2>2 DEF Aimed
<1> QED
  BY <1>1, <1>2

\* the target by which the loop at depth leads behind the range r
CondTarget(plain, depth, index1) == [plain EXCEPT !.stack = depth, !.index = index1, !.conditional = TRUE]
Conditional(plain, depth, index1, t) ==
    /\ t.address = plain.address /\ t.stack = depth /\ t.first = plain.first /\ t.index = index1
    /\ t.conditional = TRUE /\ t.active = plain.active
\* its fields
LEMMA CondIs ==
    ASSUME NEW plain \in Aimed, NEW depth \in Nat, NEW index1 \in Nat, NEW t, t = CondTarget(plain, depth, index1)
    PROVE  Conditional(plain, depth, index1, t) /\ t \in Aimed
BY DEF CondTarget, Aimed, Conditional

WriterStep(F, i, st, takes, rs, ts, labels, loop, r, n, total, parameter, plain, conditional, st2, takes2, rs2, ts2) ==
    /\ n = Len(st) /\ total = Total(F, i) /\ parameter = (Len(labels) < total)
    /\ st2 = Append(st, r) /\ takes2 = Append(takes, parameter) /\ rs2 = rs \ {r}
    /\ plain = PlainTarget(r, n + 1, DefaultExit(total), r.type = "backwards" /\ parameter)
    /\ conditional = CondTarget(plain, loop, IF total = 1 THEN 1 ELSE Len(labels))
    /\ ts2 = IF r.type = "conditional" THEN Placed(Placed(ts, plain), conditional) ELSE Placed(ts, plain)
\* The targets lead where they say with those of the next range.
LEMMA OpenedWriter ==
    ASSUME NEW F, Ranges(F), NEW st, NEW takes, NEW rs, NEW i \in Nat, NEW ts, Writer(F, st, takes, rs, i, ts),
           Split(F, rs, i), NEW r, Foremost(rs, r), r.first = i,
           NEW labels, NEW loop, Placing(F, i, st, takes, rs, labels, loop),
           NEW n, NEW total, NEW parameter, NEW plain, NEW conditional, NEW st2, NEW takes2, NEW rs2, NEW ts2,
           WriterStep(F, i, st, takes, rs, ts, labels, loop, r, n, total, parameter, plain, conditional,
                      st2, takes2, rs2, ts2)
    PROVE  Writer(F, st2, takes2, rs2, i, ts2)
<1>0. /\ n = Len(st) /\ total = Total(F, i) /\ parameter = (Len(labels) < total)
      /\ st2 = Append(st, r) /\ takes2 = Append(takes, parameter) /\ rs2 = rs \ {r}
      /\ plain = PlainTarget(r, n + 1, DefaultExit(total), r.type = "backwards" /\ parameter)
      /\ conditional = CondTarget(plain, loop, IF total = 1 THEN 1 ELSE Len(labels))
      /\ ts2 = IF r.type = "conditional" THEN Placed(Placed(ts, plain), conditional) ELSE Placed(ts, plain)
  BY Zenon DEF WriterStep
<1> USE <1>0
<1>1. Stacked(F, st, rs, i) /\ takes \in Seq(BOOLEAN) /\ Len(takes) = Len(st) /\ ts \in Seq(Aimed)
  BY DEF Writer
<1>2. r \in F /\ r \in rs /\ r \notin rs2 /\ F \subseteq Spans /\ IsFiniteSet(F) /\ rs \subseteq F /\ st \in Seq(F) /\ n \in Nat
  BY <1>1 DEF Stacked, Foremost, Ranges
<1>3. st2 \in Seq(F) /\ Len(st2) = n + 1 /\ (\A j \in 1..n : st2[j] = st[j]) /\ st2[n + 1] = r
  BY <1>2
<1>4. parameter \in BOOLEAN
  OBVIOUS
<1>5. takes2 \in Seq(BOOLEAN) /\ Len(takes2) = n + 1 /\ (\A j \in 1..n : takes2[j] = takes[j]) /\ takes2[n + 1] = parameter
  BY <1>1, <1>2, <1>4
<1>6. r \in Spans /\ r.first \in Nat /\ r.last \in Nat /\ r.type \in Types
  BY <1>2, RangeIs
<1>7. total \in Nat /\ DefaultExit(total) \in Nat
  BY <1>2, CountsAre
<1>8. PICK also \in BOOLEAN : also = (r.type = "backwards" /\ parameter)
  OBVIOUS
<1>9. /\ plain.address = IF r.type = "backwards" THEN r.first ELSE r.last + 1
      /\ plain.stack = n + 1 /\ plain.first = r.first /\ plain.index = DefaultExit(total) /\ plain.conditional = also
      /\ plain.active = TRUE /\ plain \in Aimed
  <2>1. n + 1 \in Nat /\ plain = PlainTarget(r, n + 1, DefaultExit(total), also)
    BY <1>2, <1>8
  <2>2. Plain(r, n + 1, DefaultExit(total), also, plain) /\ plain \in Aimed
    BY <1>6, <1>7, <2>1, PlainIs
  <2> QED
    BY <2>2, Zenon DEF Plain
<1>10. Hits(F, st2, takes2, plain)
  <2>1. n + 1 \in 1..Len(st2)
    BY <1>2, <1>3
  <2>2. PICK t \in Aimed : t = plain /\ t.stack = n + 1 /\ st2[t.stack] = r /\ takes2[t.stack] = parameter
    BY <1>3, <1>5, <1>9
  <2>3. CASE r.type # "backwards"
    <3>1. t.conditional = FALSE /\ r.last + 1 = t.address
      BY <1>8, <1>9, <2>2, <2>3
    <3> QED
      BY <1>9, <2>1, <2>2, <2>3, <3>1 DEF Hits
  <2>4. CASE r.type = "backwards" /\ parameter = FALSE
    <3>1. t.conditional = FALSE /\ r.first = t.address
      BY <1>8, <1>9, <2>2, <2>4
    <3> QED
      BY <1>9, <2>1, <2>2, <2>4, <3>1 DEF Hits
  <2>5. CASE r.type = "backwards" /\ parameter = TRUE
    <3>1. t.conditional = TRUE /\ r.first = t.address /\ t.index = DefaultExit(total)
      BY <1>8, <1>9, <2>2, <2>5
    <3>2. Chooses(F, r.first, t.index, t.address)
      BY <1>7, <3>1 DEF Chooses
    <3> QED
      BY <1>9, <2>1, <2>2, <2>5, <3>1, <3>2 DEF Hits
  <2> QED
    BY <1>4, <2>3, <2>4, <2>5
<1>11. ASSUME NEW t, Hits(F, st, takes, t)
       PROVE  Hits(F, st2, takes2, t)
  <2>1. PICK j : j = t.stack
    OBVIOUS
  <2>2. j \in 1..n /\ j \in 1..Len(st2) /\ st2[j] = st[j] /\ takes2[j] = takes[j]
    BY <1>2, <1>3, <1>5, <1>11, <2>1 DEF Hits
  <2> QED
    BY <1>11, <2>1, <2>2, Zenon DEF Hits
<1>12. ASSUME r.type = "conditional"
       PROVE  /\ conditional.address = r.last + 1 /\ conditional.stack = loop /\ conditional \in Aimed
              /\ conditional.active = TRUE /\ loop \in 1..n /\ st[loop].type = "backwards" /\ st[loop].first = i
              /\ Hits(F, st2, takes2, conditional)
  <2>1. Expected(F, i, st, takes, labels, loop, r)
    BY <1>1, <1>12, CondNext
  <2>2. loop \in 1..n /\ loop \in Nat /\ st[loop].type = "backwards" /\ st[loop].first = i /\ takes[loop] = TRUE
        /\ Number(F, r) = Len(labels)
    BY <1>2, <2>1 DEF Expected
  <2>3. r \in Conds(F, i)
    BY <1>2, <1>12 DEF Conds
  <2>4. PICK value \in Nat : value = IndexOf(F, r) /\ value = IF total = 1 THEN 1 ELSE Len(labels)
    <3>1. IndexOf(F, r) \in Nat
      BY <1>2, <2>3, CountsAre
    <3>2. IndexOf(F, r) = IF total = 1 THEN 1 ELSE Len(labels)
      BY <2>2 DEF IndexOf
    <3> QED
      BY <3>1, <3>2
  <2>5. conditional = CondTarget(plain, loop, value)
    BY <2>4
  <2>6. /\ conditional.address = plain.address /\ conditional.stack = loop /\ conditional.first = plain.first
        /\ conditional.index = value /\ conditional.conditional = TRUE /\ conditional.active = plain.active
        /\ conditional \in Aimed
    <3>1. Conditional(plain, loop, value, conditional) /\ conditional \in Aimed
      BY <1>9, <2>2, <2>4, <2>5, CondIs
    <3> QED
      BY <3>1, Zenon DEF Conditional
  <2>7. conditional.address = r.last + 1 /\ conditional.first = i /\ conditional.active = TRUE
    BY <1>9, <1>12, <2>6
  <2>8. Chooses(F, i, value, r.last + 1)
    BY <2>3, <2>4 DEF Chooses
  <2>9. Hits(F, st2, takes2, conditional)
    <3>1. PICK t : t = conditional /\ t.stack = loop /\ t.first = i /\ t.index = value /\ t.conditional = TRUE
                   /\ t.address = r.last + 1
      BY <2>6, <2>7
    <3>2. loop \in 1..Len(st2) /\ st2[loop] = st[loop] /\ takes2[loop] = takes[loop]
      BY <1>2, <1>3, <1>5, <2>2
    <3>3. Hits(F, st2, takes2, t)
      BY <2>2, <2>8, <3>1, <3>2 DEF Hits
    <3> QED
      BY <3>1, <3>3
  <2> QED
    BY <2>2, <2>6, <2>7, <2>9
<1>13. PICK ts1 : ts1 = Placed(ts, plain)
  OBVIOUS
<1>14. ts1 \in Seq(Aimed) /\ Live(ts1) = Live(ts) \cup {plain}
  BY <1>1, <1>9, <1>13, PlacedIs
<1>15. ts2 \in Seq(Aimed) /\ Live(ts2) = Live(ts) \cup {plain} \cup (IF r.type = "conditional" THEN {conditional} ELSE {})
  <2>1. CASE r.type # "conditional"
    BY <1>13, <1>14, <2>1
  <2>2. CASE r.type = "conditional"
    <3>1. ts2 = Placed(ts1, conditional)
      BY <1>13, <2>2
    <3>2. conditional \in Aimed /\ conditional.active
      BY <1>12, <2>2
    <3>3. ts2 \in Seq(Aimed) /\ Live(ts2) = Live(ts1) \cup {conditional}
      BY <1>14, <3>1, <3>2, PlacedIs
    <3> QED
      BY <1>14, <2>2, <3>3
  <2> QED
    BY <2>1, <2>2
<1>16. \A t \in Live(ts2) : Hits(F, st2, takes2, t)
  <2>1. \A t \in Live(ts) : Hits(F, st2, takes2, t)
    BY <1>11 DEF Writer
  <2> QED
    BY <1>10, <1>12, <1>15, <2>1
<1>17. Stacked(F, st2, rs2, i)
  BY <1>1, OpenedStack
<1>18. Reaches(F, st2, rs2, Live(ts2))
  <2>1. Reaches(F, st, rs, Live(ts))
    BY DEF Writer
  <2>2. Live(ts) \subseteq Live(ts2) /\ plain \in Live(ts2) /\ (r.type = "conditional" => conditional \in Live(ts2))
    BY <1>15
  <2>3. ASSUME NEW j \in 1..n + 1
        PROVE  \E t \in Live(ts2) : t.stack = j /\ t.address = IF st2[j].type = "backwards" THEN st2[j].first ELSE st2[j].last + 1
    <3>1. CASE j = n + 1
      BY <1>3, <1>9, <2>2, <3>1
    <3>2. CASE j # n + 1
      <4>1. j \in 1..n /\ j \in 1..Len(st) /\ st2[j] = st[j]
        BY <1>2, <1>3, <3>2
      <4>2. PICK t \in Live(ts) : t.stack = j /\ t.address = IF st[j].type = "backwards" THEN st[j].first ELSE st[j].last + 1
        BY <2>1, <4>1 DEF Reaches
      <4> QED
        BY <2>2, <4>1, <4>2
    <3> QED
      BY <3>1, <3>2
  <2>4. ASSUME NEW j \in 1..n + 1, st2[j].type = "backwards", NEW q \in Conds(F, st2[j].first), q \notin rs2
        PROVE  \E t \in Live(ts2) : t.stack = j /\ t.address = q.last + 1
    <3>1. q \in F /\ q.type = "conditional" /\ q.first = st2[j].first
      BY DEF Conds
    <3>2. CASE j = n + 1
      <4>1. r.type = "backwards" /\ q.first = i /\ q \notin rs
        BY <1>3, <2>4, <3>1, <3>2
      <4>2. Precedes(q, r) /\ q \in Spans /\ q.last \in Nat
        BY <1>2, <3>1, <4>1, RangeIs DEF Split
      <4>3. ~(Rank(q.type) < Rank(r.type))
        BY <3>1, <4>1 DEF Rank
      <4>4. q.last > r.last
        BY <1>6, <4>1, <4>2, <4>3 DEF Precedes
      <4>5. PICK l \in F : l.type = "backwards" /\ l.first = i /\ q.last <= l.last
        BY <3>1, <4>1 DEF Ranges, Headed
      <4>6. l = r
        BY <1>2, <4>1, <4>5 DEF Ranges, OneLoop
      <4> QED
        BY <1>6, <4>2, <4>4, <4>5, <4>6
    <3>3. CASE j # n + 1
      <4>1. j \in 1..n /\ j \in 1..Len(st) /\ st2[j] = st[j]
        BY <1>2, <1>3, <3>3
      <4>2. CASE q \notin rs
        <5>1. PICK t \in Live(ts) : t.stack = j /\ t.address = q.last + 1
          BY <2>1, <2>4, <4>1, <4>2 DEF Reaches
        <5> QED
          BY <2>2, <5>1
      <4>3. CASE q \in rs
        <5>1. q = r
          BY <2>4, <4>3
        <5>2. r.type = "conditional" /\ st[j].first = i /\ st[j].type = "backwards" /\ st[j] \in F
          BY <1>2, <2>4, <3>1, <4>1, <5>1
        <5>3. loop \in 1..n /\ st[loop].type = "backwards" /\ st[loop].first = i /\ st[loop] \in F
          BY <1>2, <1>12, <5>2
        <5>4. st[loop] = st[j]
          BY <5>2, <5>3 DEF Ranges, OneLoop
        <5>5. loop = j
          BY <1>1, <1>2, <4>1, <5>3, <5>4 DEF Stacked
        <5> QED
          BY <1>12, <2>2, <5>1, <5>2, <5>5
      <4> QED
        BY <4>2, <4>3
    <3> QED
      BY <3>2, <3>3
  <2> QED
    BY <1>3, <2>3, <2>4 DEF Reaches
<1>19. Len(takes2) = Len(st2)
  BY <1>3, <1>5
<1> QED
  BY <1>5, <1>15, <1>16, <1>17, <1>18, <1>19 DEF Writer

-----------------------------------------------------------------------------
(* The code that is written, and what the writer knows of it. *)

\* the constructs in open are those of the ranges in st
Names(c, open, own, st, takes) ==
    /\ Len(open) = Len(st)
    /\ \A j \in 1..Len(st) :
           /\ own[open[j]] = st[j]
           /\ st[j].type = "backwards" => c[open[j]] = <<"loop", takes[j]>>
           /\ st[j].type # "backwards" => c[open[j]] = <<"block", takes[j]>>
\* c is well built up to the address i, where the constructs of st are open
Coded(F, l, c, en, at, own, i, st, takes) ==
    /\ Built(F, l, c, en, at, own) /\ IsSequence(c) /\ at[Len(c) + 1] = i
    /\ Names(c, en[Len(c)], own, st, takes)
Carries(c, parameter) == Valued(c, Len(c) + 1) <=> parameter = TRUE
Standing(F, l, c, i, st, takes) == \E en, at, own : Coded(F, l, c, en, at, own, i, st, takes)

\* An active target is one that a branch can be aimed at.
LEMMA HitsLands ==
    ASSUME NEW F, NEW c, NEW open, NEW own, NEW st, NEW takes, Names(c, open, own, st, takes),
           NEW t, Hits(F, st, takes, t)
    PROVE  Landing(F, c, open, own, t.stack, t.conditional, t.index, t.address)
<1>1. PICK j, conditional, value, address : j = t.stack /\ conditional = t.conditional /\ value = t.index /\ address = t.address
  OBVIOUS
<1>2. PICK x : x = open[j]
  OBVIOUS
<1>3. j \in 1..Len(st) /\ j \in 1..Len(open)
  BY <1>1, Zenon DEF Hits, Names
<1>4. PICK s, take : s = st[j] /\ take = takes[j]
  OBVIOUS
<1>5. /\ own[x] = s
      /\ s.type = "backwards" => c[x] = <<"loop", take>>
      /\ s.type # "backwards" => c[x] = <<"block", take>>
  BY <1>2, <1>3, <1>4, Zenon DEF Names
<1>6. \/ conditional = FALSE /\ s.type # "backwards" /\ s.last + 1 = address
      \/ conditional = FALSE /\ s.type = "backwards" /\ take = FALSE /\ s.first = address
      \/ conditional = TRUE /\ s.type = "backwards" /\ take = TRUE /\ Chooses(F, s.first, value, address)
  BY <1>1, <1>4, Zenon DEF Hits
<1>7. s.type # "backwards" => c[x][1] = "block"
  BY <1>5
<1>8. Landing(F, c, open, own, j, conditional, value, address)
  BY <1>2, <1>3, <1>5, <1>6, <1>7, Zenon DEF Landing
<1> QED
  BY <1>1, <1>8

\* A jump that is looked up leads to its target.
LEMMA LookupLands ==
    ASSUME NEW F, NEW c, NEW open, NEW own, NEW st, NEW takes, NEW rs, NEW i, NEW ts,
           Names(c, open, own, st, takes), Writer(F, st, takes, rs, i, ts),
           NEW address, \E t \in Live(ts) : t.address = address, NEW via, via = Lookup(ts, address)
    PROVE  Landing(F, c, open, own, via.target, via.conditional, via.index, address)
<1>1. ts \in Seq(Aimed) /\ \A t \in Live(ts) : Hits(F, st, takes, t)
  BY DEF Writer
<1>2. PICK t \in Live(ts) : /\ t.address = address /\ via.target = t.stack /\ via.conditional = t.conditional
                            /\ t.conditional => via.index = t.index
  BY <1>1, LookupIs
<1>3. Landing(F, c, open, own, t.stack, t.conditional, t.index, t.address)
  BY <1>1, HitsLands
<1>4. PICK level, conditional : level = t.stack /\ conditional = t.conditional
  OBVIOUS
<1>5. Landing(F, c, open, own, level, conditional, t.index, address)
  BY <1>2, <1>3, <1>4
<1>6. Landing(F, c, open, own, level, conditional, via.index, address)
  BY <1>2, <1>4, <1>5, Zenon DEF Landing
<1> QED
  BY <1>2, <1>4, <1>6

\* A jump within the strand has an active target, once all ranges are open that start up to there.
LEMMA ServedAimed ==
    ASSUME NEW F, F \subseteq Spans, NEW st, NEW takes, NEW rs, NEW i \in Nat, NEW ts, Writer(F, st, takes, rs, i, ts),
           NEW k \in Nat, i <= k, \A r \in rs : k < r.first, NEW t \in Nat, Served({}, F, k, t)
    PROVE  \E target \in Live(ts) : target.address = t
<1>1. Stacked(F, st, rs, i) /\ Reaches(F, st, rs, Live(ts))
  BY DEF Writer
<1>2. ASSUME NEW r \in F, r.first <= k, k <= r.last
      PROVE  \E j \in 1..Len(st) : st[j] = r
  <2>1. r.first \in Nat /\ r.last \in Nat
    BY RangeIs
  <2>2. r \notin rs
    BY <1>2, <2>1
  <2> QED
    BY <1>1, <1>2, <2>1, <2>2 DEF Stacked
<1>3. CASE k < t /\ \E r \in F : r.type # "backwards" /\ r.last + 1 = t /\ r.first <= k
  <2>1. PICK r \in F : r.type # "backwards" /\ r.last + 1 = t /\ r.first <= k
    BY <1>3
  <2>2. PICK j \in 1..Len(st) : st[j] = r
    <3>1. k <= r.last
      BY <1>3, <2>1, RangeIs
    <3> QED
      BY <1>2, <2>1, <3>1
  <2> QED
    BY <1>1, <2>1, <2>2 DEF Reaches
<1>4. CASE t <= k /\ \E r \in F : r.type = "backwards" /\ r.first = t /\ k <= r.last
  <2>1. PICK r \in F : r.type = "backwards" /\ r.first = t /\ k <= r.last
    BY <1>4
  <2>2. PICK j \in 1..Len(st) : st[j] = r
    BY <1>2, <1>4, <2>1
  <2> QED
    BY <1>1, <2>1, <2>2 DEF Reaches
<1>5. CASE t <= k /\ \E q, r \in F : /\ q.type = "conditional" /\ q.last + 1 = t
                                     /\ r.type = "backwards" /\ r.first = q.first /\ k <= r.last
  <2>1. PICK q \in F, r \in F : /\ q.type = "conditional" /\ q.last + 1 = t
                                /\ r.type = "backwards" /\ r.first = q.first /\ k <= r.last
    BY <1>5
  <2>2. q \in Spans /\ q.first \in Nat /\ q.last \in Nat /\ q.first <= q.last /\ q.first <= k
    BY <1>5, <2>1, RangeIs
  <2>3. q \notin rs /\ q \in Conds(F, r.first)
    BY <2>1, <2>2 DEF Conds
  <2>4. PICK j \in 1..Len(st) : st[j] = r
    BY <1>2, <2>1, <2>2
  <2> QED
    BY <1>1, <2>1, <2>3, <2>4 DEF Reaches
<1> QED
  BY <1>3, <1>4, <1>5 DEF Served

\* The constructs that are open stay the same when code is added.
LEMMA NamesSame ==
    ASSUME NEW c, NEW open, NEW own, NEW c2, NEW own2, NEW st, NEW takes, NEW n \in Nat, open \in Seq(1..n),
           \A k \in 1..n : c2[k] = c[k] /\ own2[k] = own[k], Names(c, open, own, st, takes)
    PROVE  Names(c2, open, own2, st, takes)
<1>1. Len(open) = Len(st)
  BY DEF Names
<1>2. ASSUME NEW j \in 1..Len(st)
      PROVE  /\ own2[open[j]] = st[j]
             /\ st[j].type = "backwards" => c2[open[j]] = <<"loop", takes[j]>>
             /\ st[j].type # "backwards" => c2[open[j]] = <<"block", takes[j]>>
  <2>1. PICK k \in 1..n : k = open[j]
    BY <1>1
  <2>2. c2[k] = c[k] /\ own2[k] = own[k]
    OBVIOUS
  <2> QED
    BY <2>1, <2>2 DEF Names
<1> QED
  BY <1>1, <1>2, Zenon DEF Names

\* A sequence of one.
LEMMA OneIs ==
    ASSUME NEW op, NEW tail, tail = <<op>>
    PROVE  IsSequence(tail) /\ Len(tail) = 1 /\ tail[1] = op
<1>1. tail \in Seq({op}) /\ Len(tail) = 1 /\ tail[1] = op
  OBVIOUS
<1> QED
  BY <1>1, Zenon DEF IsSequence

BeginStep(c, st, takes, r, parameter, op, tail, c2, st2, takes2) ==
    /\ op = <<IF r.type = "backwards" THEN "loop" ELSE "block", parameter>> /\ tail = <<op>> /\ c2 = c \o tail
    /\ st2 = Append(st, r) /\ takes2 = Append(takes, parameter)
\* The begin of a construct is written.
LEMMA BeginCoded ==
    ASSUME NEW F, F \subseteq Spans, NEW l, NEW c, NEW en, NEW at, NEW own, NEW i \in Nat, NEW st, NEW takes,
           Coded(F, l, c, en, at, own, i, st, takes), st \in Seq(F), takes \in Seq(BOOLEAN), Len(takes) = Len(st),
           NEW r \in F, r.first = i, NEW parameter \in BOOLEAN, Carries(c, parameter),
           NEW op, NEW tail, NEW c2, NEW st2, NEW takes2,
           BeginStep(c, st, takes, r, parameter, op, tail, c2, st2, takes2)
    PROVE  /\ Standing(F, l, c2, i, st2, takes2)
           /\ Carries(c2, parameter)
<1>0. /\ op = <<IF r.type = "backwards" THEN "loop" ELSE "block", parameter>> /\ tail = <<op>> /\ c2 = c \o tail
      /\ st2 = Append(st, r) /\ takes2 = Append(takes, parameter)
  BY Zenon DEF BeginStep
<1> USE <1>0 DEF Carries
<1>1. Built(F, l, c, en, at, own) /\ IsSequence(c) /\ at[Len(c) + 1] = i /\ Names(c, en[Len(c)], own, st, takes)
  BY DEF Coded
<1>2. PICK n \in Nat : n = Len(c)
  BY <1>1 DEF Built
<1>3. PICK top : top = en[n]
  OBVIOUS
<1>4. IsSequence(tail) /\ Len(tail) = 1 /\ tail[1] = op
  BY OneIs
<1>5. IsSequence(c2) /\ Join(c, tail, 1, c2)
  BY <1>1, <1>4, JoinIs
<1>6. Len(c2) = n + 1 /\ (\A k \in 1..n : c2[k] = c[k]) /\ c2[n + 1] = op
  <2>1. \A k \in 1..1 : c2[n + k] = tail[k]
    BY <1>2, <1>5 DEF Join
  <2> QED
    BY <1>2, <1>4, <1>5, <2>1 DEF Join
<1>7. op = <<op[1], op[2]>> /\ op[2] = parameter /\ op[1] \in {"loop", "block"} /\ (op[1] = "loop" <=> r.type = "backwards")
      /\ (r.type = "backwards" => op = <<"loop", parameter>>) /\ (r.type # "backwards" => op = <<"block", parameter>>)
  <2>1. CASE r.type = "backwards"
    BY <2>1
  <2>2. CASE r.type # "backwards"
    BY <2>2
  <2> QED
    BY <2>1, <2>2
<1>8. PICK top2 : top2 = Append(top, n + 1)
  OBVIOUS
<1>9. Follows(F, c, own, n, top, i, op, top2, r)
  <2>1. op[2] \in BOOLEAN
    BY <1>7
  <2> QED
    BY <1>7, <1>8, <2>1, Zenon DEF Follows
<1>10. Takes(op) <=> parameter = TRUE
  <2>1. op[1] # "dispatch"
    BY <1>7
  <2>2. op[2] <=> parameter = TRUE
    BY <1>7
  <2> QED
    BY <1>7, <2>1, <2>2, Zenon DEF Takes
<1>11. PICK en2, at2, own2 : Grown(F, l, c, en, at, own, c2, en2, at2, own2, top2, i) /\ own2[n + 1] = r
  <2>1. at[n + 1] = i /\ (Valued(c, n + 1) <=> Takes(op))
    BY <1>1, <1>2, <1>10
  <2>2. Written(F, l, c, en, at, own, c2, top2, i, r)
    BY <1>1, <1>2, <1>3, <1>4, <1>5, <1>9, <2>1, OneBuilt
  <2> QED
    BY <1>2, <2>2, Zenon DEF Written
<1>12. /\ Built(F, l, c2, en2, at2, own2) /\ en2[Len(c2)] = top2 /\ at2[Len(c2) + 1] = i
       /\ \A k \in 1..n : c2[k] = c[k] /\ own2[k] = own[k]
  BY <1>2, <1>11 DEF Grown, Agree
<1>13. top \in Seq(1..n) /\ Len(top) = Len(st)
  <2>1. top \in Seq(1..n)
    BY <1>1, <1>2, <1>3, BuiltOpen, n \in 0..n
  <2> QED
    BY <1>1, <1>2, <1>3, <2>1 DEF Names
<1>14. Names(c2, top, own2, st, takes)
  <2>1. Names(c, top, own, st, takes)
    BY <1>1, <1>2, <1>3
  <2>2. \A k \in 1..n : c2[k] = c[k] /\ own2[k] = own[k]
    BY <1>12
  <2>3. top \in Seq(1..n) /\ n \in Nat
    BY <1>13
  <2> QED
    BY <2>1, <2>2, <2>3, NamesSame, Zenon
<1>15. Names(c2, top2, own2, st2, takes2)
  <2>1. PICK d \in Nat : d = Len(st) /\ d = Len(top) /\ d = Len(takes)
    BY <1>13
  <2>2. Len(st2) = d + 1 /\ st2[d + 1] = r /\ \A j \in 1..d : st2[j] = st[j]
    BY <2>1
  <2>3. Len(top2) = d + 1 /\ top2[d + 1] = n + 1 /\ \A j \in 1..d : top2[j] = top[j]
    <3>1. PICK p \in Nat : p = n + 1
      OBVIOUS
    <3>2. top \in Seq(Nat) /\ top2 = Append(top, p)
      BY <1>8, <1>13, <3>1
    <3>3. /\ Len(top2) = Len(top) + 1 /\ top2[Len(top) + 1] = p
          /\ \A j \in 1..Len(top) : top2[j] = top[j]
      BY <3>1, <3>2, AppendProperties
    <3>4. Len(top2) = d + 1 /\ top2[d + 1] = p /\ \A j \in 1..d : top2[j] = top[j]
      BY <2>1, <3>3
    <3> QED
      BY <3>1, <3>3, <3>4
  <2>4. takes2[d + 1] = parameter /\ \A j \in 1..d : takes2[j] = takes[j]
    BY <2>1
  <2>5. ASSUME NEW j \in 1..d + 1
        PROVE  /\ own2[top2[j]] = st2[j]
               /\ st2[j].type = "backwards" => c2[top2[j]] = <<"loop", takes2[j]>>
               /\ st2[j].type # "backwards" => c2[top2[j]] = <<"block", takes2[j]>>
    <3>1. CASE j = d + 1
      <4>1. PICK x : x = top2[j] /\ x = n + 1
        BY <2>3, <3>1
      <4>2. own2[x] = r /\ c2[x] = op /\ st2[j] = r /\ takes2[j] = parameter
        BY <1>6, <1>11, <2>2, <2>4, <3>1, <4>1
      <4> QED
        BY <1>7, <4>1, <4>2
    <3>2. CASE j # d + 1
      <4>1. j \in 1..d /\ j \in 1..Len(st)
        BY <2>1, <3>2
      <4>2. top2[j] = top[j] /\ st2[j] = st[j] /\ takes2[j] = takes[j]
        BY <2>2, <2>3, <2>4, <4>1
      <4> QED
        BY <1>14, <4>1, <4>2, Zenon DEF Names
    <3> QED
      BY <3>1, <3>2
  <2> QED
    BY <2>2, <2>3, <2>5 DEF Names
<1>16. Valued(c2, Len(c2) + 1) <=> parameter = TRUE
  <2>1. PICK p \in Nat : p = Len(c2) + 1 /\ p > 1 /\ c2[p - 1] = op
    <3>1. PICK q \in Nat : q = n + 2 /\ q > 1
      OBVIOUS
    <3>2. q - 1 = n + 1 /\ q = (n + 1) + 1
      BY <3>1
    <3>3. q = Len(c2) + 1 /\ c2[q - 1] = op
      BY <1>6, <3>2
    <3> QED
      BY <3>1, <3>3
  <2>2. Gives(op) <=> parameter = TRUE
    <3>1. op[1] # "const"
      BY <1>7
    <3>2. op[2] <=> parameter = TRUE
      BY <1>7
    <3> QED
      BY <1>7, <3>1, <3>2, Zenon DEF Gives
  <2> QED
    BY <2>1, <2>2 DEF Valued
<1>17. Standing(F, l, c2, i, st2, takes2)
  BY <1>5, <1>12, <1>15, Zenon DEF Coded, Standing
<1> QED
  BY <1>16, <1>17

DispatchStep(c, labels, op, tail, c2) ==
    /\ op = <<"dispatch", labels>>
    /\ tail = <<op>>
    /\ c2 = c \o tail
\* The dispatch is written behind the constructs it leads to the ends of.
LEMMA DispatchCoded ==
    ASSUME NEW F, NEW l, NEW c, NEW en, NEW at, NEW own, NEW i \in Nat, NEW st, NEW takes, NEW rs, NEW loop,
           Coded(F, l, c, en, at, own, i, st, takes), Valued(c, Len(c) + 1),
           NEW labels, Placing(F, i, st, takes, rs, labels, loop), Len(labels) = Total(F, i), Len(labels) > 0,
           NEW op, NEW tail, NEW c2, DispatchStep(c, labels, op, tail, c2)
    PROVE  /\ Standing(F, l, c2, i, st, takes)
           /\ ~Valued(c2, Len(c2) + 1)
<1>0. /\ op = <<"dispatch", labels>>
      /\ tail = <<op>>
      /\ c2 = c \o tail
  BY Zenon DEF DispatchStep
<1> USE <1>0
<1>1. Built(F, l, c, en, at, own) /\ IsSequence(c) /\ at[Len(c) + 1] = i /\ Names(c, en[Len(c)], own, st, takes)
  BY DEF Coded
<1>2. PICK n \in Nat : n = Len(c)
  BY <1>1 DEF Built
<1>3. PICK top : top = en[n]
  OBVIOUS
<1>4. IsSequence(tail) /\ Len(tail) = 1 /\ tail[1] = op
  BY OneIs
<1>5. IsSequence(c2) /\ Join(c, tail, 1, c2)
  BY <1>1, <1>4, JoinIs
<1>6. Len(c2) = n + 1 /\ (\A k \in 1..n : c2[k] = c[k]) /\ c2[n + 1] = op
  <2>1. \A k \in 1..1 : c2[n + k] = tail[k]
    BY <1>2, <1>5 DEF Join
  <2> QED
    BY <1>2, <1>4, <1>5, <2>1 DEF Join
<1>7. op[1] = "dispatch" /\ op[2] = labels
  OBVIOUS
<1>8. Labelled(F, c, top, own, labels, i)
  <2>1. labels \in Seq(Nat)
    BY DEF Placing
  <2>2. ASSUME NEW j \in 1..Len(labels)
        PROVE  /\ labels[j] \in 1..Len(top) /\ c[top[labels[j]]][1] = "block"
               /\ own[top[labels[j]]] \in Conds(F, i) /\ Number(F, own[top[labels[j]]]) = j - 1
    <3>1. PICK k : k = labels[j]
      OBVIOUS
    <3>2. k \in 1..Len(st) /\ st[k] \in Conds(F, i) /\ Number(F, st[k]) = j - 1
      BY <3>1, Zenon DEF Placing
    <3>3. st[k].type # "backwards"
      BY <3>2 DEF Conds
    <3>4. own[top[k]] = st[k] /\ c[top[k]] = <<"block", takes[k]>> /\ Len(top) = Len(st)
      BY <1>1, <1>2, <1>3, <3>2, <3>3, Zenon DEF Names
    <3>5. c[top[k]][1] = "block"
      BY <3>4
    <3> QED
      BY <3>1, <3>2, <3>4, <3>5
  <2> QED
    BY <2>1, <2>2, Zenon DEF Labelled
<1>9. Follows(F, c, own, n, top, i, op, top, 0)
  BY <1>7, <1>8, Zenon DEF Follows
<1>10. Takes(op)
  BY <1>7, Zenon DEF Takes
<1>11. PICK en2, at2, own2 : Grown(F, l, c, en, at, own, c2, en2, at2, own2, top, i)
  <2>1. at[n + 1] = i /\ (Valued(c, n + 1) <=> Takes(op))
    BY <1>1, <1>2, <1>10
  <2>2. Written(F, l, c, en, at, own, c2, top, i, 0)
    BY <1>1, <1>2, <1>3, <1>4, <1>5, <1>9, <2>1, OneBuilt
  <2> QED
    BY <2>2, Zenon DEF Written
<1>12. /\ Built(F, l, c2, en2, at2, own2) /\ en2[Len(c2)] = top /\ at2[Len(c2) + 1] = i
       /\ \A k \in 1..n : c2[k] = c[k] /\ own2[k] = own[k]
  BY <1>2, <1>11 DEF Grown, Agree
<1>13. top \in Seq(1..n)
  BY <1>1, <1>2, <1>3, BuiltOpen, n \in 0..n
<1>14. Names(c2, top, own2, st, takes)
  <2>1. Names(c, top, own, st, takes)
    BY <1>1, <1>2, <1>3
  <2>2. \A k \in 1..n : c2[k] = c[k] /\ own2[k] = own[k]
    BY <1>12
  <2>3. top \in Seq(1..n) /\ n \in Nat
    BY <1>13
  <2> QED
    BY <2>1, <2>2, <2>3, NamesSame, Zenon
<1>15. Standing(F, l, c2, i, st, takes)
  BY <1>5, <1>12, <1>14, Zenon DEF Coded, Standing
<1>16. ~Valued(c2, Len(c2) + 1)
  <2>1. PICK p \in Nat : p = Len(c2) + 1 /\ p > 1 /\ c2[p - 1] = op
    <3>1. PICK q \in Nat : q = n + 2 /\ q > 1
      OBVIOUS
    <3>2. q - 1 = n + 1 /\ q = (n + 1) + 1
      BY <3>1
    <3>3. q = Len(c2) + 1 /\ c2[q - 1] = op
      BY <1>6, <3>2
    <3> QED
      BY <3>1, <3>3
  <2>2. ~Gives(op)
    BY <1>7 DEF Gives
  <2> QED
    BY <2>1, <2>2 DEF Valued
<1> QED
  BY <1>15, <1>16

\* ranges are being opened at i: of those to come, the next may start there
Opened(F, l, i, st, takes, rs, ts, labels, loop, c, en, at, own) ==
    /\ Writer(F, st, takes, rs, i, ts) /\ Split(F, rs, i) /\ Placing(F, i, st, takes, rs, labels, loop)
    /\ Coded(F, l, c, en, at, own, i, st, takes)
    /\ Valued(c, Len(c) + 1) <=> Len(labels) < Total(F, i)
Opening(F, l, i, st, rs, ts, labels, loop, c) ==
    \E takes, en, at, own : Opened(F, l, i, st, takes, rs, ts, labels, loop, c, en, at, own)
OpenStep(F, i, st, rs, ts, labels, loop, c, r, n, total, parameter, loop2, plain, conditional,
         st2, rs2, ts2, labels2, op, tail, dispatch, c2) ==
    /\ n = Len(st) /\ total = Total(F, i)
    /\ parameter = (Len(labels) < total)
    /\ loop2 = IF r.type = "backwards" THEN n + 1 ELSE loop
    /\ plain = PlainTarget(r, n + 1, DefaultExit(total), r.type = "backwards" /\ parameter)
    /\ conditional = CondTarget(plain, loop2, IF total = 1 THEN 1 ELSE Len(labels))
    /\ st2 = Append(st, r) /\ rs2 = rs \ {r}
    /\ ts2 = IF r.type = "conditional" THEN Placed(Placed(ts, plain), conditional) ELSE Placed(ts, plain)
    /\ labels2 = IF r.type = "conditional" THEN Append(labels, n + 1) ELSE labels
    /\ op = <<IF r.type = "backwards" THEN "loop" ELSE "block", parameter>> /\ tail = <<op>>
    /\ dispatch = IF r.type # "conditional" \/ Len(labels2) < total THEN <<>> ELSE << <<"dispatch", labels2>> >>
    /\ c2 = (c \o tail) \o dispatch
\* The next one is opened.
LEMMA OpenKeeps ==
    ASSUME NEW F, Ranges(F), NEW l, NEW i \in Nat, NEW st, NEW rs, NEW ts, NEW labels, NEW loop, NEW c,
           Opening(F, l, i, st, rs, ts, labels, loop, c), NEW r, Foremost(rs, r), r.first = i,
           NEW n, NEW total, NEW parameter, NEW loop2, NEW plain, NEW conditional, NEW st2, NEW rs2, NEW ts2,
           NEW labels2, NEW op, NEW tail, NEW dispatch, NEW c2,
           OpenStep(F, i, st, rs, ts, labels, loop, c, r, n, total, parameter, loop2, plain, conditional,
                    st2, rs2, ts2, labels2, op, tail, dispatch, c2)
    PROVE  Opening(F, l, i, st2, rs2, ts2, labels2, loop2, c2)
<1>0. /\ n = Len(st) /\ total = Total(F, i)
      /\ parameter = (Len(labels) < total)
      /\ loop2 = IF r.type = "backwards" THEN n + 1 ELSE loop
      /\ plain = PlainTarget(r, n + 1, DefaultExit(total), r.type = "backwards" /\ parameter)
      /\ conditional = CondTarget(plain, loop2, IF total = 1 THEN 1 ELSE Len(labels))
      /\ st2 = Append(st, r) /\ rs2 = rs \ {r}
      /\ ts2 = IF r.type = "conditional" THEN Placed(Placed(ts, plain), conditional) ELSE Placed(ts, plain)
      /\ labels2 = IF r.type = "conditional" THEN Append(labels, n + 1) ELSE labels
      /\ op = <<IF r.type = "backwards" THEN "loop" ELSE "block", parameter>> /\ tail = <<op>>
      /\ dispatch = IF r.type # "conditional" \/ Len(labels2) < total THEN <<>> ELSE << <<"dispatch", labels2>> >>
      /\ c2 = (c \o tail) \o dispatch
  BY Zenon DEF OpenStep
<1>1. PICK takes, en, at, own : Opened(F, l, i, st, takes, rs, ts, labels, loop, c, en, at, own)
  BY Zenon DEF Opening
<1>2. /\ Writer(F, st, takes, rs, i, ts) /\ Split(F, rs, i) /\ Placing(F, i, st, takes, rs, labels, loop)
      /\ Coded(F, l, c, en, at, own, i, st, takes)
      /\ Valued(c, Len(c) + 1) <=> Len(labels) < Total(F, i)
  BY <1>1, Zenon DEF Opened
<1>3. /\ Stacked(F, st, rs, i) /\ takes \in Seq(BOOLEAN) /\ Len(takes) = Len(st) /\ F \subseteq Spans /\ st \in Seq(F)
      /\ r \in F /\ IsFiniteSet(F)
  BY <1>2 DEF Writer, Stacked, Ranges, Foremost
<1>4. parameter \in BOOLEAN /\ n \in Nat
  BY <1>0, <1>3
<1>5. labels \in Seq(Nat) /\ Len(labels) \in Nat
  BY <1>2 DEF Placing
<1>6. total \in Nat
  BY <1>0, <1>3, CountsAre
<1>7. Valued(c, Len(c) + 1) <=> parameter = TRUE
  BY <1>0, <1>2, Zenon
<1>8. PICK takes2 : takes2 = Append(takes, parameter)
  OBVIOUS
<1>9. Writer(F, st2, takes2, rs2, i, ts2)
  <2>1. PICK other : other = CondTarget(plain, loop, IF total = 1 THEN 1 ELSE Len(labels))
    OBVIOUS
  <2>2. ts2 = IF r.type = "conditional" THEN Placed(Placed(ts, plain), other) ELSE Placed(ts, plain)
    BY <1>0, <2>1
  <2>3. WriterStep(F, i, st, takes, rs, ts, labels, loop, r, n, total, parameter, plain, other, st2, takes2, rs2, ts2)
    BY <1>0, <1>8, <2>1, <2>2, Zenon DEF WriterStep
  <2> QED
    BY <1>2, <2>3, OpenedWriter
<1>10. Split(F, rs2, i)
  BY <1>0, <1>2, <1>3, OpenedStack
<1>11. Placing(F, i, st2, takes2, rs2, labels2, loop2)
  <2>1. PlacingStep(F, i, st, takes, rs, labels, loop, r, n, parameter, st2, takes2, rs2, labels2, loop2)
    BY <1>0, <1>8, Zenon DEF PlacingStep
  <2> QED
    BY <1>2, <1>3, <2>1, OpenedPlacing
<1>12. PICK c1 : c1 = c \o tail
  OBVIOUS
<1>13. /\ Standing(F, l, c1, i, st2, takes2)
       /\ Valued(c1, Len(c1) + 1) <=> parameter = TRUE
  <2>1. BeginStep(c, st, takes, r, parameter, op, tail, c1, st2, takes2)
    BY <1>0, <1>8, <1>12, Zenon DEF BeginStep
  <2> QED
    <3>1. Carries(c, parameter)
      BY <1>7, Zenon DEF Carries
    <3>2. Standing(F, l, c1, i, st2, takes2) /\ Carries(c1, parameter)
      BY <1>2, <1>3, <1>4, <2>1, <3>1, BeginCoded
    <3> QED
      BY <3>2, Zenon DEF Carries
<1>14. PICK en1, at1, own1 : Coded(F, l, c1, en1, at1, own1, i, st2, takes2)
  BY <1>13, Zenon DEF Standing
<1>15. CASE dispatch = <<>> /\ (parameter = TRUE <=> Len(labels2) < total)
  <2>1. c2 = c1
    <3>1. PICK S : c1 \in Seq(S)
      BY <1>14, Zenon DEF Coded, IsSequence
    <3> QED
      BY <1>0, <1>12, <1>15, <3>1
  <2>2. Valued(c2, Len(c2) + 1) <=> Len(labels2) < Total(F, i)
    BY <1>0, <1>13, <1>15, <2>1
  <2> QED
    BY <1>9, <1>10, <1>11, <1>14, <2>1, <2>2, Zenon DEF Opening, Opened
<1>16. CASE r.type # "conditional"
  <2>1. dispatch = <<>> /\ labels2 = labels
    BY <1>0, <1>16
  <2>2. parameter = TRUE <=> Len(labels2) < total
    BY <1>0, <2>1
  <2> QED
    BY <1>15, <2>1, <2>2
<1>17. CASE r.type = "conditional"
  <2>1. Len(labels) < total
    <3>1. Expected(F, i, st, takes, labels, loop, r)
      BY <1>2, <1>3, <1>17, CondNext
    <3> QED
      BY <1>0, <3>1 DEF Expected
  <2>2. Len(labels2) = Len(labels) + 1
    BY <1>0, <1>4, <1>5, <1>17
  <2>3. CASE Len(labels2) < total
    <3>1. dispatch = <<>>
      BY <1>0, <2>3
    <3>2. parameter = TRUE <=> Len(labels2) < total
      BY <1>0, <2>1, <2>3
    <3> QED
      BY <1>15, <3>1, <3>2
  <2>4. CASE ~(Len(labels2) < total)
    <3>1. dispatch = << <<"dispatch", labels2>> >>
      BY <1>0, <1>17, <2>4
    <3>2. Len(labels2) = Total(F, i) /\ Len(labels2) > 0
      BY <1>0, <1>5, <1>6, <2>1, <2>2, <2>4
    <3>3. PICK op2 : op2 = <<"dispatch", labels2>>
      OBVIOUS
    <3>4. dispatch = <<op2>> /\ c2 = c1 \o dispatch
      BY <1>0, <1>12, <3>1, <3>3
    <3>5. Valued(c1, Len(c1) + 1)
      BY <1>0, <1>13, <2>1
    <3>6. /\ Standing(F, l, c2, i, st2, takes2)
          /\ ~Valued(c2, Len(c2) + 1)
      <4>1. DispatchStep(c1, labels2, op2, dispatch, c2)
        BY <3>3, <3>4, Zenon DEF DispatchStep
      <4> QED
        BY <1>11, <1>14, <3>2, <3>5, <4>1, DispatchCoded
    <3>7. PICK en2, at2, own2 : Coded(F, l, c2, en2, at2, own2, i, st2, takes2)
      BY <3>6, Zenon DEF Standing
    <3>8. Valued(c2, Len(c2) + 1) <=> Len(labels2) < Total(F, i)
      BY <1>0, <2>4, <3>6
    <3> QED
      BY <1>9, <1>10, <1>11, <3>7, <3>8, Zenon DEF Opening, Opened
  <2> QED
    BY <2>3, <2>4
<1> QED
  BY <1>16, <1>17

\* the state of fPrepareStack between two ranges that it opens
Begun(F, l, i, s) == Opening(F, l, i, s.stack, s.ranges, s.targets, s.labels, s.loop, s.code)
Starting(s, i) == {r \in s.ranges : r.first = i}
OneLess(s, s2, i) == \E r \in Starting(s, i) : Starting(s2, i) = Starting(s, i) \ {r}
\* One of those that start at i is opened.
LEMMA OpenIs ==
    ASSUME NEW F, Ranges(F), NEW l, NEW i \in Nat, NEW s, Begun(F, l, i, s), Starting(s, i) # {},
           NEW sum, sum = Total(F, i), NEW s2, s2 = Open(s, sum)
    PROVE  Begun(F, l, i, s2) /\ OneLess(s, s2, i)
<1>1. PICK st, rs, ts, labels0, loop0, c : /\ st = s.stack /\ rs = s.ranges /\ ts = s.targets
                                           /\ labels0 = s.labels /\ loop0 = s.loop /\ c = s.code
  OBVIOUS
<1>2. Opening(F, l, i, st, rs, ts, labels0, loop0, c)
  BY <1>1, Zenon DEF Begun
<1>3. Stacked(F, st, rs, i) /\ Split(F, rs, i)
  BY <1>2, Zenon DEF Opening, Opened, Writer
<1>4. rs \subseteq F /\ rs \subseteq Spans /\ IsFiniteSet(rs) /\ rs # {}
  BY <1>1, <1>3, FS_Subset DEF Stacked, Ranges, Starting
<1>5. PICK r : r = Earliest(s.ranges)
  OBVIOUS
<1>6. Foremost(rs, r)
  BY <1>1, <1>4, <1>5, EarliestIs DEF Foremost
<1>7. r.first = i /\ r \in rs
  <2>1. PICK q : q \in rs /\ q.first = i
    BY <1>1 DEF Starting
  <2>2. r \in rs /\ i <= r.first /\ (q = r \/ Precedes(r, q))
    BY <1>3, <1>6, <2>1 DEF Foremost, Split
  <2>3. r \in Spans /\ r.first \in Nat
    BY <1>4, <2>2, RangeIs
  <2> QED
    BY <2>1, <2>2, <2>3 DEF Precedes
<1> DEFINE depth == Len(s.stack) + 1
           parameter == Len(s.labels) < sum
           isLoop == r.type = "backwards"
           loop == IF isLoop THEN depth ELSE s.loop
           plain == [address |-> IF isLoop THEN r.first ELSE r.last + 1, stack |-> depth, first |-> r.first,
                     index |-> DefaultExit(sum), conditional |-> isLoop /\ parameter, active |-> TRUE]
           conditional == [plain EXCEPT !.stack = loop, !.index = IF sum = 1 THEN 1 ELSE Len(s.labels),
                                        !.conditional = TRUE]
           labels == IF r.type = "conditional" THEN Append(s.labels, depth) ELSE s.labels
           dispatch == IF r.type # "conditional" \/ Len(labels) < sum THEN <<>> ELSE << <<"dispatch", labels>> >>
           op == <<IF isLoop THEN "loop" ELSE "block", parameter>>
           st2 == Append(s.stack, r)
           rs2 == s.ranges \ {r}
           ts2 == IF r.type = "conditional" THEN Placed(Placed(s.targets, plain), conditional)
                                            ELSE Placed(s.targets, plain)
           c2 == s.code \o << op >> \o dispatch
<1>8. s2 = [ranges |-> rs2, stack |-> st2, labels |-> labels, loop |-> loop, targets |-> ts2, code |-> c2]
  BY <1>5, Zenon DEF Open
<1>9. plain = PlainTarget(r, depth, DefaultExit(sum), r.type = "backwards" /\ parameter)
  BY Zenon DEF PlainTarget
<1>10. conditional = CondTarget(plain, loop, IF sum = 1 THEN 1 ELSE Len(labels0))
  BY <1>1, Zenon DEF CondTarget
<1> HIDE DEF plain, conditional
<1>11. OpenStep(F, i, st, rs, ts, labels0, loop0, c, r, Len(st), sum, parameter, loop, plain, conditional,
                st2, rs2, ts2, labels, op, <<op>>, dispatch, c2)
  BY <1>1, <1>9, <1>10, Zenon DEF OpenStep
<1> HIDE DEF parameter, loop, st2, rs2, ts2, labels, op, dispatch, c2
<1>12. PICK tail : tail = <<op>>
  OBVIOUS
<1>13. OpenStep(F, i, st, rs, ts, labels0, loop0, c, r, Len(st), sum, parameter, loop, plain, conditional,
                st2, rs2, ts2, labels, op, tail, dispatch, c2)
  BY <1>11, <1>12
<1>14. Opening(F, l, i, st2, rs2, ts2, labels, loop, c2)
  BY <1>2, <1>6, <1>7, <1>13, OpenKeeps
<1>15. /\ s2.stack = st2 /\ s2.ranges = rs2 /\ s2.targets = ts2 /\ s2.labels = labels /\ s2.loop = loop /\ s2.code = c2
  BY <1>8
<1>16. Begun(F, l, i, s2)
  BY <1>14, <1>15 DEF Begun
<1>17. r \in Starting(s, i) /\ Starting(s2, i) = Starting(s, i) \ {r}
  BY <1>1, <1>7, <1>15 DEF Starting, rs2
<1> QED
  BY <1>16, <1>17 DEF OneLess

EndsStep(c, st, takes, m, tail, c2, st2, takes2) ==
    /\ tail = [k \in 1..Len(st) - m |-> <<"end">>] /\ c2 = c \o tail
    /\ st2 = SubSeq(st, 1, m) /\ takes2 = SubSeq(takes, 1, m)
\* The innermost constructs are closed.
LEMMA EndsCoded ==
    ASSUME NEW F, F \subseteq Spans, NEW l, NEW c, NEW en, NEW at, NEW own, NEW i \in Nat, NEW st, NEW takes,
           Coded(F, l, c, en, at, own, i, st, takes), st \in Seq(F), takes \in Seq(BOOLEAN), Len(takes) = Len(st),
           ~Valued(c, Len(c) + 1), NEW m \in 0..Len(st),
           \A j \in 1..Len(st) : j > m /\ st[j].type # "backwards" => st[j].last + 1 = i,
           NEW tail, NEW c2, NEW st2, NEW takes2, EndsStep(c, st, takes, m, tail, c2, st2, takes2)
    PROVE  Standing(F, l, c2, i, st2, takes2) /\ ~Valued(c2, Len(c2) + 1)
<1>0. /\ tail = [k \in 1..Len(st) - m |-> <<"end">>] /\ c2 = c \o tail
      /\ st2 = SubSeq(st, 1, m) /\ takes2 = SubSeq(takes, 1, m)
  BY Zenon DEF EndsStep
<1>1. Built(F, l, c, en, at, own) /\ IsSequence(c) /\ at[Len(c) + 1] = i /\ Names(c, en[Len(c)], own, st, takes)
  BY DEF Coded
<1>2. PICK n \in Nat : n = Len(c)
  BY <1>1 DEF Built
<1>3. PICK top : top = en[n]
  OBVIOUS
<1>4. PICK d \in Nat : d = Len(st)
  OBVIOUS
<1>5. top \in Seq(1..n) /\ Len(top) = d
  <2>1. top \in Seq(1..n)
    BY <1>1, <1>2, <1>3, BuiltOpen, n \in 0..n
  <2> QED
    BY <1>1, <1>2, <1>3, <1>4, <2>1 DEF Names
<1>6. PICK m2 \in Nat : m2 = d - m /\ m2 <= Len(top) /\ Len(top) - m2 = m
  <2>1. d - m \in Nat /\ d - m <= d /\ d - (d - m) = m
    BY <1>4
  <2> QED
    BY <1>5, <2>1
<1>7. tail = [k \in 1..m2 |-> <<"end">>]
  BY <1>0, <1>4, <1>6
<1>8. IsSequence(tail) /\ Len(tail) = m2
  <2>1. PICK f : f = [k \in 1..m2 |-> <<"end">>]
    OBVIOUS
  <2>2. tail = [k \in 1..m2 |-> f[k]]
    BY <1>7, <2>1
  <2> QED
    BY <2>2, CountedIs
<1>9. IsSequence(c2) /\ Join(c, tail, m2, c2)
  BY <1>0, <1>1, <1>8, JoinIs
<1>10. \A j \in 1..Len(top) : j > Len(top) - m2 /\ c[top[j]][1] = "block" => own[top[j]].last + 1 = at[n + 1]
  <2>1. ASSUME NEW j \in 1..d, j > m, c[top[j]][1] = "block"
        PROVE  own[top[j]].last + 1 = i
    <3>1. /\ own[top[j]] = st[j]
          /\ st[j].type = "backwards" => c[top[j]] = <<"loop", takes[j]>>
      BY <1>1, <1>2, <1>3, <1>4 DEF Names
    <3>2. st[j].type # "backwards"
      BY <2>1, <3>1
    <3> QED
      BY <1>4, <2>1, <3>1, <3>2
  <2> QED
    BY <1>1, <1>2, <1>5, <1>6, <2>1
<1>11. PICK open : open = SubSeq(top, 1, m)
  OBVIOUS
<1>12. Settled(F, l, c, en, at, own, c2, SubSeq(top, 1, Len(top) - m2), at[n + 1])
  <2>1. at[n + 1] \in Nat /\ ~Valued(c, n + 1)
    BY <1>1, <1>2
  <2> QED
    BY <1>1, <1>2, <1>3, <1>6, <1>7, <1>9, <1>10, <2>1, EndsBuilt
<1>13. PICK en2, at2 : Grown(F, l, c, en, at, own, c2, en2, at2, own, open, i)
  <2>1. \E en2, at2 : Grown(F, l, c, en, at, own, c2, en2, at2, own, SubSeq(top, 1, Len(top) - m2), at[n + 1])
    BY <1>12, Zenon DEF Settled
  <2> QED
    BY <1>1, <1>2, <1>6, <1>11, <2>1
<1>14. /\ Built(F, l, c2, en2, at2, own) /\ en2[Len(c2)] = open /\ at2[Len(c2) + 1] = i
       /\ \A k \in 1..n : c2[k] = c[k]
  BY <1>2, <1>13 DEF Grown, Agree
<1>15. Names(c2, open, own, st2, takes2)
  <2>1. m \in 0..d /\ \A j \in 1..m : j \in 1..d
    BY <1>4
  <2>2. Len(st2) = m /\ \A j \in 1..m : st2[j] = st[j]
    BY <1>0, <1>4, <2>1
  <2>3. Len(takes2) = m /\ \A j \in 1..m : takes2[j] = takes[j]
    BY <1>0, <1>4, <2>1
  <2>4. Len(open) = m /\ \A j \in 1..m : open[j] = top[j] /\ open[j] \in 1..n
    BY <1>5, <1>11, <2>1
  <2>5. ASSUME NEW j \in 1..m
        PROVE  /\ own[open[j]] = st2[j]
               /\ st2[j].type = "backwards" => c2[open[j]] = <<"loop", takes2[j]>>
               /\ st2[j].type # "backwards" => c2[open[j]] = <<"block", takes2[j]>>
    <3>1. PICK x \in 1..n : x = open[j] /\ x = top[j]
      BY <2>4
    <3>2. c2[x] = c[x] /\ st2[j] = st[j] /\ takes2[j] = takes[j] /\ j \in 1..Len(st)
      BY <1>4, <1>14, <2>1, <2>2, <2>3
    <3>3. /\ own[x] = st[j]
          /\ st[j].type = "backwards" => c[x] = <<"loop", takes[j]>>
          /\ st[j].type # "backwards" => c[x] = <<"block", takes[j]>>
      BY <1>1, <1>2, <1>3, <3>1, <3>2 DEF Names
    <3> QED
      BY <3>1, <3>2, <3>3
  <2> QED
    BY <2>2, <2>4, <2>5 DEF Names
<1>16. Coded(F, l, c2, en2, at2, own, i, st2, takes2)
  BY <1>9, <1>14, <1>15, Zenon DEF Coded
<1> QED
  BY <1>12, <1>16, Zenon DEF Standing, Settled

OneStepCoded(c, op, tail, c2) == tail = <<op>> /\ c2 = c \o tail
\* The index to fall through the dispatch is written.
LEMMA ConstCoded ==
    ASSUME NEW F, NEW l, NEW c, NEW en, NEW at, NEW own, NEW i \in Nat, NEW st, NEW takes,
           Coded(F, l, c, en, at, own, i, st, takes), ~Valued(c, Len(c) + 1), Total(F, i) > 0,
           NEW op, op = <<"const", DefaultExit(Total(F, i))>>, NEW tail, NEW c2, OneStepCoded(c, op, tail, c2)
    PROVE  Standing(F, l, c2, i, st, takes) /\ Valued(c2, Len(c2) + 1)
<1>0. tail = <<op>> /\ c2 = c \o tail
  BY Zenon DEF OneStepCoded
<1>1. Built(F, l, c, en, at, own) /\ IsSequence(c) /\ at[Len(c) + 1] = i /\ Names(c, en[Len(c)], own, st, takes)
  BY DEF Coded
<1>2. PICK n \in Nat : n = Len(c)
  BY <1>1 DEF Built
<1>3. PICK top : top = en[n]
  OBVIOUS
<1>4. IsSequence(tail) /\ Len(tail) = 1 /\ tail[1] = op
  BY <1>0, OneIs
<1>5. IsSequence(c2) /\ Join(c, tail, 1, c2)
  BY <1>0, <1>1, <1>4, JoinIs
<1>6. Len(c2) = n + 1 /\ (\A k \in 1..n : c2[k] = c[k]) /\ c2[n + 1] = op
  <2>1. \A k \in 1..1 : c2[n + k] = tail[k]
    BY <1>2, <1>5 DEF Join
  <2> QED
    BY <1>2, <1>4, <1>5, <2>1 DEF Join
<1>7. op[1] = "const" /\ op[2] = DefaultExit(Total(F, i))
  OBVIOUS
<1>8. Follows(F, c, own, n, top, i, op, top, 0)
  BY <1>7, Zenon DEF Follows
<1>9. ~Takes(op)
  BY <1>7 DEF Takes
<1>10. PICK en2, at2, own2 : Grown(F, l, c, en, at, own, c2, en2, at2, own2, top, i)
  <2>1. at[n + 1] = i /\ (Valued(c, n + 1) <=> Takes(op))
    BY <1>1, <1>2, <1>9
  <2>2. Written(F, l, c, en, at, own, c2, top, i, 0)
    BY <1>1, <1>2, <1>3, <1>4, <1>5, <1>8, <2>1, OneBuilt
  <2> QED
    BY <2>2, Zenon DEF Written
<1>11. /\ Built(F, l, c2, en2, at2, own2) /\ en2[Len(c2)] = top /\ at2[Len(c2) + 1] = i
       /\ \A k \in 1..n : c2[k] = c[k] /\ own2[k] = own[k]
  BY <1>2, <1>10 DEF Grown, Agree
<1>12. top \in Seq(1..n)
  BY <1>1, <1>2, <1>3, BuiltOpen, n \in 0..n
<1>13. Names(c2, top, own2, st, takes)
  <2>1. Names(c, top, own, st, takes)
    BY <1>1, <1>2, <1>3
  <2>2. \A k \in 1..n : c2[k] = c[k] /\ own2[k] = own[k]
    BY <1>11
  <2> QED
    BY <1>12, <2>1, <2>2, NamesSame, Zenon
<1>14. Standing(F, l, c2, i, st, takes)
  BY <1>5, <1>11, <1>13, Zenon DEF Coded, Standing
<1>15. Valued(c2, Len(c2) + 1)
  <2>1. PICK p \in Nat : p = Len(c2) + 1 /\ p > 1 /\ c2[p - 1] = op
    <3>1. PICK q \in Nat : q = n + 2 /\ q > 1
      OBVIOUS
    <3>2. q - 1 = n + 1 /\ q = (n + 1) + 1
      BY <3>1
    <3>3. q = Len(c2) + 1 /\ c2[q - 1] = op
      BY <1>6, <3>2
    <3> QED
      BY <3>1, <3>3
  <2>2. Gives(op)
    BY <1>7, Zenon DEF Gives
  <2> QED
    BY <2>1, <2>2 DEF Valued
<1> QED
  BY <1>14, <1>15

InstsStep(i, m, via, c, tail, c2) == tail = [k \in 1..m |-> <<"inst", i + k - 1, via[k]>>] /\ c2 = c \o tail
\* The instructions of a chunk are written.
LEMMA InstsCoded ==
    ASSUME NEW F, NEW l, NEW c, NEW en, NEW at, NEW own, NEW i \in Nat, NEW st, NEW takes,
           Coded(F, l, c, en, at, own, i, st, takes), ~Valued(c, Len(c) + 1),
           NEW m \in Nat, i + m <= Len(l), Len(l) \in Nat, NEW via, NEW tail, NEW c2, InstsStep(i, m, via, c, tail, c2),
           \A k \in 1..m : l[i + k].branches /\ l[i + k].target < Len(l) =>
               Landing(F, c, en[Len(c)], own, via[k].target, via[k].conditional, via[k].index, l[i + k].target)
    PROVE  Standing(F, l, c2, i + m, st, takes) /\ ~Valued(c2, Len(c2) + 1)
<1>0. tail = [k \in 1..m |-> <<"inst", i + k - 1, via[k]>>] /\ c2 = c \o tail
  BY Zenon DEF InstsStep
<1>1. Built(F, l, c, en, at, own) /\ IsSequence(c) /\ at[Len(c) + 1] = i /\ Names(c, en[Len(c)], own, st, takes)
  BY DEF Coded
<1>2. PICK n \in Nat : n = Len(c)
  BY <1>1 DEF Built
<1>3. PICK top : top = en[n]
  OBVIOUS
<1>4. IsSequence(tail) /\ Len(tail) = m
  <2>1. PICK f : f = [k \in 1..m |-> <<"inst", i + k - 1, via[k]>>]
    OBVIOUS
  <2>2. tail = [k \in 1..m |-> f[k]]
    BY <1>0, <2>1
  <2> QED
    BY <2>2, CountedIs
<1>5. IsSequence(c2) /\ Join(c, tail, m, c2)
  BY <1>0, <1>1, <1>4, JoinIs
<1>6. Settled(F, l, c, en, at, own, c2, top, i + m)
  <2>1. \A k \in 1..m : tail[k] = <<"inst", i + k - 1, via[k]>>
    BY <1>0
  <2>2. at[n + 1] = i /\ ~Valued(c, n + 1)
    BY <1>1, <1>2
  <2>3. \A k \in 1..m : l[i + k].branches /\ l[i + k].target < Len(l) =>
            Landing(F, c, top, own, via[k].target, via[k].conditional, via[k].index, l[i + k].target)
    BY <1>2, <1>3
  <2> QED
    BY <1>1, <1>2, <1>3, <1>5, <2>1, <2>2, <2>3, InstsBuilt
<1>7. PICK en2, at2 : Grown(F, l, c, en, at, own, c2, en2, at2, own, top, i + m)
  BY <1>6, Zenon DEF Settled
<1>8. /\ Built(F, l, c2, en2, at2, own) /\ en2[Len(c2)] = top /\ at2[Len(c2) + 1] = i + m
      /\ \A k \in 1..n : c2[k] = c[k]
  BY <1>2, <1>7 DEF Grown, Agree
<1>9. top \in Seq(1..n)
  BY <1>1, <1>2, <1>3, BuiltOpen, n \in 0..n
<1>10. Names(c2, top, own, st, takes)
  <2>1. Names(c, top, own, st, takes)
    BY <1>1, <1>2, <1>3
  <2>2. \A k \in 1..n : c2[k] = c[k] /\ own[k] = own[k]
    BY <1>8
  <2> QED
    BY <1>9, <2>1, <2>2, NamesSame, Zenon
<1>11. Standing(F, l, c2, i + m, st, takes)
  BY <1>5, <1>8, <1>10, Zenon DEF Coded, Standing
<1> QED
  BY <1>6, <1>11, Zenon DEF Settled

-----------------------------------------------------------------------------
(* Before each chunk. *)

\* the ranges that start before i are open, or have ended there at the latest
Ready(F, l, i, st, takes, rs, ts, c, en, at, own) ==
    /\ Ranges(F) /\ i \in Nat /\ rs = {r \in F : i <= r.first} /\ Writer(F, st, takes, rs, i - 1, ts)
    /\ Coded(F, l, c, en, at, own, i, st, takes) /\ ~Valued(c, Len(c) + 1)
Waiting(F, l, i, st, rs, ts, c) == \E takes, en, at, own : Ready(F, l, i, st, takes, rs, ts, c, en, at, own)
\* the state in which fPrepareStack starts to open ranges
Start(open, ends, initial) ==
    [ranges |-> ranges, stack |-> open, targets |-> [k \in DOMAIN targets |-> Patched(targets[k], open)],
     labels |-> <<>>, loop |-> Len(open) + 1, code |-> code \o ends \o initial]
StartStep(F, open, total, ends, initial, s) ==
    /\ open = Kept(stack) /\ total = Total(F, index)
    /\ ends = [k \in 1..Len(stack) - Len(open) |-> <<"end">>]
    /\ initial = IF total = 0 THEN <<>> ELSE << <<"const", DefaultExit(total)>> >>
    /\ s = Start(open, ends, initial)
\* What has ended is closed.
LEMMA StartIs ==
    ASSUME NEW F, NEW l, Waiting(F, l, index, stack, ranges, targets, code),
           NEW open, NEW total, NEW ends, NEW initial, NEW s, StartStep(F, open, total, ends, initial, s)
    PROVE  Begun(F, l, index, s)
<1>0. /\ open = Kept(stack) /\ total = Total(F, index)
      /\ ends = [k \in 1..Len(stack) - Len(open) |-> <<"end">>]
      /\ initial = IF total = 0 THEN <<>> ELSE << <<"const", DefaultExit(total)>> >>
      /\ s = Start(open, ends, initial)
  BY Zenon DEF StartStep
<1> USE <1>0
<1>1. PICK takes, en, at, own : Ready(F, l, index, stack, takes, ranges, targets, code, en, at, own)
  BY Zenon DEF Waiting
<1>2. /\ Ranges(F) /\ index \in Nat /\ ranges = {r \in F : index <= r.first}
      /\ Writer(F, stack, takes, ranges, index - 1, targets)
      /\ Coded(F, l, code, en, at, own, index, stack, takes) /\ ~Valued(code, Len(code) + 1)
  BY <1>1, Zenon DEF Ready
<1>3. F \subseteq Spans /\ IsFiniteSet(F) /\ \A r \in F : r.first \in Nat /\ r.last \in Nat /\ r.first <= r.last
  BY <1>2, RangeIs DEF Ranges
<1>4. stack \in Seq(F) /\ takes \in Seq(BOOLEAN) /\ Len(takes) = Len(stack)
  BY <1>2 DEF Writer, Stacked
<1>5. PICK ts2 : ts2 = [k \in DOMAIN targets |-> Patched(targets[k], open)]
  OBVIOUS
<1>6. PICK m \in 0..Len(stack) :
          /\ open = SubSeq(stack, 1, m) /\ Len(open) = m
          /\ \A j \in 1..m : open[j] = stack[j]
          /\ \A j \in 1..Len(stack) : j > m => stack[j].last = index - 1
          /\ Writer(F, open, SubSeq(takes, 1, m), ranges, index, ts2)
  <2>1. Closing(F, stack, takes, ranges, open, ts2)
    BY <1>2, <1>5, Closed
  <2> QED
    BY <2>1, Zenon DEF Closing
<1>7. PICK takes2, c1, c2 : takes2 = SubSeq(takes, 1, m) /\ c1 = code \o ends /\ c2 = c1 \o initial
  OBVIOUS
<1>8. Standing(F, l, c1, index, open, takes2) /\ ~Valued(c1, Len(c1) + 1)
  <2>1. \A j \in 1..Len(stack) : j > m /\ stack[j].type # "backwards" => stack[j].last + 1 = index
    BY <1>2, <1>6
  <2>2. EndsStep(code, stack, takes, m, ends, c1, open, takes2)
    BY <1>6, <1>7, Zenon DEF EndsStep
  <2> QED
    BY <1>2, <1>3, <1>4, <2>1, <2>2, EndsCoded
<1>9. total \in Nat
  BY <1>2, <1>3, CountsAre
<1>10. Standing(F, l, c2, index, open, takes2) /\ (Valued(c2, Len(c2) + 1) <=> 0 < Total(F, index))
  <2>1. CASE total = 0
    <3>1. PICK S : c1 \in Seq(S)
      BY <1>8, Zenon DEF Standing, Coded, IsSequence
    <3>2. c2 = c1
      BY <1>7, <2>1, <3>1
    <3> QED
      BY <1>8, <2>1, <3>2
  <2>2. CASE total # 0
    <3>1. PICK en1, at1, own1 : Coded(F, l, c1, en1, at1, own1, index, open, takes2)
      BY <1>8, Zenon DEF Standing
    <3>2. PICK op : op = <<"const", DefaultExit(Total(F, index))>>
      OBVIOUS
    <3>3. OneStepCoded(c1, op, initial, c2)
      BY <1>7, <2>2, <3>2, Zenon DEF OneStepCoded
    <3>4. Total(F, index) > 0
      BY <1>9, <2>2
    <3>5. Standing(F, l, c2, index, open, takes2) /\ Valued(c2, Len(c2) + 1)
      BY <1>2, <1>8, <3>1, <3>2, <3>3, <3>4, ConstCoded
    <3> QED
      BY <3>4, <3>5
  <2> QED
    BY <2>1, <2>2
<1>11. PICK en2, at2, own2 : Coded(F, l, c2, en2, at2, own2, index, open, takes2)
  BY <1>10, Zenon DEF Standing
<1>12. Split(F, ranges, index)
  BY <1>2, <1>3 DEF Split, Precedes
<1>13. PICK labels : labels = <<>>
  OBVIOUS
<1>14. Len(labels) = 0 /\ labels \in Seq(Nat)
  <2>1. labels \in Seq(Nat)
    BY <1>13, EmptySeq, Zenon
  <2> QED
    BY <1>13, <2>1
<1>15. Placing(F, index, open, takes2, ranges, labels, m + 1)
  <2>1. {q \in Conds(F, index) : q \notin ranges} = {}
    BY <1>2, <1>3 DEF Conds
  <2>2. Len(labels) = Cardinality({q \in Conds(F, index) : q \notin ranges})
    BY <1>14, <2>1, FS_EmptySet
  <2>3. \A r \in F : r.type = "backwards" /\ r.first = index => r \in ranges
    BY <1>2, <1>3
  <2>4. \A j \in 1..m : open[j].first # index
    <3>1. ASSUME NEW j \in 1..m
          PROVE  open[j].first # index
      <4>1. open[j] \in F /\ open[j] \notin ranges
        BY <1>4, <1>6 DEF Writer, Stacked
      <4> QED
        BY <1>2, <1>3, <4>1
    <3> QED
      BY <3>1
  <2>5. \A j \in 1..Len(labels) : FALSE
    BY <1>14
  <2>6. \A j \in 1..Len(open) : open[j].first # index
    BY <1>6, <2>4
  <2> QED
    BY <1>14, <2>2, <2>3, <2>5, <2>6, Zenon DEF Placing
<1>16. Opening(F, l, index, open, ranges, ts2, labels, m + 1, c2)
  <2>1. Valued(c2, Len(c2) + 1) <=> Len(labels) < Total(F, index)
    BY <1>10, <1>14
  <2>2. Writer(F, open, takes2, ranges, index, ts2)
    BY <1>6, <1>7
  <2> QED
    BY <1>11, <1>12, <1>15, <2>1, <2>2, Zenon DEF Opening, Opened
<1>17. /\ s.ranges = ranges /\ s.stack = open /\ s.targets = ts2 /\ s.labels = labels /\ s.loop = m + 1 /\ s.code = c2
  BY <1>5, <1>6, <1>7, <1>13 DEF Start
<1> QED
  BY <1>16, <1>17 DEF Begun

\* the ranges that start at the same place are opened, one after the other
IsOpening(f, n, start, total) == f = [k \in 0..n |-> IF k = 0 THEN start ELSE Open(f[k - 1], total)]
\* There is such a function.
LEMMA OpeningExists ==
    ASSUME NEW start, NEW total, NEW n \in Nat
    PROVE  \E f : IsOpening(f, n, start, total)
<1> DEFINE T == {k \in Nat : \E f : IsOpening(f, k, start, total)}
<1>1. 0 \in T
  <2>1. PICK f : f = [k \in 0..0 |-> start]
    OBVIOUS
  <2>2. f = [k \in 0..0 |-> IF k = 0 THEN start ELSE Open(f[k - 1], total)]
    BY <2>1
  <2>3. \E g : IsOpening(g, 0, start, total)
    BY <2>2, Zenon DEF IsOpening
  <2> QED
    BY <2>3
<1>2. ASSUME NEW k \in Nat, k \in T
      PROVE  k + 1 \in T
  <2>1. PICK f : IsOpening(f, k, start, total)
    BY <1>2
  <2>2. PICK g : g = [j \in 0..k + 1 |-> IF j <= k THEN f[j] ELSE Open(f[k], total)]
    OBVIOUS
  <2>3. \A j \in 0..k : g[j] = f[j] /\ f[j] = IF j = 0 THEN start ELSE Open(f[j - 1], total)
    BY <2>1, <2>2 DEF IsOpening
  <2>4. ASSUME NEW j \in 0..k + 1
        PROVE  g[j] = IF j = 0 THEN start ELSE Open(g[j - 1], total)
    <3>1. CASE j = 0
      BY <2>3, <3>1
    <3>2. CASE j # 0 /\ j <= k
      <4>1. j \in 0..k /\ j - 1 \in 0..k
        BY <3>2
      <4>2. g[j] = f[j] /\ g[j - 1] = f[j - 1] /\ f[j] = Open(f[j - 1], total)
        BY <2>3, <3>2, <4>1
      <4> QED
        BY <3>2, <4>2
    <3>3. CASE j = k + 1
      <4>1. k \in 0..k /\ j - 1 = k /\ ~(j <= k) /\ j # 0
        BY <3>3
      <4>2. g[k] = f[k] /\ g[j] = Open(f[k], total)
        BY <2>2, <2>3, <4>1
      <4> QED
        BY <4>1, <4>2
    <3> QED
      BY <3>1, <3>2, <3>3
  <2>5. g = [j \in 0..k + 1 |-> g[j]]
    BY <2>2
  <2>6. IsOpening(g, k + 1, start, total)
    BY <2>4, <2>5 DEF IsOpening
  <2> QED
    BY <2>6
<1> HIDE DEF T
<1>3. \A k \in Nat : k \in T
  BY <1>1, <1>2, NumberInduction
<1> QED
  BY <1>3 DEF T

\* All of them are opened.
LEMMA AllOpened ==
    ASSUME NEW F, Ranges(F), NEW l, NEW i \in Nat, NEW s, Begun(F, l, i, s), NEW total, total = Total(F, i),
           NEW n, n = Cardinality(Starting(s, i)), NEW f, IsOpening(f, n, s, total)
    PROVE  Begun(F, l, i, f[n]) /\ Starting(f[n], i) = {}
<1>1. IsFiniteSet(Starting(s, i))
  <2>1. s.ranges \subseteq F
    BY Zenon DEF Begun, Opening, Opened, Writer, Stacked
  <2> QED
    BY <2>1, FS_Subset DEF Ranges, Starting
<1>2. n \in Nat
  BY <1>1, FS_CardinalityType
<1>3. \A k \in 0..n : f[k] = IF k = 0 THEN s ELSE Open(f[k - 1], total)
  BY DEF IsOpening
<1> DEFINE Left(k) == /\ Begun(F, l, i, f[k]) /\ IsFiniteSet(Starting(f[k], i))
                      /\ Cardinality(Starting(f[k], i)) + k = n
           T == {k \in Nat : k <= n => Left(k)}
<1>4. 0 \in T
  BY <1>1, <1>2, <1>3
<1>5. ASSUME NEW k \in Nat, k \in T
      PROVE  k + 1 \in T
  <2>1. ASSUME k + 1 <= n
        PROVE  Left(k + 1)
    <3>1. Left(k)
      BY <1>2, <1>5, <2>1
    <3>2. PICK s1 : s1 = f[k]
      OBVIOUS
    <3>3. Begun(F, l, i, s1) /\ IsFiniteSet(Starting(s1, i)) /\ Cardinality(Starting(s1, i)) = n - k
      <4>1. Cardinality(Starting(s1, i)) \in Nat
        BY <3>1, <3>2, FS_CardinalityType
      <4> QED
        BY <1>2, <3>1, <3>2, <4>1
    <3>4. Starting(s1, i) # {}
      BY <1>2, <2>1, <3>3, FS_EmptySet
    <3>5. PICK s2 : s2 = f[k + 1]
      OBVIOUS
    <3>6. s2 = Open(s1, total)
      <4>1. PICK p \in 0..n : p = k + 1 /\ p - 1 = k /\ p # 0
        BY <1>2, <2>1
      <4> QED
        BY <1>3, <3>2, <3>5, <4>1
    <3>7. Begun(F, l, i, s2) /\ OneLess(s1, s2, i)
      BY <3>3, <3>4, <3>6, OpenIs
    <3>8. PICK r \in Starting(s1, i) : Starting(s2, i) = Starting(s1, i) \ {r}
      BY <3>7, Zenon DEF OneLess
    <3>9. IsFiniteSet(Starting(s2, i)) /\ Cardinality(Starting(s2, i)) = n - k - 1
      BY <3>3, <3>8, FS_RemoveElement
    <3> QED
      BY <1>2, <3>5, <3>7, <3>9
  <2> QED
    BY <2>1
<1> HIDE DEF T
<1>6. \A k \in Nat : k \in T
  BY <1>4, <1>5, NumberInduction
<1>7. Left(n)
  BY <1>2, <1>6 DEF T
<1>8. Cardinality(Starting(f[n], i)) = 0
  <2>1. Cardinality(Starting(f[n], i)) \in Nat
    BY <1>7, FS_CardinalityType
  <2> QED
    BY <1>2, <1>7, <2>1
<1> QED
  BY <1>7, <1>8, FS_EmptySet

\* all ranges that start at i are open, and the rest starts later
Prepared(F, l, i, s, takes, en, at, own) ==
    /\ Writer(F, s.stack, takes, s.ranges, i, s.targets) /\ s.ranges = {r \in F : i < r.first}
    /\ Coded(F, l, s.code, en, at, own, i, s.stack, takes) /\ ~Valued(s.code, Len(s.code) + 1)
\* fPrepareStack closes what has ended and opens what starts.
LEMMA PrepareIs ==
    ASSUME NEW F, NEW l, Waiting(F, l, index, stack, ranges, targets, code), NEW s, s = PrepareStack
    PROVE  \E takes, en, at, own : Prepared(F, l, index, s, takes, en, at, own)
<1> DEFINE open == Kept(stack)
           starting == {r \in ranges : r.first = index}
           total == Cardinality({r \in starting : r.type = "conditional"})
           ends == [k \in 1..Len(stack) - Len(open) |-> <<"end">>]
           initial == IF total = 0 THEN <<>> ELSE << <<"const", DefaultExit(total)>> >>
           start == Start(open, ends, initial)
           n == Cardinality(starting)
           Is(f) == IsOpening(f, n, start, total)
<1>1. Ranges(F) /\ index \in Nat /\ ranges = {r \in F : index <= r.first}
  BY Zenon DEF Waiting, Ready
<1>2. F \subseteq Spans /\ IsFiniteSet(F) /\ \A r \in F : r.first \in Nat
  BY <1>1, RangeIs DEF Ranges
<1>3. total = Total(F, index)
  <2>1. {r \in starting : r.type = "conditional"} = Conds(F, index)
    BY <1>1, <1>2 DEF Conds
  <2> QED
    BY <2>1 DEF Total
<1>4. s = (CHOOSE f : Is(f))[n]
  BY Zenon DEF PrepareStack, Start, IsOpening
<1>5. starting = Starting(start, index)
  BY DEF Start, Starting
<1>6. StartStep(F, open, total, ends, initial, start)
  BY <1>3, Zenon DEF StartStep
<1> HIDE DEF total, starting, open, ends, initial, start
<1>7. Begun(F, l, index, start)
  BY <1>6, StartIs
<1>8. n \in Nat
  <2>1. starting \subseteq F
    BY <1>1 DEF starting
  <2> QED
    BY <1>2, <2>1, FS_Subset, FS_CardinalityType
<1>9. PICK f : f = CHOOSE g : Is(g)
  OBVIOUS
<1>10. IsOpening(f, n, start, total)
  <2>1. \E g : Is(g)
    BY <1>8, OpeningExists
  <2> QED
    BY <1>9, <2>1
<1>11. Begun(F, l, index, f[n]) /\ Starting(f[n], index) = {}
  BY <1>1, <1>3, <1>5, <1>7, <1>10, AllOpened
<1>12. s = f[n]
  BY <1>4, <1>9
<1>13. PICK takes, en, at, own : Opened(F, l, index, s.stack, takes, s.ranges, s.targets, s.labels, s.loop, s.code, en, at, own)
  BY <1>11, <1>12, Zenon DEF Begun, Opening
<1>14. /\ Writer(F, s.stack, takes, s.ranges, index, s.targets) /\ Split(F, s.ranges, index)
       /\ Placing(F, index, s.stack, takes, s.ranges, s.labels, s.loop)
       /\ Coded(F, l, s.code, en, at, own, index, s.stack, takes)
       /\ Valued(s.code, Len(s.code) + 1) <=> Len(s.labels) < Total(F, index)
  BY <1>13, Zenon DEF Opened
<1>15. PICK rs : rs = s.ranges
  OBVIOUS
<1>16. rs \subseteq F /\ \A r \in rs : r.first # index
  BY <1>11, <1>12, <1>14, <1>15 DEF Starting, Writer, Stacked
<1>17. rs = {r \in F : index < r.first}
  BY <1>1, <1>2, <1>14, <1>15, <1>16 DEF Split
<1>18. ~(Len(s.labels) < Total(F, index))
  <2>1. {q \in Conds(F, index) : q \notin rs} = Conds(F, index)
    BY <1>16 DEF Conds
  <2>2. Len(s.labels) = Total(F, index)
    BY <1>14, <1>15, <2>1 DEF Placing, Total
  <2>3. Total(F, index) \in Nat
    BY <1>1, <1>2, CountsAre
  <2> QED
    BY <2>2, <2>3
<1> QED
  BY <1>14, <1>15, <1>17, <1>18, Zenon DEF Prepared

-----------------------------------------------------------------------------
(* From chunk to chunk. *)

\* no range starts or ends between index and last
Chunk(s, last) ==
    /\ last \in Nat /\ index <= last /\ last < Size
    /\ \A r \in s.ranges : last < r.first
    /\ Len(s.stack) > 0 => last <= s.stack[Len(s.stack)].last
\* A chunk ends before a range starts and where one ends at the latest.
LEMMA ChunkIs ==
    ASSUME index \in Nat, Size \in Nat, index < Size, ~At(index).invalid,
           NEW s, \A r \in s.ranges : r.first \in Nat /\ index < r.first, Len(s.stack) \in Nat,
           Len(s.stack) > 0 => s.stack[Len(s.stack)].last \in Nat /\ index <= s.stack[Len(s.stack)].last,
           NEW last, last = ChunkEnd(s)
    PROVE  Chunk(s, last)
<1> DEFINE bounds == {Size - 1} \cup {s.stack[k].last : k \in {Len(s.stack)} \ {0}} \cup {r.first - 1 : r \in s.ranges}
           end == CHOOSE b \in bounds : \A other \in bounds : b <= other
<1>1. last = IF Single THEN index ELSE IF end + 1 = Size /\ At(end).invalid THEN end - 1 ELSE end
  BY Zenon DEF ChunkEnd
<1>2. \A b \in bounds : b \in Nat /\ index <= b
  OBVIOUS
<1>3. Size - 1 \in bounds /\ (Len(s.stack) > 0 => s.stack[Len(s.stack)].last \in bounds)
      /\ \A r \in s.ranges : r.first - 1 \in bounds
  OBVIOUS
<1> HIDE DEF bounds
<1>4. end \in bounds /\ \A other \in bounds : end <= other
  <2>1. bounds \in SUBSET Nat /\ bounds # {}
    BY <1>2, <1>3
  <2> QED
    BY <2>1, LeastNumber
<1> HIDE DEF end
<1>5. PICK e \in Nat : e = end /\ index <= e
  BY <1>2, <1>4
<1>6. e <= Size - 1 /\ (Len(s.stack) > 0 => e <= s.stack[Len(s.stack)].last) /\ \A r \in s.ranges : e <= r.first - 1
  BY <1>3, <1>4, <1>5
<1>7. PICK x \in Nat : x = last /\ index <= x /\ x <= e
  <2>1. CASE Single
    BY <1>1, <1>5, <2>1
  <2>2. CASE ~Single /\ end + 1 = Size /\ At(end).invalid
    <3>1. last = e - 1 /\ e # index
      BY <1>1, <1>5, <2>2
    <3> QED
      BY <1>5, <3>1
  <2>3. CASE ~Single /\ ~(end + 1 = Size /\ At(end).invalid)
    BY <1>1, <1>5, <2>3
  <2> QED
    BY <2>1, <2>2, <2>3
<1>8. x < Size /\ \A r \in s.ranges : x < r.first
  BY <1>6, <1>7
<1>9. Len(s.stack) > 0 => x <= s.stack[Len(s.stack)].last
  BY <1>6, <1>7
<1> QED
  BY <1>7, <1>8, <1>9 DEF Chunk

\* The writer may go on as far as the innermost range reaches.
LEMMA Raised ==
    ASSUME NEW F, F \subseteq Spans, NEW st, NEW takes, NEW rs, NEW ts, NEW i \in Nat, Writer(F, st, takes, rs, i, ts),
           NEW k \in Nat, i <= k, Len(st) > 0 => k <= st[Len(st)].last
    PROVE  Writer(F, st, takes, rs, k, ts)
<1>1. Stacked(F, st, rs, i)
  BY DEF Writer
<1>2. PICK n \in Nat : n = Len(st) /\ st \in Seq(F)
  BY <1>1 DEF Stacked
<1>3. \A r \in F : r.last \in Nat
  BY RangeIs
<1>4. \A j \in 1..n : k <= st[j].last
  <2>1. ASSUME NEW j \in 1..n
        PROVE  k <= st[j].last
    <3>1. n \in 1..n /\ st[n] \in F /\ st[j] \in F /\ k <= st[n].last
      BY <1>2
    <3>2. j = n \/ st[n].last <= st[j].last
      BY <1>1, <1>2, <3>1 DEF Stacked, Inside
    <3> QED
      BY <1>3, <3>1, <3>2
  <2> QED
    BY <2>1
<1>5. \A r \in F : r \notin rs /\ k <= r.last => \E j \in 1..Len(st) : st[j] = r
  BY <1>1, <1>3 DEF Stacked
<1>6. Stacked(F, st, rs, k)
  BY <1>1, <1>2, <1>4, <1>5 DEF Stacked
<1> QED
  BY <1>6 DEF Writer

\* What is written of a chunk.
Produced(s, last) ==
    [k \in 1..last - index + 1 |->
        LET i == index + k - 1
        IN <<"inst", i, IF At(i).branches THEN Lookup(s.targets, At(i).target) ELSE NoTarget>>]
\* A chunk is written, its jumps aimed at what is open.
LEMMA ChunkKeeps ==
    ASSUME NEW F, Planned(F, list), Strand(list), Waiting(F, list, index, stack, ranges, targets, code), ~Over,
           NEW s, s = PrepareStack, NEW last, last = ChunkEnd(s),
           NEW st2, st2 = s.stack, NEW rs2, rs2 = s.ranges, NEW ts2, ts2 = s.targets, NEW c2, c2 = s.code \o Produced(s, last)
    PROVE  Waiting(F, list, last + 1, st2, rs2, ts2, c2) /\ last + 1 \in Nat /\ last + 1 <= Size
<1>1. PICK takes, en, at, own : Prepared(F, list, index, s, takes, en, at, own)
  BY PrepareIs
<1>2. PICK c : c = s.code
  OBVIOUS
<1>3. /\ Writer(F, st2, takes, rs2, index, ts2) /\ rs2 = {r \in F : index < r.first}
      /\ Coded(F, list, c, en, at, own, index, st2, takes) /\ ~Valued(c, Len(c) + 1)
  BY <1>1, <1>2, Zenon DEF Prepared
<1>4. Ranges(F) /\ index \in Nat
  BY Zenon DEF Waiting, Ready
<1>5. F \subseteq Spans /\ \A r \in F : r.first \in Nat /\ r.last \in Nat
  BY <1>4, RangeIs DEF Ranges
<1>6. Size \in Nat /\ Size = Len(list) /\ \A k \in 1..Len(list) : list[k] \in Entries /\ list[k].target \in Nat
  <2>1. list \in Seq(Entries)
    BY DEF Strand
  <2>2. \A e \in Entries : e.target \in Nat
    BY LengthAssumption DEF Entries, Addresses, Elsewhere
  <2>3. \A k \in 1..Len(list) : list[k] \in Entries
    BY <2>1
  <2> QED
    BY <2>1, <2>2, <2>3 DEF Size
<1>7. index < Size /\ ~At(index).invalid
  BY <1>4, <1>6 DEF Over
<1>8. st2 \in Seq(F) /\ (\A j \in 1..Len(st2) : index <= st2[j].last)
  BY <1>3 DEF Writer, Stacked
<1>9. Chunk(s, last)
  <2>1. \A r \in s.ranges : r.first \in Nat /\ index < r.first
    BY <1>3, <1>5
  <2>2. Len(s.stack) \in Nat /\
        (Len(s.stack) > 0 => s.stack[Len(s.stack)].last \in Nat /\ index <= s.stack[Len(s.stack)].last)
    BY <1>5, <1>8
  <2> QED
    BY <1>4, <1>6, <1>7, <2>1, <2>2, ChunkIs
<1>10. /\ last \in Nat /\ index <= last /\ last < Size
       /\ \A r \in rs2 : last < r.first
       /\ Len(st2) > 0 => last <= st2[Len(st2)].last
  BY <1>9, Zenon DEF Chunk
<1>11. PICK m \in Nat : m = last - index + 1 /\ index + m = last + 1
  <2>1. last - index + 1 \in Nat /\ index + (last - index + 1) = last + 1
    BY <1>4, <1>10
  <2> QED
    BY <2>1
<1>12. PICK via : via = [k \in 1..m |-> IF At(index + k - 1).branches THEN Lookup(s.targets, At(index + k - 1).target)
                                        ELSE NoTarget]
  OBVIOUS
<1>13. PICK tail : tail = [k \in 1..m |-> <<"inst", index + k - 1, via[k]>>]
  OBVIOUS
<1>14. InstsStep(index, m, via, c, tail, c2)
  <2>1. Produced(s, last) = tail
    BY <1>11, <1>12, <1>13 DEF Produced
  <2> QED
    BY <1>2, <1>13, <2>1 DEF InstsStep
<1>15. ASSUME NEW k \in 1..m, list[index + k].branches, list[index + k].target < Len(list)
       PROVE  Landing(F, c, en[Len(c)], own, via[k].target, via[k].conditional, via[k].index, list[index + k].target)
  <2>1. PICK p \in Nat : p = index + k - 1 /\ p + 1 = index + k /\ index <= p /\ p <= last
    <3>1. index + k - 1 \in Nat /\ (index + k - 1) + 1 = index + k /\ index <= index + k - 1 /\ index + k - 1 <= last
      BY <1>4, <1>10, <1>11
    <3> QED
      BY <3>1
  <2>2. At(p) = list[index + k] /\ p + 1 \in 1..Len(list) /\ p \in 0..Len(list) - 1
    BY <1>6, <1>10, <2>1 DEF At
  <2>3. PICK t \in Nat : t = list[index + k].target
    BY <1>6, <2>1, <2>2
  <2>4. Served({}, F, p, t)
    BY <1>15, <2>1, <2>2, <2>3 DEF Planned
  <2>5. \A r \in rs2 : p < r.first
    BY <1>3, <1>5, <1>10, <2>1
  <2>6. \E target \in Live(ts2) : target.address = t
    BY <1>3, <1>4, <1>5, <2>1, <2>4, <2>5, ServedAimed
  <2>7. PICK v : v = Lookup(ts2, t)
    OBVIOUS
  <2>8. via[k] = v
    BY <1>12, <1>15, <2>1, <2>2, <2>3, <2>7
  <2>9. Names(c, en[Len(c)], own, st2, takes)
    BY <1>3 DEF Coded
  <2>10. Landing(F, c, en[Len(c)], own, v.target, v.conditional, v.index, t)
    BY <1>3, <2>6, <2>7, <2>9, LookupLands
  <2> QED
    BY <2>3, <2>8, <2>10
<1>16. Standing(F, list, c2, index + m, st2, takes) /\ ~Valued(c2, Len(c2) + 1)
  <2>1. index + m <= Len(list) /\ Len(list) \in Nat
    BY <1>6, <1>10, <1>11
  <2> QED
    BY <1>3, <1>4, <1>14, <1>15, <2>1, InstsCoded
<1>17. PICK i \in Nat : i = last + 1 /\ i = index + m /\ i - 1 = last
  <2>1. last + 1 \in Nat /\ (last + 1) - 1 = last
    BY <1>10
  <2> QED
    BY <1>11, <2>1
<1>18. PICK en2, at2, own2 : Coded(F, list, c2, en2, at2, own2, i, st2, takes)
  <2>1. Standing(F, list, c2, i, st2, takes)
    BY <1>16, <1>17
  <2> QED
    BY <2>1, Zenon DEF Standing
<1>19. rs2 = {r \in F : i <= r.first}
  BY <1>3, <1>4, <1>5, <1>10, <1>17
<1>20. Writer(F, st2, takes, rs2, i - 1, ts2)
  <2>1. Writer(F, st2, takes, rs2, last, ts2)
    BY <1>3, <1>4, <1>5, <1>10, Raised
  <2> QED
    BY <1>17, <2>1
<1>21. Waiting(F, list, i, st2, rs2, ts2, c2)
  BY <1>4, <1>16, <1>18, <1>19, <1>20, Zenon DEF Waiting, Ready
<1> QED
  BY <1>6, <1>10, <1>17, <1>21

\* all but the last entry of a strand can be translated
Sound(l, more) == \A k \in 1..Len(l) : k < Len(l) \/ more => ~l[k].invalid
\* the code is complete
Complete(F, l, c, en, at, own) ==
    /\ IsFiniteSet(F) /\ F \subseteq Spans /\ Built(F, l, c, en, at, own)
    /\ Len(c) > 0 /\ c[Len(c)][1] = "stub" /\ en[Len(c)] = <<>>
Translated(F, l, c) == \E en, at, own : Complete(F, l, c, en, at, own)
\* What is open at the end of the strand ends there.
LEMMA FinalizeCompletes ==
    ASSUME NEW F, Planned(F, list), Strand(list), Sound(list, FALSE), index <= Size, Over,
           Waiting(F, list, index, stack, ranges, targets, code),
           NEW kind, NEW stub, stub = << <<"stub", index, kind>> >>,
           NEW ends, ends = [k \in 1..Len(stack) |-> <<"end">>], NEW c2, c2 = code \o ends \o stub
    PROVE  Translated(F, list, c2)
<1>1. PICK takes, en, at, own : Ready(F, list, index, stack, takes, ranges, targets, code, en, at, own)
  BY Zenon DEF Waiting
<1>2. /\ Ranges(F) /\ index \in Nat
      /\ Writer(F, stack, takes, ranges, index - 1, targets)
      /\ Coded(F, list, code, en, at, own, index, stack, takes) /\ ~Valued(code, Len(code) + 1)
  BY <1>1, Zenon DEF Ready
<1>3. F \subseteq Spans /\ IsFiniteSet(F) /\ \A r \in F : r.first \in Nat /\ r.last \in Nat /\ r.first <= r.last
  BY <1>2, RangeIs DEF Ranges
<1>4. stack \in Seq(F) /\ takes \in Seq(BOOLEAN) /\ Len(takes) = Len(stack)
      /\ \A j \in 1..Len(stack) : stack[j] \in F /\ index - 1 <= stack[j].last
  BY <1>2 DEF Writer, Stacked
<1>5. Size \in Nat /\ Size = Len(list)
  BY DEF Strand, Size
<1>6. Size <= index + 1
  <2>1. CASE index < Size
    <3>1. At(index).invalid
      BY <2>1 DEF Over
    <3>2. PICK k \in 1..Len(list) : k = index + 1
      BY <1>2, <1>5, <2>1
    <3>3. ~(k < Len(list))
      BY <3>1, <3>2 DEF Sound, At
    <3> QED
      BY <1>2, <1>5, <3>2, <3>3
  <2>2. CASE ~(index < Size)
    BY <1>2, <1>5, <2>2
  <2> QED
    BY <2>1, <2>2
<1>7. \A j \in 1..Len(stack) : j > 0 /\ stack[j].type # "backwards" => stack[j].last + 1 = index
  <2>1. ASSUME NEW j \in 1..Len(stack), stack[j].type # "backwards"
        PROVE  stack[j].last + 1 = index
    <3>1. PICK r \in F : r = stack[j] /\ index - 1 <= r.last /\ r.last \in Nat
      BY <1>3, <1>4
    <3>2. r.last + 1 < Size
      BY <1>5, <2>1, <3>1 DEF Planned, Within
    <3> QED
      BY <1>2, <1>5, <1>6, <3>1, <3>2
  <2> QED
    BY <2>1
<1>8. PICK c1, st2, takes2 : c1 = code \o ends /\ st2 = SubSeq(stack, 1, 0) /\ takes2 = SubSeq(takes, 1, 0)
  OBVIOUS
<1>9. Standing(F, list, c1, index, st2, takes2) /\ ~Valued(c1, Len(c1) + 1)
  <2>1. ends = [k \in 1..Len(stack) - 0 |-> <<"end">>] /\ 0 \in 0..Len(stack)
    BY <1>4
  <2>2. EndsStep(code, stack, takes, 0, ends, c1, st2, takes2)
    BY <1>8, <2>1, Zenon DEF EndsStep
  <2> QED
    BY <1>2, <1>3, <1>4, <1>7, <2>1, <2>2, EndsCoded
<1>10. PICK en1, at1, own1 : Coded(F, list, c1, en1, at1, own1, index, st2, takes2)
  BY <1>9, Zenon DEF Standing
<1>11. /\ Built(F, list, c1, en1, at1, own1) /\ IsSequence(c1) /\ at1[Len(c1) + 1] = index
       /\ Names(c1, en1[Len(c1)], own1, st2, takes2)
  BY <1>10, Zenon DEF Coded
<1>12. PICK n \in Nat : n = Len(c1)
  BY <1>11 DEF Built
<1>13. en1[n] = <<>>
  <2>1. PICK top : top = en1[n]
    OBVIOUS
  <2>2. top \in Seq(1..n)
    BY <1>11, <1>12, <2>1, BuiltOpen, n \in 0..n
  <2>3. Len(st2) = 0
    BY <1>4, <1>8
  <2>4. Len(top) = 0
    BY <1>11, <1>12, <2>1, <2>3 DEF Names
  <2> QED
    BY <2>1, <2>2, <2>4
<1>14. PICK op : op = <<"stub", index, kind>> /\ op[1] = "stub" /\ op[2] = index
  OBVIOUS
<1>15. stub = <<op>>
  BY <1>14
<1>16. IsSequence(stub) /\ Len(stub) = 1 /\ stub[1] = op
  BY <1>15, OneIs
<1>17. c2 = c1 \o stub
  BY <1>8
<1>18. IsSequence(c2) /\ Join(c1, stub, 1, c2)
  BY <1>11, <1>16, <1>17, JoinIs
<1>19. Len(c2) = n + 1 /\ c2[n + 1] = op
  <2>1. \A k \in 1..1 : c2[n + k] = stub[k]
    BY <1>12, <1>18 DEF Join
  <2>2. c2[n + 1] = stub[1]
    <3>1. 1 \in 1..1
      OBVIOUS
    <3> QED
      BY <2>1, <3>1, Zenon
  <2>3. Len(c2) = n + 1
    BY <1>12, <1>18, Zenon DEF Join
  <2> QED
    BY <1>16, <2>2, <2>3, Zenon
<1>20. PICK top : top = en1[n]
  OBVIOUS
<1>21. Written(F, list, c1, en1, at1, own1, c2, top, index, 0)
  <2>1. Follows(F, c1, own1, n, top, index, op, top, 0)
    BY <1>14, Zenon DEF Follows
  <2>2. ~Takes(op)
    BY <1>14 DEF Takes
  <2>3. at1[n + 1] = index /\ (Valued(c1, n + 1) <=> Takes(op))
    BY <1>9, <1>11, <1>12, <2>2
  <2> QED
    BY <1>2, <1>11, <1>12, <1>16, <1>18, <1>20, <2>1, <2>3, OneBuilt
<1>22. PICK en2, at2, own2 : Grown(F, list, c1, en1, at1, own1, c2, en2, at2, own2, top, index)
  BY <1>21, Zenon DEF Written
<1>23. Built(F, list, c2, en2, at2, own2) /\ en2[Len(c2)] = <<>>
  BY <1>13, <1>20, <1>22 DEF Grown
<1>24. Len(c2) > 0 /\ c2[Len(c2)][1] = "stub"
  BY <1>14, <1>19
<1>25. Complete(F, list, c2, en2, at2, own2)
  BY <1>3, <1>23, <1>24, Zenon DEF Complete
<1> QED
  BY <1>25, Zenon DEF Translated

-----------------------------------------------------------------------------
(* The theorems. *)

\* between chunks
Writes(F, l, rs, st, ts, i, c) == Planned(F, l) /\ i <= Len(l) /\ Waiting(F, l, i, st, rs, ts, c)
Holds(l, rs, st, ts, i, c, ph) ==
    /\ Strand(l) /\ Sound(l, ph = "push") /\ rs \subseteq Spans /\ Nested(rs)
    /\ ph \in {"push", "ranges"} => rs = {} /\ st = <<>> /\ ts = <<>> /\ i = 0 /\ c = <<>>
    /\ ph = "write" => \E F : Writes(F, l, rs, st, ts, i, c)
    /\ ph = "done" => \E F : Translated(F, l, c)
SuperInv == Holds(list, ranges, stack, targets, index, code, phase)

\* A strand grows while its last entry can be translated.
LEMMA PushHolds ==
    ASSUME NEW l, Strand(l), Sound(l, TRUE), Len(l) <= Length, NEW entry \in Entries, NEW l2, l2 = Append(l, entry),
           NEW more \in BOOLEAN, more = TRUE => ~entry.invalid
    PROVE  Strand(l2) /\ Sound(l2, more)
<1>1. PICK n \in Nat : n = Len(l) /\ l \in Seq(Entries)
  BY DEF Strand
<1>2. l2 \in Seq(Entries) /\ Len(l2) = n + 1 /\ (\A k \in 1..n : l2[k] = l[k]) /\ l2[n + 1] = entry
  BY <1>1
<1>3. Strand(l2)
  BY <1>1, <1>2, LengthAssumption DEF Strand
<1>4. ASSUME NEW k \in 1..n + 1, k < n + 1 \/ more
      PROVE  ~l2[k].invalid
  <2>1. CASE k = n + 1
    BY <1>2, <1>4, <2>1
  <2>2. CASE k # n + 1
    <3>1. k \in 1..n
      BY <2>2
    <3>2. ~l[k].invalid
      BY <1>1, <3>1 DEF Sound
    <3> QED
      BY <1>2, <3>1, <3>2
  <2> QED
    BY <2>1, <2>2
<1>5. Sound(l2, more)
  BY <1>2, <1>4 DEF Sound
<1> QED
  BY <1>3, <1>5

\* Nothing is open yet when the first chunk is written.
LEMMA SetupWaits ==
    ASSUME NEW l, NEW F, Planned(F, l), NEW none, none = <<>>
    PROVE  Waiting(F, l, 0, none, F, none, none)
<1>1. none \in Seq(F) /\ none \in Seq(BOOLEAN) /\ none \in Seq(Aimed)
  BY EmptySeq, Zenon
<1>2. Len(none) = 0 /\ DOMAIN none = 1..0 /\ \A k \in 1..0 : FALSE
  OBVIOUS
<1>3. Ranges(F) /\ \A r \in F : r.first \in Nat
  BY RangeIs DEF Planned, Ranges
<1>4. F = {r \in F : 0 <= r.first}
  BY <1>3
<1>5. Stacked(F, none, F, 0 - 1)
  BY <1>1, <1>2 DEF Stacked
<1>6. Live(none) = {}
  BY <1>2 DEF Live
<1>7. Writer(F, none, none, F, 0 - 1, none)
  BY <1>1, <1>2, <1>5, <1>6 DEF Writer, Reaches
<1>8. PICK en, at : en = [k \in 0..0 |-> <<>>] /\ at = [k \in 1..1 |-> 0]
  OBVIOUS
<1>9. en[0] = <<>> /\ at[1] = 0
  BY <1>8
<1>10. Built(F, l, none, en, at, none)
  BY <1>2, <1>9 DEF Built
<1>11. Names(none, en[0], none, none, none)
  BY <1>2, <1>9 DEF Names
<1>12. IsSequence(none) /\ ~Valued(none, Len(none) + 1)
  BY <1>1, <1>2 DEF IsSequence, Valued
<1>13. Coded(F, l, none, en, at, none, 0, none, none)
  BY <1>2, <1>9, <1>10, <1>11, <1>12 DEF Coded
<1>14. Ready(F, l, 0, none, none, F, none, none, en, at, none)
  BY <1>3, <1>4, <1>7, <1>12, <1>13 DEF Ready
<1> QED
  BY <1>14, Zenon DEF Waiting

\* The invariant holds in the beginning and after each step.
LEMMA SuperInductive == /\ Init => SuperInv
                        /\ SuperInv /\ [Next]_vars => SuperInv'
<1>1. Init => SuperInv
  <2> SUFFICES ASSUME Init
               PROVE  SuperInv
    OBVIOUS
  <2>1. list = <<>> /\ ranges = {} /\ stack = <<>> /\ targets = <<>> /\ index = 0 /\ code = <<>> /\ phase = "push"
    BY DEF Init
  <2>2. Strand(list)
    <3>1. list \in Seq(Entries)
      BY <2>1, EmptySeq, Zenon
    <3> QED
      BY <2>1, <3>1, LengthAssumption DEF Strand
  <2>3. Sound(list, phase = "push")
    BY <2>1 DEF Sound
  <2> QED
    BY <2>1, <2>2, <2>3 DEF SuperInv, Holds, Nested
<1>2. ASSUME SuperInv, [Next]_vars
      PROVE  SuperInv'
  <2>1. /\ Strand(list) /\ Sound(list, phase = "push") /\ ranges \subseteq Spans /\ Nested(ranges)
        /\ phase \in {"push", "ranges"} => ranges = {} /\ stack = <<>> /\ targets = <<>> /\ index = 0 /\ code = <<>>
        /\ phase = "write" => \E F : Writes(F, list, ranges, stack, targets, index, code)
        /\ phase = "done" => \E F : Translated(F, list, code)
    BY <1>2, Zenon DEF SuperInv, Holds
  <2>2. ASSUME phase = "push", NEW entry \in Entries, list' = Append(list, entry), Len(list) <= Length,
               phase' \in {"push", "ranges"}, phase' = "push" => ~entry.invalid,
               UNCHANGED <<ranges, stack, targets, index, code>>
        PROVE  SuperInv'
    <3>1. PICK more \in BOOLEAN : more = (phase' = "push")
      OBVIOUS
    <3>2. Sound(list, TRUE)
      BY <2>1, <2>2 DEF Sound
    <3>3. Strand(list') /\ Sound(list', more)
      BY <2>1, <2>2, <3>1, <3>2, PushHolds
    <3>4. Sound(list', phase' = "push")
      BY <3>1, <3>3
    <3> QED
      BY <2>1, <2>2, <3>3, <3>4 DEF SuperInv, Holds
  <2>3. CASE Push
    <3>1. PICK kind \in Kinds, target \in Addresses \cup {Elsewhere} :
            /\ list' = Append(list, Entry(kind, target)) /\ phase = "push" /\ Size < Length
            /\ phase' = IF Continues(Append(list, Entry(kind, target))) THEN "push" ELSE "ranges"
            /\ UNCHANGED <<ranges, stack, targets, index, code>>
      BY <2>3, Zenon DEF Push
    <3>2. PICK entry : entry = Entry(kind, target)
      OBVIOUS
    <3>3. entry \in Entries
      BY <3>2 DEF Entry, Entries
    <3>4. PICK entries : entries = Append(list, entry)
      OBVIOUS
    <3>5. list \in Seq(Entries) /\ Len(list) \in Nat
      BY <2>1 DEF Strand
    <3>6. entries[Len(entries)] = entry
      BY <3>3, <3>4, <3>5
    <3>7. Continues(entries) => ~entry.invalid
      BY <3>6, Zenon DEF Continues
    <3>8. Len(list) <= Length
      BY <3>1, <3>5, LengthAssumption DEF Size
    <3> QED
      BY <2>2, <3>1, <3>2, <3>3, <3>4, <3>7, <3>8
  <2>4. CASE PushLast
    <3>1. PICK kind \in {"endOfBlock", "invalid"} :
            /\ list' = Append(list, Entry(kind, Elsewhere)) /\ phase = "push" /\ Size = Length
            /\ phase' = "ranges" /\ UNCHANGED <<ranges, stack, targets, index, code>>
      BY <2>4, Zenon DEF PushLast
    <3>2. PICK entry : entry = Entry(kind, Elsewhere)
      OBVIOUS
    <3>3. entry \in Entries
      BY <3>2 DEF Entry, Entries, Kinds
    <3>4. Len(list) <= Length
      BY <3>1, LengthAssumption DEF Size
    <3> QED
      BY <2>2, <3>1, <3>2, <3>3, <3>4
  <2>5. CASE Setup
    <3>1. PICK F : F = Cleaned(Untangled(SetupRanges))
      OBVIOUS
    <3>2. Planned(F, list)
      BY <2>1, <3>1, SetupPlans
    <3>3. phase = "ranges" /\ ranges' = F /\ phase' = "write" /\ UNCHANGED <<list, stack, targets, index, code>>
      BY <2>5, <3>1, Zenon DEF Setup
    <3>4. Waiting(F, list, 0, stack, F, targets, code)
      BY <2>1, <3>2, <3>3, SetupWaits
    <3>5. index = 0 /\ 0 <= Len(list)
      BY <2>1, <3>3 DEF Strand
    <3>6. Writes(F, list', ranges', stack', targets', index', code')
      BY <3>2, <3>3, <3>4, <3>5 DEF Writes
    <3>7. F \subseteq Spans /\ Nested(F)
      BY <3>2 DEF Planned
    <3>8. Strand(list') /\ Sound(list', phase' = "push")
      BY <2>1, <3>3 DEF Sound
    <3> QED
      BY <3>3, <3>6, <3>7, <3>8 DEF SuperInv, Holds
  <2>6. CASE NextChunk
    <3>1. PICK s : s = PrepareStack
      OBVIOUS
    <3>2. PICK last : last = ChunkEnd(s)
      OBVIOUS
    <3>3. /\ phase = "write" /\ ~Over /\ stack' = s.stack /\ targets' = s.targets /\ ranges' = s.ranges
          /\ index' = last + 1 /\ code' = s.code \o Produced(s, last) /\ list' = list /\ phase' = phase
      BY <2>6, <3>1, <3>2, Zenon DEF NextChunk, Produced
    <3>4. PICK F : Planned(F, list) /\ Waiting(F, list, index, stack, ranges, targets, code)
      BY <2>1, <3>3, Zenon DEF Writes
    <3>5. PICK st2, rs2, ts2, c2 : st2 = s.stack /\ rs2 = s.ranges /\ ts2 = s.targets /\ c2 = s.code \o Produced(s, last)
      OBVIOUS
    <3>6. Waiting(F, list, last + 1, st2, rs2, ts2, c2) /\ last + 1 \in Nat /\ last + 1 <= Size
      BY <2>1, <3>1, <3>2, <3>3, <3>4, <3>5, ChunkKeeps
    <3>7. Writes(F, list', ranges', stack', targets', index', code')
      BY <3>3, <3>4, <3>5, <3>6 DEF Writes, Size
    <3>8. ranges' \subseteq F
      BY <3>3, <3>5, <3>6 DEF Waiting, Ready
    <3>9. ranges' \subseteq Spans /\ Nested(ranges')
      BY <3>4, <3>8 DEF Planned, Nested
    <3>10. Strand(list') /\ Sound(list', phase' = "push")
      BY <2>1, <3>3
    <3> QED
      BY <3>3, <3>7, <3>9, <3>10 DEF SuperInv, Holds
  <2>7. CASE Finalize
    <3>1. PICK kind : kind = IF index >= Size THEN "notReachable" ELSE At(index).kind
      OBVIOUS
    <3>2. PICK stub, ends, c2 : /\ stub = << <<"stub", index, kind>> >> /\ ends = [k \in 1..Len(stack) |-> <<"end">>]
                                /\ c2 = code \o ends \o stub
      OBVIOUS
    <3>3. phase = "write" /\ Over /\ code' = c2 /\ phase' = "done" /\ list' = list /\ ranges' = ranges
      BY <2>7, <3>1, <3>2, Zenon DEF Finalize
    <3>4. PICK F : /\ Planned(F, list) /\ index <= Len(list)
                   /\ Waiting(F, list, index, stack, ranges, targets, code)
      BY <2>1, <3>3, Zenon DEF Writes
    <3>5. Sound(list, FALSE)
      BY <2>1 DEF Sound
    <3>6. Translated(F, list, c2)
      BY <2>1, <3>2, <3>3, <3>4, <3>5, FinalizeCompletes DEF Size
    <3>7. Translated(F, list', code')
      BY <3>3, <3>6
    <3>8. Strand(list') /\ Sound(list', phase' = "push") /\ ranges' \subseteq Spans /\ Nested(ranges')
      BY <2>1, <3>3 DEF Sound
    <3> QED
      BY <3>3, <3>7, <3>8 DEF SuperInv, Holds
  <2>8. CASE Done \/ UNCHANGED vars
    <3>1. list' = list /\ ranges' = ranges /\ stack' = stack /\ targets' = targets /\ index' = index /\ code' = code
          /\ phase' = phase
      BY <2>8, Zenon DEF Done, vars
    <3> QED
      BY <1>2, <3>1 DEF SuperInv
  <2> QED
    BY <1>2, <2>3, <2>4, <2>5, <2>6, <2>7, <2>8 DEF Next
<1> QED
  BY <1>1, <1>2

\* The ranges that are left do not cross.
LEMMA RangesHold == SuperInv => RangesNest
<1> SUFFICES ASSUME SuperInv
             PROVE  RangesNest
  OBVIOUS
<1>1. Nested(ranges) /\ \A r \in ranges : r \in Spans /\ r.type # "none"
  BY RangeIs DEF SuperInv, Holds, Types
<1>2. ASSUME NEW r \in ranges, NEW other \in ranges, r.first < other.first
      PROVE  other.first > r.last \/ other.last <= r.last
  BY <1>1, <1>2, RangeIs DEF Nested, Fits, Inside, Apart
<1> QED
  BY <1>1, <1>2 DEF RangesNest

\* What holds of the code when it is complete.
LEMMA SuperHolds == SuperInv => JumpsLand /\ FallsThrough /\ RangesNest
<1> SUFFICES ASSUME SuperInv
             PROVE  JumpsLand /\ FallsThrough /\ RangesNest
  OBVIOUS
<1>1. CASE phase = "done"
  <2>1. PICK F, en, at, own : Complete(F, list, code, en, at, own)
    BY <1>1, Zenon DEF SuperInv, Holds, Translated
  <2>2. Finished(F, en, at, own)
    BY <2>1, Zenon DEF Complete, Finished
  <2> QED
    BY <2>2, CodeLeads, RangesHold
<1>2. CASE phase # "done"
  <2>1. JumpsLand /\ FallsThrough
    BY <1>2, Zenon DEF JumpsLand, FallsThrough
  <2> QED
    BY <2>1, RangesHold
<1> QED
  BY <1>1, <1>2

\* The ranges of a strand of any length, with any jumps among its instructions, do not cross each other
\* once they are resolved, and a cluster is always resolved by one of the known patterns (fConflictCluster).
THEOREM AllRangesNest == Spec => []RangesNest
<1>1. SuperInv => RangesNest
  BY SuperHolds
<1> QED
  BY <1>1, SuperInductive, PTL DEF Spec

\* A jump within a strand of any length leads to the instruction it names: fLookup finds a target for it, and
\* the branch it is made ends there, be it through the dispatch at the begin of a loop (gen::detail::SuperBlock).
THEOREM AllJumpsLand == Spec => []JumpsLand
<1>1. SuperInv => JumpsLand
  BY SuperHolds
<1> QED
  BY <1>1, SuperInductive, PTL DEF Spec

\* The code of a strand of any length opens and closes its constructs in pairs, starts at its first instruction
\* and goes from each to the one that follows it, or to the stub behind the last (fPrepareStack, finalize).
THEOREM AllFallThrough == Spec => []FallsThrough
<1>1. SuperInv => FallsThrough
  BY SuperHolds
<1> QED
  BY <1>1, SuperInductive, PTL DEF Spec
=============================================================================
