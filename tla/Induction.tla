------------------------------ MODULE Induction ------------------------------
(***************************************************************************)
(* Induction over numbers and over finite sets, and the folds that walk    *)
(* over a finite set, stated for sets instead of predicates: what is to be *)
(* shown is the set of the numbers, or of the sets, for which it holds.    *)
(***************************************************************************)
EXTENDS Integers, FiniteSets, FiniteSetTheorems, TLAPS

\* A nonempty set of finite sets has one that contains no other of them.
LEMMA SmallestSet ==
    ASSUME NEW S, NEW T \in SUBSET FiniteSubsetsOf(S), T # {}
    PROVE  \E m \in T : \A t \in T : ~(t \subseteq m /\ t # m)
<1> DEFINE R == StrictSubsetOrdering(S)
           F == FiniteSubsetsOf(S)
<1>1. IsWellFoundedOn(R, F)
  BY FS_StrictSubsetOrderingWellFounded
<1>2. T \subseteq F
  OBVIOUS
<1>3. \E m \in T : \A t \in T : ~(<<t, m>> \in R)
  <2> HIDE DEF R, F
  <2> QED
    BY <1>1, <1>2, WFMin
<1>4. \A t, m \in T : <<t, m>> \in R <=> (t \subseteq m /\ t # m)
  BY DEF StrictSubsetOrdering, FiniteSubsetsOf
<1> QED
  BY <1>3, <1>4

\* A nonempty set of numbers has a least one.
LEMMA LeastNumber ==
    ASSUME NEW T \in SUBSET Nat, T # {}
    PROVE  \E m \in T : \A k \in T : m <= k
<1> DEFINE U == {0 .. k : k \in T}
<1>1. ASSUME NEW t \in U
      PROVE  t \in SUBSET Nat /\ IsFiniteSet(t)
  <2>1. PICK k \in T : t = 0 .. k
    OBVIOUS
  <2>2. IsFiniteSet(0 .. k)
    BY FS_Interval
  <2> QED
    BY <2>1, <2>2
<1>2. U # {}
  OBVIOUS
<1>3. PICK s \in U : \A t \in U : ~(t \subseteq s /\ t # s)
  <2> HIDE DEF U
  <2>1. U \in SUBSET FiniteSubsetsOf(Nat)
    BY <1>1 DEF FiniteSubsetsOf
  <2> QED
    BY <2>1, <1>2, SmallestSet
<1>4. PICK m \in T : s = 0 .. m
  OBVIOUS
<1>5. ASSUME NEW k \in T
      PROVE  m <= k
  <2>1. ~((0 .. k) \subseteq (0 .. m) /\ (0 .. k) # (0 .. m))
    BY <1>3, <1>4
  <2> QED
    BY <2>1
<1> QED
  BY <1>5

\* A bounded one has a greatest one.
LEMMA GreatestNumber ==
    ASSUME NEW T \in SUBSET Nat, T # {}, NEW n \in Nat, \A k \in T : k <= n
    PROVE  \E m \in T : \A k \in T : k <= m
<1> DEFINE U == {n - k : k \in T}
<1>1. ASSUME NEW u \in U
      PROVE  u \in Nat
  <2>1. PICK k \in T : u = n - k
    OBVIOUS
  <2> QED
    BY <2>1
<1>2. PICK d \in U : \A e \in U : d <= e
  <2>1. PICK k \in T : TRUE
    OBVIOUS
  <2>2. n - k \in U
    OBVIOUS
  <2> HIDE DEF U
  <2>3. U \in SUBSET Nat
    BY <1>1
  <2> QED
    BY <2>2, <2>3, LeastNumber
<1>3. PICK m \in T : d = n - m
  OBVIOUS
<1>4. ASSUME NEW k \in T
      PROVE  k <= m
  BY <1>2, <1>3
<1> QED
  BY <1>4

\* Induction over numbers.
LEMMA NumberInduction ==
    ASSUME NEW S, 0 \in S, \A n \in Nat : n \in S => n + 1 \in S
    PROVE  \A n \in Nat : n \in S
<1> SUFFICES ASSUME NEW n \in Nat, n \notin S
             PROVE  FALSE
  OBVIOUS
<1> DEFINE T == {k \in Nat : k \notin S}
<1>1. PICK m \in T : \A k \in T : m <= k
  <2>1. T \in SUBSET Nat /\ T # {}
    OBVIOUS
  <2> HIDE DEF T
  <2> QED
    BY <2>1, LeastNumber
<1>2. m # 0 /\ m \in Nat
  OBVIOUS
<1>3. m - 1 \in Nat /\ m - 1 \notin T
  BY <1>1, <1>2
<1> QED
  BY <1>1, <1>2, <1>3

\* Induction over finite sets.
LEMMA SetInduction ==
    ASSUME NEW S, IsFiniteSet(S), NEW Q, {} \in Q,
           \A s \in SUBSET S : s # {} /\ (\A x \in s : s \ {x} \in Q) => s \in Q
    PROVE  \A s \in SUBSET S : s \in Q
<1> SUFFICES ASSUME NEW s \in SUBSET S, s \notin Q
             PROVE  FALSE
  OBVIOUS
<1> DEFINE T == {t \in SUBSET S : t \notin Q}
<1>1. PICK m \in T : \A t \in T : ~(t \subseteq m /\ t # m)
  <2>1. \A t \in T : t \in FiniteSubsetsOf(S)
    BY FS_Subset DEF FiniteSubsetsOf
  <2>2. T # {}
    OBVIOUS
  <2> HIDE DEF T
  <2>3. T \in SUBSET FiniteSubsetsOf(S)
    BY <2>1
  <2> QED
    BY <2>2, <2>3, SmallestSet
<1>2. ASSUME NEW x \in m
      PROVE  m \ {x} \in Q
  BY <1>1
<1>3. m # {}
  OBVIOUS
<1> QED
  BY <1>2, <1>3

-----------------------------------------------------------------------------
(* Folds over a finite set: FoldSet of the community modules takes one     *)
(* element after another, and is the value at S of a function on the       *)
(* subsets of S.                                                           *)

Picked(s) == CHOOSE x \in s : TRUE

IsFold(g, S, base, Op) ==
    g = [s \in SUBSET S |-> IF s = {} THEN base ELSE Op[<<Picked(s), g[s \ {Picked(s)}]>>]]

\* Two such functions agree where both are defined.
LEMMA FoldUnique ==
    ASSUME NEW S, IsFiniteSet(S), NEW base, NEW Op, NEW r \in SUBSET S, NEW t \in SUBSET S,
           NEW g, NEW h, IsFold(g, r, base, Op), IsFold(h, t, base, Op)
    PROVE  \A s \in SUBSET (r \intersect t) : g[s] = h[s]
<1> DEFINE B == r \intersect t
           Q == {s \in SUBSET B : g[s] = h[s]}
<1>1. IsFiniteSet(B)
  BY FS_Subset
<1>2. {} \in Q
  BY DEF IsFold
<1>3. ASSUME NEW s \in SUBSET B, s # {}, \A x \in s : s \ {x} \in Q
      PROVE  s \in Q
  <2>1. Picked(s) \in s
    BY <1>3 DEF Picked
  <2>2. g[s \ {Picked(s)}] = h[s \ {Picked(s)}]
    BY <1>3, <2>1
  <2>3. g[s] = Op[<<Picked(s), g[s \ {Picked(s)}]>>] /\ h[s] = Op[<<Picked(s), h[s \ {Picked(s)}]>>]
    BY <1>3 DEF IsFold
  <2> QED
    BY <2>2, <2>3
<1>4. \A s \in SUBSET B : s \in Q
  <2> HIDE DEF B, Q
  <2> QED
    BY <1>1, <1>2, <1>3, SetInduction
<1> QED
  BY <1>4

\* A fold over a finite set has a value at every stage: there is a function from its subsets to them.
LEMMA FoldExists ==
    ASSUME NEW S, IsFiniteSet(S), NEW base, NEW Op
    PROVE  \E g : IsFold(g, S, base, Op)
<1> DEFINE Q == {s \in SUBSET S : \E g : IsFold(g, s, base, Op)}
           On(s) == CHOOSE g : IsFold(g, s, base, Op)
<1>1. {} \in Q
  <2> DEFINE g == [s \in SUBSET {} |-> base]
  <2>1. IsFold(g, {}, base, Op)
    BY DEF IsFold
  <2> QED
    BY <2>1
<1>2. ASSUME NEW s \in SUBSET S, s # {}, \A x \in s : s \ {x} \in Q
      PROVE  s \in Q
  <2> DEFINE Below(t) == s \ {CHOOSE x \in s : x \notin t}
             At(t) == On(Below(t))[t]
             g == [t \in SUBSET s |-> IF t = s THEN Op[<<Picked(s), At(s \ {Picked(s)})>>] ELSE At(t)]
  <2>1. ASSUME NEW t \in SUBSET s, t # s
        PROVE  /\ IsFold(On(Below(t)), Below(t), base, Op)
               /\ Below(t) \in SUBSET s /\ t \in SUBSET Below(t)
    <3>1. \E x \in s : x \notin t
      BY <2>1
    <3>2. Below(t) \in Q /\ Below(t) \in SUBSET s /\ t \in SUBSET Below(t)
      BY <1>2, <3>1
    <3> QED
      BY <3>2
  <2>2. ASSUME NEW t \in SUBSET s, t # s, t # {}
        PROVE  At(t) = Op[<<Picked(t), At(t \ {Picked(t)})>>]
    <3> DEFINE r == t \ {Picked(t)}
    <3>1. Picked(t) \in t /\ r \in SUBSET s /\ r # s /\ r \in SUBSET t
      BY <2>2 DEF Picked
    <3>2. /\ IsFold(On(Below(t)), Below(t), base, Op) /\ t \in SUBSET Below(t)
          /\ IsFold(On(Below(r)), Below(r), base, Op) /\ r \in SUBSET Below(r)
          /\ Below(t) \in SUBSET S /\ Below(r) \in SUBSET S
      BY <2>1, <2>2, <3>1
    <3>3. r \in SUBSET (Below(t) \intersect Below(r))
      BY <3>1, <3>2
    <3>4. At(t) = Op[<<Picked(t), On(Below(t))[r]>>]
      BY <2>2, <3>2 DEF IsFold
    <3>5. On(Below(t))[r] = On(Below(r))[r]
      <4> HIDE DEF On, Below, r
      <4> QED
        BY <3>2, <3>3, FoldUnique
    <3> QED
      BY <3>4, <3>5
  <2>3. s # {} => At({}) = base
    <3>1. IsFold(On(Below({})), Below({}), base, Op)
      BY <2>1, <1>2
    <3> QED
      BY <3>1 DEF IsFold
  <2>4. Picked(s) \in s /\ s \ {Picked(s)} \in SUBSET s /\ s \ {Picked(s)} # s
    BY <1>2 DEF Picked
  <2>5. ASSUME NEW t \in SUBSET s
        PROVE  g[t] = IF t = {} THEN base ELSE Op[<<Picked(t), g[t \ {Picked(t)}]>>]
    <3>1. CASE t = {}
      BY <1>2, <2>3, <3>1
    <3>2. CASE t = s
      BY <1>2, <2>4, <3>2
    <3>3. CASE t # {} /\ t # s
      <4>1. Picked(t) \in t
        BY <3>3 DEF Picked
      <4>2. t \ {Picked(t)} \in SUBSET s /\ t \ {Picked(t)} # s
        BY <3>3, <4>1
      <4> HIDE DEF At
      <4> QED
        BY <2>2, <3>3, <4>2
    <3> QED
      BY <3>1, <3>2, <3>3
  <2>6. IsFold(g, s, base, Op)
    <3>1. g = [t \in SUBSET s |-> g[t]]
      OBVIOUS
    <3> HIDE DEF g
    <3> QED
      BY <2>5, <3>1 DEF IsFold
  <2> HIDE DEF g
  <2> QED
    BY <2>6
<1>3. \A s \in SUBSET S : s \in Q
  <2> HIDE DEF Q
  <2> QED
    BY <1>1, <1>2, SetInduction
<1> QED
  BY <1>3

\* What holds of the base, and is kept by every element taken, holds of the whole fold.
LEMMA FoldStays ==
    ASSUME NEW S, IsFiniteSet(S), NEW base, NEW Op, NEW W, base \in W[{}],
           \A s \in SUBSET S : \A x \in s : \A v \in W[s \ {x}] : Op[<<x, v>>] \in W[s],
           NEW g, IsFold(g, S, base, Op)
    PROVE  \A s \in SUBSET S : g[s] \in W[s]
<1> DEFINE Q == {s \in SUBSET S : g[s] \in W[s]}
<1>1. {} \in Q
  BY DEF IsFold
<1>2. ASSUME NEW s \in SUBSET S, s # {}, \A x \in s : s \ {x} \in Q
      PROVE  s \in Q
  <2>1. Picked(s) \in s
    BY <1>2 DEF Picked
  <2>2. g[s] = Op[<<Picked(s), g[s \ {Picked(s)}]>>]
    BY <1>2 DEF IsFold
  <2> QED
    BY <1>2, <2>1, <2>2
<1>3. \A s \in SUBSET S : s \in Q
  <2> HIDE DEF Q
  <2> QED
    BY <1>1, <1>2, SetInduction
<1> QED
  BY <1>3

\* The same for a function on the subsets that is not known to come from such steps.
LEMMA FoldHolds ==
    ASSUME NEW S, IsFiniteSet(S), NEW h, NEW W, h[{}] \in W[{}],
           \A s \in SUBSET S : s # {} /\ h[s \ {Picked(s)}] \in W[s \ {Picked(s)}] => h[s] \in W[s]
    PROVE  \A s \in SUBSET S : h[s] \in W[s]
<1> DEFINE Q == {s \in SUBSET S : h[s] \in W[s]}
<1>1. {} \in Q
  OBVIOUS
<1>2. ASSUME NEW s \in SUBSET S, s # {}, \A x \in s : s \ {x} \in Q
      PROVE  s \in Q
  <2>1. Picked(s) \in s
    BY <1>2 DEF Picked
  <2> QED
    BY <1>2, <2>1
<1>3. \A s \in SUBSET S : s \in Q
  <2> HIDE DEF Q
  <2> QED
    BY <1>1, <1>2, SetInduction
<1> QED
  BY <1>3

-----------------------------------------------------------------------------
(* Walks that go from state to state until they end. *)

\* the walks a state of which is answered or leads on to an answered one
Answers(D, E, O, going, X) ==
    \A w \in D : /\ E[w] # going => <<w, E[w]>> \in X
                 /\ \A v : E[w] = going /\ <<O[w], v>> \in X => <<w, v>> \in X
IsRun(run, D, E, O, going) ==
    run = [w \in D |-> IF E[w] # going THEN E[w] ELSE run[O[w]]]

\* A walk that ends where E says so, and goes on by O until then, has an answer: the one it ends with, and
\* some one if it never ends.
LEMMA RunExists ==
    ASSUME NEW D, NEW E, NEW O, NEW going, \A w \in D : E[w] = going => O[w] \in D
    PROVE  \E run : IsRun(run, D, E, O, going)
<1> DEFINE V == {E[w] : w \in D}
           R == {p \in D \X V : \A X \in SUBSET (D \X V) : Answers(D, E, O, going, X) => p \in X}
           Values(w) == {v \in V : <<w, v>> \in R}
           Pick(S) == CHOOSE v : v \in S
           run == [w \in D |-> Pick(Values(w))]
<1>1. \A p : p \in R <=> /\ p \in D \X V
                         /\ \A X \in SUBSET (D \X V) : Answers(D, E, O, going, X) => p \in X
  OBVIOUS
<1>2. \A w \in D : \A v : <<w, v>> \in D \X V <=> v \in V
  OBVIOUS
<1>3. \A w \in D : E[w] \in V
  OBVIOUS
<1>4. R \in SUBSET (D \X V)
  OBVIOUS
<1> HIDE DEF R, V
<1>5. ASSUME NEW w \in D
      PROVE  /\ E[w] # going => <<w, E[w]>> \in R
             /\ \A v : E[w] = going /\ <<O[w], v>> \in R => <<w, v>> \in R
  <2>1. ASSUME E[w] # going
        PROVE  <<w, E[w]>> \in R
    BY <1>1, <1>2, <1>3, <2>1 DEF Answers
  <2>2. ASSUME NEW v, E[w] = going, <<O[w], v>> \in R
        PROVE  <<w, v>> \in R
    <3>1. O[w] \in D
      BY <2>2
    <3>2. v \in V
      BY <1>1, <1>2, <2>2, <3>1
    <3>3. ASSUME NEW X \in SUBSET (D \X V), Answers(D, E, O, going, X)
          PROVE  <<w, v>> \in X
      <4>1. <<O[w], v>> \in X
        BY <1>1, <2>2, <3>3
      <4> QED
        BY <2>2, <3>3, <4>1 DEF Answers
    <3> QED
      BY <1>1, <1>2, <3>2, <3>3
  <2> QED
    BY <2>1, <2>2
<1>6. ASSUME NEW w \in D, NEW v, <<w, v>> \in R
      PROVE  /\ E[w] # going => v = E[w]
             /\ E[w] = going => <<O[w], v>> \in R
  <2>1. PICK p : p = <<w, v>>
    OBVIOUS
  <2>2. PICK X : X = R \ {p}
    OBVIOUS
  <2>3. X \in SUBSET (D \X V) /\ p \notin X
    BY <1>4, <2>2
  <2>4. ~Answers(D, E, O, going, X)
    BY <1>1, <1>6, <2>1, <2>3
  <2>5. PICK u \in D : \/ E[u] # going /\ <<u, E[u]>> \notin X
                       \/ \E y : E[u] = going /\ <<O[u], y>> \in X /\ <<u, y>> \notin X
    BY <2>4 DEF Answers
  <2>6. CASE E[u] # going /\ <<u, E[u]>> \notin X
    <3>1. <<u, E[u]>> = p
      BY <1>5, <2>2, <2>6
    <3> QED
      BY <2>1, <2>6, <3>1
  <2>7. CASE \E y : E[u] = going /\ <<O[u], y>> \in X /\ <<u, y>> \notin X
    <3>1. PICK y : E[u] = going /\ <<O[u], y>> \in X /\ <<u, y>> \notin X
      BY <2>7
    <3>2. <<O[u], y>> \in R
      BY <2>2, <3>1
    <3>3. <<u, y>> = p
      BY <1>5, <2>2, <3>1, <3>2
    <3> QED
      BY <2>1, <3>1, <3>2, <3>3
  <2> QED
    BY <2>5, <2>6, <2>7
<1>7. ASSUME NEW w \in D
      PROVE  run[w] = IF E[w] # going THEN E[w] ELSE run[O[w]]
  <2>1. CASE E[w] # going
    <3>1. Values(w) = {E[w]}
      <4>1. E[w] \in V /\ <<w, E[w]>> \in R
        BY <1>3, <1>5, <2>1
      <4>2. \A v : <<w, v>> \in R => v = E[w]
        BY <1>6, <2>1
      <4> QED
        BY <4>1, <4>2
    <3> QED
      BY <2>1, <3>1
  <2>2. CASE E[w] = going
    <3>1. Values(w) = Values(O[w])
      BY <1>5, <1>6, <2>2
    <3>2. run[w] = Pick(Values(w)) /\ run[O[w]] = Pick(Values(O[w]))
      <4> HIDE DEF Pick, Values
      <4> QED
        BY <2>2
    <3> HIDE DEF Pick, Values, run
    <3> QED
      BY <2>2, <3>1, <3>2
  <2> QED
    BY <2>1, <2>2
<1>8. run = [w \in D |-> run[w]]
  <2> HIDE DEF Pick, Values
  <2> QED
    OBVIOUS
<1>9. PICK r : r = run
  OBVIOUS
<1> HIDE DEF run
<1>10. r = [w \in D |-> r[w]] /\ \A w \in D : r[w] = IF E[w] # going THEN E[w] ELSE r[O[w]]
  BY <1>7, <1>8, <1>9
<1>11. r = [w \in D |-> IF E[w] # going THEN E[w] ELSE r[O[w]]]
  BY <1>10
<1> QED
  BY <1>11 DEF IsRun

\* No set contains everything.
LEMMA SomethingElse ==
    ASSUME NEW S
    PROVE  \E x : x \notin S
<1>1. PICK R : R = {x \in S : x \notin x}
  OBVIOUS
<1> QED
  BY <1>1
=============================================================================
