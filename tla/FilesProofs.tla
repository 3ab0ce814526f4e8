----------------------------- MODULE FilesProofs -----------------------------
(***************************************************************************)
(* The descriptors and instances of Files: a walk through the tree ends at *)
(* a node of the tree, whatever links it follows; so every open instance   *)
(* has a node, and the counters agree with the table of descriptors.       *)
(***************************************************************************)
EXTENDS Files, Induction, SequenceTheorems, FiniteSetTheorems

-----------------------------------------------------------------------------
(* Recursion. *)

Stays(n, Q, Op) == \A i \in 1..n : \A q \in Q : Op[<<i, q>>] \in Q
Follows(f, n, Q, base, Op) ==
    f \in [0..n -> Q] /\ f[0] = base /\ \A i \in 1..n : f[i] = Op[<<i, f[i - 1]>>]

\* What the value for each number makes of the one for the number before can be followed up to any number.
LEMMA RecursionExists ==
    ASSUME NEW n \in Nat, NEW Q, NEW base \in Q, NEW Op, Stays(n, Q, Op)
    PROVE  \E f : Follows(f, n, Q, base, Op)
<1> USE DEF Stays, Follows
<1> DEFINE Right(f, k) == f \in [0..k -> Q] /\ f[0] = base /\ \A i \in 1..k : f[i] = Op[<<i, f[i - 1]>>]
           S == {k \in Nat : k <= n => \E f : Right(f, k)}
<1>1. 0 \in S
  <2>1. Right([i \in 0..0 |-> base], 0)
    OBVIOUS
  <2> QED
    BY <2>1
<1>2. ASSUME NEW k \in Nat, k \in S
      PROVE  k + 1 \in S
  <2> SUFFICES ASSUME k + 1 <= n
               PROVE  \E f : Right(f, k + 1)
    OBVIOUS
  <2>1. PICK f : Right(f, k)
    BY <1>2
  <2>2. PICK last : last = Op[<<k + 1, f[k]>>]
    OBVIOUS
  <2>3. last \in Q
    BY <2>1, <2>2
  <2>4. PICK g : g = [i \in 0..k + 1 |-> IF i = k + 1 THEN last ELSE f[i]]
    OBVIOUS
  <2>5. g \in [0..k + 1 -> Q] /\ g[0] = base
    BY <2>1, <2>3, <2>4
  <2>6. ASSUME NEW i \in 1..k + 1
        PROVE  g[i] = Op[<<i, g[i - 1]>>]
    <3>1. i \in 0..k + 1 /\ i - 1 \in 0..k + 1 /\ i - 1 # k + 1
      OBVIOUS
    <3>2. CASE i = k + 1
      <4>1. i - 1 = k /\ k \in 0..k + 1 /\ k # k + 1
        BY <3>2
      <4> QED
        BY <2>2, <2>4, <3>1, <3>2, <4>1
    <3>3. CASE i # k + 1
      <4>1. i \in 1..k
        BY <3>3
      <4>2. g[i] = f[i] /\ g[i - 1] = f[i - 1]
        BY <2>4, <3>1, <3>3
      <4> QED
        BY <2>1, <4>1, <4>2
    <3> QED
      BY <3>2, <3>3
  <2> QED
    BY <2>5, <2>6
<1>3. \A k \in Nat : k \in S
  <2> HIDE DEF S
  <2> QED
    BY <1>1, <1>2, NumberInduction
<1> QED
  BY <1>3

-----------------------------------------------------------------------------
(* Paths. *)

Cleaned(names, before, i) ==
    IF i < Len(names) /\ names[i] \in {"", "."} THEN before ELSE Append(before, names[i])

\* A sequence stays one of the same elements when another is appended.
LEMMA Appended ==
    ASSUME NEW S, NEW s \in Seq(S), NEW x \in S
    PROVE  Append(s, x) \in Seq(S)
OBVIOUS

\* A cleaned path has names, as its path does.
LEMMA CleanNames ==
    ASSUME NEW names \in Seq(STRING)
    PROVE  Clean(names) \in Seq(STRING)
<1> DEFINE n == Len(names)
           Q == Seq(STRING)
           Op == [p \in (1..n) \X Q |-> Cleaned(names, p[2], p[1])]
           Step(f, i) == IF i = 0 THEN <<>> ELSE Cleaned(names, f[i - 1], i)
           cleaned == CHOOSE f : f = [i \in 0..Len(names) |-> Step(f, i)]
<1>1. n \in Nat /\ <<>> \in Q /\ \A i \in 1..n : names[i] \in STRING
  OBVIOUS
<1>2. \A i \in 1..n : \A q \in Q : Cleaned(names, q, i) \in Q
  <2>1. ASSUME NEW i \in 1..n, NEW q \in Q
        PROVE  Cleaned(names, q, i) \in Q
    <3>1. PICK name \in STRING : name = names[i]
      BY <1>1
    <3>2. Append(q, name) \in Q
      BY Appended
    <3> QED
      BY <3>1, <3>2, Zenon DEF Cleaned
  <2> QED
    BY <2>1
<1>3. Clean(names) = cleaned[Len(names)]
  BY DEF Clean, Cleaned
<1> HIDE DEF Q, n
<1>4. \A i \in 1..n : \A q \in Q : Op[<<i, q>>] = Cleaned(names, q, i)
  OBVIOUS
<1>5. \A i \in 1..n : \A q \in Q : Op[<<i, q>>] \in Q
  BY <1>2, <1>4
<1>6. PICK f : /\ f \in [0..n -> Q] /\ f[0] = <<>>
               /\ \A i \in 1..n : f[i] = Op[<<i, f[i - 1]>>]
  <2>1. PICK base : base = <<>>
    OBVIOUS
  <2>2. PICK op : op = Op
    OBVIOUS
  <2> HIDE DEF Op
  <2>3. PICK m \in Nat : m = n
    BY <1>1
  <2>4. PICK P : P = Q
    OBVIOUS
  <2>5. base \in P /\ Stays(m, P, op)
    BY <1>1, <1>5, <2>1, <2>2, <2>3, <2>4 DEF Stays
  <2>6. \E f : Follows(f, m, P, base, op)
    BY <2>5, RecursionExists
  <2> QED
    BY <2>1, <2>2, <2>3, <2>4, <2>6 DEF Follows
<1>7. \A i \in 0..n : i # 0 => i \in 1..n /\ i - 1 \in 0..n
  BY <1>1
<1>8. \A i \in 0..n : f[i] = Step(f, i)
  BY <1>4, <1>6, <1>7
<1>9. f = [i \in 0..n |-> Step(f, i)]
  <2> HIDE DEF Step
  <2> QED
    BY <1>6, <1>8
<1>10. cleaned = [i \in 0..n |-> Step(cleaned, i)]
  <2> HIDE DEF Step
  <2> QED
    BY <1>9 DEF n
<1> HIDE DEF cleaned
<1>11. PICK c : c = cleaned
  OBVIOUS
<1> DEFINE T == {i \in Nat : i <= n => c[i] \in Q}
<1>12. 0 \in T
  BY <1>1, <1>10, <1>11
<1>13. ASSUME NEW i \in Nat, i \in T
       PROVE  i + 1 \in T
  <2>1. i + 1 <= n => i + 1 \in 1..n /\ i + 1 \in 0..n /\ (i + 1) - 1 = i
    BY <1>1
  <2>2. i + 1 <= n => c[i + 1] = Cleaned(names, c[i], i + 1)
    <3> SUFFICES ASSUME i + 1 <= n
                 PROVE  c[i + 1] = Cleaned(names, c[i], i + 1)
      OBVIOUS
    <3>1. PICK j \in 0..n : j = i + 1 /\ j # 0 /\ j - 1 = i
      BY <2>1
    <3>2. c[j] = Step(c, j)
      <4> HIDE DEF Step
      <4> QED
        BY <1>10, <1>11
    <3> QED
      BY <3>1, <3>2
  <2> QED
    BY <1>1, <1>2, <1>13, <2>1, <2>2
<1>14. \A i \in Nat : i \in T
  <2> HIDE DEF T
  <2> QED
    BY <1>12, <1>13, NumberInduction
<1> QED
  BY <1>1, <1>3, <1>11, <1>14 DEF n, Q

-----------------------------------------------------------------------------
(* The walk. *)

\* nodes that no step of a walk leaves
Closed(t, N) ==
    /\ N \subseteq DOMAIN t.kind /\ Root \in N
    /\ \A n \in N : t.ancestor[n] \in N /\ t.link[n].names \in Seq(STRING)
    /\ \A n \in N, name \in STRING : Lookup(t, n, name) \in N \cup {NoNode}
Walks(t) == [node : DOMAIN t.kind, names : Seq(STRING), links : Nat]
Stop(t, ids, follow, findExisting) == [w \in Walks(t) |-> End(t, ids, w, follow, findExisting)]
Proceed(t, follow) == [w \in Walks(t) |-> Onward(t, w, follow)]

\* The name that is looked up next, and the names behind it.
LEMMA NextName ==
    ASSUME NEW w, w.names \in Seq(STRING)
    PROVE  /\ NameOf(w) \in STRING /\ RestOf(w) \in Seq(STRING)
           /\ NameOf(w) # "" => Len(RestOf(w)) < Len(w.names)
<1>1. CASE w.names = <<>>
  <2>1. NameOf(w) = "" /\ RestOf(w) = <<>>
    BY <1>1 DEF NameOf, RestOf
  <2>2. RestOf(w) \in Seq(STRING)
    BY <2>1, EmptySeq
  <2>3. NameOf(w) \in STRING
    BY <2>1, LiteralAssumption
  <2> QED
    BY <2>1, <2>2, <2>3
<1>2. CASE w.names # <<>>
  <2>1. NameOf(w) = Head(w.names) /\ RestOf(w) = Tail(w.names)
    BY <1>2 DEF NameOf, RestOf
  <2>2. PICK names \in Seq(STRING) : names = w.names
    OBVIOUS
  <2>3. Head(names) \in STRING /\ Tail(names) \in Seq(STRING) /\ Len(Tail(names)) = Len(names) - 1
    BY <1>2, <2>2, HeadTailProperties
  <2>4. Len(names) \in Nat
    BY LenProperties
  <2>5. NameOf(w) \in STRING /\ RestOf(w) \in Seq(STRING)
    BY <2>1, <2>2, <2>3
  <2>6. Len(RestOf(w)) < Len(w.names)
    BY <2>1, <2>2, <2>3, <2>4
  <2> QED
    BY <2>5, <2>6
<1> QED
  BY <1>1, <1>2

\* Two elements make a sequence.
LEMMA PairOf ==
    ASSUME NEW S, NEW x \in S, NEW y \in S
    PROVE  <<x, y>> \in Seq(S)
OBVIOUS

\* The path a link is replaced by.
LEMMA LinkNames ==
    ASSUME NEW link, link.names \in Seq(STRING), NEW name \in STRING, NEW rest \in Seq(STRING)
    PROVE  LinkPath(link, name, rest).names \in Seq(STRING)
<1>1. PICK names : names = link.names \o <<name, "">> \o rest
  OBVIOUS
<1>2. names \in Seq(STRING)
  <2>1. PICK middle : middle = <<name, "">>
    OBVIOUS
  <2>2. middle \in Seq(STRING)
    BY <2>1, LiteralAssumption, PairOf
  <2>3. PICK front : front = link.names \o middle
    OBVIOUS
  <2>4. front \in Seq(STRING)
    BY <2>2, <2>3, ConcatProperties
  <2> QED
    BY <1>1, <2>1, <2>3, <2>4, ConcatProperties
<1>3. LinkPath(link, name, rest).names = Clean(names)
  BY <1>1 DEF LinkPath
<1> QED
  BY <1>2, <1>3, CleanNames

\* A step of a walk stays among the nodes, and either follows one more link or has fewer names to go.
LEMMA OnwardStays ==
    ASSUME NEW t, NEW N, Closed(t, N), NEW ids, NEW follow, NEW findExisting,
           NEW w \in Walks(t), w.node \in N, End(t, ids, w, follow, findExisting) = Going
    PROVE  /\ Onward(t, w, follow) \in Walks(t) /\ Onward(t, w, follow).node \in N
           /\ \/ /\ Onward(t, w, follow).links = w.links + 1
                 /\ w.links + 1 < MaxFollow
              \/ /\ Onward(t, w, follow).links = w.links
                 /\ Len(Onward(t, w, follow).names) < Len(w.names)
<1>1. /\ w.node \in DOMAIN t.kind /\ w.names \in Seq(STRING) /\ w.links \in Nat
      /\ w = [node |-> w.node, names |-> w.names, links |-> w.links]
  BY DEF Walks
<1>2. /\ NameOf(w) \in STRING /\ RestOf(w) \in Seq(STRING)
      /\ NameOf(w) # "" => Len(RestOf(w)) < Len(w.names)
  BY <1>1, NextName
<1>3. PICK o : o = Onward(t, w, follow)
  OBVIOUS
<1>4. CASE NameOf(w) = "."
  <2>1. PICK e : e = [w EXCEPT !.names = RestOf(w)]
    OBVIOUS
  <2>2. e = [node |-> w.node, names |-> RestOf(w), links |-> w.links]
    BY <1>1, <2>1
  <2>3. o = e
    BY <1>3, <1>4, <2>1 DEF Onward, AtLink
  <2>4. o \in Walks(t)
    BY <1>1, <1>2, <2>2, <2>3 DEF Walks
  <2> QED
    BY <1>2, <1>3, <1>4, <2>2, <2>3, <2>4
<1>5. CASE NameOf(w) = ".."
  <2>1. o = [w EXCEPT !.node = t.ancestor[w.node], !.names = RestOf(w)]
    BY <1>3, <1>5 DEF Onward, AtLink
  <2>2. o = [node |-> t.ancestor[w.node], names |-> RestOf(w), links |-> w.links]
    BY <1>1, <2>1
  <2>3. t.ancestor[w.node] \in N /\ N \subseteq DOMAIN t.kind
    BY DEF Closed
  <2>4. o \in Walks(t)
    BY <1>1, <1>2, <2>2, <2>3 DEF Walks
  <2> QED
    BY <1>2, <1>3, <1>5, <2>2, <2>3, <2>4
<1>6. CASE NameOf(w) \notin {".", ".."} /\ AtLink(t, w, follow)
  <2>1. PICK to : to = LinkPath(t.link[w.node], NameOf(w), RestOf(w))
    OBVIOUS
  <2>2. PICK node : node = IF to.abs THEN Root ELSE w.node
    OBVIOUS
  <2>3. o = [node |-> node, names |-> to.names, links |-> w.links + 1]
    BY <1>3, <1>6, <2>1, <2>2 DEF Onward
  <2>4. node \in N /\ N \subseteq DOMAIN t.kind
    BY <2>2 DEF Closed
  <2>5. to.names \in Seq(STRING)
    <3>1. t.link[w.node].names \in Seq(STRING)
      BY DEF Closed
    <3> QED
      BY <1>2, <2>1, <3>1, LinkNames
  <2>6. EndLink(t, ids, w) = Going
    BY <1>6 DEF End
  <2>7. ~(w.links + 1 >= MaxFollow)
    BY <2>6 DEF EndLink, Going, Answer
  <2>8. w.links + 1 < MaxFollow
    BY <1>1, <2>7, NodesAssumption
  <2>9. o \in Walks(t)
    BY <1>1, <2>3, <2>4, <2>5 DEF Walks
  <2> QED
    BY <1>3, <2>3, <2>4, <2>8, <2>9
<1>7. CASE NameOf(w) \notin {".", ".."} /\ ~AtLink(t, w, follow)
  <2>1. NameOf(w) # ""
    BY <1>7 DEF End, Going, Answer
  <2>2. EndDirectory(t, ids, w, findExisting) = Going
    BY <1>7, <2>1 DEF End
  <2>3. PICK node : node = Lookup(t, w.node, NameOf(w))
    OBVIOUS
  <2>4. node # NoNode
    BY <2>2, <2>3 DEF EndDirectory, Going, Answer
  <2>5. node \in N /\ N \subseteq DOMAIN t.kind
    BY <1>2, <2>3, <2>4 DEF Closed
  <2>6. o = [w EXCEPT !.node = node, !.names = RestOf(w)]
    BY <1>3, <1>7, <2>3 DEF Onward
  <2>7. o = [node |-> node, names |-> RestOf(w), links |-> w.links]
    BY <1>1, <2>6
  <2>8. o \in Walks(t)
    BY <1>1, <1>2, <2>5, <2>7 DEF Walks
  <2>9. Len(RestOf(w)) < Len(w.names)
    BY <1>2, <2>1
  <2>10. o.node = node /\ o.names = RestOf(w) /\ o.links = w.links
    BY <2>7
  <2> QED
    BY <1>3, <2>5, <2>8, <2>9, <2>10
<1> QED
  BY <1>4, <1>5, <1>6, <1>7

\* fResolveNode ends at a node it can get to, or fails.
LEMMA ResolveStays ==
    ASSUME NEW t, Closed(t, DOMAIN t.kind), NEW N, Closed(t, N),
           NEW ids, NEW start \in N, NEW path \in Seq(STRING), NEW follow, NEW findExisting,
           NEW a, a = Resolve(t, ids, start, path, follow, findExisting), a.err = "ok"
    PROVE  a.node \in N
<1> DEFINE D == Walks(t)
           E == Stop(t, ids, follow, findExisting)
           O == Proceed(t, follow)
           Eq(run) == run = [w \in [node : DOMAIN t.kind, names : Seq(STRING), links : Nat] |->
                                LET end == End(t, ids, w, follow, findExisting)
                                IN IF end # Going THEN end ELSE run[Onward(t, w, follow)]]
           chosen == CHOOSE run : Eq(run)
<1>1. PICK w0 : w0 = [node |-> start, names |-> path, links |-> 0]
  OBVIOUS
<1>2. a = chosen[w0]
  BY <1>1 DEF Resolve
<1>3. w0 \in D /\ w0.node \in N
  BY <1>1 DEF Walks, Closed
<1>4. \A w \in D : E[w] = End(t, ids, w, follow, findExisting) /\ O[w] = Onward(t, w, follow)
  BY DEF Stop, Proceed
<1>5. ASSUME NEW run
      PROVE  Eq(run) <=> IsRun(run, D, E, O, Going)
  <2>1. [w \in D |-> IF E[w] # Going THEN E[w] ELSE run[O[w]]]
          = [w \in [node : DOMAIN t.kind, names : Seq(STRING), links : Nat] |->
                LET end == End(t, ids, w, follow, findExisting)
                IN IF end # Going THEN end ELSE run[Onward(t, w, follow)]]
    BY <1>4 DEF Walks
  <2> QED
    BY <2>1 DEF IsRun
<1> HIDE DEF E, O, D, Eq
<1>6. \A w \in D : E[w] = Going => O[w] \in D
  <2> SUFFICES ASSUME NEW w \in D, E[w] = Going
               PROVE  O[w] \in D
    OBVIOUS
  <2>1. w \in Walks(t) /\ w.node \in DOMAIN t.kind
    BY DEF D, Walks
  <2>2. PICK M : M = DOMAIN t.kind
    OBVIOUS
  <2>3. Closed(t, M) /\ w.node \in M /\ End(t, ids, w, follow, findExisting) = Going
    BY <1>4, <2>1, <2>2
  <2>4. Onward(t, w, follow) \in Walks(t)
    BY <2>1, <2>3, OnwardStays
  <2> QED
    BY <1>4, <2>4 DEF D
<1>7. \E run : Eq(run)
  <2>1. PICK d, e, o : d = D /\ e = E /\ o = O
    OBVIOUS
  <2>2. \A w \in d : e[w] = Going => o[w] \in d
    BY <1>6, <2>1
  <2>3. PICK run : IsRun(run, d, e, o, Going)
    BY <2>2, RunExists
  <2> QED
    BY <1>5, <2>1, <2>3
<1>8. PICK run : run = chosen
  OBVIOUS
<1>9. Eq(run)
  BY <1>7, <1>8
<1> HIDE DEF chosen
<1>10. \A w \in D : run[w] = IF E[w] # Going THEN E[w] ELSE run[O[w]]
  BY <1>5, <1>9 DEF IsRun
<1> DEFINE Good(w) == w.node \in N /\ run[w].err = "ok" => run[w].node \in N
<1>11. ASSUME NEW w \in D, w.node \in N, E[w] # Going, E[w].err = "ok"
       PROVE  E[w].node \in N
  <2>1. E[w] = End(t, ids, w, follow, findExisting)
    BY <1>4
  <2>2. E[w].node = w.node
    <3>1. EndLink(t, ids, w).err # "ok"
      BY DEF EndLink, Going, Answer
    <3>2. EndDirectory(t, ids, w, findExisting).err = "ok" => EndDirectory(t, ids, w, findExisting).node = w.node
      BY DEF EndDirectory, Going, Answer
    <3> HIDE DEF E
    <3>3. CASE NameOf(w) \in {".", ".."}
      <4>1. E[w] = Going
        BY <2>1, <3>3 DEF End, AtLink
      <4> QED
        BY <1>11, <4>1
    <3>4. CASE AtLink(t, w, follow)
      <4>1. E[w] = EndLink(t, ids, w)
        BY <2>1, <3>4 DEF End, AtLink
      <4> QED
        BY <1>11, <3>1, <4>1
    <3>5. CASE NameOf(w) \notin {".", ".."} /\ ~AtLink(t, w, follow) /\ NameOf(w) = ""
      <4>1. E[w] = Answer("ok", w.node, TRUE)
        BY <2>1, <3>5 DEF End
      <4> QED
        BY <4>1 DEF Answer
    <3>6. CASE NameOf(w) \notin {".", ".."} /\ ~AtLink(t, w, follow) /\ NameOf(w) # ""
      <4>1. E[w] = EndDirectory(t, ids, w, findExisting)
        BY <2>1, <3>6 DEF End
      <4> QED
        BY <1>11, <3>2, <4>1
    <3> QED
      BY <3>3, <3>4, <3>5, <3>6
  <2> QED
    BY <1>11, <2>2
<1>12. ASSUME NEW l \in Nat, l + 1 < MaxFollow => \A w \in D : w.links = l + 1 => Good(w)
       PROVE  \A w \in D : w.links = l => Good(w)
  <2> DEFINE S == {n \in Nat : \A w \in D : w.links = l /\ Len(w.names) < n => Good(w)}
  <2>1. \A w \in D : Len(w.names) \in Nat /\ w.names \in Seq(STRING) /\ w.links \in Nat
    BY DEF D, Walks
  <2>2. 0 \in S
    BY <2>1
  <2>3. ASSUME NEW n \in Nat, n \in S
        PROVE  n + 1 \in S
    <3> SUFFICES ASSUME NEW w \in D, w.links = l, Len(w.names) < n + 1, w.node \in N
                 PROVE  run[w].err = "ok" => run[w].node \in N
      OBVIOUS
    <3>1. CASE E[w] # Going
      BY <1>10, <1>11, <3>1
    <3>2. CASE E[w] = Going
      <4>1. PICK o : o = O[w]
        OBVIOUS
      <4>2. w \in Walks(t) /\ End(t, ids, w, follow, findExisting) = Going /\ o = Onward(t, w, follow)
        BY <1>4, <3>2, <4>1 DEF D
      <4>3. /\ o \in Walks(t) /\ o.node \in N
            /\ \/ o.links = w.links + 1 /\ w.links + 1 < MaxFollow
               \/ o.links = w.links /\ Len(o.names) < Len(w.names)
        BY <4>2, OnwardStays
      <4>4. o \in D
        BY <4>3 DEF D
      <4>5. Good(o)
        <5>1. CASE o.links = l + 1 /\ l + 1 < MaxFollow
          BY <1>12, <4>4, <5>1
        <5>2. CASE o.links = l /\ Len(o.names) < Len(w.names)
          <6>1. Len(o.names) < n
            BY <2>1, <4>4, <5>2
          <6> QED
            BY <2>3, <4>4, <5>2, <6>1
        <5> QED
          BY <4>3, <5>1, <5>2
      <4>6. run[w] = run[o]
        BY <1>10, <3>2, <4>1
      <4> QED
        BY <4>3, <4>5, <4>6
    <3> QED
      BY <3>1, <3>2
  <2>4. \A n \in Nat : n \in S
    <3> HIDE DEF S
    <3> QED
      BY <2>2, <2>3, NumberInduction
  <2> SUFFICES ASSUME NEW w \in D, w.links = l
               PROVE  Good(w)
    OBVIOUS
  <2>5. PICK n \in Nat : n = Len(w.names) + 1
    BY <2>1
  <2>6. Len(w.names) < n
    BY <2>1, <2>5
  <2> HIDE DEF Good
  <2> QED
    BY <2>4, <2>6
<1> HIDE DEF Good
<1> DEFINE L == {k \in Nat : \A l \in Nat : l + k >= MaxFollow => \A w \in D : w.links = l => Good(w)}
<1>13. 0 \in L
  <2> SUFFICES ASSUME NEW l \in Nat, l + 0 >= MaxFollow
               PROVE  \A w \in D : w.links = l => Good(w)
    OBVIOUS
  <2>1. ~(l + 1 < MaxFollow)
    BY NodesAssumption
  <2> QED
    BY <1>12, <2>1
<1>14. ASSUME NEW k \in Nat, k \in L
       PROVE  k + 1 \in L
  <2> SUFFICES ASSUME NEW l \in Nat, l + (k + 1) >= MaxFollow
               PROVE  \A w \in D : w.links = l => Good(w)
    OBVIOUS
  <2>1. (l + 1) + k >= MaxFollow /\ l + 1 \in Nat
    BY NodesAssumption
  <2>2. \A w \in D : w.links = l + 1 => Good(w)
    BY <1>14, <2>1
  <2> QED
    BY <1>12, <2>2
<1>15. \A k \in Nat : k \in L
  <2> HIDE DEF L
  <2> QED
    BY <1>13, <1>14, NumberInduction
<1>16. Good(w0)
  <2>1. w0.links = 0 /\ 0 + MaxFollow >= MaxFollow /\ MaxFollow \in Nat
    BY <1>1, NodesAssumption
  <2>2. MaxFollow \in L
    BY <1>15, <2>1
  <2>3. \A w \in D : w.links = 0 => Good(w)
    BY <2>1, <2>2
  <2> QED
    BY <1>3, <2>1, <2>3
<1> QED
  BY <1>2, <1>3, <1>8, <1>16 DEF Good

-----------------------------------------------------------------------------
(* The tree. *)

\* every node is below the root
Rooted(D, root, up) ==
    /\ root \in D /\ \A n \in D : up[n] \in D
    /\ \A S \in SUBSET D : root \in S /\ (\A n \in D : up[n] \in S => n \in S) => S = D
Descends(D, root, up, Q, base, Op, X) ==
    /\ <<root, base>> \in X
    /\ \A n \in D : n # root => \A v : <<up[n], v>> \in X => <<n, Op[<<n, v>>]>> \in X
Climbs(f, D, root, up, Q, base, Op) ==
    f \in [D -> Q] /\ f[root] = base /\ \A n \in D : n # root => f[n] = Op[<<n, f[up[n]]>>]
Closes(D, Q, Op) == \A n \in D : \A q \in Q : Op[<<n, q>>] \in Q

\* What the value for each node makes of the one for the node above can be followed down from the root.
LEMMA ClimbExists ==
    ASSUME NEW D, NEW root, NEW up, Rooted(D, root, up), NEW Q, NEW base \in Q, NEW Op, Closes(D, Q, Op)
    PROVE  \E f : Climbs(f, D, root, up, Q, base, Op)
<1> DEFINE R == {p \in D \X Q : \A X \in SUBSET (D \X Q) : Descends(D, root, up, Q, base, Op, X) => p \in X}
<1>1. \A p : p \in R <=> /\ p \in D \X Q
                         /\ \A X \in SUBSET (D \X Q) : Descends(D, root, up, Q, base, Op, X) => p \in X
  OBVIOUS
<1>2. R \in SUBSET (D \X Q)
  OBVIOUS
<1> HIDE DEF R
<1>3. root \in D /\ \A n \in D : up[n] \in D
  BY DEF Rooted
<1>4. \A n \in D : \A q \in Q : Op[<<n, q>>] \in Q
  BY DEF Closes
<1>5. <<root, base>> \in R
  BY <1>1, <1>3 DEF Descends
<1>6. ASSUME NEW n \in D, n # root, NEW v, <<up[n], v>> \in R
      PROVE  <<n, Op[<<n, v>>]>> \in R
  <2>1. v \in Q
    BY <1>2, <1>6
  <2>2. ASSUME NEW X \in SUBSET (D \X Q), Descends(D, root, up, Q, base, Op, X)
        PROVE  <<n, Op[<<n, v>>]>> \in X
    <3>1. <<up[n], v>> \in X
      BY <1>1, <1>6, <2>2
    <3> QED
      BY <1>6, <2>2, <3>1 DEF Descends
  <2>3. <<n, Op[<<n, v>>]>> \in D \X Q
    BY <1>4, <2>1
  <2> QED
    BY <1>1, <2>2, <2>3
<1>7. ASSUME NEW n \in D, NEW v, <<n, v>> \in R
      PROVE  /\ n = root => v = base
             /\ n # root => \E u : <<up[n], u>> \in R /\ v = Op[<<n, u>>]
  <2> SUFFICES ASSUME ~(/\ n = root => v = base
                        /\ n # root => \E u : <<up[n], u>> \in R /\ v = Op[<<n, u>>])
               PROVE  FALSE
    OBVIOUS
  <2>1. PICK p : p = <<n, v>>
    OBVIOUS
  <2>2. PICK X : X = R \ {p}
    OBVIOUS
  <2>3. X \in SUBSET (D \X Q) /\ p \notin X
    BY <1>2, <2>2
  <2>4. ~Descends(D, root, up, Q, base, Op, X)
    BY <1>1, <1>7, <2>1, <2>3
  <2>5. <<root, base>> \in X
    BY <1>5, <2>1, <2>2
  <2>6. PICK m \in D : m # root /\ \E u : <<up[m], u>> \in X /\ <<m, Op[<<m, u>>]>> \notin X
    BY <2>4, <2>5 DEF Descends
  <2>7. PICK u : <<up[m], u>> \in X /\ <<m, Op[<<m, u>>]>> \notin X
    BY <2>6
  <2>8. <<up[m], u>> \in R
    BY <2>2, <2>7
  <2>9. <<m, Op[<<m, u>>]>> = p
    BY <1>6, <2>2, <2>6, <2>7, <2>8
  <2> QED
    BY <2>1, <2>6, <2>8, <2>9
<1> DEFINE S == {n \in D : \E v : <<n, v>> \in R /\ \A w : <<n, w>> \in R => w = v}
<1>8. root \in S
  <2>1. \A w : <<root, w>> \in R => w = base
    BY <1>3, <1>7
  <2> QED
    BY <1>3, <1>5, <2>1
<1>9. ASSUME NEW n \in D, up[n] \in S
      PROVE  n \in S
  <2>1. CASE n = root
    BY <1>8, <2>1
  <2>2. CASE n # root
    <3>1. PICK v : <<up[n], v>> \in R /\ \A w : <<up[n], w>> \in R => w = v
      BY <1>9
    <3>2. PICK x : x = Op[<<n, v>>]
      OBVIOUS
    <3>3. <<n, x>> \in R
      BY <1>6, <2>2, <3>1, <3>2
    <3>4. \A w : <<n, w>> \in R => w = x
      BY <1>7, <2>2, <3>1, <3>2
    <3> QED
      BY <3>3, <3>4
  <2> QED
    BY <2>1, <2>2
<1>10. S = D
  <2>1. S \in SUBSET D
    OBVIOUS
  <2> HIDE DEF S
  <2> QED
    BY <1>8, <1>9, <2>1 DEF Rooted
<1> DEFINE Val(n) == CHOOSE v : <<n, v>> \in R
<1>11. \A n \in D : <<n, Val(n)>> \in R /\ \A w : <<n, w>> \in R => w = Val(n)
  BY <1>10
<1> HIDE DEF Val, S
<1>12. PICK f : f = [n \in D |-> Val(n)]
  OBVIOUS
<1>13. \A n \in D : Val(n) \in Q
  BY <1>2, <1>11
<1>14. f \in [D -> Q]
  BY <1>12, <1>13
<1>15. f[root] = base
  BY <1>3, <1>5, <1>11, <1>12
<1>16. ASSUME NEW n \in D, n # root
       PROVE  f[n] = Op[<<n, f[up[n]]>>]
  <2>1. up[n] \in D /\ <<up[n], Val(up[n])>> \in R
    BY <1>3, <1>11
  <2>2. <<n, Op[<<n, Val(up[n])>>]>> \in R
    BY <1>6, <1>16, <2>1
  <2>3. Op[<<n, Val(up[n])>>] = Val(n)
    BY <1>11, <2>2
  <2> QED
    BY <1>12, <2>1, <2>3
<1> QED
  BY <1>14, <1>15, <1>16 DEF Climbs

\* The path of a node is made of names.
LEMMA BuildPathNames ==
    ASSUME NEW node \in DOMAIN Tree.kind
    PROVE  BuildPath(node) \in Seq(STRING)
<1> DEFINE D == DOMAIN Tree.kind
           Q == Seq(STRING)
           up == Tree.ancestor
           Eq(f) == f = [n \in DOMAIN Tree.kind |->
                            IF n = Root THEN <<>> ELSE Append(f[Tree.ancestor[n]], NameIn(n))]
           chosen == CHOOSE f : Eq(f)
           Op == [p \in D \X Q |-> IF p[1] = Root THEN <<>> ELSE Append(p[2], NameIn(p[1]))]
<1>1. BuildPath(node) = chosen[node]
  BY DEF BuildPath
<1>2. Rooted(D, Root, up)
  BY TreeAssumption DEF Rooted
<1>3. ASSUME NEW n \in D, n # Root
      PROVE  NameIn(n) \in STRING
  <2> DEFINE under == {e \in DOMAIN Tree.mounted : Tree.mounted[e] = n}
                          \cup {e \in DOMAIN Tree.entries : Tree.entries[e] = n}
  <2>1. under # {}
    BY <1>3, TreeAssumption
  <2>2. \A e \in under : e[2] \in STRING
    BY TreeAssumption
  <2>3. NameIn(n) = (CHOOSE e \in under : TRUE)[2]
    BY DEF NameIn
  <2> HIDE DEF under
  <2> QED
    BY <2>1, <2>2, <2>3
<1>4. <<>> \in Q
  BY EmptySeq
<1>5. ASSUME NEW n \in D, NEW q \in Q
      PROVE  /\ Op[<<n, q>>] = IF n = Root THEN <<>> ELSE Append(q, NameIn(n))
             /\ Op[<<n, q>>] \in Q
  <2>1. Op[<<n, q>>] = IF n = Root THEN <<>> ELSE Append(q, NameIn(n))
    OBVIOUS
  <2>2. n # Root => Append(q, NameIn(n)) \in Q
    BY <1>3, Appended
  <2> QED
    BY <1>4, <2>1, <2>2
<1> HIDE DEF Op, Q
<1>6. PICK f : Climbs(f, D, Root, up, Q, <<>>, Op)
  <2>1. PICK d, u, q, base, op : d = D /\ u = up /\ q = Q /\ base = <<>> /\ op = Op
    OBVIOUS
  <2>2. Rooted(d, Root, u) /\ base \in q /\ Closes(d, q, op)
    BY <1>2, <1>4, <1>5, <2>1 DEF Closes
  <2>3. \E f : Climbs(f, d, Root, u, q, base, op)
    BY <2>2, ClimbExists
  <2> QED
    BY <2>1, <2>3
<1>7. f \in [D -> Q] /\ \A n \in D : f[n] = IF n = Root THEN <<>> ELSE Append(f[Tree.ancestor[n]], NameIn(n))
  BY <1>2, <1>5, <1>6 DEF Climbs, Rooted
<1>8. Eq(f)
  BY <1>7
<1>9. Eq(chosen)
  <2> HIDE DEF Eq
  <2> QED
    BY <1>8
<1>10. PICK c : c = chosen
  OBVIOUS
<1> HIDE DEF chosen
<1>11. \A n \in D : c[n] = IF n = Root THEN <<>> ELSE Append(c[Tree.ancestor[n]], NameIn(n))
  BY <1>9, <1>10
<1> DEFINE S == {n \in D : c[n] \in Q}
<1>12. Root \in S
  BY <1>2, <1>4, <1>11 DEF Rooted
<1>13. ASSUME NEW n \in D, Tree.ancestor[n] \in S
       PROVE  n \in S
  <2>1. n # Root => Append(c[Tree.ancestor[n]], NameIn(n)) \in Q
    BY <1>3, <1>13, Appended DEF Q
  <2> QED
    BY <1>4, <1>11, <2>1
<1>14. S = D
  <2>1. S \in SUBSET D
    OBVIOUS
  <2> HIDE DEF S
  <2> QED
    BY <1>2, <1>12, <1>13, <2>1 DEF Rooted
<1> QED
  BY <1>1, <1>10, <1>14 DEF Q

-----------------------------------------------------------------------------
(* Descriptors and instances. *)

EntryRecords == [instance : Nat, used : BOOLEAN, cloexec : BOOLEAN]
Names == STRING \cup {".", ".."}
There(d) == {n \in DOMAIN Tree.kind : n \in DOMAIN FirstData => d[n] # Absent}
InstanceRecords(d) ==
    [node : There(d) \cup {NoNode}, user : Nat, offset : Int, config : Config, cache : Seq(Names),
     outdated : BOOLEAN]
Kept(d) ==
    /\ d \in [DOMAIN FirstData -> Seq(Nat) \cup {Absent}]
    /\ \A n \in DOMAIN FirstData : FirstData[n] # Absent => d[n] # Absent
Typed(po, pi, d, w) ==
    /\ po \in Seq(EntryRecords) /\ \A i \in 1..Len(po) : po[i].instance < Len(pi)
    /\ pi \in Seq(InstanceRecords(d)) /\ Kept(d) /\ w \in Seq(STRING)

InUse(po) == {f \in 1..Len(po) : po[f].used}
Users(po, i) == {f \in 1..Len(po) : po[f].used /\ po[f].instance = i - 1}
Counted(po, pi, n) ==
    /\ n = Cardinality(InUse(po)) /\ Len(po) <= MaxFd
    /\ \A i \in 1..Len(pi) : /\ pi[i].user = Cardinality(Users(po, i))
                             /\ pi[i].node = NoNode <=> Users(po, i) = {}
Sound(po, pi, n, d, w) == Typed(po, pi, d, w) /\ Counted(po, pi, n)
FilesInv == Sound(pOpen, pInstance, pOpened, data, wd)

\* A function on the first numbers is a sequence.
LEMMA FunctionIsSeq ==
    ASSUME NEW S, NEW n \in Nat, NEW f \in [1..n -> S]
    PROVE  f \in Seq(S) /\ Len(f) = n /\ DOMAIN f = 1..n
<1>1. f \in Seq(S)
  BY SeqDef
<1>2. Len(f) \in Nat /\ DOMAIN f = 1..Len(f)
  BY <1>1, LenProperties
<1> QED
  BY <1>1, <1>2

\* Sets of descriptors are finite, and no larger than the table.
LEMMA TableFinite ==
    ASSUME NEW po \in Seq(EntryRecords)
    PROVE  /\ IsFiniteSet(InUse(po)) /\ Cardinality(InUse(po)) \in Nat
           /\ Cardinality(InUse(po)) <= Len(po)
           /\ \A i : /\ IsFiniteSet(Users(po, i)) /\ Cardinality(Users(po, i)) \in Nat
                     /\ Cardinality(Users(po, i)) <= Cardinality(InUse(po))
           /\ (\A f \in 1..Len(po) : po[f].used) => Cardinality(InUse(po)) = Len(po)
<1>1. Len(po) \in Nat
  BY LenProperties
<1>2. IsFiniteSet(1..Len(po)) /\ Cardinality(1..Len(po)) = Len(po)
  BY <1>1, FS_Interval
<1>3. InUse(po) \in SUBSET (1..Len(po))
  BY DEF InUse
<1>4. IsFiniteSet(InUse(po)) /\ Cardinality(InUse(po)) <= Len(po)
  BY <1>2, <1>3, FS_Subset
<1>5. Cardinality(InUse(po)) \in Nat
  BY <1>4, FS_CardinalityType
<1>6. ASSUME NEW i
      PROVE  /\ IsFiniteSet(Users(po, i)) /\ Cardinality(Users(po, i)) \in Nat
             /\ Cardinality(Users(po, i)) <= Cardinality(InUse(po))
  <2>1. Users(po, i) \in SUBSET InUse(po)
    BY DEF Users, InUse
  <2>2. IsFiniteSet(Users(po, i)) /\ Cardinality(Users(po, i)) <= Cardinality(InUse(po))
    BY <1>4, <2>1, FS_Subset
  <2> QED
    BY <2>2, FS_CardinalityType
<1>7. (\A f \in 1..Len(po) : po[f].used) => InUse(po) = 1..Len(po)
  BY DEF InUse
<1> QED
  BY <1>2, <1>4, <1>5, <1>6, <1>7

\* the k-th descriptor, which was free, is taken for an instance
Taken(po, po2, k, instance) ==
    /\ po2 \in Seq(EntryRecords) /\ Len(po2) = (IF k <= Len(po) THEN Len(po) ELSE k)
    /\ \A i \in 1..Len(po2) : i # k => IF i <= Len(po) THEN po2[i] = po[i] ELSE ~po2[i].used /\ po2[i].instance = 0
    /\ po2[k].used /\ po2[k].instance = instance /\ (k <= Len(po) => ~po[k].used)

\* Then it is in use, and one more descriptor refers to the instance.
LEMMA TakenUses ==
    ASSUME NEW po \in Seq(EntryRecords), NEW po2, NEW k \in Nat \ {0}, NEW instance \in Nat,
           Taken(po, po2, k, instance)
    PROVE  /\ k \notin InUse(po) /\ InUse(po2) = InUse(po) \cup {k}
           /\ \A i \in Nat : Users(po2, i) = IF i - 1 = instance THEN Users(po, i) \cup {k} ELSE Users(po, i)
<1>1. Len(po) \in Nat /\ Len(po2) \in Nat
  BY LenProperties DEF Taken
<1>2. k \in 1..Len(po2) /\ \A f : f \in 1..Len(po) => f \in 1..Len(po2)
  BY <1>1 DEF Taken
<1>3. \A f \in 1..Len(po2) : po2[f].used => f = k \/ (f \in 1..Len(po) /\ po2[f] = po[f])
  BY <1>1 DEF Taken
<1>4. \A f \in 1..Len(po) : po[f].used => f # k /\ po2[f] = po[f]
  BY <1>1, <1>2 DEF Taken
<1>5. po2[k].used /\ po2[k].instance = instance
  BY DEF Taken
<1>6. k \notin InUse(po)
  BY <1>4 DEF InUse
<1>7. InUse(po2) = InUse(po) \cup {k}
  BY <1>2, <1>3, <1>4, <1>5 DEF InUse
<1>8. ASSUME NEW i \in Nat
      PROVE  Users(po2, i) = IF i - 1 = instance THEN Users(po, i) \cup {k} ELSE Users(po, i)
  BY <1>2, <1>3, <1>4, <1>5 DEF Users
<1> QED
  BY <1>6, <1>7, <1>8

FreeAt(po, index) == index < Len(po) => ~po[index + 1].used
Enters(po2, index, instance, cloexec) ==
    po2 = [Extended(index) EXCEPT ![index + 1] = Entry(instance, TRUE, cloexec)]

\* The table with an entry at an index that is free.
LEMMA ExtendedTakes ==
    ASSUME pOpen \in Seq(EntryRecords), NEW index \in Nat, FreeAt(pOpen, index),
           NEW instance \in Nat, NEW cloexec \in BOOLEAN, NEW po2, Enters(po2, index, instance, cloexec),
           NEW k, k = index + 1
    PROVE  Taken(pOpen, po2, k, instance) /\ k \in Nat \ {0}
<1>1. PICK m : m = Len(pOpen)
  OBVIOUS
<1>2. m \in Nat /\ \A i \in 1..m : pOpen[i] \in EntryRecords
  BY <1>1, LenProperties, ElementOfSeq
<1>3. k \in Nat \ {0}
  OBVIOUS
<1>4. PICK blank : blank = Entry(0, FALSE, FALSE)
  OBVIOUS
<1>5. PICK new : new = Entry(instance, TRUE, cloexec)
  OBVIOUS
<1>6. /\ blank \in EntryRecords /\ ~blank.used /\ blank.instance = 0
      /\ new \in EntryRecords /\ new.used /\ new.instance = instance
  BY <1>4, <1>5 DEF Entry, EntryRecords
<1>7. PICK n : n = IF index < m THEN m ELSE index + 1
  OBVIOUS
<1>8. n \in Nat /\ (IF k <= m THEN n = m ELSE n = k)
  BY <1>2, <1>7
<1>9. PICK e : e = Extended(index)
  OBVIOUS
<1>10. e = [i \in 1..n |-> IF i <= m THEN pOpen[i] ELSE blank]
  BY <1>1, <1>4, <1>7, <1>9, Zenon DEF Extended
<1>11. po2 = [e EXCEPT ![k] = new]
  BY <1>5, <1>9, Zenon DEF Enters
<1>12. k \in 1..n
  BY <1>2, <1>3, <1>8
<1>13. /\ po2 = [i \in 1..n |-> IF i = k THEN new ELSE IF i <= m THEN pOpen[i] ELSE blank]
  BY <1>10, <1>11, <1>12
<1>14. \A i \in 1..n : i <= m => pOpen[i] \in EntryRecords
  BY <1>2, <1>8
<1>15. po2 \in [1..n -> EntryRecords] /\ po2[k] = new
  BY <1>6, <1>12, <1>13, <1>14
<1>16. \A i \in 1..n : i # k => po2[i] = IF i <= m THEN pOpen[i] ELSE blank
  BY <1>13
<1>17. po2 \in Seq(EntryRecords) /\ Len(po2) = n
  BY <1>8, <1>15, FunctionIsSeq
<1>18. \A i \in 1..Len(po2) : i # k => IF i <= Len(pOpen) THEN po2[i] = pOpen[i] ELSE ~po2[i].used /\ po2[i].instance = 0
  BY <1>1, <1>6, <1>16, <1>17
<1>19. k <= Len(pOpen) => ~pOpen[k].used
  <2>1. index < m => ~pOpen[index + 1].used
    BY <1>1 DEF FreeAt
  <2> QED
    BY <1>1, <1>2, <2>1
<1> QED
  BY <1>1, <1>3, <1>6, <1>8, <1>15, <1>17, <1>18, <1>19 DEF Taken

\* fLookupNextFd returns the lowest index that is free, from the given one on.
LEMMA NextFdIs ==
    ASSUME pOpen \in Seq(EntryRecords), NEW start \in Nat, NEW index, index = NextFd(start)
    PROVE  /\ index \in Nat /\ start <= index /\ (start < Len(pOpen) => index <= Len(pOpen))
           /\ start >= Len(pOpen) => index = start
           /\ FreeAt(pOpen, index)
           /\ \A i \in Nat : start <= i /\ i < index /\ i < Len(pOpen) => pOpen[i + 1].used
<1>1. Len(pOpen) \in Nat
  BY LenProperties
<1>2. CASE start >= Len(pOpen)
  <2>1. index = start
    BY <1>2 DEF NextFd
  <2> QED
    BY <1>1, <1>2, <2>1 DEF FreeAt
<1>3. CASE start < Len(pOpen)
  <2> DEFINE free == {i \in start..Len(pOpen) : i = Len(pOpen) \/ ~pOpen[i + 1].used}
  <2>1. free \in SUBSET Nat /\ Len(pOpen) \in free
    BY <1>1, <1>3
  <2>2. index = CHOOSE i \in free : \A j \in free : i <= j
    <3>1. ~(start >= Len(pOpen))
      BY <1>1, <1>3
    <3> QED
      BY <3>1, Zenon DEF NextFd
  <2>3. \E i \in free : \A j \in free : i <= j
    <3> HIDE DEF free
    <3> QED
      BY <2>1, LeastNumber
  <2>4. index \in free /\ \A j \in free : index <= j
    <3> HIDE DEF free
    <3> QED
      BY <2>2, <2>3
  <2> QED
    BY <1>1, <1>3, <2>4 DEF FreeAt
<1> QED
  BY <1>1, <1>2, <1>3

\* One more descriptor refers to an instance, which may be new.
Gains(po, pi, pi2, i) ==
    /\ pi2[i].user = Cardinality(Users(po, i)) + 1 /\ pi2[i].node # NoNode
    /\ \A j \in 1..Len(pi2) : j # i =>
          j \in 1..Len(pi) /\ pi2[j].user = pi[j].user /\ pi2[j].node = pi[j].node

\* The counters stay right when a descriptor is taken.
LEMMA TakenCounted ==
    ASSUME NEW po \in Seq(EntryRecords), NEW pi, NEW n, Counted(po, pi, n),
           NEW k \in Nat \ {0}, NEW instance \in Nat, NEW po2, Taken(po, po2, k, instance),
           NEW i, i = instance + 1, NEW pi2, Gains(po, pi, pi2, i), Len(po2) <= MaxFd,
           Len(pi2) \in Nat
    PROVE  Counted(po2, pi2, n + 1)
<1>1. /\ k \notin InUse(po) /\ InUse(po2) = InUse(po) \cup {k}
      /\ \A j \in Nat : Users(po2, j) = IF j - 1 = instance THEN Users(po, j) \cup {k} ELSE Users(po, j)
  BY TakenUses
<1>2. /\ IsFiniteSet(InUse(po)) /\ Cardinality(InUse(po)) \in Nat
      /\ \A j : IsFiniteSet(Users(po, j)) /\ Cardinality(Users(po, j)) \in Nat
  BY TableFinite
<1>3. Cardinality(InUse(po2)) = Cardinality(InUse(po)) + 1
  BY <1>1, <1>2, FS_AddElement
<1>4. i \in Nat /\ i - 1 = instance
  OBVIOUS
<1>5. Users(po2, i) = Users(po, i) \cup {k}
  BY <1>1, <1>4
<1>6. k \notin Users(po, i)
  BY <1>1 DEF InUse, Users
<1>7. Cardinality(Users(po2, i)) = Cardinality(Users(po, i)) + 1
  BY <1>2, <1>5, <1>6, FS_AddElement
<1>8. ASSUME NEW j \in 1..Len(pi2)
      PROVE  pi2[j].user = Cardinality(Users(po2, j)) /\ (pi2[j].node = NoNode <=> Users(po2, j) = {})
  <2>1. CASE j = i
    BY <1>5, <1>7, <2>1 DEF Gains
  <2>2. CASE j # i
    <3>1. j \in 1..Len(pi) /\ pi2[j].user = pi[j].user /\ pi2[j].node = pi[j].node
      BY <2>2 DEF Gains
    <3>2. j \in Nat /\ j - 1 # instance
      BY <1>4, <2>2
    <3>3. Users(po2, j) = Users(po, j)
      BY <1>1, <3>2
    <3>4. pi[j].user = Cardinality(Users(po, j)) /\ (pi[j].node = NoNode <=> Users(po, j) = {})
      BY <3>1 DEF Counted
    <3> QED
      BY <3>1, <3>3, <3>4
  <2> QED
    BY <2>1, <2>2
<1>9. n + 1 = Cardinality(InUse(po2))
  BY <1>3 DEF Counted
<1> QED
  BY <1>8, <1>9 DEF Counted

\* A descriptor is freed, and its instance loses a user.
Freed(po, po2, k) ==
    /\ po2 \in Seq(EntryRecords) /\ Len(po2) = Len(po)
    /\ \A i \in 1..Len(po) : i # k => po2[i] = po[i]
    /\ po[k].used /\ ~po2[k].used /\ po2[k].instance = po[k].instance
Loses(pi, pi2, i) ==
    /\ Len(pi2) = Len(pi)
    /\ pi2[i].user = pi[i].user - 1
    /\ IF pi[i].user = 1 THEN pi2[i].node = NoNode ELSE pi2[i].node = pi[i].node
    /\ \A j \in 1..Len(pi) : j # i => pi2[j].user = pi[j].user /\ pi2[j].node = pi[j].node

\* The counters stay right when a descriptor is freed, and there was one to count.
LEMMA FreedCounted ==
    ASSUME NEW po \in Seq(EntryRecords), NEW pi, NEW n, Counted(po, pi, n),
           NEW k \in 1..Len(po), NEW po2, Freed(po, po2, k),
           NEW i \in 1..Len(pi), po[k].instance = i - 1, NEW pi2, Loses(pi, pi2, i)
    PROVE  Counted(po2, pi2, n - 1) /\ n \in Nat \ {0}
<1>1. InUse(po2) = InUse(po) \ {k} /\ k \in InUse(po)
  BY DEF Freed, InUse
<1>2. /\ IsFiniteSet(InUse(po)) /\ Cardinality(InUse(po)) \in Nat
      /\ \A j : IsFiniteSet(Users(po, j)) /\ Cardinality(Users(po, j)) \in Nat
  BY TableFinite
<1>3. Cardinality(InUse(po2)) = Cardinality(InUse(po)) - 1
  BY <1>1, <1>2, FS_RemoveElement
<1>4. Users(po2, i) = Users(po, i) \ {k} /\ k \in Users(po, i)
  BY DEF Freed, Users
<1>5. Cardinality(Users(po2, i)) = Cardinality(Users(po, i)) - 1
  BY <1>2, <1>4, FS_RemoveElement
<1>6. ASSUME NEW j \in 1..Len(pi), j # i
      PROVE  Users(po2, j) = Users(po, j)
  <2>1. po[k].instance # j - 1 /\ po2[k].instance # j - 1
    BY <1>6 DEF Freed
  <2> QED
    BY <2>1 DEF Freed, Users
<1>7. n = Cardinality(InUse(po))
  BY DEF Counted
<1>8. n \in Nat \ {0}
  <2>1. Cardinality(InUse(po)) # 0
    BY <1>1, <1>2, FS_EmptySet
  <2> QED
    BY <1>2, <1>7, <2>1
<1>9. pi2[i].user = Cardinality(Users(po2, i)) /\ (pi2[i].node = NoNode <=> Users(po2, i) = {})
  <2>1. pi[i].user = Cardinality(Users(po, i)) /\ pi[i].node # NoNode
    BY <1>4 DEF Counted
  <2>2. IsFiniteSet(Users(po2, i))
    BY <1>2, <1>4, FS_RemoveElement
  <2>3. Users(po2, i) = {} <=> Cardinality(Users(po2, i)) = 0
    BY <2>2, FS_EmptySet
  <2>4. pi[i].user = 1 <=> Users(po2, i) = {}
    BY <1>2, <1>5, <2>1, <2>3
  <2> QED
    BY <1>5, <2>1, <2>4 DEF Loses
<1>10. ASSUME NEW j \in 1..Len(pi2)
       PROVE  pi2[j].user = Cardinality(Users(po2, j)) /\ (pi2[j].node = NoNode <=> Users(po2, j) = {})
  <2>1. j \in 1..Len(pi)
    BY DEF Loses
  <2>2. CASE j # i
    <3>1. pi[j].user = Cardinality(Users(po, j)) /\ (pi[j].node = NoNode <=> Users(po, j) = {})
      BY <2>1 DEF Counted
    <3> QED
      BY <1>6, <2>1, <2>2, <3>1 DEF Loses
  <2> QED
    BY <1>9, <2>2
<1>11. n - 1 = Cardinality(InUse(po2))
  BY <1>3, <1>7
<1>12. Len(po2) <= MaxFd
  BY DEF Freed, Counted
<1> QED
  BY <1>8, <1>10, <1>11, <1>12 DEF Counted

\* What a call makes of the files of the host: it may create one, and removes none.
Grows(d, d2) == Kept(d2) /\ There(d) \subseteq There(d2)
Replaced(pi, pi2, i, r) == pi2 = [pi EXCEPT ![i] = r]

\* Instances stay what they are when files are created.
LEMMA Widened ==
    ASSUME NEW d, NEW d2, There(d) \subseteq There(d2), NEW pi \in Seq(InstanceRecords(d))
    PROVE  pi \in Seq(InstanceRecords(d2)) /\ InstanceRecords(d) \subseteq InstanceRecords(d2)
<1>1. InstanceRecords(d) \subseteq InstanceRecords(d2)
  BY DEF InstanceRecords
<1>2. Len(pi) \in Nat /\ pi \in [1..Len(pi) -> InstanceRecords(d)]
  BY LenProperties
<1>3. pi \in [1..Len(pi) -> InstanceRecords(d2)]
  BY <1>1, <1>2
<1> QED
  BY <1>1, <1>2, <1>3, FunctionIsSeq

\* A record of a sequence is replaced.
LEMMA ReplacedIs ==
    ASSUME NEW S, NEW pi \in Seq(S), NEW i \in 1..Len(pi), NEW r \in S, NEW pi2, Replaced(pi, pi2, i, r)
    PROVE  /\ pi2 \in Seq(S) /\ Len(pi2) = Len(pi) /\ pi2[i] = r
           /\ \A j \in 1..Len(pi) : j # i => pi2[j] = pi[j]
<1>1. Len(pi) \in Nat /\ pi \in [1..Len(pi) -> S]
  BY LenProperties
<1>2. pi2 \in [1..Len(pi) -> S] /\ pi2[i] = r /\ \A j \in 1..Len(pi) : j # i => pi2[j] = pi[j]
  BY <1>1 DEF Replaced
<1> QED
  BY <1>1, <1>2, FunctionIsSeq

\* An open instance may move, be configured anew or keep another listing.
LEMMA InstanceStep ==
    ASSUME NEW po, NEW pi, NEW n, NEW d, NEW w, Sound(po, pi, n, d, w),
           NEW i \in 1..Len(pi), NEW r \in InstanceRecords(d), r.node = pi[i].node, r.user = pi[i].user,
           NEW pi2, Replaced(pi, pi2, i, r), NEW d2, Grows(d, d2)
    PROVE  Sound(po, pi2, n, d2, w)
<1>1. pi \in Seq(InstanceRecords(d))
  BY DEF Sound, Typed
<1>2. /\ pi2 \in Seq(InstanceRecords(d)) /\ Len(pi2) = Len(pi) /\ pi2[i] = r
      /\ \A j \in 1..Len(pi) : j # i => pi2[j] = pi[j]
  BY <1>1, ReplacedIs
<1>3. pi2 \in Seq(InstanceRecords(d2))
  BY <1>2, Widened DEF Grows
<1>4. \A j \in 1..Len(pi) : pi2[j].node = pi[j].node /\ pi2[j].user = pi[j].user
  BY <1>2
<1>5. Typed(po, pi2, d2, w)
  BY <1>2, <1>3 DEF Sound, Typed, Grows
<1>6. Counted(po, pi2, n)
  BY <1>2, <1>4 DEF Sound, Counted
<1> QED
  BY <1>5, <1>6 DEF Sound

\* A descriptor the program has, and its instance.
LEMMA GivenIs ==
    ASSUME FilesInv, ~Stray, NEW fd \in Given, CheckFd(fd)
    PROVE  /\ fd \in Nat /\ fd + 1 \in 1..Len(pOpen) /\ pOpen[fd + 1].used
           /\ pOpen[fd + 1] \in EntryRecords /\ pOpen[fd + 1].instance = Of(fd) - 1
           /\ Of(fd) \in 1..Len(pInstance) /\ Instance(fd) = pInstance[Of(fd)]
           /\ Instance(fd) \in InstanceRecords(data) /\ Instance(fd).node \in There(data)
           /\ fd + 1 \in Users(pOpen, Of(fd))
<1>1. /\ pOpen \in Seq(EntryRecords) /\ \A i \in 1..Len(pOpen) : pOpen[i].instance < Len(pInstance)
      /\ pInstance \in Seq(InstanceRecords(data))
  BY DEF FilesInv, Sound, Typed
<1>2. Len(pOpen) \in Nat /\ Len(pInstance) \in Nat
  BY <1>1, LenProperties
<1>3. fd \in Int /\ fd >= 0 /\ fd < Len(pOpen) /\ pOpen[fd + 1].used /\ Instance(fd).node # NoNode
  <2>1. MaxFd \in Nat
    BY FilesAssumption
  <2> QED
    BY <1>2, <2>1 DEF CheckFd, Given, IsUsed
<1>4. fd \in Nat /\ fd + 1 \in 1..Len(pOpen)
  BY <1>2, <1>3
<1>5. pOpen[fd + 1] \in EntryRecords
  BY <1>1, <1>4, ElementOfSeq
<1>6. pOpen[fd + 1].instance \in Nat /\ pOpen[fd + 1].instance < Len(pInstance)
  BY <1>1, <1>4, <1>5 DEF EntryRecords
<1>7. Of(fd) \in 1..Len(pInstance) /\ pOpen[fd + 1].instance = Of(fd) - 1 /\ Instance(fd) = pInstance[Of(fd)]
  BY <1>2, <1>6 DEF Of, Instance
<1>8. Instance(fd) \in InstanceRecords(data)
  BY <1>1, <1>7, ElementOfSeq
<1>9. Instance(fd).node \in There(data)
  BY <1>3, <1>8 DEF InstanceRecords
<1>10. fd + 1 \in Users(pOpen, Of(fd))
  BY <1>3, <1>4, <1>7 DEF Users
<1> QED
  BY <1>3, <1>4, <1>5, <1>7, <1>8, <1>9, <1>10

\* A file that is there has bytes.
LEMMA FileThere ==
    ASSUME NEW d, Kept(d), NEW n \in There(d), Tree.kind[n] = "file"
    PROVE  n \in DOMAIN FirstData /\ n \in DOMAIN d /\ d[n] \in Seq(Nat) /\ Len(d[n]) \in Nat
<1>1. n \in DOMAIN FirstData
  BY DataAssumption DEF There
<1>2. d[n] # Absent /\ d[n] \in Seq(Nat) \cup {Absent} /\ n \in DOMAIN d
  BY <1>1 DEF There, Kept
<1> QED
  BY <1>1, <1>2, LenProperties

\* Nothing of a file changes what is there but its creation.
LEMMA DataStep ==
    ASSUME NEW d, Kept(d), NEW n \in DOMAIN FirstData, NEW bytes \in Seq(Nat), NEW d2, Replaced(d, d2, n, bytes)
    PROVE  Grows(d, d2) /\ d2[n] = bytes
<1>1. bytes # Absent
  BY DataAssumption
<1>2. d \in [DOMAIN FirstData -> Seq(Nat) \cup {Absent}]
  BY DEF Kept
<1>3. d2 \in [DOMAIN FirstData -> Seq(Nat) \cup {Absent}] /\ d2[n] = bytes /\ \A m \in DOMAIN FirstData : m # n => d2[m] = d[m]
  BY <1>2 DEF Replaced
<1>4. Kept(d2)
  BY <1>1, <1>3 DEF Kept
<1>5. There(d) \subseteq There(d2)
  BY <1>1, <1>3 DEF There
<1> QED
  BY <1>3, <1>4, <1>5 DEF Grows

-----------------------------------------------------------------------------
(* The bytes of files, and the order of checks. *)

\* A part of a sequence has the values of the sequence.
LEMMA PartOf ==
    ASSUME NEW S, NEW s \in Seq(S), NEW m \in Nat, NEW n \in Int, n <= Len(s)
    PROVE  SubSeq(s, m + 1, n) \in Seq(S)
<1>1. Len(s) \in Nat /\ \A i \in 1..Len(s) : s[i] \in S
  BY LenProperties, ElementOfSeq
<1>2. \A i \in (m + 1)..n : s[i] \in S
  BY <1>1
<1> QED
  BY <1>2, SubSeqProperties

\* A file grows by zeros.
LEMMA GrownBytes ==
    ASSUME NEW bytes \in Seq(Nat), NEW size \in Int
    PROVE  Grown(bytes, size) \in Seq(Nat)
<1>1. Len(bytes) \in Nat
  BY LenProperties
<1>2. CASE size > Len(bytes)
  <2>1. PICK k \in Nat : k = size - Len(bytes)
    <3>1. size - Len(bytes) \in Nat
      BY <1>1, <1>2
    <3> QED
      BY <3>1, Zenon
  <2>2. PICK z : z = [i \in 1..k |-> 0]
    OBVIOUS
  <2>3. z \in Seq(Nat)
    BY <2>2, FunctionIsSeq
  <2>4. Grown(bytes, size) = bytes \o z
    <3>1. ~(size <= Len(bytes))
      BY <1>1, <1>2
    <3> QED
      BY <2>1, <2>2, <3>1, Zenon DEF Grown, Zeros
  <2> QED
    BY <2>3, <2>4, ConcatProperties
<1>3. CASE size <= Len(bytes)
  BY <1>3 DEF Grown
<1> QED
  BY <1>1, <1>2, <1>3

\* What can be written is no more than what is given, at an offset of the file.
LEMMA CountIs ==
    ASSUME NEW bytes \in Seq(Nat), NEW offset \in Int, NEW new \in Seq(Nat),
           NEW count, count = WriteCount(bytes, offset, new)
    PROVE  /\ count \in Nat /\ count <= Len(new)
           /\ count # 0 => offset >= 0
<1>1. Len(bytes) \in Nat /\ Len(new) \in Nat
  BY LenProperties
<1>2. CASE CanHold(bytes, offset, Len(new))
  <2>1. count = Len(new)
    BY <1>2 DEF WriteCount
  <2> QED
    BY <1>1, <1>2, <2>1 DEF CanHold
<1>3. CASE ~CanHold(bytes, offset, Len(new)) /\ (offset < 0 \/ offset >= Len(bytes))
  <2>1. count = 0
    BY <1>3 DEF WriteCount
  <2> QED
    BY <1>1, <2>1
<1>4. CASE ~CanHold(bytes, offset, Len(new)) /\ ~(offset < 0 \/ offset >= Len(bytes))
  <2>1. count = Least(Len(new), Len(bytes) - offset)
    BY <1>4 DEF WriteCount
  <2>2. offset >= 0 /\ offset < Len(bytes)
    BY <1>1, <1>4
  <2> QED
    BY <1>1, <2>1, <2>2 DEF Least
<1> QED
  BY <1>2, <1>3, <1>4

\* What a write leaves in a file are bytes.
LEMMA WrittenBytes ==
    ASSUME NEW bytes \in Seq(Nat), NEW offset \in Int, NEW new \in Seq(Nat)
    PROVE  WriteAt(bytes, offset, new) \in Seq(Nat)
<1>1. PICK count : count = WriteCount(bytes, offset, new)
  OBVIOUS
<1>2. count \in Nat /\ count <= Len(new) /\ (count # 0 => offset >= 0)
  BY <1>1, CountIs
<1>3. CASE count = 0
  BY <1>1, <1>3 DEF WriteAt
<1>4. CASE count # 0
  <2>1. PICK size \in Nat : size = offset + count
    <3>1. offset + count \in Nat
      BY <1>2, <1>4
    <3> QED
      BY <3>1, Zenon
  <2>2. PICK old : old = Grown(bytes, size)
    OBVIOUS
  <2>3. old \in Seq(Nat)
    BY <2>2, GrownBytes
  <2>4. PICK m : m = Len(old)
    OBVIOUS
  <2>5. m \in Nat /\ \A i \in 1..m : old[i] \in Nat
    BY <2>3, <2>4, LenProperties, ElementOfSeq
  <2>6. PICK w : w = [i \in 1..m |-> IF i \in offset + 1..size THEN new[i - offset] ELSE old[i]]
    OBVIOUS
  <2>7. WriteAt(bytes, offset, new) = w
    BY <1>1, <1>4, <2>1, <2>2, <2>4, <2>6, Zenon DEF WriteAt
  <2>8. ASSUME NEW i \in 1..m
        PROVE  w[i] \in Nat
    <3>1. CASE i \in offset + 1..size
      <4>1. i - offset \in 1..Len(new)
        BY <1>2, <2>1, <3>1, LenProperties
      <4>2. new[i - offset] \in Nat
        BY <4>1, ElementOfSeq
      <4> QED
        BY <2>6, <3>1, <4>2
    <3>2. CASE i \notin offset + 1..size
      BY <2>5, <2>6, <3>2
    <3> QED
      BY <3>1, <3>2
  <2>9. w \in [1..m -> Nat]
    BY <2>6, <2>8
  <2> QED
    BY <2>5, <2>7, <2>9, FunctionIsSeq
<1> QED
  BY <1>3, <1>4

\* A file is cut or filled with zeros to a length.
LEMMA ResizedBytes ==
    ASSUME NEW bytes \in Seq(Nat)
    PROVE  ResizeTo(bytes, 0) \in Seq(Nat)
<1>1. Len(bytes) \in Nat
  BY LenProperties
<1>2. ResizeTo(bytes, 0) = SubSeq(bytes, 0 + 1, 0)
  BY <1>1 DEF ResizeTo
<1> QED
  BY <1>1, <1>2, PartOf

\* Checks that find no error have all passed.
LEMMA ChecksPassed ==
    ASSUME NEW checks, NEW n \in Nat, DOMAIN checks = 1..n,
           \A i \in 1..n : checks[i][1] => checks[i][2] # "ok",
           FirstError(checks) = "ok"
    PROVE  \A i \in 1..n : ~checks[i][1]
<1> DEFINE failed == {i \in DOMAIN checks : checks[i][1]}
<1>1. SUFFICES failed = {}
  OBVIOUS
<1>2. SUFFICES ASSUME failed # {}
              PROVE  FALSE
  OBVIOUS
<1>3. FirstError(checks) = checks[CHOOSE i \in failed : \A j \in failed : i <= j][2]
  BY <1>2 DEF FirstError
<1>4. failed \in SUBSET Nat
  OBVIOUS
<1>5. PICK least : least = CHOOSE i \in failed : \A j \in failed : i <= j
  OBVIOUS
<1>6. \E i \in failed : \A j \in failed : i <= j
  <2> HIDE DEF failed
  <2> QED
    BY <1>2, <1>4, LeastNumber
<1>7. least \in failed
  <2> HIDE DEF failed
  <2> QED
    BY <1>5, <1>6
<1> QED
  BY <1>3, <1>5, <1>7

-----------------------------------------------------------------------------
(* Paths end at nodes that are there. *)

\* The tree as the host has it is closed: what is named in it are nodes, and of those that are there only such.
LEMMA CurrentClosed ==
    ASSUME Kept(data)
    PROVE  /\ Current.kind = Tree.kind /\ Closed(Current, DOMAIN Current.kind)
           /\ Closed(Current, There(data)) /\ Root \in There(data) /\ Terminal \in There(data)
<1>1. PICK t : t = Current
  OBVIOUS
<1>2. /\ t.kind = Tree.kind /\ t.ancestor = Tree.ancestor /\ t.link = Tree.link /\ t.mounted = Tree.mounted
      /\ t.entries = [e \in {d \in DOMAIN Tree.entries : Exists(Tree.entries[d])} |-> Tree.entries[e]]
  BY <1>1, TreeAssumption DEF Current
<1>3. DOMAIN data = DOMAIN FirstData /\ \A n \in DOMAIN FirstData : FirstData[n] # Absent => data[n] # Absent
  BY DEF Kept
<1>4. \A n \in DOMAIN Tree.kind : (n \in DOMAIN FirstData => FirstData[n] # Absent) => n \in There(data)
  BY <1>3 DEF There
<1>5. \A n \in DOMAIN Tree.kind : Exists(n) => n \in There(data)
  BY <1>3 DEF There, Exists
<1>6. There(data) \subseteq DOMAIN Tree.kind
  BY DEF There
<1>7. Root \in There(data) /\ Terminal \in There(data)
  BY <1>4, TreeAssumption, DataAssumption
<1>8. ASSUME NEW n \in DOMAIN Tree.kind
      PROVE  Tree.ancestor[n] \in There(data)
  <2>1. PICK m : m = Tree.ancestor[n]
    OBVIOUS
  <2>2. m \in {Tree.ancestor[k] : k \in DOMAIN Tree.kind} /\ m \in DOMAIN Tree.kind
    BY <2>1, TreeAssumption
  <2>3. m \in DOMAIN FirstData => FirstData[m] # Absent
    BY <2>2, DataAssumption, Zenon
  <2> QED
    BY <1>4, <2>1, <2>2, <2>3
<1>9. \A e \in DOMAIN Tree.mounted : Tree.mounted[e] \in There(data)
  BY <1>4, TreeAssumption, DataAssumption
<1>10. \A e \in DOMAIN t.entries : t.entries[e] \in There(data)
  BY <1>2, <1>5, TreeAssumption
<1>11. ASSUME NEW n, NEW name
       PROVE  Lookup(t, n, name) \in There(data) \cup {NoNode}
  <2>1. PICK e : e = <<n, name>>
    OBVIOUS
  <2>2. Lookup(t, n, name) = CASE e \in DOMAIN t.mounted -> t.mounted[e]
                               [] e \in DOMAIN t.entries \ DOMAIN t.mounted -> t.entries[e]
                               [] OTHER -> NoNode
    BY <2>1, Zenon DEF Lookup
  <2>3. CASE e \in DOMAIN t.mounted
    BY <1>2, <1>9, <2>2, <2>3
  <2>4. CASE e \in DOMAIN t.entries \ DOMAIN t.mounted
    BY <1>10, <2>2, <2>4
  <2>5. CASE e \notin DOMAIN t.mounted /\ e \notin DOMAIN t.entries
    BY <2>2, <2>5
  <2> QED
    BY <2>3, <2>4, <2>5
<1>12. Closed(t, There(data))
  BY <1>2, <1>6, <1>7, <1>8, <1>11, TreeAssumption DEF Closed
<1>13. Closed(t, DOMAIN t.kind)
  BY <1>2, <1>6, <1>7, <1>8, <1>11, TreeAssumption DEF Closed
<1> QED
  BY <1>1, <1>2, <1>7, <1>12, <1>13

\* A base is the working directory, or a node that is there.
BaseThere(base) ==
    base.working \in BOOLEAN /\ (~base.working /\ base.node # NoNode => base.node \in There(data))

\* The resolution begins at a node that is there, with names.
LEMMA CheckPathThere ==
    ASSUME Kept(data), wd \in Seq(STRING), NEW base, BaseThere(base), NEW path \in Paths, NEW allowEmpty,
           NEW from, from = CheckPath(Tree, wd, base, path, allowEmpty), from.err = "ok"
    PROVE  from.start \in There(data) /\ from.names \in Seq(STRING)
<1>1. path.names \in Seq(STRING) /\ Root \in There(data)
  BY FilesAssumption, CurrentClosed
<1>2. Clean(path.names) \in Seq(STRING)
  BY <1>1, CleanNames
<1>3. Clean(wd \o path.names) \in Seq(STRING)
  BY <1>1, CleanNames, ConcatProperties
<1>4. <<>> \in Seq(STRING)
  BY EmptySeq
<1>5. \A start, names : Begin(start, names).start = start /\ Begin(start, names).names = names
  BY DEF Begin
<1>6. \A err : BeginError(err).err = err
  BY DEF BeginError
<1>7. ASSUME base.working
      PROVE  CheckEmpty(wd, base) = Begin(Root, wd) /\ CheckRelative(Tree, wd, base, path) = Begin(Root, Clean(wd \o path.names))
  BY <1>7 DEF CheckEmpty, CheckRelative
<1>8. ASSUME ~base.working, base.node = NoNode
      PROVE  CheckEmpty(wd, base) = BeginError("eBadFd") /\ CheckRelative(Tree, wd, base, path) = BeginError("eBadFd")
  BY <1>8 DEF CheckEmpty, CheckRelative
<1>9. ASSUME ~base.working, base.node # NoNode
      PROVE  /\ CheckEmpty(wd, base) = Begin(base.node, <<>>)
             /\ CheckRelative(Tree, wd, base, path) =
                    IF Tree.kind[base.node] # "dir" THEN BeginError("eNotDirectory")
                    ELSE Begin(base.node, Clean(path.names))
  BY <1>9 DEF CheckEmpty, CheckRelative
<1>10. base.working \in BOOLEAN /\ (~base.working /\ base.node # NoNode => base.node \in There(data))
  BY DEF BaseThere
<1>11. CASE path = EmptyPath
  <2>1. ~path.abs
    BY <1>11 DEF EmptyPath
  <2>2. from = IF allowEmpty THEN CheckEmpty(wd, base) ELSE BeginError("eInvalid")
    BY <1>11, <2>1, Zenon DEF CheckPath
  <2>3. from = CheckEmpty(wd, base)
    BY <1>6, <2>2
  <2>4. CASE base.working
    BY <1>1, <1>5, <1>7, <2>3, <2>4
  <2>5. CASE ~base.working /\ base.node = NoNode
    BY <1>6, <1>8, <2>3, <2>5
  <2>6. CASE ~base.working /\ base.node # NoNode
    <3>1. from = Begin(base.node, <<>>)
      BY <1>9, <2>3, <2>6, Zenon
    <3>2. from.start = base.node /\ from.names = <<>>
      <4>1. PICK start, names : start = base.node /\ names = <<>>
        OBVIOUS
      <4>2. from = Begin(start, names)
        BY <3>1, <4>1, Zenon
      <4>3. from.start = start /\ from.names = names
        BY <4>2 DEF Begin
      <4> QED
        BY <4>1, <4>3, Zenon
    <3>3. from.names \in Seq(STRING)
      BY <1>4, <3>2, Zenon
    <3> QED
      BY <1>10, <2>6, <3>2, <3>3
  <2> QED
    BY <2>4, <2>5, <2>6
<1>12. CASE path # EmptyPath /\ path.abs
  <2>1. from = Begin(Root, Clean(path.names))
    BY <1>12, Zenon DEF CheckPath
  <2> QED
    BY <1>1, <1>2, <1>5, <2>1
<1>13. CASE path # EmptyPath /\ ~path.abs
  <2>1. from = CheckRelative(Tree, wd, base, path)
    BY <1>13, Zenon DEF CheckPath
  <2>2. CASE base.working
    BY <1>1, <1>3, <1>5, <1>7, <2>1, <2>2
  <2>3. CASE ~base.working /\ base.node = NoNode
    BY <1>6, <1>8, <2>1, <2>3
  <2>4. CASE ~base.working /\ base.node # NoNode
    BY <1>2, <1>5, <1>6, <1>9, <1>10, <2>1, <2>4
  <2> QED
    BY <2>2, <2>3, <2>4
<1> QED
  BY <1>11, <1>12, <1>13

\* What a call finds at the end of a path is there.
LEMMA FindThere ==
    ASSUME Kept(data), wd \in Seq(STRING), NEW base, BaseThere(base), NEW path \in Paths,
           NEW allowEmpty, NEW follow, NEW findExisting,
           NEW at, at = Find(base, path, allowEmpty, follow, findExisting), at.err = "ok"
    PROVE  at.node \in There(data)
<1>1. PICK from : from = CheckPath(Tree, wd, base, path, allowEmpty)
  OBVIOUS
<1>2. at = IF from.err # "ok" THEN Answer(from.err, NoNode, FALSE)
           ELSE Resolve(Current, Ids, from.start, from.names, follow, findExisting)
  BY <1>1, Zenon DEF Find
<1>3. from.err = "ok"
  <2>1. Answer(from.err, NoNode, FALSE).err = from.err
    BY DEF Answer
  <2> QED
    BY <1>2, <2>1
<1>4. from.start \in There(data) /\ from.names \in Seq(STRING)
  BY <1>1, <1>3, CheckPathThere
<1>5. PICK t, N, start, names : t = Current /\ N = There(data) /\ start = from.start /\ names = from.names
  OBVIOUS
<1>6. Closed(t, DOMAIN t.kind) /\ Closed(t, N) /\ start \in N /\ names \in Seq(STRING)
  BY <1>4, <1>5, CurrentClosed
<1>7. at = Resolve(t, Ids, start, names, follow, findExisting)
  BY <1>2, <1>3, <1>5, Zenon
<1>8. at.node \in N
  BY <1>6, <1>7, ResolveStays
<1> QED
  BY <1>5, <1>8

-----------------------------------------------------------------------------
(* What the calls do to the tables. *)

\* A descriptor is taken for an instance that gains a user.
LEMMA TakenStep ==
    ASSUME NEW po, NEW pi, NEW n, NEW d, NEW w, Sound(po, pi, n, d, w),
           NEW k \in Nat \ {0}, NEW instance \in Nat, NEW po2, Taken(po, po2, k, instance), Len(po2) <= MaxFd,
           NEW i, i = instance + 1, NEW d2, Grows(d, d2),
           NEW pi2 \in Seq(InstanceRecords(d2)), Gains(po, pi, pi2, i), i <= Len(pi2), Len(pi) <= Len(pi2)
    PROVE  Sound(po2, pi2, n + 1, d2, w)
<1>1. /\ po \in Seq(EntryRecords) /\ pi \in Seq(InstanceRecords(d)) /\ w \in Seq(STRING)
      /\ \A j \in 1..Len(po) : po[j].instance < Len(pi)
  BY DEF Sound, Typed
<1>2. Len(po) \in Nat /\ Len(pi) \in Nat /\ Len(pi2) \in Nat /\ Len(po2) \in Nat
  BY <1>1, LenProperties DEF Taken
<1>3. Counted(po, pi, n)
  BY DEF Sound
<1>4. Counted(po2, pi2, n + 1)
  BY <1>1, <1>2, <1>3, TakenCounted
<1>5. ASSUME NEW j \in 1..Len(po2)
      PROVE  po2[j].instance < Len(pi2)
  <2>1. CASE j = k
    BY <1>2, <2>1 DEF Taken
  <2>2. CASE j # k /\ j <= Len(po)
    <3>1. po2[j] = po[j]
      BY <2>2 DEF Taken
    <3>2. po[j] \in EntryRecords /\ po[j].instance < Len(pi)
      BY <1>1, <1>2, <2>2, ElementOfSeq
    <3>3. po[j].instance \in Nat
      BY <3>2 DEF EntryRecords
    <3> QED
      BY <1>2, <3>1, <3>2, <3>3
  <2>3. CASE j # k /\ ~(j <= Len(po))
    <3>1. po2[j].instance = 0
      BY <2>3 DEF Taken
    <3> QED
      BY <1>2, <3>1
  <2> QED
    BY <2>1, <2>2, <2>3
<1>6. Typed(po2, pi2, d2, w)
  BY <1>1, <1>5 DEF Typed, Taken, Grows
<1> QED
  BY <1>4, <1>6 DEF Sound

\* fSetupFile uses an instance that is free, or a new one.
LEMMA NextInstanceIs ==
    ASSUME NEW S, pInstance \in Seq(S), NEW i, i = NextInstance
    PROVE  i \in 1..Len(pInstance) + 1 /\ (i <= Len(pInstance) => pInstance[i].node = NoNode)
<1> DEFINE free == {j \in 1..Len(pInstance) + 1 : j > Len(pInstance) \/ pInstance[j].node = NoNode}
<1>1. Len(pInstance) \in Nat
  BY LenProperties
<1>2. free \in SUBSET Nat /\ Len(pInstance) + 1 \in free
  BY <1>1
<1>3. i = CHOOSE j \in free : \A m \in free : j <= m
  BY Zenon DEF NextInstance
<1>4. \E j \in free : \A m \in free : j <= m
  <2> HIDE DEF free
  <2> QED
    BY <1>2, LeastNumber
<1>5. i \in free
  <2> HIDE DEF free
  <2> QED
    BY <1>3, <1>4
<1> QED
  BY <1>1, <1>5

\* While the limit is not reached, an index is free below it.
LEMMA IndexFree ==
    ASSUME FilesInv, pOpened < MaxFd, NEW index, index = NextFd(0)
    PROVE  /\ index \in Nat /\ FreeAt(pOpen, index)
           /\ index + 1 <= MaxFd /\ Len(pOpen) <= MaxFd
<1>1. pOpen \in Seq(EntryRecords) /\ pOpened = Cardinality(InUse(pOpen)) /\ Len(pOpen) <= MaxFd
  BY DEF FilesInv, Sound, Typed, Counted
<1>2. Len(pOpen) \in Nat /\ MaxFd \in Nat
  BY <1>1, LenProperties, FilesAssumption
<1>3. /\ index \in Nat /\ (0 < Len(pOpen) => index <= Len(pOpen)) /\ (0 >= Len(pOpen) => index = 0)
      /\ FreeAt(pOpen, index)
      /\ \A i \in Nat : 0 <= i /\ i < index /\ i < Len(pOpen) => pOpen[i + 1].used
  BY <1>1, NextFdIs
<1>4. CASE index < Len(pOpen)
  BY <1>1, <1>2, <1>3, <1>4
<1>5. CASE index >= Len(pOpen)
  <2>1. index = Len(pOpen)
    BY <1>2, <1>3, <1>5
  <2>2. ASSUME NEW f \in 1..Len(pOpen)
        PROVE  pOpen[f].used
    <3>1. PICK j \in Nat : j = f - 1
      <4>1. f - 1 \in Nat
        BY <1>2
      <4> QED
        BY <4>1, Zenon
    <3>2. j < index /\ j < Len(pOpen) /\ 0 <= j /\ j + 1 = f
      BY <1>2, <2>1, <3>1
    <3>3. pOpen[j + 1].used
      BY <1>3, <3>2
    <3> QED
      BY <3>2, <3>3
  <2>3. Cardinality(InUse(pOpen)) = Len(pOpen)
    BY <1>1, <2>2, TableFinite
  <2> QED
    BY <1>1, <1>2, <1>3, <2>1, <2>3
<1> QED
  BY <1>2, <1>3, <1>4, <1>5

\* An open call gives a node that is there its own instance and descriptor.
LEMMA SetupStep ==
    ASSUME FilesInv, pOpened < MaxFd, NEW node, NEW config \in Config, NEW cloexec \in BOOLEAN,
           SetupFile(node, config, cloexec), Grows(data, data'), node \in There(data')
    PROVE  FilesInv'
<1>1. /\ pOpen \in Seq(EntryRecords) /\ pInstance \in Seq(InstanceRecords(data))
      /\ \A f \in 1..Len(pOpen) : pOpen[f].instance < Len(pInstance)
      /\ \A j \in 1..Len(pInstance) : pInstance[j].node = NoNode <=> Users(pOpen, j) = {}
  BY DEF FilesInv, Sound, Typed, Counted
<1>2. PICK i : i = NextInstance
  OBVIOUS
<1>3. i \in 1..Len(pInstance) + 1 /\ (i <= Len(pInstance) => pInstance[i].node = NoNode)
  BY <1>1, <1>2, NextInstanceIs
<1>4. Len(pInstance) \in Nat
  BY <1>1, LenProperties
<1>5. PICK m : m = IF i > Len(pInstance) THEN i ELSE Len(pInstance)
  OBVIOUS
<1>6. m \in Nat /\ i \in 1..m /\ Len(pInstance) <= m /\ (\A j \in 1..m : j # i => j \in 1..Len(pInstance))
  BY <1>3, <1>4, <1>5
<1>7. PICK empty : empty = <<>>
  OBVIOUS
<1>8. empty \in Seq(Names)
  BY <1>7, EmptySeq, Zenon
<1>9. PICK new : new = [node |-> node, user |-> 1, offset |-> 0, config |-> config, cache |-> empty, outdated |-> FALSE]
  OBVIOUS
<1>10. new \in InstanceRecords(data') /\ new.user = 1 /\ new.node = node
  BY <1>8, <1>9 DEF InstanceRecords
<1>11. pInstance' = [j \in 1..m |-> IF j = i THEN new ELSE pInstance[j]]
  BY <1>2, <1>5, <1>7, <1>9, Zenon DEF SetupFile
<1>12. \A j \in 1..Len(pInstance) : pInstance[j] \in InstanceRecords(data')
  <2>1. InstanceRecords(data) \subseteq InstanceRecords(data')
    BY DEF InstanceRecords, Grows
  <2> QED
    BY <1>1, <2>1, ElementOfSeq
<1>13. PICK pi2 : pi2 = pInstance'
  OBVIOUS
<1>14. /\ pi2 \in [1..m -> InstanceRecords(data')] /\ pi2[i] = new
       /\ \A j \in 1..m : j # i => pi2[j] = pInstance[j]
  BY <1>6, <1>10, <1>11, <1>12, <1>13
<1>15. pi2 \in Seq(InstanceRecords(data')) /\ Len(pi2) = m
  BY <1>6, <1>14, FunctionIsSeq
<1>16. Users(pOpen, i) = {}
  <2>1. CASE i <= Len(pInstance)
    BY <1>1, <1>3, <2>1
  <2>2. CASE i > Len(pInstance)
    <3>1. i = Len(pInstance) + 1
      BY <1>3, <1>4, <2>2
    <3>2. \A f \in 1..Len(pOpen) : pOpen[f].instance # i - 1
      BY <1>1, <1>4, <3>1
    <3> QED
      BY <3>2 DEF Users
  <2> QED
    BY <1>3, <1>4, <2>1, <2>2
<1>17. Cardinality(Users(pOpen, i)) = 0
  BY <1>16, FS_EmptySet
<1>18. node # NoNode
  BY TreeAssumption DEF There
<1>19. Gains(pOpen, pInstance, pi2, i)
  BY <1>6, <1>10, <1>14, <1>15, <1>17, <1>18 DEF Gains
<1>20. PICK index : index = NextFd(0)
  OBVIOUS
<1>21. index \in Nat /\ FreeAt(pOpen, index) /\ index + 1 <= MaxFd /\ Len(pOpen) <= MaxFd
  BY <1>20, IndexFree
<1>22. PICK instance \in Nat : instance = i - 1
  <2>1. i - 1 \in Nat
    BY <1>3, <1>4
  <2> QED
    BY <2>1, Zenon
<1>23. PICK po2 : po2 = pOpen'
  OBVIOUS
<1>24. Enters(po2, index, instance, cloexec)
  BY <1>2, <1>20, <1>22, <1>23, Zenon DEF SetupFile, Enters
<1>25. PICK k : k = index + 1
  OBVIOUS
<1>26. Taken(pOpen, po2, k, instance) /\ k \in Nat \ {0}
  BY <1>1, <1>21, <1>24, <1>25, ExtendedTakes
<1>27. Len(po2) <= MaxFd
  BY <1>21, <1>25, <1>26 DEF Taken
<1>28. i = instance + 1 /\ i <= Len(pi2) /\ Len(pInstance) <= Len(pi2)
  BY <1>3, <1>4, <1>6, <1>15, <1>22
<1>29. Sound(po2, pi2, pOpened + 1, data', wd)
  BY <1>15, <1>19, <1>26, <1>27, <1>28, TakenStep DEF FilesInv
<1>30. pOpened' = pOpened + 1 /\ wd' = wd
  BY Zenon DEF SetupFile
<1> QED
  BY <1>13, <1>23, <1>29, <1>30 DEF FilesInv

-----------------------------------------------------------------------------
(* One lemma for each call that changes something. *)

\* A call that only answers keeps what is known.
LEMMA AnswerStep ==
    ASSUME FilesInv, UNCHANGED <<pOpen, pInstance, pOpened, data, wd>>
    PROVE  FilesInv'
BY DEF FilesInv

\* openat goes on only below the limit, with a node.
LEMMA OpenPasses ==
    ASSUME NEW b1, NEW b2, NEW b3, NEW b4, NEW b5, NEW e3, NEW e5, b3 = (e3 # "ok"), b5 = (e5 # "ok"),
           FirstError(<< <<b1, "eInvalid">>, <<b2, "eInvalid">>, <<b3, e3>>, <<b4, "eMaximumFiles">>, <<b5, e5>> >>) = "ok"
    PROVE  ~b4 /\ ~b5
<1>1. PICK c : c = << <<b1, "eInvalid">>, <<b2, "eInvalid">>, <<b3, e3>>, <<b4, "eMaximumFiles">>, <<b5, e5>> >>
  OBVIOUS
<1>2. DOMAIN c = 1..5
  BY <1>1
<1>3. c[1][2] # "ok" /\ c[2][2] # "ok" /\ c[4][2] # "ok"
  BY <1>1
<1>4. c[3][1] = b3 /\ c[3][2] = e3 /\ c[4][1] = b4 /\ c[5][1] = b5 /\ c[5][2] = e5
  BY <1>1
<1>5. ASSUME NEW i \in 1..5, c[i][1]
      PROVE  c[i][2] # "ok"
  <2>1. i = 1 \/ i = 2 \/ i = 3 \/ i = 4 \/ i = 5
    OBVIOUS
  <2>2. i = 3 => c[i][2] # "ok"
    BY <1>4, <1>5
  <2>3. i = 5 => c[i][2] # "ok"
    BY <1>4, <1>5
  <2> QED
    BY <1>3, <2>1, <2>2, <2>3
<1>6. FirstError(c) = "ok"
  BY <1>1, Zenon
<1>7. \A i \in 1..5 : ~c[i][1]
  BY <1>2, <1>5, <1>6, ChecksPassed
<1> QED
  BY <1>4, <1>7

\* The file is truncated on request, and the node was there.
LEMMA ExistingStep ==
    ASSUME FilesInv, pOpened < MaxFd, NEW node \in There(data), NEW flags, OpenExisting(node, flags)
    PROVE  FilesInv'
<1>1. CASE OpenError(node, flags) # "ok"
  BY <1>1, AnswerStep DEF OpenExisting, Fail
<1>2. CASE /\ SetupFile(node, ConfigOf(flags), "cloexec" \in flags)
           /\ data' = IF Tree.kind[node] = "file" /\ "truncate" \in flags
                      THEN [data EXCEPT ![node] = ResizeTo(@, 0)] ELSE data
  <2>1. /\ SetupFile(node, ConfigOf(flags), "cloexec" \in flags)
        /\ data' = IF Tree.kind[node] = "file" /\ "truncate" \in flags
                   THEN [data EXCEPT ![node] = ResizeTo(@, 0)] ELSE data
    BY <1>2, Zenon
  <2>2. Kept(data)
    BY DEF FilesInv, Sound, Typed
  <2>3. Grows(data, data')
    <3>1. CASE Tree.kind[node] = "file" /\ "truncate" \in flags
      <4>1. node \in DOMAIN FirstData /\ data[node] \in Seq(Nat)
        BY <2>2, <3>1, FileThere
      <4>2. PICK bytes : bytes = ResizeTo(data[node], 0)
        OBVIOUS
      <4>3. bytes \in Seq(Nat)
        BY <4>1, <4>2, ResizedBytes
      <4>4. Replaced(data, data', node, bytes)
        BY <2>1, <3>1, <4>2, Zenon DEF Replaced
      <4> QED
        BY <2>2, <4>1, <4>3, <4>4, DataStep
    <3>2. CASE ~(Tree.kind[node] = "file" /\ "truncate" \in flags)
      <4>1. data' = data
        BY <2>1, <3>2, Zenon
      <4> QED
        BY <2>2, <4>1 DEF Grows
    <3> QED
      BY <3>1, <3>2
  <2>4. PICK config, cloexec : config = ConfigOf(flags) /\ cloexec = ("cloexec" \in flags)
    OBVIOUS
  <2>5. config \in Config /\ cloexec \in BOOLEAN
    BY <2>4 DEF ConfigOf, Config
  <2>6. SetupFile(node, config, cloexec)
    BY <2>1, <2>4, Zenon
  <2>7. node \in There(data')
    BY <2>3 DEF Grows
  <2> QED
    BY <2>3, <2>5, <2>6, <2>7, SetupStep
<1>3. CASE UNCHANGED <<pOpen, pInstance, pOpened, data, wd>>
  BY <1>3, AnswerStep
<1> QED
  BY <1>1, <1>2, <1>3, Zenon DEF OpenExisting, Fail

\* A file that is created is empty, and there from then on.
LEMMA CreateStep ==
    ASSUME FilesInv, pOpened < MaxFd, NEW dir, NEW name, NEW flags, Create(dir, name, flags)
    PROVE  FilesInv'
<1>1. \/ UNCHANGED <<pOpen, pInstance, pOpened, data, wd>>
      \/ /\ <<dir, name>> \in DOMAIN Tree.entries
         /\ SetupFile(Tree.entries[dir, name], ConfigOf(flags), "cloexec" \in flags)
         /\ data' = [data EXCEPT ![Tree.entries[dir, name]] = <<>>]
  BY Zenon DEF Create, Fail
<1>2. CASE UNCHANGED <<pOpen, pInstance, pOpened, data, wd>>
  BY <1>2, AnswerStep
<1>3. CASE /\ <<dir, name>> \in DOMAIN Tree.entries
           /\ SetupFile(Tree.entries[dir, name], ConfigOf(flags), "cloexec" \in flags)
           /\ data' = [data EXCEPT ![Tree.entries[dir, name]] = <<>>]
  <2>1. PICK node : node = Tree.entries[dir, name]
    OBVIOUS
  <2>2. node \in DOMAIN Tree.kind
    BY <1>3, <2>1, TreeAssumption
  <2>3. PICK bytes : bytes = <<>>
    OBVIOUS
  <2>4. bytes \in Seq(Nat)
    BY <2>3, EmptySeq, Zenon
  <2>5. data' = [data EXCEPT ![node] = bytes]
    BY <1>3, <2>1, <2>3, Zenon
  <2>6. Kept(data)
    BY DEF FilesInv, Sound, Typed
  <2>7. Grows(data, data') /\ node \in There(data')
    <3>1. CASE node \in DOMAIN FirstData
      <4>1. Grows(data, data') /\ data'[node] = bytes
        <5>1. PICK d2 : d2 = data'
          OBVIOUS
        <5>2. Replaced(data, d2, node, bytes)
          BY <2>5, <5>1, Zenon DEF Replaced
        <5>3. Grows(data, d2) /\ d2[node] = bytes
          BY <2>4, <2>6, <3>1, <5>2, DataStep
        <5> QED
          BY <5>1, <5>3
      <4>2. bytes # Absent
        BY <2>4, DataAssumption
      <4> QED
        BY <2>2, <4>1, <4>2 DEF There
    <3>2. CASE node \notin DOMAIN FirstData
      <4>1. data' = data
        BY <2>5, <2>6, <3>2 DEF Kept
      <4> QED
        BY <2>2, <2>6, <3>2, <4>1 DEF Grows, There
    <3> QED
      BY <3>1, <3>2
  <2>8. PICK config, cloexec : config = ConfigOf(flags) /\ cloexec = ("cloexec" \in flags)
    OBVIOUS
  <2>9. config \in Config /\ cloexec \in BOOLEAN
    BY <2>8 DEF ConfigOf, Config
  <2>10. SetupFile(node, config, cloexec)
    BY <1>3, <2>1, <2>8, Zenon
  <2> QED
    BY <2>7, <2>9, <2>10, SetupStep
<1> QED
  BY <1>1, <1>2, <1>3

\* openat.
LEMMA OpenStep ==
    ASSUME FilesInv, NEW base, BaseThere(base), NEW path \in Paths, NEW flags, OpenAt(base, path, flags)
    PROVE  FilesInv'
<1> DEFINE exclusive == {"create", "exclusive"} \subseteq flags
           at == Find(base, path, FALSE, "nofollow" \notin flags /\ ~exclusive, "create" \notin flags)
           begin == CheckPath(Tree, wd, base, path, FALSE).err
           error == FirstError(<<
               <<{"update", "write"} \subseteq flags, "eInvalid">>,
               <<"directory" \in flags /\ flags \cap {"create", "exclusive", "truncate"} # {}, "eInvalid">>,
               <<begin # "ok", begin>>,
               <<pOpened >= MaxFd, "eMaximumFiles">>,
               <<at.err # "ok", at.err>> >>)
<1>1. CASE error # "ok"
  <2>1. Fail("open", error)
    BY <1>1, Zenon DEF OpenAt
  <2> QED
    BY <2>1, AnswerStep DEF Fail
<1>2. CASE error = "ok"
  <2>1. (at.found /\ OpenExisting(at.node, flags)) \/ (~at.found /\ Create(at.node, Last(path.names), flags))
    BY <1>2, Zenon DEF OpenAt
  <2>2. PICK b1, b2, b3, b4, b5, e3, e5 :
            /\ b1 = ({"update", "write"} \subseteq flags)
            /\ b2 = ("directory" \in flags /\ flags \cap {"create", "exclusive", "truncate"} # {})
            /\ b3 = (begin # "ok") /\ b4 = (pOpened >= MaxFd) /\ b5 = (at.err # "ok") /\ e3 = begin /\ e5 = at.err
    OBVIOUS
  <2>3. FirstError(<< <<b1, "eInvalid">>, <<b2, "eInvalid">>, <<b3, e3>>, <<b4, "eMaximumFiles">>, <<b5, e5>> >>) = "ok"
    BY <1>2, <2>2, Zenon
  <2> HIDE DEF error
  <2>4. b3 = (e3 # "ok") /\ b5 = (e5 # "ok")
    BY <2>2, Zenon
  <2>5. ~b4 /\ ~b5
    BY <2>3, <2>4, OpenPasses
  <2>6. ~(pOpened >= MaxFd) /\ at.err = "ok"
    BY <2>2, <2>5, Zenon
  <2>7. /\ Kept(data) /\ wd \in Seq(STRING) /\ pOpen \in Seq(EntryRecords)
        /\ pOpened = Cardinality(InUse(pOpen))
    BY DEF FilesInv, Sound, Typed, Counted
  <2>8. pOpened < MaxFd
    <3>1. pOpened \in Nat /\ MaxFd \in Nat
      BY <2>7, TableFinite, FilesAssumption
    <3> QED
      BY <2>6, <3>1
  <2>9. PICK a, follow, existing :
            a = at /\ follow = ("nofollow" \notin flags /\ ~exclusive) /\ existing = ("create" \notin flags)
    OBVIOUS
  <2>10. a = Find(base, path, FALSE, follow, existing) /\ a.err = "ok"
    BY <2>6, <2>9, Zenon
  <2>11. (a.found /\ OpenExisting(a.node, flags)) \/ (~a.found /\ Create(a.node, Last(path.names), flags))
    BY <2>1, <2>9, Zenon
  <2> HIDE DEF at, begin, exclusive
  <2>12. a.node \in There(data)
    BY <2>7, <2>10, FindThere
  <2>13. CASE OpenExisting(a.node, flags)
    BY <2>8, <2>12, <2>13, ExistingStep
  <2>14. CASE Create(a.node, Last(path.names), flags)
    BY <2>8, <2>14, CreateStep
  <2> QED
    BY <2>11, <2>13, <2>14
<1> QED
  BY <1>1, <1>2

\* As many descriptors are open as the table has entries in use, and the counter never wraps.
LEMMA OpenedIs ==
    ASSUME FilesInv
    PROVE  /\ pOpened \in Nat /\ pOpened <= MaxFd /\ pOpened < SizeLimit
           /\ \A i \in 1..Len(pInstance) : pInstance[i].user < SizeLimit
<1>1. /\ pOpen \in Seq(EntryRecords) /\ pOpened = Cardinality(InUse(pOpen)) /\ Len(pOpen) <= MaxFd
      /\ \A i \in 1..Len(pInstance) : pInstance[i].user = Cardinality(Users(pOpen, i))
  BY DEF FilesInv, Sound, Typed, Counted
<1>2. Len(pOpen) \in Nat /\ MaxFd \in Nat /\ SizeLimit \in Nat /\ MaxFd < SizeLimit
  BY <1>1, LenProperties, FilesAssumption
<1>3. Cardinality(InUse(pOpen)) \in Nat /\ Cardinality(InUse(pOpen)) <= Len(pOpen)
  BY <1>1, TableFinite
<1>4. \A i : Cardinality(Users(pOpen, i)) \in Nat /\ Cardinality(Users(pOpen, i)) <= Cardinality(InUse(pOpen))
  BY <1>1, TableFinite
<1>5. pOpened \in Nat /\ pOpened <= MaxFd /\ pOpened < SizeLimit
  BY <1>1, <1>2, <1>3
<1>6. ASSUME NEW i \in 1..Len(pInstance)
      PROVE  pInstance[i].user < SizeLimit
  BY <1>1, <1>2, <1>3, <1>4
<1> QED
  BY <1>5, <1>6

\* close: the last descriptor frees the instance.
LEMMA CloseStep ==
    ASSUME FilesInv, ~Stray, NEW fd \in Given, Close(fd)
    PROVE  FilesInv'
<1>1. CASE ~CheckFd(fd)
  BY <1>1, AnswerStep DEF Close, Fail
<1>2. CASE CheckFd(fd)
  <2> DEFINE left == Instance(fd).user - 1
  <2>1. /\ pInstance' = [pInstance EXCEPT ![Of(fd)] =
                IF left = 0 THEN [@ EXCEPT !.user = 0, !.cache = <<>>, !.node = NoNode]
                ELSE [@ EXCEPT !.user = left]]
        /\ pOpen' = [pOpen EXCEPT ![fd + 1].used = FALSE]
        /\ pOpened' = (pOpened - 1) % SizeLimit
        /\ data' = data /\ wd' = wd
    BY <1>2, Zenon DEF Close
  <2>2. /\ fd \in Nat /\ fd + 1 \in 1..Len(pOpen) /\ pOpen[fd + 1].used
        /\ pOpen[fd + 1] \in EntryRecords /\ pOpen[fd + 1].instance = Of(fd) - 1
        /\ Of(fd) \in 1..Len(pInstance) /\ Instance(fd) = pInstance[Of(fd)]
        /\ Instance(fd) \in InstanceRecords(data) /\ Instance(fd).node \in There(data)
        /\ fd + 1 \in Users(pOpen, Of(fd))
    BY <1>2, GivenIs
  <2>3. PICK i, k, old, u : i = Of(fd) /\ k = fd + 1 /\ old = pInstance[i] /\ u = left
    OBVIOUS
  <2>4. /\ pOpen \in Seq(EntryRecords) /\ pInstance \in Seq(InstanceRecords(data)) /\ Kept(data)
        /\ \A f \in 1..Len(pOpen) : pOpen[f].instance < Len(pInstance)
        /\ wd \in Seq(STRING) /\ Counted(pOpen, pInstance, pOpened)
    BY DEF FilesInv, Sound, Typed
  <2>5. PICK r : r = IF u = 0 THEN [old EXCEPT !.user = 0, !.cache = <<>>, !.node = NoNode]
                     ELSE [old EXCEPT !.user = u]
    OBVIOUS
  <2>6. PICK empty : empty = <<>>
    OBVIOUS
  <2>7. empty \in Seq(Names)
    BY <2>6, EmptySeq, Zenon
  <2>8. old \in InstanceRecords(data) /\ i \in 1..Len(pInstance) /\ k \in 1..Len(pOpen)
    BY <2>2, <2>3
  <2>9. old.user \in Nat \ {0}
    <3>1. old.user = Cardinality(Users(pOpen, i))
      BY <2>3, <2>4, <2>8 DEF Counted
    <3>2. IsFiniteSet(Users(pOpen, i)) /\ Cardinality(Users(pOpen, i)) \in Nat
      BY <2>4, TableFinite
    <3>3. Users(pOpen, i) # {}
      BY <2>2, <2>3
    <3> QED
      BY <3>1, <3>2, <3>3, FS_EmptySet
  <2>10. u \in Nat /\ u = old.user - 1
    BY <2>2, <2>3, <2>9
  <2> HIDE DEF left
  <2>11. /\ r \in InstanceRecords(data) /\ r.user = u
         /\ (IF u = 0 THEN r.node = NoNode ELSE r.node = old.node)
    <3>1. CASE u = 0
      <4>1. r = [old EXCEPT !.user = 0, !.cache = empty, !.node = NoNode]
        BY <2>5, <2>6, <3>1, Zenon
      <4>2. r.user = 0 /\ r.node = NoNode
        BY <2>8, <4>1 DEF InstanceRecords
      <4>3. r \in InstanceRecords(data)
        BY <2>7, <2>8, <4>1 DEF InstanceRecords
      <4> QED
        BY <3>1, <4>2, <4>3
    <3>2. CASE u # 0
      <4>1. r = [old EXCEPT !.user = u]
        BY <2>5, <3>2, Zenon
      <4>2. r \in InstanceRecords(data) /\ r.user = u /\ r.node = old.node
        BY <2>8, <2>10, <4>1 DEF InstanceRecords
      <4> QED
        BY <3>2, <4>2
    <3> QED
      BY <3>1, <3>2
  <2>set. Replaced(pInstance, pInstance', i, r)
    BY <2>1, <2>3, <2>5, Zenon DEF Replaced
  <2>12. /\ pInstance' \in Seq(InstanceRecords(data)) /\ Len(pInstance') = Len(pInstance) /\ pInstance'[i] = r
         /\ \A j \in 1..Len(pInstance) : j # i => pInstance'[j] = pInstance[j]
    BY <2>4, <2>8, <2>11, <2>set, ReplacedIs
  <2>13. Loses(pInstance, pInstance', i)
    BY <2>3, <2>9, <2>10, <2>11, <2>12 DEF Loses
  <2>14. PICK e : e = [pOpen[k] EXCEPT !.used = FALSE]
    OBVIOUS
  <2>15. e \in EntryRecords /\ ~e.used /\ e.instance = pOpen[k].instance
    BY <2>2, <2>3, <2>14 DEF EntryRecords
  <2>16. Replaced(pOpen, pOpen', k, e)
    BY <2>1, <2>3, <2>14 DEF Replaced
  <2>17. /\ pOpen' \in Seq(EntryRecords) /\ Len(pOpen') = Len(pOpen) /\ pOpen'[k] = e
         /\ \A j \in 1..Len(pOpen) : j # k => pOpen'[j] = pOpen[j]
    BY <2>4, <2>8, <2>15, <2>16, ReplacedIs
  <2>18. Freed(pOpen, pOpen', k)
    BY <2>2, <2>3, <2>15, <2>17 DEF Freed
  <2>19. pOpen[k].instance = i - 1
    BY <2>2, <2>3
  <2>20. Counted(pOpen', pInstance', pOpened - 1) /\ pOpened \in Nat \ {0}
    BY <2>4, <2>8, <2>13, <2>18, <2>19, FreedCounted
  <2>21. pOpened' = pOpened - 1
    <3>1. pOpened < SizeLimit /\ SizeLimit \in Nat
      BY OpenedIs, FilesAssumption
    <3> QED
      BY <2>1, <2>20, <3>1
  <2>22. \A f \in 1..Len(pOpen') : pOpen'[f].instance < Len(pInstance')
    BY <2>4, <2>12, <2>15, <2>17
  <2>23. Typed(pOpen', pInstance', data', wd')
    BY <2>1, <2>4, <2>12, <2>17, <2>22 DEF Typed
  <2> QED
    BY <2>20, <2>21, <2>23 DEF FilesInv, Sound
<1> QED
  BY <1>1, <1>2

\* An index below the limit is free, as long as the check before finds no error.
LEMMA DuplicatePasses ==
    ASSUME NEW b1, NEW b2,
           FirstError(<< <<b1, "eInvalid">>, <<b2, "eMaximumFiles">> >>) = "ok"
    PROVE  ~b1 /\ ~b2
<1>1. PICK c : c = << <<b1, "eInvalid">>, <<b2, "eMaximumFiles">> >>
  OBVIOUS
<1>2. DOMAIN c = 1..2 /\ c[1][1] = b1 /\ c[2][1] = b2
  BY <1>1
<1>3. c[1][2] # "ok" /\ c[2][2] # "ok"
  BY <1>1
<1>4. \A i \in 1..2 : c[i][1] => c[i][2] # "ok"
  BY <1>3
<1>5. FirstError(c) = "ok"
  BY <1>1, Zenon
<1>6. \A i \in 1..2 : ~c[i][1]
  BY <1>2, <1>4, <1>5, ChecksPassed
<1> QED
  BY <1>2, <1>6

\* fcntl with F_DUPFD: one more descriptor refers to the instance.
LEMMA DuplicateStep ==
    ASSUME FilesInv, ~Stray, NEW fd \in Given, NEW from \in -1..MaxFd, NEW cloexec \in BOOLEAN,
           Duplicate(fd, from, cloexec)
    PROVE  FilesInv'
<1> DEFINE index == IF from < 0 THEN 0 ELSE NextFd(from)
           error == FirstError(<<
               <<from < 0 \/ from >= MaxFd, "eInvalid">>,
               <<from < Len(pOpen) /\ index = Len(pOpen) /\ Len(pOpen) >= MaxFd, "eMaximumFiles">> >>)
<1>1. CASE ~CheckFd(fd) \/ error # "ok"
  <2>1. UNCHANGED <<pOpen, pInstance, pOpened, data, wd>>
    <3>1. Fail("duplicate", "eBadFd") \/ Fail("duplicate", error)
      BY <1>1, Zenon DEF Duplicate
    <3> QED
      BY <3>1, Zenon DEF Fail
  <2> QED
    BY <2>1, AnswerStep
<1>2. CASE CheckFd(fd) /\ error = "ok"
  <2>1. /\ pOpen' = [Extended(index) EXCEPT ![index + 1] = Entry(pOpen[fd + 1].instance, TRUE, cloexec)]
        /\ pInstance' = [pInstance EXCEPT ![Of(fd)].user = @ + 1]
        /\ pOpened' = (pOpened + 1) % SizeLimit
        /\ data' = data /\ wd' = wd
    BY <1>2, Zenon DEF Duplicate
  <2>2. PICK b1, b2 :
            /\ b1 = (from < 0 \/ from >= MaxFd)
            /\ b2 = (from < Len(pOpen) /\ index = Len(pOpen) /\ Len(pOpen) >= MaxFd)
    OBVIOUS
  <2>3. FirstError(<< <<b1, "eInvalid">>, <<b2, "eMaximumFiles">> >>) = "ok"
    BY <1>2, <2>2, Zenon
  <2> HIDE DEF error
  <2>4. ~b1 /\ ~b2
    BY <2>3, DuplicatePasses
  <2>5. /\ ~(from < 0) /\ ~(from >= MaxFd)
        /\ ~(from < Len(pOpen) /\ index = Len(pOpen) /\ Len(pOpen) >= MaxFd)
    BY <2>2, <2>4, Zenon
  <2>6. /\ fd \in Nat /\ fd + 1 \in 1..Len(pOpen) /\ pOpen[fd + 1].used
        /\ pOpen[fd + 1] \in EntryRecords /\ pOpen[fd + 1].instance = Of(fd) - 1
        /\ Of(fd) \in 1..Len(pInstance) /\ Instance(fd) = pInstance[Of(fd)]
        /\ Instance(fd) \in InstanceRecords(data) /\ Instance(fd).node \in There(data)
        /\ fd + 1 \in Users(pOpen, Of(fd))
    BY <1>2, GivenIs
  <2>7. /\ pOpen \in Seq(EntryRecords) /\ pInstance \in Seq(InstanceRecords(data)) /\ Kept(data)
        /\ Len(pOpen) <= MaxFd
        /\ \A j \in 1..Len(pInstance) : pInstance[j].user = Cardinality(Users(pOpen, j))
    BY DEF FilesInv, Sound, Typed, Counted
  <2>8. Len(pOpen) \in Nat /\ Len(pInstance) \in Nat /\ MaxFd \in Nat /\ SizeLimit \in Nat
    BY <2>7, LenProperties, FilesAssumption
  <2>9. from \in Nat /\ from < MaxFd
    BY <2>5, <2>8
  <2>10. PICK x : x = index
    OBVIOUS
  <2>11. x = NextFd(from)
    BY <2>9, <2>10
  <2>12. /\ x \in Nat /\ FreeAt(pOpen, x) /\ (from < Len(pOpen) => x <= Len(pOpen))
         /\ (from >= Len(pOpen) => x = from)
    BY <2>7, <2>9, <2>11, NextFdIs
  <2>13. x + 1 <= MaxFd
    <3>1. ~(from < Len(pOpen) /\ x = Len(pOpen) /\ Len(pOpen) >= MaxFd)
      BY <2>5, <2>10
    <3> HIDE DEF index
    <3> QED
      BY <2>7, <2>8, <2>9, <2>12, <3>1
  <2>14. PICK i, old, instance, n :
             i = Of(fd) /\ old = pInstance[i] /\ instance = pOpen[fd + 1].instance /\ n = old.user + 1
    OBVIOUS
  <2>15. instance \in Nat /\ i = instance + 1 /\ i \in 1..Len(pInstance)
    BY <2>6, <2>8, <2>14 DEF EntryRecords
  <2>16. Enters(pOpen', x, instance, cloexec)
    BY <2>1, <2>10, <2>14, Zenon DEF Enters
  <2> HIDE DEF index
  <2>17. PICK k, po2 : k = x + 1 /\ po2 = pOpen'
    OBVIOUS
  <2>18. Taken(pOpen, po2, k, instance) /\ k \in Nat \ {0}
    BY <2>7, <2>12, <2>15, <2>16, <2>17, ExtendedTakes
  <2>19. Len(po2) <= MaxFd
    BY <2>7, <2>8, <2>12, <2>13, <2>17, <2>18 DEF Taken
  <2>20. old \in InstanceRecords(data) /\ old.node # NoNode /\ old.user \in Nat /\ n \in Nat
    <3>1. old \in InstanceRecords(data) /\ old.node \in There(data)
      BY <2>6, <2>14
    <3>2. old.node # NoNode
      BY <3>1, TreeAssumption DEF There
    <3> QED
      BY <2>14, <3>1, <3>2 DEF InstanceRecords
  <2>21. PICK r : r = [old EXCEPT !.user = n]
    OBVIOUS
  <2>22. r \in InstanceRecords(data) /\ r.user = n /\ r.node = old.node
    BY <2>20, <2>21 DEF InstanceRecords
  <2>23. Replaced(pInstance, pInstance', i, r)
    BY <2>1, <2>14, <2>21, Zenon DEF Replaced
  <2>24. PICK pi2 : pi2 = pInstance'
    OBVIOUS
  <2>25. /\ pi2 \in Seq(InstanceRecords(data)) /\ Len(pi2) = Len(pInstance) /\ pi2[i] = r
         /\ \A j \in 1..Len(pInstance) : j # i => pi2[j] = pInstance[j]
    BY <2>7, <2>15, <2>22, <2>23, <2>24, ReplacedIs
  <2>26. n = Cardinality(Users(pOpen, i)) + 1
    BY <2>7, <2>14, <2>15
  <2>27. Gains(pOpen, pInstance, pi2, i)
    BY <2>20, <2>22, <2>25, <2>26 DEF Gains
  <2>28. Grows(data, data)
    BY <2>7 DEF Grows
  <2>29. Sound(po2, pi2, pOpened + 1, data, wd)
    <3>1. i <= Len(pi2) /\ Len(pInstance) <= Len(pi2)
      BY <2>8, <2>15, <2>25
    <3> QED
      BY <2>15, <2>18, <2>19, <2>25, <2>27, <2>28, <3>1, TakenStep DEF FilesInv
  <2>30. pOpened' = pOpened + 1
    <3>1. po2 \in Seq(EntryRecords) /\ pOpened + 1 = Cardinality(InUse(po2)) /\ Len(po2) <= MaxFd
      BY <2>29 DEF Sound, Typed, Counted
    <3>2. Cardinality(InUse(po2)) \in Nat /\ Cardinality(InUse(po2)) <= Len(po2) /\ Len(po2) \in Nat
      BY <3>1, TableFinite, LenProperties
    <3>3. MaxFd < SizeLimit /\ pOpened \in Nat
      BY OpenedIs, FilesAssumption
    <3>4. pOpened + 1 < SizeLimit
      BY <2>8, <3>1, <3>2, <3>3
    <3>5. (pOpened + 1) % SizeLimit = pOpened + 1
      BY <2>8, <3>3, <3>4
    <3> QED
      BY <2>1, <3>5
  <2> QED
    BY <2>1, <2>17, <2>24, <2>29, <2>30 DEF FilesInv
<1> QED
  BY <1>1, <1>2

\* fcntl with F_SETFD.
LEMMA CloseOnExecuteStep ==
    ASSUME FilesInv, ~Stray, NEW fd \in Given, NEW cloexec \in BOOLEAN, SetCloseOnExecute(fd, cloexec)
    PROVE  FilesInv'
<1>1. CASE ~CheckFd(fd)
  BY <1>1, AnswerStep DEF SetCloseOnExecute, Fail
<1>2. CASE CheckFd(fd)
  <2>1. /\ pOpen' = [pOpen EXCEPT ![fd + 1].cloexec = cloexec]
        /\ UNCHANGED <<pInstance, pOpened, data, wd>>
    BY <1>2, Zenon DEF SetCloseOnExecute
  <2>2. PICK k, e : k = fd + 1 /\ e = [pOpen[k] EXCEPT !.cloexec = cloexec]
    OBVIOUS
  <2>3. k \in 1..Len(pOpen) /\ pOpen[k] \in EntryRecords
    BY <1>2, <2>2, GivenIs
  <2>4. e \in EntryRecords /\ e.used = pOpen[k].used /\ e.instance = pOpen[k].instance
    BY <2>2, <2>3 DEF EntryRecords
  <2>5. Replaced(pOpen, pOpen', k, e)
    BY <2>1, <2>2, Zenon DEF Replaced
  <2>6. pOpen \in Seq(EntryRecords)
    BY DEF FilesInv, Sound, Typed
  <2>7. PICK po2 : po2 = pOpen'
    OBVIOUS
  <2>8. /\ po2 \in Seq(EntryRecords) /\ Len(po2) = Len(pOpen) /\ po2[k] = e
        /\ \A j \in 1..Len(pOpen) : j # k => po2[j] = pOpen[j]
    BY <2>3, <2>4, <2>5, <2>6, <2>7, ReplacedIs
  <2>9. \A j \in 1..Len(pOpen) : po2[j].used = pOpen[j].used /\ po2[j].instance = pOpen[j].instance
    BY <2>4, <2>8
  <2>10. InUse(po2) = InUse(pOpen)
    BY <2>8, <2>9 DEF InUse
  <2>11. \A i : Users(po2, i) = Users(pOpen, i)
    BY <2>8, <2>9 DEF Users
  <2>12. Counted(po2, pInstance, pOpened)
    BY <2>8, <2>10, <2>11 DEF FilesInv, Sound, Counted
  <2>13. Typed(po2, pInstance, data, wd)
    BY <2>8, <2>9 DEF FilesInv, Sound, Typed
  <2> QED
    BY <2>1, <2>7, <2>12, <2>13 DEF FilesInv, Sound
<1> QED
  BY <1>1, <1>2

\* A finite set in any order is a sequence of its members.
LEMMA SetAsSeq ==
    ASSUME NEW T, NEW S \in SUBSET T, IsFiniteSet(S)
    PROVE  SetToSeq(S) \in Seq(T)
<1>1. PICK n \in Nat : n = Cardinality(S)
  <2>1. Cardinality(S) \in Nat
    BY FS_CardinalityType
  <2> QED
    BY <2>1, Zenon
<1>2. PICK f : f \in Bijection(1..n, S)
  BY <1>1, FS_CardinalityType DEF ExistsBijection
<1>3. f \in [1..n -> S] /\ IsInjective(f)
  BY <1>2 DEF Bijection, Injection
<1>4. SetToSeq(S) = CHOOSE g \in [1..n -> S] : IsInjective(g)
  BY <1>1, Zenon DEF SetToSeq
<1>5. SetToSeq(S) \in [1..n -> S]
  BY <1>3, <1>4, Zenon
<1>6. SetToSeq(S) \in [1..n -> T]
  BY <1>5
<1> QED
  BY <1>6, FunctionIsSeq

\* The names in a directory are finitely many.
LEMMA NamesFinite ==
    ASSUME NEW D, IsFiniteSet(D), NEW dir, \A e \in D : e[2] \in STRING, NEW names,
           names = {e[2] : e \in {d \in D : d[1] = dir}}
    PROVE  IsFiniteSet(names) /\ names \subseteq STRING
<1>1. PICK S : S = {d \in D : d[1] = dir}
  OBVIOUS
<1>2. IsFiniteSet(S)
  BY <1>1, FS_Subset
<1>3. names = {e[2] : e \in S} /\ \A e \in S : e[2] \in STRING
  BY <1>1
<1>4. PICK f : f = [e \in S |-> e[2]]
  OBVIOUS
<1>5. f \in Surjection(S, names)
  BY <1>3, <1>4 DEF Surjection
<1>6. IsFiniteSet(names)
  BY <1>2, <1>5, FS_Surjection
<1> QED
  BY <1>3, <1>6

\* A directory is listed as names.
LEMMA ListDirNames ==
    ASSUME NEW dir, NEW list, list = ListDir(Current, dir)
    PROVE  list \in Seq(Names)
<1>1. PICK t : t = Current
  OBVIOUS
<1>2. /\ t.mounted = Tree.mounted
      /\ DOMAIN t.entries = {d \in DOMAIN Tree.entries : Exists(Tree.entries[d])}
  BY <1>1, TreeAssumption DEF Current
<1>3. PICK m, n : m = {e[2] : e \in {d \in DOMAIN t.mounted : d[1] = dir}}
                  /\ n = {e[2] : e \in {d \in DOMAIN t.entries : d[1] = dir}}
  OBVIOUS
<1>4. PICK dm, dn : dm = DOMAIN t.mounted /\ dn = DOMAIN t.entries
  OBVIOUS
<1>5. /\ IsFiniteSet(dm) /\ \A e \in dm : e[2] \in STRING
      /\ dn \subseteq DOMAIN Tree.entries /\ IsFiniteSet(DOMAIN Tree.entries) /\ \A e \in dn : e[2] \in STRING
  BY <1>2, <1>4, TreeAssumption
<1>6. IsFiniteSet(dn)
  BY <1>5, FS_Subset
<1>7. m = {e[2] : e \in {d \in dm : d[1] = dir}} /\ n = {e[2] : e \in {d \in dn : d[1] = dir}}
  BY <1>3, <1>4
<1>8. IsFiniteSet(m) /\ m \subseteq STRING
  BY <1>5, <1>7, NamesFinite
<1>9. IsFiniteSet(n) /\ n \subseteq STRING
  BY <1>5, <1>6, <1>7, NamesFinite
<1>10. PICK r : r = n \ m
  OBVIOUS
<1>11. IsFiniteSet(r) /\ r \in SUBSET Names /\ m \in SUBSET Names
  BY <1>8, <1>9, <1>10, FS_Subset DEF Names
<1>12. PICK dots : dots = <<".", "..">>
  OBVIOUS
<1>13. dots \in Seq(Names)
  BY <1>12, PairOf DEF Names
<1>14. list = dots \o SetToSeq(m) \o SetToSeq(r)
  BY <1>1, <1>3, <1>10, <1>12, Zenon DEF ListDir
<1>15. SetToSeq(m) \in Seq(Names) /\ SetToSeq(r) \in Seq(Names)
  BY <1>8, <1>11, SetAsSeq
<1>16. dots \o SetToSeq(m) \in Seq(Names)
  BY <1>13, <1>15, ConcatProperties
<1> QED
  BY <1>14, <1>15, <1>16, ConcatProperties

\* What a call makes of an open instance.
LEMMA ChangedStep ==
    ASSUME FilesInv, ~Stray, NEW fd \in Given, CheckFd(fd), NEW old, old = Instance(fd),
           NEW r \in InstanceRecords(data), r.node = old.node, r.user = old.user,
           NEW i, i = Of(fd), Replaced(pInstance, pInstance', i, r),
           UNCHANGED <<pOpen, pOpened, wd>>, Grows(data, data')
    PROVE  FilesInv'
<1>1. i \in 1..Len(pInstance) /\ old = pInstance[i]
  BY GivenIs
<1>2. PICK pi2, d2 : pi2 = pInstance' /\ d2 = data'
  OBVIOUS
<1>3. Replaced(pInstance, pi2, i, r) /\ Grows(data, d2)
  BY <1>2
<1>4. Sound(pOpen, pi2, pOpened, d2, wd)
  BY <1>1, <1>3, InstanceStep DEF FilesInv
<1> QED
  BY <1>2, <1>4 DEF FilesInv

\* Nothing but the files may change.
LEMMA Unwritten ==
    ASSUME FilesInv
    PROVE  Kept(data) /\ Grows(data, data)
BY DEF FilesInv, Sound, Typed, Grows

\* fcntl with F_SETFL.
LEMMA FlagsStep ==
    ASSUME FilesInv, ~Stray, NEW fd \in Given, NEW flags, SetFlags(fd, flags)
    PROVE  FilesInv'
<1>1. CASE ~CheckFd(fd) \/ ("nonblock" \in flags /\ Type(fd) \notin {"dir", "link", "file"})
  <2>1. UNCHANGED <<pOpen, pInstance, pOpened, data, wd>>
    BY <1>1, Zenon DEF SetFlags, Fail
  <2> QED
    BY <2>1, AnswerStep
<1>2. CASE CheckFd(fd) /\ ~("nonblock" \in flags /\ Type(fd) \notin {"dir", "link", "file"})
  <2>1. /\ pInstance' = [pInstance EXCEPT ![Of(fd)].config.append = "append" \in flags,
                                          ![Of(fd)].config.nonBlock = "nonblock" \in flags]
        /\ UNCHANGED <<pOpen, pOpened, data, wd>>
    BY <1>2, Zenon DEF SetFlags
  <2>2. PICK b, c, i, old :
            b = ("append" \in flags) /\ c = ("nonblock" \in flags) /\ i = Of(fd) /\ old = Instance(fd)
    OBVIOUS
  <2>3. b \in BOOLEAN /\ c \in BOOLEAN
    BY <2>2
  <2>4. i \in 1..Len(pInstance) /\ old = pInstance[i] /\ old \in InstanceRecords(data)
    BY <1>2, <2>2, GivenIs
  <2>5. PICK r : r = [old EXCEPT !.config.append = b, !.config.nonBlock = c]
    OBVIOUS
  <2>6. r \in InstanceRecords(data) /\ r.node = old.node /\ r.user = old.user
    BY <2>3, <2>4, <2>5 DEF InstanceRecords, Config
  <2>7. Replaced(pInstance, pInstance', i, r)
    <3>1. PICK r1 : r1 = [old EXCEPT !.config.append = b]
      OBVIOUS
    <3>2. PICK p1 : p1 = [pInstance EXCEPT ![i].config.append = b]
      OBVIOUS
    <3>3. pInstance' = [p1 EXCEPT ![i].config.nonBlock = c]
      BY <2>1, <2>2, <3>2, Zenon
    <3>4. r = [r1 EXCEPT !.config.nonBlock = c]
      BY <2>5, <3>1, Zenon
    <3>5. p1 = [pInstance EXCEPT ![i] = r1]
      BY <2>4, <3>1, <3>2, Zenon
    <3>6. DOMAIN pInstance = 1..Len(pInstance)
      BY LenProperties DEF FilesInv, Sound, Typed
    <3>7. p1[i] = r1
      BY <2>4, <3>5, <3>6
    <3>8. pInstance' = [p1 EXCEPT ![i] = r]
      BY <3>3, <3>4, <3>7, Zenon
    <3>9. pInstance' = [pInstance EXCEPT ![i] = r]
      BY <3>5, <3>8
    <3> QED
      BY <3>9, Zenon DEF Replaced
  <2>8. Grows(data, data')
    BY <2>1, Unwritten
  <2> QED
    BY <1>2, <2>1, <2>2, <2>6, <2>7, <2>8, ChangedStep
<1> QED
  BY <1>1, <1>2

\* What is read are bytes of the file.
LEMMA ReadBytes ==
    ASSUME NEW bytes \in Seq(Nat), NEW offset \in Int, NEW count \in Nat
    PROVE  ReadAt(bytes, offset, count) \in Seq(Nat)
<1>1. Len(bytes) \in Nat
  BY LenProperties
<1>2. CASE offset < 0 \/ offset >= Len(bytes)
  BY <1>2, EmptySeq, Zenon DEF ReadAt
<1>3. CASE ~(offset < 0 \/ offset >= Len(bytes))
  <2>1. PICK m \in Nat : m = offset
    <3>1. offset \in Nat
      BY <1>1, <1>3
    <3> QED
      BY <3>1, Zenon
  <2>2. PICK n : n = Least(offset + count, Len(bytes))
    OBVIOUS
  <2>3. n \in Int /\ n <= Len(bytes)
    BY <1>1, <2>2 DEF Least
  <2>4. ReadAt(bytes, offset, count) = SubSeq(bytes, m + 1, n)
    BY <1>3, <2>1, <2>2, Zenon DEF ReadAt
  <2> QED
    BY <2>3, <2>4, PartOf
<1> QED
  BY <1>2, <1>3

Moved(fd, x) == pInstance' = [pInstance EXCEPT ![Of(fd)].offset = x]

\* The offset of an open instance changes.
LEMMA MovedStep ==
    ASSUME FilesInv, ~Stray, NEW fd \in Given, CheckFd(fd), NEW x \in Int, Moved(fd, x),
           UNCHANGED <<pOpen, pOpened, wd>>, Grows(data, data')
    PROVE  FilesInv'
<1>1. PICK i, old : i = Of(fd) /\ old = Instance(fd)
  OBVIOUS
<1>2. old = pInstance[i] /\ old \in InstanceRecords(data)
  BY <1>1, GivenIs
<1>3. PICK r : r = [old EXCEPT !.offset = x]
  OBVIOUS
<1>4. r \in InstanceRecords(data) /\ r.node = old.node /\ r.user = old.user
  BY <1>2, <1>3 DEF InstanceRecords
<1>5. Replaced(pInstance, pInstance', i, r)
  BY <1>1, <1>2, <1>3, Zenon DEF Replaced, Moved
<1> QED
  BY <1>1, <1>4, <1>5, ChangedStep

\* read: the offset of a file moves by what was read.
LEMMA ReadStep ==
    ASSUME FilesInv, ~Stray, NEW fd \in Given, NEW count \in Nat, Read(fd, count)
    PROVE  FilesInv'
<1>1. CASE CheckRead(fd) # "ok"
  <2>1. Fail("read", CheckRead(fd))
    BY <1>1, Zenon DEF Read
  <2> QED
    BY <2>1, AnswerStep DEF Fail
<1>2. CASE CheckRead(fd) = "ok" /\ count = 0
  <2>1. UNCHANGED <<pOpen, pInstance, pOpened, data, wd>>
    BY <1>2, Zenon DEF Read
  <2> QED
    BY <2>1, AnswerStep
<1>3. CASE CheckRead(fd) = "ok" /\ count # 0 /\ ReadFile(fd, count)
  <2>1. ReadFile(fd, count)
    BY <1>3
  <2>2. CheckFd(fd)
    BY <1>3 DEF CheckRead
  <2>3. PICK file : file = (Type(fd) = "file")
    OBVIOUS
  <2>4. PICK bytes \in NodeRead(Instance(fd).node, IF file THEN Instance(fd).offset ELSE 0, count) :
            /\ pInstance' = IF file THEN [pInstance EXCEPT ![Of(fd)].offset = @ + Len(bytes)] ELSE pInstance
            /\ UNCHANGED <<pOpen, pOpened, data, wd>>
    BY <2>1, <2>3, Zenon DEF ReadFile
  <2>5. Kept(data) /\ Grows(data, data)
    BY Unwritten
  <2>6. CASE Type(fd) = "file"
    <3>1. PICK node, at : node = Instance(fd).node /\ at = Instance(fd).offset
      OBVIOUS
    <3>2. node \in There(data) /\ at \in Int /\ pInstance[Of(fd)] = Instance(fd) /\ Tree.kind[node] = "file"
      <4>1. Instance(fd) \in InstanceRecords(data)
        BY <2>2, GivenIs
      <4>2. at \in Int
        BY <3>1, <4>1 DEF InstanceRecords
      <4> QED
        BY <2>2, <2>6, <3>1, <4>2, GivenIs DEF Type
    <3>3. data[node] \in Seq(Nat)
      BY <2>5, <3>2, FileThere
    <3>4. bytes = ReadAt(data[node], at, count)
      <4>1. bytes \in NodeRead(node, at, count)
        BY <2>3, <2>4, <2>6, <3>1
      <4>2. NodeRead(node, at, count) = {ReadAt(data[node], at, count)}
        BY <3>2, Zenon DEF NodeRead
      <4> QED
        BY <4>1, <4>2
    <3>5. bytes \in Seq(Nat)
      BY <3>2, <3>3, <3>4, ReadBytes
    <3>6. Len(bytes) \in Nat
      BY <3>5, LenProperties
    <3>7. PICK x : x = at + Len(bytes)
      OBVIOUS
    <3>8. x \in Int
      BY <3>2, <3>6, <3>7
    <3>9. Moved(fd, x)
      <4>1. pInstance' = [pInstance EXCEPT ![Of(fd)].offset = @ + Len(bytes)]
        BY <2>3, <2>4, <2>6, Zenon
      <4> QED
        BY <3>1, <3>2, <3>7, <4>1, Zenon DEF Moved
    <3>10. Grows(data, data')
      BY <2>4, <2>5
    <3> QED
      BY <2>2, <2>4, <3>8, <3>9, <3>10, MovedStep
  <2>7. CASE Type(fd) # "file"
    <3>1. pInstance' = pInstance
      BY <2>3, <2>4, <2>7, Zenon
    <3> QED
      BY <2>4, <3>1, AnswerStep
  <2> QED
    BY <2>6, <2>7
<1>4. CASE UNCHANGED <<pOpen, pInstance, pOpened, data, wd>>
  BY <1>4, AnswerStep
<1> QED
  BY <1>1, <1>2, <1>3, <1>4, Zenon DEF Read, Fail

\* write: the file gets the bytes, and the offset moves behind them.
LEMMA WriteStep ==
    ASSUME FilesInv, ~Stray, NEW fd \in Given, NEW new \in Seq(Nat), Write(fd, new)
    PROVE  FilesInv'
<1>1. CASE CheckWrite(fd) # "ok"
  <2>1. Fail("write", CheckWrite(fd))
    BY <1>1, Zenon DEF Write
  <2> QED
    BY <2>1, AnswerStep DEF Fail
<1>2. CASE CheckWrite(fd) = "ok" /\ (new = <<>> \/ Type(fd) # "file")
  <2>1. UNCHANGED <<pOpen, pInstance, pOpened, data, wd>>
    BY <1>2, Zenon DEF Write
  <2> QED
    BY <2>1, AnswerStep
<1>3. CASE CheckWrite(fd) = "ok" /\ ~(new = <<>> \/ Type(fd) # "file") /\ WriteFile(fd, new)
  <2>1. WriteFile(fd, new)
    BY <1>3
  <2>2. CheckFd(fd) /\ Type(fd) = "file"
    <3>1. CheckFd(fd)
      BY <1>3 DEF CheckWrite
    <3> QED
      BY <1>3, <3>1, Zenon
  <2>3. PICK node, at :
            /\ node = Instance(fd).node
            /\ at = IF Instance(fd).config.append THEN Len(data[node]) ELSE Instance(fd).offset
    OBVIOUS
  <2>4. PICK count, bytes : count = WriteCount(data[node], at, new) /\ bytes = WriteAt(data[node], at, new)
    OBVIOUS
  <2>5. /\ data' = [data EXCEPT ![node] = bytes]
        /\ pInstance' = [pInstance EXCEPT ![Of(fd)].offset = at + count]
        /\ UNCHANGED <<pOpen, pOpened, wd>>
    BY <2>1, <2>3, <2>4, Zenon DEF WriteFile
  <2>6. Kept(data)
    BY Unwritten
  <2>7. node \in There(data) /\ Tree.kind[node] = "file" /\ Instance(fd) \in InstanceRecords(data)
    BY <2>2, <2>3, GivenIs DEF Type
  <2>8. node \in DOMAIN FirstData /\ data[node] \in Seq(Nat) /\ Len(data[node]) \in Nat
    BY <2>6, <2>7, FileThere
  <2>9. at \in Int
    <3>1. Instance(fd).offset \in Int
      BY <2>7 DEF InstanceRecords
    <3> QED
      BY <2>3, <2>8, <3>1
  <2>10. bytes \in Seq(Nat) /\ count \in Nat
    BY <2>4, <2>8, <2>9, WrittenBytes, CountIs
  <2>11. PICK d2 : d2 = data'
    OBVIOUS
  <2>12. Replaced(data, d2, node, bytes)
    BY <2>5, <2>11, Zenon DEF Replaced
  <2>13. Grows(data, d2)
    BY <2>6, <2>8, <2>10, <2>12, DataStep
  <2>14. PICK x : x = at + count
    OBVIOUS
  <2>15. x \in Int /\ Moved(fd, x)
    <3>1. x \in Int
      BY <2>9, <2>10, <2>14
    <3> QED
      BY <2>5, <2>14, <3>1, Zenon DEF Moved
  <2>16. Grows(data, data')
    BY <2>11, <2>13, Zenon
  <2> QED
    BY <2>2, <2>5, <2>15, <2>16, MovedStep
<1>4. CASE CheckWrite(fd) = "ok" /\ ~(new = <<>> \/ Type(fd) # "file") /\ WriteRefused(fd)
  <2>1. CheckFd(fd) /\ Type(fd) = "file"
    BY <1>4 DEF CheckWrite
  <2>2. PICK i, old, node : i = Of(fd) /\ old = Instance(fd) /\ node = old.node
    OBVIOUS
  <2>3. old = pInstance[i] /\ old \in InstanceRecords(data) /\ node \in There(data) /\ Tree.kind[node] = "file"
    BY <2>1, <2>2, GivenIs DEF Type
  <2>4. Kept(data) /\ Grows(data, data)
    BY Unwritten
  <2>5. PICK x : x = IF old.config.append THEN Len(data[node]) ELSE old.offset
    OBVIOUS
  <2>6. x \in Int
    <3>1. Len(data[node]) \in Nat
      BY <2>3, <2>4, FileThere
    <3>2. old.offset \in Int
      BY <2>3 DEF InstanceRecords
    <3> QED
      BY <2>5, <3>1, <3>2
  <2>7. /\ pInstance' = [pInstance EXCEPT ![i].offset = IF old.config.append THEN Len(data[node]) ELSE @]
        /\ UNCHANGED <<pOpen, pOpened, data, wd>>
    BY <1>4, <2>2, Zenon DEF WriteRefused
  <2>8. Moved(fd, x)
    BY <2>2, <2>3, <2>5, <2>7, Zenon DEF Moved
  <2> QED
    BY <2>1, <2>4, <2>6, <2>7, <2>8, MovedStep
<1> QED
  BY <1>1, <1>2, <1>3, <1>4, Zenon DEF Write

\* lseek leads from the end only in files.
LEMMA SeekPasses ==
    ASSUME NEW b1, NEW b2, NEW b3,
           FirstError(<< <<b1, "eInvalid">>, <<b2, "eInvalid">>, <<b3, "eInvalid">> >>) = "ok"
    PROVE  ~b2
<1>1. PICK c : c = << <<b1, "eInvalid">>, <<b2, "eInvalid">>, <<b3, "eInvalid">> >>
  OBVIOUS
<1>2. DOMAIN c = 1..3 /\ c[2][1] = b2
  BY <1>1
<1>3. c[1][2] # "ok" /\ c[2][2] # "ok" /\ c[3][2] # "ok"
  BY <1>1
<1>4. ASSUME NEW i \in 1..3, c[i][1]
      PROVE  c[i][2] # "ok"
  <2>1. i = 1 \/ i = 2 \/ i = 3
    OBVIOUS
  <2> QED
    BY <1>3, <2>1
<1>5. FirstError(c) = "ok"
  BY <1>1, Zenon
<1>6. \A i \in 1..3 : ~c[i][1]
  BY <1>2, <1>4, <1>5, ChecksPassed
<1> QED
  BY <1>2, <1>6

\* lseek.
LEMMA SeekStep ==
    ASSUME FilesInv, ~Stray, NEW fd \in Given, NEW offset \in Int, NEW whence \in {"set", "cur", "end"},
           Seek(fd, offset, whence)
    PROVE  FilesInv'
<1> DEFINE old == Instance(fd).offset
           new == CASE whence = "set" -> offset
                    [] whence = "cur" -> old + offset
                    [] whence = "end" -> Len(data[Instance(fd).node]) + offset
           error == FirstError(<<
               <<whence = "set" /\ offset < 0, "eInvalid">>,
               <<whence = "end" /\ Type(fd) # "file", "eInvalid">>,
               <<whence \in {"cur", "end"} /\ old + offset < 0, "eInvalid">> >>)
<1>1. CASE ~CheckFd(fd) \/ error # "ok"
  <2>1. Fail("seek", "eBadFd") \/ Fail("seek", error)
    BY <1>1, Zenon DEF Seek
  <2>2. UNCHANGED <<pOpen, pInstance, pOpened, data, wd>>
    BY <2>1, Zenon DEF Fail
  <2> QED
    BY <2>2, AnswerStep
<1>2. CASE CheckFd(fd) /\ error = "ok"
  <2>1. /\ pInstance' = [pInstance EXCEPT ![Of(fd)].offset = new]
        /\ UNCHANGED <<pOpen, pOpened, data, wd>>
    BY <1>2, Zenon DEF Seek
  <2>2. PICK b1, b2, b3 :
            /\ b1 = (whence = "set" /\ offset < 0) /\ b2 = (whence = "end" /\ Type(fd) # "file")
            /\ b3 = (whence \in {"cur", "end"} /\ old + offset < 0)
    OBVIOUS
  <2>3. FirstError(<< <<b1, "eInvalid">>, <<b2, "eInvalid">>, <<b3, "eInvalid">> >>) = "ok"
    BY <1>2, <2>2, Zenon
  <2> HIDE DEF error
  <2>4. ~b2
    BY <2>3, SeekPasses
  <2>5. whence = "end" => Type(fd) = "file"
    BY <2>2, <2>4, Zenon
  <2>6. PICK x : x = new
    OBVIOUS
  <2>7. Moved(fd, x)
    BY <2>1, <2>6, Zenon DEF Moved
  <2>8. Instance(fd) \in InstanceRecords(data) /\ Instance(fd).node \in There(data) /\ Kept(data)
    BY <1>2, GivenIs, Unwritten
  <2>9. old \in Int
    BY <2>8 DEF InstanceRecords
  <2>10. x \in Int
    <3>1. CASE whence = "set"
      BY <2>6, <3>1
    <3>2. CASE whence = "cur"
      <4>1. x = old + offset
        BY <2>6, <3>2
      <4> QED
        BY <2>9, <4>1
    <3>3. CASE whence = "end"
      <4>1. x = Len(data[Instance(fd).node]) + offset
        BY <2>6, <3>3
      <4>2. Len(data[Instance(fd).node]) \in Nat
        BY <2>5, <2>8, <3>3, FileThere DEF Type
      <4> QED
        BY <4>1, <4>2
    <3> QED
      BY <3>1, <3>2, <3>3
  <2> HIDE DEF new, old
  <2>11. Grows(data, data')
    BY <2>1, Unwritten
  <2> QED
    BY <1>2, <2>1, <2>7, <2>10, <2>11, MovedStep
<1> QED
  BY <1>1, <1>2

\* getdents64: the directory is listed anew, or the rest of it is returned.
LEMMA ListStep ==
    ASSUME FilesInv, ~Stray, NEW fd \in Given, NEW room \in Nat, List(fd, room)
    PROVE  FilesInv'
<1> DEFINE instance == Instance(fd)
           list == IF instance.offset > 0 /\ ~instance.outdated THEN instance.cache
                   ELSE ListDir(Current, instance.node)
           left == Len(list) - instance.offset
           by == IF left <= 0 THEN 0 ELSE Least(left, room)
           error == FirstError(<<
               <<~instance.config.read, "eBadFd">>,
               <<Tree.kind[instance.node] # "dir", "eNotDirectory">> >>)
<1>1. CASE ~CheckFd(fd) \/ error # "ok"
  <2>1. Fail("list", "eBadFd") \/ Fail("list", error)
    BY <1>1, Zenon DEF List
  <2>2. UNCHANGED <<pOpen, pInstance, pOpened, data, wd>>
    BY <2>1, Zenon DEF Fail
  <2> QED
    BY <2>2, AnswerStep
<1>2. CASE CheckFd(fd) /\ error = "ok" /\ ListEntries(fd, room, list)
  <2>1. /\ pInstance' = [pInstance EXCEPT ![Of(fd)].cache = list, ![Of(fd)].outdated = FALSE, ![Of(fd)].offset = @ + by]
        /\ UNCHANGED <<pOpen, pOpened, data, wd>>
    BY <1>2, Zenon DEF ListEntries
  <2>2. PICK i, old, names, m : i = Of(fd) /\ old = instance /\ names = list /\ m = by
    OBVIOUS
  <2>3. pInstance' = [pInstance EXCEPT ![i].cache = names, ![i].outdated = FALSE, ![i].offset = @ + m]
    BY <2>1, <2>2, Zenon
  <2>4. i \in 1..Len(pInstance) /\ old = pInstance[i] /\ old \in InstanceRecords(data)
    BY <1>2, <2>2, GivenIs
  <2>5. old.offset \in Int /\ old.cache \in Seq(Names)
    BY <2>4 DEF InstanceRecords
  <2>6. names \in Seq(Names)
    <3>1. names = old.cache \/ names = ListDir(Current, old.node)
      BY <2>2
    <3> QED
      BY <2>5, <3>1, ListDirNames
  <2>7. m \in Int
    <3>1. Len(names) \in Nat
      BY <2>6, LenProperties
    <3>2. PICK rest : rest = Len(names) - old.offset
      OBVIOUS
    <3>3. rest \in Int
      BY <2>5, <3>1, <3>2
    <3>4. m = IF rest <= 0 THEN 0 ELSE Least(rest, room)
      BY <2>2, <3>2, Zenon
    <3> HIDE DEF by, left, list, error
    <3> QED
      BY <3>3, <3>4 DEF Least
  <2> HIDE DEF by, left, list, error, instance
  <2>8. PICK x \in Int : x = old.offset + m
    <3>1. old.offset + m \in Int
      BY <2>5, <2>7
    <3> QED
      BY <3>1, Zenon
  <2>9. PICK r : r = [old EXCEPT !.cache = names, !.outdated = FALSE, !.offset = x]
    OBVIOUS
  <2>10. r \in InstanceRecords(data) /\ r.node = old.node /\ r.user = old.user
    BY <2>4, <2>6, <2>8, <2>9 DEF InstanceRecords
  <2>11. PICK n : n = Len(pInstance)
    OBVIOUS
  <2>12. pInstance \in [1..n -> InstanceRecords(data)] /\ i \in 1..n
    <3>1. pInstance \in Seq(InstanceRecords(data))
      BY DEF FilesInv, Sound, Typed
    <3> QED
      BY <2>4, <2>11, <3>1, LenProperties
  <2>13. Replaced(pInstance, pInstance', i, r)
    <3>1. PICK p1 : p1 = [pInstance EXCEPT ![i].cache = names, ![i].outdated = FALSE]
      OBVIOUS
    <3>2. pInstance' = [p1 EXCEPT ![i].offset = @ + m]
      BY <2>3, <3>1, Zenon
    <3>3. PICK r1 : r1 = [old EXCEPT !.cache = names, !.outdated = FALSE]
      OBVIOUS
    <3>4. r1.offset = old.offset /\ r = [r1 EXCEPT !.offset = x]
      BY <2>4, <2>9, <3>3 DEF InstanceRecords
    <3>5. p1 = [pInstance EXCEPT ![i] = r1]
      BY <2>4, <2>12, <3>1, <3>3
    <3>6. p1[i] = r1
      BY <2>12, <3>5
    <3>7. pInstance' = [p1 EXCEPT ![i] = r]
      BY <2>8, <3>2, <3>4, <3>6, Zenon
    <3>8. pInstance' = [pInstance EXCEPT ![i] = r]
      BY <2>12, <3>5, <3>7
    <3> QED
      BY <3>8, Zenon DEF Replaced
  <2>14. Grows(data, data')
    BY <2>1, Unwritten
  <2>15. old = Instance(fd)
    BY <2>2 DEF instance
  <2> QED
    BY <1>2, <2>1, <2>2, <2>10, <2>13, <2>14, <2>15, ChangedStep
<1>3. CASE CheckFd(fd) /\ ListRefused(fd)
  <2>1. PICK i, old : i = Of(fd) /\ old = Instance(fd)
    OBVIOUS
  <2>2. i \in 1..Len(pInstance) /\ old = pInstance[i] /\ old \in InstanceRecords(data)
    BY <1>3, <2>1, GivenIs
  <2>3. /\ pInstance' = [pInstance EXCEPT ![i].outdated = TRUE]
        /\ UNCHANGED <<pOpen, pOpened, data, wd>>
    BY <1>3, <2>1, Zenon DEF ListRefused
  <2>4. PICK r : r = [old EXCEPT !.outdated = TRUE]
    OBVIOUS
  <2>5. r \in InstanceRecords(data) /\ r.node = old.node /\ r.user = old.user
    BY <2>2, <2>4 DEF InstanceRecords
  <2>6. Replaced(pInstance, pInstance', i, r)
    BY <2>2, <2>3, <2>4, Zenon DEF Replaced
  <2>7. Grows(data, data')
    BY <2>3, Unwritten
  <2> QED
    BY <1>3, <2>1, <2>3, <2>5, <2>6, <2>7, ChangedStep
<1>4. CASE CheckFd(fd) /\ error = "ok"
  <2>1. ListEntries(fd, room, list) \/ ListRefused(fd)
    BY <1>4, Zenon DEF List
  <2> QED
    BY <1>2, <1>3, <1>4, <2>1
<1> QED
  BY <1>1, <1>4

\* chdir.
LEMMA DirectoryStep ==
    ASSUME FilesInv, NEW path \in Paths, ChangeDirectory(path)
    PROVE  FilesInv'
<1>1. PICK at : at = Find(WorkingDirectory, path, FALSE, TRUE, TRUE)
  OBVIOUS
<1>2. \/ UNCHANGED <<pOpen, pInstance, pOpened, data, wd>>
      \/ at.err = "ok" /\ wd' = BuildPath(at.node) /\ UNCHANGED <<pOpen, pInstance, pOpened, data>>
  <2>1. CASE at.err # "ok"
    BY <1>1, <2>1, Zenon DEF ChangeDirectory, Fail
  <2>2. CASE at.err = "ok" /\ Tree.kind[at.node] # "dir"
    <3>1. Fail("chdir", "eNotDirectory")
      BY <1>1, <2>2 DEF ChangeDirectory
    <3> QED
      BY <3>1, Zenon DEF Fail
  <2>3. CASE at.err = "ok" /\ Tree.kind[at.node] = "dir"
    BY <1>1, <2>3, Zenon DEF ChangeDirectory
  <2> QED
    BY <2>1, <2>2, <2>3
<1>3. CASE UNCHANGED <<pOpen, pInstance, pOpened, data, wd>>
  BY <1>3, AnswerStep
<1>4. CASE at.err = "ok" /\ wd' = BuildPath(at.node) /\ UNCHANGED <<pOpen, pInstance, pOpened, data>>
  <2>1. Kept(data) /\ wd \in Seq(STRING)
    BY DEF FilesInv, Sound, Typed
  <2>2. BaseThere(WorkingDirectory)
    BY DEF BaseThere, WorkingDirectory
  <2>3. at.node \in There(data)
    BY <1>1, <1>4, <2>1, <2>2, FindThere
  <2>4. BuildPath(at.node) \in Seq(STRING)
    BY <2>3, BuildPathNames DEF There
  <2> QED
    BY <1>4, <2>4 DEF FilesInv, Sound, Typed
<1> QED
  BY <1>2, <1>3, <1>4

\* The calls that only answer.
LEMMA AnswersKeep ==
    /\ \A fd : GetCloseOnExecute(fd) => UNCHANGED <<pOpen, pInstance, pOpened, data, wd>>
    /\ \A fd : GetFlags(fd) => UNCHANGED <<pOpen, pInstance, pOpened, data, wd>>
    /\ \A fd : Ioctl(fd) => UNCHANGED <<pOpen, pInstance, pOpened, data, wd>>
    /\ \A fd : StatFd(fd) => UNCHANGED <<pOpen, pInstance, pOpened, data, wd>>
    /\ \A fd, offset, count : MapRead(fd, offset, count) => UNCHANGED <<pOpen, pInstance, pOpened, data, wd>>
    /\ \A base, path, empty, follow :
          StatAt(base, path, empty, follow) => UNCHANGED <<pOpen, pInstance, pOpened, data, wd>>
    /\ \A base, path, wishes, empty, follow :
          AccessAt(base, path, wishes, empty, follow) => UNCHANGED <<pOpen, pInstance, pOpened, data, wd>>
    /\ \A base, path : ReadLinkAt(base, path) => UNCHANGED <<pOpen, pInstance, pOpened, data, wd>>
<1>1. \A fd : GetCloseOnExecute(fd) => UNCHANGED <<pOpen, pInstance, pOpened, data, wd>>
  BY Zenon DEF GetCloseOnExecute, Fail
<1>2. \A fd : GetFlags(fd) => UNCHANGED <<pOpen, pInstance, pOpened, data, wd>>
  BY Zenon DEF GetFlags, Fail
<1>3. \A fd : Ioctl(fd) => UNCHANGED <<pOpen, pInstance, pOpened, data, wd>>
  BY Zenon DEF Ioctl, Fail
<1>4. \A fd : StatFd(fd) => UNCHANGED <<pOpen, pInstance, pOpened, data, wd>>
  BY Zenon DEF StatFd, Fail
<1>5. \A fd, offset, count : MapRead(fd, offset, count) => UNCHANGED <<pOpen, pInstance, pOpened, data, wd>>
  BY Zenon DEF MapRead, Fail
<1>6. \A base, path, empty, follow :
          StatAt(base, path, empty, follow) => UNCHANGED <<pOpen, pInstance, pOpened, data, wd>>
  BY Zenon DEF StatAt, Fail
<1>7. \A base, path, wishes, empty, follow :
          AccessAt(base, path, wishes, empty, follow) => UNCHANGED <<pOpen, pInstance, pOpened, data, wd>>
  <2> SUFFICES ASSUME NEW base, NEW path, NEW wishes, NEW empty, NEW follow,
                      AccessAt(base, path, wishes, empty, follow)
               PROVE  UNCHANGED <<pOpen, pInstance, pOpened, data, wd>>
    BY Zenon
  <2>1. PICK at : at = Find(base, path, empty, follow, TRUE)
    OBVIOUS
  <2>2. PICK error : error = IF at.err # "ok" THEN at.err
                             ELSE IF wishes = {} \/ CheckAccess(Ids, Tree.access[at.node], wishes) THEN "ok"
                                  ELSE "eAccess"
    OBVIOUS
  <2>3. IF error # "ok" THEN Fail("access", error)
        ELSE Done("access", 0, <<>>) /\ UNCHANGED <<pOpen, pInstance, pOpened, data, wd>>
    BY <2>1, <2>2 DEF AccessAt
  <2> QED
    BY <2>3, Zenon DEF Fail
<1>8. \A base, path : ReadLinkAt(base, path) => UNCHANGED <<pOpen, pInstance, pOpened, data, wd>>
  BY Zenon DEF ReadLinkAt, Fail
<1> QED
  BY <1>1, <1>2, <1>3, <1>4, <1>5, <1>6, <1>7, <1>8

\* setup opens the terminal for each standard descriptor.
LEMMA InitSound == Init => FilesInv
<1> SUFFICES ASSUME Init
             PROVE  FilesInv
  OBVIOUS
<1>1. Standard \in Nat /\ Standard <= MaxFd /\ MaxFd \in Nat /\ Standard > 0
  BY FilesAssumption
<1>2. PICK s, po, pi, empty : s = Standard /\ po = pOpen /\ pi = pInstance /\ empty = <<>>
  OBVIOUS
<1>3. /\ po = [i \in 1..s |-> Entry(i - 1, TRUE, FALSE)]
      /\ pi = [i \in 1..s |->
                  [node |-> Terminal, user |-> 1, offset |-> 0,
                   config |-> [read |-> i = 1, write |-> i > 1, append |-> FALSE, modify |-> TRUE,
                              nonBlock |-> FALSE, creation |-> {}],
                   cache |-> empty, outdated |-> FALSE]]
      /\ pOpened = s /\ data = FirstData /\ wd = empty
  BY <1>2, Zenon DEF Init
<1>4. empty \in Seq(STRING) /\ empty \in Seq(Names)
  BY <1>2, EmptySeq, Zenon
<1>5. s \in Nat /\ s <= MaxFd
  BY <1>1, <1>2
<1>6. \A i \in 1..s : po[i] \in EntryRecords /\ po[i].used /\ po[i].instance = i - 1
  BY <1>3, <1>5 DEF Entry, EntryRecords
<1>7. Kept(data)
  <2>1. FirstData \in [DOMAIN FirstData -> Seq(Nat) \cup {Absent}]
    BY DataAssumption
  <2> QED
    BY <1>3, <2>1 DEF Kept
<1>8. Terminal \in There(data) /\ Terminal # NoNode
  BY <1>7, CurrentClosed, TreeAssumption
<1>9. ASSUME NEW i \in 1..s
      PROVE  pi[i] \in InstanceRecords(data) /\ pi[i].user = 1 /\ pi[i].node = Terminal
  <2>1. PICK config : config = [read |-> i = 1, write |-> i > 1, append |-> FALSE, modify |-> TRUE,
                              nonBlock |-> FALSE, creation |-> {}]
    OBVIOUS
  <2>2. config \in Config
    BY <1>5, <2>1 DEF Config
  <2>3. pi[i] = [node |-> Terminal, user |-> 1, offset |-> 0, config |-> config, cache |-> empty, outdated |-> FALSE]
    BY <1>3, <2>1, Zenon
  <2> QED
    BY <1>4, <1>8, <2>2, <2>3 DEF InstanceRecords
<1>10. po \in [1..s -> EntryRecords] /\ pi \in [1..s -> InstanceRecords(data)]
  BY <1>3, <1>6, <1>9
<1>11. po \in Seq(EntryRecords) /\ Len(po) = s /\ pi \in Seq(InstanceRecords(data)) /\ Len(pi) = s
  BY <1>5, <1>10, FunctionIsSeq
<1>12. \A i \in 1..Len(po) : po[i].instance < Len(pi)
  BY <1>5, <1>6, <1>11
<1>13. Cardinality(InUse(po)) = s
  BY <1>6, <1>11, TableFinite
<1>14. ASSUME NEW i \in 1..s
       PROVE  Users(po, i) = {i} /\ Cardinality(Users(po, i)) = 1
  <2>1. Users(po, i) = {i}
    BY <1>5, <1>6, <1>11 DEF Users
  <2> QED
    BY <2>1, FS_Singleton
<1>15. Counted(po, pi, s)
  BY <1>5, <1>8, <1>9, <1>11, <1>13, <1>14 DEF Counted
<1>16. Typed(po, pi, data, wd)
  BY <1>3, <1>4, <1>7, <1>11, <1>12 DEF Typed
<1> QED
  BY <1>2, <1>3, <1>15, <1>16 DEF FilesInv, Sound

\* A call on a path.
LEMMA OnPathStep ==
    ASSUME FilesInv, NEW base, BaseThere(base), NEW path \in Paths, OnPath(base, path)
    PROVE  FilesInv'
<1>1. CASE \E flags \in OpenFlags : OpenAt(base, path, flags)
  BY <1>1, OpenStep
<1>2. CASE \E at \in AtFlags : StatAt(base, path, "empty" \in at, "nofollow" \notin at)
  <2>1. UNCHANGED <<pOpen, pInstance, pOpened, data, wd>>
    BY <1>2, AnswersKeep, Zenon
  <2> QED
    BY <2>1, AnswerStep
<1>3. CASE \E wishes \in Wishes, at \in AtFlags :
                 AccessAt(base, path, wishes, "empty" \in at, "nofollow" \notin at)
  <2>1. UNCHANGED <<pOpen, pInstance, pOpened, data, wd>>
    BY <1>3, AnswersKeep, Zenon
  <2> QED
    BY <2>1, AnswerStep
<1>4. CASE ReadLinkAt(base, path)
  <2>1. UNCHANGED <<pOpen, pInstance, pOpened, data, wd>>
    BY <1>4, AnswersKeep, Zenon
  <2> QED
    BY <2>1, AnswerStep
<1> QED
  BY <1>1, <1>2, <1>3, <1>4 DEF OnPath

\* A call on a descriptor.
LEMMA OnDescriptorStep ==
    ASSUME FilesInv, ~Stray, NEW fd \in Given, OnDescriptor(fd)
    PROVE  FilesInv'
<1>1. CASE Close(fd)
  BY <1>1, CloseStep
<1>2. CASE GetCloseOnExecute(fd) \/ GetFlags(fd) \/ Ioctl(fd) \/ StatFd(fd) \/ (\E count \in Counts : MapRead(fd, 0, count))
  <2>1. UNCHANGED <<pOpen, pInstance, pOpened, data, wd>>
    BY <1>2, AnswersKeep, Zenon
  <2> QED
    BY <2>1, AnswerStep
<1>3. CASE \E from \in -1..MaxFd, cloexec \in CloseOnExecute : Duplicate(fd, from, cloexec)
  <2>1. PICK from \in -1..MaxFd, cloexec \in CloseOnExecute : Duplicate(fd, from, cloexec)
    BY <1>3
  <2>2. cloexec \in BOOLEAN
    BY FilesAssumption
  <2> QED
    BY <2>1, <2>2, DuplicateStep
<1>4. CASE \E cloexec \in CloseOnExecute : SetCloseOnExecute(fd, cloexec)
  <2>1. PICK cloexec \in CloseOnExecute : SetCloseOnExecute(fd, cloexec)
    BY <1>4
  <2>2. cloexec \in BOOLEAN
    BY FilesAssumption
  <2> QED
    BY <2>1, <2>2, CloseOnExecuteStep
<1>5. CASE \E flags \in StatusFlags : SetFlags(fd, flags)
  BY <1>5, FlagsStep
<1>6. CASE \E count \in Counts : Read(fd, count)
  <2>1. PICK count \in Counts : Read(fd, count)
    BY <1>6
  <2>2. count \in Nat
    BY FilesAssumption
  <2> QED
    BY <2>1, <2>2, ReadStep
<1>7. CASE \E new \in Texts : Write(fd, new)
  <2>1. PICK new \in Texts : Write(fd, new)
    BY <1>7
  <2>2. new \in Seq(Nat)
    BY DataAssumption
  <2> QED
    BY <2>1, <2>2, WriteStep
<1>8. CASE \E seek \in Seeks : Seek(fd, seek[1], seek[2])
  <2>1. PICK seek \in Seeks : Seek(fd, seek[1], seek[2])
    BY <1>8, Zenon
  <2>2. PICK offset, whence : offset = seek[1] /\ whence = seek[2]
    OBVIOUS
  <2>3. offset \in Int /\ whence \in {"set", "cur", "end"}
    BY <2>2, FilesAssumption
  <2>4. Seek(fd, offset, whence)
    BY <2>1, <2>2, Zenon
  <2> QED
    BY <2>3, <2>4, SeekStep
<1>9. CASE \E room \in ListCounts : List(fd, room)
  <2>1. PICK room \in ListCounts : List(fd, room)
    BY <1>9
  <2>2. room \in Nat
    BY FilesAssumption
  <2> QED
    BY <2>1, <2>2, ListStep
<1> QED
  BY <1>1, <1>2, <1>3, <1>4, <1>5, <1>6, <1>7, <1>8, <1>9, Zenon DEF OnDescriptor

\* Every step keeps the invariant.
LEMMA FilesStep ==
    ASSUME FilesInv, ~Stray, [Next]_vars
    PROVE  FilesInv'
<1>1. BaseThere(WorkingDirectory)
  BY DEF BaseThere, WorkingDirectory
<1>2. ASSUME NEW fd \in Given
      PROVE  BaseThere(Below(fd))
  <2>1. CASE CheckFd(fd)
    <3>1. Instance(fd).node \in There(data)
      BY <2>1, GivenIs
    <3> QED
      BY <2>1, <3>1 DEF BaseThere, Below
  <2>2. CASE ~CheckFd(fd)
    BY <2>2 DEF BaseThere, Below
  <2> QED
    BY <2>1, <2>2
<1>3. CASE UNCHANGED vars
  BY <1>3, AnswerStep DEF vars
<1>4. CASE \E path \in Paths : ChangeDirectory(path) \/ OnPath(WorkingDirectory, path)
  <2>1. PICK path \in Paths : ChangeDirectory(path) \/ OnPath(WorkingDirectory, path)
    BY <1>4
  <2>2. CASE ChangeDirectory(path)
    BY <2>2, DirectoryStep
  <2>3. CASE OnPath(WorkingDirectory, path)
    BY <1>1, <2>3, OnPathStep
  <2> QED
    BY <2>1, <2>2, <2>3
<1>5. CASE \E fd \in Given : OnDescriptor(fd) \/ \E path \in {p \in Paths : ~p.abs} : OnPath(Below(fd), path)
  <2>1. PICK fd \in Given : OnDescriptor(fd) \/ \E path \in {p \in Paths : ~p.abs} : OnPath(Below(fd), path)
    BY <1>5, Zenon
  <2>2. CASE OnDescriptor(fd)
    BY <2>2, OnDescriptorStep
  <2>3. CASE \E path \in {p \in Paths : ~p.abs} : OnPath(Below(fd), path)
    <3>1. PICK path \in {p \in Paths : ~p.abs} : OnPath(Below(fd), path)
      BY <2>3, Zenon
    <3>2. PICK base : base = Below(fd)
      OBVIOUS
    <3>3. BaseThere(base) /\ OnPath(base, path) /\ path \in Paths
      BY <1>2, <3>1, <3>2
    <3> QED
      BY <3>3, OnPathStep
  <2> QED
    BY <2>1, <2>2, <2>3
<1> QED
  BY <1>3, <1>4, <1>5, Zenon DEF Next

-----------------------------------------------------------------------------
(* A program that passes no descriptor it has closed.  One that does        *)
(* reaches through it whatever instance the entry still names, and may      *)
(* close the file of another descriptor (see Stray).                       *)

\* The tables of FileIO stay typed and counted, and each open instance has a node that is there.
THEOREM FilesSound ==
    ASSUME ~Stray
    PROVE  Spec => []FilesInv
<1>1. FilesInv /\ [Next]_vars => FilesInv'
  BY FilesStep
<1> QED
  BY <1>1, InitSound, PTL DEF Spec

\* An instance lives exactly as long as a descriptor refers to it, and the counters agree with the table.
THEOREM AllCounted ==
    ASSUME ~Stray
    PROVE  Spec => []InstancesCounted
<1>1. FilesInv => InstancesCounted
  <2> SUFFICES ASSUME FilesInv
               PROVE  InstancesCounted
    OBVIOUS
  <2>1. pInstance \in Seq(InstanceRecords(data)) /\ Counted(pOpen, pInstance, pOpened)
    BY DEF FilesInv, Sound, Typed
  <2>2. DOMAIN pInstance = 1..Len(pInstance)
    BY <2>1, LenProperties
  <2>3. \A i : UsersOf(i) = Users(pOpen, i)
    BY DEF UsersOf, Users
  <2>4. InUse(pOpen) = {fd \in 1..Len(pOpen) : pOpen[fd].used}
    BY DEF InUse
  <2> QED
    BY <2>1, <2>2, <2>3, <2>4 DEF Counted, InstancesCounted
<1> QED
  BY <1>1, FilesSound, PTL

\* Every variable keeps its type.
THEOREM FilesTyped ==
    ASSUME ~Stray
    PROVE  Spec => []TypeOK
<1>1. FilesInv => TypeOK
  <2> SUFFICES ASSUME FilesInv
               PROVE  TypeOK
    OBVIOUS
  <2>1. /\ pOpen \in Seq(EntryRecords) /\ pInstance \in Seq(InstanceRecords(data))
        /\ \A i \in 1..Len(pOpen) : pOpen[i].instance < Len(pInstance)
    BY DEF FilesInv, Sound, Typed
  <2>2. /\ DOMAIN pInstance = 1..Len(pInstance) /\ Len(pInstance) \in Nat
        /\ DOMAIN pOpen = 1..Len(pOpen) /\ Len(pOpen) \in Nat
    BY <2>1, LenProperties
  <2>3. SizeLimit \in Nat /\ pOpened \in 0..SizeLimit - 1
    BY OpenedIs, FilesAssumption
  <2>4. ASSUME NEW i \in DOMAIN pOpen
        PROVE  pOpen[i] \in [instance : 0..Len(pInstance) - 1, used : BOOLEAN, cloexec : BOOLEAN]
    <3>1. pOpen[i] \in EntryRecords /\ pOpen[i].instance < Len(pInstance)
      BY <2>1, <2>2, <2>4, ElementOfSeq
    <3> QED
      BY <2>2, <3>1 DEF EntryRecords
  <2>5. ASSUME NEW i \in DOMAIN pInstance
        PROVE  /\ pInstance[i].node \in DOMAIN Tree.kind \cup {NoNode}
               /\ pInstance[i].user \in 0..SizeLimit - 1 /\ pInstance[i].offset \in Int
               /\ pInstance[i].config \in Config /\ pInstance[i].outdated \in BOOLEAN
    <3>1. pInstance[i] \in InstanceRecords(data) /\ pInstance[i].user < SizeLimit
      BY <2>1, <2>2, <2>5, ElementOfSeq, OpenedIs
    <3> QED
      BY <2>3, <3>1 DEF InstanceRecords, There
  <2> QED
    BY <2>3, <2>4, <2>5 DEF TypeOK
<1> QED
  BY <1>1, FilesSound, PTL
=============================================================================
