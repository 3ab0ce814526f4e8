----------------------------- MODULE Superblock -----------------------------
(***************************************************************************)
(* How a strand of instructions with jumps among them becomes structured   *)
(* WebAssembly (gen::detail::SuperBlock, driven by gen::Block::fProcess).  *)
(*                                                                         *)
(* Instructions are pushed until the strand ends; their jumps become       *)
(* ranges, which are widened until no two of them cross; then the code is  *)
(* written chunk by chunk, with a loop or a block opened for each range,   *)
(* and the jumps look their targets up among the open ones.                *)
(*                                                                         *)
(* An instruction stands at the address that is its index, from zero on.   *)
(***************************************************************************)
EXTENDS Integers, Sequences, SequencesExt, FiniteSets

CONSTANTS
    Length,         \* the most instructions of a strand that is modelled
    Jumps,          \* how many of them may jump within the strand
    Single          \* whether each instruction is a chunk of its own (debugging)
ASSUME LengthAssumption == Length \in Nat \ {0} /\ Jumps \in Nat /\ Single \in BOOLEAN

VARIABLES
    list,           \* pList
    ranges,         \* pRanges, those not yet opened once code is written (from pIt on)
    stack,          \* pStack
    targets,        \* pTargets
    index,          \* pIndex
    code,           \* what was written to the sink
    phase           \* where fProcess stands
vars == <<list, ranges, stack, targets, index, code, phase>>

Elsewhere == Length + 1
Addresses == 0..Length
Kinds == {"primitive", "conditionalDirect", "jumpDirect", "endOfBlock", "invalid", "readFailure"}
Entry(kind, target) ==
    [kind |-> kind, target |-> target, branches |-> kind \in {"conditionalDirect", "jumpDirect"},
     invalid |-> kind \in {"invalid", "readFailure"}]
Size == Len(list)
At(k) == list[k + 1]

Init ==
    /\ list = <<>> /\ ranges = {} /\ stack = <<>> /\ targets = <<>> /\ index = 0 /\ code = <<>>
    /\ phase = "push"

(* push and readFailure: whether the strand goes on behind the last entry. *)
Continues(entries) ==
    LET last == entries[Len(entries)]
    IN ~last.invalid /\ (\/ last.kind \notin {"endOfBlock", "jumpDirect"}
                         \/ \E k \in 1..Len(entries) : entries[k].branches /\ entries[k].target = Len(entries))
IsJump(entry) == entry.branches
Push ==
    /\ phase = "push" /\ Size < Length
    /\ \E kind \in Kinds, target \in Addresses \cup {Elsewhere} :
           LET entry == Entry(kind, target)
               entries == Append(list, entry)
           IN /\ ~entry.branches => target = Elsewhere
              /\ Cardinality({k \in 1..Len(entries) : IsJump(entries[k])}) <= Jumps
              /\ list' = entries
              /\ phase' = IF Continues(entries) THEN "push" ELSE "ranges"
    /\ UNCHANGED <<ranges, stack, targets, index, code>>
(* The last one, as the strand is bounded here.                            *)
PushLast ==
    /\ phase = "push" /\ Size = Length
    /\ \E kind \in {"endOfBlock", "invalid"} : list' = Append(list, Entry(kind, Elsewhere))
    /\ phase' = "ranges"
    /\ UNCHANGED <<ranges, stack, targets, index, code>>

-----------------------------------------------------------------------------
(* The order of InstRange: of those that start together the longer one     *)
(* first.                                                                  *)
Span(first, last, type) == [first |-> first, last |-> last, type |-> type]
Spans ==
    {r \in [first : 0..Length, last : 0..Length, type : {"backwards", "conditional", "forwards"}] : r.first <= r.last}
Rank(type) == CASE type = "backwards" -> 0 [] type = "conditional" -> 1 [] type = "forwards" -> 2
Precedes(a, b) ==
    \/ a.first < b.first
    \/ a.first = b.first /\ a.last > b.last
    \/ a.first = b.first /\ a.last = b.last /\ Rank(a.type) < Rank(b.type)
Earliest(set) == CHOOSE r \in set : \A other \in set : r = other \/ Precedes(r, other)

(* fSetupRanges: the least that wraps a jump and its target.               *)
SetupRanges ==
    {LET target == At(k).target
     IN IF target <= k THEN Span(target, k, "backwards") ELSE Span(k, target - 1, "forwards") :
        k \in {n \in 0..Size - 1 : At(n).branches /\ At(n).target < Size}}

(* fConflictCluster: what is left of the cluster, and what is put out.     *)
(* Ranges that end or begin where the cluster does are replaced by the one *)
(* that spans it; failing that, a loop is drawn up to the begin of the     *)
(* cluster, from where a conditional jump leads to where it began.         *)
ConflictCluster(cluster, first, last) ==
    LET forwards == {r \in cluster : r.type # "backwards" /\ r.last = last}
        backwards == {r \in cluster : r.type = "backwards" /\ r.first = first}
        irreducible == {r \in cluster : r.type = "backwards" /\ r.last = last}
        replaced == Earliest(forwards \cup backwards)
        drawn == Earliest(irreducible)
    IN CASE forwards \cup backwards # {} ->
                [left |-> cluster \ (IF replaced.type = "backwards" THEN backwards ELSE forwards),
                 out |-> {Span(first, last, replaced.type)}]
         [] forwards \cup backwards = {} /\ irreducible # {} ->
                [left |-> (cluster \ {drawn}) \cup {Span(first, drawn.first - 1, "conditional")},
                 out |-> {Span(first, last, "backwards")}]
         [] OTHER -> [left |-> {}, out |-> {Span(first, last, "none")}]

(* The first ranges that overlap, one reaching into the next.              *)
(* MUTANT: the reach of a cluster is that of its first range.              *)
ClusterOfFirst(raw) ==
    LET first == Earliest(raw)
    IN [members |-> {r \in raw : r.first <= first.last}, first |-> first.first, last |-> first.last]

Cluster(raw) ==
    LET first == Earliest(raw).first
        closed == {last \in {r.last : r \in raw} : \A r \in raw : r.first <= last => r.last <= last}
        last == CHOOSE l \in closed : \A other \in closed : l <= other
    IN [members |-> {r \in raw : r.first <= last}, first |-> first, last |-> last]

(* setupRanges, and its removal of backward jumps to the same target.      *)
Resolved(state) ==
    LET cluster == Cluster(state.raw)
        resolved == ConflictCluster(cluster.members, cluster.first, cluster.last)
    IN [raw |-> (state.raw \ cluster.members) \cup resolved.left, out |-> state.out \cup resolved.out]
Untangled(raw) ==
    LET run[state \in [raw : SUBSET Spans, out : SUBSET Spans]] ==
            IF state.raw = {} THEN state.out ELSE run[Resolved(state)]
    IN run[[raw |-> raw, out |-> {}]]
Cleaned(set) ==
    {r \in set : r.type = "backwards" =>
        ~\E other \in set : other.type = "backwards" /\ other.first = r.first /\ Precedes(other, r)}
Setup ==
    /\ phase = "ranges"
    /\ ranges' = Cleaned(Untangled(SetupRanges))
    /\ phase' = "write"
    /\ UNCHANGED <<list, stack, targets, index, code>>

-----------------------------------------------------------------------------
(* fPrepareStack: ranges that have ended are closed.  Targets of those     *)
(* that are gone are dropped, but for a conditional one that is reached    *)
(* by another loop that starts there.                                      *)
(* MUTANT: a range is closed before its last instruction.                  *)
KeptShort(s) ==
    LET ends == {k \in 0..Len(s) : k = 0 \/ index < s[k].last}
    IN SubSeq(s, 1, CHOOSE k \in ends : \A n \in ends : n <= k)
Kept(s) ==
    LET ends == {k \in 0..Len(s) : k = 0 \/ index <= s[k].last}
    IN SubSeq(s, 1, CHOOSE k \in ends : \A n \in ends : n <= k)
Patched(target, open) ==
    LET loops == {k \in 1..Len(open) : open[k].type = "backwards" /\ open[k].first = target.first}
    IN IF ~target.active \/ target.stack <= Len(open) THEN target
       ELSE IF target.conditional /\ loops # {}
       THEN [target EXCEPT !.stack = CHOOSE k \in loops : \A n \in loops : n <= k]
       ELSE [target EXCEPT !.active = FALSE]
Placed(all, target) ==
    LET free == {k \in 1..Len(all) : ~all[k].active}
    IN IF free = {} THEN Append(all, target) ELSE [all EXCEPT ![CHOOSE k \in free : \A n \in free : k <= n] = target]

(* The index to fall through the dispatch at the begin of a loop.          *)
(* MUTANT: it is that of the only jump.                                    *)
DefaultExitOne(total) == total
DefaultExit(total) == IF total <= 1 THEN 0 ELSE total

(* A range is opened, the next one of ranges; total counts the conditional *)
(* ones that start with it, labels are the levels of those already opened, *)
(* and loop is the level of the last loop opened here.                     *)
Open(state, total) ==
    LET range == Earliest(state.ranges)
        depth == Len(state.stack) + 1
        parameter == Len(state.labels) < total
        isLoop == range.type = "backwards"
        loop == IF isLoop THEN depth ELSE state.loop
        plain == [address |-> IF isLoop THEN range.first ELSE range.last + 1, stack |-> depth, first |-> range.first,
                  index |-> DefaultExit(total), conditional |-> isLoop /\ parameter, active |-> TRUE]
        conditional == [plain EXCEPT !.stack = loop, !.index = IF total = 1 THEN 1 ELSE Len(state.labels),
                                     !.conditional = TRUE]
        labels == IF range.type = "conditional" THEN Append(state.labels, depth) ELSE state.labels
        dispatch == IF range.type # "conditional" \/ Len(labels) < total THEN <<>> ELSE << <<"dispatch", labels>> >>
    IN [ranges |-> state.ranges \ {range}, stack |-> Append(state.stack, range), labels |-> labels, loop |-> loop,
        targets |-> IF range.type = "conditional" THEN Placed(Placed(state.targets, plain), conditional)
                                                  ELSE Placed(state.targets, plain),
        code |-> state.code \o << <<IF isLoop THEN "loop" ELSE "block", parameter>> >> \o dispatch]

PrepareStack ==
    LET open == Kept(stack)
        starting == {r \in ranges : r.first = index}
        total == Cardinality({r \in starting : r.type = "conditional"})
        ends == [k \in 1..Len(stack) - Len(open) |-> <<"end">>]
        initial == IF total = 0 THEN <<>> ELSE << <<"const", DefaultExit(total)>> >>
        begin == [ranges |-> ranges, stack |-> open, targets |-> [k \in DOMAIN targets |-> Patched(targets[k], open)],
                  labels |-> <<>>, loop |-> Len(open) + 1, code |-> code \o ends \o initial]
        opened[n \in 0..Cardinality(starting)] == IF n = 0 THEN begin ELSE Open(opened[n - 1], total)
    IN opened[Cardinality(starting)]

(* lookup: a target that needs no index before one that does.              *)
NoTarget == [target |-> 0, index |-> 0, conditional |-> FALSE]
Lookup(all, address) ==
    LET found == {k \in DOMAIN all : all[k].address = address /\ all[k].active}
        direct == {k \in found : ~all[k].conditional}
        first == CHOOSE k \in direct : \A n \in direct : k <= n
        last == CHOOSE k \in found : \A n \in found : n <= k
    IN IF direct # {} THEN [NoTarget EXCEPT !.target = all[first].stack]
       ELSE IF found # {} THEN [target |-> all[last].stack, index |-> all[last].index, conditional |-> TRUE]
       ELSE NoTarget

(* fPrepareChunk: the last instruction until a range starts or ends.       *)
ChunkEnd(state) ==
    LET bounds == {Size - 1} \cup {state.stack[k].last : k \in {Len(state.stack)} \ {0}}
                             \cup {r.first - 1 : r \in state.ranges}
        last == CHOOSE b \in bounds : \A other \in bounds : b <= other
    IN IF Single THEN index ELSE IF last + 1 = Size /\ At(last).invalid THEN last - 1 ELSE last

(* Whether only a stub is left to be written.                              *)
Over == IF index < Size THEN At(index).invalid ELSE TRUE

(* next, and the instructions that are produced of the chunk.              *)
NextChunk ==
    /\ phase = "write" /\ ~Over
    /\ LET state == PrepareStack
           last == ChunkEnd(state)
           produced == [k \in 1..last - index + 1 |->
               LET i == index + k - 1
               IN <<"inst", i, IF At(i).branches THEN Lookup(state.targets, At(i).target) ELSE NoTarget>>]
       IN /\ stack' = state.stack /\ targets' = state.targets /\ ranges' = state.ranges
          /\ index' = last + 1
          /\ code' = state.code \o produced
    /\ UNCHANGED <<list, phase>>

(* finalize: what is open is closed, and a stub is written.                *)
Finalize ==
    /\ phase = "write" /\ Over
    /\ code' = code \o [k \in 1..Len(stack) |-> <<"end">>]
               \o << <<"stub", index, IF index >= Size THEN "notReachable" ELSE At(index).kind>> >>
    /\ stack' = <<>>
    /\ phase' = "done"
    /\ UNCHANGED <<list, ranges, targets, index>>
Done == phase = "done" /\ UNCHANGED vars

Next == Push \/ PushLast \/ Setup \/ NextChunk \/ Finalize \/ Done
Spec == Init /\ [][Next]_vars

-----------------------------------------------------------------------------
(* The code as WebAssembly runs it.  Enclosing gives the constructs that   *)
(* are open at a place, Behind the place behind the end of one.            *)
Enclosing ==
    LET open[p \in 0..Len(code)] ==
            IF p = 0 THEN <<>>
            ELSE IF code[p][1] \in {"loop", "block"} THEN Append(open[p - 1], p)
            ELSE IF code[p][1] = "end" THEN Front(open[p - 1]) ELSE open[p - 1]
    IN open
Behind(enclosing, construct) ==
    CHOOSE p \in construct..Len(code) :
        code[p] = <<"end">> /\ enclosing[p] = Front(enclosing[construct]) /\ enclosing[p - 1] = enclosing[construct]

(* Where control arrives from a place, with a value on the stack or none:  *)
(* the next instruction, or -1 if the code does not validate.              *)
NoValue == -1
Takes(op) == op[1] = "dispatch" \/ (op[1] \in {"loop", "block"} /\ op[2])
Arrives(enclosing, place, carried) ==
    LET from[spot \in (DOMAIN code) \X Int] ==
            LET op == code[spot[1]]
                value == spot[2]
                behind == spot[1] + 1
                chosen == IF Len(op[2]) = 1 THEN 1 - value ELSE value
                label == enclosing[spot[1]][op[2][chosen + 1]]
                next == CASE op[1] = "const" -> <<behind, op[2]>>
                          [] op[1] = "dispatch" /\ chosen \in 0..Len(op[2]) - 1 -> <<Behind(enclosing, label) + 1, NoValue>>
                          [] op[1] = "dispatch" /\ chosen \notin 0..Len(op[2]) - 1 -> <<behind, NoValue>>
                          [] OTHER -> <<behind, value>>
            IN IF Takes(op) # (value # NoValue) THEN -1
               ELSE IF op[1] \in {"inst", "stub"} THEN op[2] ELSE from[next]
    IN from[<<place, carried>>]
Branches(enclosing, p, via) ==
    LET construct == enclosing[p][via.target]
        value == IF via.conditional THEN via.index ELSE NoValue
    IN IF via.target > Len(enclosing[p]) THEN -1
       ELSE IF code[construct][1] = "block"
       THEN IF value = NoValue THEN Arrives(enclosing, Behind(enclosing, construct) + 1, NoValue) ELSE -1
       ELSE IF code[construct][2] = (value # NoValue) THEN Arrives(enclosing, construct + 1, value) ELSE -1
Instructions == {p \in DOMAIN code : code[p][1] = "inst"}

(* A jump to an instruction of the strand does not have to leave it, and   *)
(* leads to that instruction, through the loops and blocks and the         *)
(* dispatch at the begin of a loop.                                        *)
JumpsLand ==
    phase = "done" =>
        \A p \in Instructions :
            LET entry == At(code[p][2])
            IN entry.branches /\ entry.target < Size =>
                   code[p][3].target # 0 /\ Branches(Enclosing, p, code[p][3]) = entry.target

(* The instructions follow each other from the first to the stub, with     *)
(* every construct opened and closed around the same of them.              *)
FallsThrough ==
    phase = "done" =>
        /\ Enclosing[Len(code)] = <<>>
        /\ Arrives(Enclosing, 1, NoValue) = 0
        /\ \A p \in Instructions : Arrives(Enclosing, p + 1, NoValue) = code[p][2] + 1

(* What is left of the ranges never cross each other, and one can always   *)
(* be resolved.                                                            *)
RangesNest ==
    /\ \A r \in ranges : r.type # "none"
    /\ \A r, other \in ranges : r.first < other.first => other.first > r.last \/ other.last <= r.last
=============================================================================
