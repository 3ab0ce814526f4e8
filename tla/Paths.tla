-------------------------------- MODULE Paths --------------------------------
(***************************************************************************)
(* The functions on paths (util-path.cpp), which work on characters: a     *)
(* path is a sequence of them.  What they promise is stated on components, *)
(* the names between the slashes.                                          *)
(***************************************************************************)
EXTENDS Integers, Sequences, SequencesExt

Slashes == {"/", "\\"}
IsAbsolute(p) == p # <<>> /\ p[1] \in Slashes

(* The character positions of a path count from zero, as in the code:      *)
(* Part(p, i, j) holds those from i up to but not including j.             *)
Part(p, i, j) == SubSeq(p, i + 1, j)
EndsOn(p, suffix) == IsSuffix(suffix, p)

(* The start of the component that ends before the slash at position `at'. *)
ComponentStart(out, at) ==
    LET slashes == {i \in 1..at : out[i] = "/"}
    IN IF slashes = {} THEN 0 ELSE CHOOSE i \in slashes : \A j \in slashes : j <= i

(* MergePaths writes one character after the other and takes a component   *)
(* back when the slash behind it shows that it was `.' or `..'.            *)
(* MUTANT: `..' takes itself back but not the name before it.             *)
MergeSlashKeepsName(st) ==
    LET last == Part(st.out, st.last, Len(st.out))
    IN CASE EndsOn(st.out, <<"/">>) -> st
         [] last = <<".">> -> [st EXCEPT !.out = Front(@)]
         [] last = <<".", ".">> /\ st.last > 0 -> [st EXCEPT !.out = Part(@, 0, st.last)]
         [] OTHER -> [out |-> Append(st.out, "/"), last |-> Len(st.out) + 1]
MergeSlash(st) ==
    LET last == Part(st.out, st.last, Len(st.out))
        prev == ComponentStart(st.out, st.last - 1)
        prevName == Part(st.out, prev, st.last - 1)
        Grow(p) == [out |-> p, last |-> Len(p)]
    IN IF EndsOn(st.out, <<"/">>) THEN st
       ELSE CASE last = <<".">> -> [st EXCEPT !.out = Front(@)]
              [] last \notin {<<".">>, <<".", ".">>} \/ (last = <<".", ".">> /\ st.last = 0) ->
                     Grow(Append(st.out, "/"))
              [] last = <<".", ".">> /\ st.last > 0 ->
                     Grow(CASE prevName = <<".", ".">> -> Append(st.out, "/")
                            [] prevName = <<>> -> Part(st.out, 0, st.last)
                            [] OTHER -> Part(st.out, 0, prev))

MergeChar(st, c) == IF c \in Slashes THEN MergeSlash(st) ELSE [st EXCEPT !.out = Append(@, c)]

MergePaths(a, b) ==
    LET text == (IF IsAbsolute(b) THEN <<>> ELSE Append(a, "/")) \o Append(b, "/")
        out == FoldLeft(MergeChar, [out |-> <<>>, last |-> 0], text).out
    IN CASE out = <<>> -> <<".">>
         [] EndsOn(out, <<"/">>) /\ Len(out) > 1 -> Front(out)
         [] OTHER -> out

CanonicalPath(p) == MergePaths(p, <<>>)
AbsolutePath(p) == MergePaths(<<"/">>, p)

(* CleanPath only removes empty components and `.' in front of a slash.    *)
CleanChar(out, c) ==
    IF c \notin Slashes THEN Append(out, c)
    ELSE CASE EndsOn(out, <<"/">>) -> out
           [] EndsOn(out, <<"/", ".">>) \/ out = <<".">> -> Front(out)
           [] OTHER -> Append(out, "/")
CleanPath(p) == FoldLeft(CleanChar, <<>>, p)

(* The first component of a path, and the rest with its slash.             *)
SplitRoot(p) ==
    LET rest == IF IsAbsolute(p) THEN Tail(p) ELSE p
        slashes == {i \in 1..Len(rest) : rest[i] \in Slashes}
        len == IF slashes = {} THEN Len(rest)
               ELSE (CHOOSE i \in slashes : \A j \in slashes : i <= j) - 1
    IN <<Part(rest, 0, len), Part(rest, len, Len(rest))>>

-----------------------------------------------------------------------------
(* The reference: the components of a path, and where they lead.           *)

Pieces(p) ==
    FoldLeft(LAMBDA out, c : IF c \in Slashes THEN Append(out, <<>>)
                             ELSE [out EXCEPT ![Len(out)] = Append(@, c)], << <<>> >>, p)
Names(p) == SelectSeq(Pieces(p), LAMBDA n : n \notin {<<>>, <<".">>})
Way(names) ==
    FoldLeft(LAMBDA out, n : IF n # <<".", ".">> THEN Append(out, n)
                             ELSE IF out = <<>> THEN out ELSE Front(out), <<>>, names)
Joined(names) ==
    IF names = <<>> THEN <<"/">> ELSE FoldLeft(LAMBDA out, n : out \o <<"/">> \o n, <<>>, names)

=============================================================================
