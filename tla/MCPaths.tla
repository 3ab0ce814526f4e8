------------------------------ MODULE MCPaths ------------------------------
(***************************************************************************)
(* Paths and their resolution on bounded inputs: a state is a path of      *)
(* characters, or a tree of nodes with a path that is resolved in it.      *)
(***************************************************************************)
EXTENDS Nodes, FiniteSets

CONSTANTS
    MaxChars,       \* the length of the paths of characters
    MaxNames        \* the names of the paths that are resolved
Text == INSTANCE Paths

VARIABLE input
vars == input

(* A directory and another one that is mounted over a file of the same     *)
(* name, a file on a terminal, links in the directory to wherever, and one *)
(* node that nobody but its owner may use.                                 *)
Objects == {"root", "dir", "dev", "tty", "file", "other", "to", "via", "hidden"}
Absolute(names) == [abs |-> TRUE, names |-> names]
Aims == {Absolute(names) : names \in {<<"dir">>, <<"dir", "file">>, <<"dir", "to">>, <<"dir", "via">>,
                                      <<"dir", "..", "dev">>, <<"zz">>, <<"dir", "zz">>}}
Tree(to, via, closed) ==
    [kind |-> [o \in Objects |-> CASE o \in {"root", "dir", "dev"} -> "dir" [] o \in {"to", "via"} -> "link"
                                   [] o = "tty" -> "tty" [] OTHER -> "file"],
     ancestor |-> [o \in Objects |-> CASE o \in {"file", "other", "to", "via"} -> "dir" [] o = "tty" -> "dev"
                                       [] OTHER -> "root"],
     link |-> [o \in Objects |-> CASE o = "to" -> to [] o = "via" -> via [] OTHER -> Absolute(<<>>)],
     access |-> [o \in Objects |-> [owner |-> 1, group |-> 1,
                                    modes |-> {"r", "w", "x"} \X {IF o = closed THEN "owner" ELSE "other"}]],
     mounted |-> [e \in {<<"root", "dev">>, <<"dev", "tty">>, <<"dir", "other">>} |->
                     CASE e[2] = "dev" -> "dev" [] e[2] = "tty" -> "tty" [] e[2] = "other" -> "other"],
     entries |-> [e \in {<<"root", "dir">>, <<"root", "dev">>} \cup {"dir"} \X {"file", "to", "via"} |->
                     IF e[2] = "dev" THEN "hidden" ELSE e[2]]]
User == [uid |-> 2, gid |-> 2]

(* Names of paths; those of files and links are not followed by dots or a  *)
(* slash at the end, which the resolution takes off before it knows what   *)
(* they name (see the README).                                             *)
Named == {"dir", "dev", "tty", "file", "to", "via", "zz", "..", ".", ""}
Plain(names) ==
    \A k \in 1..Len(names) - 1 : names[k] \in {"to", "via", "file", "tty", "zz"} => names[k + 1] \notin {"", ".", ".."}

Init == input = <<"start">>
ChooseText == input = <<"start">> /\ \E n \in 0..MaxChars, p \in [1..2 -> {"/", "\\", ".", "a"}] : input' = <<"prefix", n, p>>
ChooseRest ==
    /\ input[1] = "prefix"
    /\ \E p \in [1..input[2] -> {"/", "\\", ".", "a"}] : input' = <<"text", input[3] \o p>>
ChooseShort == input = <<"start">> /\ \E n \in 0..1, p \in [1..1 -> {"/", "\\", ".", "a"}] : input' = <<"text", SubSeq(p, 1, n)>>
ChooseTree ==
    /\ input = <<"start">>
    /\ \E to, via \in Aims, closed \in {"none", "dir", "to"} : input' = <<"tree", Tree(to, via, closed)>>
ChooseNames ==
    /\ input[1] = "tree"
    /\ \E n \in 1..MaxNames, name \in Named, start \in {Root, "dir"} : input' = <<"names", input[2], n, name, start>>
Again == input # <<"start">> /\ input' = <<"start">>
NextInput == ChooseText \/ ChooseRest \/ ChooseShort \/ ChooseTree \/ ChooseNames \/ Again
Spec == Init /\ [][NextInput]_vars

-----------------------------------------------------------------------------
(* AbsolutePath and CanonicalPath, which work on characters and take back  *)
(* what `.' and `..' turn out to undo, yield the names that are left; and  *)
(* CleanPath keeps the names of a path and where it leads.                 *)
PathsAreWays ==
    input[1] = "text" =>
        LET p == input[2]
            way == Text!Joined(Text!Way(Text!Names(p)))
        IN /\ Text!AbsolutePath(p) = way
           /\ Text!IsAbsolute(p) => Text!CanonicalPath(p) = way
           /\ Text!Names(Text!CleanPath(p)) = Text!Names(p)
           /\ Text!AbsolutePath(Text!CleanPath(p)) = way

(* The resolution, which rewrites the path when it meets a link and looks  *)
(* names up before it knows their node, leads to the node or the failure   *)
(* that visiting the directories one by one leads to; and where a file may *)
(* be created, none exists and its directory does.                         *)
ResolvesAsVisited ==
    input[1] = "names" =>
        \A rest \in [1..input[3] - 1 -> Named], follow, findExisting \in BOOLEAN :
            LET names == <<input[4]>> \o rest
                answer == Resolve(input[2], User, input[5], Clean(names), follow, findExisting)
                creates == ~findExisting /\ answer.err = "ok" /\ ~answer.found
            IN Plain(names) =>
                   /\ findExisting \/ creates => answer = Visit(input[2], User, input[5], names, follow, findExisting)
                   /\ creates => Resolve(input[2], User, input[5], Clean(names), follow, TRUE).err = "eNoEntry"

(* A relative link leads on from the directory that holds it: the comment  *)
(* on the node that is gone on from speaks of the ancestor of the link.    *)
RelativeLinksLead ==
    input[1] = "tree" =>
        \A aim \in {<<"file">>, <<"via">>, <<"..", "dir", "file">>, <<"..", "dev">>} :
            LET t == [input[2] EXCEPT !.link["to"] = [abs |-> FALSE, names |-> aim]]
            IN Resolve(t, User, Root, <<"dir", "to">>, TRUE, TRUE) = Visit(t, User, Root, <<"dir", "to">>, TRUE, TRUE)

(* A directory lists every name once, and those that lead somewhere: what  *)
(* is mounted hides what the host has of the same name.                    *)
ListsWhatLeads ==
    input[1] = "tree" =>
        \A dir \in {o \in Objects : input[2].kind[o] = "dir"} :
            LET names == ListDir(input[2], dir)
            IN /\ IsInjective(names)
               /\ \A name \in Named \ {".", "..", ""} :
                      name \in Range(names) <=> Lookup(input[2], dir, name) # NoNode
               /\ \A e \in DOMAIN input[2].mounted : Lookup(input[2], e[1], e[2]) = input[2].mounted[e]
=============================================================================
