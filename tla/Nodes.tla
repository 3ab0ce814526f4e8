-------------------------------- MODULE Nodes --------------------------------
(***************************************************************************)
(* The tree of nodes the file system calls walk (sys-node-base.cpp and the *)
(* nodes derived from it), and the resolution of paths through it          *)
(* (fCheckPath and fResolveNode of sys-file-io.cpp).                       *)
(*                                                                         *)
(* A tree t is a record: t.kind gives the type of each node, t.ancestor    *)
(* the directory it was linked to, t.link the path of a symbolic link,     *)
(* t.access its owner, group and permissions; t.mounted and t.entries map  *)
(* pairs of a directory and a name to nodes, the mounted ones and those of *)
(* the host or of a virtual directory.                                     *)
(*                                                                         *)
(* A path is cleaned already: [abs, names], where "" as the last name      *)
(* stands for a slash at the end.                                          *)
(***************************************************************************)
EXTENDS Integers, Sequences, SequencesExt

CONSTANTS
    Root,           \* pRoot
    NoNode,
    MaxFollow       \* MaxFollowSymLinks

ASSUME NodesAssumption == MaxFollow \in Nat /\ Root # NoNode

(* True of TLA+, but no prover at hand knows that a literal is a string.   *)
ASSUME LiteralAssumption == "" \in STRING

-----------------------------------------------------------------------------
(* Nodes.                                                                  *)

(* FileNode::lookup: what is mounted hides what the directory itself has.  *)
Lookup(t, dir, name) ==
    CASE <<dir, name>> \in DOMAIN t.mounted -> t.mounted[dir, name]
      [] <<dir, name>> \in DOMAIN t.entries \ DOMAIN t.mounted -> t.entries[dir, name]
      [] OTHER -> NoNode
(* FileNode::listDir: the two dots, the mounted nodes, and then the rest   *)
(* without the names already seen.                                         *)
(* MUTANT: names of mounted nodes are listed again.                        *)
ListDirTwice(t, dir) ==
    LET Of(f) == {e[2] : e \in {d \in DOMAIN f : d[1] = dir}}
    IN <<".", "..">> \o SetToSeq(Of(t.mounted)) \o SetToSeq(Of(t.entries))
ListDir(t, dir) ==
    LET Of(f) == {e[2] : e \in {d \in DOMAIN f : d[1] = dir}}
    IN <<".", "..">> \o SetToSeq(Of(t.mounted)) \o SetToSeq(Of(t.entries) \ Of(t.mounted))
(* fCheckAccess: every wish has to be granted to all, to the owner or to   *)
(* the group.                                                              *)
CheckAccess(ids, access, wishes) ==
    \/ ids.uid = 0
    \/ \A w \in wishes :
           \/ <<w, "other">> \in access.modes
           \/ access.owner = ids.uid /\ <<w, "owner">> \in access.modes
           \/ access.group = ids.gid /\ <<w, "group">> \in access.modes

-----------------------------------------------------------------------------
(* Paths: Clean removes what CleanPath removes, on names: the empty ones    *)
(* and the dots, except for the last.                                      *)
Clean(names) ==
    LET cleaned[n \in 0..Len(names)] ==
            IF n = 0 THEN <<>>
            ELSE IF n < Len(names) /\ names[n] \in {"", "."} THEN cleaned[n - 1]
            ELSE Append(cleaned[n - 1], names[n])
    IN cleaned[Len(names)]

(* A relative path that begins with `.' and an empty name loses both, and  *)
(* with them the mark that it is relative.                                 *)
TurnsAbsolute(names) ==
    LET dots == {i \in 1..Len(names) : \A j \in 1..i : names[j] = "."}
        next == Cardinality(dots) + 1
    IN dots # {} /\ next < Len(names) /\ names[next] = ""

Answer(err, node, found) == [err |-> err, node |-> node, found |-> found]

(* fCheckPath: where the resolution begins.  A base is the working         *)
(* directory (base.working) or the node of a descriptor, NoNode when the   *)
(* descriptor is not valid; the empty path means the base itself where the *)
(* call allows for it.                                                     *)
Begin(start, names) == [err |-> "ok", start |-> start, names |-> names]
BeginError(err) == [err |-> err, start |-> Root, names |-> <<>>]
EmptyPath == [abs |-> FALSE, names |-> <<>>]
CheckEmpty(wd, base) ==
    CASE base.working -> Begin(Root, wd)
      [] ~base.working /\ base.node = NoNode -> BeginError("eBadFd")
      [] ~base.working /\ base.node # NoNode -> Begin(base.node, <<>>)
CheckRelative(t, wd, base, path) ==
    CASE base.working -> Begin(Root, Clean(wd \o path.names))
      [] ~base.working /\ base.node = NoNode -> BeginError("eBadFd")
      [] ~base.working /\ base.node # NoNode ->
             IF t.kind[base.node] # "dir" THEN BeginError("eNotDirectory")
             ELSE Begin(base.node, Clean(path.names))
CheckPath(t, wd, base, path, allowEmpty) ==
    CASE path = EmptyPath -> IF allowEmpty THEN CheckEmpty(wd, base) ELSE BeginError("eInvalid")
      [] path.abs -> Begin(Root, Clean(path.names))
      [] path # EmptyPath /\ ~path.abs -> CheckRelative(t, wd, base, path)

(* What a followed link leads to: its path, the name looked up in it, and  *)
(* the rest behind it.                                                     *)
LinkPath(link, name, rest) ==
    LET names == link.names \o <<name, "">> \o rest
    IN [abs |-> link.abs \/ TurnsAbsolute(names), names |-> Clean(names)]

(* One step of fResolveNext and fResolveNextStats.  A walk w is at a node,  *)
(* has names to go, and has followed w.links links.                        *)
NameOf(w) == IF w.names = <<>> THEN "" ELSE Head(w.names)
RestOf(w) == IF w.names = <<>> THEN <<>> ELSE Tail(w.names)
AtLink(t, w, follow) ==
    NameOf(w) \notin {".", ".."} /\ t.kind[w.node] = "link" /\ (follow \/ NameOf(w) # "")

(* The answer the walk ends with here, or Going.                           *)
Going == Answer("going", NoNode, FALSE)
EndLink(t, ids, w) ==
    CASE ~CheckAccess(ids, t.access[w.node], {"r"}) -> Answer("eAccess", NoNode, FALSE)
      [] CheckAccess(ids, t.access[w.node], {"r"}) /\ w.links + 1 >= MaxFollow ->
             Answer("eLoop", NoNode, FALSE)
      [] OTHER -> Going
EndDirectory(t, ids, w, findExisting) ==
    CASE t.kind[w.node] # "dir" -> Answer("eNotDirectory", NoNode, FALSE)
      [] t.kind[w.node] = "dir" /\ ~CheckAccess(ids, t.access[w.node], {"x"}) ->
             Answer("eAccess", NoNode, FALSE)
      [] OTHER -> CASE Lookup(t, w.node, NameOf(w)) # NoNode -> Going
                    [] Lookup(t, w.node, NameOf(w)) = NoNode /\ RestOf(w) = <<>> /\ ~findExisting ->
                           Answer("ok", w.node, FALSE)
                    [] OTHER -> Answer("eNoEntry", NoNode, FALSE)
End(t, ids, w, follow, findExisting) ==
    CASE NameOf(w) \in {".", ".."} -> Going
      [] AtLink(t, w, follow) -> EndLink(t, ids, w)
      [] NameOf(w) = "" /\ ~AtLink(t, w, follow) -> Answer("ok", w.node, TRUE)
      [] OTHER -> EndDirectory(t, ids, w, findExisting)

(* Where it goes on otherwise.                                             *)
(* MUTANT: the names behind a link are lost.                               *)
OnwardDropsRest(t, w, follow) ==
    LET to == LinkPath(t.link[w.node], NameOf(w), <<>>)
    IN CASE NameOf(w) = "." -> [w EXCEPT !.names = RestOf(w)]
         [] NameOf(w) = ".." -> [w EXCEPT !.node = t.ancestor[w.node], !.names = RestOf(w)]
         [] AtLink(t, w, follow) ->
                [node |-> IF to.abs THEN Root ELSE w.node, names |-> to.names, links |-> w.links + 1]
         [] OTHER -> [w EXCEPT !.node = Lookup(t, w.node, NameOf(w)), !.names = RestOf(w)]
Onward(t, w, follow) ==
    LET to == LinkPath(t.link[w.node], NameOf(w), RestOf(w))
    IN CASE NameOf(w) = "." -> [w EXCEPT !.names = RestOf(w)]
         [] NameOf(w) = ".." -> [w EXCEPT !.node = t.ancestor[w.node], !.names = RestOf(w)]
         [] AtLink(t, w, follow) ->
                [node |-> IF to.abs THEN Root ELSE w.node, names |-> to.names, links |-> w.links + 1]
         [] OTHER -> [w EXCEPT !.node = Lookup(t, w.node, NameOf(w)), !.names = RestOf(w)]
(* fResolveNode.                                                           *)
Resolve(t, ids, start, path, follow, findExisting) ==
    LET run[w \in [node : DOMAIN t.kind, names : Seq(STRING), links : Nat]] ==
            LET end == End(t, ids, w, follow, findExisting)
            IN IF end # Going THEN end ELSE run[Onward(t, w, follow)]
    IN run[[node |-> start, names |-> path, links |-> 0]]

-----------------------------------------------------------------------------
(* The reference: every component is visited in turn, from directory to    *)
(* directory; a link is replaced by its path, seen from the directory that *)
(* holds it.                                                               *)
Visit(t, ids, start, path, follow, findExisting) ==
    LET visit[w \in [node : DOMAIN t.kind, names : Seq(STRING), links : Nat]] ==
            LET rest == Tail(w.names)
                child == Lookup(t, w.node, Head(w.names))
                May(n, mode) == CheckAccess(ids, t.access[n], {mode})
            IN CASE w.names = <<>> -> Answer("ok", w.node, TRUE)
                 [] w.names # <<>> /\ t.kind[w.node] # "dir" -> Answer("eNotDirectory", NoNode, FALSE)
                 [] OTHER ->
                    CASE Head(w.names) \in {"", "."} -> visit[[w EXCEPT !.names = rest]]
                      [] Head(w.names) = ".." -> visit[[w EXCEPT !.node = t.ancestor[w.node], !.names = rest]]
                      [] OTHER ->
                         CASE ~May(w.node, "x") -> Answer("eAccess", NoNode, FALSE)
                           [] May(w.node, "x") /\ child = NoNode ->
                                 IF rest = <<>> /\ ~findExisting THEN Answer("ok", w.node, FALSE)
                                 ELSE Answer("eNoEntry", NoNode, FALSE)
                           [] OTHER ->
                              IF t.kind[child] = "link" /\ (follow \/ rest # <<>>)
                              THEN CASE ~May(child, "r") -> Answer("eAccess", NoNode, FALSE)
                                     [] May(child, "r") /\ w.links + 1 >= MaxFollow ->
                                           Answer("eLoop", NoNode, FALSE)
                                     [] OTHER -> visit[[node |-> IF t.link[child].abs THEN Root ELSE w.node,
                                                        names |-> t.link[child].names \o rest,
                                                        links |-> w.links + 1]]
                              ELSE visit[[w EXCEPT !.node = child, !.names = rest]]
    IN visit[[node |-> start, names |-> path, links |-> 0]]
=============================================================================
