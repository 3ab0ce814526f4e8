-------------------------------- MODULE Files --------------------------------
(***************************************************************************)
(* The system calls on files (sys::detail::FileIO): the table of           *)
(* descriptors (pOpen), the instances they share (pInstance), the counter  *)
(* of open descriptors, the working directory, and the files of the host.  *)
(*                                                                         *)
(* One action is one call, from its checks to its result.  The tasks in    *)
(* between are those of Runtime; as the program waits for them, and nobody *)
(* else changes the files, they cannot be told apart from one step.        *)
(***************************************************************************)
EXTENDS Nodes, FileData, FiniteSets

CONSTANTS
    Tree,           \* the nodes there are or may be created; Tree.native are those of the host,
                    \* and Tree.sealed those that refuse to be opened for writing (URandom)
    Ids,            \* [uid, gid] of the process, also the effective ones
    MaxFd,          \* MaxFileDescriptors
    Standard,       \* descriptors of the terminal that setup opens
    Terminal,       \* the node of the terminal
    FirstData,      \* the files of the host at the start
    Paths, OpenFlags, StatusFlags, Counts, Texts, Seeks,
    AtFlags,        \* the sets of flags of the other calls on paths: "empty", "nofollow"
    Wishes,         \* the sets of permissions it asks for,
    CloseOnExecute, \* the values of the flag,
    ListCounts,     \* how many directory entries the program has room for
    Stray,          \* TRUE: the program also passes descriptors it has closed
    SizeLimit,      \* one more than the largest size_t
    MaxOffset,      \* bound on the offsets a seek leads to
    HostFails       \* TRUE: the host may refuse to open, create, read, write or list

ASSUME FilesAssumption ==
    /\ MaxFd \in Nat /\ Standard \in 1..MaxFd /\ Stray \in BOOLEAN /\ MaxOffset \in Nat
    /\ HostFails \in BOOLEAN
    /\ SizeLimit \in Nat /\ MaxFd < SizeLimit
    /\ Counts \subseteq Nat /\ ListCounts \subseteq Nat /\ CloseOnExecute \subseteq BOOLEAN
    /\ \A path \in Paths : path.names \in Seq(STRING)
    /\ \A seek \in Seeks : seek[1] \in Int /\ seek[2] \in {"set", "cur", "end"}

(* Every node is below the root, in a directory that is a node too, and    *)
(* has a name there; those of files are the ones with data.                *)
ASSUME TreeAssumption ==
    /\ {"kind", "ancestor", "link", "mounted", "entries"} \subseteq DOMAIN Tree
    /\ Terminal \in DOMAIN Tree.kind /\ Root \in DOMAIN Tree.kind /\ NoNode \notin DOMAIN Tree.kind
    /\ \A n \in DOMAIN Tree.kind : Tree.ancestor[n] \in DOMAIN Tree.kind /\ Tree.link[n].names \in Seq(STRING)
    /\ \A e \in DOMAIN Tree.mounted : e[2] \in STRING /\ Tree.mounted[e] \in DOMAIN Tree.kind
    /\ \A e \in DOMAIN Tree.entries : e[2] \in STRING /\ Tree.entries[e] \in DOMAIN Tree.kind
    /\ \A n \in DOMAIN Tree.kind \ {Root} :
          \/ \E e \in DOMAIN Tree.mounted : Tree.mounted[e] = n
          \/ \E e \in DOMAIN Tree.entries : Tree.entries[e] = n
    /\ \A above \in SUBSET DOMAIN Tree.kind :
          Root \in above /\ (\A n \in DOMAIN Tree.kind : Tree.ancestor[n] \in above => n \in above)
              => above = DOMAIN Tree.kind
    /\ IsFiniteSet(DOMAIN Tree.mounted) /\ IsFiniteSet(DOMAIN Tree.entries)

(* What is not a file, what is mounted and what holds others always exist. *)
ASSUME DataAssumption ==
    /\ Absent \notin Seq(Nat) /\ Texts \subseteq Seq(Nat)
    /\ FirstData \in [{n \in DOMAIN Tree.kind : Tree.kind[n] = "file"} -> Seq(Nat) \cup {Absent}]
    /\ \A n \in {Root, Terminal} \cup {Tree.ancestor[m] : m \in DOMAIN Tree.kind}
               \cup {Tree.mounted[e] : e \in DOMAIN Tree.mounted} :
          n \in DOMAIN FirstData => FirstData[n] # Absent

VARIABLES
    pOpen,          \* sequence of [instance, used, cloexec]
    pInstance,      \* sequence of [node, user, offset, config, cache, outdated]
    pOpened,        \* number of open descriptors
    data,           \* the files of the host
    wd,             \* process().workingDirectory, as names from the root
    ret             \* what the last call answered

vars == <<pOpen, pInstance, pOpened, data, wd, ret>>

Config == [read : BOOLEAN, write : BOOLEAN, append : BOOLEAN, modify : BOOLEAN, nonBlock : BOOLEAN,
           creation : SUBSET CreationFlags]
Entry(instance, used, cloexec) == [instance |-> instance, used |-> used, cloexec |-> cloexec]

(* Indices count from zero in the code.                                    *)
Instance(fd) == pInstance[pOpen[fd + 1].instance + 1]
Of(fd) == pOpen[fd + 1].instance + 1
CheckFd(fd) == fd >= 0 /\ fd < Len(pOpen) /\ Instance(fd).node # NoNode
IsUsed(fd) == fd >= 0 /\ fd < Len(pOpen) /\ pOpen[fd + 1].used
Type(fd) == Tree.kind[Instance(fd).node]

(* The descriptors the program may pass: its own, and some that never are. *)
Given == {fd \in -1..MaxFd - 1 : Stray \/ IsUsed(fd) \/ fd >= Len(pOpen)}

(* Checks are made in order: the first that applies gives the error.       *)
FirstError(checks) ==
    LET failed == {i \in DOMAIN checks : checks[i][1]}
    IN IF failed = {} THEN "ok" ELSE checks[CHOOSE i \in failed : \A j \in failed : i <= j][2]

CheckRead(fd) ==
    IF ~CheckFd(fd) THEN "eBadFd"
    ELSE FirstError(<< <<~Instance(fd).config.read, "eBadFd">>, <<Type(fd) = "dir", "eIsDirectory">> >>)
CheckWrite(fd) == IF CheckFd(fd) /\ Instance(fd).config.write THEN "ok" ELSE "eBadFd"

Done(call, val, bytes) == ret' = [call |-> call, err |-> "ok", val |-> val, bytes |-> bytes]
Error(call, err) == ret' = [call |-> call, err |-> err, val |-> -1, bytes |-> <<>>]
Fail(call, err) ==
    /\ Error(call, err)
    /\ UNCHANGED <<pOpen, pInstance, pOpened, data, wd>>

Below(fd) == [working |-> FALSE, node |-> IF CheckFd(fd) THEN Instance(fd).node ELSE NoNode]
WorkingDirectory == [working |-> TRUE, node |-> NoNode]

(* The tree as the host has it now.                                        *)
Exists(n) == n \in DOMAIN data => data[n] # Absent
Current == [Tree EXCEPT !.entries =
    [e \in {d \in DOMAIN Tree.entries : Exists(Tree.entries[d])} |-> Tree.entries[e]]]

(* buildPath: the names from the root to a node.                           *)
NameIn(n) ==
    LET under == {e \in DOMAIN Tree.mounted : Tree.mounted[e] = n} \cup {e \in DOMAIN Tree.entries : Tree.entries[e] = n}
    IN (CHOOSE e \in under : TRUE)[2]
BuildPath(node) ==
    LET path[n \in DOMAIN Tree.kind] == IF n = Root THEN <<>> ELSE Append(path[Tree.ancestor[n]], NameIn(n))
    IN path[node]

(* fCheckPath and fResolveNode, as every call on a path begins.            *)
Find(base, path, allowEmpty, follow, findExisting) ==
    LET from == CheckPath(Tree, wd, base, path, allowEmpty)
    IN IF from.err # "ok" THEN Answer(from.err, NoNode, FALSE)
       ELSE Resolve(Current, Ids, from.start, from.names, follow, findExisting)

(* setup: the terminal is opened once for each standard descriptor, the    *)
(* first to read and the others to write.                                  *)
Init ==
    /\ pOpen = [i \in 1..Standard |-> Entry(i - 1, TRUE, FALSE)]
    /\ pInstance = [i \in 1..Standard |->
           [node |-> Terminal, user |-> 1, offset |-> 0,
            config |-> [read |-> i = 1, write |-> i > 1, append |-> FALSE, modify |-> TRUE,
                        nonBlock |-> FALSE, creation |-> {}],
            cache |-> <<>>, outdated |-> FALSE]]
    /\ pOpened = Standard
    /\ data = FirstData
    /\ wd = <<>>
    /\ ret = [call |-> "setup", err |-> "ok", val |-> 0, bytes |-> <<>>]

-----------------------------------------------------------------------------
(* Opening.                                                                *)

(* fLookupNextFd: the table with the entry that is used next, and its      *)
(* index; entries in between are left as they are created.                 *)
NextFd(start) ==
    IF start >= Len(pOpen) THEN start
    ELSE LET free == {i \in start..Len(pOpen) : i = Len(pOpen) \/ ~pOpen[i + 1].used}
         IN CHOOSE i \in free : \A j \in free : i <= j
Extended(index) ==
    [i \in 1..(IF index < Len(pOpen) THEN Len(pOpen) ELSE index + 1) |->
        IF i <= Len(pOpen) THEN pOpen[i] ELSE Entry(0, FALSE, FALSE)]

(* fSetupFile.                                                             *)
NextInstance ==
    LET free == {i \in 1..Len(pInstance) + 1 : i > Len(pInstance) \/ pInstance[i].node = NoNode}
    IN CHOOSE i \in free : \A j \in free : i <= j
SetupFileFromOne(node, config, cloexec) ==
    LET instance == NextInstance
        new == [node |-> node, user |-> 1, offset |-> 0, config |-> config, cache |-> <<>>, outdated |-> FALSE]
    IN /\ pInstance' = [i \in 1..(IF instance > Len(pInstance) THEN instance ELSE Len(pInstance)) |->
                           IF i = instance THEN new ELSE pInstance[i]]
       /\ pOpen' = [Extended(NextFd(0)) EXCEPT ![NextFd(0) + 1] = Entry(instance, TRUE, cloexec)]
       /\ pOpened' = pOpened + 1
       /\ Done("open", NextFd(0), <<>>)
       /\ UNCHANGED wd
SetupFile(node, config, cloexec) ==
    LET instance == NextInstance
        new == [node |-> node, user |-> 1, offset |-> 0, config |-> config, cache |-> <<>>, outdated |-> FALSE]
        index == NextFd(0)
    IN /\ pInstance' = [i \in 1..(IF instance > Len(pInstance) THEN instance ELSE Len(pInstance)) |->
                           IF i = instance THEN new ELSE pInstance[i]]
       /\ pOpen' = [Extended(index) EXCEPT ![index + 1] = Entry(instance - 1, TRUE, cloexec)]
       /\ pOpened' = pOpened + 1
       /\ Done("open", index, <<>>)
       /\ UNCHANGED wd

ConfigOf(flags) ==
    LET modify == "path" \notin flags
        write == modify /\ flags \cap {"update", "write"} # {}
    IN [read |-> modify /\ ("update" \in flags \/ "write" \notin flags),
        write |-> write, append |-> write /\ "append" \in flags, modify |-> modify,
        nonBlock |-> "nonblock" \in flags, creation |-> flags \cap CreationFlags]

(* What stands in the way of opening a node that exists.                   *)
OpenError(node, flags) ==
    LET config == ConfigOf(flags)
        kind == Tree.kind[node]
        wishes == {w \in {"r", "w"} : IF w = "r" THEN config.read ELSE config.write}
    IN FirstError(<<
           <<"exclusive" \in flags, "eExists">>,
           <<kind = "link" /\ config.modify, "eLoop">>,
           <<kind = "dir" /\ config.write, "eIsDirectory">>,
           <<kind # "dir" /\ "directory" \in flags, "eNotDirectory">>,
           <<~CheckAccess(Ids, Tree.access[node], wishes), "eAccess">>,
           <<"nonblock" \in flags /\ kind \notin {"link", "dir", "file"}, "eNotImplemented">>,
           <<node \in Tree.sealed /\ config.write, "ePermissionDenied">> >>)

(* The rest of fOpenAt for a node that exists, and for one to be created;  *)
(* Tree bounds what may be.  The host is asked about files and creations.  *)
OpenExisting(node, flags) ==
    IF OpenError(node, flags) # "ok" THEN Fail("open", OpenError(node, flags))
    ELSE \/ /\ SetupFile(node, ConfigOf(flags), "cloexec" \in flags)
            /\ data' = IF Tree.kind[node] = "file" /\ "truncate" \in flags
                       THEN [data EXCEPT ![node] = ResizeTo(@, 0)] ELSE data
         \/ HostFails /\ Tree.kind[node] = "file" /\ Fail("open", "eInterrupted")
Create(dir, name, flags) ==
    LET error == FirstError(<<
            <<~CheckAccess(Ids, Tree.access[dir], {"w"}), "eAccess">>,
            <<dir \notin Tree.native, "eReadOnly">> >>)
    IN IF error # "ok" THEN Fail("open", error)
       ELSE \/ /\ <<dir, name>> \in DOMAIN Tree.entries
               /\ SetupFile(Tree.entries[dir, name], ConfigOf(flags), "cloexec" \in flags)
               /\ data' = [data EXCEPT ![Tree.entries[dir, name]] = <<>>]
            \/ HostFails /\ Fail("open", "eInterrupted")

OpenAt(base, path, flags) ==
    LET exclusive == {"create", "exclusive"} \subseteq flags
        at == Find(base, path, FALSE, "nofollow" \notin flags /\ ~exclusive, "create" \notin flags)
        begin == CheckPath(Tree, wd, base, path, FALSE).err
        error == FirstError(<<
            <<{"update", "write"} \subseteq flags, "eInvalid">>,
            <<"directory" \in flags /\ flags \cap {"create", "exclusive", "truncate"} # {}, "eInvalid">>,
            <<begin # "ok", begin>>,
            <<pOpened >= MaxFd, "eMaximumFiles">>,
            <<at.err # "ok", at.err>> >>)
    IN CASE error # "ok" -> Fail("open", error)
         [] error = "ok" /\ at.found -> OpenExisting(at.node, flags)
         [] error = "ok" /\ ~at.found -> Create(at.node, Last(path.names), flags)

-----------------------------------------------------------------------------
(* Descriptors.                                                            *)

Close(fd) ==
    LET left == Instance(fd).user - 1
    IN IF ~CheckFd(fd) THEN Fail("close", "eBadFd")
       ELSE /\ pInstance' = [pInstance EXCEPT ![Of(fd)] =
                   IF left = 0 THEN [@ EXCEPT !.user = 0, !.cache = <<>>, !.node = NoNode]
                   ELSE [@ EXCEPT !.user = left]]
            /\ pOpen' = [pOpen EXCEPT ![fd + 1].used = FALSE]
            /\ pOpened' = (pOpened - 1) % SizeLimit
            /\ Done("close", 0, <<>>)
            /\ UNCHANGED <<data, wd>>

DuplicateUncounted(fd, from, cloexec) ==
    LET index == IF from < 0 THEN 0 ELSE NextFd(from)
    IN IF ~CheckFd(fd) \/ from \notin 0..MaxFd - 1 \/ index >= MaxFd THEN Fail("duplicate", "eBadFd")
       ELSE /\ pOpen' = [Extended(index) EXCEPT ![index + 1] = Entry(pOpen[fd + 1].instance, TRUE, cloexec)]
            /\ pOpened' = (pOpened + 1) % SizeLimit
            /\ Done("duplicate", index, <<>>)
            /\ UNCHANGED <<pInstance, data, wd>>
Duplicate(fd, from, cloexec) ==
    LET index == IF from < 0 THEN 0 ELSE NextFd(from)
        error == FirstError(<<
            <<from < 0 \/ from >= MaxFd, "eInvalid">>,
            <<from < Len(pOpen) /\ index = Len(pOpen) /\ Len(pOpen) >= MaxFd, "eMaximumFiles">> >>)
    IN IF ~CheckFd(fd) THEN Fail("duplicate", "eBadFd")
       ELSE IF error # "ok" THEN Fail("duplicate", error)
       ELSE /\ pOpen' = [Extended(index) EXCEPT ![index + 1] = Entry(pOpen[fd + 1].instance, TRUE, cloexec)]
            /\ pInstance' = [pInstance EXCEPT ![Of(fd)].user = @ + 1]
            /\ pOpened' = (pOpened + 1) % SizeLimit
            /\ Done("duplicate", index, <<>>)
            /\ UNCHANGED <<data, wd>>
GetCloseOnExecute(fd) ==
    IF ~CheckFd(fd) THEN Fail("getfd", "eBadFd")
    ELSE /\ Done("getfd", IF pOpen[fd + 1].cloexec THEN 1 ELSE 0, <<>>)
         /\ UNCHANGED <<pOpen, pInstance, pOpened, data, wd>>
SetCloseOnExecute(fd, cloexec) ==
    IF ~CheckFd(fd) THEN Fail("setfd", "eBadFd")
    ELSE /\ pOpen' = [pOpen EXCEPT ![fd + 1].cloexec = cloexec]
         /\ Done("setfd", 0, <<>>)
         /\ UNCHANGED <<pInstance, pOpened, data, wd>>
GetFlags(fd) ==
    IF ~CheckFd(fd) THEN Fail("getfl", "eBadFd")
    ELSE LET config == Instance(fd).config
             flags == config.creation \cup {f \in {"append", "path", "nonblock"} :
                          CASE f = "append" -> config.append
                            [] f = "path" -> ~config.modify
                            [] f = "nonblock" -> config.nonBlock}
         IN /\ Done("getfl", IF config.read THEN IF config.write THEN 2 ELSE 0 ELSE 1, InOrder(flags))
            /\ UNCHANGED <<pOpen, pInstance, pOpened, data, wd>>
SetFlags(fd, flags) ==
    IF ~CheckFd(fd) THEN Fail("setfl", "eBadFd")
    ELSE IF "nonblock" \in flags /\ Type(fd) \notin {"dir", "link", "file"} THEN Fail("setfl", "eNotImplemented")
    ELSE /\ pInstance' = [pInstance EXCEPT ![Of(fd)].config.append = "append" \in flags,
                                           ![Of(fd)].config.nonBlock = "nonblock" \in flags]
         /\ Done("setfl", 0, <<>>)
         /\ UNCHANGED <<pOpen, pOpened, data, wd>>
Ioctl(fd) ==
    Fail("ioctl", IF ~CheckFd(fd) THEN "eBadFd" ELSE IF ~Instance(fd).config.modify THEN "eBadFd" ELSE "eNoTTY")

-----------------------------------------------------------------------------
(* Reading and writing.  A read of the terminal returns what was typed,    *)
(* one of another device as much as was asked for.                         *)

NodeRead(node, offset, count) ==
    CASE Tree.kind[node] = "file" -> {ReadAt(data[node], offset, count)}
      [] Tree.kind[node] = "tty" -> {Zeros(n) : n \in 0..count}
      [] Tree.kind[node] = "char" -> {Zeros(count)}
      [] Tree.kind[node] \in {"dir", "link"} -> {<<>>}

ReadFile(fd, count) ==
    LET file == Type(fd) = "file"
    IN \E bytes \in NodeRead(Instance(fd).node, IF file THEN Instance(fd).offset ELSE 0, count) :
          /\ pInstance' = IF file THEN [pInstance EXCEPT ![Of(fd)].offset = @ + Len(bytes)] ELSE pInstance
          /\ Done("read", Len(bytes), bytes)
          /\ UNCHANGED <<pOpen, pOpened, data, wd>>
Read(fd, count) ==
    CASE CheckRead(fd) # "ok" -> Fail("read", CheckRead(fd))
      [] CheckRead(fd) = "ok" /\ count = 0 ->
             Done("read", 0, <<>>) /\ UNCHANGED <<pOpen, pInstance, pOpened, data, wd>>
      [] OTHER -> \/ ReadFile(fd, count)
                  \/ HostFails /\ Type(fd) = "file" /\ Fail("read", "eIO")

WriteFileAtOffset(fd, new) ==
    LET node == Instance(fd).node
        at == Instance(fd).offset
        count == WriteCount(data[node], at, new)
    IN /\ data' = [data EXCEPT ![node] = WriteAt(@, at, new)]
       /\ pInstance' = [pInstance EXCEPT ![Of(fd)].offset = at + count]
       /\ Done("write", count, <<>>)
       /\ UNCHANGED <<pOpen, pOpened, wd>>
(* fWrite: with the flag for appending, a file is first asked for its end. *)
WriteFile(fd, new) ==
    LET node == Instance(fd).node
        at == IF Instance(fd).config.append THEN Len(data[node]) ELSE Instance(fd).offset
        count == WriteCount(data[node], at, new)
    IN /\ data' = [data EXCEPT ![node] = WriteAt(@, at, new)]
       /\ pInstance' = [pInstance EXCEPT ![Of(fd)].offset = at + count]
       /\ Done("write", count, <<>>)
       /\ UNCHANGED <<pOpen, pOpened, wd>>
(* The offset is at the end already when the host refuses to write there.  *)
WriteRefused(fd) ==
    /\ pInstance' = [pInstance EXCEPT ![Of(fd)].offset =
           IF Instance(fd).config.append THEN Len(data[Instance(fd).node]) ELSE @]
    /\ Error("write", "eIO")
    /\ UNCHANGED <<pOpen, pOpened, data, wd>>
Write(fd, new) ==
    CASE CheckWrite(fd) # "ok" -> Fail("write", CheckWrite(fd))
      [] CheckWrite(fd) = "ok" /\ (new = <<>> \/ Type(fd) # "file") ->
             Done("write", Len(new), <<>>) /\ UNCHANGED <<pOpen, pInstance, pOpened, data, wd>>
      [] OTHER -> \/ WriteFile(fd, new)
                  \/ HostFails /\ WriteRefused(fd)

(* fdRead, for mmap: fRead is passed the number of the instance where it   *)
(* expects a descriptor.                                                   *)
MapRead(fd, offset, count) ==
    LET other == pOpen[fd + 1].instance
    IN IF ~CheckFd(fd) \/ count = 0
       THEN Done("map", fd, <<>>) /\ UNCHANGED <<pOpen, pInstance, pOpened, data, wd>>
       ELSE IF other >= Len(pOpen) THEN Fail("map", "fault")
       ELSE IF Instance(other).node = NoNode THEN Fail("map", "fault")
       ELSE /\ \E bytes \in NodeRead(Instance(other).node, offset, count) : Done("map", fd, bytes)
            /\ UNCHANGED <<pOpen, pInstance, pOpened, data, wd>>

(* lseek: from the end, the check is made with the offset the instance has *)
(* and not with the end.                                                   *)
Seek(fd, offset, whence) ==
    LET old == Instance(fd).offset
        new == CASE whence = "set" -> offset
                 [] whence = "cur" -> old + offset
                 [] whence = "end" -> Len(data[Instance(fd).node]) + offset
        error == FirstError(<<
            <<whence = "set" /\ offset < 0, "eInvalid">>,
            <<whence = "end" /\ Type(fd) # "file", "eInvalid">>,
            <<whence \in {"cur", "end"} /\ old + offset < 0, "eInvalid">> >>)
    IN IF ~CheckFd(fd) THEN Fail("seek", "eBadFd")
       ELSE IF error # "ok" THEN Fail("seek", error)
       ELSE /\ new <= MaxOffset
            /\ pInstance' = [pInstance EXCEPT ![Of(fd)].offset = new]
            /\ Done("seek", new, <<>>)
            /\ UNCHANGED <<pOpen, pOpened, data, wd>>

(* getdents64: at the start, or after a failure, the directory is listed   *)
(* anew; the entries that fit are returned and the offset moves by them.   *)
ListEntries(fd, room, list) ==
    LET offset == Instance(fd).offset
        left == Len(list) - offset
        taken == IF left <= 0 THEN 0 ELSE Least(left, room)
    IN /\ pInstance' = [pInstance EXCEPT ![Of(fd)].cache = list, ![Of(fd)].outdated = FALSE,
                                         ![Of(fd)].offset = @ + taken]
       /\ IF left > 0 /\ room = 0 THEN Error("list", "eInvalid")
          ELSE Done("list", taken, IF taken = 0 THEN <<>> ELSE SubSeq(list, offset + 1, offset + taken))
       /\ UNCHANGED <<pOpen, pOpened, data, wd>>
ListRefused(fd) ==
    /\ pInstance' = [pInstance EXCEPT ![Of(fd)].outdated = TRUE]
    /\ Error("list", "eIO")
    /\ UNCHANGED <<pOpen, pOpened, data, wd>>
List(fd, room) ==
    LET instance == Instance(fd)
        cached == instance.offset > 0 /\ ~instance.outdated
        error == FirstError(<<
            <<~instance.config.read, "eBadFd">>,
            <<Tree.kind[instance.node] # "dir", "eNotDirectory">> >>)
    IN IF ~CheckFd(fd) THEN Fail("list", "eBadFd")
       ELSE IF error # "ok" THEN Fail("list", error)
       ELSE \/ ListEntries(fd, room, IF cached THEN instance.cache ELSE ListDir(Current, instance.node))
            \/ HostFails /\ ~cached /\ instance.node \in Tree.native /\ ListRefused(fd)

-----------------------------------------------------------------------------
(* Questions about paths and descriptors.                                  *)

SizeOf(node) == IF Tree.kind[node] = "file" THEN Len(data[node]) ELSE 0
StatFd(fd) ==
    IF ~CheckFd(fd) THEN Fail("stat", "eBadFd")
    ELSE Done("stat", SizeOf(Instance(fd).node), <<>>) /\ UNCHANGED <<pOpen, pInstance, pOpened, data, wd>>
StatAt(base, path, empty, follow) ==
    LET at == Find(base, path, empty, follow, TRUE)
    IN IF at.err # "ok" THEN Fail("stat", at.err)
       ELSE Done("stat", SizeOf(at.node), <<>>) /\ UNCHANGED <<pOpen, pInstance, pOpened, data, wd>>
AccessAt(base, path, wishes, empty, follow) ==
    LET at == Find(base, path, empty, follow, TRUE)
        error == IF at.err # "ok" THEN at.err
                 ELSE IF wishes = {} \/ CheckAccess(Ids, Tree.access[at.node], wishes) THEN "ok" ELSE "eAccess"
    IN IF error # "ok" THEN Fail("access", error)
       ELSE Done("access", 0, <<>>) /\ UNCHANGED <<pOpen, pInstance, pOpened, data, wd>>
ReadLinkAt(base, path) ==
    LET at == Find(base, path, FALSE, FALSE, TRUE)
        error == IF at.err # "ok" THEN at.err
                 ELSE FirstError(<< <<~CheckAccess(Ids, Tree.access[at.node], {"r"}), "eAccess">>,
                                    <<Tree.kind[at.node] # "link", "eInvalid">> >>)
    IN IF error # "ok" THEN Fail("readlink", error)
       ELSE Done("readlink", 0, Tree.link[at.node].names) /\ UNCHANGED <<pOpen, pInstance, pOpened, data, wd>>
ChangeDirectory(path) ==
    LET at == Find(WorkingDirectory, path, FALSE, TRUE, TRUE)
        error == IF at.err # "ok" THEN at.err ELSE IF Tree.kind[at.node] # "dir" THEN "eNotDirectory" ELSE "ok"
    IN IF error # "ok" THEN Fail("chdir", error)
       ELSE /\ wd' = BuildPath(at.node)
            /\ Done("chdir", 0, <<>>)
            /\ UNCHANGED <<pOpen, pInstance, pOpened, data>>

-----------------------------------------------------------------------------
OnPath(base, path) ==
    \/ \E flags \in OpenFlags : OpenAt(base, path, flags)
    \/ \E at \in AtFlags : StatAt(base, path, "empty" \in at, "nofollow" \notin at)
    \/ \E wishes \in Wishes, at \in AtFlags : AccessAt(base, path, wishes, "empty" \in at, "nofollow" \notin at)
    \/ ReadLinkAt(base, path)
OnDescriptor(fd) ==
    \/ Close(fd) \/ GetCloseOnExecute(fd) \/ GetFlags(fd) \/ Ioctl(fd) \/ StatFd(fd)
    \/ \E from \in -1..MaxFd, cloexec \in CloseOnExecute : Duplicate(fd, from, cloexec)
    \/ \E cloexec \in CloseOnExecute : SetCloseOnExecute(fd, cloexec)
    \/ \E flags \in StatusFlags : SetFlags(fd, flags)
    \/ \E count \in Counts : Read(fd, count)
    \/ \E new \in Texts : Write(fd, new)
    \/ \E seek \in Seeks : Seek(fd, seek[1], seek[2])
    \/ \E room \in ListCounts : List(fd, room)
    \/ \E count \in Counts : MapRead(fd, 0, count)
Next ==
    \/ \E path \in Paths : ChangeDirectory(path) \/ OnPath(WorkingDirectory, path)
    \/ \E fd \in Given : OnDescriptor(fd) \/ \E path \in {p \in Paths : ~p.abs} : OnPath(Below(fd), path)

Spec == Init /\ [][Next]_vars

(* What the calls to come can depend on as long as no closed descriptor is *)
(* passed: not on the last answer, nor on what closing leaves behind, nor  *)
(* on a listing that is made anew.                                         *)
Continues(instance) == instance.offset > 0 /\ ~instance.outdated
Relevant ==
    <<[i \in DOMAIN pOpen |-> IF pOpen[i].used THEN pOpen[i] ELSE Entry(0, FALSE, FALSE)],
      [i \in DOMAIN pInstance |->
          IF pInstance[i].node = NoNode THEN <<>>
          ELSE [pInstance[i] EXCEPT !.cache = IF Continues(pInstance[i]) THEN @ ELSE <<>>,
                                    !.outdated = @ /\ pInstance[i].offset > 0]],
      pOpened, data, wd>>

-----------------------------------------------------------------------------
(* Every variable keeps its type.                                          *)
TypeOK ==
    /\ \A i \in DOMAIN pOpen : pOpen[i] \in [instance : 0..Len(pInstance) - 1, used : BOOLEAN, cloexec : BOOLEAN]
    /\ \A i \in DOMAIN pInstance :
          /\ pInstance[i].node \in DOMAIN Tree.kind \cup {NoNode}
          /\ pInstance[i].user \in 0..SizeLimit - 1 /\ pInstance[i].offset \in Int
          /\ pInstance[i].config \in Config /\ pInstance[i].outdated \in BOOLEAN
    /\ pOpened \in 0..SizeLimit - 1

(* An instance lives exactly as long as a descriptor refers to it, and the *)
(* counters of users and of open descriptors agree with the table: no call *)
(* closes the file of another descriptor, and the limit is the one meant.  *)
UsersOf(i) == {fd \in 1..Len(pOpen) : pOpen[fd].used /\ pOpen[fd].instance = i - 1}
InstancesCounted ==
    /\ pOpened = Cardinality({fd \in 1..Len(pOpen) : pOpen[fd].used})
    /\ Len(pOpen) <= MaxFd
    /\ \A i \in DOMAIN pInstance :
          /\ pInstance[i].user = Cardinality(UsersOf(i))
          /\ pInstance[i].node = NoNode <=> UsersOf(i) = {}

(* The calls keep what OpenFiles promises to the program.                  *)
Opened(i) == i <= Len(pInstance) /\ pInstance[i].node # NoNode
Promise == INSTANCE OpenFiles WITH
    table <- [fd \in 0..MaxFd - 1 |-> IF IsUsed(fd) THEN [id |-> Of(fd), cloexec |-> pOpen[fd + 1].cloexec]
                                      ELSE [id |-> 0, cloexec |-> FALSE]],
    opened <- [i \in 1..MaxFd |-> IF Opened(i)
                  THEN [node |-> pInstance[i].node, offset |-> pInstance[i].offset,
                        read |-> pInstance[i].config.read, write |-> pInstance[i].config.write,
                        append |-> pInstance[i].config.append, nonBlock |-> pInstance[i].config.nonBlock,
                        path |-> ~pInstance[i].config.modify, creation |-> pInstance[i].config.creation,
                        listing |-> pInstance[i].cache, outdated |-> pInstance[i].outdated]
                  ELSE [node |-> NoNode]],
    cwd <- FoldLeft(LAMBDA n, name : Lookup(Tree, n, name), Root, wd)
ImplementsOpenFiles == Promise!Spec

(* Mapping a file into memory reads the file of the descriptor given.      *)
MapReadsItsFile ==
    ret.call = "map" /\ ret.bytes # <<>> =>
        /\ Type(ret.val) = "file"
        /\ ret.bytes = ReadAt(data[Instance(ret.val).node], 0, Len(ret.bytes))
=============================================================================
