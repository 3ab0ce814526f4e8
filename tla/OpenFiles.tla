------------------------------ MODULE OpenFiles ------------------------------
(***************************************************************************)
(* What the calls on files promise to a program: descriptors name open     *)
(* files, several descriptors may share one and with it the offset, paths  *)
(* are walked component by component from a directory, and an open file    *)
(* lives until its last descriptor is closed.                              *)
(*                                                                         *)
(* Opening may fail for any reason as long as it leaves no trace; the      *)
(* other calls fail only as stated, and with eIO.  What is weaker or       *)
(* different here from Unix is marked `Deviates'.                          *)
(***************************************************************************)
EXTENDS Nodes, FileData

CONSTANTS
    Tree,           \* the nodes there are or may be created
    Ids,            \* [uid, gid] of the process
    MaxFd,          \* descriptors a process may have
    Paths,          \* the paths [abs, names] the program passes,
    OpenFlags,      \* and the sets of flags it opens them with
    StatusFlags,    \* the sets of flags it sets later
    Counts,         \* how much it reads,
    Texts,          \* what it writes,
    Seeks           \* and where it seeks: pairs of an offset and what it counts from

VARIABLES
    table,          \* descriptor -> [id, cloexec] with the open file it names, or Unused
    opened,         \* open file -> [node, offset, read, write, append, ...], or NoFile
    data,           \* file -> its bytes, or Absent
    cwd,            \* the working directory, a node
    ret             \* what the last call answered

vars == <<table, opened, data, cwd, ret>>

NoFile == [node |-> NoNode]
Unused == [id |-> 0, cloexec |-> FALSE]
Fds == 0..MaxFd - 1
OpenIds == 1..MaxFd
AnyFd == -1..MaxFd
Used == {fd \in Fds : table[fd] # Unused}
OpenFile(fd) == opened[table[fd].id]
Free(from) == {fd \in Fds : fd >= from /\ table[fd] = Unused}
Lowest(S) == CHOOSE x \in S : \A y \in S : x <= y

Existing == [Tree EXCEPT !.entries =
    [e \in {d \in DOMAIN Tree.entries : Tree.entries[d] \in DOMAIN data => data[Tree.entries[d]] # Absent} |->
        Tree.entries[e]]]

(* A path begins at the root, at the working directory, or at the open     *)
(* directory of a descriptor.                                              *)
Starts(path) == IF path.abs THEN {Root} ELSE {cwd, NoNode} \cup {OpenFile(fd).node : fd \in Used}
Walk(start, path, follow, findExisting) ==
    IF start = NoNode THEN Answer("eBadFd", NoNode, FALSE)
    ELSE Visit(Existing, Ids, start, path.names, follow, findExisting)

Errors == {"eBadFd", "eInvalid", "eExists", "eLoop", "eIsDirectory", "eNotDirectory", "eAccess",
           "eNoEntry", "eReadOnly", "eInterrupted", "eMaximumFiles", "eNotImplemented",
           "ePermissionDenied", "eNoTTY"}
Answered(call, val, bytes) == ret' = [call |-> call, err |-> "ok", val |-> val, bytes |-> bytes]
Fail(call, errors) ==
    /\ \E e \in errors : ret' = [call |-> call, err |-> e, val |-> -1, bytes |-> <<>>]
    /\ UNCHANGED <<table, opened, data, cwd>>

Init ==
    /\ \E standard \in 1..MaxFd :
          /\ table = [fd \in Fds |-> IF fd < standard THEN [id |-> fd + 1, cloexec |-> FALSE] ELSE Unused]
          /\ \A i \in OpenIds : opened[i] = NoFile <=> i > standard
    /\ cwd \in DOMAIN Tree.kind

-----------------------------------------------------------------------------
(* A path is opened: its file is created, emptied or left alone, and a new *)
(* open file gets the lowest free descriptor.                              *)
Fresh(node, flags) ==
    [node |-> node, offset |-> 0, listing |-> <<>>, outdated |-> FALSE,
     path |-> "path" \in flags, nonBlock |-> "nonblock" \in flags, creation |-> flags \cap CreationFlags,
     read |-> "write" \notin flags /\ "path" \notin flags,
     write |-> flags \cap {"write", "update"} # {} /\ "path" \notin flags,
     append |-> flags \cap {"write", "update"} # {} /\ "path" \notin flags /\ "append" \in flags]
OpenNew(start, path, flags) ==
    LET exclusive == {"create", "exclusive"} \subseteq flags
        at == Walk(start, path, "nofollow" \notin flags /\ ~exclusive, "create" \notin flags)
        node == IF at.found THEN at.node ELSE Tree.entries[at.node, Last(path.names)]
    IN /\ at.err = "ok" /\ Free(0) # {}
       /\ IF at.found THEN ~exclusive ELSE <<at.node, Last(path.names)>> \in DOMAIN Tree.entries
       /\ data' = IF at.found /\ ("truncate" \notin flags \/ node \notin DOMAIN data) THEN data
                  ELSE [data EXCEPT ![node] = <<>>]
       /\ \E id \in {i \in OpenIds : opened[i] = NoFile} :
             /\ table' = [table EXCEPT ![Lowest(Free(0))] = [id |-> id, cloexec |-> "cloexec" \in flags]]
             /\ opened' = [opened EXCEPT ![id] = Fresh(node, flags)]
       /\ Answered("open", Lowest(Free(0)), <<>>)
       /\ UNCHANGED cwd
Open(start, path, flags) == Fail("open", Errors) \/ OpenNew(start, path, flags)

Close(fd) ==
    \/ fd \notin Used /\ Fail("close", {"eBadFd"})
    \/ /\ fd \in Used
       /\ table' = [table EXCEPT ![fd] = Unused]
       /\ opened' = IF \E other \in Used \ {fd} : table[other].id = table[fd].id THEN opened
                    ELSE [opened EXCEPT ![table[fd].id] = NoFile]
       /\ Answered("close", 0, <<>>) /\ UNCHANGED <<data, cwd>>

Duplicate(fd, from, cloexec) ==
    \/ fd \notin Used /\ Fail("duplicate", {"eBadFd"})
    \/ from \notin Fds /\ Fail("duplicate", {"eInvalid"})
    \/ Free(from) = {} /\ Fail("duplicate", {"eMaximumFiles"})
    \/ /\ fd \in Used /\ from \in Fds /\ Free(from) # {}
       /\ table' = [table EXCEPT ![Lowest(Free(from))] = [id |-> table[fd].id, cloexec |-> cloexec]]
       /\ Answered("duplicate", Lowest(Free(from)), <<>>) /\ UNCHANGED <<opened, data, cwd>>

(* A read of a file returns what is there and moves the shared offset by   *)
(* as much; what it leaves of the buffer is not specified.                 *)
ReadFile(fd, count) ==
    LET bytes == ReadAt(data[OpenFile(fd).node], OpenFile(fd).offset, count)
    IN /\ opened' = [opened EXCEPT ![table[fd].id].offset = @ + Len(bytes)]
       /\ Answered("read", Len(bytes), bytes) /\ UNCHANGED <<table, data, cwd>>
ReadDevice == /\ ret'.call = "read" /\ ret'.err = "ok" /\ ret'.val >= 0
              /\ UNCHANGED <<table, opened, data, cwd>>
Read(fd, count) ==
    \/ (fd \in Used => ~OpenFile(fd).read) /\ Fail("read", {"eBadFd"})
    \/ /\ fd \in Used /\ OpenFile(fd).read
       /\ CASE OpenFile(fd).node \in DOMAIN data -> ReadFile(fd, count) \/ Fail("read", {"eIO"})
            [] Tree.kind[OpenFile(fd).node] = "dir" -> Fail("read", {"eIsDirectory"})
            [] OTHER -> ReadDevice

(* Deviates: the offset is moved although an append failed.                *)
WriteFails(fd) ==
    LET file == OpenFile(fd)
    IN /\ opened' \in {opened, [opened EXCEPT ![table[fd].id].offset =
                                   IF file.append THEN Len(data[file.node]) ELSE @]}
       /\ ret' = [call |-> "write", err |-> "eIO", val |-> -1, bytes |-> <<>>]
       /\ UNCHANGED <<table, data, cwd>>
Write(fd, new) ==
    \/ (fd \in Used => ~OpenFile(fd).write) /\ Fail("write", {"eBadFd"})
    \/ /\ fd \in Used /\ OpenFile(fd).write
       /\ IF OpenFile(fd).node \notin DOMAIN data
          THEN Answered("write", Len(new), <<>>) /\ UNCHANGED <<table, opened, data, cwd>>
          ELSE LET file == OpenFile(fd)
                   at == IF file.append /\ new # <<>> THEN Len(data[file.node]) ELSE file.offset
                   count == WriteCount(data[file.node], at, new)
               IN /\ data' = [data EXCEPT ![file.node] = WriteAt(@, at, new)]
                  /\ opened' = [opened EXCEPT ![table[fd].id].offset = at + count]
                  /\ Answered("write", count, <<>>) /\ UNCHANGED <<table, cwd>>
    \/ fd \in Used /\ OpenFile(fd).write /\ OpenFile(fd).node \in DOMAIN data /\ WriteFails(fd)

(* The flags of the open file, and the one of the descriptor.  Deviates:   *)
(* the flags that only open a file are answered too, and a descriptor that *)
(* was opened for its path alone, which has none, says it may be written.  *)
SetFlags(fd, flags) ==
    \/ fd \notin Used /\ Fail("setfl", {"eBadFd"})
    \/ fd \in Used /\ "nonblock" \in flags /\ Fail("setfl", {"eNotImplemented"})
    \/ /\ fd \in Used
       /\ opened' = [opened EXCEPT ![table[fd].id].append = "append" \in flags,
                                   ![table[fd].id].nonBlock = "nonblock" \in flags]
       /\ Answered("setfl", 0, <<>>) /\ UNCHANGED <<table, data, cwd>>
Mode(file) == IF file.read /\ file.write THEN 2 ELSE IF file.read THEN 0 ELSE 1
Status(file) == {f \in {"append", "path", "nonblock"} :
    CASE f = "append" -> file.append [] f = "path" -> file.path [] f = "nonblock" -> file.nonBlock}
GetFlags(fd) ==
    \/ fd \notin Used /\ Fail("getfl", {"eBadFd"})
    \/ /\ fd \in Used
       /\ LET file == OpenFile(fd)
          IN \/ Answered("getfl", IF file.path THEN 0 ELSE Mode(file), InOrder(Status(file)))
             \/ Answered("getfl", Mode(file), InOrder(Status(file) \cup file.creation))
       /\ UNCHANGED <<table, opened, data, cwd>>
SetCloseOnExecute(fd, cloexec) ==
    \/ fd \notin Used /\ Fail("setfd", {"eBadFd"})
    \/ /\ fd \in Used
       /\ table' = [table EXCEPT ![fd].cloexec = cloexec]
       /\ Answered("setfd", 0, <<>>) /\ UNCHANGED <<opened, data, cwd>>
GetCloseOnExecute(fd) ==
    \/ fd \notin Used /\ Fail("getfd", {"eBadFd"})
    \/ fd \in Used /\ Answered("getfd", IF table[fd].cloexec THEN 1 ELSE 0, <<>>)
                   /\ UNCHANGED <<table, opened, data, cwd>>

(* Deviates: from the end, an offset back is refused where the offset the  *)
(* file has would become negative, and otherwise taken even if it leads    *)
(* before the beginning.                                                   *)
SeekTo(fd, new) ==
    /\ opened' = [opened EXCEPT ![table[fd].id].offset = new]
    /\ Answered("seek", new, <<>>) /\ UNCHANGED <<table, data, cwd>>
SeekFromEnd(fd, offset) ==
    /\ OpenFile(fd).node \in DOMAIN data
    /\ IF OpenFile(fd).offset + offset < 0 THEN Fail("seek", {"eInvalid"})
       ELSE SeekTo(fd, Len(data[OpenFile(fd).node]) + offset)
Seek(fd, offset, whence) ==
    \/ fd \notin Used /\ Fail("seek", {"eBadFd"})
    \/ LET base == CASE whence = "set" -> 0
                     [] whence = "cur" -> OpenFile(fd).offset
                     [] whence = "end" -> Len(data[OpenFile(fd).node])
       IN /\ fd \in Used
          /\ IF (whence = "end" /\ OpenFile(fd).node \notin DOMAIN data) \/ base + offset < 0
             THEN Fail("seek", {"eInvalid"})
             ELSE SeekTo(fd, base + offset)
    \/ fd \in Used /\ whence = "end" /\ offset < 0 /\ SeekFromEnd(fd, offset)

(* A directory is listed as it is when the listing begins: every entry     *)
(* once, over as many calls as the program needs.  A listing that failed   *)
(* goes on with the directory as it is then.                               *)
EntryNames(dir) == {".", ".."} \cup
    {e[2] : e \in {d \in DOMAIN Existing.mounted \cup DOMAIN Existing.entries : d[1] = dir}}
Listing(file, listing) ==
    IF file.offset = 0 \/ file.outdated THEN ToSet(listing) = EntryNames(file.node) /\ IsInjective(listing)
    ELSE listing = file.listing
Greatest(a, b) == IF a >= b THEN a ELSE b
List(fd) ==
    \/ Fail("list", {"eBadFd", "eNotDirectory"})
    \/ /\ fd \in Used /\ Tree.kind[OpenFile(fd).node] = "dir"
       /\ (OpenFile(fd).offset = 0 \/ OpenFile(fd).outdated)
       /\ opened' = [opened EXCEPT ![table[fd].id].outdated = TRUE]
       /\ ret' = [call |-> "list", err |-> "eIO", val |-> -1, bytes |-> <<>>]
       /\ UNCHANGED <<table, data, cwd>>
    \/ LET id == table[fd].id
           listing == opened'[id].listing
       IN /\ fd \in Used /\ Tree.kind[OpenFile(fd).node] = "dir" /\ Listing(OpenFile(fd), listing)
          /\ ret'.call = "list" /\ Len(ret'.bytes) <= Greatest(0, Len(listing) - OpenFile(fd).offset)
          /\ \/ ret'.err = "eInvalid" /\ opened' = [opened EXCEPT ![id].listing = listing, ![id].outdated = FALSE]
             \/ /\ Answered("list", Len(ret'.bytes), SubSeq(listing, OpenFile(fd).offset + 1,
                                                           OpenFile(fd).offset + Len(ret'.bytes)))
                /\ ret'.bytes = <<>> => OpenFile(fd).offset >= Len(listing)
                /\ opened' = [opened EXCEPT ![id].listing = listing, ![id].outdated = FALSE,
                                             ![id].offset = @ + Len(ret'.bytes)]
          /\ UNCHANGED <<table, data, cwd>>

ChangeDirectory(path) ==
    LET at == Walk(IF path.abs THEN Root ELSE cwd, path, TRUE, TRUE)
    IN \/ path = EmptyPath /\ Fail("chdir", {"eInvalid"})
       \/ at.err # "ok" /\ Fail("chdir", {at.err})
       \/ at.err = "ok" /\ Tree.kind[at.node] # "dir" /\ Fail("chdir", {"eNotDirectory"})
       \/ /\ at.err = "ok" /\ Tree.kind[at.node] = "dir"
          /\ cwd' = at.node
          /\ Answered("chdir", 0, <<>>) /\ UNCHANGED <<table, opened, data>>

(* The size of a file, through a descriptor or a path; others have none.   *)
Size(node) == IF node \in DOMAIN data THEN Len(data[node]) ELSE 0
StatFd(fd) ==
    \/ fd \notin Used /\ Fail("stat", {"eBadFd"})
    \/ fd \in Used /\ Answered("stat", Size(OpenFile(fd).node), <<>>)
                   /\ UNCHANGED <<table, opened, data, cwd>>
StatPath(start, path, follow) ==
    LET at == Walk(start, path, follow, TRUE)
    IN \/ path = EmptyPath /\ Fail("stat", {"eInvalid"})
       \/ at.err # "ok" /\ Fail("stat", {at.err})
       \/ at.err = "ok" /\ Answered("stat", Size(at.node), <<>>)
                       /\ UNCHANGED <<table, opened, data, cwd>>

(* Questions about permissions, links and the terminal change nothing.     *)
Ask == /\ ret'.call \in {"access", "readlink", "ioctl", "map"}
       /\ UNCHANGED <<table, opened, data, cwd>>

Next ==
    LET call == ret'.call
    IN \/ call = "open" /\ \E path \in Paths, flags \in OpenFlags : \E start \in Starts(path) : Open(start, path, flags)
       \/ call = "stat" /\ \E path \in Paths, follow \in BOOLEAN : \E start \in Starts(path) : StatPath(start, path, follow)
       \/ call = "stat" /\ \E fd \in AnyFd : StatFd(fd)
       \/ call = "chdir" /\ \E path \in Paths : ChangeDirectory(path)
       \/ call = "close" /\ \E fd \in AnyFd : Close(fd)
       \/ call = "duplicate" /\ \E fd, from \in AnyFd, cloexec \in BOOLEAN : Duplicate(fd, from, cloexec)
       \/ call = "getfl" /\ \E fd \in AnyFd : GetFlags(fd)
       \/ call = "setfl" /\ \E fd \in AnyFd, flags \in StatusFlags : SetFlags(fd, flags)
       \/ call = "getfd" /\ \E fd \in AnyFd : GetCloseOnExecute(fd)
       \/ call = "setfd" /\ \E fd \in AnyFd, cloexec \in BOOLEAN : SetCloseOnExecute(fd, cloexec)
       \/ call = "read" /\ \E fd \in AnyFd, count \in Counts : Read(fd, count)
       \/ call = "write" /\ \E fd \in AnyFd, new \in Texts : Write(fd, new)
       \/ call = "seek" /\ \E fd \in AnyFd, seek \in Seeks : Seek(fd, seek[1], seek[2])
       \/ call = "list" /\ \E fd \in AnyFd : List(fd)
       \/ Ask

Spec == Init /\ [][Next]_vars
=============================================================================
