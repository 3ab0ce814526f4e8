------------------------------- MODULE Runtime -------------------------------
(***************************************************************************)
(* The control core of wasmlator: the one guest process (env::Process),    *)
(* the userspace system driving it (sys::Userspace), the syscall wrapper   *)
(* (sys::detail::Syscall::fWrap) and the map of translated blocks          *)
(* (env::Mapping), together with the host which performs the tasks.        *)
(*                                                                         *)
(* The application is single threaded, but everything slow is a task given *)
(* to the host (env::Process::fHandleTask).  The host may finish a task    *)
(* inside the very call that hands it over (the native null-interface) or  *)
(* at any later time (the browser and node hosts), and its answer runs a   *)
(* callback, which may run guest code, issue the next task, or destroy the *)
(* process.  So activations of the C++ functions pile up in orders nobody  *)
(* wrote down.  `stack' holds exactly the activations which still execute  *)
(* code once the call they are waiting for returns; a call in tail         *)
(* position replaces the frame of its caller.                              *)
(***************************************************************************)
EXTENDS Integers, Sequences, FiniteSets

CONSTANTS
    Addr,           \* guest addresses at which super-blocks can start
    Entry,          \* the address the loaded program starts at
    HostModes,      \* how the host may finish tasks: "inplace", "async"
    HostLocks,      \* TRUE: the host takes a command only while it is not busy
    HostLoses,      \* TRUE: loading a module may fail, the task is never completed
    DetectWrites,   \* Cpu::detectWriteExecute
    Locations,      \* number of entries of ResolveLocations
    MaxProcs,       \* bound on process ids
    MaxStamp,       \* bound on the tasks of one process
    MaxDepth,       \* bound on the stack when the host answers in-place
    MaxCode         \* bound on the changes of the executable memory

ASSUME RuntimeAssumption ==
    /\ Entry \in Addr /\ "enter" \notin Addr
    /\ HostModes \subseteq {"inplace", "async"}
    /\ HostLocks \in BOOLEAN /\ HostLoses \in BOOLEAN /\ DetectWrites \in BOOLEAN
    /\ Locations \in Nat \ {0}
    /\ MaxProcs \in Nat /\ MaxStamp \in Nat /\ MaxDepth \in Nat /\ MaxCode \in Nat

VARIABLES
    \* env: the globals of env-process.cpp and the members of env::Process
    procId,         \* global::ProcId
    alive,          \* global::Instance is set
    procState,      \* pProcState
    taskState,      \* pTaskState
    taskStamp,      \* pTaskStamp
    taskCall,       \* pTaskCallback, by the kind of task it belongs to
    exports,        \* pExports: the addresses of the block being loaded
    links,          \* addresses of other blocks, looked up when that block is instantiated
    \* env::Mapping and env::Memory, as far as code is concerned
    mapping,        \* pMapping: translated address -> version of the code it was translated from
    codeVer,        \* version of the executable memory of the guest
    xInvalid,       \* pXInvalidated
    unsynced,       \* history: code changed in a way only FENCE.I makes visible
    \* sys::Userspace and sys::detail::Syscall
    pAddress,       \* Userspace::pAddress
    resolveIndex,   \* Userspace::pResolveIndex
    interpreter,    \* Userspace::pLoaded.interpreter is not empty
    debugCheck,     \* the process was created with a debugger attached
    completed,      \* Syscall::pCurrent.completed
    nested,         \* Syscall::pCurrent.nested
    owed,           \* history: a system call was entered and has no result yet
    \* the C++ stack, the host and the commands
    stack,          \* the activations, the innermost one last
    pending,        \* tasks the host still works on
    lost,           \* tasks of the host which will never be completed
    session,        \* the operation of the host in progress
    debugger,       \* handle-commands.cpp: process `debugger' points into, 0 if null
    fatal           \* the latest fatal error of the process

procVars  == <<procState, taskState, taskStamp, taskCall, exports, links>>
codeVars  == <<mapping, codeVer, xInvalid, unsynced>>
loadVars  == <<resolveIndex, interpreter, debugCheck>>
callVars  == <<completed, nested, owed>>
hostVars  == <<lost, session, debugger>>
vars == <<procId, alive, procVars, codeVars, pAddress, loadVars, callVars,
          stack, pending, hostVars, fatal>>

-----------------------------------------------------------------------------
(* Types. *)

TaskKind   == {"core", "block", "resolve", "read", "syscall"}
ProcState  == {"none", "loadingCore", "coreLoaded", "loadingBlock"}
TaskState  == {"none", "started", "awaiting"}
Session    == {"idle", "handle", "execute"}
Fatal      == {"none", "guest", "syscall", "doubleTask", "coreNotLoaded",
               "loadInProgress", "blockFailed"}
NoCode     == [a \in {} |-> 0]

Task == [proc : Nat, kind : TaskKind, stamp : Nat]

\* Activations.  "create" is env::SetInstance and its callers, "block" fLoadBlock, "task"
\* fHandleTask; all three wait for the host.  "execute" is fExecute with the guest code it
\* runs, "wrap" is fWrap with the callback it runs; `level' is pCurrent.nested on entry.
CreateFrame  == [fn : {"create"}, proc : Nat, debug : BOOLEAN]
BlockFrame   == [fn : {"block"}, proc : Nat]
TaskFrame    == [fn : {"task"}, proc : Nat, stamp : Nat]
ExecuteFrame == [fn : {"execute"}, proc : Nat, at : {"enter"} \union Addr]
WrapFrame    == [fn : {"wrap"}, proc : Nat, inplace : BOOLEAN,
                 at : {"body", "issued"}, level : Nat]
Frame == CreateFrame \union BlockFrame \union TaskFrame \union ExecuteFrame \union WrapFrame

Top      == stack[Len(stack)]
Pop(s)   == SubSeq(s, 1, Len(s) - 1)
On(f)    == stack # <<>> /\ Top.fn = f
Below    == Pop(stack)

\* Mutant: any existing process is taken for the one with the given id
LiveAny(p) == alive

Live(p) == alive /\ p = procId

\* pending tasks the live process waits for
Outstanding == {t \in pending : Live(t.proc)}

Init ==
    /\ procId = 0 /\ alive = FALSE
    /\ procState = "none" /\ taskState = "none" /\ taskStamp = 0 /\ taskCall = "core"
    /\ exports = NoCode /\ links = {}
    /\ mapping = NoCode /\ codeVer = 0 /\ xInvalid = FALSE /\ unsynced = FALSE
    /\ pAddress = Entry
    /\ resolveIndex = 0 /\ interpreter = FALSE /\ debugCheck = FALSE
    /\ completed = FALSE /\ nested = 0 /\ owed = 0
    /\ stack = <<>> /\ pending = {}
    /\ lost = {} /\ session = "idle" /\ debugger = 0
    /\ fatal = "none"

-----------------------------------------------------------------------------
(* Steps many handlers share.  `base' is the stack left to the callers,    *)
(* `rest' the tasks the host keeps.                                        *)

\* Mutant: the callback is stored after the host was called
StartTaskLate(kind, base, rest) ==
    /\ taskStamp < MaxStamp
    /\ taskState' = "started"
    /\ taskStamp' = taskStamp + 1
    /\ taskCall' = taskCall
    /\ pending' = rest \union {[proc |-> procId, kind |-> kind, stamp |-> taskStamp + 1]}
    /\ stack' = Append(base, [fn |-> "task", proc |-> procId, stamp |-> taskStamp + 1])

\* fHandleTask up to the call of the host, when no task is active
StartTask(kind, base, rest) ==
    /\ taskStamp < MaxStamp
    /\ taskState' = "started"
    /\ taskStamp' = taskStamp + 1
    /\ taskCall' = kind
    /\ pending' = rest \union {[proc |-> procId, kind |-> kind, stamp |-> taskStamp + 1]}
    /\ stack' = Append(base, [fn |-> "task", proc |-> procId, stamp |-> taskStamp + 1])

\* A FatalException runs up to the entry point of the application the host called, which
\* swallows it: the innermost activation of fHandleTask that is in the host, or the bottom.
Unwound(base) ==
    {SubSeq(base, 1, k) : k \in {i \in 0 .. Len(base) :
        /\ i = 0 \/ base[i].fn = "task"
        /\ \A j \in (i + 1) .. Len(base) : base[j].fn # "task"}}

Abort(cause, base) ==
    /\ fatal' = cause
    /\ stack' \in Unwound(base)

\* shutdown: the system, the process and all they own are released
Release ==
    /\ alive' = FALSE
    /\ procState' = "none" /\ taskState' = "none" /\ taskStamp' = 0 /\ taskCall' = "core"
    /\ exports' = NoCode /\ links' = {}
    /\ mapping' = NoCode /\ codeVer' = 0 /\ xInvalid' = FALSE /\ unsynced' = FALSE
    /\ pAddress' = Entry
    /\ resolveIndex' = 0 /\ interpreter' = FALSE /\ debugCheck' = FALSE
    /\ completed' = FALSE /\ nested' = 0 /\ owed' = 0
    /\ fatal' = "none"

Shutdown(base, rest) ==
    /\ Release
    /\ stack' = base /\ pending' = rest
    /\ UNCHANGED <<procId, hostVars>>

\* Mapping::fFlush, after which nothing stale is left
Flush == mapping' = NoCode /\ unsynced' = FALSE

\* The addresses one translation may define: the root and whatever is reachable from it,
\* without those which are mapped already; they are linked to instead.
Translation(root, mapped) ==
    IF root \in mapped THEN {{}}
    ELSE {{root} \union s : s \in SUBSET (Addr \ mapped)}

\* Mutant: the block is translated before the flush
LinkableEarly == DOMAIN mapping

\* the blocks of other modules a translation may link to
Linkable == DOMAIN mapping'

\* fLoadBlock up to the call of the host; reads the code, map and pc the caller leaves
LoadBlock(base, rest, ts) ==
    \/ /\ procState = "none"
       /\ Abort("coreNotLoaded", base)
       /\ taskState' = ts
       /\ pending' = rest
       /\ UNCHANGED <<procState, taskStamp, taskCall, exports, links>>
    \/ /\ procState \in {"loadingCore", "loadingBlock"}
       /\ Abort("loadInProgress", base)
       /\ taskState' = ts
       /\ pending' = rest
       /\ UNCHANGED <<procState, taskStamp, taskCall, exports, links>>
    \/ /\ procState = "coreLoaded"      \* creating the module or reserving slots fails
       /\ procState' = "loadingBlock"
       /\ Abort("blockFailed", base)
       /\ taskState' = ts
       /\ pending' = rest
       /\ UNCHANGED <<taskStamp, taskCall, exports, links>>
    \/ /\ procState = "coreLoaded"
       /\ procState' = "loadingBlock"
       /\ \E s \in Translation(pAddress', Linkable) : exports' = [a \in s |-> codeVer']
       /\ links' \in SUBSET Linkable
       /\ LET frame == [fn |-> "block", proc |-> procId] IN
          IF ts = "none"
          THEN StartTask("block", Append(base, frame), rest) /\ UNCHANGED fatal
          ELSE /\ Abort("doubleTask", base)
               /\ taskState' = ts
               /\ pending' = rest
               /\ UNCHANGED <<taskStamp, taskCall>>

Enter(base) == Append(base, [fn |-> "execute", proc |-> procId, at |-> "enter"])

\* fExecute caught Translate or ExecuteDirty at `address'
Retranslate(address, base) ==
    /\ pAddress' = address
    /\ LoadBlock(base, pending, taskState)
    /\ UNCHANGED <<procId, alive, loadVars, hostVars>>

-----------------------------------------------------------------------------
(* Commands of the user: host/handle-commands.cpp, host/execute-commands.cpp. *)

Idle == session = "idle" /\ stack = <<>>

\* SetInstance, Setup and fLoadCore; `debug' attaches the debugger
Create(debug) ==
    /\ Idle /\ ~alive /\ procId < MaxProcs
    /\ procId' = procId + 1
    /\ \/ /\ alive' = TRUE
          /\ procState' = "loadingCore"
          /\ debugCheck' = debug
          /\ LET frame == [fn |-> "create", proc |-> procId + 1, debug |-> debug] IN
             /\ taskStamp < MaxStamp
             /\ taskState' = "started" /\ taskStamp' = 1 /\ taskCall' = "core"
             /\ pending' = pending \union {[proc |-> procId + 1, kind |-> "core", stamp |-> 1]}
             /\ stack' = <<frame, [fn |-> "task", proc |-> procId + 1, stamp |-> 1]>>
       \/ /\ UNCHANGED <<alive, procState, debugCheck>>   \* setupCore fails
          /\ UNCHANGED <<taskState, taskStamp, taskCall, pending, stack>>
    /\ UNCHANGED <<exports, links, codeVars, pAddress, resolveIndex, interpreter, callVars,
                   lost, fatal>>

\* "start": the debugger of a dead process is forgotten before anything else
HandleStart ==
    \E debug \in BOOLEAN :
        /\ Create(debug)
        /\ debugger' = 0
        /\ session' = "handle"

\* "execute" is refused while there is a process, whatever command created it, and is
\* still followed by the cleanup of EndSession
ExecuteStart ==
    /\ HostLocks /\ Idle
    /\ \/ Create(FALSE)
       \/ /\ alive
          /\ UNCHANGED <<procId, alive, procVars, codeVars, pAddress, loadVars, callVars,
                         stack, pending, lost, fatal>>
    /\ session' = "execute"
    /\ UNCHANGED debugger

HandleDestroy ==
    /\ Idle /\ alive
    /\ Release
    /\ debugger' = 0 /\ session' = "handle"
    /\ UNCHANGED <<procId, stack, pending, lost>>

\* Mutant: the pointer of a dead process is kept
HandleRunStale ==
    /\ HostLocks /\ Idle /\ session' = "handle"
    /\ debugger # 0
    /\ stack' = <<[fn |-> "execute", proc |-> debugger, at |-> "enter"]>>
    /\ UNCHANGED <<procId, alive, procVars, codeVars, pAddress, loadVars, callVars,
                   pending, lost, debugger, fatal>>

\* The debugger's run, step and until: back into fExecute.  The pointer of a dead process
\* is forgotten first.
HandleRun ==
    /\ HostLocks /\ Idle /\ session' = "handle"
    /\ debugger' = IF alive THEN debugger ELSE 0
    /\ debugger' # 0
    /\ stack' = <<[fn |-> "execute", proc |-> debugger', at |-> "enter"]>>
    /\ UNCHANGED <<procId, alive, procVars, codeVars, pAddress, loadVars, callVars,
                   pending, lost, fatal>>

\* The host is no longer busy.  A host that locks waits for its tasks; the end of an
\* execute command cleans up what there is: what the program left, or the process that
\* made the command be refused.
EndSession ==
    /\ session # "idle" /\ stack = <<>>
    /\ HostLocks => pending = {} /\ lost = {}
    /\ session' = "idle"
    /\ IF session = "execute" /\ alive
       THEN Release
       ELSE UNCHANGED <<alive, procVars, codeVars, pAddress, loadVars, callVars, fatal>>
    /\ UNCHANGED <<procId, stack, pending, lost, debugger>>

\* every process of the bound has come and gone
NoMoreCommands ==
    /\ Idle /\ ~alive /\ procId = MaxProcs /\ pending = {}
    /\ UNCHANGED vars

-----------------------------------------------------------------------------
(* Activations the host, or a nested call, returns to. *)

\* fHandleTask after the host returned
TaskReturn ==
    /\ On("task")
    /\ [proc |-> Top.proc, stamp |-> Top.stamp] \in {[proc |-> t.proc, stamp |-> t.stamp] : t \in pending}
          => "async" \in HostModes
    /\ stack' = Below
    /\ taskState' = IF Live(Top.proc) /\ taskState # "none" /\ taskStamp = Top.stamp
                    THEN "awaiting" ELSE taskState
    /\ UNCHANGED <<procId, alive, procState, taskStamp, taskCall, exports, links, codeVars,
                   pAddress, loadVars, callVars, pending, hostVars, fatal>>

\* the rest of fLoadBlock only touches the imports held by the glue module
BlockReturn ==
    /\ On("block")
    /\ stack' = Below
    /\ UNCHANGED <<procId, alive, procVars, codeVars, pAddress, loadVars, callVars,
                   pending, hostVars, fatal>>

\* fLoadCore, SetInstance and Userspace::Debug return to the command
CreateReturn ==
    /\ On("create")
    /\ stack' = Below
    /\ debugger' = IF Top.debug /\ alive THEN procId ELSE debugger
    /\ UNCHANGED <<procId, alive, procVars, codeVars, pAddress, loadVars, callVars,
                   pending, lost, session, fatal>>

-----------------------------------------------------------------------------
(* Userspace::fExecute and the guest code it runs. *)

Guest == On("execute") /\ Top.at \in Addr

\* main_resolve: continue at a mapped block, or throw Translate
Goto(address) ==
    IF address \in DOMAIN mapping
    THEN /\ stack' = Append(Below, [Top EXCEPT !.at = address])
         /\ UNCHANGED <<procId, alive, procVars, codeVars, pAddress, loadVars, callVars,
                        pending, hostVars, fatal>>
    ELSE /\ UNCHANGED <<codeVars, callVars>>
         /\ Retranslate(address, Below)

\* Mutant: fCheckContinue is left out
ExecuteEnterUnchecked == On("execute") /\ Top.at = "enter" /\ Goto(pAddress)

\* fCheckContinue, then the first block
ExecuteEnter ==
    /\ On("execute") /\ Top.at = "enter"
    /\ IF xInvalid
       THEN /\ xInvalid' = FALSE
            /\ Flush
            /\ UNCHANGED codeVer
            /\ Retranslate(pAddress, Below)
            /\ UNCHANGED callVars
       ELSE Goto(pAddress)

GuestGoto == Guest /\ \E a \in Addr : Goto(a)

\* FENCE.I: Writer::makeFlushInstCache throws ExecuteDirty
GuestFence ==
    /\ Guest
    /\ Flush
    /\ UNCHANGED <<codeVer, xInvalid, callVars>>
    /\ \E next \in Addr : Retranslate(next, Below)

\* A store to an executable page.  With detection the slow path marks the write and the
\* check after the store throws ExecuteDirty; without it FENCE.I is the guest's duty.
GuestStore ==
    /\ Guest /\ codeVer < MaxCode
    /\ codeVer' = codeVer + 1
    /\ UNCHANGED <<xInvalid, callVars>>
    /\ IF DetectWrites
       THEN /\ Flush
            /\ \E next \in Addr : Retranslate(next, Below)
       ELSE /\ unsynced' = TRUE
            /\ UNCHANGED <<procId, alive, procVars, mapping, pAddress, loadVars,
                           stack, pending, hostVars, fatal>>

\* MemoryFault, Decoding and CpuException are fatal
GuestFault ==
    /\ Guest
    /\ pAddress' = Top.at
    /\ Abort("guest", Below)
    /\ UNCHANGED <<procId, alive, procVars, codeVars, loadVars, callVars, pending, hostVars>>

\* Debugger::fHalted
GuestHalt ==
    /\ Guest /\ debugCheck
    /\ pAddress' = Top.at
    /\ stack' = Below
    /\ UNCHANGED <<procId, alive, procVars, codeVars, loadVars, callVars, pending, hostVars, fatal>>

\* Mutant: the outermost wrapper is not counted
GuestSyscallUncounted ==
    /\ Guest
    /\ pAddress' \in Addr
    /\ completed' = FALSE
    /\ nested' = 0
    /\ owed' = owed + 1
    /\ stack' = Append(stack, [fn |-> "wrap", proc |-> procId, inplace |-> TRUE,
                               at |-> "body", level |-> 1])
    /\ UNCHANGED <<procId, alive, procVars, codeVars, loadVars, pending, hostVars, fatal>>

\* Mutant: pCurrent.nested is not reset
GuestSyscallNested ==
    /\ Guest
    /\ pAddress' \in Addr
    /\ completed' = FALSE
    /\ nested' = nested + 1
    /\ owed' = owed + 1
    /\ stack' = Append(stack, [fn |-> "wrap", proc |-> procId, inplace |-> TRUE,
                               at |-> "body", level |-> 1])
    /\ UNCHANGED <<procId, alive, procVars, codeVars, loadVars, pending, hostVars, fatal>>

\* Syscall::handle up to the dispatch inside of fWrap
GuestSyscall ==
    /\ Guest
    /\ pAddress' \in Addr
    /\ completed' = FALSE
    /\ nested' = 1
    /\ owed' = owed + 1
    /\ stack' = Append(stack, [fn |-> "wrap", proc |-> procId, inplace |-> TRUE,
                               at |-> "body", level |-> 1])
    /\ UNCHANGED <<procId, alive, procVars, codeVars, loadVars, pending, hostVars, fatal>>

-----------------------------------------------------------------------------
(* Syscall::fWrap and the callback it runs. *)

Body == On("wrap") /\ Top.at = "body"

\* Mutant: the result is written before the outermost wrapper is left
WrapEndEarly(c) ==
    /\ completed' = c
    /\ nested' = nested - 1
    /\ owed' = IF c THEN owed - 1 ELSE owed
    /\ stack' = IF nested - 1 > 0 \/ ~c
                THEN (IF Top.inplace THEN Pop(Below) ELSE Below)
                ELSE (IF Top.inplace THEN Below ELSE Enter(Below))
    /\ UNCHANGED <<procId, alive, procVars, codeVars, pAddress, loadVars, pending, hostVars, fatal>>

\* The end of fWrap, with pCurrent.completed = c after the callback: write the result once
\* the outermost wrapper holds a completed call, otherwise suspend.
WrapEnd(c) ==
    /\ completed' = c
    /\ nested' = nested - 1
    /\ IF nested - 1 > 0 \/ ~c
       THEN /\ stack' = IF Top.inplace THEN Pop(Below) ELSE Below
            /\ UNCHANGED <<owed, procId, alive, procVars, codeVars, pAddress, loadVars,
                           pending, hostVars, fatal>>
       ELSE /\ owed' = owed - 1
            /\ IF Top.inplace /\ xInvalid
               THEN /\ xInvalid' = FALSE        \* checkContinue throws ExecuteDirty
                    /\ Flush
                    /\ UNCHANGED codeVer
                    /\ Retranslate(pAddress, Pop(Below))
               ELSE /\ stack' = IF Top.inplace THEN Below ELSE Enter(Below)
                    /\ UNCHANGED <<procId, alive, procVars, codeVars, pAddress, loadVars,
                                   pending, hostVars, fatal>>

\* Mutant: a MemoryFault of the callback does not complete the call
BodyReturnFaulty == Body /\ (WrapEnd(TRUE) \/ WrapEnd(completed))

\* the callback returns a result, or meets a MemoryFault, which becomes eFault
BodyReturn == Body /\ WrapEnd(TRUE)

\* Mutant: an incomplete call is taken for a completed one
CallIncompleteDone == On("wrap") /\ Top.at = "issued" /\ WrapEnd(TRUE)

\* the callback, having issued a task, calls callIncomplete
CallIncomplete == On("wrap") /\ Top.at = "issued" /\ WrapEnd(completed)

\* the callback hands a task to the host
BodyIssue ==
    /\ Body
    /\ LET base == Append(Below, [Top EXCEPT !.at = "issued"]) IN
       IF taskState = "none"
       THEN StartTask("syscall", base, pending) /\ UNCHANGED <<fatal, owed>>
       ELSE /\ Abort("doubleTask", Below)
            /\ owed' = 0
            /\ UNCHANGED <<taskState, taskStamp, taskCall, pending>>
    /\ UNCHANGED <<procId, alive, procState, exports, links, codeVars, pAddress, loadVars,
                   completed, nested, hostVars>>

\* munmap and mprotect of executable memory mark it invalidated; so do writes of the system on
\* behalf of the guest, but only with detection.  New memory, and what mmap and mremap copy or
\* wipe without usage, is never marked.
BodyChangeCode ==
    /\ Body /\ codeVer < MaxCode
    /\ codeVer' = codeVer + 1
    /\ \/ xInvalid' = TRUE /\ UNCHANGED unsynced
       \/ unsynced' = TRUE /\ UNCHANGED xInvalid
    /\ UNCHANGED <<procId, alive, procVars, mapping, pAddress, loadVars, callVars,
                   stack, pending, hostVars, fatal>>

\* exit: Terminated passes fWrap and is caught by fExecute, which shuts down
BodyExit ==
    /\ Body /\ Top.inplace
    /\ Shutdown(Pop(Below), pending)

\* Unknown system calls are fatal at the address of the call; the callback of any call may
\* run into an unimplemented case.  pCurrent.nested is not decremented.
BodyFatal ==
    /\ Body
    /\ pAddress' \in {pAddress} \union (IF Top.inplace THEN {stack[Len(stack) - 1].at} ELSE {})
    /\ Abort("syscall", Below)
    /\ owed' = 0
    /\ UNCHANGED <<procId, alive, procVars, codeVars, loadVars, completed, nested,
                   pending, hostVars>>

-----------------------------------------------------------------------------
(* Completion of a task: main_task_completed, fTaskCompleted and the       *)
(* callback, which is the one stored last, whatever task completed.        *)

\* fCoreLoaded, then Userspace::fStartLoad
CoreLoaded(rest) ==
    \/ Shutdown(stack, rest)        \* a core function or binding cannot be set up
    \/ /\ procState' = "coreLoaded"
       /\ StartTask("resolve", stack, rest)
       /\ UNCHANGED <<procId, alive, exports, links, codeVars, pAddress, loadVars, callVars,
                      hostVars, fatal>>

\* the stats of the binary or the interpreter
Resolved(rest) ==
    \/ Shutdown(stack, rest)        \* does not exist, or is no file
    \/ /\ \/ /\ resolveIndex + 1 < Locations    \* does not exist here
             /\ resolveIndex' = resolveIndex + 1
             /\ StartTask("resolve", stack, rest)
          \/ /\ resolveIndex' = 0
             /\ StartTask("read", stack, rest)
       /\ UNCHANGED <<procId, alive, procState, exports, links, codeVars, pAddress, interpreter,
                      debugCheck, callVars, hostVars, fatal>>

\* fBinaryLoaded and fLoadCompleted; loading may change the executable pages after mapping
\* them, and thereby mark them invalidated
BinaryLoaded(rest) ==
    \/ Shutdown(stack, rest)        \* the file cannot be read or used
    \/ /\ ~interpreter /\ interpreter' = TRUE
       /\ StartTask("resolve", stack, rest)
       /\ UNCHANGED <<procId, alive, procState, exports, links, codeVars, pAddress, resolveIndex,
                      debugCheck, callVars, hostVars, fatal>>
    \/ /\ pAddress' = Entry
       /\ xInvalid' \in {xInvalid, TRUE}
       /\ UNCHANGED <<mapping, codeVer, unsynced>>
       /\ LoadBlock(stack, rest, "none")
       /\ UNCHANGED <<procId, alive, loadVars, callVars, hostVars>>

\* fBlockLoaded: define the exports, then Userspace::blockLoaded
BlockLoaded(rest) ==
    /\ taskState' = "none"
    /\ pending' = rest
    /\ \/ /\ mapping' = [a \in DOMAIN mapping \union DOMAIN exports |->
                            IF a \in DOMAIN mapping THEN mapping[a] ELSE exports[a]]
          /\ procState' = "coreLoaded"
          /\ exports' = NoCode /\ links' = {}
          /\ stack' = Enter(stack)
          /\ UNCHANGED fatal
       \/ /\ \E s \in SUBSET DOMAIN exports :    \* some export is missing in the module
                mapping' = [a \in DOMAIN mapping \union s |->
                               IF a \in DOMAIN mapping THEN mapping[a] ELSE exports[a]]
          /\ Abort("blockFailed", stack)
          /\ UNCHANGED <<procState, exports, links>>
    /\ UNCHANGED <<procId, alive, taskStamp, taskCall, codeVer, xInvalid, unsynced, pAddress,
                   loadVars, callVars, hostVars>>

\* Mutant: fTaskCompleted leaves the task active
CallContinueActive(rest) ==
    /\ pending' = rest
    /\ nested' = nested + 1
    /\ stack' = Append(stack, [fn |-> "wrap", proc |-> procId, inplace |-> FALSE,
                               at |-> "body", level |-> nested + 1])
    /\ UNCHANGED <<procId, alive, procVars, codeVars, pAddress, loadVars, completed, owed,
                   hostVars, fatal>>

\* Syscall::callContinue
CallContinue(rest) ==
    /\ taskState' = "none"
    /\ pending' = rest
    /\ nested' = nested + 1
    /\ stack' = Append(stack, [fn |-> "wrap", proc |-> procId, inplace |-> FALSE,
                               at |-> "body", level |-> nested + 1])
    /\ UNCHANGED <<procId, alive, procState, taskStamp, taskCall, exports, links, codeVars,
                   pAddress, loadVars, completed, owed, hostVars, fatal>>

TaskCompleted(t) ==
    IF Live(t.proc)
    THEN LET rest == pending \ {t} IN
         \/ taskCall = "core" /\ CoreLoaded(rest)
         \/ taskCall = "resolve" /\ Resolved(rest)
         \/ taskCall = "read" /\ BinaryLoaded(rest)
         \/ taskCall = "block" /\ BlockLoaded(rest)
         \/ taskCall = "syscall" /\ CallContinue(rest)
    ELSE \* "Old task silently discarded"
         /\ pending' = pending \ {t}
         /\ UNCHANGED <<procId, alive, procVars, codeVars, pAddress, loadVars, callVars,
                        stack, hostVars, fatal>>

-----------------------------------------------------------------------------
(* The host. *)

\* the host answers inside of the call that handed the task over
HostInplace ==
    /\ "inplace" \in HostModes
    /\ On("task") /\ Len(stack) < MaxDepth
    /\ \E t \in pending :
        /\ t.proc = Top.proc /\ t.stamp = Top.stamp
        /\ TaskCompleted(t)

\* the host answers later, when the application has returned
HostAsync ==
    /\ stack = <<>>
    /\ \E t \in pending : TaskCompleted(t)

\* WebAssembly refuses a module: the error is logged and nothing else happens
HostDrops ==
    /\ HostLoses /\ stack = <<>>
    /\ \E t \in pending :
        /\ t.kind \in {"core", "block"}
        /\ pending' = pending \ {t}
        /\ lost' = lost \union {t}
    /\ UNCHANGED <<procId, alive, procVars, codeVars, pAddress, loadVars, callVars,
                   stack, session, debugger, fatal>>

-----------------------------------------------------------------------------

Command == HandleStart \/ ExecuteStart \/ HandleDestroy \/ HandleRun

GuestStep == GuestGoto \/ GuestFence \/ GuestStore \/ GuestFault \/ GuestHalt \/ GuestSyscall

SyscallStep == BodyReturn \/ CallIncomplete \/ BodyIssue \/ BodyChangeCode \/ BodyExit \/ BodyFatal

ReturnStep == TaskReturn \/ BlockReturn \/ CreateReturn

HostStep == HostInplace \/ HostAsync

Next ==
    \/ Command \/ EndSession \/ NoMoreCommands
    \/ ExecuteEnter \/ GuestStep \/ SyscallStep \/ ReturnStep
    \/ HostStep \/ HostDrops

Spec == Init /\ [][Next]_vars

\* The thread of the application never stops in the middle of a call, and a host that loses
\* nothing finishes every task.
Fairness ==
    /\ WF_vars(ExecuteEnter \/ GuestStep \/ SyscallStep \/ ReturnStep)
    /\ WF_vars(HostStep)

FairSpec == Spec /\ Fairness

-----------------------------------------------------------------------------
(* Properties. *)

\* Every variable has its type.
TypeOK ==
    /\ procId \in Nat /\ alive \in BOOLEAN
    /\ procState \in ProcState /\ taskState \in TaskState
    /\ taskStamp \in Nat /\ taskCall \in TaskKind
    /\ DOMAIN exports \in SUBSET Addr /\ exports \in [DOMAIN exports -> Nat]
    /\ links \in SUBSET Addr
    /\ DOMAIN mapping \in SUBSET Addr /\ mapping \in [DOMAIN mapping -> Nat]
    /\ codeVer \in Nat /\ xInvalid \in BOOLEAN /\ unsynced \in BOOLEAN
    /\ pAddress \in Addr
    /\ resolveIndex \in Nat /\ interpreter \in BOOLEAN /\ debugCheck \in BOOLEAN
    /\ completed \in BOOLEAN /\ nested \in Nat /\ owed \in Int
    /\ stack \in Seq(Frame) /\ pending \in SUBSET Task
    /\ lost \in SUBSET Task /\ session \in Session /\ debugger \in Nat
    /\ fatal \in Fatal

\* The activations of fExecute and fWrap use members of the system and of the process when
\* their callee returns.  None of them outlives its process, although guest code, which may
\* end the process, runs on top of other activations when the host answers in-place, and
\* although the pointer of the debugger is only checked when a command arrives.
NoDanglingFrame ==
    \A i \in 1 .. Len(stack) : stack[i].fn \in {"execute", "wrap"} => Live(stack[i].proc)

\* Guest code and the callbacks of system calls run only while the process has no task, and
\* a process that waits, waits for one task.
OneActivity ==
    /\ On("execute") \/ Body => taskState = "none" /\ Outstanding = {}
    /\ \A t, u \in Outstanding : t = u

\* fTaskCompleted compares the process id only, and calls whatever callback was stored last:
\* a task of the live process can only complete while its own callback is stored.
CallbackMatches ==
    \A t \in Outstanding :
        t.stamp = taskStamp /\ t.kind = taskCall /\ taskState # "none"

\* The checks of fHandleTask and fLoadBlock never fail, and a load is only refused as being
\* in progress after an earlier one failed for good.
NoInternalError ==
    /\ fatal \notin {"doubleTask", "coreNotLoaded"}
    /\ fatal = "loadInProgress" =>
          /\ procState = "loadingBlock"
          /\ \A t \in Outstanding : t.kind # "block"

\* While guest code runs, every block it can reach was translated from the code as it is now,
\* unless code changed in a way that is not detected and the FENCE.I did not come yet.
FreshCode ==
    Guest /\ ~unsynced => \A a \in DOMAIN mapping : mapping[a] = codeVer

\* Nothing flushes or defines blocks while a module is being loaded: the blocks it links to
\* are still there, and none it brings was defined meanwhile.
LinksResolve ==
    (\E t \in Outstanding : t.kind = "block") =>
        links \subseteq DOMAIN mapping /\ DOMAIN exports \intersect DOMAIN mapping = {}

\* A system call gets one result, and the guest does not run on before it has it.
ResultOnce ==
    /\ owed \in {0, 1}
    /\ Guest => owed = 0

\* A suspended system call has a task that will wake it.
NoLostWakeup ==
    owed = 1 /\ stack = <<>> => \E t \in Outstanding : t.kind = "syscall"

-----------------------------------------------------------------------------
(* The inductive strengthening of NoDanglingFrame, OneActivity, CallbackMatches and the      *)
(* first part of NoInternalError.                                                            *)

\* which activation may run directly on top of which
Adjacent(lower, upper) ==
    \/ /\ upper.fn = "task"
       /\ lower.fn \in {"create", "block", "task"} \/ (lower.fn = "wrap" /\ lower.at = "issued")
    \/ upper.fn = "wrap" /\ IF upper.inplace THEN lower.fn = "execute" /\ lower.at \in Addr
                                             ELSE lower.fn = "task"
    \/ upper.fn \in {"execute", "block"} /\ lower.fn = "task"

Shape(s) ==
    /\ \A i \in 2 .. Len(s) : Adjacent(s[i - 1], s[i])
    /\ Len(s) > 0 /\ s[1].fn = "wrap" => ~s[1].inplace

\* guest code never runs on top of a wrapper that has not returned
NeverInside(s) ==
    \A j \in 1 .. Len(s) : s[j].fn = "execute" =>
        \A i \in 1 .. (j - 1) : s[i].fn # "wrap"

\* pCurrent.nested counts at least the wrappers on the stack
Levels(s, n) ==
    \A j \in 1 .. Len(s) : s[j].fn = "wrap" =>
        /\ 1 <= s[j].level /\ s[j].level <= n
        /\ \A i \in 1 .. (j - 1) : s[i].fn = "wrap" => s[i].level < s[j].level

Wraps(s) == \E i \in 1 .. Len(s) : s[i].fn = "wrap"

StackInv ==
    /\ Shape(stack) /\ NeverInside(stack) /\ Levels(stack, nested)
    /\ NoDanglingFrame

TaskInv ==
    /\ CallbackMatches
    /\ \A t \in pending : t.proc <= procId
    /\ On("execute") \/ Body => taskState = "none"
    /\ Body => ~completed
    /\ taskState # "none" /\ taskCall = "syscall" => ~completed
    /\ taskState # "none" /\ Wraps(stack) => taskCall = "syscall"
    /\ taskState # "none" => \E t \in pending \union lost : t.proc = procId

HostInv ==
    /\ ~alive => taskState = "none"
    /\ alive => procState # "none"
    /\ HostLocks /\ session = "idle" => stack = <<>> /\ taskState = "none"
    /\ alive /\ debugger # 0 /\ session # "execute" => debugger = procId
    /\ fatal \notin {"doubleTask", "coreNotLoaded"}

IInv == TypeOK /\ StackInv /\ TaskInv /\ HostInv

\* Liveness: a system call the guest made is answered, however its callbacks are spread over
\* tasks, in-place answers and nested wrappers, unless the process fails or ends.
SyscallReturns == owed = 1 ~> owed = 0

\* The process seen by the host and the user, as TaskProtocol describes it.
Status ==
    CASE ~alive -> "absent"
      [] alive /\ stack # <<>> -> "working"
      [] alive /\ stack = <<>> /\ taskState = "awaiting" -> "waiting"
      [] OTHER -> "resting"

Protocol == INSTANCE TaskProtocol WITH
    id <- procId, status <- Status, count <- taskStamp,
    asked <- {<<t.proc, t.stamp>> : t \in pending \union lost}

\* The process implements TaskProtocol: among others, an answer to a question of a process
\* that is gone changes nothing, and nothing but its answer ends the waiting of a process.
ImplementsProtocol == Protocol!Spec

=============================================================================
