--------------------------------- MODULE Host ---------------------------------
(***************************************************************************)
(* The JavaScript host (run/common/wasmlator.ts): the critical section     *)
(* BusyResolver, the tasks handleTask performs for the application, and    *)
(* the loop resolveTasks, which calls the handlers of finished tasks.      *)
(*                                                                         *)
(* JavaScript runs one job at a time to its end, so an action is a job:    *)
(* everything from the moment the engine resumes an async function or a    *)
(* promise reaction to the next await, calls into the application and the  *)
(* calls of handleTask it makes included.  A command is refused while      *)
(* another one is in progress, and the application asks for one thing at a *)
(* time (Runtime!OneActivity), so at most one task is open.                *)
(***************************************************************************)
EXTENDS Integers

CONSTANTS
    Operations,     \* the operations callers use: "handle", "execute"
    MayFail,        \* TRUE: a module may be refused, and the file-system may throw
    MaxTasks        \* bound on the tasks of one operation

ASSUME HostAssumption ==
    /\ Operations \subseteq {"handle", "execute"}
    /\ MayFail \in BOOLEAN
    /\ MaxTasks \in Nat

VARIABLES
    mode,       \* what is in progress: WasmLator.handle, .execute and its cleanup
    depth,      \* BusyResolver.depth
    settled,    \* the promise of BusyResolver is resolved, its reaction did not run yet
    slot,       \* the promise taskResolvable resolves
    buffered,   \* inputBuffer is not empty
    task,       \* kind of the open task of the application
    place,      \* where the open task is
    count       \* tasks of this operation so far

hostVars == <<mode, depth, settled, slot, buffered, task, place, count>>

Mode  == {"down", "dead", "idle", "handle", "execute", "cleanup"}
Slot  == {"none", "open", "filled", "closed"}
Kind  == {"module", "file", "input"}
Place == {"none", "loading", "ready", "working", "reading", "dropped", "failed"}

Init ==
    /\ mode = "down" /\ depth = 0 /\ settled = FALSE
    /\ slot = "none" /\ buffered = FALSE
    /\ task = "none" /\ place = "none" /\ count = 0

-----------------------------------------------------------------------------
(* Parts of jobs.  `d' and `s' are depth and slot at that point of the job. *)

\* taskResolvable(handler): a promise is resolved once, later values are ignored
Offer(s) ==
    IF s = "open" THEN slot' = "filled" /\ place' = "ready"
                  ELSE slot' = s /\ place' = "dropped"

\* Mutant: loadCore and loadBlock do not enter the critical section themselves
SectionsShared(kind) == 1

\* sections a task enters: handleTask, and loadCore or loadBlock until the module is there
Sections(kind) == IF kind = "module" THEN 2 ELSE 1

\* handleTask up to its end or its first await
HandleTask(kind, s) ==
    \/ /\ kind = "module" /\ place' = "loading" /\ slot' = s
       /\ UNCHANGED buffered
    \/ /\ kind = "file" /\ Offer(s)
       /\ UNCHANGED buffered
    \/ /\ kind = "input" /\ buffered
       /\ Offer(s)
       /\ buffered' \in BOOLEAN
    \/ /\ kind = "input" /\ ~buffered
       /\ place' = "reading" /\ slot' = s
       /\ UNCHANGED buffered

\* BusyResolver.leave
Leave(d) ==
    /\ depth' = d - 1
    /\ settled' = (d - 1 = 0)

\* The application is entered with no task open, may ask for one, and returns; then the
\* section of the caller is left.  c is the number of tasks so far.
Enter(d, s, c) ==
    \/ /\ task' = "none" /\ place' = "none" /\ slot' = s
       /\ Leave(d)
       /\ count' = c
       /\ UNCHANGED buffered
    \/ /\ c < MaxTasks /\ count' = c + 1
       /\ \E kind \in Kind :
            /\ task' = kind
            /\ HandleTask(kind, s)
            /\ Leave(d + Sections(kind))

-----------------------------------------------------------------------------
(* Operations. *)

\* prepareAndLoadMain: the application asks for nothing while it initializes
PrepareAndLoadMain ==
    /\ mode = "down"
    /\ mode' \in {"idle"} \union (IF MayFail THEN {"dead"} ELSE {})
    /\ UNCHANGED <<depth, settled, slot, buffered, task, place, count>>

\* handle and execute up to their first await: BusyResolver.start, resolveTasks, the command
Begin(op) ==
    /\ mode = "idle" /\ depth = 0
    /\ mode' = op
    /\ Enter(1, "open", 0)

Command == \E op \in Operations : Begin(op)

\* the promise handle returns: taskResolvable(null) ends resolveTasks
HandleDone ==
    /\ mode \in {"handle", "cleanup"} /\ settled
    /\ mode' = "idle" /\ settled' = FALSE
    /\ slot' = IF slot = "open" THEN "closed" ELSE slot
    /\ UNCHANGED <<depth, buffered, task, place, count>>

\* execute resumes and cleans up in a section of its own, which asks for nothing
ExecuteDone ==
    /\ mode = "execute" /\ settled
    /\ mode' = "cleanup"
    /\ UNCHANGED <<depth, settled, slot, buffered, task, place, count>>

-----------------------------------------------------------------------------
(* Tasks. *)

\* Mutant: resolveTasks calls the handler before it makes the next promise
NextSlotLate == "filled"

\* the promise taskResolvable resolves while a handler runs
NextSlot == "open"

\* resolveTasks is resumed and calls the handler.  A file-system handler returns at its
\* first await, the others complete the task at once.
ResolveTask ==
    /\ slot = "filled" /\ place = "ready"
    /\ IF task = "file"
       THEN /\ slot' = NextSlot /\ place' = "working"
            /\ UNCHANGED <<depth, settled, buffered, task, count>>
       ELSE Enter(depth, NextSlot, count)
    /\ UNCHANGED mode

\* the file-system is done: taskCompleted
FileDone ==
    /\ place = "working"
    /\ Enter(depth, slot, count)
    /\ UNCHANGED mode

\* loadCore, loadBlock: the module is there
ModuleLoaded ==
    /\ place = "loading"
    /\ Offer(slot)
    /\ Leave(depth)
    /\ UNCHANGED <<mode, buffered, task, count>>

\* handleTask after readInput
InputRead ==
    /\ place = "reading"
    /\ Offer(slot)
    /\ buffered' \in BOOLEAN
    /\ UNCHANGED <<mode, depth, settled, task, count>>

\* loadCore, loadBlock: the engine refuses the module, which is logged
ModuleRefused ==
    /\ MayFail /\ place = "loading"
    /\ place' = "failed"
    /\ Leave(depth)
    /\ UNCHANGED <<mode, slot, buffered, task, count>>

\* the file-system throws, and the promise of the handler, which nobody awaits, is rejected
FileThrows ==
    /\ MayFail /\ place = "working"
    /\ place' = "failed"
    /\ UNCHANGED <<mode, depth, settled, slot, buffered, task, count>>

-----------------------------------------------------------------------------

Finish == FileDone \/ ModuleLoaded \/ InputRead \/ ModuleRefused \/ FileThrows

Job == PrepareAndLoadMain \/ HandleDone \/ ExecuteDone \/ ResolveTask \/ Finish

\* nobody has a command, or nothing can be done any more
Rest ==
    /\ mode \in {"idle", "dead"} \/ place \in {"failed", "dropped"}
    /\ UNCHANGED hostVars

Next == Command \/ Job \/ Rest

Spec == Init /\ [][Next]_hostVars

\* the engine runs every job, and what the host waits for comes or fails
FairSpec == Spec /\ WF_hostVars(Job)

-----------------------------------------------------------------------------
(* Properties. *)

\* Every variable has its type.
TypeOK ==
    /\ mode \in Mode /\ depth \in Nat /\ settled \in BOOLEAN
    /\ slot \in Slot /\ buffered \in BOOLEAN
    /\ task \in Kind \union {"none"} /\ place \in Place /\ count \in Nat

\* The critical section is left only when nothing is open: whoever waits for a command may
\* give the next one, and the cleanup of execute finds no task of the process it destroys.
\* This is what Runtime assumes of a host that locks (Runtime!EndSession).
BusyCoversTask ==
    depth = 0 \/ settled \/ mode \in {"idle", "cleanup"} => task = "none" /\ depth = 0

\* The promise of the operation is resolved exactly when the section is left for good.
SettledOnce == settled <=> depth = 0 /\ mode \in {"handle", "execute", "cleanup"}

\* A finished task finds an unresolved promise, whichever job finishes it: its handler is called.
NoHandlerDropped ==
    /\ place # "dropped"
    /\ place \in {"loading", "reading", "working"} => slot = "open"

=============================================================================
