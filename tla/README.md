# wasmlator: a TLA+ development

wasmlator runs a RISC-V Linux program inside of WebAssembly. A C++ application, itself compiled
to WebAssembly, reads the guest program, translates its code super-block by super-block into
further WebAssembly modules, and asks its host (a browser page, a node script, or the native
test stub) to instantiate them. This directory holds TLA+ modules translated from that code,
the TLC configurations that check them, and theorems that TLAPS proves about them.

What is hard about the program comes from four facts.

* It is single threaded, but every slow thing is a *task* handed to the host, which may answer
  inside of the call or much later; so C++ activations, JavaScript jobs and guest code interleave
  in orders nobody wrote down.
* The guest memory and guest code are cached at several levels (physical slots, address caches of
  the generated code, the map of translated blocks), each of which has to follow every change of
  the level below.
* The system calls keep tables of shared things (pages, descriptors, instances), and a call is a
  sequence of operations any of which may fail.
* The translator is a large pure function, right only if it is right for every coincidence of
  registers, every width and every shape of jumps.

All source paths below are relative to `src/`.

## 1. Inventory

| Component (main sources) | State it keeps | Operations | What is hard, and what makes it correct |
|---|---|---|---|
| **Process and tasks** `environment/process/env-process.cpp` | `global::Instance`, `global::ProcId`, `pProcState`, `pTaskState`, `pTaskStamp`, `pTaskCallback`, `pExports` | `SetInstance`, `fLoadCore`, `fCoreLoaded`, `fLoadBlock`, `fBlockLoaded`, `fHandleTask`, `fTaskCompleted`, `shutdown` | An answer may arrive in-place, later, or after the process it was for is gone; the callback that runs is simply the last one stored. One task at a time; the callback belongs to the task; answers for old processes do nothing. |
| **Userspace system** `system/userspace/sys-userspace.cpp` | `pAddress`, `pLoaded`, `pResolveIndex` | `fStartLoad`, the resolve/read/load chain, `fExecute` and the exceptions it catches, `blockLoaded`, `shutdown` | Guest code may destroy the process while activations of it are on the stack below. Code that runs must have been translated from the memory as it is. |
| **System call wrapper** `system/syscall/sys-syscall.cpp` | `pCurrent` (completed, nested, in-place, result) | `handle`, `fWrap`, `callIncomplete`, `callContinue` | A call suspends and is continued, possibly inside of the activation that suspends it. One result per call, written once, before the guest runs on. |
| **Block mapping** `environment/mapping/env-mapping.cpp`, `generate/mapping/*` | `pMapping`, the function table, the fast cache of generated code | `fBlockExports`, `fFlush`, `fResolve`, `contains` | A block loads asynchronously against blocks looked up earlier. |
| **Commands** `host/handle-commands.cpp`, `host/execute-commands.cpp`, `host/interface.cpp` | static pointer to the debugger | start, destroy, run, step, until, execute | The pointer outlives its process; fatal errors are swallowed at the entry points. |
| **JavaScript host** `run/common/wasmlator.ts` | `BusyResolver.depth` and its promise, `taskResolvable`, `inputBuffer` | `handle`, `execute`, `handleTask`, `loadCore`, `loadBlock`, `resolveTasks` | The critical section is a counter that promise reactions in five places leave; the loop over finished tasks and the commands share one promise. |
| **Web worker** `run/web/static/js/worker.js` | `inputQueue`, `inputPromise`, `isExecuting`, `wasmlator` | `dispatchNext`, `userInput`, `onmessage`, setup | A line is a command or the input of the running program, depending on when it arrives. |
| **Guest memory** `environment/memory/env-memory.cpp`, `generate/memory/*` | virtual slots, physical slots, caches of the generated code, `pXInvalidated` | `mmap`, `munmap`, `mprotect`, `alloc`, `findNext`, the cache look-ups, `fCheckConsistency` | Slots are split, merged and moved; the generated code goes on using its caches. |
| **Memory system calls** `system/syscall/sys-mem-interact.cpp` | `pBrk` and the ranges allocated | brk, mmap, munmap, mprotect, mremap | Search for free addresses; several memory operations per call, any of which may fail. |
| **File system calls and nodes** `system/syscall/sys-file-io.cpp`, `system/syscall/file-nodes/*` | descriptors, open instances with offsets, nodes, working directory | open, read, write, dup, close, seek, stat, readdir, links ... | Descriptors share instances; paths are rewritten while they are resolved. |
| **File system of the host** `run/common/filesystem.ts` | tree of nodes fetched lazily, the bytes of files | stats, list, read, write, resize, create, remove | Several promises may fetch the same node. |
| **Super-block formation** `generate/block/*` | ranges of jumps and loops of one block | `push`, `setupRanges`, `lookup`, `next`, `finalize` | Ranges of jumps must nest, though the jumps do not. |
| **Debugger** `system/debugger/sys-debugger.cpp` | break points, step counter, until address | attach, commands, the check before each instruction, expressions | State left by one command must not halt, or fail to halt, the next. |
| **RISC-V front end** `rv64/*` | the joining of neighbors during one fetch | decode, join, translate, print | Scattered immediates, coinciding registers, x0, words in double words. |
| **ELF loader** `system/elf/*` | - | load binary and interpreter | Overlapping segments, page alignment. |
| **Code generation, glue** `generate/core`, `generate/glue`, `generate/context` ... | lists of bindings | emit WebAssembly | No state across calls. |
| **The rest** node host, web page and server, paths and logging, miscellaneous calls | little | | |

The components interact as follows. A *command* of the user enters the application through the
JavaScript host (`WasmLator.handle`, `.execute`), which refuses it while it is busy. The
application creates a *process* with its *userspace system*; both issue *tasks* through
`Process::fHandleTask`; the host answers through `main_task_completed`, which runs the stored
callback. The callback of a loaded block enters `fExecute`, which runs generated code; that code
calls back for system calls, memory look-ups, changed code and faults, and leaves by C++
exceptions which `fExecute` catches. The system calls change the memory, which marks executable
changes in `pXInvalidated`, which `fExecute` and the wrapper turn into a flush of the mapping and
a new translation - the next task. A translation decodes instructions, forms a super-block of
them, and emits the code of each.

The behaviours that are hard to test are listed one by one under `hazards` in `PROJECT.json`.

## 2. Modules

Abstract specifications and references, which are not translated from code but say what it is for:

| Module | What it promises |
|---|---|
| `TaskProtocol` | The application works, waits for one answer, or rests; an answer is used once, by the process that asked; one for a process that is gone changes nothing. |
| `AddressSpace` | What the guest expects of its memory: pages with a usage and a content, changed by whole operations. |
| `Mappings` | Extends it by the calls brk, mmap, munmap, mprotect and mremap, each as one step. |
| `OpenFiles` | The open files of Unix: descriptors name open files, which live until their last descriptor is closed; paths are walked directory by directory (`Visit` of `Nodes`). |
| `Riscv` | What each instruction does by the unprivileged specification. |

Models of the code:

| Module | What it models |
|---|---|
| `Runtime` | The control core: process, tasks, userspace system, system call wrapper, block mapping, commands. Implements `TaskProtocol`. |
| `Host` | The JavaScript host: critical section, tasks, loop over handlers. |
| `WebWorker` | The web worker, composed with `Host` (it EXTENDS it and calls its actions). Implements `Host`. |
| `Slots`, `Memory` | Ordered maps of slots; the guest memory: slots, WebAssembly memory, caches of the generated code, detection of changed code. Implements `AddressSpace`. |
| `MemoryCalls` | The memory system calls as sequences of the actions of `Memory`, with the search for free addresses. Implements `Mappings`. |
| `Paths`, `Nodes` | The functions on paths; the tree of nodes and the resolution of paths in it. |
| `FileData`, `Files` | The bytes of a file as the host keeps them; the file system calls with descriptors and instances. Implements `OpenFiles`. |
| `Superblock` | Super-block formation: from a strand of instructions with jumps to structured code. |
| `Decoder`, `Pseudo` | From words to instructions, of 32 and of 16 bits; the joining of neighbors to one. |
| `Wasm`, `Translation` | The machine the generated code runs on; the code emitted for each instruction. |
| `Debugger` | Break points, the check before each instruction, commands and expressions. |

Instances for TLC: `MCRuntime`, `MCMemoryCalls`, `MCFiles`, and for the pure parts `MCRiscv`, `MCPaths`, `MCDebugger`,
which `MCFunctions` puts together. Proofs: `RuntimeProofs`, `WebProofs`; `Induction`,
`MemoryProofs`, `AccessProofs`, `CallProofs`, `FilesProofs`, `SuperblockProofs`.

### Runtime

`stack` is the C++ stack, reduced to the activations that still do something once the call they
wait for returns: `create` (the command that makes a process), `block` (`fLoadBlock`), `task`
(`fHandleTask`, which sets `pTaskState` after the host returned), `execute` (`fExecute` with the
generated code it runs) and `wrap` (`fWrap` with the callback it runs). A call in tail position
replaces its caller. A step is one stretch of C++ between two such points, so each action stands
for whole handlers: for example `BlockLoaded` is `main_task_completed`, `fTaskCompleted`,
`fBlockLoaded` and `Userspace::blockLoaded` up to the call of `fExecute`.

The host is both of the real ones. `HostInplace` answers while `fHandleTask` is still on the
stack (`entry/null-interface.cpp`), `HostAsync` when the application has returned (`wasmlator.ts`);
`HostModes` says which may happen, and in `nested` both may, per task. `HostLocks` is the
promise of a host to take a command only while it is not busy. It is an assumption here and a
result in `Host` (`BusyCoversTask`); with `HostLocks = FALSE` commands may destroy the process
while tasks of it are open. `ExecuteStart` is the command `execute`, also when it is refused because the debugger has
a process: `EndSession` then runs the cleanup that follows every `execute`, which destroys that process and
leaves the debugger's pointer to it; `HandleRun` and `HandleStart` forget it.

Code is a version number: a store to an executable page raises `codeVer`, a translation remembers
the version it was made from, and `mapping` maps addresses to versions. Which addresses one
translation defines is any set that contains the root and no mapped address (`Translation` of `Runtime`).
FENCE.I, detected writes and invalidating system calls flush the map, by throwing out of the
generated code. `unsynced` remembers that the guest changed code and owes the FENCE.I its
architecture asks for; `owed` counts system calls entered but not answered. Both are history
variables: no action reads them in a guard.

`pTaskStamp` is compared by `fHandleTask` on its way out, but not by `fTaskCompleted`, which
compares the process id only. That this is enough is `CallbackMatches`.

### Host and WebWorker

An action of `Host` is one JavaScript job: from the point where the engine resumes an async
function or a promise reaction, to its next `await`. `depth` is the counter of the critical
section, `settled` that its promise is resolved and its reaction still to run, `slot` the state of
the promise that `taskResolvable` resolves, `place` where the one open task is. That there is at
most one is `Runtime!OneActivity`, which is proved; the two modules so discharge each other's
assumptions, without circularity, since `OneActivity` is proved for any value of `HostLocks`.
`WebWorker` adds the variables of `worker.js` and calls the actions of `Host` inside of its own;
lines are alike, so only their number is kept.

### Memory and MemoryCalls

`virt` and `phys` are the two maps of `env::Memory`, `data` the WebAssembly memory with one value
per page, `caches` one cache each for loads, stores and fetches of code, and `fast` the cache of
lookups behind them. A lookup, and so an access, takes for granted that neighboring virtual slots
are neighbors in physical memory. `MMap` therefore has three ways, in the order of the code: fill a
hole that happens to fit (`MapBetween`), extend the previous slot in place (`MapExpand`), or move both
neighbors to where all three fit (`MapMove`), after which everything may be shifted down. Each of the three, with the check
of consistency and the flush of the caches, is one action, as nothing can come in between; a call
that is refused changes nothing and is no action, but one that fails for lack of memory is.

Two things the code does with an erased map element cannot be given a result. `MapMove` may erase
the physical slot it has chosen; what its use then does is unknown, and the model ends with
`fault = "dangling"`. It may erase the new virtual slot and read it afterwards; the erased element
may still hold its value, so the model both goes on and ends with `fault = "erased"`.

`Access` translates the read and write wrappers of `memory-builder.cpp` and the inline checks of `memory-writer.cpp`:
which place each page of an access goes to, and what the caches are afterwards. `translated`
stands for the translated code: which pages were read by the translator, with which content, or
that they could not be executed (`Stub`). It is flushed when `pXInvalidated` is found set
(`ExecuteDirty`, whose handling `Runtime` models), and the guest does not run before.

The model of the memory was compared with the code itself: a build of `env-memory.cpp` with pages as units and a recording
stand-in for the WebAssembly memory was run on several hundred random sequences of up to forty
calls, and every state, consistency failure and use of an erased slot agreed.

`MemoryCalls` runs one call at a time: `call` says where it stands, and each of its operations on the
memory is a step of its own, so that the states between them are checked too. `Settle` is what every
operation ends with. The refinement shows nothing of a call until its end, except where `Mappings`
says, marked `Deviates`, that something of a call that failed stays.

### Files

One action of `Files` is one call, from its checks to its result. `pOpen`, `pInstance` and `pOpened`
are the tables of `FileIO`, with indices as in the code; instances are reused, descriptors are
the lowest free ones. A tree of nodes is a record of functions, with the nodes mounted over the
host's directory apart from those the host has, as `FileNode::lookup` asks the one before the other.
`Resolve` is the resolution of the code, which takes the path apart lexically and rewrites it at a link; `Visit`, the
reference, walks from directory to directory.

With `HostFails` the host may refuse what it is asked: to open or create a file (`eInterrupted`), to read or write
(`eIO`), to list a directory (`eIO`, and the listing is made anew by the next call). Nodes in
`Tree.sealed` are those whose `open` refuses to be written (`URandom`); its `write` with `eReadOnly` is then never
reached. The flags a file was opened with are kept as `creation` and `nonBlock`, since `F_GETFL` answers them.

### Superblock

The state is the object of `gen::detail::SuperBlock`: the list of instructions, the ranges, the
targets that are open, and the code written so far. `Push` adds an instruction with any jump, `Setup` closes the ranges,
`NextChunk` writes up to the next place where something opens or closes. `Arrives` runs the code
as WebAssembly would, and so the properties speak of where control goes and not of ranges.

### Decoder, Pseudo, Translation, Wasm, Riscv

A word is decoded as its two halves, since TLC's integers have 32 bits with their sign. `Code` gives the instructions of WebAssembly that
`rv64::Translate` emits, in order, and `Outcome` runs them on a machine with a stack of typed values,
which also finds code that would not validate. Widths are scaled down, a double word to 8 bits, so that every
pair of operands at the edges can be tried; offsets and shifts scale along. `Float` stands for the arithmetic of
floats: any function of the operation and the operands' bits, so that what is compared is what
is computed of what and where it goes; `Raised` stands for the flags it raises in the same way. `Riscv` follows the
specification where the code does not: words in registers of floats are boxed, the flags of exceptions are accrued,
NaNs are canonical, and a conditional store needs a reservation. `Deviates` of `MCRiscv` names these cases beside the comparison.

## 3. Runs

| Run | Question | Bounds |
|---|---|---|
| `nested` | The safety of `Runtime` with answers in-place and later in any mix, and `SyscallReturns` under fairness. | 2 addresses, 2 processes in sequence, 8 tasks each, a stack of up to 11 activations, 1 change of code |
| `stale` | A host that does not lock and loses tasks, writes detected: `FreshCode`, `LinksResolve` and the refinement of `TaskProtocol`. | 3 addresses, the two that are not the entry alike, 2 processes, 7 tasks each, later answers only, 2 changes of code |
| `web` | The worker and the host with both operations, modules refused and handlers throwing: safety, and under fairness that commands end and lines are used. | 3 tasks per command, 4 lines |
| `mem_caches` | Accesses through caches end where they should, also across two pages; the refinement of `AddressSpace`, with contents written. | 3 pages, 2 fast entries, a memory of 2 that grows to 9 |
| `mem_detect` | Detected writes: no stale translation. | 3 pages, 1 fast entry, a memory of 3 |
| `mem_calls` | The memory calls keep what `Mappings` promises, through refusals and lack of memory, and the slots stay backed and contiguous. | 5 pages of 2 bytes, 4 of them backed, the requests of `MCRequests` |
| `files` | Instances are counted right, and the calls keep what `OpenFiles` promises. | 2 descriptors, one of them the terminal's; 7 nodes; files of 2 bytes; 4 paths and 4 sets of flags to open them; 6 seeks; a host that may fail |
| `superblock` | Jumps land, instructions follow each other, and ranges nest. | 6 instructions and the last one, 3 jumps to anywhere |
| `functions` | Decoder, joining, translation, paths, resolution and debugger against their references. | see below |
| `mem_check`, `rv64_mulh`, `links` | Violations, one each; see the findings. | |

Why the bounds are enough. Loading a program with an interpreter takes 6 tasks (core, two stats
and two reads, block) and a failed location one more, so 8 leave one or two to the system calls
and translations that follow; the in-place chain of these is 9 to 11 activations deep, which is a
continuation nested in the wrapper that issued it, with a translation on top. Two processes show
every meeting of a task with the process after its own; a third one adds no new comparison.
Three addresses are a root, a block it links to and a block it defines; `nested`, which does not ask about
links, has two. For the host, three tasks
per command reach every pair of kinds one after the other, with the buffer full or empty.

For the memory, three pages are a slot and its two neighbors, the most that one operation touches; the WebAssembly
memory starts too small for them and grows, with a limit of
three, until it cannot (`mem_detect`). `InitPages`, `MinGrowth` and `FastCount` are small where the code
has 64, 32 and 256 so that memory has to grow, move and be shifted, and cache entries collide,
within a few calls; `ShiftFactor` is the one of the code. The five pages of `mem_calls` are the program, its
break with room to grow, and the range for allocations, which overlaps it for fixed addresses; lengths and
addresses off the page, and empty lengths, are among the requests. Two descriptors are the least with which one is
shared, closed and reused while the other lives; `VIEW Relevant` in `files` leaves out the last
answer, what closing left behind in unused entries, and a listing that is going to be made anew, none of which a later call
reads as long as the program does not pass descriptors it has closed (`Stray = FALSE`). The sets of `OpenFlags` hold each flag
but `noctty`, which is only kept and answered, and `nofollow`, which is among those of the calls on paths (`AtFlags`): to read, for the path alone, to create, to append; seeks go from each place, before the begin and from the end back; a
listing is asked for with no room and with room for two entries; `F_SETFL` clears the flags that opening has set.

The functions are checked for each input of: all words of each opcode with all function codes and every
pair of registers from a small set; all compressed words; each instruction with eleven coincidences of
registers, immediates at the edges of their scaled width, and ten values per operand, in memory
with and without translated code, floats also with words in all registers, and conditional stores with and without a
reservation; `lui` or `auipc` and up to three instructions behind; paths of up to six
characters or three names, in 147 trees; paths of the guest of up to five instructions over three addresses, with any five commands
on them; and expressions of up to five characters. The states of this run are those inputs.

`MaxStamp`, `MaxTasks` and `MaxTyped` stop chains that the program may prolong for ever. They are not
what makes the liveness true: a program that never stops making
system calls has each of them answered, but its command never ends, so `CommandEnds` and
`LinesUsed` say *if the program stops asking*, which is what the bound expresses.
`CHECK_DEADLOCK FALSE` appears nowhere: the states in which the system may really stop have an
explicit stuttering action (`NoMoreCommands`, `Rest`, `WebRest`, `Ended`, `Done`); a guard of `Runtime` that is false only
by reaching `MaxStamp` ends in such a state too, because a fatal error or an exit is possible there.

Fairness. `Runtime`: weak fairness of the application's own steps (its thread does not stop in
the middle of a call) and of `HostStep` (a host that loses nothing finishes each task). No
fairness for commands, and none for the loss of tasks. `Host`: weak fairness of `Job` - the engine runs
every job, and the file system and the terminal answer. `WebWorker`: the same, and its own promise
reactions; none for `OnMessage`, since nobody has to type. `place = "failed"` in its two properties is the finding
of the section that is not left, below.

### Findings with a run

1. `ChecksPass` (`mem_check`): when the physical slot chosen for a mapping ends where a neighbor
   begins that has to move, releasing that neighbor merges it into the chosen slot, which is then used with its new size; `fCheckConsistency`
   ends the application. A second way to get there is an extension
   that uses up a free slot exactly and leaves two used ones unmerged.
2. `MulHighExact` (`rv64_mulh`): `fMakeMul` sums the upper half of a product in 64 bits and loses
   the carry; `mulhu` of two words of ones is too small by 2^32.
3. `RelativeLinksLead` (`links`): a symbolic link with a relative path is followed from the link itself and not from
   its directory, again and again, until the call fails with `eLoop`.

### Findings that are part of the models

The models do what the code does here, and the properties exclude it by name or it lies outside of the inputs; no
run is spent on them.

Host and worker.
* A module WebAssembly refuses, or a file system that rejects, leaves the section `handleTask`
  entered for ever (`place = "failed"`); every later command is refused. The comment there says it "will be left by the
  task-completed callback".
* `worker.js` means to never announce `ready` after a failed construction, but `SetupWasmlator`
  reports failure by returning null, so it does (`wasmlator = "failed"` with `page = "ready"`).

Process. `fLoadBlock` sets `pProcState` to `loadingBlock` before it creates the module and never resets it
when that fails. A later attempt, by the debugger's `run`, is refused with "Cannot load a block
while another load is in progress" though none is (`fatal = "loadInProgress"` in `Runtime`).

Memory.
* Moving a neighbor releases its old physical slot, which may be merged with the free slot
  that was chosen for it; the chosen slot is erased, and then used (`fault = "dangling"`). Mapping the page below an existing mapping is enough.
* The new virtual slot is merged into the previous one and erased, and then read to clear its pages (`fault = "erased"`).
* A mapping that fails for lack of memory leaves its neighbors split, so that the next successful call is ended by the check.
* The second part of a store that no single lookup covers is written to the start of
  the second lookup (`memory-builder.cpp:343-353`). It needs detection of writes, where lookups stop at executable
  pages: the bytes of a store from a writable page into the next one, writable and executable, then land in the slots below
  that it is joined with. The only CPU asks for no detection (`rv64-cpu.cpp:7`), so no instruction meets it today. With both
  `DetectWrites` and `Straddling` TLC finds `AccessesLand` violated; the runs have one of them each, and the theorems that depend
  on it say so.
* A translation that ran into an unmapped page (`Stub`) says so for ever, although the page may be mapped as
  executable later; comments in `env-memory.cpp` and `gen-block.cpp` say otherwise.

Memory calls (`Deviates` in `Mappings`, or refused as the code does).
* `findNext` skips the first mapping when the address lies below it: a fixed mmap there fails with `eNoMemory`,
  possibly after it unmapped others, and one that must not replace answers the same instead of `eExists`.
* mremap with an old length off the page moves the memory and then ends the application; with a new one it fails with `eNoMemory`;
  a fixed destination is not unmapped first; clearing an executable source that is kept is not marked as a change of code.
* brk whose pages have a hole moves the break without releasing them; munmap and mprotect of a range with a hole fail as a whole;
  an allocation between two others may end behind `EndOfAllocations`.

Files (marked `Deviates` in `OpenFiles`, excluded by `Stray`, or outside of the paths given).
* `lseek` from the end with an offset back checks the offset the file has instead of its size
  (`sys-file-io.cpp:832`): `lseek(fd, -1, SEEK_END)` of a file just opened fails, and from further on it may succeed with an offset before the begin.
* `F_GETFL` also answers the flags that only opening looks at (create, exclusive, truncate), and says of a descriptor
  opened for its path alone that it may be written.
* A write that appends moves the offset to the end before the host is asked, and leaves it there if the host fails.
* `fCheckFd` does not look at `used`: a closed descriptor works on while its instance lives, and closing it
  again takes a user from another one and lowers `pOpened`, which in the end wraps and refuses every open.
* `mmap` of a file passes the index of the instance as the descriptor (`fdRead`), so it may read another file:
  `MapReadsItsFile` states the contrary, and is violated once a descriptor and its instance have different numbers.
* `link/..` is taken apart before the link is followed, and `file/..` and `link/.` are accepted (`Plain` of `MCPaths`);
  creating through a link to nothing fails with `eNoEntry`; truncating needs no permission to write when opened
  read-only; a user of several classes has the union of their permissions; mounting a node twice is fatal.
* `readv` writes back the whole buffer, whatever was read.

Paths. `CleanPath("./")` is `/`, and the canonical forms of `.//a` and `a/..//b` are absolute: a relative path becomes an absolute one.

Translation (`Deviates` of `MCRiscv`).
* `beq x0, rs2` tests an empty stack, and a comparison or classification of floats into x0 leaves a value on it: neither validates.
* `rem` by x0 into its own first source leaves its destination's place on the stack, and `remw` by x0 does not truncate.
* `divw` of the smallest word by -1 gives the smallest double word; `fcvt.wu` of a NaN is not sign-extended.
* `csrrw`, `csrrs` and `csrrc` into their source read it after it was written; registers that are not known emit nothing.
* `jalr` to an odd address is taken as misaligned instead of made even; loads into x0 are skipped and cannot fault.
* An atomic access to translated code leaves before the destination is written.
* A conditional store always succeeds: there are no reservations (`rv64-translation.cpp:968`).
* Words in registers of floats are taken as they are: an operand that is not boxed should be the canonical NaN. A result that is a NaN is
  the one WebAssembly gives, and the minimum or maximum of a NaN and a number is that NaN instead of the number.
* No instruction accrues the flags of exceptions in `fflags`; all else of such an instruction is compared. Not seen with any function for `Float`:
  conversions to integers round towards zero whatever the mode, and fused operations round their product.
* Words whose low seven bits are 0x60 or 0x68 are reserved but decoded as conversions of floats; hints are refused as invalid; a
  zero immediate of `c.lui` and `c.addi4spn` is accepted.
* `rv64-pseudo.h` promises that instructions are combined, but `DetectPseudo::next` looks at a state
  that `fMatchFirst` has just changed, so none ever is: `Combines` states it, and is violated. `JoinsKeepEffect` therefore asks
  two things: that what is fetched is right, and that the joining would be. It would not (`JoinDeviates`) when the `auipc` is followed by
  what it does not join with, when it is followed by a call, by a store of the register itself, or by a load that faults.

Debugger.
* A break point added twice shares one entry, so that dropping one of the two disarms both while the other stays listed (`AddsTwice`).
* An expression that ends on a sign is accepted though there is a message that refuses it, and a register is found by the first name that
  begins like it, so `s10` is read as `s1` and refused (`Misread`).
* A step of zero leaves the mode on stepping without executing anything.

Of the super-blocks, `Target& target` is used behind a second `allocTarget`, which may move it
(`gen-superblock.cpp:201-219`); with the usual allocators the value is still there.

## 4. Proofs

All theorems about `Runtime` hold for every value of the constants that `RuntimeAssumption`
allows: any set of addresses, host, number of processes and tasks, and depth of the
stack. That `"enter"` is no address only says that the entry of a command is told from a block. None of the
properties is inductive.

**`RuntimeProofs`**: `Invariance` proves `Spec => []IInv`, and from it follow `TypeCorrect`, `FramesOutlived` (`NoDanglingFrame`), `CallbackBelongs`
(`CallbackMatches`) and `OneAtATime` (`OneActivity`). What they need, and `IInv` adds:

* `Shape`, `NeverInside`: which activation may lie on which. An exit destroys the process with
  others below; it leaves none behind because guest code runs on top of a `task` activation only
  when nothing below it is an `execute` or `wrap` that goes on - a wrapper that was answered in-place
  leaves it to the outer one to continue the guest.
* `Levels`: `pCurrent.nested` counts at least the wrappers on the stack, so that an inner wrapper never
  takes itself for the outermost one and enters the guest below another.
* `TaskInv`: while a task is open and a wrapper is on the stack, the stored callback is the one of a
  system call; a body runs only while its call is not completed and no task is open.
* `HostInv`: a host that locks is quiet between commands; outside of an execute command the debugger's pointer
  is null or into the live process.

The step lemmas have one proof per action, and under it one step per conjunct the action can disturb. They rest on two facts about
the shape of stacks, what cutting one keeps and when a push keeps it.

Its second part adds `LoadInv` (a process that is not `coreLoaded` has a reason to be:
the core or a block is being loaded, or a load has failed for good) and proves `NoInternalError`.

Its third part proves `FreshCode` and `LinksResolve` from `CodeInv`: what a module that loads links to is mapped and what it brings is not (`LinksKept`);
unless the guest owes a FENCE.I or the next check will flush, all translations are current, those on
their way included (`Current`); guest code runs only after that check (`Checked`). The reason is
one observation: while a block loads, nothing runs that could flush or define others.

Then it proves `ResultOnce` and `NoLostWakeup` from `AnswerInv`. `Levels` is not enough here, because a fatal error does not
lower `nested`: while a result is owed the count is exact (`Owing`), and the result is with a task, with the callback that runs,
or with a wrapper further out, and with no one else (`Answered`); a task of a system call is still with the host (`Wakes`).

Its last part proves `Implements`, `Spec => ImplementsProtocol`: every step is a step of `TaskProtocol` or changes nothing it speaks of. `AskInv` says why an answer can be used
at most once: no two tasks of one process have the same stamp, lost ones included, and none but the
one it waits for is open (`Distinct`, `Single`); and until the stored task is awaited its `fHandleTask` is still on
the stack (`Begun`), so that a process which returns to the host waits or rests.

**`WebProofs`** proves `HInv`, which ties `depth` to the place of the open task - one section per task
and a second one while a module loads - and the slot to it, and from it `BusyCoversTask` and
`NoHandlerDropped`, for every number of tasks.

It then proves that the worker implements the host (`WorkerImplementsHost`): each of its steps is one of `Host` or leaves it alone. So the
invariant of the host holds under it without a second proof; `WInv` adds what the worker keeps about the host, and
`CommandAccepted`, `LinesGoOn` and `PageTruthful` follow.

The theorems about `Memory`, `Files` and `Superblock` rest on functions that are computed step by step: folds over sets of slots, loops
over ranges, the walk along a path, control that runs through code. **`Induction`** has what they need of numbers and finite sets. It is stated for sets instead of predicates
(`S` contains the empty set, and with a set also that set and one more element), because no prover at hand can instantiate a theorem with
an operator. From it follow that a fold over a finite set exists and is unique, and what each step keeps, the fold keeps. A recursive function is what
TLA+ makes of it only if some function satisfies its equation: `RunExists` shows that one does for any walk, whether it ends or not, as the
least set of answers that is closed under the steps of the walk.

**`MemoryProofs`** first says what the operators of `Slots` and `Memory` do to a map of slots: cutting, joining, releasing,
searching from an address. It then proves `SlotsSound`, that `MemorySound` always holds, for every number of pages, limits, and
usages. `PagesBacked` and `NeighborsContiguous` alone are not inductive: a slot that is split, moved or
released takes for granted what the others are. `MemorySound` says that up to some end inside of the WebAssembly memory

* the virtual slots are in order, do not overlap and end in the address space (`Laid`);
* the physical slots tile the memory without a hole and without overlap, the first one at 0 (`TiledTo`);
* each virtual slot lies within used physical memory, no two share a page of it, and neighbors lie next to each other with no physical
  slot beginning between them (`Backing`).

Not part of it is that free slots are joined with their neighbors, or that used memory is reached by some virtual slot: a
mapping that failed leaves slots split, and the code checks that only later. Each operation is described by what it does to the pages of
a range (`LessPages`, `OtherUsage`, `Reassigned`, `Relocation`, `NewContents`); the same relations then serve the next module.

**`AccessProofs`** proves `AllCachesSound`: with detection or without, what a cache covers is contiguous, as the
cache says, and allowed to be used that way, and caches for detected writes hold no executable page (`AccessInv`). From it follow
`AllAccessesLand` and, with `CodeInv` about the pages that code was translated from, `AllTranslationsCurrent`. `MemoryImplementsSpace` proves
`Spec => ImplementsAddressSpace`, where the usage of a page is that of its slot and its content what lies where it is translated to:
moving, shifting down and growing change neither. `AllAccessesLand` and `MemoryImplementsSpace` have the hypothesis `~(DetectWrites
/\ Straddling)`; with both, the properties are false, by the store described under the findings of the memory.

**`CallProofs`** proves `CallsImplementMappings`, `CallsSpec => ImplementsMappings`: brk, mmap, mprotect, munmap and mremap, each of
which is a sequence of operations of which any may fail, do to the pages of the guest what `Mappings` allows, as one step, when they
answer. `CallsBacked` and `CallsContiguous` are `PagesBacked` and `NeighborsContiguous` under all calls. `AccessProofs` says what
munmap, mprotect and mmap do to the pages of their range (`UnmapsPages`, `UsesPages`, `MapsPages`); the arithmetic of this module says which pages
a range of bytes has. The invariant is `CallInv`:

* the memory is sound, and while nothing has failed slots next to each other are of different usage (`CallMemory`, `Joined`). The second part is
  no property of an operation: the code finds out whether it holds when it flushes the caches, and stops if it does not. mremap needs it:
  it asks for one slot around its range, and the promise for pages that are mapped and of one usage (`OneIsWhole`).
* the break is at an end of pages (`BreakInv`); it may be behind pages that are not its own any more.
* a call between two of its operations has done what it is to have done so far, and nothing else (`PhaseInv`): a fixed mapping has lost none but pages
  it is to replace (`ClearInv`); a file shows at the pages that were read, and they are all that is locked next (`ReadInv`, `LockInv`); the
  destination of a move was unused and is of the usage of the source, which still holds what it held (`CopyInv`, `ReleaseInv`).

That the search for free addresses ends within the address space (`AllocationFits`) is not obvious from the code: behind the highest
mapping it compares with the end of allocations, in the middle it does not. `AllocationsAssumption` is what it takes, and true of the
constants of the code, whose range for allocations is a small part of the address space.

**`FilesProofs`** proves `AllCounted`, `Spec => []InstancesCounted`, and `FilesTyped`. That an instance is released exactly when its
last descriptor is closed depends on that an instance in use has a node of the tree, hence on where a path leads to.
`Resolve` is a walk that exists by `RunExists`; `ResolveStays` says that a
path which ends does so at a node that is there; `ClimbExists` and `BuildPathNames` the same of the way back up to the root, by the assumption that each node is below it.
`FilesInv` is `Typed` and `Counted`: a descriptor that is closed still names an instance of the table (its index is taken again), the number of
descriptors in use is `pOpened`, and an instance has no node exactly if nobody uses it; that a new descriptor
is below the limit follows from it, since the lowest free index is at most the number of those in use. The hypothesis `~Stray` is the
one of the run: with descriptors of closed files the count is wrong, which is a finding.

**`SuperblockProofs`** proves the three properties of `Superblock` for strands of any length with any jumps: `AllRangesNest`, `AllJumpsLand` and
`AllFallThrough`. It follows the code in three parts.

*Ranges.* `setupRanges` takes clusters of
overlapping ranges from a set and puts ranges back into it, until it is empty. `Weight`, the number of ranges with loops
counted twice, falls at each pass (`ResolvedIs`), so the loop ends (`UntangledExists`). A cluster that has more than nothing in it has a range
that ends at its end or a loop from its begin (`ConflictIs`): one of the patterns always applies, which the code takes for
granted when it dereferences the irreducible jump it has found. The invariant of the loop is `Untangling`: what has been put out nests,
and each range still to be resolved lies within or apart from each of those. Beside it, each jump stays `Served` while ranges are widened,
joined and turned round: by a range over whose end it leads, by a loop to whose begin it leads, or by a conditional
range that starts with a loop the jump is inside of (`Headed`). `Planned` is what is known of the ranges when writing begins; one thing in it is that
no two loops begin at the same place (`OneLoop`), since the cleanup keeps only the longest. When a loop ends, `fPrepareStack`
looks for another open loop with the same begin for the conditional targets of the first (`gen-superblock.cpp:143-148`): it never finds one.

*Code that is well built.* `Built` says what holds at each place of the code, with three functions that the program does not have: which
constructs are open (`en`), which instruction is next (`at`) and the range of each construct (`own`). `Finished` code leads
where the properties say (`CodeLeads`). `Arrives` follows control forward, in blocks to a later place and in a dispatch to one
behind the end of a block, so its value is found from the last place back to the first (`Passed`, and `Led` for the value
a dispatch is given); a branch to a loop needs what comes behind its begin, which is known by then.

*The writer.* `Writer` relates the stack, the ranges that are still to come and the targets: the stack holds exactly the ranges that have begun and not
ended, from the outside in; each active target leads where it says (`Hits`); and every open range is reached by one, together with the conditional
ranges of every open loop, also those that have ended (`Reaches`). This last part is not local: a conditional range ends while its loop goes on, and a jump back to what lies
behind it must then go through the loop's dispatch, so the second target that `allocTarget` makes for it outlives it. With that, `fLookup` finds a target for each jump the
ranges serve (`LookupLands`). While the ranges of one place are opened, `Opening` says how far the labels of the dispatch have come.

`SuperInv` joins them by phase: before the setup nothing has been written; while code is written there are ranges which are `Planned`, a `Writer` for them and code that is
`Built` so far (`Writes`); at the end there is a proof of the code's construction (`Translated`).

The assumptions are those of the modules: `MemoryAssumption` (at least one page, a memory that starts as a multiple of what it grows by),
`CallsAssumption` (a program of some pages that leaves room, a break at an end of pages), `AllocationsAssumption`,
`RequestsAssumption` (ranges within the address space, which leaves out lengths that wrap around; usages that the system has),
`FilesAssumption` (limits, the standard descriptors below them), `TreeAssumption` (each node is named by a directory and lies below
the root), `DataAssumption` (directories and what is mounted are not removed), `NodesAssumption`, and `LiteralAssumption`, that
the empty name is a string, which the provers do not know. TLC evaluates all of them in the runs.

TLC checked the inductive invariants of `Runtime`, `Host` and `WebWorker` on the instances of the runs before they were
proved; they are not among the properties of the runs because the theorems subsume them. The theorems use
nothing but the assumptions named above and the standard libraries of the prover.

### Only model-checked

* Liveness (`SyscallReturns`, `CommandEnds`, `LinesUsed`), which is out of the prover's reach.
* The refinement of `OpenFiles`: it holds for the paths the run gives, and not in general, as the findings say. `MapReadsItsFile`, which is violated.
* The pure functions of `Decoder`, `Pseudo`, `Translation`, `Paths`, `Nodes` and `Debugger`, which are compared with their references input by input.
  `Wasm` uses bitwise operators, which no prover knows.

## 5. Not modelled

* *ELF loader*: `Runtime` has its outcomes (an interpreter, an entry point, a failure). Its arithmetic on headers is a single pass
  over input from a file, without state that outlives it.
* *Block mapping*: which addresses are mapped and by what. The function table and the fast cache of the generated code are left out: both
  are written where the map is and emptied together with it (`fFlush`), so no order of calls can tell them apart.
* *File system of the host*: the bytes of files are modelled, the lazily fetched snapshot is not. Known of it: a failed fetch is
  remembered for ever, a name with a backslash can not be created, and names are also found on the prototype of JavaScript's objects.
* *File system calls*: times, owners, the layout of `getdents` and `stat` records. The nodes of `/proc` are nodes of the tree.
* *Debugger*: what it prints (`printEval` takes hexadecimal for decimal and the reverse), and the bindings printed at each halt.
* *RISC-V front end*: the printing of instructions; rounding, and with it the product inside of fused operations, is translated but not compared.
* *Code generation and glue*: lists of bindings that are written once; the reads and writes of registers and memory they provide are in `Wasm`.
* *Miscellaneous system calls*: stateless answers (ids, clocks, limits), which are bodies that return in `Runtime`.
* *Context and interaction*: a buffer of registers and a list of callbacks by number.
* *Node host, web page and server*: terminal, display and HTTP. The node host awaits each of its calls before the next, as `Host` requires.
* In all modules: wording, logging, display, and the layout of shared memory. Addresses with the sign bit, lengths that wrap 64 bits and flags that are not supported at all are left out of `MemoryCalls`.

## 6. What would come next

1. `HostFiles`: the lazily fetched tree under concurrent promises, composed with `Host`.
2. The accesses of `Memory` below a page, so that the widths of `memory-builder.cpp` are covered together with its caches.
