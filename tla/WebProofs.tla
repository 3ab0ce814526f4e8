------------------------------ MODULE WebProofs ------------------------------
(***************************************************************************)
(* Proofs about Host, for every choice of operations, with and without     *)
(* failures, and for any number of tasks.                                  *)
(***************************************************************************)
EXTENDS WebWorker, TLAPS

\* how many sections the open task holds
Held == CASE task = "none" -> 0
          [] task # "none" /\ place = "loading" -> 2
          [] OTHER -> 1

\* the kind of a task says where it can be
Places ==
    /\ place = "none" <=> task = "none"
    /\ place = "loading" => task = "module"
    /\ place = "reading" => task = "input"
    /\ place = "working" => task = "file"
    /\ place # "dropped"

\* the promise of taskResolvable is open while its loop runs, and filled for one handler
Promise ==
    /\ place = "ready" <=> slot = "filled"
    /\ place \in {"loading", "reading", "working"} => slot = "open"
    /\ mode \in {"handle", "execute", "cleanup"} /\ task = "none" => slot = "open"
    /\ mode \in {"down", "idle"} => slot \in {"none", "closed"}

HInv ==
    /\ TypeOK /\ Places /\ Promise
    /\ depth = Held
    /\ SettledOnce
    /\ mode \in {"down", "dead", "idle", "cleanup"} => task = "none"

\* The application is entered with one section open besides those of its task.
LEMMA EnterInv ==
    ASSUME NEW d \in Nat, NEW s \in Slot, NEW c \in Nat, Enter(d, s, c), d = 1, s = "open",
           buffered \in BOOLEAN, mode' \in {"handle", "execute"}
    PROVE  HInv'
<1>1. CASE /\ task' = "none" /\ place' = "none" /\ slot' = s /\ Leave(d)
           /\ count' = c /\ UNCHANGED buffered
  <2>1. d - 1 = 0
    OBVIOUS
  <2>2. depth' = 0 /\ settled' = TRUE
    BY <1>1, <2>1 DEF Leave
  <2> QED
    BY <1>1, <2>2 DEF HInv, TypeOK, Mode, Place, Places, Promise, Held, SettledOnce
<1>2. ASSUME NEW kind \in Kind, count' = c + 1, task' = kind, HandleTask(kind, s),
             Leave(d + Sections(kind))
      PROVE  HInv'
  <2>1. depth' = Sections(kind) /\ depth' \in Nat /\ settled' = FALSE /\ depth' # 0
    <3>1. d + Sections(kind) - 1 = Sections(kind) /\ Sections(kind) \in {1, 2}
      BY DEF Sections
    <3>2. Sections(kind) # 0 /\ Sections(kind) \in Nat
      BY <3>1
    <3>3. depth' = Sections(kind)
      BY <1>2, <3>1 DEF Leave
    <3>4. settled' = FALSE
      <4>1. settled' = ((d + Sections(kind)) - 1 = 0)
        BY <1>2, Zenon DEF Leave
      <4>2. ((d + Sections(kind)) - 1 = 0) = FALSE
        BY <3>1
      <4> QED
        BY <4>1, <4>2
    <3> QED
      BY <3>2, <3>3, <3>4
  <2>2. count' \in Nat
    BY <1>2
  <2>3. /\ kind = "module" => place' = "loading" /\ slot' = "open"
        /\ kind = "file" => place' = "ready" /\ slot' = "filled"
        /\ kind = "input" => \/ place' = "ready" /\ slot' = "filled"
                             \/ place' = "reading" /\ slot' = "open"
        /\ buffered' \in BOOLEAN
    BY <1>2 DEF HandleTask, Offer
  <2>4. kind \in {"module", "file", "input"} /\ task' = kind
    BY <1>2 DEF Kind
  <2>5. TypeOK'
    BY <2>1, <2>2, <2>3, <2>4 DEF TypeOK, Mode, Slot, Kind, Place
  <2>6. Places' /\ Promise'
    BY <2>3, <2>4 DEF Places, Promise
  <2>7. depth' = Held'
    BY <2>1, <2>3, <2>4 DEF Held, Sections
  <2>8. SettledOnce'
    BY <2>1 DEF SettledOnce
  <2> QED
    BY <2>4, <2>5, <2>6, <2>7, <2>8 DEF HInv
<1> QED
  BY <1>1, <1>2 DEF Enter

\* The invariant holds before the main module is loaded.
LEMMA HostInitInv == Init => HInv
<1> SUFFICES ASSUME Init PROVE HInv
  OBVIOUS
<1>1. TypeOK
  BY DEF Init, TypeOK, Mode, Slot, Place
<1>2. Places /\ Promise
  BY DEF Init, Places, Promise
<1>3. depth = Held
  BY DEF Init, Held
<1>4. SettledOnce
  BY DEF Init, SettledOnce
<1> QED
  BY <1>1, <1>2, <1>3, <1>4 DEF Init, HInv

\* Every job preserves the invariant.
LEMMA HostNextInv == HostAssumption /\ HInv /\ [Next]_hostVars => HInv'
<1> SUFFICES ASSUME HostAssumption, HInv, [Next]_hostVars PROVE HInv'
  OBVIOUS
<1> USE DEF HInv, TypeOK, Places, Promise, SettledOnce
<1>1. ASSUME NEW op \in Operations, Begin(op) PROVE HInv'
  <2>1. op \in {"handle", "execute"} /\ mode' = op /\ Enter(1, "open", 0)
    BY <1>1 DEF Begin, HostAssumption
  <2> QED
    BY <2>1, EnterInv DEF Slot
<1>2. CASE PrepareAndLoadMain
  BY <1>2 DEF PrepareAndLoadMain, Mode, Held
<1>3. CASE HandleDone
  <2>1. task = "none" /\ slot = "open" /\ depth = 0
    BY <1>3 DEF HandleDone, Held
  <2> QED
    BY <1>3, <2>1 DEF HandleDone, Mode, Slot, Held
<1>4. CASE ExecuteDone
  <2>1. task = "none" /\ depth = 0
    BY <1>4 DEF ExecuteDone, Held
  <2> QED
    BY <1>4, <2>1 DEF ExecuteDone, Mode, Held
<1>5. CASE ResolveTask
  <2>1. /\ slot = "filled" /\ place = "ready" /\ task # "none" /\ depth = 1
        /\ mode \in {"handle", "execute"} /\ mode' = mode
    BY <1>5 DEF ResolveTask, Held, Mode
  <2>2. CASE task = "file"
    BY <1>5, <2>1, <2>2 DEF ResolveTask, NextSlot, Held, Slot, Place
  <2>3. CASE task # "file"
    <3>1. Enter(depth, "open", count) /\ "open" \in Slot /\ count \in Nat /\ depth \in Nat
      BY <1>5, <2>1, <2>3 DEF ResolveTask, NextSlot, Slot
    <3> QED
      BY <2>1, <3>1, EnterInv
  <2> QED
    BY <2>2, <2>3
<1>6. CASE Finish
  <2>1. task # "none" /\ mode \in {"handle", "execute"} /\ mode' = mode
    BY <1>6 DEF Finish, FileDone, ModuleLoaded, InputRead, ModuleRefused, FileThrows, Mode
  <2>2. CASE FileDone
    <3>1. depth = 1 /\ slot = "open" /\ Enter(depth, slot, count)
      BY <2>2 DEF FileDone, Held
    <3> QED
      BY <2>1, <3>1, EnterInv
  <2>3. CASE ModuleLoaded
    BY <2>1, <2>3 DEF ModuleLoaded, Offer, Leave, Held, Slot, Place
  <2>4. CASE InputRead
    BY <2>1, <2>4 DEF InputRead, Offer, Held, Slot, Place
  <2>5. CASE ModuleRefused
    BY <2>1, <2>5 DEF ModuleRefused, Leave, Held, Place
  <2>6. CASE FileThrows
    BY <2>1, <2>6 DEF FileThrows, Held, Place
  <2> QED
    BY <1>6, <2>2, <2>3, <2>4, <2>5, <2>6 DEF Finish
<1>7. CASE UNCHANGED hostVars
  BY <1>7 DEF hostVars, Held
<1> QED
  BY <1>1, <1>2, <1>3, <1>4, <1>5, <1>6, <1>7 DEF Next, Command, Job, Rest

\* The invariant holds in every state of the host.
THEOREM HostInvariance == Spec => []HInv
<1>1. HostAssumption /\ HInv /\ [Next]_hostVars => HInv'
  BY HostNextInv
<1> QED
  BY <1>1, HostInitInv, HostAssumption, PTL DEF Spec

\* While anything the application asked for is open the host takes no command and cleans nothing
\* up; in particular the count of sections never falls below zero.
THEOREM CommandsExclusive == Spec => [](TypeOK /\ BusyCoversTask)
<1>1. HInv => TypeOK /\ BusyCoversTask
  BY DEF HInv, BusyCoversTask, SettledOnce, Held, TypeOK, Mode, Places
<1> QED
  BY <1>1, HostInvariance, PTL

\* No job that finishes a task calls a taskResolvable whose promise is already resolved.
THEOREM HandlersCalled == Spec => []NoHandlerDropped
<1>1. HInv => NoHandlerDropped
  BY DEF HInv, NoHandlerDropped, Places, Promise
<1> QED
  BY <1>1, HostInvariance, PTL

-----------------------------------------------------------------------------
(***************************************************************************)
(* Proofs about WebWorker, for every choice of operations and any number   *)
(* of tasks and lines: the worker uses the host as Host allows, and what   *)
(* it keeps about it is true.                                              *)
(***************************************************************************)

\* the worker's variables, and what its interface says of the host
WorkerType ==
    /\ wasmlator \in {"null", "set", "failed"} /\ page \in {"none", "ready", "busy"}
    /\ inputQueue \in Nat /\ typed \in Nat
    /\ inputPromise \in BOOLEAN /\ line \in BOOLEAN /\ isExecuting \in BOOLEAN

Interface ==
    /\ wasmlator = "set" => mode \notin {"down", "dead"}
    /\ wasmlator # "set" => mode \in {"down", "dead", "idle"} /\ ~isExecuting

WInv == HInv /\ WorkerType /\ Interface /\ CommandAccepted /\ LinesGoOn /\ PageTruthful

\* A host in no operation has no task, and no reader waits for a line.
LEMMA Quiet ==
    ASSUME WInv, mode \in {"down", "dead", "idle"}
    PROVE  task = "none" /\ place = "none" /\ depth = 0 /\ ~inputPromise /\ ~line
<1>1. task = "none" /\ place = "none" /\ depth = 0
  BY DEF WInv, HInv, Places, Held
<1>2. ~inputPromise /\ ~line
  BY <1>1 DEF WInv, LinesGoOn
<1> QED
  BY <1>1, <1>2

\* A job of the host ends no operation that is not there.
LEMMA JobNeedsOperation ==
    ASSUME WInv, Job, mode # "down"
    PROVE  mode \in {"handle", "execute", "cleanup"} /\ mode' \in {"idle", "handle", "execute", "cleanup"}
<1>1. mode \in {"dead", "idle", "handle", "execute", "cleanup"}
  BY DEF WInv, HInv, TypeOK, Mode
<1>2. mode \notin {"dead", "idle"}
  <2> SUFFICES ASSUME mode \in {"dead", "idle"} PROVE FALSE
    OBVIOUS
  <2>1. place = "none"
    BY Quiet
  <2> QED
    BY <2>1 DEF Job, PrepareAndLoadMain, HandleDone, ExecuteDone, ResolveTask, Finish, FileDone,
                ModuleLoaded, InputRead, ModuleRefused, FileThrows
<1>3. mode' = mode \/ mode' = "idle" \/ mode' = "cleanup"
  BY DEF Job, PrepareAndLoadMain, HandleDone, ExecuteDone, ResolveTask, Finish, FileDone,
         ModuleLoaded, InputRead, ModuleRefused, FileThrows
<1> QED
  BY <1>1, <1>2, <1>3

\* A reader resumes, and no other job comes between: the line is used up.
LEMMA ReaderResumes ==
    ASSUME WInv, HInv', Job, place = "reading"
    PROVE  place' # "reading"
<1>1. task # "none" /\ depth = 1 /\ ~settled
  BY DEF WInv, HInv, Places, Held, SettledOnce
<1>2. InputRead
  <2>1. mode \in {"handle", "execute"}
    BY <1>1 DEF WInv, HInv, TypeOK, Mode
  <2> QED
    BY <1>1, <2>1 DEF Job, PrepareAndLoadMain, HandleDone, ExecuteDone, ResolveTask, Finish, FileDone,
                ModuleLoaded, InputRead, ModuleRefused, FileThrows
<1> QED
  BY <1>2 DEF InputRead, Offer

-----------------------------------------------------------------------------
\* Whatever the worker does, the host sees a step of its own, or none.
LEMMA StepOfHost == [WebNext]_webVars => [Next]_hostVars
<1> SUFFICES ASSUME [WebNext]_webVars PROVE [Next]_hostVars
  OBVIOUS
<1>1. ASSUME NEW queue, NEW executing, DispatchNext(queue, executing) PROVE Command \/ UNCHANGED hostVars
  BY <1>1 DEF DispatchNext
<1>2. CASE OnMessage \/ SetupDone \/ CommandDone
  BY <1>1, <1>2 DEF OnMessage, SetupDone, CommandDone, Next
<1>3. CASE HostJob
  BY <1>3 DEF HostJob, Next
<1>4. CASE UNCHANGED webVars
  BY <1>4 DEF webVars
<1> QED
  BY <1>2, <1>3, <1>4 DEF WebNext, WebRest

\* dispatchNext keeps what the worker knows: it is called with at least the lines of the queue,
\* when the host is in no operation or executing says that it may be.
LEMMA DispatchInv ==
    ASSUME WInv, HInv', NEW queue \in Nat, NEW executing \in BOOLEAN, DispatchNext(queue, executing),
           wasmlator' \in {"null", "set", "failed"}, typed' \in Nat,
           wasmlator' = "set" => mode \notin {"down", "dead"},
           wasmlator' # "set" => mode \in {"down", "dead", "idle"} /\ ~executing,
           ~executing => mode \in {"down", "dead", "idle"},
           executing => queue > 0 /\ isExecuting /\ wasmlator = "set" /\ wasmlator' = "set"
    PROVE  WInv'
<1>0. mode \in {"down", "dead", "idle", "handle", "execute", "cleanup"} /\ depth \in Nat
  BY DEF WInv, HInv, TypeOK, Mode
<1>1. CASE queue = 0
  <2>1. ~executing /\ task = "none" /\ place = "none" /\ depth = 0 /\ ~inputPromise /\ ~line
    BY <1>1, Quiet
  <2>2. /\ page' = "ready" /\ isExecuting' = FALSE /\ inputQueue' = 0
        /\ UNCHANGED hostVars /\ inputPromise' = FALSE /\ line' = FALSE
    BY <1>1, <2>1 DEF DispatchNext, WInv, WorkerType
  <2>3. mode' = mode /\ depth' = depth /\ place' = place
    BY <2>2 DEF hostVars
  <2>4. WorkerType' /\ Interface'
    BY <2>1, <2>2, <2>3 DEF WorkerType, Interface
  <2>5. CommandAccepted' /\ LinesGoOn' /\ PageTruthful'
    BY <1>0, <2>1, <2>2, <2>3 DEF CommandAccepted, LinesGoOn, PageTruthful
  <2> QED
    BY <2>4, <2>5 DEF WInv
<1>2. CASE queue > 0 /\ (wasmlator' # "set" \/ (executing /\ ~inputPromise))
  <2>1. /\ isExecuting' = executing /\ inputQueue' = queue
        /\ UNCHANGED <<hostVars, inputPromise, line, page>>
    BY <1>2 DEF DispatchNext
  <2>2. mode' = mode /\ depth' = depth /\ place' = place
    BY <2>1 DEF hostVars
  <2>3. WorkerType' /\ Interface'
    BY <2>1, <2>2 DEF WorkerType, Interface, WInv
  <2>4. CommandAccepted' /\ LinesGoOn' /\ PageTruthful'
    BY <1>2, <2>1, <2>2 DEF CommandAccepted, LinesGoOn, PageTruthful, WInv
  <2> QED
    BY <2>3, <2>4 DEF WInv
<1>3. CASE queue > 0 /\ wasmlator' = "set" /\ inputPromise
  <2>1. executing
    BY <1>3, Quiet
  <2>2. /\ inputPromise' = FALSE /\ line' = TRUE /\ inputQueue' = queue - 1
        /\ isExecuting' = executing /\ UNCHANGED <<hostVars, page>>
    <3>1. queue # 0
      BY <1>3
    <3> QED
      BY <1>3, <2>1, <3>1, Zenon DEF DispatchNext
  <2>3. mode' = mode /\ depth' = depth /\ place' = place
    BY <2>2 DEF hostVars
  <2>4. inputQueue' \in Nat
    BY <1>3, <2>2
  <2>5. WorkerType' /\ Interface'
    BY <1>3, <2>1, <2>2, <2>3, <2>4 DEF WorkerType, Interface, WInv
  <2>6. CommandAccepted' /\ LinesGoOn' /\ PageTruthful'
    BY <1>3, <2>1, <2>2, <2>3 DEF CommandAccepted, LinesGoOn, PageTruthful, WInv
  <2> QED
    BY <2>5, <2>6 DEF WInv
<1>4. CASE queue > 0 /\ wasmlator' = "set" /\ ~inputPromise /\ ~executing
  <2>1. task = "none" /\ place = "none" /\ depth = 0 /\ ~inputPromise /\ ~line
    BY <1>4, Quiet
  <2>2. /\ isExecuting' = TRUE /\ page' = "busy" /\ Command
        /\ IF Reads THEN ReadInput(queue - 1)
                    ELSE inputQueue' = queue - 1 /\ UNCHANGED <<inputPromise, line>>
    BY <1>4 DEF DispatchNext
  <2>3. mode' \in {"handle", "execute"}
    BY <2>2, HostAssumption DEF Command, Begin
  <2>4. queue - 1 \in Nat
    BY <1>4
  <2>5. /\ inputQueue' \in Nat /\ inputPromise' \in BOOLEAN /\ line' \in BOOLEAN
        /\ inputQueue' > 0 => ~inputPromise'
        /\ place' = "reading" <=> inputPromise' \/ line'
        /\ ~(inputPromise' /\ line')
    <3>1. CASE Reads
      <4>1. ReadInput(queue - 1) /\ place' = "reading"
        BY <2>2, <3>1 DEF Reads
      <4>2. CASE queue - 1 = 0
        <5>1. inputQueue' = 0 /\ inputPromise' = TRUE /\ line' = FALSE
          BY <4>1, <4>2, Zenon DEF ReadInput
        <5>2. inputQueue' \in Nat /\ ~(inputQueue' > 0)
          BY <5>1, SMT
        <5>3. place' = "reading"
          BY <4>1, Zenon
        <5>4. inputPromise' \in BOOLEAN /\ line' \in BOOLEAN
          BY <5>1, Zenon
        <5> QED
          BY <5>1, <5>2, <5>3, <5>4, Zenon
      <4>3. CASE queue - 1 # 0
        <5>1. inputQueue' = (queue - 1) - 1 /\ inputPromise' = FALSE /\ line' = TRUE
          BY <4>1, <4>3 DEF ReadInput
        <5>2. inputQueue' \in Nat
          BY <5>1, <4>3, <2>4
        <5> QED
          BY <4>1, <5>1, <5>2
      <4> QED
        BY <4>2, <4>3
    <3>2. CASE ~Reads
      <4>1. place' # "reading"
        BY <2>1, <3>2 DEF Reads
      <4>2. inputQueue' = queue - 1 /\ inputPromise' = FALSE /\ line' = FALSE
        BY <2>1, <2>2, <3>2 DEF WInv, WorkerType
      <4> QED
        BY <2>4, <4>1, <4>2
    <3> QED
      BY <3>1, <3>2
  <2>6. WorkerType' /\ Interface'
    BY <1>4, <2>2, <2>3, <2>5 DEF WorkerType, Interface
  <2>7. CommandAccepted' /\ LinesGoOn' /\ PageTruthful'
    BY <1>4, <2>2, <2>5 DEF CommandAccepted, LinesGoOn, PageTruthful
  <2> QED
    BY <2>6, <2>7 DEF WInv
<1> QED
  BY <1>1, <1>2, <1>3, <1>4 DEF DispatchNext

\* The invariant holds while the interface is set up, and nobody typed.
LEMMA WebInitInv == WebInit => WInv
<1> SUFFICES ASSUME WebInit PROVE WInv
  OBVIOUS
<1>1. HInv
  BY HostInitInv DEF WebInit
<1>2. WorkerType /\ Interface
  BY DEF WebInit, WorkerType, Interface, Init
<1>3. CommandAccepted /\ LinesGoOn /\ PageTruthful
  BY DEF WebInit, Init, CommandAccepted, LinesGoOn, PageTruthful
<1> QED
  BY <1>1, <1>2, <1>3 DEF WInv

\* Every step of the worker and of the host preserves it.
LEMMA WebNextInv == HostAssumption /\ WorkerAssumption /\ WInv /\ [WebNext]_webVars => WInv'
<1> SUFFICES ASSUME HostAssumption, WorkerAssumption, WInv, [WebNext]_webVars PROVE WInv'
  OBVIOUS
<1>0. HInv'
  BY StepOfHost, HostNextInv DEF WInv
<1>1. CASE OnMessage
  <2>1. inputQueue + 1 \in Nat /\ inputQueue + 1 > 0 /\ typed' \in Nat
    BY <1>1 DEF OnMessage, WInv, WorkerType
  <2>2. isExecuting \in BOOLEAN /\ wasmlator' = wasmlator /\ DispatchNext(inputQueue + 1, isExecuting)
    BY <1>1 DEF OnMessage, WInv, WorkerType
  <2>3. /\ wasmlator \in {"null", "set", "failed"}
        /\ wasmlator = "set" => mode \notin {"down", "dead"}
        /\ wasmlator # "set" => mode \in {"down", "dead", "idle"} /\ ~isExecuting
        /\ ~isExecuting => mode \in {"down", "dead", "idle"}
    BY DEF WInv, WorkerType, Interface, CommandAccepted
  <2> QED
    BY <1>0, <2>1, <2>2, <2>3, DispatchInv
<1>2. CASE SetupDone
  <2>1. /\ wasmlator' \in {"set", "failed"} /\ mode \in {"dead", "idle"} /\ ~isExecuting
        /\ wasmlator' = "set" => mode # "dead"
    BY <1>2 DEF SetupDone, WInv, Interface
  <2>2. inputQueue \in Nat /\ typed' \in Nat /\ isExecuting \in BOOLEAN /\ DispatchNext(inputQueue, isExecuting)
    BY <1>2 DEF SetupDone, WInv, WorkerType
  <2> QED
    BY <1>0, <2>1, <2>2, DispatchInv
<1>3. CASE CommandDone
  <2>1. wasmlator = "set" /\ wasmlator' = "set" /\ mode = "idle" /\ typed' \in Nat /\ inputQueue \in Nat
    BY <1>3 DEF CommandDone, WInv, Interface, WorkerType
  <2>2. DispatchNext(inputQueue, FALSE) /\ FALSE \in BOOLEAN
    BY <1>3 DEF CommandDone
  <2> QED
    BY <1>0, <2>1, <2>2, DispatchInv
<1>4. CASE HostJob
  <2>1. Job /\ wasmlator' = wasmlator /\ isExecuting' = isExecuting /\ page' = page /\ typed' = typed
    BY <1>4 DEF HostJob
  <2>2. CASE mode = "down"
    <3>1. place = "none" /\ ~inputPromise /\ ~line /\ depth = 0
      BY <2>2, Quiet
    <3>2. place' = "none" /\ mode' \in {"dead", "idle"}
      BY <2>1, <2>2, <3>1 DEF Job, PrepareAndLoadMain, HandleDone, ExecuteDone, ResolveTask, Finish,
                              FileDone, ModuleLoaded, InputRead, ModuleRefused, FileThrows
    <3>3. inputQueue' = inputQueue /\ inputPromise' = FALSE /\ line' = FALSE
      BY <1>4, <3>1, <3>2 DEF HostJob, Reads, WInv, WorkerType
    <3>4. wasmlator # "set"
      BY <2>2 DEF WInv, Interface
    <3>5. WorkerType' /\ Interface'
      BY <2>1, <3>2, <3>3, <3>4 DEF WInv, WorkerType, Interface
    <3>6. CommandAccepted' /\ LinesGoOn' /\ PageTruthful'
      BY <2>1, <3>2, <3>3, <3>4 DEF CommandAccepted, LinesGoOn, PageTruthful
    <3> QED
      BY <1>0, <3>5, <3>6 DEF WInv
  <2>3. CASE mode # "down"
    <3>1. mode \in {"handle", "execute", "cleanup"} /\ mode' \in {"idle", "handle", "execute", "cleanup"}
      BY <2>1, <2>3, JobNeedsOperation
    <3>2. wasmlator = "set" /\ isExecuting /\ inputQueue \in Nat
      BY <3>1 DEF WInv, WorkerType, Interface, CommandAccepted
    <3>3. /\ inputQueue' \in Nat /\ inputPromise' \in BOOLEAN /\ line' \in BOOLEAN
          /\ inputQueue' > 0 => ~inputPromise'
          /\ place' = "reading" <=> inputPromise' \/ line'
          /\ ~(inputPromise' /\ line')
      <4>1. CASE Reads
        <5>1. ReadInput(inputQueue) /\ place' = "reading"
          BY <1>4, <4>1 DEF HostJob, Reads
        <5>2. CASE inputQueue = 0
          <6>1. inputQueue' = 0 /\ inputPromise' = TRUE /\ line' = FALSE
            BY <5>1, <5>2, Zenon DEF ReadInput
          <6>2. inputQueue' \in Nat /\ ~(inputQueue' > 0)
            BY <6>1, SMT
          <6>3. place' = "reading"
            BY <5>1, Zenon
          <6>4. inputPromise' \in BOOLEAN /\ line' \in BOOLEAN
            BY <6>1, Zenon
          <6> QED
            BY <6>1, <6>2, <6>3, <6>4, Zenon
        <5>3. CASE inputQueue # 0
          <6>1. inputQueue' = inputQueue - 1 /\ inputPromise' = FALSE /\ line' = TRUE
            BY <5>1, <5>3 DEF ReadInput
          <6>2. inputQueue' \in Nat
            BY <6>1, <5>3, <3>2
          <6> QED
            BY <5>1, <6>1, <6>2
        <5> QED
          BY <5>2, <5>3
      <4>2. CASE ~Reads
        <5>1. inputQueue' = inputQueue /\ inputPromise' = inputPromise /\ line' = (line /\ place # "reading")
          BY <1>4, <4>2 DEF HostJob
        <5>2. place' # "reading"
          BY <1>0, <2>1, <4>2, ReaderResumes DEF Reads
        <5>3. ~inputPromise /\ ~(line /\ place # "reading")
          BY <1>4 DEF HostJob, WInv, LinesGoOn
        <5>4. inputPromise' = FALSE /\ line' = FALSE
          BY <5>1, <5>3 DEF WInv, WorkerType
        <5> QED
          BY <3>2, <5>1, <5>2, <5>4
      <4> QED
        BY <4>1, <4>2
    <3>4. WorkerType' /\ Interface'
      BY <2>1, <3>1, <3>2, <3>3 DEF WInv, WorkerType, Interface
    <3>5. CommandAccepted' /\ LinesGoOn' /\ PageTruthful'
      BY <2>1, <3>1, <3>2, <3>3 DEF WInv, CommandAccepted, LinesGoOn, PageTruthful
    <3> QED
      BY <1>0, <3>4, <3>5 DEF WInv
  <2> QED
    BY <2>2, <2>3
<1>5. CASE UNCHANGED webVars
  BY <1>0, <1>5 DEF webVars, workerVars, hostVars, WInv, WorkerType, Interface, CommandAccepted, LinesGoOn, PageTruthful
<1> QED
  BY <1>1, <1>2, <1>3, <1>4, <1>5 DEF WebNext, WebRest

-----------------------------------------------------------------------------
\* The worker uses the host only as Host allows: the behaviors of both together are behaviors of
\* the host alone, so that what is proved of it holds under the worker.
THEOREM WorkerImplementsHost == WebSpec => Spec
<1>1. WebInit => Init
  BY DEF WebInit
<1> QED
  BY <1>1, StepOfHost, PTL DEF WebSpec, Spec

\* The invariant holds in every state of the worker.
THEOREM WebInvariance == WebSpec => []WInv
<1> QED
  BY WebInitInv, WebNextInv, HostAssumption, WorkerAssumption, PTL DEF WebSpec

\* The host is idle whenever the worker passes a command on: BusyResolver.start never throws,
\* however lines are typed while commands and their programs run.
THEOREM CommandsAccepted == WebSpec => []CommandAccepted
<1>1. WInv => CommandAccepted
  BY DEF WInv
<1> QED
  BY <1>1, WebInvariance, PTL

\* No line lies in the queue that a program waits for or that would be the next command, and a
\* reader never has both a promise and a line.
THEOREM LinesServed == WebSpec => []LinesGoOn
<1>1. WInv => LinesGoOn
  BY DEF WInv
<1> QED
  BY <1>1, WebInvariance, PTL

\* The page shows the prompt exactly when the next line would be taken as a command.
THEOREM PageShows == WebSpec => []PageTruthful
<1>1. WInv => PageTruthful
  BY DEF WInv
<1> QED
  BY <1>1, WebInvariance, PTL

=============================================================================
