------------------------------- MODULE WebWorker -------------------------------
(***************************************************************************)
(* The web worker (run/web/static/js/worker.js) which feeds what the user  *)
(* types to Host: a line is the next command, or the input of the program  *)
(* that is running and waits for some.  Lines are alike, so only their     *)
(* number is kept.                                                         *)
(***************************************************************************)
EXTENDS Host

CONSTANT MaxTyped   \* bound on the lines the user types

ASSUME WorkerAssumption == MaxTyped \in Nat

VARIABLES
    wasmlator,      \* "null" while it is set up, "set", or "failed" for a null that stays
    inputQueue,     \* lines in inputQueue
    inputPromise,   \* inputPromise is not null
    line,           \* a line was given to the promise, the reader did not resume yet
    isExecuting,
    page,           \* the last of the messages `ready' and `busy' the page received
    typed           \* lines typed so far

workerVars == <<wasmlator, inputQueue, inputPromise, line, isExecuting, page, typed>>
webVars    == <<hostVars, workerVars>>

WebInit ==
    /\ Init
    /\ wasmlator = "null" /\ inputQueue = 0 /\ inputPromise = FALSE /\ line = FALSE
    /\ isExecuting = FALSE /\ page = "none" /\ typed = 0

-----------------------------------------------------------------------------

\* Mutant: a reader waits for the next line although one is queued
ReadInputWaits(queue) ==
    /\ inputQueue' = queue
    /\ inputPromise' = TRUE /\ line' = FALSE

\* userInput, called with the given number of lines in the queue: dispatchNext gives it the
\* first of them at once
ReadInput(queue) ==
    IF queue = 0
    THEN inputQueue' = 0 /\ inputPromise' = TRUE /\ line' = FALSE
    ELSE inputQueue' = queue - 1 /\ inputPromise' = FALSE /\ line' = TRUE

\* userInput is called in the course of this job
Reads == place' = "reading" /\ place # "reading"

\* dispatchNext, called with the given number of lines in the queue and value of isExecuting
DispatchNext(queue, executing) ==
    \/ /\ queue = 0
       /\ page' = IF inputPromise THEN page ELSE "ready"
       /\ isExecuting' = executing /\ inputQueue' = 0
       /\ UNCHANGED <<hostVars, inputPromise, line>>
    \/ /\ queue > 0 /\ (wasmlator' # "set" \/ (executing /\ ~inputPromise))
       /\ isExecuting' = executing /\ inputQueue' = queue
       /\ UNCHANGED <<hostVars, inputPromise, line, page>>
    \/ /\ queue > 0 /\ wasmlator' = "set" /\ inputPromise
       /\ inputPromise' = FALSE /\ line' = TRUE /\ inputQueue' = queue - 1
       /\ isExecuting' = executing
       /\ UNCHANGED <<hostVars, page>>
    \/ /\ queue > 0 /\ wasmlator' = "set" /\ ~inputPromise /\ ~executing
       /\ isExecuting' = TRUE /\ page' = "busy"
       /\ Command
       /\ IF Reads THEN ReadInput(queue - 1)
                   ELSE inputQueue' = queue - 1 /\ UNCHANGED <<inputPromise, line>>

\* the page sends a line the user typed
OnMessage ==
    /\ typed < MaxTyped /\ typed' = typed + 1
    /\ UNCHANGED wasmlator
    /\ DispatchNext(inputQueue + 1, isExecuting)

\* SetupWasmlator returns the interface, or null if a module could not be loaded or started
SetupDone ==
    /\ wasmlator = "null" /\ mode # "down"
    /\ wasmlator' = IF mode = "dead" THEN "failed" ELSE "set"
    /\ UNCHANGED typed
    /\ DispatchNext(inputQueue, isExecuting)

\* Mutant: nothing is dispatched when a command ends
CommandDoneIdle ==
    /\ isExecuting /\ mode = "idle"
    /\ isExecuting' = FALSE
    /\ UNCHANGED <<hostVars, wasmlator, inputQueue, inputPromise, line, page, typed>>

\* Mutant: the end of the command is not awaited
CommandDoneEarly ==
    /\ isExecuting
    /\ UNCHANGED <<wasmlator, typed>>
    /\ DispatchNext(inputQueue, FALSE)

\* the promise of the command is settled
CommandDone ==
    /\ isExecuting /\ mode = "idle"
    /\ UNCHANGED <<wasmlator, typed>>
    /\ DispatchNext(inputQueue, FALSE)

\* a job of the host; the reader resumes with the line it was given
HostJob ==
    /\ Job
    /\ place = "reading" => line
    /\ IF Reads
       THEN ReadInput(inputQueue)
       ELSE /\ line' = (line /\ place # "reading")
            /\ UNCHANGED <<inputQueue, inputPromise>>
    /\ UNCHANGED <<wasmlator, isExecuting, page, typed>>

WebRest == UNCHANGED webVars

WebNext == OnMessage \/ SetupDone \/ CommandDone \/ HostJob \/ WebRest

WebSpec == WebInit /\ [][WebNext]_webVars

\* the engine runs every job; nobody has to type
WebFairSpec ==
    /\ WebSpec
    /\ WF_webVars(SetupDone) /\ WF_webVars(CommandDone) /\ WF_webVars(HostJob)

-----------------------------------------------------------------------------
(* Properties. *)

\* A command is only passed on when the host takes it: BusyResolver.start never throws.
CommandAccepted == wasmlator = "set" /\ ~isExecuting => mode = "idle" /\ depth = 0

\* No line lies in the queue while the worker has nothing to do or a program waits for it, and a
\* program that reads has either a promise or a line, never both and never neither.
LinesGoOn ==
    /\ inputQueue > 0 => wasmlator # "set" \/ (isExecuting /\ ~inputPromise)
    /\ place = "reading" <=> inputPromise \/ line
    /\ ~(inputPromise /\ line)

\* The prompt of the page is shown when a line would be taken as a command at once.
PageTruthful ==
    wasmlator = "set" => (page = "ready" <=> ~isExecuting)

\* Every command ends, or its program waits for a line that nobody typed; only a module that is
\* refused and a handler of the file system that throws keep it from that.
CommandEnds == isExecuting ~> ~isExecuting \/ inputPromise \/ place = "failed"

\* Every line the user types is used, as a command or as input, with the same exceptions.
LinesUsed == inputQueue > 0 ~> inputQueue = 0 \/ place = "failed" \/ wasmlator = "failed"

=============================================================================
