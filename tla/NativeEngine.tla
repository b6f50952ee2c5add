---------------------------- MODULE NativeEngine ----------------------------
(***************************************************************************)
(* The embedded transport's core: the main-thread facade NativeEngine      *)
(* (rift-embedded/src/native.ts), the worker thread that owns the native   *)
(* library (worker.ts), and the two message channels between them.         *)
(*                                                                         *)
(* A step is one turn of the host's event loop (one listener, one timer,   *)
(* one public call, run to the end of its microtasks), one message handled *)
(* by the worker, or something that happens to the worker thread.          *)
(*                                                                         *)
(* MaxCalls bounds the number of calls ever made; the code has no bound.   *)
(***************************************************************************)
EXTENDS Naturals, Sequences

CONSTANT
  MaxCalls   \* bound on #nextId

ASSUME MaxCallsAssumption == MaxCalls \in Nat

CallIds == 1..MaxCalls

VARIABLES
  \* --- the facade, on the main thread
  keepAlive,    \* #keepAlive: the option load() was given
  unstoppable,  \* load() was given a WorkerLike whose terminate() may fail
  state,        \* load() in progress, then #state
  nextId,       \* #nextId
  pending,      \* the keys of #pending
  outcome,      \* outcome[id]: what the caller's promise was settled with
  settles,      \* settles[id]: how often it was settled (history)
  closing,      \* how far #doClose has come
  exitHook,     \* the process 'exit' hook is registered
  \* --- the worker's handle as the host's event loop sees it
  ref,          \* the handle is ref'd: it holds the loop open
  terminating,  \* terminate() has been called
  exitSeen,     \* the 'exit' event has been emitted
  errorEvent,   \* an 'error' event waits to be emitted
  host,         \* the host process: "running", or "drained" when its loop ended
  \* --- the worker thread
  worker,       \* "booting", "serving", "initFailed" or "exited"
  inNative,     \* the thread is inside a function of the native library
  toWorker,     \* messages posted by the facade, oldest first; while the
                \* thread is inNative the oldest is the one it is handling
  fromWorker    \* messages posted by the worker, oldest first

facadeVars == <<keepAlive, unstoppable, state, nextId, pending, outcome, settles, closing, exitHook>>
handleVars == <<ref, terminating, exitSeen, errorEvent, host>>
workerVars == <<worker, inNative, toWorker, fromWorker>>
vars == <<facadeVars, handleVars, workerVars>>

ToWorkerMessage   == [type : {"init", "shutdown"}, id : {0}]
                       \cup [type : {"call"}, id : CallIds]
FromWorkerMessage == [type : {"ready", "init-error", "shutdown-ack"}, id : {0},
                      answer : {"none"}]
                       \cup [type : {"result"}, id : CallIds,
                             answer : {"value", "error"}]

To(type, id)       == [type |-> type, id |-> id]
From(type, id, a)  == [type |-> type, id |-> id, answer |-> a]

TypeOK ==
  /\ keepAlive \in BOOLEAN
  /\ unstoppable \in BOOLEAN
  /\ state \in {"loading", "loadFailing", "loadFailed", "open", "closing", "closed"}
  /\ nextId \in 1..(MaxCalls + 1)
  /\ pending \in SUBSET CallIds
  /\ outcome \in [CallIds -> {"none", "value", "error"}]
  /\ settles \in [CallIds -> Nat]
  /\ closing \in {"no", "racing", "terminating", "finishing", "done"}
  /\ exitHook \in BOOLEAN
  /\ ref \in BOOLEAN
  /\ terminating \in BOOLEAN
  /\ exitSeen \in BOOLEAN
  /\ errorEvent \in BOOLEAN
  /\ host \in {"running", "drained"}
  /\ worker \in {"booting", "serving", "initFailed", "exited"}
  /\ inNative \in BOOLEAN
  /\ toWorker \in Seq(ToWorkerMessage)
  /\ fromWorker \in Seq(FromWorkerMessage)

\* load() has created the worker (a new worker is ref'd) and posted 'init'.
Init ==
  /\ keepAlive \in BOOLEAN
  /\ unstoppable \in BOOLEAN
  /\ state = "loading"
  /\ nextId = 1
  /\ pending = {}
  /\ outcome = [c \in CallIds |-> "none"]
  /\ settles = [c \in CallIds |-> 0]
  /\ closing = "no"
  /\ exitHook = FALSE
  /\ ref = TRUE
  /\ terminating = FALSE
  /\ exitSeen = FALSE
  /\ errorEvent = FALSE
  /\ host = "running"
  /\ worker = "booting"
  /\ inNative = FALSE
  /\ toWorker = <<To("init", 0)>>
  /\ fromWorker = <<>>

-----------------------------------------------------------------------------
(* Facade helpers.                                                         *)

\* worker.unref() / worker.ref(), skipped for a keepAlive engine.
Unref == ref' = (keepAlive /\ ref)
Ref   == ref' = (~keepAlive \/ ref)

\* terminate() refs the handle itself, so that the loop waits for the exit.
Terminate == /\ terminating' = TRUE
             /\ ref' = TRUE

Settle(ids, o) ==
  /\ outcome' = [c \in CallIds |-> IF c \in ids THEN o ELSE outcome[c]]
  /\ settles' = [c \in CallIds |-> IF c \in ids THEN settles[c] + 1 ELSE settles[c]]

RejectAllPending ==
  /\ Settle(pending, "error")
  /\ pending' = {}
  /\ IF pending # {} THEN Unref ELSE UNCHANGED ref

MessageArrives == host = "running" /\ ~exitSeen /\ fromWorker # <<>>
TakeMessage    == fromWorker' = Tail(fromWorker)

\* 'exit' comes after everything the worker posted has been delivered.
ExitArrives == /\ host = "running"
               /\ worker = "exited"
               /\ ~exitSeen
               /\ fromWorker = <<>>
               /\ ~errorEvent

ErrorArrives == host = "running" /\ errorEvent

-----------------------------------------------------------------------------
(* load()                                                                  *)

LoadReady ==
  /\ state = "loading"
  /\ MessageArrives
  /\ Head(fromWorker).type = "ready"
  /\ TakeMessage
  /\ state' = "open"
  /\ exitHook' = TRUE
  /\ Unref
  /\ UNCHANGED <<keepAlive, unstoppable, nextId, pending, outcome, settles, closing,
                 terminating, exitSeen, errorEvent, host, worker, inNative, toWorker>>

\* Bug: load() throws without terminating the worker.
BugLoadInitErrorLeaks ==
  /\ state = "loading"
  /\ MessageArrives
  /\ Head(fromWorker).type = "init-error"
  /\ TakeMessage
  /\ state' = "loadFailed"
  /\ UNCHANGED <<keepAlive, unstoppable, nextId, pending, outcome, settles, closing, exitHook,
                 handleVars, worker, inNative, toWorker>>

LoadInitError ==
  /\ state = "loading"
  /\ MessageArrives
  /\ Head(fromWorker).type = "init-error"
  /\ TakeMessage
  /\ state' = "loadFailing"
  /\ Terminate
  /\ UNCHANGED <<keepAlive, unstoppable, nextId, pending, outcome, settles, closing, exitHook,
                 exitSeen, errorEvent, host, worker, inNative, toWorker>>

LoadWorkerError ==
  /\ state = "loading"
  /\ ErrorArrives
  /\ errorEvent' = FALSE
  /\ state' = "loadFailing"
  /\ Terminate
  /\ UNCHANGED <<keepAlive, unstoppable, nextId, pending, outcome, settles, closing, exitHook,
                 exitSeen, host, workerVars>>

LoadWorkerExit ==
  /\ state = "loading"
  /\ ExitArrives
  /\ exitSeen' = TRUE
  /\ state' = "loadFailing"
  /\ Terminate
  /\ UNCHANGED <<keepAlive, unstoppable, nextId, pending, outcome, settles, closing, exitHook,
                 errorEvent, host, workerVars>>

\* terminate() settled, either way: load() throws.
LoadThrows ==
  /\ host = "running"
  /\ state = "loadFailing"
  /\ exitSeen \/ unstoppable
  /\ state' = "loadFailed"
  /\ UNCHANGED <<keepAlive, unstoppable, nextId, pending, outcome, settles, closing, exitHook,
                 handleVars, workerVars>>

-----------------------------------------------------------------------------
(* #call()                                                                 *)

\* Bug: a call in flight does not ref the worker (the code before #70).
BugCallWithoutRef ==
  /\ host = "running"
  /\ state = "open"
  /\ nextId <= MaxCalls
  /\ nextId' = nextId + 1
  /\ pending' = pending \cup {nextId}
  /\ toWorker' = Append(toWorker, To("call", nextId))
  /\ UNCHANGED <<keepAlive, unstoppable, state, outcome, settles, closing, exitHook,
                 handleVars, worker, inNative, fromWorker>>

Call ==
  /\ host = "running"
  /\ state = "open"
  /\ nextId <= MaxCalls
  /\ nextId' = nextId + 1
  /\ IF pending = {} THEN Ref ELSE UNCHANGED ref
  /\ pending' = pending \cup {nextId}
  /\ toWorker' = Append(toWorker, To("call", nextId))
  /\ UNCHANGED <<keepAlive, unstoppable, state, outcome, settles, closing, exitHook,
                 terminating, exitSeen, errorEvent, host, worker, inNative, fromWorker>>

\* Bug: the ref taken for a call that was never posted is not given back.
BugCallPostThrowsKeepsRef ==
  /\ host = "running"
  /\ state = "open"
  /\ nextId <= MaxCalls
  /\ nextId' = nextId + 1
  /\ Ref
  /\ Settle({nextId}, "error")
  /\ UNCHANGED <<keepAlive, unstoppable, state, pending, closing, exitHook,
                 terminating, exitSeen, errorEvent, host, workerVars>>

\* postMessage threw (an argument that cannot be cloned): the bookkeeping is
\* undone in the same turn and the caller's promise rejects.
CallPostThrows ==
  /\ host = "running"
  /\ state = "open"
  /\ nextId <= MaxCalls
  /\ nextId' = nextId + 1
  /\ IF pending = {} THEN Unref ELSE UNCHANGED ref
  /\ Settle({nextId}, "error")
  /\ UNCHANGED <<keepAlive, unstoppable, state, pending, closing, exitHook,
                 terminating, exitSeen, errorEvent, host, workerVars>>

-----------------------------------------------------------------------------
(* The listeners the constructor attached: 'message', 'error', 'exit'.     *)

\* Bug: an answer is not looked up in #pending before it is delivered.
BugOnResultUnknown ==
  /\ state \notin {"loading", "loadFailing", "loadFailed"}
  /\ MessageArrives
  /\ Head(fromWorker).type = "result"
  /\ pending' = pending \ {Head(fromWorker).id}
  /\ Settle({Head(fromWorker).id}, Head(fromWorker).answer)
  /\ TakeMessage
  /\ UNCHANGED <<keepAlive, unstoppable, state, nextId, closing, exitHook,
                 handleVars, worker, inNative, toWorker>>

OnResult ==
  /\ state \notin {"loading", "loadFailing", "loadFailed"}
  /\ MessageArrives
  /\ LET m == Head(fromWorker) IN
       /\ m.type = "result"
       /\ m.id \in pending
       /\ pending' = pending \ {m.id}
       /\ IF pending = {m.id} THEN Unref ELSE UNCHANGED ref
       /\ Settle({m.id}, m.answer)
  /\ TakeMessage
  /\ UNCHANGED <<keepAlive, unstoppable, state, nextId, closing, exitHook,
                 terminating, exitSeen, errorEvent, host, worker, inNative, toWorker>>

\* A message of another type, a late answer to a call already rejected, or
\* anything at all once load() has taken its listeners off.
OnIgnoredMessage ==
  /\ state # "loading"
  /\ MessageArrives
  /\ \/ state \in {"loadFailing", "loadFailed"}
     \/ Head(fromWorker).type # "result"
     \/ Head(fromWorker).id \notin pending
  /\ TakeMessage
  /\ UNCHANGED <<facadeVars, handleVars, worker, inNative, toWorker>>

OnWorkerError ==
  /\ state \in {"open", "closing"}
  /\ ErrorArrives
  /\ errorEvent' = FALSE
  /\ state' = "closed"
  /\ RejectAllPending
  /\ exitHook' = FALSE
  /\ UNCHANGED <<keepAlive, unstoppable, nextId, closing, terminating, exitSeen, host, workerVars>>

\* 'error' after close() or a crash is moot.
OnMootError ==
  /\ state = "closed"
  /\ ErrorArrives
  /\ errorEvent' = FALSE
  /\ UNCHANGED <<facadeVars, ref, terminating, exitSeen, host, workerVars>>

\* Bug: an exit closes the engine and forgets the calls in flight.
BugOnUnexpectedExitForgets ==
  /\ state = "open"
  /\ ExitArrives
  /\ exitSeen' = TRUE
  /\ state' = "closed"
  /\ exitHook' = FALSE
  /\ UNCHANGED <<keepAlive, unstoppable, nextId, pending, outcome, settles, closing,
                 ref, terminating, errorEvent, host, workerVars>>

OnUnexpectedExit ==
  /\ state = "open"
  /\ ExitArrives
  /\ exitSeen' = TRUE
  /\ state' = "closed"
  /\ RejectAllPending
  /\ exitHook' = FALSE
  /\ UNCHANGED <<keepAlive, unstoppable, nextId, closing, terminating, errorEvent, host, workerVars>>

\* The exit close() waits for (its own listener wins the race), or the exit of
\* a worker nobody waits for any more.
OnExpectedExit ==
  /\ state \notin {"loading", "open"}
  /\ ExitArrives
  /\ exitSeen' = TRUE
  /\ closing' = IF closing = "racing" THEN "finishing" ELSE closing
  /\ UNCHANGED <<keepAlive, unstoppable, state, nextId, pending, outcome, settles, exitHook,
                 ref, terminating, errorEvent, host, workerVars>>

-----------------------------------------------------------------------------
(* close() and #doClose()                                                  *)

\* Bug: close() lets the calls in flight run to their answers.
BugCloseKeepsCalls ==
  /\ host = "running"
  /\ state = "open"
  /\ state' = "closing"
  /\ closing' = "racing"
  /\ toWorker' = Append(toWorker, To("shutdown", 0))
  /\ UNCHANGED <<keepAlive, unstoppable, nextId, pending, outcome, settles, exitHook,
                 handleVars, worker, inNative, fromWorker>>

\* The first close() of an open engine; a later one returns the same promise,
\* and one on a closed engine resolves at once.
Close ==
  /\ host = "running"
  /\ state = "open"
  /\ state' = "closing"
  /\ RejectAllPending
  /\ closing' = "racing"
  /\ toWorker' = Append(toWorker, To("shutdown", 0))
  /\ UNCHANGED <<keepAlive, unstoppable, nextId, exitHook, terminating, exitSeen, errorEvent, host,
                 worker, inNative, fromWorker>>

\* Bug: close() waits for the exit without a timeout.
BugNoCloseTimeout == FALSE

\* SHUTDOWN_TIMEOUT_MS went by without an exit.
CloseTimesOut ==
  /\ host = "running"
  /\ closing = "racing"
  /\ closing' = "terminating"
  /\ Terminate
  /\ UNCHANGED <<keepAlive, unstoppable, state, nextId, pending, outcome, settles, exitHook,
                 exitSeen, errorEvent, host, workerVars>>

CloseTerminated ==
  /\ host = "running"
  /\ closing = "terminating"
  /\ exitSeen \/ unstoppable
  /\ closing' = "finishing"
  /\ UNCHANGED <<keepAlive, unstoppable, state, nextId, pending, outcome, settles, exitHook,
                 handleVars, workerVars>>

CloseFinishes ==
  /\ host = "running"
  /\ closing = "finishing"
  /\ closing' = "done"
  /\ state' = "closed"
  /\ exitHook' = FALSE
  /\ UNCHANGED <<keepAlive, unstoppable, nextId, pending, outcome, settles, handleVars, workerVars>>

-----------------------------------------------------------------------------
(* The host process                                                        *)

\* What keeps Node's event loop alive on this engine's account: the ref'd
\* handle of a worker that has not exited, the shutdown timer, a microtask.
LoopHeld == \/ ref /\ ~exitSeen
            \/ closing \in {"racing", "finishing"}
            \/ state = "loadFailing" /\ exitSeen
            \/ closing = "terminating" /\ exitSeen

\* With nothing to hold it the loop ends and the process exits: the 'exit'
\* hook posts a last 'shutdown' and the worker dies with the process.
LoopDrains ==
  /\ host = "running"
  /\ ~LoopHeld
  /\ host' = "drained"
  /\ worker' = "exited"
  /\ inNative' = FALSE
  /\ toWorker' = IF exitHook THEN Append(toWorker, To("shutdown", 0)) ELSE toWorker
  /\ UNCHANGED <<facadeVars, ref, terminating, exitSeen, errorEvent, fromWorker>>

-----------------------------------------------------------------------------
(* The worker thread                                                       *)

\* The thread takes the oldest message and enters the native library with it
\* (loading it, rift_start, the function of a call, rift_stop). From here on
\* nothing can interrupt it: these calls block, and terminate() can only stop
\* JavaScript. A thread being terminated takes no further message.
WorkerEnters ==
  /\ worker # "exited"
  /\ ~inNative
  /\ ~terminating
  /\ toWorker # <<>>
  /\ inNative' = TRUE
  /\ UNCHANGED <<facadeVars, handleVars, worker, toWorker, fromWorker>>

\* The native function returns, and the handler runs to its end.
WorkerHandles(type) ==
  /\ inNative
  /\ worker # "exited"
  /\ toWorker # <<>>
  /\ Head(toWorker).type = type
  /\ inNative' = FALSE
  /\ toWorker' = Tail(toWorker)
  /\ UNCHANGED <<facadeVars, ref, terminating, exitSeen, errorEvent, host>>

\* The library is loaded and rift_start returns a handle, or either fails.
WorkerInit ==
  /\ WorkerHandles("init")
  /\ \/ /\ worker' = "serving"
        /\ fromWorker' = Append(fromWorker, From("ready", 0, "none"))
     \/ /\ worker' = "initFailed"
        /\ fromWorker' = Append(fromWorker, From("init-error", 0, "none"))

\* A call runs to completion and its one answer is posted; without a native
\* handle the answer is an error.
WorkerCall ==
  /\ WorkerHandles("call")
  /\ \E answer \in {"value", "error"} :
       /\ answer = "value" => worker = "serving"
       /\ fromWorker' = Append(fromWorker, From("result", Head(toWorker).id, answer))
  /\ UNCHANGED worker

\* rift_stop, 'shutdown-ack', process.exit(0).
WorkerShutdown ==
  /\ WorkerHandles("shutdown")
  /\ worker' = "exited"
  /\ fromWorker' = Append(fromWorker, From("shutdown-ack", 0, "none"))

\* The native function returns into a thread that terminate() has stopped: the
\* rest of the handler does not run.
WorkerCutShort ==
  /\ inNative
  /\ terminating
  /\ inNative' = FALSE
  /\ worker' = "exited"
  /\ UNCHANGED <<facadeVars, handleVars, toWorker, fromWorker>>

\* An uncaught throw in the worker.
WorkerCrashes ==
  /\ host = "running"
  /\ worker \in {"booting", "serving"}
  /\ worker' = "exited"
  /\ inNative' = FALSE
  /\ errorEvent' = TRUE
  /\ UNCHANGED <<facadeVars, ref, terminating, exitSeen, host, toWorker, fromWorker>>

\* The thread ends without an error being reported.
WorkerQuits ==
  /\ host = "running"
  /\ worker \in {"booting", "serving"}
  /\ worker' = "exited"
  /\ inNative' = FALSE
  /\ UNCHANGED <<facadeVars, handleVars, toWorker, fromWorker>>

\* terminate() takes effect, on a thread that is not inside native code.
WorkerTerminated ==
  /\ host = "running"
  /\ terminating
  /\ ~inNative
  /\ worker # "exited"
  /\ worker' = "exited"
  /\ UNCHANGED <<facadeVars, handleVars, inNative, toWorker, fromWorker>>

-----------------------------------------------------------------------------

\* A run that is over: the process has ended, or the worker is gone and the
\* facade has nothing left to do.
Over == /\ \/ host = "drained"
           \/ /\ state \in {"loadFailed", "closed"}
              /\ closing \in {"no", "done"}
              /\ exitSeen \/ unstoppable
        /\ UNCHANGED vars

LoadStep   == LoadReady \/ LoadInitError \/ LoadWorkerError \/ LoadWorkerExit \/ LoadThrows
EventStep  == OnResult \/ OnIgnoredMessage \/ OnWorkerError \/ OnMootError
                \/ OnUnexpectedExit \/ OnExpectedExit
CloseStep  == CloseTimesOut \/ CloseTerminated \/ CloseFinishes

\* The native function the thread is in returns.
NativeReturns == WorkerInit \/ WorkerCall \/ WorkerShutdown \/ WorkerCutShort

WorkerStep == WorkerEnters \/ NativeReturns

Next == \/ LoadStep
        \/ Call \/ CallPostThrows
        \/ EventStep
        \/ Close
        \/ CloseStep
        \/ LoopDrains
        \/ WorkerStep
        \/ WorkerCrashes \/ WorkerQuits \/ WorkerTerminated
        \/ Over

Spec == Init /\ [][Next]_vars

\* Node keeps emitting events and firing timers while the process runs, and a
\* terminate() that does not fail ends a thread that is running JavaScript or
\* idle. Nothing is assumed of a thread inside native code: terminate() does not
\* reach it, and nothing in the code makes a native function return.
FairSpec == Spec /\ WF_vars(LoadStep)
                 /\ WF_vars(EventStep)
                 /\ WF_vars(CloseStep)
                 /\ WF_vars(~unstoppable /\ WorkerTerminated)

-----------------------------------------------------------------------------
(* Safety                                                                  *)

\* #pending is only ever populated while the engine is open: close(), a crash
\* and an exit all leave nobody waiting.
NobodyWaitsOnADeadEngine == pending # {} => state = "open"

\* Every call made so far is either in #pending and unsettled, or settled
\* exactly once (#onMessage, #rejectAllPending and the postMessage catch never
\* meet on the same call).
SettledOnceOrPending ==
  \A c \in CallIds :
    /\ settles[c] = (IF c < nextId /\ c \notin pending THEN 1 ELSE 0)
    /\ (outcome[c] = "none") <=> (settles[c] = 0)

\* The handle of an open engine is ref'd exactly while a call is in flight (or
\* always, under keepAlive): neither an idle engine that hangs the process nor
\* a call dropped by the loop draining (native.ts, #call and #onMessage).
RefTracksInFlight == state = "open" => (ref <=> keepAlive \/ pending # {})

\* The process never ends by itself while somebody awaits a call, a load() or
\* a close().
NoDrainUnderAnAwait ==
  host = "drained" => /\ pending = {}
                      /\ state \notin {"loading", "loadFailing"}
                      /\ closing \in {"no", "done"}

\* The process 'exit' hook is there exactly while there may be a native handle
\* left to stop: never before load() succeeds, never after the engine closed.
ExitHookWhileLive == exitHook <=> state \in {"open", "closing"}

\* A failed load never leaks a thread, and neither does a close() whose
\* terminate() did not fail: by the time either settles the worker has exited.
NoThreadLeak ==
  /\ state = "loadFailed" /\ ~unstoppable => worker = "exited"
  /\ closing = "done" /\ ~unstoppable => worker = "exited"

(* Liveness                                                                *)

\* load() and every call settle if the worker keeps taking its messages and every
\* native function it enters returns. A crash, an exit or a close() settles them
\* too.
EveryCallSettles ==
  WF_vars(WorkerStep) =>
    /\ state \in {"loading", "loadFailing"} ~> state \notin {"loading", "loadFailing"}
    /\ \A c \in CallIds : c \in pending ~> c \notin pending

\* close() settles provided no native call lasts for ever: it needs neither the
\* worker to get to the 'shutdown' message nor a clean exit, but #doClose awaits
\* terminate() (native.ts, after SHUTDOWN_TIMEOUT_MS), which does not settle
\* while the thread is inside native code.
CloseCompletes == []<>~inNative => (closing = "racing" ~> closing = "done")

-----------------------------------------------------------------------------
(* What the transport promises its callers.                                *)

Gate == CASE state = "loading" -> "starting"
          [] state = "open"    -> "up"
          [] OTHER             -> "down"

Status == [c \in CallIds |->
             IF c \in pending THEN "inflight"
             ELSE IF outcome[c] = "none" THEN "idle" ELSE outcome[c]]

Promise == INSTANCE SettleOnce WITH gate <- Gate, status <- Status

\* Every behaviour of the facade, its worker and their channels is one of
\* SettleOnce: no answer after the engine went down, none twice, none changed.
ImplementsSettleOnce == Promise!Spec
=============================================================================
