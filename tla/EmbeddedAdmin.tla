--------------------------- MODULE EmbeddedAdmin ---------------------------
(***************************************************************************)
(* EmbeddedAdmin (rift-embedded/src/admin.ts): the AdminApi of the         *)
(* embedded transport, and createEmbeddedEngine (create.ts) that builds    *)
(* it.  Native calls are suspension points: an operation reads the local   *)
(* registry when it is called, posts one request, and goes on when its     *)
(* answer is delivered, whatever happened to the registry meanwhile.       *)
(*                                                                         *)
(* The transport underneath is NativeEngine seen from above: one worker    *)
(* serves the requests in the order they were posted and answers them in   *)
(* that order.  A request is a write of some ports (a create, a delete, a  *)
(* replace of the stubs, ...), a read of some ports, or the start of the   *)
(* admin plane.  The order of an imposter's stubs is abstracted: a stub    *)
(* list is the set of its stubs.                                           *)
(***************************************************************************)
EXTENDS Naturals, Sequences, FiniteSets

CONSTANTS
  Clients,   \* concurrent callers, each awaiting at most one operation
  Ports,
  Stubs,
  NoStub     \* not a stub

ASSUME NoStubAssumption == NoStub \notin Stubs

\* No imposter on a port, as against an imposter without stubs.
Absent == {NoStub}

Configs == [Ports -> (SUBSET Stubs) \cup {Absent}]
Nothing == [p \in Ports |-> Absent]

VARIABLES
  \* --- EmbeddedAdmin, on the main thread
  boot,        \* how far createEmbeddedEngine has come
  registry,    \* #registry: port -> the stubs of its imposter
  call,        \* call[c]: the operation client c awaits
  attached,    \* clients whose captured Imposter object is still in #registry
  plane,       \* #planePromise
  closing,     \* how far close() has come
  \* --- the transport and the engine
  transport,   \* NativeEngine.#state
  queue,       \* callers of the requests posted and not yet served
  answers,     \* answers posted and not yet delivered
  native,      \* the imposters the engine really has
  \* --- history
  torn,        \* ports whose last write reached an Imposter object no longer in
               \* #registry
  misreported  \* applyConfig once reported an imposter without its port

adminVars  == <<boot, registry, call, attached, plane, closing>>
engineVars == <<transport, queue, answers, native>>
history    == <<torn, misreported>>
vars       == <<adminVars, engineVars, history>>

PlaneStart == "planeStart"          \* the one caller that is not a client
Callers    == Clients \cup {PlaneStart}

ASSUME ClientsAssumption == PlaneStart \notin Clients

WriteOps  == {"create", "delete", "deleteAll", "apply", "addStub", "editStubs"}
StubOps   == {"addStub", "editStubs"}
NativeOps == WriteOps \cup {"read", "serveAdmin"}
BridgeOps == {"bridge", "bridgeBody"}
Ops       == NativeOps \cup BridgeOps \cup {"none"}

Calls == [op : Ops, ports : SUBSET Ports, config : Configs]
Idle  == [op |-> "none", ports |-> {}, config |-> Nothing]
Serve == [op |-> "serveAdmin", ports |-> {}, config |-> Nothing]

\* What a caller asked for.
Request(c) == IF c = PlaneStart THEN Serve ELSE call[c]

Answers == [caller  : Callers,
            outcome : {"ok", "error", "partial", "portless"},
            config  : Configs]

TypeOK ==
  /\ boot \in {"preflight", "trusting", "retracting", "refused", "serving"}
  /\ registry \in Configs
  /\ call \in [Clients -> Calls]
  /\ attached \in SUBSET Clients
  /\ plane \in {"none", "starting", "up", "failed"}
  /\ closing \in {"no", "awaitPlane", "native", "done"}
  /\ transport \in {"open", "closed"}
  /\ queue \in Seq(Callers)
  /\ answers \in Seq(Answers)
  /\ native \in Configs
  /\ torn \in SUBSET Ports
  /\ misreported \in BOOLEAN

\* loadNativeEngine has resolved; the engine has no imposter yet.
Init ==
  /\ boot = "preflight"
  /\ registry = Nothing
  /\ call = [c \in Clients |-> Idle]
  /\ attached = {}
  /\ plane = "none"
  /\ closing = "no"
  /\ transport = "open"
  /\ queue = <<>>
  /\ answers = <<>>
  /\ native = Nothing
  /\ torn = {}
  /\ misreported = FALSE

-----------------------------------------------------------------------------
(* Helpers.                                                                *)

Has(p)        == registry[p] # Absent
At(p, stubs)  == [Nothing EXCEPT ![p] = stubs]
Write(ports, config, m) == [p \in Ports |-> IF p \in ports THEN config[p] ELSE m[p]]

\* Posts a native request and suspends.  On a closed transport the call rejects
\* at once, and nothing changes.
Post(c, op, ports, config) ==
  /\ transport = "open"
  /\ call' = [call EXCEPT ![c] = [op |-> op, ports |-> ports, config |-> config]]
  /\ queue' = Append(queue, c)
  /\ attached' = IF op \in StubOps THEN attached \cup {c} ELSE attached
  /\ UNCHANGED <<boot, registry, plane, closing, transport, answers, native, history>>

Ready(c) == boot = "serving" /\ call[c].op = "none"

\* Bug: #planePromise is assigned once the plane is up.
BugEnsurePlaneLate ==
  IF plane # "none" THEN UNCHANGED <<plane, queue>>
  ELSE /\ queue' = IF transport = "open" THEN Append(queue, PlaneStart) ELSE queue
       /\ UNCHANGED plane

\* #ensurePlane: the promise is assigned before anything is awaited.
EnsurePlane ==
  IF plane # "none" THEN UNCHANGED <<plane, queue>>
  ELSE IF transport = "open"
       THEN plane' = "starting" /\ queue' = Append(queue, PlaneStart)
       ELSE plane' = "failed" /\ UNCHANGED queue

-----------------------------------------------------------------------------
(* createEmbeddedEngine.                                                   *)

\* The version, feature and upstream-trust gates; a refusal throws.
Preflight ==
  /\ boot = "preflight"
  /\ \/ boot' = "serving" /\ UNCHANGED <<plane, queue>>
     \/ boot' = "trusting" /\ EnsurePlane
     \/ boot' = "refused" /\ UNCHANGED <<plane, queue>>
  /\ UNCHANGED <<registry, call, attached, closing,
                 transport, answers, native, history>>

\* With upstreamTrust the plane is started before the engine is handed out;
\* when that fails, admin.close() runs before the error is thrown.
EagerPlane ==
  /\ boot = "trusting"
  /\ \/ plane = "up" /\ boot' = "serving" /\ UNCHANGED closing
     \/ plane = "failed" /\ boot' = "retracting" /\ closing' = "awaitPlane"
  /\ UNCHANGED <<registry, call, attached, plane, engineVars, history>>

Retracted ==
  /\ boot = "retracting"
  /\ closing = "done"
  /\ boot' = "refused"
  /\ UNCHANGED <<registry, call, attached, plane, closing, engineVars, history>>

-----------------------------------------------------------------------------
(* The operations: what each does before its first await.  One that throws  *)
(* there (#requireImposter, #stubIndex) or is answered from the registry    *)
(* (getStub, a replayable projection) changes nothing.                      *)

\* A port the engine assigns itself is one of these, guessed at the call.
CreateImposter(c) ==
  /\ Ready(c)
  /\ \E p \in Ports, stubs \in SUBSET Stubs : Post(c, "create", {p}, At(p, stubs))

DeleteImposter(c) ==
  /\ Ready(c)
  /\ \E p \in Ports : Has(p) /\ Post(c, "delete", {p}, Nothing)

DeleteAllImposters(c) ==
  /\ Ready(c)
  /\ Post(c, "deleteAll", Ports, Nothing)

ReplaceImposters(c) ==
  /\ Ready(c)
  /\ \E config \in Configs : Post(c, "apply", Ports, config)

\* addStub: the stubs the registry has now, and one more.
AddStub(c) ==
  /\ Ready(c)
  /\ \E p \in Ports, s \in Stubs :
       Has(p) /\ Post(c, "addStub", {p}, At(p, registry[p] \cup {s}))

\* replaceStubs with any list; updateStub and deleteStub with one made from
\* the stubs the registry has now.
EditStubs(c) ==
  /\ Ready(c)
  /\ \E p \in Ports, stubs \in SUBSET Stubs :
       Has(p) /\ Post(c, "editStubs", {p}, At(p, stubs))

\* getImposter, stubWarnings: one port the registry has; listImposters: every
\* port it has, in requests posted in one turn that nothing comes between.
ReadImposters(c) ==
  /\ Ready(c)
  /\ \E ports \in {{p} : p \in {q \in Ports : Has(q)}} \cup {{p \in Ports : Has(p)}} :
       ports # {} /\ Post(c, "read", ports, Nothing)

ReadRequests(c) ==
  /\ Ready(c)
  /\ \E p \in Ports : Has(p) /\ Post(c, "read", {p}, Nothing)

\* The operations on spaces and flow state do not ask the registry.
ScopedToFlow(c) ==
  /\ Ready(c)
  /\ \E p \in Ports : Post(c, "read", {p}, Nothing)

\* An operation without an FFI symbol goes through the admin plane.
Bridge(c) ==
  /\ Ready(c)
  /\ call' = [call EXCEPT ![c] = [Idle EXCEPT !.op = "bridge"]]
  /\ EnsurePlane
  /\ UNCHANGED <<boot, registry, attached, closing,
                 transport, answers, native, history>>

\* The plane never came up, cannot be reached, or has not sent its headers when
\* the request's timer runs out.
BridgeFails(c) ==
  /\ call[c].op = "bridge"
  /\ plane \in {"up", "failed"}
  /\ call' = [call EXCEPT ![c] = Idle]
  /\ UNCHANGED <<boot, registry, attached, plane, closing, engineVars, history>>

\* The headers arrive: the timer is cleared, and the body is read without one.
BridgeHeaders(c) ==
  /\ call[c].op = "bridge"
  /\ plane = "up"
  /\ call' = [call EXCEPT ![c].op = "bridgeBody"]
  /\ UNCHANGED <<boot, registry, attached, plane, closing, engineVars, history>>

\* The body ends, or its connection breaks.
BridgeSettles(c) ==
  /\ call[c].op = "bridgeBody"
  /\ call' = [call EXCEPT ![c] = Idle]
  /\ UNCHANGED <<boot, registry, attached, plane, closing, engineVars, history>>

-----------------------------------------------------------------------------
(* The engine, behind the worker.                                          *)

Known(ports) == \A p \in ports : native[p] # Absent

\* May the engine serve request r with this outcome?
MayAnswer(r, outcome) ==
  CASE r.op \in {"read", "delete"} -> outcome = (IF Known(r.ports) THEN "ok" ELSE "error")
    [] r.op = "create"             -> \/ outcome = "error"
                                      \/ outcome = "ok" /\ \A p \in r.ports : ~Known({p})
    [] r.op \in StubOps            -> \/ outcome = "error"
                                      \/ outcome = "ok" /\ Known(r.ports)
    [] r.op = "deleteAll"          -> outcome = "ok"
    [] r.op = "apply"              -> TRUE
    [] OTHER                       -> outcome \in {"ok", "error"}

\* What a successful answer says was written: all of the request, or the
\* imposters of it that applyConfig did not list under failed.
Written(r, outcome) ==
  IF outcome = "partial"
  THEN {[p \in Ports |-> IF p \in failed THEN Absent ELSE r.config[p]] :
          failed \in SUBSET {p \in Ports : r.config[p] # Absent} \ {{}}}
  ELSE {r.config}

ServeRequest ==
  /\ transport = "open"
  /\ queue # <<>>
  /\ LET c == Head(queue)
         r == Request(c)
     IN \E outcome \in {"ok", "error", "partial", "portless"} :
          \E config \in Written(r, outcome) :
            /\ MayAnswer(r, outcome)
            /\ answers' = Append(answers, [caller |-> c, outcome |-> outcome, config |-> config])
            /\ native' = IF outcome # "error" /\ r.op \in WriteOps
                         THEN Write(r.ports, config, native) ELSE native
            /\ misreported' = (misreported \/ outcome = "portless")
  /\ queue' = Tail(queue)
  /\ UNCHANGED <<adminVars, transport, torn>>

-----------------------------------------------------------------------------
(* The continuations: what each operation does with its answer.            *)

Answered(op, outcomes) ==
  /\ answers # <<>>
  /\ Request(Head(answers).caller).op \in op
  /\ Head(answers).outcome \in outcomes

Resume(c) ==
  /\ call' = [call EXCEPT ![c] = Idle]
  /\ answers' = Tail(answers)
  /\ UNCHANGED <<boot, plane, closing, transport, queue, native, misreported>>

\* Bug: a partial report throws before the registry is reconciled.
BugThrowsBeforeReconciling ==
  /\ Answered(WriteOps \ StubOps, {"ok", "partial"})
  /\ LET a == Head(answers)
         r == call[a.caller]
     IN /\ Resume(a.caller)
        /\ registry' = IF a.outcome = "ok" THEN Write(r.ports, a.config, registry) ELSE registry
        /\ attached' = {c \in attached : call[c].ports \cap r.ports = {}}
        /\ torn' = torn \ r.ports

\* createImposter, deleteImposter and the two that swap every imposter put new
\* objects in the registry; whoever captured an old one keeps it.
RegistryWritten ==
  /\ Answered(WriteOps \ StubOps, {"ok", "partial"})
  /\ LET a == Head(answers)
         r == call[a.caller]
     IN /\ Resume(a.caller)
        /\ registry' = Write(r.ports, a.config, registry)
        /\ attached' = {c \in attached : call[c].ports \cap r.ports = {}}
        /\ torn' = torn \ r.ports

\* imp.stubs = stubs, on the Imposter object captured at the call.
StubsWritten ==
  /\ Answered(StubOps, {"ok"})
  /\ LET a == Head(answers)
         r == call[a.caller]
     IN /\ Resume(a.caller)
        /\ IF a.caller \in attached
           THEN /\ registry' = Write(r.ports, a.config, registry)
                /\ torn' = torn \ r.ports
           ELSE torn' = torn \cup r.ports /\ UNCHANGED registry
        /\ attached' = attached \ {a.caller}

ReadDone ==
  /\ Answered({"read"}, {"ok"})
  /\ Resume(Head(answers).caller)
  /\ UNCHANGED <<registry, attached, torn>>

\* A failed call, or a report of applyConfig with an entry that has no port:
\* the registry stays as it is.
OperationFails ==
  /\ \/ Answered(NativeOps \ {"serveAdmin"}, {"error"})
     \/ Answered({"apply"}, {"portless"})
  /\ LET c == Head(answers).caller
     IN /\ Resume(c)
        /\ attached' = attached \ {c}
  /\ UNCHANGED <<registry, torn>>

\* #startPlane; an answer without an adminUrl is a failure too.
PlaneStarted ==
  /\ Answered({"serveAdmin"}, {"ok", "error"})
  /\ \/ Head(answers).outcome = "ok" /\ plane' = "up"
     \/ plane' = "failed"
  /\ answers' = Tail(answers)
  /\ UNCHANGED <<boot, registry, call, attached, closing,
                 transport, queue, native, history>>

-----------------------------------------------------------------------------
(* close()                                                                 *)

\* Bug: the calls in flight are not rejected.
BugCloseNativeForgets ==
  /\ closing' = "native"
  /\ transport' = "closed"
  /\ queue' = <<>>
  /\ answers' = <<>>
  /\ native' = Nothing
  /\ UNCHANGED <<boot, registry, call, attached, plane, history>>

\* NativeEngine.close() rejects every call in flight before anything else; the
\* engine goes down with its imposters.
CloseNative ==
  LET dropped == {c \in Clients : call[c].op \in NativeOps}
  IN /\ closing' = "native"
     /\ transport' = "closed"
     /\ call' = [c \in Clients |-> IF c \in dropped THEN Idle ELSE call[c]]
     /\ attached' = {}
     /\ plane' = IF plane = "starting" THEN "failed" ELSE plane
     /\ queue' = <<>>
     /\ answers' = <<>>
     /\ native' = Nothing
     /\ UNCHANGED <<boot, registry, history>>

\* A plane that is starting is awaited first.
Close ==
  /\ boot = "serving"
  /\ closing = "no"
  /\ \/ /\ plane = "starting"
        /\ closing' = "awaitPlane"
        /\ UNCHANGED <<boot, registry, call, attached, plane, engineVars, history>>
     \/ plane # "starting" /\ CloseNative

\* Bug: a plane that failed to start makes close() throw before native.close().
BugPlaneAwaitedUncaught ==
  /\ closing = "awaitPlane"
  /\ plane = "up"
  /\ CloseNative

PlaneAwaited ==
  /\ closing = "awaitPlane"
  /\ plane \in {"up", "failed"}
  /\ CloseNative

\* NativeEngine.close() settles (CloseCompletes of NativeEngine: unless a native
\* call lasts for ever).
CloseFinishes ==
  /\ closing = "native"
  /\ closing' = "done"
  /\ UNCHANGED <<boot, registry, call, attached, plane, engineVars, history>>

-----------------------------------------------------------------------------

Operation(c) == \/ CreateImposter(c) \/ DeleteImposter(c) \/ DeleteAllImposters(c)
                \/ ReplaceImposters(c) \/ AddStub(c) \/ EditStubs(c)
                \/ ReadImposters(c) \/ ReadRequests(c) \/ ScopedToFlow(c)
                \/ Bridge(c)

Deliver == RegistryWritten \/ StubsWritten \/ ReadDone \/ OperationFails \/ PlaneStarted

BridgeAnswers(c) == BridgeFails(c) \/ BridgeHeaders(c)
BridgeStep(c)    == BridgeAnswers(c) \/ BridgeSettles(c)

BootStep  == Preflight \/ EagerPlane \/ Retracted
CloseStep == PlaneAwaited \/ CloseFinishes

\* Nothing is left to do: the engine was refused or closed, nobody waits.
Over == /\ boot = "refused" \/ closing = "done"
        /\ \A c \in Clients : call[c].op = "none"
        /\ UNCHANGED vars

Next == \/ BootStep
        \/ \E c \in Clients : Operation(c) \/ BridgeStep(c)
        \/ ServeRequest
        \/ Deliver
        \/ Close
        \/ CloseStep
        \/ Over

Spec == Init /\ [][Next]_vars

\* The host's event loop turns, and a request to the plane has its headers or is
\* aborted by its timer. Nothing is assumed of the worker, which may be stuck in
\* native code (and native.close() with it), nor of the end of a body, which is
\* read after the timer has been cleared.
FairSpec == /\ Spec
            /\ WF_vars(BootStep)
            /\ WF_vars(Deliver)
            /\ WF_vars(PlaneAwaited)
            /\ \A c \in Clients : WF_vars(BridgeAnswers(c))

-----------------------------------------------------------------------------
(* Safety                                                                  *)

\* Answer i is the last one undelivered that writes port p.
Writes(i, p) == /\ answers[i].outcome \in {"ok", "partial"}
                /\ Request(answers[i].caller).op \in WriteOps
                /\ p \in Request(answers[i].caller).ports

LastWrite(i, p) == /\ i \in DOMAIN answers
                   /\ Writes(i, p)
                   /\ \A j \in DOMAIN answers : j > i => ~Writes(j, p)

\* What the engine has on port p is what the last undelivered answer about p
\* says, or, when there is none, what the registry says: it knows an imposter
\* exactly when the engine has one, and its stubs, unless the last edit of them
\* reached an Imposter object that a concurrent operation had replaced.
RegistryCatchesUp ==
  transport = "open" /\ ~misreported =>
    \A p \in Ports :
      LET agrees(stubs) == /\ native[p] = Absent <=> stubs = Absent
                           /\ p \notin torn => native[p] = stubs
      IN IF \E i \in DOMAIN answers : LastWrite(i, p)
         THEN \A i \in DOMAIN answers : LastWrite(i, p) => agrees(answers[i].config[p])
         ELSE agrees(registry[p])

\* Who waits for an answer of the engine.
Waiting == {c \in Clients : call[c].op \in NativeOps}
             \cup (IF plane = "starting" THEN {PlaneStart} ELSE {})

\* Everyone who waits has exactly one request or answer on its way, and nothing
\* else is: in particular the plane is started at most once however many first
\* uses overlap, and close() leaves nobody waiting on a closed transport.
EveryWaitIsOnItsWay ==
  \A c \in Callers :
    Cardinality({i \in DOMAIN queue : queue[i] = c})
      + Cardinality({i \in DOMAIN answers : answers[i].caller = c})
    = (IF c \in Waiting THEN 1 ELSE 0)

\* An embedded engine that is refused is not left running (create.ts): nobody
\* else has a handle to close it with.
RefusedEngineIsClosed == boot = "refused" => transport = "closed"

(* Liveness                                                                *)

\* While the worker serves its requests and native.close() settles, every
\* operation settles, except one that waits for the rest of a body of the admin
\* plane for ever (remote/client.ts: the timer is cleared at the headers); and so
\* does createEmbeddedEngine.
EveryOperationSettles ==
  WF_vars(ServeRequest) /\ WF_vars(CloseFinishes) =>
    /\ \A c \in Clients : \/ []<>(call[c].op = "none")
                          \/ <>[](call[c].op = "bridgeBody")
    /\ boot = "preflight" ~> boot \in {"serving", "refused"}

\* close() gets as far as closing the engine, whether the plane it waits for
\* comes up or not, while the worker serves its requests.
CloseReachesTheEngine ==
  WF_vars(ServeRequest) => (closing = "awaitPlane" ~> transport = "closed")

=============================================================================
