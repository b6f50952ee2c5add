----------------------------- MODULE Intercept -----------------------------
(***************************************************************************)
(* Engine.intercept() (rift-core/src/engine.ts) over its two backends: the *)
(* embedded one posts native calls to the worker (NativeCall), the remote  *)
(* one, which spawn shares, asks the engine over HTTP (RemoteClient).      *)
(* Several callers use one Engine; each calls intercept() once and then    *)
(* uses the handle once.                                                   *)
(***************************************************************************)
EXTENDS NativeCall, RemoteClient

CONSTANTS
  Transports,       \* of "embedded", "spawn", "remote"
  Options,          \* the options callers pass, besides none
  Uses              \* what they do with a handle

\* The methods of InterceptHandleImpl that go to the backend.
NativeFn == [addRule |-> "rift_intercept_add_rules", rules |-> "rift_intercept_list_rules",
             clearRules |-> "rift_intercept_clear_rules", caPem |-> "rift_intercept_ca_pem",
             exportTruststore |-> "rift_intercept_export_truststore"]
Route == [addRule |-> "POST rules", rules |-> "GET rules", clearRules |-> "DELETE rules",
          caPem |-> "GET ca.pem", exportTruststore |-> "GET truststore"]

NoOptions == [port |-> "unset", ca |-> "unset", auth |-> "unset"]

ASSUME InterceptAssumption ==
  /\ Transports \subseteq {"embedded", "spawn", "remote"}
  /\ Options \subseteq [port : {"unset", "own", "NaN"}, ca : {"unset", "pair", "lone"},
                        auth : {"unset", "user", "malformed"}]
  /\ Uses \subseteq DOMAIN NativeFn
  /\ Calls = [by : Callers, fn : {"rift_start_intercept"} \cup {NativeFn[u] : u \in Uses}]

VARIABLES
  setup,            \* the transport, whether it is wired for interception, and the engine's listener
  memo,             \* #interceptHandle
  call              \* what each caller is at

vars == <<setup, memo, call, nativeVars, clientVars>>

NoHandle == [port |-> "none"]
Ready    == [step |-> "ready"]

TypeOK ==
  /\ NativeTypeOK /\ ClientTypeOK
  /\ memo = NoHandle \/ memo.by \in Callers
  /\ \A c \in Callers : call[c].step \in {"ready", "starting", "asking", "resolved", "rejected", "using", "used"}

\* A listener that is up, one of an engine before GET /intercept, or none; the
\* embedded engine starts its own.
Init ==
  /\ NativeInit /\ ClientInit
  /\ setup \in [transport : Transports, wired : BOOLEAN, listener : {"up", "old", "down"}]
  /\ setup.transport = "embedded" => setup.listener = "down"
  /\ memo = NoHandle
  /\ call = [c \in Callers |-> Ready]

Rejected(c, error) ==
  call' = [call EXCEPT ![c] = [step |-> "rejected", given |-> @.given, error |-> error]]

\* The end of startInterceptWithBackend and of intercept(): every call that has
\* started writes the memo, the last one last.
Resolved(c, port) ==
  LET h == [by |-> c, port |-> port] IN
  /\ memo' = h
  /\ call' = [call EXCEPT ![c] = [step |-> "resolved", given |-> @.given, handle |-> h]]

\* validateInterceptOptions; stringifyJsonSafe refuses a port that is not a
\* number JSON has.
Invalid(o)     == o.ca = "lone" \/ o.auth = "malformed"
StartupOnly(o) == o.auth # "unset" \/ o.ca # "unset"

Asking(c, o, route) ==
  /\ call' = [call EXCEPT ![c] = [step |-> "asking", given |-> o, route |-> route]]
  /\ Send(c, route)
  /\ UNCHANGED <<clientClosed, nativeVars>>

\* #startIntercept as far as its first await.
StartIntercept(c, o) ==
  LET refuse(error) == /\ call' = [call EXCEPT ![c] = [step |-> "rejected", given |-> o, error |-> error]]
                       /\ UNCHANGED <<nativeVars, clientVars>>
  IN
  CASE Invalid(o) -> refuse("InvalidDefinition")
    [] setup.transport # "embedded" /\ StartupOnly(o) /\ ~Invalid(o) -> refuse("InterceptUnavailable")
    [] OTHER ->
         IF ~setup.wired THEN refuse("InterceptUnavailable")
         ELSE IF o.port = "NaN" THEN refuse("RiftError")
         ELSE IF setup.transport = "embedded"
         THEN /\ call' = [call EXCEPT ![c] = [step |-> "starting", given |-> o]]
              /\ PostCall([by |-> c, fn |-> "rift_start_intercept"])
              /\ UNCHANGED <<worker, lastError, strings, answers, clientVars>>
         ELSE Asking(c, o, IF setup.transport = "spawn" \/ o.port = "own"
                           THEN "GET rules" ELSE "GET intercept")

\* Bug: a handle is there, so it is returned, whatever the caller asked for.
BugIntercept(c, o) ==
  /\ call[c].step = "ready"
  /\ IF memo # NoHandle
     THEN /\ call' = [call EXCEPT ![c] = [step |-> "resolved", given |-> o, handle |-> memo]]
          /\ UNCHANGED <<nativeVars, clientVars>>
     ELSE StartIntercept(c, o)
  /\ UNCHANGED <<setup, memo>>

\* intercept(options).
Intercept(c, o) ==
  /\ call[c].step = "ready"
  /\ IF memo = NoHandle THEN StartIntercept(c, o)
     ELSE /\ call' = [call EXCEPT ![c] =
               IF o = NoOptions THEN [step |-> "resolved", given |-> o, handle |-> memo]
               ELSE [step |-> "rejected", given |-> o, error |-> "InterceptUnavailable"]]
          /\ UNCHANGED <<nativeVars, clientVars>>
  /\ UNCHANGED <<setup, memo>>

\* NativeEngine.startIntercept parses the answer, EmbeddedInterceptBackend looks
\* at its shape.
EmbeddedStarted(c, wellFormed) ==
  LET a == answers[[by |-> c, fn |-> "rift_start_intercept"]] IN
  /\ call[c].step = "starting" /\ a # NoAnswer
  /\ IF a.ok /\ wellFormed
     THEN Resolved(c, IF call[c].given.port = "own" THEN "own" ELSE "reported")
     ELSE Rejected(c, "RiftError") /\ UNCHANGED memo
  /\ UNCHANGED <<setup, nativeVars, clientVars>>

\* Bug: the shape of GET /intercept is not looked at.
BugAttached(c) ==
  LET r == request[c] IN
  /\ call[c].step = "asking" /\ r.step = "settled"
  /\ IF r.outcome = "ImposterNotFound" THEN Rejected(c, "InterceptUnavailable") /\ UNCHANGED memo
     ELSE IF r.outcome \in Errors THEN Rejected(c, r.outcome) /\ UNCHANGED memo
     ELSE IF call[c].route = "GET intercept"
     THEN Resolved(c, IF r.outcome = "json" THEN "reported" ELSE "undefined")
     ELSE Resolved(c, IF call[c].given.port = "own" THEN "own" ELSE "known")
  /\ UNCHANGED <<setup, nativeVars, clientVars>>

\* #startSpawnIntercept and #startRemoteIntercept after their request: interceptStatus
\* looks at the shape of its answer, the probe takes any answer for a listener.
Attached(c) ==
  LET r == request[c] IN
  /\ call[c].step = "asking" /\ r.step = "settled"
  /\ IF r.outcome = "ImposterNotFound" THEN Rejected(c, "InterceptUnavailable") /\ UNCHANGED memo
     ELSE IF r.outcome \in Errors THEN Rejected(c, r.outcome) /\ UNCHANGED memo
     ELSE IF call[c].route = "GET intercept"
     THEN IF r.outcome = "json" THEN Resolved(c, "reported") ELSE Rejected(c, "RiftError") /\ UNCHANGED memo
     ELSE Resolved(c, IF call[c].given.port = "own" THEN "own" ELSE "known")
  /\ UNCHANGED <<setup, nativeVars, clientVars>>

\* A rule that JSON cannot carry is refused before it is sent.
Unserializable(c) ==
  /\ call[c].step = "resolved"
  /\ call' = [call EXCEPT ![c].step = "used"]
  /\ UNCHANGED <<setup, memo, nativeVars, clientVars>>

\* addRule, rules, clearRules, caPem, exportTruststore.
Use(c, use) ==
  /\ call[c].step = "resolved"
  /\ call' = [call EXCEPT ![c] = [step |-> "using", given |-> @.given, handle |-> @.handle, use |-> use]]
  /\ IF setup.transport = "embedded"
     THEN /\ PostCall([by |-> c, fn |-> NativeFn[use]])
          /\ UNCHANGED <<worker, lastError, strings, answers, clientVars>>
     ELSE Send(c, Route[use]) /\ UNCHANGED <<clientClosed, nativeVars>>
  /\ UNCHANGED <<setup, memo>>

Used(c) ==
  /\ call[c].step = "using"
  /\ IF setup.transport = "embedded" THEN answers[[by |-> c, fn |-> NativeFn[call[c].use]]] # NoAnswer
                                     ELSE request[c].step = "settled"
  /\ call' = [call EXCEPT ![c].step = "used"]
  /\ UNCHANGED <<setup, memo, nativeVars, clientVars>>

\* Engine.close() closes the admin client; the embedded one is NativeEngine's.
Close == /\ setup.transport # "embedded" /\ ~clientClosed /\ CloseClient
         /\ UNCHANGED <<setup, memo, call, nativeVars>>

\* Whether the engine answers a route with what it knows of its listener.
Answering(route) == setup.listener = "up" \/ (setup.listener = "old" /\ route # "GET intercept")

\* What the engine may answer to a route.
MayAnswer(route) ==
  {IF Answering(route) THEN 200 ELSE 404, 500} \cup (IF route = "POST rules" THEN {400} ELSE {})

EngineAnswers(c) ==
  /\ AtBody(c) \/ request[c].step = "fetching"
  /\ \/ \E status \in MayAnswer(request[c].route) : HeadersArrive(c, status)
     \/ \E body \in Bodies : BodyEnds(c, body)
     \/ FetchFails(c)
     \/ BodyBreaks(c)
  /\ UNCHANGED <<setup, memo, call, nativeVars>>

TimerFires(c) == TimesOut(c) /\ UNCHANGED <<setup, memo, call, nativeVars>>

WorkerServes == NativeNext /\ UNCHANGED <<setup, memo, call, clientVars>>

Continues(c) == (\E wellFormed \in BOOLEAN : EmbeddedStarted(c, wellFormed)) \/ Attached(c) \/ Used(c)

Done == /\ \A c \in Callers : call[c].step \in {"rejected", "used"}
        /\ clientClosed \/ setup.transport = "embedded"
        /\ UNCHANGED vars

Next ==
  \/ \E c \in Callers :
       \/ \E o \in Options \cup {NoOptions} : Intercept(c, o)
       \/ Continues(c)
       \/ Unserializable(c) \/ \E use \in Uses : Use(c, use)
       \/ EngineAnswers(c) \/ TimerFires(c)
  \/ WorkerServes
  \/ Close
  \/ Done

Spec == Init /\ [][Next]_vars

\* A native call returns, a timer fires, a continuation runs; no engine has to
\* answer a request or to finish a body.
FairSpec ==
  /\ Spec
  /\ WF_vars(WorkerServes)
  /\ \A c \in Callers : WF_vars(Continues(c)) /\ WF_vars(TimerFires(c))

-----------------------------------------------------------------------------
\* Options are applied or refused, never ignored, also when calls overlap: a call
\* that passes some and resolves has a handle of its own making, at the port it
\* named, and over the attaching transports asked for nothing that only the start
\* of a listener could give it (engine.ts:1044-1046, 1066-1076).
OptionsNeverIgnored ==
  \A c \in Callers :
    call[c].step \in {"resolved", "using", "used"} /\ call[c].given # NoOptions =>
      /\ call[c].handle.by = c
      /\ call[c].given.port # "unset" => call[c].handle.port = call[c].given.port
      /\ setup.transport # "embedded" => ~StartupOnly(call[c].given)

\* Every handle, memoized or handed out, leads to a listener that answered when it
\* was made, at a port somebody named: the caller, the flags of the spawned engine,
\* or the engine itself in an answer of the expected shape (client.ts:294-306).
NoHandleToNothing ==
  \A h \in {memo} \cup {call[c].handle : c \in {d \in Callers : call[d].step \in {"resolved", "using", "used"}}} :
    h # NoHandle =>
      /\ h.port \in {"own", "known", "reported"}
      /\ setup.transport = "embedded" \/ setup.listener # "down"
      /\ h.port = "known" => setup.transport = "spawn"
      /\ setup.transport = "remote" /\ setup.listener = "old" => h.port = "own"

\* A call of intercept(), or of a method of its handle, settles; over HTTP it may
\* wait for the rest of a body and for nothing else (client.ts:409-424).
EveryCallSettles ==
  \A c \in Callers :
    \/ []<>(call[c].step \in {"ready", "resolved", "rejected", "used"})
    \/ <>[]AtBody(c)
=============================================================================
