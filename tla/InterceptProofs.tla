-------------------------- MODULE InterceptProofs --------------------------
(***************************************************************************)
(* Theorems about Intercept, for any number of callers, and any options    *)
(* and uses of a handle; about ResponseBuilder with the intercept rules    *)
(* that are compiled from its responses, and about ImposterBuilder, for    *)
(* chains of any length and any states, predicates and responses.          *)
(***************************************************************************)
EXTENDS Intercept, InterceptRules, ImposterBuilder, SequenceTheorems, TLAPS

-----------------------------------------------------------------------------
(* The strings of the library.                                             *)

AtRest(s) == strings[s] \in {"none", "freed", "unreadable"}

\* At rest everything has gone back; while a call is served, everything but the
\* one string it is at.
StringInv ==
  /\ inbox \in Seq(Calls)
  /\ strings \in [Strings -> {"none", "unread", "read", "unreadable", "freed"}]
  /\ \/ worker = Idle /\ lastError = NoString /\ \A s \in Strings : AtRest(s)
     \/ /\ worker.step = "failed" /\ worker.call \in Calls /\ lastError = NoString
        /\ \A s \in Strings : AtRest(s)
     \/ /\ worker.step = "failed" /\ worker.call \in Calls
        /\ lastError = <<"error", worker.call>> /\ strings[lastError] = "unread"
        /\ \A s \in Strings : s # lastError => AtRest(s)
     \/ /\ worker.step \in {"returned", "decoded"} /\ worker.call \in Calls
        /\ lastError = NoString
        /\ worker.holds \in {<<kind, worker.call>> : kind \in {"result", "error"}}
        /\ strings[worker.holds] = (IF worker.step = "returned" THEN "unread" ELSE "read")
        /\ \A s \in Strings : s # worker.holds => AtRest(s)

\* What the worker is at.
WorkerInv ==
  worker \in {Idle} \cup [step : {"failed", "returned", "decoded"}, call : Calls,
                          holds : Strings \cup {NoString}]

AnswerInv ==
  /\ DOMAIN answers = Calls
  /\ \A c \in Calls : answers[c] = NoAnswer \/ answers[c].of = NoString \/ answers[c].of[2] = c

LEMMA StringStep == StringInv /\ WorkerInv /\ NativeNext => StringInv'
<1> SUFFICES ASSUME StringInv, WorkerInv, NativeNext PROVE StringInv'
  OBVIOUS
<1>0. /\ inbox \in Seq(Calls)
      /\ strings \in [Strings -> {"none", "unread", "read", "unreadable", "freed"}]
  BY DEF StringInv
<1>1. CASE Invoke
  <2> DEFINE c == Head(inbox)
  <2>1. /\ worker = Idle /\ lastError = NoString /\ \A s \in Strings : AtRest(s)
        /\ c \in Calls /\ inbox' \in Seq(Calls)
    BY <1>0, <1>1 DEF Invoke, StringInv, Idle
  <2>2. <<"result", c>> \in Strings /\ <<"error", c>> \in Strings
    BY <2>1 DEF Strings
  <2>3. CASE worker' = Idle /\ UNCHANGED <<lastError, strings>>
    BY <1>0, <2>1, <2>3 DEF StringInv, AtRest
  <2>4. CASE /\ strings' = [strings EXCEPT ![<<"result", c>>] = "unread"]
             /\ worker' = [step |-> "returned", call |-> c, holds |-> <<"result", c>>]
             /\ UNCHANGED lastError
    BY <1>0, <2>1, <2>2, <2>4 DEF StringInv, AtRest
  <2>5. CASE /\ worker' = [step |-> "failed", call |-> c, holds |-> NoString]
             /\ UNCHANGED <<lastError, strings>>
    BY <1>0, <2>1, <2>5 DEF StringInv, AtRest
  <2>6. CASE /\ worker' = [step |-> "failed", call |-> c, holds |-> NoString]
             /\ lastError' = <<"error", c>>
             /\ strings' = [strings EXCEPT ![<<"error", c>>] = "unread"]
    BY <1>0, <2>1, <2>2, <2>6 DEF StringInv, AtRest
  <2>7. QED
    BY <1>1, <2>3, <2>4, <2>5, <2>6 DEF Invoke, Reply
<1>2. CASE ReadLastError
  <2>1. worker.step = "failed" /\ worker.call \in Calls /\ worker # Idle /\ UNCHANGED <<inbox, strings>>
    BY <1>2 DEF ReadLastError, StringInv, Idle
  <2>2. lastError' = NoString
    BY <1>2 DEF ReadLastError
  <2>3. CASE lastError = NoString
    <3>1. worker' = Idle
      BY <1>2, <2>3 DEF ReadLastError, Reply
    <3>2. \A s \in Strings : AtRest(s)
      BY <2>1, <2>3 DEF StringInv, NoString
    <3>3. QED
      BY <1>0, <2>1, <2>2, <3>1, <3>2 DEF StringInv, AtRest
  <2>4. CASE lastError # NoString
    <3>1. /\ lastError = <<"error", worker.call>> /\ strings[lastError] = "unread"
          /\ \A s \in Strings : s # lastError => AtRest(s)
      BY <2>1, <2>4 DEF StringInv
    <3>2. worker' = [worker EXCEPT !.step = "returned", !.holds = lastError]
      BY <1>2, <2>4 DEF ReadLastError
    <3>3. worker'.step = "returned" /\ worker'.call = worker.call /\ worker'.holds = lastError
      BY <2>1, <3>2 DEF WorkerInv, Idle
    <3>4. QED
      BY <1>0, <2>1, <2>2, <3>1, <3>3 DEF StringInv, AtRest
  <2>5. QED
    BY <2>3, <2>4
<1>3. CASE Decode
  <2>1. /\ worker.step = "returned" /\ worker.call \in Calls /\ lastError = NoString
        /\ worker.holds \in {<<kind, worker.call>> : kind \in {"result", "error"}}
        /\ strings[worker.holds] = "unread"
        /\ \A s \in Strings : s # worker.holds => AtRest(s)
    BY <1>3 DEF Decode, StringInv, Idle
  <2>2. worker.holds \in Strings
    BY <2>1 DEF Strings
  <2>3. QED
    <3>1. CASE strings' = [strings EXCEPT ![worker.holds] = "unreadable"] /\ worker' = Idle
      BY <1>0, <1>3, <2>1, <2>2, <3>1 DEF Decode, StringInv, AtRest
    <3>2. CASE /\ strings' = [strings EXCEPT ![worker.holds] = "read"]
               /\ worker' = [worker EXCEPT !.step = "decoded"]
      <4>1. worker'.step = "decoded" /\ worker'.call = worker.call /\ worker'.holds = worker.holds
        BY <2>1, <3>2 DEF WorkerInv, Idle
      <4>2. QED
        BY <1>0, <1>3, <2>1, <2>2, <3>2, <4>1 DEF Decode, StringInv, AtRest
    <3>3. QED
      BY <1>3, <2>1, <3>1, <3>2 DEF Decode, Reply
<1>4. CASE Free
  <2>1. /\ worker.step = "decoded" /\ worker.call \in Calls /\ lastError = NoString
        /\ worker.holds \in {<<kind, worker.call>> : kind \in {"result", "error"}}
        /\ strings[worker.holds] = "read"
        /\ \A s \in Strings : s # worker.holds => AtRest(s)
    BY <1>4 DEF Free, StringInv, Idle
  <2>2. worker.holds \in Strings
    BY <2>1 DEF Strings
  <2>3. QED
    BY <1>0, <1>4, <2>1, <2>2 DEF Free, Reply, StringInv, AtRest, Idle
<1>5. QED
  BY <1>1, <1>2, <1>3, <1>4 DEF NativeNext

LEMMA WorkerStep ==
  StringInv /\ WorkerInv /\ AnswerInv /\ NativeNext => WorkerInv' /\ AnswerInv'
<1> SUFFICES ASSUME StringInv, WorkerInv, AnswerInv, NativeNext PROVE WorkerInv' /\ AnswerInv'
  OBVIOUS
<1>0. ASSUME NEW c \in Calls, NEW ok \in BOOLEAN, NEW s, s = NoString \/ s[2] = c, Reply(c, ok, s)
      PROVE  WorkerInv' /\ AnswerInv'
  BY <1>0 DEF Reply, WorkerInv, AnswerInv
<1>1. CASE Invoke
  <2> DEFINE c == Head(inbox)
  <2>1. c \in Calls
    BY <1>1 DEF Invoke, StringInv
  <2>2. CASE \E ok \in BOOLEAN : Reply(c, ok, NoString)
    BY <1>0, <2>1, <2>2
  <2>3. CASE /\ worker' = [step |-> "returned", call |-> c, holds |-> <<"result", c>>]
             /\ UNCHANGED answers
    BY <2>1, <2>3 DEF WorkerInv, AnswerInv, Strings
  <2>4. CASE /\ worker' = [step |-> "failed", call |-> c, holds |-> NoString]
             /\ UNCHANGED answers
    BY <2>1, <2>4 DEF WorkerInv, AnswerInv
  <2>5. QED
    BY <1>1, <2>2, <2>3, <2>4 DEF Invoke
<1>2. CASE ReadLastError
  <2>1. worker.step = "failed" /\ worker # Idle /\ worker.call \in Calls
    BY <1>2 DEF ReadLastError, WorkerInv, Idle
  <2>2. CASE lastError = NoString
    BY <1>0, <1>2, <2>1, <2>2 DEF ReadLastError
  <2>3. CASE lastError # NoString
    <3>1. lastError \in Strings
      BY <2>1, <2>3 DEF StringInv, Strings
    <3>2. QED
      BY <1>2, <2>1, <2>3, <3>1, ZenonT(30) DEF ReadLastError, WorkerInv, AnswerInv, Idle
  <2>4. QED
    BY <2>2, <2>3
<1>3. CASE Decode
  <2>1. worker.step = "returned" /\ worker # Idle /\ worker.call \in Calls
    BY <1>3 DEF Decode, WorkerInv, Idle
  <2>2. CASE Reply(worker.call, FALSE, NoString)
    BY <1>0, <2>1, <2>2
  <2>3. CASE worker' = [worker EXCEPT !.step = "decoded"] /\ UNCHANGED answers
    BY <2>1, <2>3 DEF WorkerInv, AnswerInv, Idle
  <2>4. QED
    BY <1>3, <2>2, <2>3 DEF Decode
<1>4. CASE Free
  <2>1. worker.step = "decoded" /\ worker # Idle /\ worker.call \in Calls
    BY <1>4 DEF Free, WorkerInv, Idle
  <2>2. worker.holds[2] = worker.call
    BY <2>1 DEF StringInv, Idle
  <2>3. QED
    BY <1>0, <1>4, <2>1, <2>2 DEF Free
<1>5. QED
  BY <1>1, <1>2, <1>3, <1>4 DEF NativeNext

LEMMA StringsFollow == StringInv /\ AnswerInv => EveryStringGoesBack
<1> SUFFICES ASSUME StringInv, AnswerInv PROVE EveryStringGoesBack
  OBVIOUS
<1>1. \A s \in Strings : strings[s] # "corrupt"
  BY DEF StringInv
<1>2. worker = Idle => /\ \A s \in Strings : strings[s] \in {"none", "freed", "unreadable"}
                       /\ lastError = NoString
  BY DEF StringInv, Idle, AtRest
<1>3. QED
  BY <1>1, <1>2 DEF EveryStringGoesBack, AnswerInv

NativeInv == StringInv /\ WorkerInv /\ AnswerInv

LEMMA PostStep ==
  ASSUME NativeInv, NEW c \in Calls, PostCall(c), UNCHANGED <<worker, lastError, strings, answers>>
  PROVE  NativeInv'
<1>1. inbox' \in Seq(Calls)
  BY DEF NativeInv, StringInv, PostCall
<1>2. StringInv'
  BY <1>1 DEF NativeInv, StringInv, AtRest
<1>3. QED
  BY <1>2 DEF NativeInv, WorkerInv, AnswerInv

LEMMA NativeStep == NativeInv /\ [Next]_vars => NativeInv'
<1> SUFFICES ASSUME NativeInv, [Next]_vars PROVE NativeInv'
  OBVIOUS
<1>1. CASE UNCHANGED nativeVars
  BY <1>1 DEF nativeVars, NativeInv, StringInv, WorkerInv, AnswerInv, AtRest
<1>2. CASE WorkerServes
  BY <1>2, StringStep, WorkerStep DEF WorkerServes, NativeInv
<1>3. ASSUME NEW c \in Callers, NEW o, StartIntercept(c, o) PROVE NativeInv'
  <2>1. CASE UNCHANGED nativeVars
    BY <1>1, <2>1
  <2>2. CASE /\ PostCall([by |-> c, fn |-> "rift_start_intercept"])
             /\ UNCHANGED <<worker, lastError, strings, answers>>
    BY <2>2, PostStep, InterceptAssumption
  <2>3. QED
    BY <1>3, <2>1, <2>2 DEF StartIntercept, Asking
<1>4. ASSUME NEW c \in Callers, NEW use \in Uses, Use(c, use) PROVE NativeInv'
  <2>1. CASE UNCHANGED nativeVars
    BY <1>1, <2>1
  <2>2. CASE /\ PostCall([by |-> c, fn |-> NativeFn[use]])
             /\ UNCHANGED <<worker, lastError, strings, answers>>
    <3>1. [by |-> c, fn |-> NativeFn[use]] \in Calls
      BY InterceptAssumption
    <3>2. QED
      BY <2>2, <3>1, PostStep
  <2>3. QED
    BY <1>4, <2>1, <2>2 DEF Use
<1>5. ASSUME NEW c \in Callers, NEW o, Intercept(c, o) PROVE NativeInv'
  BY <1>1, <1>3, <1>5 DEF Intercept
<1>6. QED
  BY <1>1, <1>2, <1>4, <1>5
     DEF Next, vars, Continues, EmbeddedStarted, Attached, Used, Unserializable, EngineAnswers,
         TimerFires, Close, Done

LEMMA NativeStart == Init => NativeInv
<1> SUFFICES ASSUME Init PROVE NativeInv
  OBVIOUS
<1>1. StringInv
  BY DEF Init, NativeInit, StringInv, AtRest
<1>2. QED
  BY <1>1 DEF Init, NativeInit, NativeInv, WorkerInv, AnswerInv

\* Every string the library hands over is decoded once and given back once,
\* unless decoding it threw, and answers the call it was made for.
THEOREM StringsGoBack == Spec => []EveryStringGoesBack
BY NativeStart, NativeStep, StringsFollow, PTL DEF Spec, NativeInv

-----------------------------------------------------------------------------
(* Calls, requests and handles.                                            *)

Opts    == Options \cup {NoOptions}
Handles == [by : Callers, port : {"own", "known", "reported"}]

CallStates ==
  {Ready}
    \cup [step : {"starting"}, given : Opts]
    \cup [step : {"asking"}, given : Opts, route : {"GET rules", "GET intercept"}]
    \cup [step : {"rejected"}, given : Opts, error : Errors \cup {"InterceptUnavailable"}]
    \cup [step : {"resolved", "used"}, given : Opts, handle : Handles]
    \cup [step : {"using", "used"}, given : Opts, handle : Handles, use : Uses]

RequestStates ==
  {NoRequest}
    \cup [step : {"fetching"}, route : Routes]
    \cup [step : {"body"}, route : Routes, status : {200, 400, 404, 500}]
    \cup [step : {"settled"}, outcome : Bodies \cup Errors]

StateInv ==
  /\ setup \in [transport : Transports, wired : BOOLEAN, listener : {"up", "old", "down"}]
  /\ memo \in Handles \cup {NoHandle}
  /\ call \in [Callers -> CallStates]
  /\ request \in [Callers -> RequestStates]
  /\ clientClosed \in BOOLEAN

\* There is a listener, and the handle is at a port somebody named.
Leads(h) ==
  /\ setup.transport = "embedded" \/ setup.listener # "down"
  /\ h.port = "known" => setup.transport = "spawn"
  /\ setup.transport = "remote" /\ setup.listener = "old" => h.port = "own"

\* A call's options decide how it starts; what it has resolved with follows them.
CallOK(c, k) ==
  /\ k.step = "starting" => setup.transport = "embedded" /\ k.given.port # "NaN"
  /\ k.step = "asking" =>
       /\ setup.transport # "embedded" /\ ~StartupOnly(k.given) /\ k.given.port # "NaN"
       /\ (k.route = "GET intercept") <=> (setup.transport # "spawn" /\ k.given.port # "own")
  /\ k.step \in {"resolved", "using", "used"} =>
       /\ Leads(k.handle)
       /\ k.given # NoOptions =>
            /\ k.handle.by = c
            /\ k.given.port # "unset" => k.handle.port = k.given.port
            /\ setup.transport # "embedded" => ~StartupOnly(k.given)

\* The request of a call that asks is for its route, and succeeds only when there
\* is a listener.
RequestOK(k, r) == k.step = "asking" =>
  /\ r.step \in {"fetching", "body"} => r.route = k.route
  /\ r.step = "body" /\ r.status = 200 => Answering(k.route)
  /\ r.step = "settled" /\ r.outcome \notin Errors => Answering(k.route)

HandlesInv ==
  /\ StateInv
  /\ memo # NoHandle => Leads(memo)
  /\ \A c \in Callers : CallOK(c, call[c]) /\ RequestOK(call[c], request[c])

\* A step of c, and of nobody else.
LEMMA OnlyOne ==
  ASSUME NEW c \in Callers, HandlesInv, setup' = setup, clientClosed' \in BOOLEAN,
         NEW k \in CallStates, call' = [call EXCEPT ![c] = k],
         NEW r \in RequestStates, request' = [request EXCEPT ![c] = r],
         memo' \in Handles \cup {NoHandle}, memo' # NoHandle => Leads(memo'),
         CallOK(c, k), RequestOK(k, r)
  PROVE  HandlesInv'
<1>1. /\ \A d \in Callers : d # c => call'[d] = call[d] /\ request'[d] = request[d]
      /\ call'[c] = k /\ request'[c] = r
  BY DEF HandlesInv, StateInv
<1>2. StateInv'
  BY DEF HandlesInv, StateInv
<1>3. \A d \in Callers : CallOK(d, call'[d]) /\ RequestOK(call'[d], request'[d])
  BY <1>1 DEF HandlesInv
<1>4. /\ \A d \in Callers : CallOK(d, call[d])' /\ RequestOK(call[d], request[d])'
      /\ (memo # NoHandle => Leads(memo))'
  BY <1>3, ZenonT(30) DEF Leads, CallOK, RequestOK, Answering
<1>5. QED
  BY <1>2, <1>4 DEF HandlesInv

\* A step of c that leaves its request, or the call of c, as it is.
LEMMA CallMoves ==
  ASSUME NEW c \in Callers, HandlesInv, UNCHANGED <<setup, memo, clientVars>>,
         NEW k \in CallStates, call' = [call EXCEPT ![c] = k],
         CallOK(c, k), k.step # "asking"
  PROVE  HandlesInv'
<1>1. request' = [request EXCEPT ![c] = request[c]] /\ request[c] \in RequestStates
  BY DEF HandlesInv, StateInv, clientVars
<1>2. /\ clientClosed' \in BOOLEAN /\ memo' \in Handles \cup {NoHandle}
      /\ (memo' # NoHandle => Leads(memo')) /\ RequestOK(k, request[c])
  BY DEF HandlesInv, StateInv, clientVars, RequestOK
<1>3. QED
  BY <1>1, <1>2, OnlyOne

LEMMA RequestMoves ==
  ASSUME NEW c \in Callers, HandlesInv, UNCHANGED <<setup, memo, call, clientClosed>>,
         NEW r \in RequestStates, request' = [request EXCEPT ![c] = r], RequestOK(call[c], r)
  PROVE  HandlesInv'
<1>1. call' = [call EXCEPT ![c] = call[c]] /\ call[c] \in CallStates /\ CallOK(c, call[c])
  BY DEF HandlesInv, StateInv
<1>2. clientClosed' \in BOOLEAN /\ memo' \in Handles \cup {NoHandle} /\ (memo' # NoHandle => Leads(memo'))
  BY DEF HandlesInv, StateInv
<1>3. QED
  BY <1>1, <1>2, OnlyOne

LEMMA StartStep ==
  ASSUME HandlesInv, NEW c \in Callers, NEW o \in Opts, StartIntercept(c, o),
         UNCHANGED <<setup, memo>>
  PROVE  HandlesInv'
<1>1. ASSUME NEW error \in {"InvalidDefinition", "InterceptUnavailable", "RiftError"},
             call' = [call EXCEPT ![c] = [step |-> "rejected", given |-> o, error |-> error]],
             UNCHANGED clientVars
      PROVE  HandlesInv'
  <2> DEFINE k == [step |-> "rejected", given |-> o, error |-> error]
  <2>1. k \in CallStates /\ CallOK(c, k) /\ k.step # "asking"
    BY DEF CallStates, CallOK, Errors
  <2> HIDE DEF k
  <2>2. call' = [call EXCEPT ![c] = k]
    BY <1>1 DEF k
  <2>3. QED
    BY <1>1, <2>1, <2>2, CallMoves
<1>2. CASE /\ setup.transport = "embedded" /\ o.port # "NaN"
           /\ call' = [call EXCEPT ![c] = [step |-> "starting", given |-> o]]
           /\ UNCHANGED clientVars
  <2> DEFINE k == [step |-> "starting", given |-> o]
  <2>1. k \in CallStates /\ CallOK(c, k) /\ k.step # "asking"
    BY <1>2 DEF CallStates, CallOK
  <2> HIDE DEF k
  <2>2. call' = [call EXCEPT ![c] = k]
    BY <1>2 DEF k
  <2>3. QED
    BY <1>2, <2>1, <2>2, CallMoves
<1>3. ASSUME NEW route \in {"GET rules", "GET intercept"},
             setup.transport # "embedded", ~StartupOnly(o), o.port # "NaN",
             (route = "GET intercept") <=> (setup.transport # "spawn" /\ o.port # "own"),
             Asking(c, o, route)
      PROVE  HandlesInv'
  <2> DEFINE k == [step |-> "asking", given |-> o, route |-> route]
             r == IF clientClosed THEN Settled("RiftError") ELSE [step |-> "fetching", route |-> route]
  <2>1. k \in CallStates /\ CallOK(c, k)
    BY <1>3 DEF CallStates, CallOK
  <2>2. r \in RequestStates /\ RequestOK(k, r)
    BY ZenonT(30) DEF RequestStates, RequestOK, Settled, Errors, Routes
  <2>3. call' = [call EXCEPT ![c] = k] /\ request' = [request EXCEPT ![c] = r]
    BY <1>3 DEF Asking, Send
  <2>4. clientClosed' \in BOOLEAN /\ memo' \in Handles \cup {NoHandle} /\ (memo' # NoHandle => Leads(memo'))
    BY <1>3 DEF Asking, HandlesInv, StateInv
  <2> HIDE DEF k, r
  <2>5. QED
    BY <2>1, <2>2, <2>3, <2>4, OnlyOne
<1>4. CASE Invalid(o)
  BY <1>1, <1>4 DEF StartIntercept
<1>5. CASE ~Invalid(o) /\ setup.transport # "embedded" /\ StartupOnly(o)
  BY <1>1, <1>5 DEF StartIntercept
<1>6. CASE ~Invalid(o) /\ ~(setup.transport # "embedded" /\ StartupOnly(o))
  <2>1. CASE ~setup.wired
    BY <1>1, <1>6, <2>1 DEF StartIntercept
  <2>2. CASE setup.wired /\ o.port = "NaN"
    BY <1>1, <1>6, <2>2 DEF StartIntercept
  <2>3. CASE setup.wired /\ o.port # "NaN" /\ setup.transport = "embedded"
    BY <1>2, <1>6, <2>3 DEF StartIntercept
  <2>4. CASE setup.wired /\ o.port # "NaN" /\ setup.transport # "embedded"
    BY <1>3, <1>6, <2>4 DEF StartIntercept
  <2>5. QED
    BY <2>1, <2>2, <2>3, <2>4
<1>7. QED
  BY <1>4, <1>5, <1>6

LEMMA InterceptStep ==
  ASSUME HandlesInv, NEW c \in Callers, NEW o \in Opts, Intercept(c, o)
  PROVE  HandlesInv'
<1>1. CASE memo = NoHandle
  BY <1>1, StartStep DEF Intercept
<1>2. CASE memo # NoHandle /\ o = NoOptions
  <2> DEFINE k == [step |-> "resolved", given |-> o, handle |-> memo]
  <2>1. k \in CallStates /\ CallOK(c, k) /\ k.step # "asking"
    BY <1>2 DEF CallStates, CallOK, HandlesInv, StateInv
  <2>2. call' = [call EXCEPT ![c] = k]
    BY <1>2 DEF Intercept
  <2> HIDE DEF k
  <2>3. QED
    BY <1>2, <2>1, <2>2, CallMoves DEF Intercept
<1>3. CASE memo # NoHandle /\ o # NoOptions
  <2> DEFINE k == [step |-> "rejected", given |-> o, error |-> "InterceptUnavailable"]
  <2>1. k \in CallStates /\ CallOK(c, k) /\ k.step # "asking"
    BY DEF CallStates, CallOK
  <2>2. call' = [call EXCEPT ![c] = k]
    BY <1>3 DEF Intercept
  <2> HIDE DEF k
  <2>3. QED
    BY <1>3, <2>1, <2>2, CallMoves DEF Intercept
<1>4. QED
  BY <1>1, <1>2, <1>3

LEMMA RejectStep ==
  ASSUME HandlesInv, NEW c \in Callers, call[c].given \in Opts,
         NEW error \in Errors \cup {"InterceptUnavailable"}, Rejected(c, error),
         UNCHANGED <<setup, memo, clientVars>>
  PROVE  HandlesInv'
<1> DEFINE k == [step |-> "rejected", given |-> call[c].given, error |-> error]
<1>1. k \in CallStates /\ CallOK(c, k) /\ k.step # "asking"
  BY DEF CallStates, CallOK
<1>2. call' = [call EXCEPT ![c] = k]
  BY DEF Rejected, HandlesInv, StateInv
<1> HIDE DEF k
<1>3. QED
  BY <1>1, <1>2, CallMoves

\* A call that resolves, at a port that follows from how it started.
LEMMA ResolveStep ==
  ASSUME HandlesInv, NEW c \in Callers, call[c].given \in Opts,
         NEW port \in {"own", "known", "reported"}, Resolved(c, port), Leads([by |-> c, port |-> port]),
         call[c].given.port \in {"unset", port},
         setup.transport # "embedded" => ~StartupOnly(call[c].given),
         UNCHANGED <<setup, clientVars>>
  PROVE  HandlesInv'
<1> DEFINE h == [by |-> c, port |-> port]
           k == [step |-> "resolved", given |-> call[c].given, handle |-> h]
<1>1. k \in CallStates /\ CallOK(c, k) /\ h \in Handles
  BY DEF CallStates, CallOK, Handles
<1>2. call' = [call EXCEPT ![c] = k] /\ memo' = h
  BY DEF Resolved, HandlesInv, StateInv
<1>3. request' = [request EXCEPT ![c] = request[c]] /\ request[c] \in RequestStates
  BY DEF HandlesInv, StateInv, clientVars
<1>4. clientClosed' \in BOOLEAN /\ RequestOK(k, request[c])
  BY DEF HandlesInv, StateInv, clientVars, RequestOK
<1>5. memo' \in Handles \cup {NoHandle} /\ (memo' # NoHandle => Leads(memo'))
  BY <1>1, <1>2
<1> HIDE DEF h, k
<1>6. QED
  BY <1>1, <1>2, <1>3, <1>4, <1>5, OnlyOne

\* What the record of a call holds.
LEMMA CallStateFacts ==
  ASSUME NEW k \in CallStates
  PROVE  /\ k.step # "ready" => k.given \in Opts
         /\ k.step \in {"resolved", "using", "used"} =>
              /\ k.handle \in Handles
              /\ LET used == [k EXCEPT !.step = "used"] IN
                 used \in CallStates /\ used.step = "used" /\ used.given = k.given /\ used.handle = k.handle
<1>1. CASE k = Ready
  BY <1>1 DEF Ready
<1>2. CASE k \in [step : {"starting"}, given : Opts]
  BY <1>2
<1>3. CASE k \in [step : {"asking"}, given : Opts, route : {"GET rules", "GET intercept"}]
  BY <1>3
<1>4. CASE k \in [step : {"rejected"}, given : Opts, error : Errors \cup {"InterceptUnavailable"}]
  BY <1>4
<1>5. CASE k \in [step : {"resolved", "used"}, given : Opts, handle : Handles]
  <2>1. [k EXCEPT !.step = "used"] \in [step : {"resolved", "used"}, given : Opts, handle : Handles]
    BY <1>5
  <2>2. QED
    BY <1>5, <2>1 DEF CallStates
<1>6. CASE k \in [step : {"using", "used"}, given : Opts, handle : Handles, use : Uses]
  <2>1. [k EXCEPT !.step = "used"] \in [step : {"using", "used"}, given : Opts, handle : Handles, use : Uses]
    BY <1>6
  <2>2. QED
    BY <1>6, <2>1 DEF CallStates
<1>7. QED
  BY <1>1, <1>2, <1>3, <1>4, <1>5, <1>6 DEF CallStates

LEMMA GivenTyped ==
  ASSUME StateInv, NEW c \in Callers, call[c].step # "ready"
  PROVE  call[c].given \in Opts /\ call[c].given.port \in {"unset", "own", "NaN"}
<1>1. call[c] \in CallStates
  BY DEF StateInv
<1>2. call[c].given \in Opts
  BY <1>1, CallStateFacts
<1>3. \A o \in Opts : o.port \in {"unset", "own", "NaN"}
  BY InterceptAssumption DEF Opts, NoOptions
<1>4. QED
  BY <1>1, <1>2, <1>3

LEMMA EmbeddedStep ==
  ASSUME HandlesInv, NEW c \in Callers, NEW wellFormed \in BOOLEAN, EmbeddedStarted(c, wellFormed)
  PROVE  HandlesInv'
<1>1. /\ call[c].step = "starting" /\ setup.transport = "embedded"
      /\ call[c].given \in Opts /\ call[c].given.port \in {"unset", "own"}
  BY GivenTyped DEF EmbeddedStarted, HandlesInv, CallOK
<1>2. CASE Rejected(c, "RiftError") /\ UNCHANGED memo
  BY <1>1, <1>2, RejectStep DEF EmbeddedStarted, Errors
<1>3. CASE Resolved(c, IF call[c].given.port = "own" THEN "own" ELSE "reported")
  <2> DEFINE port == IF call[c].given.port = "own" THEN "own" ELSE "reported"
  <2>1. /\ port \in {"own", "known", "reported"} /\ Leads([by |-> c, port |-> port])
        /\ call[c].given.port \in {"unset", port} /\ Resolved(c, port)
    BY <1>1, <1>3 DEF Leads
  <2> HIDE DEF port
  <2>2. QED
    BY <1>1, <2>1, ResolveStep DEF EmbeddedStarted
<1>4. QED
  BY <1>2, <1>3 DEF EmbeddedStarted

LEMMA AttachedStep ==
  ASSUME HandlesInv, NEW c \in Callers, Attached(c)
  PROVE  HandlesInv'
<1>1. /\ call[c].step = "asking" /\ setup.transport # "embedded" /\ ~StartupOnly(call[c].given)
      /\ call[c].given \in Opts /\ call[c].given.port \in {"unset", "own"}
      /\ (call[c].route = "GET intercept") <=> (setup.transport # "spawn" /\ call[c].given.port # "own")
      /\ setup.transport \in {"spawn", "remote"} /\ setup.listener \in {"up", "old", "down"}
  BY GivenTyped, InterceptAssumption DEF Attached, HandlesInv, StateInv, CallOK
<1>2. request[c].outcome \notin Errors => Answering(call[c].route)
  BY <1>1 DEF Attached, HandlesInv, RequestOK
<1>3. ASSUME NEW error \in Errors \cup {"InterceptUnavailable"}, Rejected(c, error), UNCHANGED memo
      PROVE  HandlesInv'
  BY <1>1, <1>3, RejectStep DEF Attached
<1>4. ASSUME NEW port \in {"own", "known", "reported"}, Resolved(c, port), request[c].outcome \notin Errors,
             port = IF call[c].route = "GET intercept" THEN "reported"
                    ELSE IF call[c].given.port = "own" THEN "own" ELSE "known"
      PROVE  HandlesInv'
  <2>1. Leads([by |-> c, port |-> port])
    BY <1>1, <1>2, <1>4 DEF Leads, Answering
  <2>2. call[c].given.port \in {"unset", port}
    BY <1>1, <1>4
  <2>3. QED
    BY <1>1, <1>4, <2>1, <2>2, ResolveStep DEF Attached
<1>5. CASE request[c].outcome = "ImposterNotFound"
  BY <1>3, <1>5 DEF Attached
<1>6. CASE request[c].outcome # "ImposterNotFound" /\ request[c].outcome \in Errors
  BY <1>3, <1>6 DEF Attached
<1>7. CASE request[c].outcome \notin Errors
  <2>0. request[c].outcome # "ImposterNotFound"
    BY <1>7 DEF Errors
  <2>1. CASE call[c].route = "GET intercept"
    BY <1>3, <1>4, <1>7, <2>0, <2>1 DEF Attached, Errors
  <2>2. CASE call[c].route # "GET intercept"
    BY <1>4, <1>7, <2>0, <2>2 DEF Attached
  <2>3. QED
    BY <2>1, <2>2
<1>8. QED
  BY <1>5, <1>6, <1>7

LEMMA UseStep ==
  ASSUME HandlesInv, NEW c \in Callers, NEW use \in Uses, Use(c, use)
  PROVE  HandlesInv'
<1> DEFINE k == [step |-> "using", given |-> call[c].given, handle |-> call[c].handle, use |-> use]
           r == IF setup.transport = "embedded" THEN request[c]
                ELSE IF clientClosed THEN Settled("RiftError")
                ELSE [step |-> "fetching", route |-> Route[use]]
<1>1. call[c].step = "resolved" /\ call[c] \in CallStates /\ CallOK(c, call[c])
  BY DEF Use, HandlesInv, StateInv
<1>2. call[c].given \in Opts /\ call[c].handle \in Handles
  BY <1>1, CallStateFacts
<1>3. k \in CallStates /\ CallOK(c, k)
  BY <1>1, <1>2 DEF CallStates, CallOK
<1>4. Route[use] \in Routes
  <2>1. use \in {"addRule", "rules", "clearRules", "caPem", "exportTruststore"}
    BY InterceptAssumption DEF NativeFn
  <2>2. /\ Route.addRule = "POST rules" /\ Route.rules = "GET rules" /\ Route.clearRules = "DELETE rules"
        /\ Route.caPem = "GET ca.pem" /\ Route.exportTruststore = "GET truststore"
    BY DEF Route
  <2>3. QED
    BY <2>1, <2>2 DEF Routes, AllowEmpty, Unparsed
<1>5. r \in RequestStates /\ RequestOK(k, r)
  BY <1>4 DEF RequestStates, RequestOK, Settled, Errors, HandlesInv, StateInv
<1>6. /\ call' = [call EXCEPT ![c] = k] /\ request' = [request EXCEPT ![c] = r]
      /\ clientClosed' \in BOOLEAN /\ UNCHANGED <<setup, memo>>
  BY DEF Use, Send, HandlesInv, StateInv, clientVars
<1>7. memo' \in Handles \cup {NoHandle} /\ (memo' # NoHandle => Leads(memo'))
  BY <1>6 DEF HandlesInv, StateInv
<1> HIDE DEF k, r
<1>8. QED
  BY <1>3, <1>5, <1>6, <1>7, OnlyOne

LEMMA UsedStep ==
  ASSUME HandlesInv, NEW c \in Callers, Used(c) \/ Unserializable(c)
  PROVE  HandlesInv'
<1> DEFINE k == [call[c] EXCEPT !.step = "used"]
<1>1. call[c].step \in {"resolved", "using"} /\ call[c] \in CallStates /\ CallOK(c, call[c])
  BY DEF Used, Unserializable, HandlesInv, StateInv
<1>2. k \in CallStates /\ k.step = "used" /\ k.given = call[c].given /\ k.handle = call[c].handle
  BY <1>1, CallStateFacts
<1>3. call' = [call EXCEPT ![c] = k] /\ UNCHANGED <<setup, memo, clientVars>>
  BY DEF Used, Unserializable
<1> HIDE DEF k
<1>4. CallOK(c, k) /\ k.step # "asking"
  BY <1>1, <1>2 DEF CallOK
<1>5. QED
  BY <1>2, <1>3, <1>4, CallMoves

LEMMA FailsStep ==
  ASSUME HandlesInv, NEW c \in Callers, FetchFails(c), UNCHANGED <<setup, memo, call>>
  PROVE  HandlesInv'
<1> DEFINE r == Settled("EngineUnavailable")
<1>1. r \in RequestStates /\ RequestOK(call[c], r)
  BY DEF RequestStates, RequestOK, Settled, Errors
<1>2. request' = [request EXCEPT ![c] = r] /\ UNCHANGED clientClosed
  BY DEF FetchFails
<1> HIDE DEF r
<1>3. QED
  BY <1>1, <1>2, RequestMoves

LEMMA EngineStep ==
  ASSUME HandlesInv, NEW c \in Callers, EngineAnswers(c)
  PROVE  HandlesInv'
<1>0. /\ request[c] \in RequestStates /\ RequestOK(call[c], request[c]) /\ UNCHANGED <<setup, memo, call>>
      /\ setup.listener \in {"up", "old", "down"}
  BY DEF EngineAnswers, HandlesInv, StateInv
<1>1. ASSUME NEW status \in MayAnswer(request[c].route), HeadersArrive(c, status)
      PROVE  HandlesInv'
  <2> DEFINE r == [step |-> "body", route |-> request[c].route, status |-> status]
  <2>1. request[c].step = "fetching" /\ request[c].route \in Routes
    BY <1>0, <1>1 DEF HeadersArrive, RequestStates, NoRequest, Settled
  <2>2. status \in {200, 400, 404, 500} /\ (status = 200 => Answering(request[c].route))
    <3> DEFINE route == request[c].route
    <3>1. status \in {IF Answering(route) THEN 200 ELSE 404, 500} \cup {400}
      BY <1>1 DEF MayAnswer
    <3> HIDE DEF route
    <3>2. CASE Answering(route)
      BY <3>1, <3>2 DEF route
    <3>3. CASE ~Answering(route)
      BY <3>1, <3>3
    <3>4. QED
      BY <3>2, <3>3
  <2>3. r \in RequestStates /\ RequestOK(call[c], r)
    BY <1>0, <2>1, <2>2 DEF RequestStates, RequestOK
  <2>4. request' = [request EXCEPT ![c] = r] /\ UNCHANGED clientClosed
    BY <1>1, <2>1 DEF HeadersArrive, HandlesInv, StateInv
  <2> HIDE DEF r
  <2>5. QED
    BY <1>0, <2>3, <2>4, RequestMoves
<1>2. ASSUME NEW outcome \in Bodies \cup Errors, request[c].step = "body",
             request[c].status # 200 => outcome \in Errors,
             request' = [request EXCEPT ![c] = Settled(outcome)], UNCHANGED clientClosed
      PROVE  HandlesInv'
  <2> DEFINE r == Settled(outcome)
  <2>1. r \in RequestStates /\ RequestOK(call[c], r)
    BY <1>0, <1>2 DEF RequestStates, RequestOK, Settled
  <2> HIDE DEF r
  <2>2. QED
    BY <1>0, <1>2, <2>1, RequestMoves DEF r
<1>3. ThrowForStatus(request[c].status) \in Errors
  BY DEF ThrowForStatus, Errors
<1>4. ASSUME NEW body \in Bodies, BodyEnds(c, body) PROVE HandlesInv'
  <2> DEFINE outcome == IF request[c].status # 200 THEN ThrowForStatus(request[c].status)
                        ELSE IF request[c].route \in Unparsed THEN body
                        ELSE ParseJsonBody(body, request[c].route \in AllowEmpty)
  <2>1. outcome \in Bodies \cup Errors /\ (request[c].status # 200 => outcome \in Errors)
    BY <1>3 DEF ParseJsonBody, Errors
  <2>2. /\ request[c].step = "body" /\ request' = [request EXCEPT ![c] = Settled(outcome)]
        /\ UNCHANGED clientClosed
    BY <1>4 DEF BodyEnds
  <2> HIDE DEF outcome
  <2>3. QED
    BY <1>2, <2>1, <2>2
<1>5. CASE BodyBreaks(c)
  <2> DEFINE outcome == IF request[c].status # 200 THEN ThrowForStatus(request[c].status) ELSE "TypeError"
  <2>1. outcome \in Bodies \cup Errors /\ (request[c].status # 200 => outcome \in Errors)
    BY <1>3 DEF Errors
  <2>2. /\ request[c].step = "body" /\ request' = [request EXCEPT ![c] = Settled(outcome)]
        /\ UNCHANGED clientClosed
    BY <1>5 DEF BodyBreaks
  <2> HIDE DEF outcome
  <2>3. QED
    BY <1>2, <2>1, <2>2
<1>6. CASE FetchFails(c)
  BY <1>0, <1>6, FailsStep
<1>7. QED
  BY <1>1, <1>4, <1>5, <1>6 DEF EngineAnswers

LEMMA HandlesStep == HandlesInv /\ [Next]_vars => HandlesInv'
<1> SUFFICES ASSUME HandlesInv, [Next]_vars PROVE HandlesInv'
  OBVIOUS
<1>1. CASE UNCHANGED <<setup, memo, call, request>> /\ clientClosed' \in BOOLEAN
  BY <1>1, ZenonT(30) DEF HandlesInv, StateInv, CallOK, RequestOK, Leads, Answering
<1>2. ASSUME NEW c \in Callers, NEW o \in Options \cup {NoOptions}, Intercept(c, o) PROVE HandlesInv'
  BY <1>2, InterceptStep DEF Opts
<1>3. ASSUME NEW c \in Callers, Continues(c) PROVE HandlesInv'
  BY <1>3, EmbeddedStep, AttachedStep, UsedStep DEF Continues
<1>4. ASSUME NEW c \in Callers, Unserializable(c) \/ \E use \in Uses : Use(c, use) PROVE HandlesInv'
  BY <1>4, UseStep, UsedStep
<1>5. ASSUME NEW c \in Callers, EngineAnswers(c) \/ TimerFires(c) PROVE HandlesInv'
  BY <1>5, EngineStep, FailsStep DEF TimerFires, TimesOut
<1>6. CASE WorkerServes \/ Close \/ Done \/ UNCHANGED vars
  BY <1>1, <1>6 DEF WorkerServes, Close, CloseClient, Done, vars, clientVars, HandlesInv, StateInv
<1>7. QED
  BY <1>2, <1>3, <1>4, <1>5, <1>6 DEF Next

LEMMA HandlesStart == Init => HandlesInv
<1> SUFFICES ASSUME Init PROVE HandlesInv
  OBVIOUS
<1>1. /\ setup \in [transport : Transports, wired : BOOLEAN, listener : {"up", "old", "down"}]
      /\ memo = NoHandle /\ clientClosed = FALSE
      /\ call = [c \in Callers |-> Ready] /\ request = [c \in Callers |-> NoRequest]
  BY DEF Init, ClientInit
<1>2. StateInv
  BY <1>1 DEF StateInv, CallStates, RequestStates
<1>3. \A c \in Callers : CallOK(c, Ready) /\ RequestOK(Ready, NoRequest)
  BY DEF CallOK, RequestOK, Ready
<1>4. QED
  BY <1>1, <1>2, <1>3 DEF HandlesInv

LEMMA HandlesFollow == HandlesInv => OptionsNeverIgnored /\ NoHandleToNothing
<1> SUFFICES ASSUME HandlesInv PROVE OptionsNeverIgnored /\ NoHandleToNothing
  OBVIOUS
<1>1. OptionsNeverIgnored
  BY DEF HandlesInv, CallOK, OptionsNeverIgnored
<1>2. ASSUME NEW h \in {memo} \cup {call[c].handle : c \in {d \in Callers : call[d].step \in {"resolved", "using", "used"}}},
             h # NoHandle
      PROVE  Leads(h) /\ h \in Handles
  <2>1. CASE h = memo
    BY <1>2, <2>1 DEF HandlesInv, StateInv
  <2>2. ASSUME NEW c \in Callers, call[c].step \in {"resolved", "using", "used"}, h = call[c].handle
        PROVE  Leads(h) /\ h \in Handles
    <3>1. call[c] \in CallStates /\ CallOK(c, call[c])
      BY DEF HandlesInv, StateInv
    <3>2. QED
      BY <2>2, <3>1, CallStateFacts DEF CallOK
  <2>3. QED
    BY <1>2, <2>1, <2>2
<1>3. NoHandleToNothing
  BY <1>2 DEF NoHandleToNothing, Leads, Handles
<1>4. QED
  BY <1>1, <1>3

\* Options are applied or refused, never ignored, also when calls overlap.
THEOREM OptionsHeeded == Spec => []OptionsNeverIgnored
BY HandlesStart, HandlesStep, HandlesFollow, PTL DEF Spec

\* A handle leads to a listener that answered, at a port somebody named.
THEOREM HandlesLead == Spec => []NoHandleToNothing
BY HandlesStart, HandlesStep, HandlesFollow, PTL DEF Spec

-----------------------------------------------------------------------------
(* ImposterBuilder and ScenarioBuilder.                                    *)

Stubs == [state : States \cup {"unset"}, request : Requests,
          answers : Answers \cup {<<>>}, next : States \cup {"unset"}]

ImposterTypeOK ==
  /\ i \in [fields : SUBSET Plain, rift : SUBSET Rift, protocol : Protocols \cup {"unset"},
            mutualAuth : {"unset", "true", "false"}, rejectUnauthorized : BOOLEAN, ca : Anchors,
            stubs : Seq(Stubs), default : {Head(replies) : replies \in Answers} \cup {"unset"}]
  /\ steps \in Seq(Stubs)
  /\ open = <<>> \/ \E step \in Stubs : open = <<step>>
  /\ said \in Seq(Stubs)
  /\ given \in Seq(Stubs)
  /\ demand \in [certificate : BOOLEAN, anchors : Anchors]

\* The fields of the builder say what was demanded, whatever the protocol is.
FieldsFollowDemand ==
  /\ (i.mutualAuth = "true") = demand.certificate
  /\ i.ca = demand.anchors
  /\ i.rejectUnauthorized = (i.ca # "none")

\* What the caller has described is what is committed and what is open.
ScenarioInv == said = steps \o open

-----------------------------------------------------------------------------
(* Sequences.                                                              *)

LEMMA OpenIsSeq == ASSUME ImposterTypeOK PROVE open \in Seq(Stubs) /\ steps \o open \in Seq(Stubs)
<1>1. CASE open = <<>>
  BY <1>1 DEF ImposterTypeOK
<1>2. ASSUME NEW step \in Stubs, open = <<step>> PROVE open \in Seq(Stubs)
  BY <1>2
<1>3. open \in Seq(Stubs)
  BY <1>1, <1>2 DEF ImposterTypeOK
<1>4. steps \in Seq(Stubs)
  BY DEF ImposterTypeOK
<1>5. QED
  BY <1>3, <1>4, ConcatProperties

LEMMA OpenStep ==
  ASSUME ImposterTypeOK, open # <<>>
  PROVE  open[1] \in Stubs /\ open = <<open[1]>>
<1>1. PICK step \in Stubs : open = <<step>>
  BY DEF ImposterTypeOK
<1>2. QED
  BY <1>1

LEMMA Last1Typed ==
  ASSUME NEW S, NEW seq \in Seq(S), NEW y \in S
  PROVE  Last1(seq, y) \in Seq(S)
<1>1. CASE seq = <<>>
  <2>1. DOMAIN seq = {}
    BY <1>1
  <2>2. [seq EXCEPT ![Len(seq)] = y] = seq
    BY <2>1
  <2>3. QED
    BY <2>2 DEF Last1
<1>2. CASE seq # <<>>
  BY <1>2, Len(seq) \in DOMAIN seq DEF Last1
<1>3. QED
  BY <1>1, <1>2

LEMMA StepTyped ==
  ASSUME NEW state \in States \cup {"unset"}, NEW predicate \in Requests,
         NEW replies \in Answers \cup {<<>>}
  PROVE  Step(state, predicate, replies) \in Stubs
BY DEF Step, Stubs

LEMMA LastReplaced ==
  ASSUME NEW S, NEW seq \in Seq(S), NEW x \in S, NEW y \in S
  PROVE  Last1(seq \o <<x>>, y) = seq \o <<y>>
<1> DEFINE before == seq \o <<x>>
           after  == seq \o <<y>>
<1>1. /\ before \in Seq(S) /\ Len(before) = Len(seq) + 1 /\ before # <<>>
      /\ after \in Seq(S) /\ Len(after) = Len(seq) + 1
  OBVIOUS
<1>2. \A k \in 1..Len(before) : after[k] = IF k = Len(before) THEN y ELSE before[k]
  BY <1>1
<1> HIDE DEF before, after
<1>3. /\ Last1(before, y) \in Seq(S)
      /\ Len(Last1(before, y)) = Len(before)
      /\ \A k \in 1..Len(before) : Last1(before, y)[k] = IF k = Len(before) THEN y ELSE before[k]
  BY <1>1 DEF Last1
<1>4. Last1(before, y) = after
  BY <1>1, <1>2, <1>3, SeqEqual
<1>5. QED
  BY <1>4 DEF before, after

-----------------------------------------------------------------------------
(* Type correctness.                                                       *)

LEMMA ImposterTypeInit == ImposterInit => ImposterTypeOK
<1> SUFFICES ASSUME ImposterInit PROVE ImposterTypeOK
  OBVIOUS
<1>1. i \in [fields : SUBSET Plain, rift : SUBSET Rift, protocol : Protocols \cup {"unset"},
            mutualAuth : {"unset", "true", "false"}, rejectUnauthorized : BOOLEAN, ca : Anchors,
            stubs : Seq(Stubs), default : {Head(replies) : replies \in Answers} \cup {"unset"}]
  BY DEF ImposterInit, NewImposter, Anchors
<1>2. QED
  BY <1>1 DEF ImposterInit, ImposterTypeOK, Anchors

LEMMA ImposterTypeStep == ImposterTypeOK /\ [ImposterNext]_imposterVars => ImposterTypeOK'
<1> SUFFICES ASSUME ImposterTypeOK, [ImposterNext]_imposterVars PROVE ImposterTypeOK'
  OBVIOUS
<1>0. steps \o open \in Seq(Stubs) /\ open \in Seq(Stubs)
  BY OpenIsSeq
<1>a. ASSUME NEW step \in Stubs PROVE <<step>> \in Seq(Stubs)
  OBVIOUS
<1>1. ASSUME NEW state \in States, NEW predicate \in Requests, NEW replies \in Answers \cup {<<>>},
             When(state, predicate, replies)
      PROVE  ImposterTypeOK'
  <2>1. Step(state, predicate, replies) \in Stubs
    BY StepTyped
  <2>2. said' \in Seq(Stubs) /\ steps' \in Seq(Stubs)
    BY <1>0, <1>1, <2>1 DEF When, ImposterTypeOK
  <2>3. QED
    BY <1>1, <2>1, <2>2 DEF When, ImposterTypeOK
<1>2. ASSUME NEW step, open # <<>> => step \in Stubs, Edit(step) PROVE ImposterTypeOK'
  <2>1. CASE open = <<>>
    BY <1>2, <2>1 DEF Edit, ImposterTypeOK
  <2>2. CASE open # <<>>
    <3>1. said' = Last1(said, step) /\ step \in Stubs /\ said \in Seq(Stubs)
      BY <1>2, <2>2 DEF Edit, ImposterTypeOK
    <3>2. Last1(said, step) \in Seq(Stubs)
      BY <3>1, Last1Typed
    <3>3. QED
      BY <1>2, <2>2, <3>1, <3>2 DEF Edit, ImposterTypeOK
  <2>3. QED
    BY <2>1, <2>2
<1>3. ASSUME NEW replies \in Answers, Respond(replies) PROVE ImposterTypeOK'
  <2>1. open # <<>> => [open[1] EXCEPT !.answers = replies] \in Stubs
    BY OpenStep DEF Stubs
  <2>2. QED
    BY <1>2, <1>3, <2>1 DEF Respond
<1>4. ASSUME NEW state \in States, GoTo(state) PROVE ImposterTypeOK'
  <2>1. open # <<>> => [open[1] EXCEPT !.next = state] \in Stubs
    BY OpenStep DEF Stubs
  <2>2. QED
    BY <1>2, <1>4, <2>1 DEF GoTo
<1>5. ASSUME NEW state \in States, StartingAt(state) PROVE ImposterTypeOK'
  BY <1>5 DEF StartingAt, ImposterTypeOK
<1>6. CASE Scenario
  <2>1. steps' \in Seq(Stubs) /\ open' = <<>> /\ said' = said /\ demand' = demand
    BY <1>6, <1>0 DEF Scenario
  <2>2. CASE UNCHANGED <<i, given>>
    BY <1>6, <2>1, <2>2 DEF ImposterTypeOK
  <2>3. CASE i' = [i EXCEPT !.stubs = @ \o steps'] /\ given' = given \o said
    <3>1. i.stubs \o steps' \in Seq(Stubs) /\ given' \in Seq(Stubs)
      BY <2>1, <2>3, ConcatProperties DEF ImposterTypeOK
    <3>2. QED
      BY <2>1, <2>3, <3>1 DEF ImposterTypeOK
  <2>4. QED
    BY <1>6, <2>2, <2>3 DEF Scenario
<1>7. ASSUME NEW predicate \in Requests, NEW replies \in Answers, AddStub(predicate, replies)
      PROVE  ImposterTypeOK'
  <2> DEFINE stub == Step("unset", predicate, replies)
  <2>1. stub \in Stubs
    BY StepTyped
  <2>2. Append(i.stubs, stub) \in Seq(Stubs) /\ Append(given, stub) \in Seq(Stubs)
    BY <2>1, AppendProperties DEF ImposterTypeOK
  <2>3. i' = [i EXCEPT !.stubs = Append(i.stubs, stub)] /\ given' = Append(given, stub)
    BY <1>7 DEF AddStub
  <2> HIDE DEF stub
  <2>4. QED
    BY <1>7, <2>2, <2>3 DEF AddStub, ImposterTypeOK, scenarioVars
<1>8. ASSUME NEW field \in Plain, SetField(field) PROVE ImposterTypeOK'
  BY <1>8 DEF SetField, scenarioVars, ImposterTypeOK
<1>9. ASSUME NEW key \in Rift, SetRift(key) PROVE ImposterTypeOK'
  BY <1>9 DEF SetRift, scenarioVars, ImposterTypeOK
<1>10. ASSUME NEW replies \in Answers, NEW hasIs \in BOOLEAN, DefaultResponse(Head(replies), hasIs)
       PROVE  ImposterTypeOK'
  BY <1>10 DEF DefaultResponse, scenarioVars, ImposterTypeOK
<1>11. ASSUME NEW protocol \in Protocols, Protocol(protocol) PROVE ImposterTypeOK'
  BY <1>11 DEF Protocol, scenarioVars, ImposterTypeOK
<1>12. ASSUME NEW mutualAuth \in {"unset", "true", "false"}, Https(mutualAuth) PROVE ImposterTypeOK'
  BY <1>12 DEF Https, scenarioVars, ImposterTypeOK, Protocols
<1>13. ASSUME NEW anchors \in Anchors, RequireClientCertificate(anchors) PROVE ImposterTypeOK'
  BY <1>13 DEF RequireClientCertificate, scenarioVars, ImposterTypeOK, Protocols
<1>14. CASE RequireRefused \/ UNCHANGED imposterVars
  BY <1>14 DEF RequireRefused, imposterVars, scenarioVars, ImposterTypeOK
<1>15. QED
  BY <1>1, <1>3, <1>4, <1>5, <1>6, <1>7, <1>8, <1>9, <1>10, <1>11, <1>12, <1>13, <1>14 DEF ImposterNext

\* The builder's variables keep their types, whatever is chained.
THEOREM ImposterTypeCorrect == ImposterSpec => []ImposterTypeOK
BY ImposterTypeInit, ImposterTypeStep, PTL DEF ImposterSpec

-----------------------------------------------------------------------------
(* The scenario and the stubs.                                             *)

LEMMA ScenarioStep ==
  ImposterTypeOK /\ ScenarioInv /\ [ImposterNext]_imposterVars => ScenarioInv'
<1> SUFFICES ASSUME ImposterTypeOK, ScenarioInv, [ImposterNext]_imposterVars
             PROVE  ScenarioInv'
  OBVIOUS
<1>0. steps \in Seq(Stubs) /\ open \in Seq(Stubs) /\ steps \o open \in Seq(Stubs)
  BY OpenIsSeq DEF ImposterTypeOK
<1>1. ASSUME NEW state \in States, NEW predicate \in Requests, NEW replies \in Answers \cup {<<>>},
             When(state, predicate, replies)
      PROVE  ScenarioInv'
  <2> DEFINE step == Step(state, predicate, replies)
  <2>1. step \in Stubs
    BY StepTyped
  <2>2. said' = Append(steps \o open, step) /\ steps' = steps \o open /\ open' = <<step>>
    BY <1>1 DEF When, ScenarioInv
  <2> HIDE DEF step
  <2>3. Append(steps \o open, step) = (steps \o open) \o <<step>>
    BY <1>0, <2>1, AppendIsConcat
  <2>4. QED
    BY <2>2, <2>3 DEF ScenarioInv
<1>2. ASSUME NEW step, open # <<>> => step \in Stubs, Edit(step) PROVE ScenarioInv'
  <2>1. CASE open = <<>>
    BY <1>2, <2>1 DEF Edit, ScenarioInv
  <2>2. CASE open # <<>>
    <3>1. /\ step \in Stubs /\ open[1] \in Stubs /\ said = steps \o <<open[1]>>
          /\ said' = Last1(said, step) /\ steps' = steps /\ open' = <<step>>
      BY <1>2, <2>2, OpenStep DEF Edit, ScenarioInv
    <3>2. Last1(steps \o <<open[1]>>, step) = steps \o <<step>>
      BY <1>0, <3>1, LastReplaced
    <3>3. QED
      BY <3>1, <3>2 DEF ScenarioInv
  <2>3. QED
    BY <2>1, <2>2
<1>3. ASSUME NEW replies \in Answers, Respond(replies) PROVE ScenarioInv'
  <2>1. open # <<>> => [open[1] EXCEPT !.answers = replies] \in Stubs
    BY OpenStep DEF Stubs
  <2>2. QED
    BY <1>2, <1>3, <2>1 DEF Respond
<1>4. ASSUME NEW state \in States, GoTo(state) PROVE ScenarioInv'
  <2>1. open # <<>> => [open[1] EXCEPT !.next = state] \in Stubs
    BY OpenStep DEF Stubs
  <2>2. QED
    BY <1>2, <1>4, <2>1 DEF GoTo
<1>5. CASE Scenario
  <2>1. said' = said /\ steps' = steps \o open /\ open' = <<>>
    BY <1>5 DEF Scenario
  <2>2. (steps \o open) \o <<>> = steps \o open
    BY <1>0
  <2>3. QED
    BY <2>1, <2>2 DEF ScenarioInv
<1>6. CASE UNCHANGED <<said, steps, open>>
  BY <1>6 DEF ScenarioInv
<1>7. QED
  BY <1>1, <1>3, <1>4, <1>5, <1>6
     DEF ImposterNext, imposterVars, scenarioVars, StartingAt, AddStub, SetField, SetRift,
         DefaultResponse, Protocol, Https, RequireClientCertificate, RequireRefused

LEMMA StubsStep ==
  ImposterTypeOK /\ ScenarioInv /\ StubsAsGiven /\ [ImposterNext]_imposterVars => StubsAsGiven'
<1> SUFFICES ASSUME ImposterTypeOK, ScenarioInv, StubsAsGiven, [ImposterNext]_imposterVars
             PROVE  StubsAsGiven'
  OBVIOUS
<1> USE DEF StubsAsGiven
<1>1. CASE Scenario
  BY <1>1 DEF Scenario, ScenarioInv, ImposterTypeOK
<1>2. ASSUME NEW predicate \in Requests, NEW replies \in Answers, AddStub(predicate, replies)
      PROVE  StubsAsGiven'
  BY <1>2 DEF AddStub, ImposterTypeOK
<1>3. CASE UNCHANGED <<i, given>>
  BY <1>3
<1>4. ASSUME i'.stubs = i.stubs, given' = given PROVE StubsAsGiven'
  BY <1>4
<1>5. ASSUME NEW field \in Plain, SetField(field) PROVE StubsAsGiven'
  BY <1>4, <1>5 DEF SetField, ImposterTypeOK
<1>6. ASSUME NEW key \in Rift, SetRift(key) PROVE StubsAsGiven'
  BY <1>4, <1>6 DEF SetRift, ImposterTypeOK
<1>7. ASSUME NEW replies \in Answers, NEW hasIs \in BOOLEAN, DefaultResponse(Head(replies), hasIs)
      PROVE  StubsAsGiven'
  BY <1>4, <1>7 DEF DefaultResponse, ImposterTypeOK
<1>8. ASSUME NEW protocol \in Protocols, Protocol(protocol) PROVE StubsAsGiven'
  BY <1>4, <1>8 DEF Protocol, ImposterTypeOK
<1>9. ASSUME NEW mutualAuth \in {"unset", "true", "false"}, Https(mutualAuth) PROVE StubsAsGiven'
  BY <1>4, <1>9 DEF Https, ImposterTypeOK
<1>10. ASSUME NEW anchors \in Anchors, RequireClientCertificate(anchors) PROVE StubsAsGiven'
  BY <1>4, <1>10 DEF RequireClientCertificate, ImposterTypeOK
<1>11. QED
  BY <1>1, <1>2, <1>3, <1>5, <1>6, <1>7, <1>8, <1>9, <1>10
     DEF ImposterNext, imposterVars, When, Edit, Respond, GoTo, StartingAt, RequireRefused

\* The stubs of an imposter are those it was given, in the order of the calls,
\* with every step of a scenario once (dsl/scenario.ts:40-96).
THEOREM StubsInOrder == ImposterSpec => []StubsAsGiven
<1>1. ImposterInit => ScenarioInv /\ StubsAsGiven
  BY DEF ImposterInit, ScenarioInv, StubsAsGiven, NewImposter
<1>2. QED
  BY <1>1, ImposterTypeInit, ImposterTypeStep, ScenarioStep, StubsStep, PTL DEF ImposterSpec

-----------------------------------------------------------------------------
(* Client certificates.                                                    *)

LEMMA DemandStep ==
  ImposterTypeOK /\ FieldsFollowDemand /\ [ImposterNext]_imposterVars => FieldsFollowDemand'
<1> SUFFICES ASSUME ImposterTypeOK, FieldsFollowDemand, [ImposterNext]_imposterVars
             PROVE  FieldsFollowDemand'
  OBVIOUS
<1> USE DEF FieldsFollowDemand
<1>1. CASE Scenario
  BY <1>1 DEF Scenario, ImposterTypeOK
<1>2. ASSUME NEW predicate \in Requests, NEW replies \in Answers, AddStub(predicate, replies)
      PROVE  FieldsFollowDemand'
  BY <1>2 DEF AddStub, ImposterTypeOK
<1>3. CASE UNCHANGED <<i, demand>>
  BY <1>3
<1>4. ASSUME NEW field \in Plain, SetField(field) PROVE FieldsFollowDemand'
  BY <1>4 DEF SetField, ImposterTypeOK
<1>5. ASSUME NEW key \in Rift, SetRift(key) PROVE FieldsFollowDemand'
  BY <1>5 DEF SetRift, ImposterTypeOK
<1>6. ASSUME NEW replies \in Answers, NEW hasIs \in BOOLEAN, DefaultResponse(Head(replies), hasIs)
      PROVE  FieldsFollowDemand'
  BY <1>6 DEF DefaultResponse, ImposterTypeOK
<1>7. ASSUME NEW protocol \in Protocols, Protocol(protocol) PROVE FieldsFollowDemand'
  BY <1>7 DEF Protocol, ImposterTypeOK
<1>8. ASSUME NEW mutualAuth \in {"unset", "true", "false"}, Https(mutualAuth) PROVE FieldsFollowDemand'
  BY <1>8 DEF Https, ImposterTypeOK
<1>9. ASSUME NEW anchors \in Anchors, RequireClientCertificate(anchors) PROVE FieldsFollowDemand'
  BY <1>9 DEF RequireClientCertificate, ImposterTypeOK
<1>10. QED
  BY <1>1, <1>2, <1>3, <1>4, <1>5, <1>6, <1>7, <1>8, <1>9
     DEF ImposterNext, imposterVars, When, Edit, Respond, GoTo, StartingAt, RequireRefused

LEMMA DemandInv ==
  ImposterTypeOK /\ FieldsFollowDemand => DemandsAsAsked
BY DEF ImposterTypeOK, FieldsFollowDemand, DemandsAsAsked, ImposterRefused, ClientAuth

\* An imposter that is built demands the client certificate that was asked for
\* last, and has no combination of the fields the engine refuses.
THEOREM DemandsHold == ImposterSpec => []DemandsAsAsked
<1>1. ImposterInit => FieldsFollowDemand
  <2> SUFFICES ASSUME ImposterInit PROVE FieldsFollowDemand
    OBVIOUS
  <2>1. i.mutualAuth = "unset" /\ i.ca = "none" /\ i.rejectUnauthorized = FALSE
    BY DEF ImposterInit, NewImposter
  <2>2. demand.certificate = FALSE /\ demand.anchors = "none"
    BY DEF ImposterInit
  <2>3. QED
    BY <2>1, <2>2 DEF FieldsFollowDemand
<1>2. QED
  BY <1>1, ImposterTypeInit, ImposterTypeStep, DemandStep, DemandInv, PTL DEF ImposterSpec
-----------------------------------------------------------------------------
(* ResponseBuilder.                                                        *)

ResponseFields ==
  [primary : Primaries, proxy : SUBSET ProxyKeys, injected : SUBSET {"plain", "PLAIN"},
   status : Statuses \cup {"unset"}, headers : SUBSET Headers,
   body : BodyValues \cup {"unset", "base64"}, binary : BOOLEAN,
   behaviors : SUBSET Behaviours, faults : SUBSET Faults, legacy : BOOLEAN,
   script : BOOLEAN, templated : BOOLEAN, stateOps : Nat,
   raw : [is : RawIs \cup {"absent"}, behaviors : RawBlocks \cup {"absent"},
          rift : RawBlocks \cup {"absent"}, flat : BOOLEAN]]

ResponseTypeOK == b \in ResponseFields /\ calls \in Nat

\* The key k of _rift was asked for: fault() may have taken its place since.
RiftAsked(k) ==
  \/ k \in b.faults
  \/ k = "legacy tcp" /\ b.legacy
  \/ k = "script" /\ b.script
  \/ k = "templated" /\ b.templated
  \/ k = "stateOps" /\ b.stateOps > 0

\* The builder's fields still hold the facet f.
Held(f) ==
  /\ f = <<f[1], f[2]>>
  /\ f[1] \in {"primary", "status", "body", "mode", "header", "behavior", "rift", "proxy",
               "raw is", "raw behaviors", "raw rift", "raw flat"}
  /\ f[1] = "primary" => b.primary = f[2] /\ b.primary # "none"
  /\ f[1] = "status" => b.status = f[2] /\ b.status # "unset"
  /\ f[1] = "body" => b.body = f[2] /\ b.body # "unset"
  /\ f[1] = "mode" => b.binary /\ f[2] = "binary"
  /\ f[1] = "header" => f[2] \in b.headers
  /\ f[1] = "behavior" => f[2] \in b.behaviors
  /\ f[1] = "rift" => RiftAsked(f[2])
  /\ f[1] = "proxy" => f[2] \in b.proxy \cup b.injected
  /\ f[1] = "raw flat" => b.raw.flat

\* What build() relies on besides the facets.
FieldsFit ==
  /\ b.proxy \cup b.injected # {} => b.primary = "proxy"
  /\ b.body = "base64" => b.binary

ResponseInv == FieldsFit /\ \A f \in asked : Held(f)

-----------------------------------------------------------------------------
\* What stateOps(...) pushes: a number of operations, none or more when all of
\* them are taken.
LEMMA Pushed ==
  ASSUME NEW ops \in {<<TRUE>>, <<FALSE>>, <<TRUE, FALSE>>}, StateOps(ops)
  PROVE  \E pushed \in Nat, facets \in SUBSET {<<"rift", "stateOps">>} :
           /\ Chain([b EXCEPT !.stateOps = @ + pushed], {}, facets)
           /\ facets # {} => pushed > 0
<1> DEFINE refusedAt == {j \in DOMAIN ops : ~ops[j]}
           pushed == IF refusedAt = {} THEN Len(ops) ELSE (CHOOSE j \in refusedAt : TRUE) - 1
           facets == IF refusedAt = {} THEN {<<"rift", "stateOps">>} ELSE {}
<1>1. refusedAt \subseteq 1..2 /\ Len(ops) \in 1..2
  <2>1. CASE ops = <<TRUE>>
    BY <2>1
  <2>2. CASE ops = <<FALSE>>
    BY <2>2
  <2>3. CASE ops = <<TRUE, FALSE>>
    BY <2>3
  <2> QED
    BY <2>1, <2>2, <2>3
<1>2. Chain([b EXCEPT !.stateOps = @ + pushed], {}, facets)
  BY DEF StateOps
<1>3. pushed \in Nat /\ (refusedAt = {} => pushed > 0)
  <2>1. CASE refusedAt = {}
    BY <1>1, <2>1
  <2>2. CASE refusedAt # {}
    <3>1. (CHOOSE j \in refusedAt : TRUE) \in refusedAt
      BY <2>2
    <3> QED
      BY <1>1, <2>2, <3>1
  <2> QED
    BY <2>1, <2>2
<1>4. facets \in SUBSET {<<"rift", "stateOps">>} /\ (facets # {} => refusedAt = {})
  OBVIOUS
<1> HIDE DEF refusedAt, pushed, facets
<1> QED
  BY <1>2, <1>3, <1>4

LEMMA ResponseStart == ResponseInit => ResponseTypeOK /\ ResponseInv
<1> SUFFICES ASSUME ResponseInit PROVE ResponseTypeOK /\ ResponseInv
  OBVIOUS
<1>1. ResponseTypeOK /\ b.proxy = {} /\ b.injected = {} /\ b.body # "base64"
  <2>1. NoRaw \in [is : RawIs \cup {"absent"}, behaviors : RawBlocks \cup {"absent"},
                   rift : RawBlocks \cup {"absent"}, flat : BOOLEAN]
    BY DEF NoRaw
  <2>2. Fresh \in ResponseFields /\ Fresh.proxy = {} /\ Fresh.injected = {} /\ Fresh.body = "unset"
    BY <2>1 DEF Fresh, ResponseFields, Primaries
  <2>3. ASSUME NEW p \in Primaries, b = [Fresh EXCEPT !.primary = p]
        PROVE  b \in ResponseFields /\ b.proxy = {} /\ b.injected = {} /\ b.body = "unset"
    BY <2>2, <2>3 DEF ResponseFields
  <2>4. ASSUME NEW v \in BOOLEAN, b = [Fresh EXCEPT !.legacy = v] \/ b = [Fresh EXCEPT !.script = v]
        PROVE  b \in ResponseFields /\ b.proxy = {} /\ b.injected = {} /\ b.body = "unset"
    BY <2>2, <2>4 DEF ResponseFields
  <2>5. ASSUME NEW v \in {"unset", "text"}, b = [Fresh EXCEPT !.status = "valid", !.body = v]
        PROVE  b \in ResponseFields /\ b.proxy = {} /\ b.injected = {} /\ b.body # "base64"
    BY <2>2, <2>5 DEF ResponseFields, Statuses, BodyValues
  <2>6. ASSUME b = [Fresh EXCEPT !.status = "valid", !.body = "json", !.headers = {"plain"}]
        PROVE  b \in ResponseFields /\ b.proxy = {} /\ b.injected = {} /\ b.body # "base64"
    BY <2>2, <2>6 DEF ResponseFields, Statuses, BodyValues, Headers
  <2>7. TRUE \in BOOLEAN /\ calls \in Nat
    BY DEF ResponseInit
  <2> QED
    BY <2>3, <2>4, <2>5, <2>6, <2>7 DEF ResponseInit, ResponseTypeOK
<1>2. ASSUME NEW f \in asked PROVE Held(f)
  <2>1. f \in Facets(b) /\ f[2] \notin {"none", "unset"}
    BY DEF ResponseInit
  <2>2. CASE \E h \in b.headers : f = <<"header", h>>
    BY <2>2 DEF Held
  <2>3. CASE \E k \in RiftKeys(b) : f = <<"rift", k>>
    <3>1. \A k \in RiftKeys(b) : RiftAsked(k)
      BY DEF RiftKeys, RiftAsked
    <3> QED
      BY <2>3, <3>1 DEF Held
  <2>4. CASE f \in {<<"primary", b.primary>>, <<"status", b.status>>, <<"body", b.body>>}
    <3>1. /\ f = <<"primary", b.primary>> => b.primary # "none"
          /\ f = <<"status", b.status>> => b.status # "unset"
          /\ f = <<"body", b.body>> => b.body # "unset"
      BY <2>1
    <3>2. CASE f = <<"primary", b.primary>>
      BY <3>1, <3>2 DEF Held
    <3>3. CASE f = <<"status", b.status>>
      BY <3>1, <3>3 DEF Held
    <3>4. CASE f = <<"body", b.body>>
      BY <3>1, <3>4 DEF Held
    <3> QED
      BY <2>4, <3>2, <3>3, <3>4
  <2> QED
    BY <2>1, <2>2, <2>3, <2>4 DEF Facets
<1> QED
  BY <1>1, <1>2 DEF ResponseInv, FieldsFit

LEMMA ResponseTypeStep == ResponseTypeOK /\ [ResponseNext]_responseVars => ResponseTypeOK'
<1> SUFFICES ASSUME ResponseTypeOK, [ResponseNext]_responseVars PROVE ResponseTypeOK'
  OBVIOUS
<1>a. ASSUME NEW after \in ResponseFields, NEW replaced, NEW facets, Chain(after, replaced, facets)
      PROVE  ResponseTypeOK'
  BY <1>a DEF Chain, ResponseTypeOK
<1>b. b \in ResponseFields
  BY DEF ResponseTypeOK
<1>c. Throw => ResponseTypeOK'
  BY <1>a, <1>b DEF Throw
<1>d. TRUE \in BOOLEAN
  OBVIOUS
<1>1. ASSUME NEW code \in Statuses, Status(code) PROVE ResponseTypeOK'
  <2>1. [b EXCEPT !.status = code] \in ResponseFields
    BY <1>b DEF ResponseFields
  <2> QED
    BY <1>1, <1>a, <2>1 DEF Status
<1>2. ASSUME NEW names \in SUBSET Headers, Header(names) PROVE ResponseTypeOK'
  <2>1. [b EXCEPT !.headers = @ \cup names] \in ResponseFields
    BY <1>b DEF ResponseFields
  <2> QED
    BY <1>2, <1>a, <2>1 DEF Header
<1>3. ASSUME NEW value \in BodyValues, Body(value) PROVE ResponseTypeOK'
  <2>1. [b EXCEPT !.body = value] \in ResponseFields
    BY <1>b DEF ResponseFields
  <2> QED
    BY <1>3, <1>a, <2>1 DEF Body
<1>4. ASSUME NEW data, BinaryBody(data) PROVE ResponseTypeOK'
  <2>1. [b EXCEPT !.body = "base64"] \in ResponseFields
    BY <1>b DEF ResponseFields
  <2>2. \A x \in ResponseFields, v \in BOOLEAN : [x EXCEPT !.binary = v] \in ResponseFields
    BY DEF ResponseFields
  <2>3. [b EXCEPT !.body = "base64", !.binary = TRUE] = [[b EXCEPT !.body = "base64"] EXCEPT !.binary = TRUE]
    OBVIOUS
  <2>4. [b EXCEPT !.body = "base64", !.binary = TRUE] \in ResponseFields
    BY <1>d, <2>1, <2>2, <2>3
  <2> QED
    BY <1>4, <1>a, <1>c, <2>4 DEF BinaryBody
<1>5. ASSUME NEW key \in Behaviours, NEW argument, Behave(key, argument) PROVE ResponseTypeOK'
  <2>1. [b EXCEPT !.behaviors = @ \cup {key}] \in ResponseFields
    BY <1>b DEF ResponseFields
  <2> QED
    BY <1>5, <1>a, <1>b, <1>c, <2>1 DEF Behave
<1>6. ASSUME NEW kind \in Faults, WithFault(kind) PROVE ResponseTypeOK'
  <2>1. [b EXCEPT !.faults = @ \cup {kind}] \in ResponseFields
    BY <1>b DEF ResponseFields
  <2> QED
    BY <1>6, <1>a, <1>c, <2>1 DEF WithFault
<1>7. CASE Fault
  <2>1. \A v \in BOOLEAN : [b EXCEPT !.legacy = v] \in ResponseFields
    BY <1>b DEF ResponseFields
  <2> QED
    BY <1>7, <1>a, <1>d, <2>1 DEF Fault
<1>8. ASSUME NEW present, Script(present) PROVE ResponseTypeOK'
  <2>1. \A v \in BOOLEAN : [b EXCEPT !.script = v] \in ResponseFields
    BY <1>b DEF ResponseFields
  <2> QED
    BY <1>8, <1>a, <1>c, <1>d, <2>1 DEF Script
<1>9. CASE Templated
  <2>1. \A v \in BOOLEAN : [b EXCEPT !.templated = v] \in ResponseFields
    BY <1>b DEF ResponseFields
  <2> QED
    BY <1>9, <1>a, <1>d, <2>1 DEF Templated
<1>10. ASSUME NEW ops \in {<<TRUE>>, <<FALSE>>, <<TRUE, FALSE>>}, StateOps(ops) PROVE ResponseTypeOK'
  <2>1. PICK pushed \in Nat, facets \in SUBSET {<<"rift", "stateOps">>} :
          Chain([b EXCEPT !.stateOps = @ + pushed], {}, facets)
    BY <1>10, Pushed DEF StateOps
  <2>2. [b EXCEPT !.stateOps = @ + pushed] \in ResponseFields
    BY <1>b DEF ResponseFields
  <2> QED
    BY <1>a, <2>1, <2>2
<1>11. ASSUME NEW block \in {"is", "behaviors", "rift"}, NEW patch,
              patch \in IF block = "is" THEN RawIs ELSE RawBlocks, Raw(block, patch)
       PROVE  ResponseTypeOK'
  <2>1. [b EXCEPT !.raw[block] = patch] \in ResponseFields
    BY <1>b, <1>11 DEF ResponseFields
  <2> QED
    BY <1>11, <1>a, <2>1 DEF Raw
<1>12. CASE RawFlat
  <2>1. \A v \in BOOLEAN : [b EXCEPT !.raw.flat = v] \in ResponseFields
    BY <1>b DEF ResponseFields
  <2> QED
    BY <1>12, <1>a, <1>d, <2>1 DEF RawFlat
<1>13. ASSUME NEW key \in ProxyKeys, Patch(key) PROVE ResponseTypeOK'
  <2>1. [b EXCEPT !.proxy = @ \cup {key}] \in ResponseFields
    BY <1>b DEF ResponseFields
  <2> QED
    BY <1>13, <1>a, <2>1 DEF Patch
<1>14. ASSUME NEW name \in {"plain", "PLAIN"}, InjectHeader(name) PROVE ResponseTypeOK'
  <2>1. [b EXCEPT !.injected = {name}] \in ResponseFields
    BY <1>b DEF ResponseFields
  <2> QED
    BY <1>14, <1>a, <1>c, <2>1 DEF InjectHeader
<1>15. CASE UNCHANGED responseVars
  BY <1>15 DEF responseVars, ResponseTypeOK
<1> QED
  BY <1>1, <1>2, <1>3, <1>4, <1>5, <1>6, <1>7, <1>8, <1>9, <1>10, <1>11, <1>12, <1>13, <1>14, <1>15
     DEF ResponseNext, Headers

\* The fields of the builder grow, except those of the kinds that are replaced.
GrowsBut(kinds) ==
  /\ b'.primary = b.primary
  /\ b'.status = b.status \/ "status" \in kinds
  /\ b'.body = b.body \/ "body" \in kinds
  /\ b.binary => b'.binary
  /\ b.headers \subseteq b'.headers
  /\ b.behaviors \subseteq b'.behaviors
  /\ b.faults \subseteq b'.faults
  /\ b.legacy => b'.legacy
  /\ b.script => b'.script
  /\ b.templated => b'.templated
  /\ b.stateOps > 0 => b'.stateOps > 0
  /\ b.proxy \cup b.injected \subseteq b'.proxy \cup b'.injected
  /\ b.raw.flat => b'.raw.flat

LEMMA ResponseStep ==
  ResponseTypeOK /\ ResponseInv /\ [ResponseNext]_responseVars => ResponseInv'
<1> SUFFICES ASSUME ResponseTypeOK, ResponseInv, [ResponseNext]_responseVars PROVE ResponseInv'
  OBVIOUS
<1>0. b \in ResponseFields
  BY DEF ResponseTypeOK
\* Facets stay that are not replaced, when the fields they are held in only grow.
<1>a. ASSUME NEW kinds, GrowsBut(kinds), FieldsFit',
             \A f \in asked' : (f \in asked /\ f[1] \notin kinds) \/ Held(f)'
      PROVE  ResponseInv'
  <2>1. ASSUME NEW f \in asked, f[1] \notin kinds PROVE Held(f)'
    <3>1. Held(f)
      BY DEF ResponseInv
    <3>2. f[1] = "rift" => RiftAsked(f[2])'
      BY <3>1, <1>a DEF Held, RiftAsked, GrowsBut
    <3> QED
      BY <3>1, <3>2, <2>1, <1>a DEF Held, GrowsBut
  <2> QED
    BY <1>a, <2>1 DEF ResponseInv
<1>u. ASSUME UNCHANGED <<b, asked>> PROVE ResponseInv'
  <2>0. \A k : RiftAsked(k) => RiftAsked(k)'
    BY <1>u DEF RiftAsked
  <2>1. ASSUME NEW f, Held(f) PROVE Held(f)'
    BY <1>u, <2>0, <2>1 DEF Held
  <2>2. FieldsFit'
    BY <1>u DEF ResponseInv, FieldsFit
  <2> QED
    BY <1>u, <2>1, <2>2 DEF ResponseInv
<1>c. ASSUME Throw PROVE ResponseInv'
  <2>1. b' = b /\ asked' = asked
    BY <1>c DEF Throw, Chain
  <2> QED
    BY <2>1, <1>u
<1>1. ASSUME NEW code \in Statuses, Status(code) PROVE ResponseInv'
  <2>1. b' = [b EXCEPT !.status = code] /\ asked' = (asked \ OfKind("status")) \cup {<<"status", code>>}
    BY <1>1 DEF Status, Chain
  <2>2. \A f \in asked' : (f \in asked /\ f[1] \notin {"status"}) \/ Held(f)'
    <3>1. Held(<<"status", code>>)'
      BY <1>0, <2>1 DEF Held, ResponseFields, Statuses
    <3> QED
      BY <2>1, <3>1 DEF OfKind
  <2>3. GrowsBut({"status"})
    BY <1>0, <2>1 DEF GrowsBut, ResponseFields
  <2>4. FieldsFit'
    BY <1>0, <2>1 DEF ResponseFields, FieldsFit, ResponseInv, Statuses
  <2> QED
    BY <1>a, <2>2, <2>3, <2>4
<1>2. ASSUME NEW names, Header(names) PROVE ResponseInv'
  <2>1. b' = [b EXCEPT !.headers = @ \cup names] /\ asked' = asked \cup {<<"header", h>> : h \in names}
    BY <1>2 DEF Header, Chain
  <2>2. \A f \in asked' : (f \in asked /\ f[1] \notin {}) \/ Held(f)'
    <3>1. \A h \in names : Held(<<"header", h>>)'
      BY <1>0, <2>1 DEF Held, ResponseFields
    <3> QED
      BY <2>1, <3>1
  <2>3. GrowsBut({})
    BY <1>0, <2>1 DEF GrowsBut, ResponseFields
  <2>4. FieldsFit'
    BY <1>0, <2>1 DEF ResponseFields, FieldsFit, ResponseInv
  <2> QED
    BY <1>a, <2>2, <2>3, <2>4
<1>3. ASSUME NEW value \in BodyValues, Body(value) PROVE ResponseInv'
  <2>1. b' = [b EXCEPT !.body = value] /\ asked' = (asked \ OfKind("body")) \cup {<<"body", value>>}
    BY <1>3 DEF Body, Chain
  <2>2. \A f \in asked' : (f \in asked /\ f[1] \notin {"body"}) \/ Held(f)'
    <3>1. Held(<<"body", value>>)'
      BY <1>0, <2>1 DEF Held, ResponseFields, BodyValues
    <3> QED
      BY <2>1, <3>1 DEF OfKind
  <2>3. GrowsBut({"body"})
    BY <1>0, <2>1 DEF GrowsBut, ResponseFields
  <2>4. FieldsFit'
    BY <1>0, <2>1 DEF ResponseFields, FieldsFit, ResponseInv, BodyValues
  <2> QED
    BY <1>a, <2>2, <2>3, <2>4
<1>4. ASSUME NEW data, BinaryBody(data), ~Throw PROVE ResponseInv'
  <2>1. b' = [b EXCEPT !.body = "base64", !.binary = TRUE] /\ asked' = (asked \ OfKind("body")) \cup {<<"body", "base64">>, <<"mode", "binary">>}
    BY <1>4 DEF BinaryBody, Chain
  <2>2. \A f \in asked' : (f \in asked /\ f[1] \notin {"body"}) \/ Held(f)'
    <3>1. Held(<<"body", "base64">>)'
      BY <1>0, <2>1 DEF Held, ResponseFields
    <3>2. Held(<<"mode", "binary">>)'
      BY <1>0, <2>1 DEF Held, ResponseFields
    <3> QED
      BY <2>1, <3>1, <3>2 DEF OfKind
  <2>3. GrowsBut({"body"})
    BY <1>0, <2>1 DEF GrowsBut, ResponseFields
  <2>4. FieldsFit'
    BY <1>0, <2>1 DEF ResponseFields, FieldsFit, ResponseInv
  <2> QED
    BY <1>a, <2>2, <2>3, <2>4
<1>5. ASSUME NEW key \in Behaviours, NEW argument, Behave(key, argument), argument \notin {"refused", "nothing"} PROVE ResponseInv'
  <2>1. b' = [b EXCEPT !.behaviors = @ \cup {key}] /\ asked' = asked \cup {<<"behavior", key>>}
    BY <1>5 DEF Behave, Chain
  <2>2. \A f \in asked' : (f \in asked /\ f[1] \notin {}) \/ Held(f)'
    <3>1. Held(<<"behavior", key>>)'
      BY <1>0, <2>1 DEF Held, ResponseFields
    <3> QED
      BY <2>1, <3>1 DEF OfKind
  <2>3. GrowsBut({})
    BY <1>0, <2>1 DEF GrowsBut, ResponseFields
  <2>4. FieldsFit'
    BY <1>0, <2>1 DEF ResponseFields, FieldsFit, ResponseInv
  <2> QED
    BY <1>a, <2>2, <2>3, <2>4
<1>6. ASSUME NEW kind \in Faults, WithFault(kind), ~Throw PROVE ResponseInv'
  <2>1. b' = [b EXCEPT !.faults = @ \cup {kind}] /\ asked' = asked \cup {<<"rift", kind>>}
    BY <1>6 DEF WithFault, Chain
  <2>2. \A f \in asked' : (f \in asked /\ f[1] \notin {}) \/ Held(f)'
    <3>1. RiftAsked(kind)'
      BY <1>0, <2>1 DEF RiftAsked, ResponseFields
    <3>2. Held(<<"rift", kind>>)'
      BY <3>1 DEF Held
    <3> QED
      BY <2>1, <3>2 DEF OfKind
  <2>3. GrowsBut({})
    BY <1>0, <2>1 DEF GrowsBut, ResponseFields
  <2>4. FieldsFit'
    BY <1>0, <2>1 DEF ResponseFields, FieldsFit, ResponseInv
  <2> QED
    BY <1>a, <2>2, <2>3, <2>4
<1>7. CASE Fault
  <2>1. b' = [b EXCEPT !.legacy = TRUE] /\ asked' = asked \cup {<<"rift", "legacy tcp">>}
    BY <1>7 DEF Fault, Chain
  <2>2. \A f \in asked' : (f \in asked /\ f[1] \notin {}) \/ Held(f)'
    <3>1. RiftAsked("legacy tcp")'
      BY <1>0, <2>1 DEF RiftAsked, ResponseFields
    <3>2. Held(<<"rift", "legacy tcp">>)'
      BY <3>1 DEF Held
    <3> QED
      BY <2>1, <3>2 DEF OfKind
  <2>3. GrowsBut({})
    BY <1>0, <2>1 DEF GrowsBut, ResponseFields
  <2>4. FieldsFit'
    BY <1>0, <2>1 DEF ResponseFields, FieldsFit, ResponseInv
  <2> QED
    BY <1>a, <2>2, <2>3, <2>4
<1>8. ASSUME NEW present, Script(present), ~Throw PROVE ResponseInv'
  <2>1. b' = [b EXCEPT !.script = TRUE] /\ asked' = asked \cup {<<"rift", "script">>}
    BY <1>8 DEF Script, Chain
  <2>2. \A f \in asked' : (f \in asked /\ f[1] \notin {}) \/ Held(f)'
    <3>1. RiftAsked("script")'
      BY <1>0, <2>1 DEF RiftAsked, ResponseFields
    <3>2. Held(<<"rift", "script">>)'
      BY <3>1 DEF Held
    <3> QED
      BY <2>1, <3>2 DEF OfKind
  <2>3. GrowsBut({})
    BY <1>0, <2>1 DEF GrowsBut, ResponseFields
  <2>4. FieldsFit'
    BY <1>0, <2>1 DEF ResponseFields, FieldsFit, ResponseInv
  <2> QED
    BY <1>a, <2>2, <2>3, <2>4
<1>9. CASE Templated
  <2>1. b' = [b EXCEPT !.templated = TRUE] /\ asked' = asked \cup {<<"rift", "templated">>}
    BY <1>9 DEF Templated, Chain
  <2>2. \A f \in asked' : (f \in asked /\ f[1] \notin {}) \/ Held(f)'
    <3>1. RiftAsked("templated")'
      BY <1>0, <2>1 DEF RiftAsked, ResponseFields
    <3>2. Held(<<"rift", "templated">>)'
      BY <3>1 DEF Held
    <3> QED
      BY <2>1, <3>2 DEF OfKind
  <2>3. GrowsBut({})
    BY <1>0, <2>1 DEF GrowsBut, ResponseFields
  <2>4. FieldsFit'
    BY <1>0, <2>1 DEF ResponseFields, FieldsFit, ResponseInv
  <2> QED
    BY <1>a, <2>2, <2>3, <2>4
<1>10. CASE RawFlat
  <2>1. b' = [b EXCEPT !.raw.flat = TRUE] /\ asked' = asked \cup {<<"raw flat", "status">>}
    BY <1>10 DEF RawFlat, Chain
  <2>2. \A f \in asked' : (f \in asked /\ f[1] \notin {}) \/ Held(f)'
    <3>1. Held(<<"raw flat", "status">>)'
      BY <1>0, <2>1 DEF Held, ResponseFields
    <3> QED
      BY <2>1, <3>1 DEF OfKind
  <2>3. GrowsBut({})
    BY <1>0, <2>1 DEF GrowsBut, ResponseFields
  <2>4. FieldsFit'
    BY <1>0, <2>1 DEF ResponseFields, FieldsFit, ResponseInv
  <2> QED
    BY <1>a, <2>2, <2>3, <2>4
<1>11. ASSUME NEW key \in ProxyKeys, Patch(key) PROVE ResponseInv'
  <2>1. b' = [b EXCEPT !.proxy = @ \cup {key}] /\ asked' = asked \cup {<<"proxy", key>>}
    BY <1>11 DEF Patch, Chain
  <2>2. \A f \in asked' : (f \in asked /\ f[1] \notin {}) \/ Held(f)'
    <3>1. Held(<<"proxy", key>>)'
      BY <1>0, <2>1 DEF Held, ResponseFields, Patch
    <3> QED
      BY <2>1, <3>1 DEF OfKind
  <2>3. GrowsBut({})
    BY <1>0, <2>1, <1>11 DEF GrowsBut, ResponseFields
  <2>4. FieldsFit'
    BY <1>0, <2>1, <1>11 DEF ResponseFields, FieldsFit, ResponseInv, Patch
  <2> QED
    BY <1>a, <2>2, <2>3, <2>4
<1>12. ASSUME NEW name, InjectHeader(name), ~Throw PROVE ResponseInv'
  <2>1. b' = [b EXCEPT !.injected = {name}] /\ asked' = asked \cup {<<"proxy", name>>}
    BY <1>12 DEF InjectHeader, Chain
  <2>2. \A f \in asked' : (f \in asked /\ f[1] \notin {}) \/ Held(f)'
    <3>1. Held(<<"proxy", name>>)'
      BY <1>0, <2>1 DEF Held, ResponseFields, InjectHeader
    <3> QED
      BY <2>1, <3>1 DEF OfKind
  <2>3. GrowsBut({})
    BY <1>0, <2>1, <1>12 DEF GrowsBut, ResponseFields, InjectHeader
  <2>4. FieldsFit'
    BY <1>0, <2>1, <1>12 DEF ResponseFields, FieldsFit, ResponseInv, InjectHeader
  <2> QED
    BY <1>a, <2>2, <2>3, <2>4
<1>13. ASSUME NEW ops \in {<<TRUE>>, <<FALSE>>, <<TRUE, FALSE>>}, StateOps(ops) PROVE ResponseInv'
  <2>0. PICK pushed \in Nat, facets \in SUBSET {<<"rift", "stateOps">>} :
          /\ Chain([b EXCEPT !.stateOps = @ + pushed], {}, facets)
          /\ facets # {} => pushed > 0
    BY <1>13, Pushed
  <2>1. b' = [b EXCEPT !.stateOps = @ + pushed] /\ asked' = asked \cup facets
    BY <2>0 DEF Chain
  <2>2. \A f \in asked' : (f \in asked /\ f[1] \notin {}) \/ Held(f)'
    <3>1. facets # {} => RiftAsked("stateOps")'
      BY <1>0, <2>0, <2>1 DEF RiftAsked, ResponseFields
    <3>2. facets # {} => Held(<<"rift", "stateOps">>)'
      BY <3>1 DEF Held
    <3> QED
      BY <2>1, <3>2
  <2>3. GrowsBut({})
    BY <1>0, <2>1 DEF GrowsBut, ResponseFields
  <2>4. FieldsFit'
    BY <1>0, <2>1 DEF ResponseFields, FieldsFit, ResponseInv
  <2> QED
    BY <1>a, <2>2, <2>3, <2>4
<1>14. ASSUME NEW block \in {"is", "behaviors", "rift"}, NEW patch, Raw(block, patch) PROVE ResponseInv'
  <2>0. RawKind[block] \in {"raw is", "raw behaviors", "raw rift"}
    <3>1. RawKind.is = "raw is" /\ RawKind.behaviors = "raw behaviors" /\ RawKind.rift = "raw rift"
      BY DEF RawKind
    <3> QED
      BY <3>1
  <2>1. /\ b' = [b EXCEPT !.raw[block] = patch]
        /\ asked' = (asked \ OfKind(RawKind[block])) \cup {<<RawKind[block], patch>>}
    BY <1>14 DEF Raw, Chain
  <2>2. \A f \in asked' : (f \in asked /\ f[1] \notin {}) \/ Held(f)'
    <3>1. Held(<<RawKind[block], patch>>)'
      BY <2>0 DEF Held
    <3> QED
      BY <2>1, <3>1
  <2>3. GrowsBut({})
    BY <1>0, <2>1 DEF GrowsBut, ResponseFields
  <2>4. FieldsFit'
    BY <1>0, <2>1 DEF ResponseFields, FieldsFit, ResponseInv
  <2> QED
    BY <1>a, <2>2, <2>3, <2>4
<1>15. ASSUME UNCHANGED <<b, asked>> PROVE ResponseInv'
  BY <1>15, <1>u
<1>16. ASSUME NEW key \in Behaviours, NEW argument \in {"usable", "refused", "nothing"}, Behave(key, argument)
       PROVE  ResponseInv'
  BY <1>5, <1>15, <1>16 DEF Behave, Throw, Chain
<1> QED
  BY <1>1, <1>2, <1>3, <1>4, <1>6, <1>7, <1>8, <1>9, <1>10, <1>11, <1>12, <1>13, <1>14, <1>15, <1>16, <1>c
     DEF ResponseNext, responseVars

LEMMA ResponseTyped == ResponseSpec => [](ResponseTypeOK /\ ResponseInv)
BY ResponseStart, ResponseTypeStep, ResponseStep, PTL DEF ResponseSpec

-----------------------------------------------------------------------------
(* What build() returns.                                                   *)

\* A response that is built has no content beside a primary, and all of the
\* keys of _rift that were asked for.
LEMMA Fit ==
  ASSUME ResponseTypeOK, ResponseInv, ~Refused(b)
  PROVE  /\ b.primary # "none" => ~HasIsContent(b)
         /\ \A k : RiftAsked(k) => k \in RiftKeys(b)
         /\ b.stateOps > 0 => ~b.script /\ HasIsContent(b)
<1>1. b.primary # "none" => ~HasIsContent(b)
  BY DEF Refused
<1>2. b.stateOps > 0 => ~b.script /\ HasIsContent(b)
  BY DEF Refused
<1>3. ~(b.legacy /\ "tcp" \in b.faults)
  BY DEF Refused
<1>4. ASSUME NEW k, RiftAsked(k) PROVE k \in RiftKeys(b)
  BY <1>3, <1>4 DEF RiftAsked, RiftKeys
<1> QED
  BY <1>1, <1>2, <1>4

\* An is with content is sent, unless the caller patched it away.
LEMMA IsThere ==
  ASSUME ResponseTypeOK, HasIsContent(b), b.primary = "none", b.raw.is # "undefined"
  PROVE  Build(b).is.kind # "absent"
<1>1. b.raw.is = "absent" => Build(b).is.kind = "object"
  BY DEF Build, IsBlock
<1>2. b.raw.is # "absent" => Build(b).is = PatchedIs(b.raw.is)
  BY DEF Build
<1>3. b.raw.is # "absent" => PatchedIs(b.raw.is).kind \in {"malformed", "object"}
  BY DEF PatchedIs, NoIs
<1> QED
  BY <1>1, <1>2, <1>3

\* What was asked and is not let through takes effect, or is the caller's patch.
LEMMA Delivered ==
  ASSUME ResponseTypeOK, ResponseInv, ~Refused(b), NEW f \in Wanted \ LetThrough
  PROVE  f \in Found(Build(b)) \/ f[1] \in {"raw is", "raw behaviors", "raw rift", "raw flat"}
<1>1. Held(f) /\ f[1] \notin Overridden
  BY DEF Wanted, ResponseInv
<1>2. CASE f[1] = "primary"
  BY <1>1, <1>2 DEF Held, Found, Build
<1>3. CASE f[1] \in {"status", "body", "mode", "header"}
  <2>1. b.raw.is = "absent"
    BY <1>1, <1>3 DEF Overridden
  <2>2. HasIsContent(b)
    BY <1>1, <1>3 DEF Held, HasIsContent
  <2>3. b.primary = "none"
    BY <2>2, Fit
  <2>4. Build(b).is = [kind |-> "object", status |-> b.status, headers |-> b.headers, body |-> b.body,
                       mode |-> IF b.binary THEN "binary" ELSE "unset", nested |-> FALSE]
    BY <2>1, <2>2, <2>3 DEF Build, IsBlock
  <2>5. /\ f = <<"status", b.status>> => f \in Found(Build(b))
        /\ f = <<"body", b.body>> => f \in Found(Build(b))
        /\ f = <<"mode", "binary">> /\ b.binary => f \in Found(Build(b))
        /\ \A h \in b.headers : <<"header", h>> \in Found(Build(b))
    BY <2>4 DEF Found
  <2>6. /\ f[1] = "status" => f = <<"status", b.status>>
        /\ f[1] = "body" => f = <<"body", b.body>>
        /\ f[1] = "mode" => f = <<"mode", "binary">> /\ b.binary
        /\ f[1] = "header" => f = <<"header", f[2]>> /\ f[2] \in b.headers
    BY <1>1 DEF Held
  <2> QED
    BY <1>3, <2>5, <2>6
<1>4. CASE f[1] = "behavior"
  <2>1. b.raw.behaviors = "absent" /\ f[2] \in b.behaviors
    BY <1>1, <1>4 DEF Overridden, Held
  <2>2. Build(b).behaviors.keys = b.behaviors
    BY <2>1 DEF Build, Block
  <2>3. f = <<"behavior", f[2]>> /\ f[2] \in Behaviours
    BY <1>1, <1>4 DEF Held, ResponseTypeOK, ResponseFields
  <2>4. CASE f[2] = "repeat"
    BY <2>1, <2>2, <2>3, <2>4 DEF Found
  <2>5. CASE f[2] # "repeat"
    <3>1. ~(b.primary = "fault")
      BY <2>3, <2>5 DEF LetThrough
    <3>2. ~(b.primary = "none" /\ b.script /\ (~HasIsContent(b) \/ b.raw.is = "undefined"))
      BY <2>3, <2>5 DEF LetThrough
    <3>3. ~RepeatOnly(Build(b))
      <4>1. Build(b).primary = b.primary
        BY DEF Build
      <4>2. CASE b.primary # "none"
        BY <3>1, <4>1, <4>2 DEF RepeatOnly
      <4>3. CASE b.primary = "none" /\ ~b.script
        <5>1. "script" \notin Build(b).rift.keys
          <6>1. "script" \notin RiftKeys(b)
            BY <4>3 DEF RiftKeys, ResponseTypeOK, ResponseFields, Faults
          <6>2. Build(b).rift = Block(RiftKeys(b), b.raw.rift)
            BY DEF Build
          <6> QED
            BY <6>1, <6>2 DEF Block
        <5> QED
          BY <4>1, <4>3, <5>1 DEF RepeatOnly
      <4>4. CASE b.primary = "none" /\ HasIsContent(b) /\ b.raw.is # "undefined"
        <5>1. Build(b).is.kind # "absent"
          BY <4>4, IsThere
        <5> QED
          BY <4>1, <4>4, <5>1 DEF RepeatOnly
      <4> QED
        BY <3>2, <4>2, <4>3, <4>4
    <3> QED
      BY <2>1, <2>2, <2>3, <3>3 DEF Found
  <2> QED
    BY <2>4, <2>5
<1>5. CASE f[1] = "rift"
  <2>1. b.raw.rift = "absent" /\ f[2] \in RiftKeys(b)
    BY <1>1, <1>5, Fit DEF Overridden, Held
  <2>2. Build(b).rift.keys = RiftKeys(b)
    BY <2>1 DEF Build, Block
  <2>3. CASE f[2] # "stateOps"
    BY <1>1, <1>5, <2>1, <2>2, <2>3 DEF Held, Found
  <2>4. CASE f[2] = "stateOps"
    <3>1. b.stateOps > 0 /\ f = <<"rift", "stateOps">>
      BY <1>1, <1>5, <2>4 DEF Held, RiftAsked, ResponseTypeOK, ResponseFields, Faults
    <3>2. ~b.script /\ HasIsContent(b) /\ b.primary = "none"
      BY <3>1, Fit
    <3>3. b.raw.is # "undefined" /\ ~b.legacy /\ "tcp" \notin b.faults
      BY <3>1 DEF LetThrough
    <3>4. RiftKeys(b) \cap {"script", "tcp", "legacy tcp"} = {}
      BY <3>2, <3>3 DEF RiftKeys, ResponseTypeOK, ResponseFields, Faults
    <3>5. Build(b).is.kind # "absent"
      BY <3>2, <3>3, IsThere
    <3>6. ~StateOpsIdle(Build(b))
      BY <2>2, <3>4, <3>5 DEF StateOpsIdle
    <3> QED
      BY <2>1, <2>2, <2>4, <3>1, <3>6 DEF Found
  <2> QED
    BY <2>3, <2>4
<1>6. CASE f[1] = "proxy"
  BY <1>1, <1>6 DEF Held, Found, Build
<1> QED
  BY <1>1, <1>2, <1>3, <1>4, <1>5, <1>6 DEF Held

\* A response that is built has everything that was asked of it take effect
\* (dsl/response.ts:325-352), however many calls were chained and whatever each
\* threw at; except for behaviors on a native fault or a script alone and state
\* operations beside a TCP fault, which the engine only warns of.
THEOREM NothingDropped == ResponseSpec => []NothingSilentlyDropped
<1>1. ResponseTypeOK /\ ResponseInv => NothingSilentlyDropped
  BY Delivered DEF NothingSilentlyDropped
<1> QED
  BY <1>1, ResponseTyped, PTL

-----------------------------------------------------------------------------
(* What a rule serves.                                                     *)

\* An is block that a rule takes arrives as it was given.
LEMMA BlockServed ==
  ASSUME NEW is, ~ServeStubRefused(is), is.body # "base64",
         is.mode \in {"unset", "text", "binary", "unknown"}
  PROVE  /\ <<"status", is.status>> \in Served(is)
         /\ <<"body", is.body>> \in Served(is)
         /\ \A h \in is.headers : <<"header", h>> \in Served(is)
         /\ Meant(is) \subseteq Served(is)
         /\ is.mode \in {"unset", "text"}
<1>1. is.status # "invalid" /\ is.body # "unserializable" /\ is.mode \in {"unset", "text"}
  BY DEF ServeStubRefused, StatusRefused, BodyRefused
<1>2. /\ is.headers \cap {"managed", "malformed", "control", "empty"} = {}
      /\ ~({"plain", "PLAIN"} \subseteq is.headers)
  BY DEF ServeStubRefused, HeadersRefused
<1>3. <<"status", is.status>> \in Served(is) /\ <<"body", is.body>> \in Served(is)
  BY <1>1 DEF Served
<1>4. \A h \in is.headers : <<"header", h>> \in Served(is)
  BY <1>2 DEF Served
<1> QED
  BY <1>1, <1>3, <1>4 DEF Meant

\* The is block of what is built: bytes have their mode with them.
LEMMA BuiltBlock ==
  ASSUME ResponseTypeOK, ResponseInv, Build(b).is.kind = "object"
  PROVE  /\ Build(b).is.mode \in {"unset", "text", "binary", "unknown"}
         /\ Build(b).is.body = "base64" => Build(b).is.mode = "binary"
         /\ b.raw.is = "absent" =>
              /\ Build(b).is.status = b.status /\ Build(b).is.body = b.body
              /\ Build(b).is.headers = b.headers
              /\ b.binary => Build(b).is.mode = "binary"
<1>1. CASE b.raw.is = "absent"
  <2>1. Build(b).is = IsBlock(b)
    BY <1>1 DEF Build
  <2>2. b.primary = "none" /\ HasIsContent(b)
    BY <2>1 DEF IsBlock, NoIs
  <2>3. IsBlock(b) =
          [kind |-> "object", status |-> b.status, headers |-> b.headers, body |-> b.body,
           mode |-> IF b.binary THEN "binary" ELSE "unset", nested |-> FALSE]
    BY <2>2 DEF IsBlock
  <2>4. b.body = "base64" => b.binary
    BY DEF ResponseInv, FieldsFit
  <2> QED
    BY <1>1, <2>1, <2>3, <2>4
<1>2. CASE b.raw.is # "absent"
  <2>1. Build(b).is = PatchedIs(b.raw.is)
    BY <1>2 DEF Build
  <2>2. /\ PatchedIs(b.raw.is).mode \in {"unset", "text", "unknown"}
        /\ PatchedIs(b.raw.is).body = "unset"
    BY DEF PatchedIs, NoIs
  <2> QED
    BY <1>2, <2>1, <2>2
<1> QED
  BY <1>1, <1>2

\* A rule that serve() accepts replies what was asked for, for any chain of calls
\* that built its response (intercept/rules.ts:83-169, 314-336).
THEOREM ServedAsAsked == ResponseSpec => []ServedIsWhatWasAsked
<1> DEFINE wire == Build(b)
<1>1. ASSUME ResponseTypeOK, ResponseInv, wire.is.kind = "object", ~ServeStubRefused(wire.is)
      PROVE  /\ <<"status", wire.is.status>> \in Served(wire.is)
             /\ <<"body", wire.is.body>> \in Served(wire.is)
             /\ \A h \in wire.is.headers : <<"header", h>> \in Served(wire.is)
             /\ Meant(wire.is) \subseteq Served(wire.is)
             /\ wire.is.mode \in {"unset", "text"}
  <2>1. wire.is.mode # "binary"
    BY <1>1 DEF ServeStubRefused
  <2>2. wire.is.body # "base64" /\ wire.is.mode \in {"unset", "text", "binary", "unknown"}
    BY <1>1, <2>1, BuiltBlock
  <2> HIDE DEF wire
  <2> QED
    BY <1>1, <2>2, BlockServed
<1>2. ASSUME ResponseTypeOK, ResponseInv, ~ServeLiteralRefused(wire)
      PROVE  /\ Meant(wire.is) \subseteq Served(wire.is)
             /\ wire.is.mode \in {"unset", "text"} /\ ~wire.is.nested
  <2>1. wire.is.kind = "object" /\ UndeliverableIs(wire.is) = {} /\ ~ServeStubRefused(wire.is)
    BY <1>2 DEF ServeLiteralRefused, IsResponseRefused
  <2>2. ~wire.is.nested
    BY <2>1 DEF UndeliverableIs
  <2> QED
    BY <1>1, <1>2, <2>1, <2>2
<1>3. ASSUME ResponseTypeOK, ResponseInv, ~Refused(b), ~ServeRefused(wire)
      PROVE  /\ {f \in Wanted : f[1] \notin {"raw is", "raw behaviors", "raw rift"}} \subseteq Served(wire.is)
             /\ Meant(wire.is) \subseteq Served(wire.is)
             /\ ~RawBlockWanted
             /\ wire.is.mode \in {"unset", "text"} /\ ~wire.is.nested
  <2>1. wire.is.kind = "object" /\ Undeliverable(wire) = {} /\ ~ServeStubRefused(wire.is)
    BY <1>3 DEF ServeRefused, IsResponseRefused
  <2>2. /\ UndeliverableBlock("_behaviors", wire.behaviors) = {}
        /\ UndeliverableBlock("_rift", wire.rift) = {}
        /\ ~wire.flat /\ wire.primary = "none" /\ ~wire.is.nested
    BY <2>1 DEF Undeliverable, UndeliverableIs
  <2>3. /\ wire.behaviors.kind # "malformed" /\ wire.behaviors.keys = {}
        /\ wire.rift.kind # "malformed" /\ wire.rift.keys = {}
    BY <2>2 DEF UndeliverableBlock
  <2>4. ~b.raw.flat /\ b.primary = "none"
    BY <2>2 DEF Build
  <2>5. ASSUME NEW keys, NEW patch \in RawBlocks \cup {"absent"},
               Block(keys, patch).kind # "malformed", Block(keys, patch).keys = {}
        PROVE  patch \in {"absent", "undefined"} /\ (patch = "absent" => keys = {})
    BY <2>5 DEF Block, RawBlocks
  <2>6. /\ b.raw.behaviors \in {"absent", "undefined"} /\ (b.raw.behaviors = "absent" => b.behaviors = {})
        /\ b.raw.rift \in {"absent", "undefined"} /\ (b.raw.rift = "absent" => RiftKeys(b) = {})
    BY <1>3, <2>3, <2>5 DEF Build, ResponseTypeOK, ResponseFields
  <2>7. ~RawBlockWanted
    BY <2>4, <2>6 DEF RawBlockWanted
  <2>8. ASSUME NEW f \in Wanted, f[1] \notin {"raw is", "raw behaviors", "raw rift"}
        PROVE  f \in Served(wire.is)
    <3>1. Held(f) /\ f[1] \notin Overridden
      BY <1>3 DEF Wanted, ResponseInv
    <3>2. f[1] \notin {"raw flat", "primary", "proxy"}
      BY <1>3, <2>4, <3>1 DEF Held, ResponseInv, FieldsFit
    <3>3. f[1] # "behavior"
      BY <2>6, <3>1 DEF Held, Overridden
    <3>4. f[1] # "rift"
      BY <1>3, <2>6, <3>1, Fit DEF Held, Overridden
    <3>5. f[1] \in {"status", "body", "mode", "header"} /\ b.raw.is = "absent"
      BY <2>8, <3>1, <3>2, <3>3, <3>4 DEF Held, Overridden
    <3>6. /\ wire.is.status = b.status /\ wire.is.body = b.body
          /\ wire.is.headers = b.headers /\ ~b.binary
      BY <1>1, <1>3, <2>1, <3>5, BuiltBlock
    <3>7. /\ f[1] = "status" => f = <<"status", wire.is.status>>
          /\ f[1] = "body" => f = <<"body", wire.is.body>>
          /\ f[1] = "header" => f = <<"header", f[2]>> /\ f[2] \in wire.is.headers
          /\ f[1] # "mode"
      BY <3>1, <3>6 DEF Held
    <3>8. /\ <<"status", wire.is.status>> \in Served(wire.is)
          /\ <<"body", wire.is.body>> \in Served(wire.is)
          /\ \A h \in wire.is.headers : <<"header", h>> \in Served(wire.is)
      BY <1>1, <1>3, <2>1
    <3> QED
      BY <3>5, <3>7, <3>8
  <2> QED
    BY <1>1, <1>3, <2>1, <2>2, <2>7, <2>8
<1>4. ResponseTypeOK /\ ResponseInv => ServedIsWhatWasAsked
  BY <1>2, <1>3 DEF ServedIsWhatWasAsked
<1> QED
  BY <1>4, ResponseTyped, PTL
=============================================================================
