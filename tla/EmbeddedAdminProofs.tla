------------------------ MODULE EmbeddedAdminProofs ------------------------
(***************************************************************************)
(* Theorems about EmbeddedAdmin, for any number of clients, ports and      *)
(* stubs.                                                                  *)
(***************************************************************************)
EXTENDS EmbeddedAdmin, FiniteSetTheorems, WellFoundedInduction, TLAPS

-----------------------------------------------------------------------------
(* What the operators of the module are.                                   *)

LEMMA NothingTyped == Nothing \in Configs
BY DEF Nothing, Configs

LEMMA NotAbsent == \A stubs \in SUBSET Stubs : stubs # Absent
BY NoStubAssumption DEF Absent

LEMMA AtTyped ==
  ASSUME NEW p \in Ports, NEW stubs \in SUBSET Stubs
  PROVE  At(p, stubs) \in Configs /\ At(p, stubs)[p] # Absent
<1>1. At(p, stubs) \in Configs /\ At(p, stubs)[p] = stubs
  BY NothingTyped DEF At, Configs
<1> QED
  BY <1>1, NotAbsent

LEMMA WriteTyped ==
  ASSUME NEW ports, NEW config \in Configs, NEW m \in Configs
  PROVE  /\ Write(ports, config, m) \in Configs
         /\ \A p \in Ports : Write(ports, config, m)[p] = IF p \in ports THEN config[p] ELSE m[p]
BY DEF Write, Configs

LEMMA RequestTyped ==
  ASSUME TypeOK, NEW c \in Callers
  PROVE  Request(c) \in Calls
<1>1. Serve \in Calls
  BY NothingTyped DEF Serve, Calls, Ops, NativeOps
<1> QED
  BY <1>1 DEF Request, TypeOK, Callers

LEMMA WrittenTyped ==
  ASSUME NEW r \in Calls, NEW outcome, NEW config \in Written(r, outcome)
  PROVE  config \in Configs /\ (outcome # "partial" => config = r.config)
<1>1. r.config \in Configs
  BY DEF Calls
<1>2. CASE outcome = "partial"
  <2>1. PICK failed : config = [p \in Ports |-> IF p \in failed THEN Absent ELSE r.config[p]]
    BY <1>2 DEF Written
  <2>2. \A p \in Ports : r.config[p] \in (SUBSET Stubs) \cup {Absent}
    BY <1>1 DEF Configs
  <2>3. config \in [Ports -> (SUBSET Stubs) \cup {Absent}]
    BY <2>1, <2>2
  <2> QED
    BY <1>2, <2>3 DEF Configs
<1>3. CASE outcome # "partial"
  BY <1>1, <1>3 DEF Written
<1> QED
  BY <1>2, <1>3

\* The stubs that an operation sends are a list of stubs.
LEMMA StubsSent ==
  ASSUME TypeOK, NEW p \in Ports, Has(p), NEW s \in Stubs
  PROVE  registry[p] \cup {s} \in SUBSET Stubs
BY DEF TypeOK, Has, Configs

\* c posts a request, which has stubs to write when it is about stubs.
PostsOne(c, op, ports, config) ==
  /\ Ready(c)
  /\ Post(c, op, ports, config)
  /\ op \in StubOps => \A p \in ports : config[p] # Absent

\* Every operation posts one request of its kind, or goes to the admin plane.
LEMMA OperationPosts ==
  ASSUME TypeOK, NEW c \in Clients, Operation(c)
  PROVE  \/ Bridge(c)
         \/ \E op \in NativeOps \ {"serveAdmin"}, ports \in SUBSET Ports, config \in Configs :
              PostsOne(c, op, ports, config)
<1> DEFINE Goal == \E op \in NativeOps \ {"serveAdmin"}, ports \in SUBSET Ports, config \in Configs :
                     PostsOne(c, op, ports, config)
<1>0. \A op \in NativeOps \ {"serveAdmin"}, ports \in SUBSET Ports, config \in Configs :
        PostsOne(c, op, ports, config) => Goal
  OBVIOUS
<1>a. WriteOps \cup {"read"} \subseteq NativeOps \ {"serveAdmin"}
  BY DEF NativeOps, WriteOps
<1>b. \A p \in Ports : {p} \in SUBSET Ports
  OBVIOUS
<1> HIDE DEF Goal
<1>1. CASE CreateImposter(c)
  <2>1. PICK p \in Ports, stubs \in SUBSET Stubs : Post(c, "create", {p}, At(p, stubs))
    BY <1>1 DEF CreateImposter
  <2>2. PostsOne(c, "create", {p}, At(p, stubs))
    BY <1>1, <2>1 DEF CreateImposter, StubOps, PostsOne
  <2> QED
    BY <1>0, <1>a, <1>b, <2>2, AtTyped DEF WriteOps
<1>2. CASE DeleteImposter(c)
  <2>1. PICK p \in Ports : Post(c, "delete", {p}, Nothing)
    BY <1>2 DEF DeleteImposter
  <2>2. PostsOne(c, "delete", {p}, Nothing)
    BY <1>2, <2>1 DEF DeleteImposter, StubOps, PostsOne
  <2> QED
    BY <1>0, <1>a, <1>b, <2>2, NothingTyped DEF WriteOps
<1>3. CASE DeleteAllImposters(c)
  <2>1. PostsOne(c, "deleteAll", Ports, Nothing)
    BY <1>3 DEF DeleteAllImposters, StubOps, PostsOne
  <2> QED
    BY <1>0, <1>a, <1>b, <2>1, NothingTyped DEF WriteOps
<1>4. CASE ReplaceImposters(c)
  <2>1. PICK config \in Configs : Post(c, "apply", Ports, config)
    BY <1>4 DEF ReplaceImposters
  <2>2. PostsOne(c, "apply", Ports, config)
    BY <1>4, <2>1 DEF ReplaceImposters, StubOps, PostsOne
  <2> QED
    BY <1>0, <1>a, <1>b, <2>2 DEF WriteOps
<1>5. CASE AddStub(c)
  <2>1. PICK p \in Ports, s \in Stubs : Has(p) /\ Post(c, "addStub", {p}, At(p, registry[p] \cup {s}))
    BY <1>5 DEF AddStub
  <2>2. registry[p] \cup {s} \in SUBSET Stubs
    BY <2>1, StubsSent
  <2>3. PostsOne(c, "addStub", {p}, At(p, registry[p] \cup {s}))
    BY <1>5, <2>1, <2>2, AtTyped DEF AddStub, PostsOne
  <2> QED
    BY <1>0, <1>a, <1>b, <2>2, <2>3, AtTyped DEF WriteOps
<1>6. CASE EditStubs(c)
  <2>1. PICK p \in Ports, stubs \in SUBSET Stubs : Post(c, "editStubs", {p}, At(p, stubs))
    BY <1>6 DEF EditStubs
  <2>2. PostsOne(c, "editStubs", {p}, At(p, stubs))
    BY <1>6, <2>1, AtTyped DEF EditStubs, PostsOne
  <2> QED
    BY <1>0, <1>a, <1>b, <2>2, AtTyped DEF WriteOps
<1>7. CASE ReadImposters(c) \/ ReadRequests(c) \/ ScopedToFlow(c)
  <2>1. Ready(c)
    BY <1>7 DEF ReadImposters, ReadRequests, ScopedToFlow
  <2>2. PICK ports \in SUBSET Ports : Post(c, "read", ports, Nothing)
    BY <1>7 DEF ReadImposters, ReadRequests, ScopedToFlow
  <2>3. PostsOne(c, "read", ports, Nothing)
    BY <2>1, <2>2 DEF StubOps, PostsOne
  <2> QED
    BY <1>0, <1>a, <1>b, <2>3, NothingTyped
<1> QED
  BY <1>1, <1>2, <1>3, <1>4, <1>5, <1>6, <1>7 DEF Operation, Goal

\* The engine answers c, with a configuration that it has written if it wrote.
Serves(c, outcome, config) ==
  /\ MayAnswer(Request(c), outcome)
  /\ outcome # "partial" => config = Request(c).config
  /\ answers' = Append(answers, [caller |-> c, outcome |-> outcome, config |-> config])
  /\ native' = IF outcome # "error" /\ Request(c).op \in WriteOps
               THEN Write(Request(c).ports, config, native) ELSE native
  /\ misreported' = (misreported \/ outcome = "portless")

LEMMA ServeRequestServes ==
  ASSUME TypeOK, ServeRequest
  PROVE  \E outcome \in {"ok", "error", "partial", "portless"}, config \in Configs :
           Serves(Head(queue), outcome, config)
<1> DEFINE c == Head(queue)
<1>1. Request(c) \in Calls
  BY RequestTyped DEF ServeRequest, TypeOK
<1>2. PICK outcome \in {"ok", "error", "partial", "portless"} :
        \E config \in Written(Request(c), outcome) :
          /\ MayAnswer(Request(c), outcome)
          /\ answers' = Append(answers, [caller |-> c, outcome |-> outcome, config |-> config])
          /\ native' = IF outcome # "error" /\ Request(c).op \in WriteOps
                       THEN Write(Request(c).ports, config, native) ELSE native
          /\ misreported' = (misreported \/ outcome = "portless")
  BY DEF ServeRequest
<1>3. PICK config \in Written(Request(c), outcome) :
          /\ MayAnswer(Request(c), outcome)
          /\ answers' = Append(answers, [caller |-> c, outcome |-> outcome, config |-> config])
          /\ native' = IF outcome # "error" /\ Request(c).op \in WriteOps
                       THEN Write(Request(c).ports, config, native) ELSE native
          /\ misreported' = (misreported \/ outcome = "portless")
  BY <1>2
<1>4. config \in Configs /\ (outcome # "partial" => config = Request(c).config)
  BY <1>1, WrittenTyped
<1>5. Serves(c, outcome, config)
  BY <1>3, <1>4 DEF Serves
<1> QED
  BY <1>4, <1>5

-----------------------------------------------------------------------------
(* Type correctness.                                                       *)

LEMMA IdleTyped == /\ Idle \in Calls
                   /\ [Idle EXCEPT !.op = "bridge"] \in Calls
BY NothingTyped DEF Idle, Calls, Ops, BridgeOps

\* The two ways a request to the admin plane moves.
LEMMA BridgeStepIs ==
  ASSUME NEW c \in Clients, BridgeStep(c)
  PROVE  /\ \/ /\ call[c].op \in {"bridge", "bridgeBody"}
               /\ call' = [call EXCEPT ![c] = Idle]
            \/ /\ call[c].op = "bridge"
               /\ call' = [call EXCEPT ![c].op = "bridgeBody"]
         /\ UNCHANGED <<boot, registry, attached, plane, closing, engineVars, history>>
BY DEF BridgeStep, BridgeAnswers, BridgeFails, BridgeHeaders, BridgeSettles

\* A request to the admin plane goes from its headers to its body, or is over;
\* nothing else moves.
LEMMA BridgeMoves ==
  ASSUME TypeOK, NEW c \in Clients, BridgeStep(c)
  PROVE  /\ call' \in [Clients -> Calls]
         /\ \A d \in Clients \ {c} : call'[d] = call[d]
         /\ call[c].op \in BridgeOps
         /\ call'[c].op \in {"none", "bridgeBody"}
         /\ UNCHANGED <<boot, registry, attached, plane, closing, engineVars, history>>
<1>1. CASE call' = [call EXCEPT ![c] = Idle]
  <2>1. call[c].op \in BridgeOps
    BY BridgeStepIs DEF BridgeOps
  <2>2. Idle.op = "none"
    BY DEF Idle
  <2> QED
    BY <1>1, <2>1, <2>2, IdleTyped, BridgeStepIs DEF TypeOK
<1>2. CASE call' = [call EXCEPT ![c].op = "bridgeBody"] /\ call[c].op = "bridge"
  <2>1. call[c] \in Calls /\ "bridgeBody" \in Ops /\ "bridge" \in BridgeOps
    BY DEF TypeOK, Ops, BridgeOps
  <2>2. [call[c] EXCEPT !.op = "bridgeBody"] \in Calls
    BY <2>1 DEF Calls
  <2>3. [call[c] EXCEPT !.op = "bridgeBody"].op = "bridgeBody"
    BY <2>1 DEF Calls
  <2> QED
    BY <1>2, <2>1, <2>2, <2>3, BridgeStepIs DEF TypeOK
<1> QED
  BY <1>1, <1>2, BridgeStepIs

LEMMA TypeInit == Init => TypeOK
<1> SUFFICES ASSUME Init PROVE TypeOK
  OBVIOUS
<1>1. registry \in Configs /\ native \in Configs
  BY NothingTyped DEF Init
<1>2. call \in [Clients -> Calls]
  BY IdleTyped DEF Init
<1>3. queue \in Seq(Callers) /\ answers \in Seq(Answers)
  BY DEF Init
<1> QED
  BY <1>1, <1>2, <1>3 DEF Init, TypeOK

LEMMA EnsurePlaneTyped ==
  ASSUME TypeOK, EnsurePlane
  PROVE  /\ queue' \in Seq(Callers)
         /\ plane' \in {"none", "starting", "up", "failed"}
<1>1. PlaneStart \in Callers /\ queue \in Seq(Callers)
  BY DEF Callers, TypeOK
<1>2. Append(queue, PlaneStart) \in Seq(Callers)
  BY <1>1
<1> QED
  BY <1>1, <1>2 DEF TypeOK, EnsurePlane

LEMMA TypeStep == TypeOK /\ [Next]_vars => TypeOK'
<1> SUFFICES ASSUME TypeOK, [Next]_vars PROVE TypeOK'
  OBVIOUS
<1>1. CASE BootStep
  <2>1. CASE Preflight
    <3>1. /\ queue' \in Seq(Callers)
          /\ plane' \in {"none", "starting", "up", "failed"}
      BY <2>1, EnsurePlaneTyped DEF Preflight, TypeOK
    <3> QED
      BY <2>1, <3>1 DEF Preflight, TypeOK, history
  <2>2. CASE EagerPlane
    BY <2>2 DEF EagerPlane, TypeOK, engineVars, history
  <2>3. CASE Retracted
    BY <2>3 DEF Retracted, TypeOK, engineVars, history
  <2> QED
    BY <1>1, <2>1, <2>2, <2>3 DEF BootStep
<1>2. ASSUME NEW c \in Clients, Operation(c) PROVE TypeOK'
  <2>1. CASE Bridge(c)
    <3>1. /\ queue' \in Seq(Callers)
          /\ plane' \in {"none", "starting", "up", "failed"}
      BY <2>1, EnsurePlaneTyped DEF Bridge
    <3>2. call' \in [Clients -> Calls]
      BY <2>1, IdleTyped DEF Bridge, TypeOK
    <3> QED
      BY <2>1, <3>1, <3>2 DEF Bridge, TypeOK, history
  <2>2. ASSUME NEW op \in NativeOps, NEW ports \in SUBSET Ports, NEW config \in Configs,
               PostsOne(c, op, ports, config)
        PROVE  TypeOK'
    <3>1. [op |-> op, ports |-> ports, config |-> config] \in Calls
      BY DEF Calls, Ops, NativeOps
    <3>2. call' \in [Clients -> Calls] /\ queue' \in Seq(Callers)
      BY <2>2, <3>1 DEF PostsOne, Post, TypeOK, Callers
    <3> QED
      BY <2>2, <3>2 DEF PostsOne, Post, TypeOK, history
  <2> QED
    BY <1>2, <2>1, <2>2, OperationPosts
<1>3. ASSUME NEW c \in Clients, BridgeStep(c) PROVE TypeOK'
  BY <1>3, BridgeMoves DEF TypeOK, engineVars, history
<1>4. CASE ServeRequest
  <2>0. Head(queue) \in Callers
    BY <1>4 DEF ServeRequest, TypeOK
  <2>1. PICK outcome \in {"ok", "error", "partial", "portless"}, config \in Configs :
          Serves(Head(queue), outcome, config)
    BY <1>4, ServeRequestServes
  <2>3. answers' \in Seq(Answers)
    BY <2>0, <2>1 DEF TypeOK, Answers, Serves
  <2>4. native' \in Configs
    <3>1. native \in Configs
      BY DEF TypeOK
    <3>2. Write(Request(Head(queue)).ports, config, native) \in Configs
      BY <2>1, <3>1, WriteTyped
    <3> QED
      BY <2>1, <3>1, <3>2 DEF Serves
  <2>5. misreported' \in BOOLEAN
    BY <2>1 DEF Serves
  <2>6. queue' \in Seq(Callers)
    BY <1>4 DEF ServeRequest, TypeOK
  <2> QED
    BY <1>4, <2>3, <2>4, <2>5, <2>6 DEF ServeRequest, TypeOK, adminVars
<1>5. CASE Deliver
  <2>0. ASSUME answers # <<>> PROVE /\ Head(answers) \in Answers
                                    /\ Tail(answers) \in Seq(Answers)
    BY <2>0 DEF TypeOK
  <2>1. ASSUME NEW c, Resume(c), answers # <<>>
        PROVE  /\ call' \in [Clients -> Calls]
               /\ answers' \in Seq(Answers)
               /\ UNCHANGED <<boot, plane, closing, transport, queue, native, misreported>>
    BY <2>0, <2>1, IdleTyped DEF Resume, TypeOK
  <2>2. ASSUME answers # <<>>, Head(answers).caller \in Clients
        PROVE  LET a == Head(answers) IN
               /\ Write(call[a.caller].ports, a.config, registry) \in Configs
               /\ call[a.caller].ports \in SUBSET Ports
    <3>1. call[Head(answers).caller] \in Calls /\ Head(answers).config \in Configs
      BY <2>0, <2>2 DEF TypeOK, Answers
    <3>2. call[Head(answers).caller].ports \in SUBSET Ports
      BY <3>1 DEF Calls
    <3>3. registry \in Configs
      BY DEF TypeOK
    <3> QED
      BY <3>1, <3>2, <3>3, WriteTyped
  <2>3. ASSUME NEW op, NEW outcomes, Answered(op, outcomes), "serveAdmin" \notin op
        PROVE  answers # <<>> /\ Head(answers).caller \in Clients
    <3>1. answers # <<>> /\ Head(answers).caller \in Callers
      BY <2>0, <2>3 DEF Answered, Answers
    <3> QED
      BY <2>3, <3>1 DEF Answered, Request, Serve, Callers
  <2>4. CASE RegistryWritten
    <3>1. answers # <<>> /\ Head(answers).caller \in Clients
      BY <2>3, <2>4 DEF RegistryWritten, WriteOps
    <3>2. registry' \in Configs /\ attached' \in SUBSET Clients /\ torn' \in SUBSET Ports
      BY <2>2, <2>4, <3>1 DEF RegistryWritten, TypeOK
    <3> QED
      BY <2>1, <2>4, <3>1, <3>2 DEF RegistryWritten, TypeOK
  <2>5. CASE StubsWritten
    <3>1. answers # <<>> /\ Head(answers).caller \in Clients
      BY <2>3, <2>5 DEF StubsWritten, StubOps
    <3>2. registry' \in Configs /\ attached' \in SUBSET Clients /\ torn' \in SUBSET Ports
      BY <2>2, <2>5, <3>1 DEF StubsWritten, TypeOK
    <3> QED
      BY <2>1, <2>5, <3>1, <3>2 DEF StubsWritten, TypeOK
  <2>6. CASE ReadDone
    BY <2>1, <2>6 DEF ReadDone, Answered, TypeOK
  <2>7. CASE OperationFails
    BY <2>1, <2>7 DEF OperationFails, Answered, TypeOK
  <2>8. CASE PlaneStarted
    BY <2>0, <2>8 DEF PlaneStarted, Answered, TypeOK, history
  <2> QED
    BY <1>5, <2>4, <2>5, <2>6, <2>7, <2>8 DEF Deliver
<1>6. CASE CloseNative
  BY <1>6, IdleTyped, NothingTyped DEF CloseNative, TypeOK, history
<1>7. CASE Close
  BY <1>6, <1>7 DEF Close, TypeOK, engineVars, history
<1>8. CASE CloseStep
  BY <1>6, <1>8 DEF CloseStep, PlaneAwaited, CloseFinishes, TypeOK, engineVars, history
<1>9. CASE UNCHANGED vars
  BY <1>9 DEF vars, adminVars, engineVars, history, TypeOK
<1> QED
  BY <1>1, <1>2, <1>3, <1>4, <1>5, <1>7, <1>8, <1>9 DEF Next, Over

\* Every variable keeps its type.
THEOREM TypeCorrect == Spec => []TypeOK
BY TypeInit, TypeStep, PTL DEF Spec

-----------------------------------------------------------------------------
(* Everyone who waits is in the line of requests and answers, once.        *)

\* What the clients await: the plane is started for all of them, and what is
\* written to an imposter's stubs are stubs.
ClientsAwait ==
  \A c \in Clients :
    /\ call[c].op # "serveAdmin"
    /\ call[c].op \in StubOps => \A p \in call[c].ports : call[c].config[p] # Absent

InLine(c) == \/ \E i \in DOMAIN queue : queue[i] = c
             \/ \E i \in DOMAIN answers : answers[i].caller = c

OneInLine ==
  /\ \A i, j \in DOMAIN queue : queue[i] = queue[j] => i = j
  /\ \A i, j \in DOMAIN answers : answers[i].caller = answers[j].caller => i = j
  /\ \A i \in DOMAIN queue, j \in DOMAIN answers : queue[i] # answers[j].caller
  /\ \A c \in Callers : c \in Waiting <=> InLine(c)

LEMMA WaitingIs ==
  /\ Waiting \subseteq Callers
  /\ \A c \in Clients : c \in Waiting <=> call[c].op \in NativeOps
  /\ PlaneStart \in Waiting <=> plane = "starting"
BY ClientsAssumption DEF Waiting, Callers

LEMMA WaitingNext ==
  /\ Waiting' \subseteq Callers
  /\ \A c \in Clients : c \in Waiting' <=> call'[c].op \in NativeOps
  /\ PlaneStart \in Waiting' <=> plane' = "starting"
BY ClientsAssumption DEF Waiting, Callers

LEMMA Queued ==
  ASSUME TypeOK, OneInLine, NEW c \in Callers, c \notin Waiting,
         queue' = Append(queue, c), answers' = answers,
         \A d \in Callers : d \in Waiting' <=> d \in Waiting \/ d = c
  PROVE  OneInLine'
<1>1. queue \in Seq(Callers) /\ ~InLine(c)
  BY DEF TypeOK, OneInLine
<1>2. /\ DOMAIN queue' = DOMAIN queue \cup {Len(queue) + 1} /\ Len(queue) + 1 \notin DOMAIN queue
      /\ \A i \in DOMAIN queue : queue'[i] = queue[i]
      /\ queue'[Len(queue) + 1] = c
  BY <1>1
<1>3. \A d \in Callers : InLine(d)' <=> InLine(d) \/ d = c
  BY <1>2 DEF InLine
<1> QED
  BY <1>1, <1>2, <1>3 DEF OneInLine, InLine

LEMMA Moved ==
  ASSUME TypeOK, OneInLine, queue # <<>>, queue' = Tail(queue), NEW a, a.caller = Head(queue),
         answers' = Append(answers, a),
         \A d \in Callers : d \in Waiting' <=> d \in Waiting
  PROVE  OneInLine'
<1>1. queue \in Seq(Callers) /\ Len(queue) > 0 /\ Head(queue) = queue[1]
  BY DEF TypeOK
<1>2. /\ DOMAIN queue' = {i \in 1..Len(queue) : i + 1 \in 1..Len(queue)}
      /\ \A i \in DOMAIN queue' : queue'[i] = queue[i + 1]
      /\ DOMAIN queue = 1..Len(queue)
  BY <1>1
<1>3. answers \in Seq(Answers)
  BY DEF TypeOK
<1>4. /\ DOMAIN answers' = DOMAIN answers \cup {Len(answers) + 1} /\ Len(answers) + 1 \notin DOMAIN answers
      /\ \A i \in DOMAIN answers : answers'[i] = answers[i]
      /\ answers'[Len(answers) + 1] = a
  BY <1>3
<1>5. ASSUME NEW i \in DOMAIN queue, i # 1
      PROVE  \E j \in DOMAIN queue' : j + 1 = i
  <2>1. i - 1 \in DOMAIN queue' /\ (i - 1) + 1 = i
    BY <1>1, <1>2, <1>5
  <2> QED
    BY <2>1
<1>6. \A d \in Callers : InLine(d)' <=> InLine(d)
  <2> SUFFICES ASSUME NEW d \in Callers PROVE InLine(d)' <=> InLine(d)
    OBVIOUS
  <2>1. ASSUME InLine(d)' PROVE InLine(d)
    <3>1. ASSUME NEW i \in DOMAIN queue', queue'[i] = d PROVE InLine(d)
      BY <1>2, <3>1 DEF InLine
    <3>2. ASSUME NEW i \in DOMAIN answers', answers'[i].caller = d PROVE InLine(d)
      <4>1. CASE i \in DOMAIN answers
        BY <1>4, <3>2, <4>1 DEF InLine
      <4>2. CASE i = Len(answers) + 1
        BY <1>1, <1>2, <1>4, <3>2, <4>2 DEF InLine
      <4> QED
        BY <1>4, <4>1, <4>2
    <3> QED
      BY <2>1, <3>1, <3>2 DEF InLine
  <2>2. ASSUME InLine(d) PROVE InLine(d)'
    <3>1. ASSUME NEW i \in DOMAIN queue, queue[i] = d PROVE InLine(d)'
      <4>1. CASE i = 1
        BY <1>1, <1>4, <3>1, <4>1 DEF InLine
      <4>2. CASE i # 1
        BY <1>2, <1>5, <3>1, <4>2 DEF InLine
      <4> QED
        BY <4>1, <4>2
    <3>2. ASSUME NEW i \in DOMAIN answers, answers[i].caller = d PROVE InLine(d)'
      BY <1>4, <3>2 DEF InLine
    <3> QED
      BY <2>2, <3>1, <3>2 DEF InLine
  <2> QED
    BY <2>1, <2>2
<1>7. \A i, j \in DOMAIN queue' : queue'[i] = queue'[j] => i = j
  BY <1>1, <1>2 DEF OneInLine
<1>8. \A i, j \in DOMAIN answers' : answers'[i].caller = answers'[j].caller => i = j
  BY <1>1, <1>2, <1>4 DEF OneInLine
<1>9. \A i \in DOMAIN queue', j \in DOMAIN answers' : queue'[i] # answers'[j].caller
  BY <1>1, <1>2, <1>4 DEF OneInLine
<1> QED
  BY <1>6, <1>7, <1>8, <1>9 DEF OneInLine

LEMMA Delivered ==
  ASSUME TypeOK, OneInLine, answers # <<>>, answers' = Tail(answers), queue' = queue,
         \A d \in Callers : d \in Waiting' <=> d \in Waiting /\ d # Head(answers).caller
  PROVE  OneInLine'
<1>1. answers \in Seq(Answers) /\ Len(answers) > 0 /\ Head(answers) = answers[1]
  BY DEF TypeOK
<1>2. /\ DOMAIN answers' = {i \in 1..Len(answers) : i + 1 \in 1..Len(answers)}
      /\ \A i \in DOMAIN answers' : answers'[i] = answers[i + 1]
      /\ DOMAIN answers = 1..Len(answers)
  BY <1>1
<1>3. ASSUME NEW i \in DOMAIN answers, i # 1
      PROVE  \E j \in DOMAIN answers' : j + 1 = i
  <2>1. i - 1 \in DOMAIN answers' /\ (i - 1) + 1 = i
    BY <1>1, <1>2, <1>3
  <2> QED
    BY <2>1
<1>4. \A d \in Callers : InLine(d)' <=> InLine(d) /\ d # Head(answers).caller
  <2> SUFFICES ASSUME NEW d \in Callers PROVE InLine(d)' <=> InLine(d) /\ d # answers[1].caller
    BY <1>1
  <2>1. ASSUME InLine(d)' PROVE InLine(d) /\ d # answers[1].caller
    BY <1>1, <1>2, <2>1 DEF InLine, OneInLine
  <2>2. ASSUME InLine(d), d # answers[1].caller PROVE InLine(d)'
    BY <1>1, <1>2, <1>3, <2>2 DEF InLine
  <2> QED
    BY <2>1, <2>2
<1>5. \A i, j \in DOMAIN answers' : answers'[i].caller = answers'[j].caller => i = j
  BY <1>1, <1>2 DEF OneInLine
<1>6. \A i \in DOMAIN queue', j \in DOMAIN answers' : queue'[i] # answers'[j].caller
  BY <1>1, <1>2 DEF OneInLine
<1> QED
  BY <1>4, <1>5, <1>6 DEF OneInLine

\* Nobody's place changes, nor who waits.
LEMMA Stays ==
  ASSUME OneInLine, UNCHANGED <<queue, answers>>,
         \A d \in Callers : d \in Waiting' <=> d \in Waiting
  PROVE  OneInLine'
BY DEF OneInLine, InLine

\* A first use of the plane takes its place in the line, at the first time only.
LEMMA PlaneQueued ==
  ASSUME TypeOK, OneInLine, EnsurePlane, UNCHANGED answers,
         \A c \in Clients : call'[c].op \in NativeOps <=> call[c].op \in NativeOps
  PROVE  OneInLine'
<1>1. /\ \A c \in Clients : c \in Waiting' <=> c \in Waiting
      /\ PlaneStart \in Waiting' <=> plane' = "starting"
      /\ PlaneStart \in Waiting <=> plane = "starting"
      /\ PlaneStart \in Callers
  BY WaitingIs, WaitingNext DEF Callers
<1>2. CASE plane = "none" /\ transport = "open"
  BY <1>1, <1>2, Queued DEF EnsurePlane, Callers
<1>3. CASE ~(plane = "none" /\ transport = "open")
  <2>1. UNCHANGED queue /\ (plane' = "starting" <=> plane = "starting")
    BY <1>3 DEF EnsurePlane
  <2> QED
    BY <1>1, <2>1, Stays DEF Callers
<1> QED
  BY <1>2, <1>3

\* Who resumes c's call lets c go, and nobody else.
LEMMA Resumed ==
  ASSUME TypeOK, NEW c \in Clients, Resume(c)
  PROVE  /\ \A d \in Callers : d \in Waiting' <=> d \in Waiting /\ d # c
         /\ \A d \in Clients \ {c} : call'[d] = call[d]
         /\ call'[c] = Idle
<1>1. \A d \in Clients : call'[d] = IF d = c THEN Idle ELSE call[d]
  BY DEF Resume, TypeOK
<1>2. Idle.op \notin NativeOps
  BY DEF Idle, NativeOps, WriteOps
<1>3. c # PlaneStart /\ plane' = plane
  BY ClientsAssumption DEF Resume
<1> QED
  BY <1>1, <1>2, <1>3, WaitingIs, WaitingNext DEF Callers

\* The answers that are for a client are for one that is not the plane.
LEMMA AnsweredClient ==
  ASSUME TypeOK, NEW op, NEW outcomes, Answered(op, outcomes), "serveAdmin" \notin op
  PROVE  Head(answers).caller \in Clients /\ Request(Head(answers).caller) = call[Head(answers).caller]
<1>0. Head(answers) \in Answers
  BY DEF Answered, TypeOK
<1>1. Head(answers).caller \in Callers
  BY <1>0 DEF Answers
<1> QED
  BY <1>1, ClientsAssumption DEF Answered, Request, Serve, Callers

LEMMA LineInit == Init => OneInLine /\ ClientsAwait
BY ClientsAssumption DEF Init, OneInLine, InLine, Waiting, ClientsAwait, Idle, NativeOps, WriteOps, StubOps

LEMMA LineStep ==
  TypeOK /\ ClientsAwait /\ OneInLine /\ [Next]_vars => ClientsAwait' /\ OneInLine'
<1> SUFFICES ASSUME TypeOK, ClientsAwait, OneInLine, [Next]_vars PROVE ClientsAwait' /\ OneInLine'
  OBVIOUS
<1>a. /\ Idle.op = "none"
      /\ {"none", "bridge", "bridgeBody"} \cap NativeOps = {}
      /\ {"none", "bridge", "bridgeBody"} \cap StubOps = {}
  BY DEF Idle, NativeOps, WriteOps, StubOps
<1>1. CASE BootStep
  <2>1. UNCHANGED <<call, answers>>
    BY <1>1 DEF BootStep, Preflight, EagerPlane, Retracted, engineVars
  <2>2. EnsurePlane \/ UNCHANGED <<plane, queue>>
    BY <1>1 DEF BootStep, Preflight, EagerPlane, Retracted, engineVars
  <2>3. OneInLine'
    BY <2>1, <2>2, PlaneQueued, Stays DEF Waiting
  <2> QED
    BY <2>1, <2>3 DEF ClientsAwait
<1>2. ASSUME NEW c \in Clients, Operation(c) PROVE ClientsAwait' /\ OneInLine'
  <2>1. CASE Bridge(c)
    <3>1. /\ \A d \in Clients \ {c} : call'[d] = call[d]
          /\ call'[c].op = "bridge" /\ call[c].op = "none"
      BY <2>1 DEF Bridge, Ready, TypeOK, Idle
    <3>2. OneInLine'
      BY <1>a, <2>1, <3>1, PlaneQueued DEF Bridge
    <3> QED
      BY <1>a, <3>1, <3>2 DEF ClientsAwait
  <2>2. ASSUME NEW op \in NativeOps \ {"serveAdmin"}, NEW ports \in SUBSET Ports, NEW config \in Configs,
               PostsOne(c, op, ports, config)
        PROVE  ClientsAwait' /\ OneInLine'
    <3>1. /\ \A d \in Clients \ {c} : call'[d] = call[d]
          /\ call'[c] = [op |-> op, ports |-> ports, config |-> config] /\ call[c].op = "none"
          /\ plane' = plane /\ queue' = Append(queue, c) /\ answers' = answers
      BY <2>2 DEF PostsOne, Post, Ready, TypeOK
    <3>2. c \notin Waiting /\ \A d \in Callers : d \in Waiting' <=> d \in Waiting \/ d = c
      BY <1>a, <3>1, WaitingIs, WaitingNext, ClientsAssumption DEF Callers
    <3>3. OneInLine'
      BY <3>1, <3>2, Queued DEF Callers
    <3>4. ClientsAwait'
      BY <2>2, <3>1 DEF ClientsAwait, PostsOne
    <3> QED
      BY <3>3, <3>4
  <2> QED
    BY <1>2, <2>1, <2>2, OperationPosts
<1>3. ASSUME NEW c \in Clients, BridgeStep(c) PROVE ClientsAwait' /\ OneInLine'
  <2>1. /\ \A d \in Clients \ {c} : call'[d] = call[d]
        /\ call'[c].op \in {"none", "bridgeBody"}
        /\ call'[c].op \notin NativeOps /\ call[c].op \notin NativeOps
        /\ UNCHANGED <<plane, queue, answers>>
    BY <1>a, <1>3, BridgeMoves DEF BridgeOps, engineVars
  <2>2. \A d \in Callers : d \in Waiting' <=> d \in Waiting
    BY <1>a, <2>1, WaitingIs, WaitingNext, ClientsAssumption DEF Callers
  <2>3. OneInLine'
    BY <2>1, <2>2, Stays
  <2> QED
    BY <1>a, <2>1, <2>3 DEF ClientsAwait
<1>4. CASE ServeRequest
  <2>1. UNCHANGED <<call, plane>> /\ queue # <<>> /\ queue' = Tail(queue)
    BY <1>4 DEF ServeRequest, adminVars
  <2>2. PICK outcome \in {"ok", "error", "partial", "portless"}, config \in Configs :
          Serves(Head(queue), outcome, config)
    BY <1>4, ServeRequestServes
  <2>3. OneInLine'
    BY <2>1, <2>2, Moved DEF Serves, Waiting
  <2> QED
    BY <2>1, <2>3 DEF ClientsAwait
<1>5. CASE RegistryWritten \/ StubsWritten \/ ReadDone \/ OperationFails
  <2> DEFINE c == Head(answers).caller
  <2>1. answers # <<>> /\ c \in Clients /\ Resume(c)
    <3>1. CASE RegistryWritten
      BY <3>1, AnsweredClient DEF RegistryWritten, WriteOps, Answered
    <3>2. CASE StubsWritten
      BY <3>2, AnsweredClient DEF StubsWritten, StubOps, Answered
    <3>3. CASE ReadDone
      BY <3>3, AnsweredClient DEF ReadDone, Answered
    <3>4. CASE OperationFails
      BY <3>4, AnsweredClient DEF OperationFails, Answered
    <3> QED
      BY <1>5, <3>1, <3>2, <3>3, <3>4
  <2>2. answers' = Tail(answers) /\ queue' = queue
    BY <2>1 DEF Resume
  <2>3. /\ \A d \in Callers : d \in Waiting' <=> d \in Waiting /\ d # c
        /\ \A d \in Clients \ {c} : call'[d] = call[d]
        /\ call'[c] = Idle
    BY <2>1, Resumed
  <2>4. OneInLine'
    BY <2>1, <2>2, <2>3, Delivered
  <2>5. ClientsAwait'
    BY <1>a, <2>1, <2>3 DEF ClientsAwait
  <2> QED
    BY <2>4, <2>5
<1>6. CASE PlaneStarted
  <2>1. /\ Head(answers).caller = PlaneStart
        /\ answers # <<>> /\ answers' = Tail(answers) /\ UNCHANGED <<queue, call>>
        /\ plane' # "starting"
    <3>0. Head(answers) \in Answers
      BY <1>6 DEF PlaneStarted, Answered, TypeOK
    <3>1. Head(answers).caller \in Callers /\ Request(Head(answers).caller).op = "serveAdmin"
      BY <1>6, <3>0 DEF PlaneStarted, Answered, Answers
    <3>2. Head(answers).caller = PlaneStart
      BY <3>1 DEF Request, ClientsAwait, Callers
    <3> QED
      BY <1>6, <3>2 DEF PlaneStarted, Answered
  <2>2. \A d \in Callers : d \in Waiting' <=> d \in Waiting /\ d # PlaneStart
    BY <2>1, WaitingIs, WaitingNext, ClientsAssumption DEF Callers
  <2>3. OneInLine'
    BY <2>1, <2>2, Delivered
  <2> QED
    BY <2>1, <2>3 DEF ClientsAwait
<1>7. CASE CloseNative
  <2>1. /\ \A c \in Clients : call'[c] = IF call[c].op \in NativeOps THEN Idle ELSE call[c]
        /\ plane' # "starting" /\ queue' = <<>> /\ answers' = <<>>
    BY <1>7 DEF CloseNative
  <2>2. \A d \in Callers : d \notin Waiting'
    BY <1>a, <2>1, WaitingNext, ClientsAssumption DEF Callers
  <2>3. OneInLine'
    BY <2>1, <2>2 DEF OneInLine, InLine
  <2>4. ClientsAwait'
    BY <1>a, <2>1 DEF ClientsAwait
  <2> QED
    BY <2>3, <2>4
<1>8. CASE UNCHANGED <<call, plane, queue, answers>>
  BY <1>8 DEF ClientsAwait, OneInLine, InLine, Waiting
<1>9. CASE Close
  BY <1>7, <1>8, <1>9 DEF Close, engineVars
<1>10. CASE CloseStep
  BY <1>7, <1>8, <1>10 DEF CloseStep, PlaneAwaited, CloseFinishes, engineVars
<1>11. CASE UNCHANGED vars
  BY <1>8, <1>11 DEF vars, adminVars, engineVars
<1> QED
  BY <1>1, <1>2, <1>3, <1>4, <1>5, <1>6, <1>9, <1>10, <1>11 DEF Next, Deliver, Over

LEMMA Line == Spec => [](TypeOK /\ ClientsAwait /\ OneInLine)
BY TypeInit, TypeStep, LineInit, LineStep, PTL DEF Spec

\* Everyone who waits has one request or answer on its way and nobody else has,
\* for any number of clients (admin.ts:441, native-engine's close()).
THEOREM WaitsAreOnTheirWay == Spec => []EveryWaitIsOnItsWay
<1>1. ASSUME TypeOK, OneInLine PROVE EveryWaitIsOnItsWay
  <2> SUFFICES ASSUME NEW c \in Callers
               PROVE  Cardinality({i \in DOMAIN queue : queue[i] = c})
                        + Cardinality({i \in DOMAIN answers : answers[i].caller = c})
                      = (IF c \in Waiting THEN 1 ELSE 0)
    BY DEF EveryWaitIsOnItsWay
  <2> DEFINE Q == {i \in DOMAIN queue : queue[i] = c}
             A == {i \in DOMAIN answers : answers[i].caller = c}
  <2>1. \A i \in Q : Q = {i} /\ A = {}
    BY <1>1 DEF OneInLine
  <2>2. \A i \in A : A = {i} /\ Q = {}
    BY <1>1 DEF OneInLine
  <2>3. c \in Waiting <=> Q # {} \/ A # {}
    BY <1>1 DEF OneInLine, InLine
  <2>a. Cardinality({}) = 0 /\ \A i : Cardinality({i}) = 1
    BY FS_EmptySet, FS_Singleton
  <2> HIDE DEF Q, A
  <2>4. Cardinality(Q) + Cardinality(A) = IF c \in Waiting THEN 1 ELSE 0
    <3>1. CASE Q # {}
      <4>1. PICK i : Q = {i} /\ A = {}
        BY <2>1, <3>1
      <4>2. Cardinality(Q) = 1 /\ Cardinality(A) = 0
        BY <2>a, <4>1
      <4>3. c \in Waiting
        BY <2>3, <3>1
      <4> QED
        BY <4>2, <4>3
    <3>2. CASE A # {}
      <4>1. PICK i : A = {i} /\ Q = {}
        BY <2>2, <3>2
      <4>2. Cardinality(Q) = 0 /\ Cardinality(A) = 1
        BY <2>a, <4>1
      <4>3. c \in Waiting
        BY <2>3, <3>2
      <4> QED
        BY <4>2, <4>3
    <3>3. CASE Q = {} /\ A = {}
      BY <2>3, <2>a, <3>3
    <3> QED
      BY <3>1, <3>2, <3>3
  <2> QED
    BY <2>4 DEF Q, A
<1> QED
  BY <1>1, Line, PTL

-----------------------------------------------------------------------------
(* The registry catches up with the engine.                                *)

\* What answer i is an answer to.
Asked(i) == Request(answers[i].caller)

\* Of the answers before answer i, j is the last one that writes port p.
LastBefore(j, i, p) ==
  /\ j \in DOMAIN answers
  /\ j < i
  /\ Writes(j, p)
  /\ \A k \in DOMAIN answers : j < k /\ k < i => ~Writes(k, p)

\* The engine takes stubs only for an imposter it has, so the registry will
\* have it as well when the answer is delivered.
AnswerOK(i) ==
  Asked(i).op \in StubOps /\ answers[i].outcome = "ok" =>
    \A p \in Asked(i).ports :
      /\ answers[i].config[p] # Absent
      /\ \A j \in DOMAIN answers : LastBefore(j, i, p) => answers[j].config[p] # Absent
      /\ (\A j \in DOMAIN answers : j < i => ~Writes(j, p)) => registry[p] # Absent

Agrees(p, stubs) == /\ native[p] = Absent <=> stubs = Absent
                    /\ p \notin torn => native[p] = stubs

AnswersOK       == \A i \in DOMAIN answers : AnswerOK(i)
LastWritesStand == \A p \in Ports, i \in DOMAIN answers :
                     LastWrite(i, p) => native[p] = answers[i].config[p]
UnwrittenAgree  == \A p \in Ports :
                     (\A i \in DOMAIN answers : ~Writes(i, p)) => Agrees(p, registry[p])

RegistryInv ==
  transport = "open" /\ ~misreported => AnswersOK /\ LastWritesStand /\ UnwrittenAgree

LEMMA WritesIs ==
  \A i, p : Writes(i, p) <=> /\ answers[i].outcome \in {"ok", "partial"}
                             /\ Asked(i).op \in WriteOps
                             /\ p \in Asked(i).ports
BY DEF Writes, Asked

LEMMA WritesNext ==
  \A i, p : Writes(i, p)' <=> /\ answers'[i].outcome \in {"ok", "partial"}
                              /\ Asked(i)'.op \in WriteOps
                              /\ p \in Asked(i)'.ports
BY DEF Writes, Asked

\* The finitely many undelivered writes of a port have a last one.
LEMMA SomeLastWrite ==
  ASSUME TypeOK, NEW p, NEW i \in DOMAIN answers, Writes(i, p)
  PROVE  \E j \in DOMAIN answers : LastWrite(j, p)
<1> DEFINE T == {n \in Nat : \E j \in DOMAIN answers : n = Len(answers) - j /\ Writes(j, p)}
<1>1. answers \in Seq(Answers)
  BY DEF TypeOK
<1>2. DOMAIN answers = 1..Len(answers) /\ Len(answers) \in Nat
  BY <1>1
<1>3. Len(answers) - i \in T
  BY <1>2
<1>4. PICK x \in T : \A y \in T : ~(<<y, x>> \in OpToRel(<, Nat))
  <2>1. T \subseteq Nat /\ T # {}
    BY <1>3
  <2> QED
    BY <2>1, NatLessThanWellFounded, WFMin
<1>5. PICK j \in DOMAIN answers : x = Len(answers) - j /\ Writes(j, p)
  BY <1>4
<1>6. ASSUME NEW k \in DOMAIN answers, k > j, Writes(k, p) PROVE FALSE
  <2>1. Len(answers) - k \in T /\ Len(answers) - k < x
    BY <1>2, <1>5, <1>6
  <2>2. <<Len(answers) - k, x>> \in OpToRel(<, Nat)
    BY <1>4, <2>1 DEF OpToRel
  <2> QED
    BY <1>4, <2>1, <2>2
<1> QED
  BY <1>5, <1>6 DEF LastWrite

\* Nothing about the answers and nothing they are about changes.
Keeps == /\ UNCHANGED <<answers, registry, native, torn, transport, misreported>>
         /\ \A i \in DOMAIN answers : Asked(i)' = Asked(i)

LEMMA Kept ==
  ASSUME RegistryInv, Keeps
  PROVE  RegistryInv'
<1>1. \A p : \A i \in DOMAIN answers : Writes(i, p)' <=> Writes(i, p)
  BY WritesIs, WritesNext DEF Keeps
<1>2. \A i, j, p : LastBefore(j, i, p)' <=> LastBefore(j, i, p)
  BY <1>1 DEF LastBefore, Keeps
<1>3. \A i, p : LastWrite(i, p)' <=> LastWrite(i, p)
  BY <1>1 DEF LastWrite, Keeps
<1>4. \A i \in DOMAIN answers : AnswerOK(i) => AnswerOK(i)'
  BY <1>1, <1>2 DEF AnswerOK, Keeps
<1>5. \A p \in Ports : Agrees(p, registry[p])' <=> Agrees(p, registry[p])
  BY DEF Agrees, Keeps
<1> QED
  BY <1>1, <1>3, <1>4, <1>5 DEF RegistryInv, AnswersOK, LastWritesStand, UnwrittenAgree, Keeps

\* One more answer, a, the m-th, is on its way: what it says it wrote is what the engine has.
Lengthens(a, m) ==
  /\ m = Len(answers) + 1
  /\ answers' = Append(answers, a)
  /\ \A i \in DOMAIN answers : Asked(i)' = Asked(i)
  /\ \A p \in Ports : native'[p] = IF Writes(m, p)' THEN a.config[p] ELSE native[p]
  /\ LET r == Asked(m)'
     IN r.op \in StubOps /\ a.outcome = "ok" =>
          \A p \in r.ports : p \in Ports /\ a.config[p] # Absent /\ native[p] # Absent
  /\ UNCHANGED <<registry, torn>>

LEMMA Lengthened ==
  ASSUME TypeOK, NEW a, NEW m, Lengthens(a, m), AnswersOK, LastWritesStand, UnwrittenAgree
  PROVE  AnswersOK' /\ LastWritesStand' /\ UnwrittenAgree'
<1>0. answers \in Seq(Answers)
  BY DEF TypeOK
<1>a. PICK n : n = Len(answers)
  OBVIOUS
<1>1. /\ n \in Nat /\ m = n + 1 /\ DOMAIN answers = 1..n /\ DOMAIN answers' = 1..n \cup {m} /\ m \notin 1..n
      /\ \A i \in 1..n : i < m
      /\ \A i \in 1..n : answers'[i] = answers[i]
      /\ answers'[m] = a
  BY <1>0, <1>a DEF Lengthens
<1>2. \A p : \A i \in 1..n : Writes(i, p)' <=> Writes(i, p)
  BY <1>1, WritesIs, WritesNext DEF Lengthens
<1>3. \A j, p : \A i \in 1..n : LastBefore(j, i, p)' <=> LastBefore(j, i, p)
  BY <1>1, <1>2 DEF LastBefore
<1>4. \A j, p : LastBefore(j, m, p)' <=> LastWrite(j, p)
  BY <1>1, <1>2 DEF LastBefore, LastWrite
<1>5. ASSUME NEW i \in 1..n PROVE AnswerOK(i)'
  <2>1. answers'[i] = answers[i] /\ Asked(i)' = Asked(i) /\ registry' = registry
    BY <1>1 DEF Lengthens
  <2> SUFFICES ASSUME Asked(i).op \in StubOps, answers[i].outcome = "ok",
                      NEW p \in Asked(i).ports
               PROVE  /\ answers[i].config[p] # Absent
                      /\ \A j \in DOMAIN answers' :
                           LastBefore(j, i, p)' => answers'[j].config[p] # Absent
                      /\ (\A j \in DOMAIN answers' : j < i => ~Writes(j, p)') => registry[p] # Absent
    BY <2>1 DEF AnswerOK
  <2>2. /\ answers[i].config[p] # Absent
        /\ \A j \in DOMAIN answers : LastBefore(j, i, p) => answers[j].config[p] # Absent
        /\ (\A j \in DOMAIN answers : j < i => ~Writes(j, p)) => registry[p] # Absent
    BY <1>1 DEF AnswersOK, AnswerOK
  <2>3. ASSUME NEW j \in DOMAIN answers', LastBefore(j, i, p)' PROVE answers'[j].config[p] # Absent
    <3>0. LastBefore(j, i, p)
      BY <1>3, <2>3
    <3>1. LastBefore(j, i, p) /\ j \in 1..n
      BY <1>1, <3>0 DEF LastBefore
    <3> QED
      BY <1>1, <2>2, <3>1
  <2> QED
    BY <1>1, <1>2, <2>2, <2>3
<1>6. AnswerOK(m)'
  <2> SUFFICES ASSUME Asked(m)'.op \in StubOps, a.outcome = "ok",
                      NEW p \in Asked(m)'.ports
               PROVE  /\ a.config[p] # Absent
                      /\ \A j \in DOMAIN answers' :
                           LastBefore(j, m, p)' => answers'[j].config[p] # Absent
                      /\ (\A j \in DOMAIN answers' : j < m => ~Writes(j, p)') => registry'[p] # Absent
    BY <1>1 DEF AnswerOK
  <2>1. p \in Ports /\ a.config[p] # Absent /\ native[p] # Absent
    BY DEF Lengthens
  <2>2. ASSUME NEW j \in DOMAIN answers', LastBefore(j, m, p)'
        PROVE  answers'[j].config[p] # Absent
    <3>1. LastWrite(j, p) /\ j \in 1..n
      BY <1>1, <1>4, <2>2 DEF LastWrite
    <3> QED
      BY <1>1, <2>1, <3>1 DEF LastWritesStand
  <2>3. ASSUME \A j \in DOMAIN answers' : j < m => ~Writes(j, p)'
        PROVE  registry'[p] # Absent
    <3>1. \A j \in DOMAIN answers : ~Writes(j, p)
      BY <1>1, <1>2, <2>3
    <3> QED
      BY <2>1, <3>1 DEF UnwrittenAgree, Agrees, Lengthens
  <2> QED
    BY <2>1, <2>2, <2>3
<1>7. LastWritesStand'
  <2> SUFFICES ASSUME NEW p \in Ports, NEW i \in DOMAIN answers', LastWrite(i, p)'
               PROVE  native'[p] = answers'[i].config[p]
    BY DEF LastWritesStand
  <2>1. CASE i = m
    BY <1>1, <2>1 DEF Lengthens, LastWrite
  <2>2. CASE i \in 1..n
    <3>1. ~Writes(m, p)' /\ LastWrite(i, p)
      BY <1>1, <1>2, <2>2 DEF LastWrite
    <3> QED
      BY <1>1, <2>2, <3>1 DEF LastWritesStand, Lengthens
  <2> QED
    BY <1>1, <2>1, <2>2
<1>8. UnwrittenAgree'
  <2> SUFFICES ASSUME NEW p \in Ports, \A i \in DOMAIN answers' : ~Writes(i, p)'
               PROVE  Agrees(p, registry[p])'
    BY DEF UnwrittenAgree
  <2>1. (\A i \in DOMAIN answers : ~Writes(i, p)) /\ native'[p] = native[p]
    BY <1>1, <1>2 DEF Lengthens
  <2> QED
    BY <2>1 DEF UnwrittenAgree, Agrees, Lengthens
<1> QED
  BY <1>1, <1>5, <1>6, <1>7, <1>8 DEF AnswersOK

\* The first answer is delivered: the registry takes what it says was written,
\* unless an edit of stubs reaches an object that is no longer in the registry.
Lands ==
  /\ answers # <<>>
  /\ answers' = Tail(answers)
  /\ \A i \in DOMAIN answers' : Asked(i)' = Asked(i + 1)
  /\ \A p \in Ports :
       IF Writes(1, p)
       THEN \/ registry'[p] = answers[1].config[p] /\ p \notin torn'
            \/ /\ registry'[p] = registry[p] /\ p \in torn'
               /\ registry[p] # Absent /\ answers[1].config[p] # Absent
       ELSE registry'[p] = registry[p] /\ (p \in torn' <=> p \in torn)
  /\ UNCHANGED native

LEMMA Landed ==
  ASSUME TypeOK, Lands, AnswersOK, LastWritesStand, UnwrittenAgree,
         \A i \in DOMAIN answers : Asked(i).ports \subseteq Ports
  PROVE  AnswersOK' /\ LastWritesStand' /\ UnwrittenAgree'
<1> DEFINE n == Len(answers)
<1>0. answers \in Seq(Answers)
  BY DEF TypeOK
<1>1. /\ n \in Nat /\ n > 0 /\ DOMAIN answers = 1..n /\ DOMAIN answers' = 1..(n - 1)
      /\ \A i \in 1..(n - 1) : answers'[i] = answers[i + 1] /\ Asked(i)' = Asked(i + 1)
  BY <1>0 DEF Lands
<1>2. \A p : \A i \in 1..(n - 1) : Writes(i, p)' <=> Writes(i + 1, p)
  BY <1>1, WritesIs, WritesNext
<1>a. ASSUME NEW k \in 1..n, k # 1 PROVE k - 1 \in 1..(n - 1) /\ (k - 1) + 1 = k
  BY <1>1, <1>a
<1>3. ASSUME NEW i \in 1..(n - 1), NEW j \in 1..(n - 1), NEW p, LastBefore(j, i, p)'
      PROVE  LastBefore(j + 1, i + 1, p)
  <2>1. j + 1 \in DOMAIN answers /\ j + 1 < i + 1 /\ Writes(j + 1, p)
    BY <1>1, <1>2, <1>3 DEF LastBefore
  <2>2. ASSUME NEW k \in DOMAIN answers, j + 1 < k, k < i + 1 PROVE ~Writes(k, p)
    <3>1. k - 1 \in 1..(n - 1) /\ (k - 1) + 1 = k /\ j < k - 1 /\ k - 1 < i
      BY <1>1, <2>2
    <3> QED
      BY <1>1, <1>2, <1>3, <3>1 DEF LastBefore
  <2> QED
    BY <2>1, <2>2 DEF LastBefore
<1>4. ASSUME NEW i \in 1..(n - 1), NEW p, LastWrite(i, p)' PROVE LastWrite(i + 1, p)
  <2>1. i + 1 \in DOMAIN answers /\ Writes(i + 1, p)
    BY <1>1, <1>2, <1>4 DEF LastWrite
  <2>2. ASSUME NEW k \in DOMAIN answers, k > i + 1 PROVE ~Writes(k, p)
    <3>1. k - 1 \in 1..(n - 1) /\ (k - 1) + 1 = k /\ k - 1 > i
      BY <1>1, <2>2
    <3> QED
      BY <1>1, <1>2, <1>4, <3>1 DEF LastWrite
  <2> QED
    BY <2>1, <2>2 DEF LastWrite
<1>5. ASSUME NEW i \in 1..(n - 1) PROVE AnswerOK(i)'
  <2> SUFFICES ASSUME Asked(i + 1).op \in StubOps, answers[i + 1].outcome = "ok",
                      NEW p \in Asked(i + 1).ports
               PROVE  /\ answers[i + 1].config[p] # Absent
                      /\ \A j \in 1..(n - 1) :
                           LastBefore(j, i, p)' => answers[j + 1].config[p] # Absent
                      /\ (\A j \in 1..(n - 1) : j < i => ~Writes(j, p)') => registry'[p] # Absent
    BY <1>1, <1>5 DEF AnswerOK
  <2>1. /\ answers[i + 1].config[p] # Absent
        /\ \A j \in DOMAIN answers : LastBefore(j, i + 1, p) => answers[j].config[p] # Absent
        /\ (\A j \in DOMAIN answers : j < i + 1 => ~Writes(j, p)) => registry[p] # Absent
        /\ p \in Ports
    BY <1>1, <1>5 DEF AnswersOK, AnswerOK
  <2>2. ASSUME NEW j \in 1..(n - 1), LastBefore(j, i, p)'
        PROVE  answers[j + 1].config[p] # Absent
    BY <1>1, <1>3, <2>1, <2>2
  <2>3. ASSUME \A j \in 1..(n - 1) : j < i => ~Writes(j, p)' PROVE registry'[p] # Absent
    <3>1. ASSUME NEW k \in 1..n, k # 1, k < i + 1 PROVE ~Writes(k, p)
      <4>1. k - 1 \in 1..(n - 1) /\ (k - 1) + 1 = k /\ k - 1 < i
        BY <1>1, <3>1
      <4> QED
        BY <1>2, <2>3, <4>1
    <3>2. CASE Writes(1, p)
      <4>1. LastBefore(1, i + 1, p)
        BY <1>1, <3>1, <3>2 DEF LastBefore
      <4> QED
        BY <1>1, <2>1, <3>2, <4>1 DEF Lands
    <3>3. CASE ~Writes(1, p)
      <4>1. \A j \in DOMAIN answers : j < i + 1 => ~Writes(j, p)
        BY <1>1, <3>1, <3>3
      <4> QED
        BY <2>1, <3>3, <4>1 DEF Lands
    <3> QED
      BY <3>2, <3>3
  <2> QED
    BY <2>1, <2>2, <2>3
<1>6. LastWritesStand'
  BY <1>1, <1>4 DEF LastWritesStand, Lands
<1>7. UnwrittenAgree'
  <2> SUFFICES ASSUME NEW p \in Ports, \A i \in 1..(n - 1) : ~Writes(i, p)'
               PROVE  Agrees(p, registry[p])'
    BY <1>1 DEF UnwrittenAgree
  <2>1. ASSUME NEW k \in 1..n, k # 1 PROVE ~Writes(k, p)
    BY <1>2, <1>a, <2>1
  <2>2. CASE Writes(1, p)
    <3>1. LastWrite(1, p)
      BY <1>1, <2>1, <2>2 DEF LastWrite
    <3>2. native[p] = answers[1].config[p]
      BY <1>1, <3>1 DEF LastWritesStand
    <3> QED
      BY <2>2, <3>2 DEF Lands, Agrees
  <2>3. CASE ~Writes(1, p)
    <3>1. Agrees(p, registry[p])
      BY <1>1, <2>1, <2>3 DEF UnwrittenAgree
    <3> QED
      BY <2>3, <3>1 DEF Lands, Agrees
  <2> QED
    BY <2>2, <2>3
<1> QED
  BY <1>1, <1>5, <1>6, <1>7 DEF AnswersOK

LEMMA RegistryInit == Init => RegistryInv
BY DEF Init, RegistryInv, AnswersOK, LastWritesStand, UnwrittenAgree, Agrees, Nothing

\* What the answers in the line are to does not change with the calls of others.
LEMMA AskedStays ==
  ASSUME TypeOK, UNCHANGED answers,
         \A d \in Clients : (\E i \in DOMAIN answers : answers[i].caller = d) => call'[d] = call[d]
  PROVE  \A i \in DOMAIN answers : Asked(i)' = Asked(i)
<1>1. \A i \in DOMAIN answers : answers[i].caller \in Callers
  <2>1. \A i \in DOMAIN answers : answers[i] \in Answers
    BY DEF TypeOK
  <2> QED
    BY <2>1 DEF Answers
<1> QED
  BY <1>1 DEF Asked, Request, Callers

LEMMA AskedTyped ==
  ASSUME TypeOK, NEW i \in DOMAIN answers
  PROVE  /\ answers[i] \in Answers /\ answers[i].caller \in Callers
         /\ Asked(i) \in Calls /\ Asked(i).ports \subseteq Ports
<1>1. answers[i] \in Answers
  BY DEF TypeOK
<1>2. answers[i].caller \in Callers
  BY <1>1 DEF Answers
<1> QED
  BY <1>1, <1>2, RequestTyped DEF Asked, Calls

\* Nobody whose answer is on its way posts a request.
LEMMA IdleNotInLine ==
  ASSUME TypeOK, OneInLine, NEW c \in Clients, call[c].op \notin NativeOps
  PROVE  ~InLine(c)
BY WaitingIs DEF OneInLine, Callers

\* The engine serves the next request.
LEMMA ServeRequestLengthens ==
  ASSUME TypeOK, ClientsAwait, RegistryInv, ServeRequest, transport = "open", ~misreported'
  PROVE  ~misreported /\ \E a : Lengthens(a, Len(answers) + 1)
<1> DEFINE c == Head(queue)
           r == Request(c)
<1>1. PICK outcome \in {"ok", "error", "partial", "portless"}, config \in Configs :
        Serves(c, outcome, config)
  BY ServeRequestServes
<1>2. c \in Callers /\ answers \in Seq(Answers)
  BY DEF ServeRequest, TypeOK
<1>3. r \in Calls
  BY <1>2, RequestTyped
<1> DEFINE a == [caller |-> c, outcome |-> outcome, config |-> config]
<1>4. PICK m : m = Len(answers) + 1
  OBVIOUS
<1>5. answers' = Append(answers, a) /\ answers'[m] = a /\ m \notin DOMAIN answers
  BY <1>1, <1>2, <1>4 DEF Serves
<1>a. a.caller = c /\ a.outcome = outcome /\ a.config = config
  OBVIOUS
<1> HIDE DEF a
<1>6. outcome # "portless" /\ ~misreported
  BY <1>1 DEF Serves
<1>7. call' = call /\ registry' = registry /\ torn' = torn
  BY DEF ServeRequest, adminVars
<1>8. \A i \in DOMAIN answers : Asked(i)' = Asked(i)
  <2>1. \A i \in DOMAIN answers : answers'[i] = answers[i]
    BY <1>2, <1>5
  <2> QED
    BY <1>7, <2>1 DEF Asked, Request
<1>9. Asked(m)' = r
  <2>1. answers'[m].caller = c
    BY <1>5, <1>a
  <2>2. Asked(m)' = IF answers'[m].caller = PlaneStart THEN Serve ELSE call[answers'[m].caller]
    BY <1>7 DEF Asked, Request
  <2> QED
    BY <2>1, <2>2 DEF Request
<1>10. ASSUME NEW p \in Ports
       PROVE  native'[p] = IF Writes(m, p)' THEN config[p] ELSE native[p]
  <2>1. Writes(m, p)' <=> outcome # "error" /\ r.op \in WriteOps /\ p \in r.ports
    <3>1. answers'[m].outcome = outcome
      BY <1>5, <1>a
    <3> QED
      BY <1>6, <1>9, <3>1, WritesNext
  <2>2. Write(r.ports, config, native)[p] = IF p \in r.ports THEN config[p] ELSE native[p]
    BY DEF Write
  <2> QED
    BY <1>1, <2>1, <2>2 DEF Serves
<1>11. ASSUME r.op \in StubOps, outcome = "ok", NEW p \in r.ports
       PROVE  p \in Ports /\ config[p] # Absent /\ native[p] # Absent
  <2>1. c \in Clients /\ r = call[c]
    BY <1>2, <1>11 DEF Request, Serve, StubOps, Callers
  <2>2. config = r.config /\ Known(r.ports)
    BY <1>1, <1>11 DEF Serves, MayAnswer, StubOps
  <2> QED
    BY <1>3, <1>11, <2>1, <2>2 DEF ClientsAwait, Known, Calls
<1>12. Lengthens(a, m)
  BY <1>4, <1>5, <1>a, <1>7, <1>8, <1>9, <1>10, <1>11 DEF Lengthens
<1> QED
  BY <1>4, <1>6, <1>12

\* Who is delivered an answer takes it from the head of the line.
LEMMA Shifts ==
  ASSUME TypeOK, OneInLine, answers # <<>>, answers' = Tail(answers),
         \A d \in Clients : d # Head(answers).caller => call'[d] = call[d]
  PROVE  \A i \in DOMAIN answers' : Asked(i)' = Asked(i + 1)
<1>1. answers \in Seq(Answers) /\ Len(answers) > 0 /\ Head(answers) = answers[1]
  BY DEF TypeOK
<1>2. \A i \in DOMAIN answers' : i + 1 \in DOMAIN answers /\ i + 1 # 1 /\ answers'[i] = answers[i + 1]
  BY <1>1
<1>3. \A i \in DOMAIN answers' : answers[i + 1].caller # Head(answers).caller
  BY <1>1, <1>2 DEF OneInLine
<1>4. \A i \in DOMAIN answers' : answers[i + 1].caller \in Callers
  BY <1>2, AskedTyped
<1> QED
  BY <1>2, <1>3, <1>4 DEF Asked, Request, Callers

\* Every answer is delivered so that the registry catches up with it.
LEMMA DeliverLands ==
  ASSUME TypeOK, OneInLine, AnswersOK, Deliver
  PROVE  Lands /\ UNCHANGED <<transport, misreported>>
<1>0. answers # <<>>
  BY DEF Deliver, RegistryWritten, StubsWritten, ReadDone, OperationFails, PlaneStarted, Answered
<1>1. answers \in Seq(Answers) /\ 1 \in DOMAIN answers /\ Head(answers) = answers[1]
  BY <1>0 DEF TypeOK
<1>2. Asked(1) = Request(Head(answers).caller)
  BY <1>1 DEF Asked
<1>3. registry \in Configs
  BY DEF TypeOK
<1>r. ASSUME NEW c \in Clients, c = Head(answers).caller, Resume(c)
      PROVE  /\ answers' = Tail(answers)
             /\ \A i \in DOMAIN answers' : Asked(i)' = Asked(i + 1)
             /\ UNCHANGED <<native, transport, misreported>>
  <2>1. answers' = Tail(answers) /\ UNCHANGED <<native, transport, misreported>>
    BY <1>r DEF Resume
  <2>2. \A d \in Clients : d # c => call'[d] = call[d]
    BY <1>r, Resumed
  <2> QED
    BY <1>0, <1>r, <2>1, <2>2, Shifts
<1>n. ASSUME \A p \in Ports : ~Writes(1, p),
             UNCHANGED <<registry, torn, native, transport, misreported>>,
             answers' = Tail(answers),
             \A i \in DOMAIN answers' : Asked(i)' = Asked(i + 1)
      PROVE  Lands /\ UNCHANGED <<transport, misreported>>
  BY <1>0, <1>n DEF Lands
<1>4. CASE RegistryWritten
  <2>1. /\ Head(answers).caller \in Clients
        /\ Asked(1) = call[Head(answers).caller]
    BY <1>2, <1>4, AnsweredClient DEF RegistryWritten, WriteOps
  <2>2. Asked(1).op \in WriteOps /\ Head(answers).outcome \in {"ok", "partial"}
    BY <1>2, <1>4 DEF RegistryWritten, Answered
  <2>3. \A p : Writes(1, p) <=> p \in Asked(1).ports
    BY <1>1, <2>2, WritesIs
  <2>4. /\ Resume(Head(answers).caller)
        /\ registry' = Write(Asked(1).ports, answers[1].config, registry)
        /\ torn' = torn \ Asked(1).ports
    BY <1>1, <1>4, <2>1 DEF RegistryWritten
  <2>5. \A p \in Ports : registry'[p] = IF Writes(1, p) THEN answers[1].config[p] ELSE registry[p]
    BY <2>3, <2>4 DEF Write
  <2> QED
    BY <1>0, <1>r, <2>1, <2>3, <2>4, <2>5 DEF Lands
<1>5. CASE StubsWritten
  <2>1. /\ Head(answers).caller \in Clients
        /\ Asked(1) = call[Head(answers).caller]
    BY <1>2, <1>5, AnsweredClient DEF StubsWritten, StubOps
  <2>2. Asked(1).op \in StubOps /\ Head(answers).outcome = "ok"
    BY <1>2, <1>5 DEF StubsWritten, Answered
  <2>3. \A p : Writes(1, p) <=> p \in Asked(1).ports
    BY <1>1, <2>2, WritesIs DEF StubOps, WriteOps
  <2>4. Resume(Head(answers).caller)
    BY <1>5 DEF StubsWritten
  <2>5. ASSUME NEW p \in Asked(1).ports
        PROVE  answers[1].config[p] # Absent /\ registry[p] # Absent
    <3>1. AnswerOK(1)
      BY <1>1 DEF AnswersOK
    <3>2. \A j \in DOMAIN answers : ~(j < 1)
      BY <1>1
    <3> QED
      BY <1>1, <2>2, <3>1, <3>2 DEF AnswerOK
  <2>6. CASE Head(answers).caller \in attached
    <3>1. /\ registry' = Write(Asked(1).ports, answers[1].config, registry)
          /\ torn' = torn \ Asked(1).ports
      BY <1>1, <1>5, <2>1, <2>6 DEF StubsWritten
    <3>2. \A p \in Ports : registry'[p] = IF Writes(1, p) THEN answers[1].config[p] ELSE registry[p]
      BY <2>3, <3>1 DEF Write
    <3> QED
      BY <1>0, <1>r, <2>1, <2>3, <2>4, <3>1, <3>2 DEF Lands
  <2>7. CASE Head(answers).caller \notin attached
    <3>1. torn' = torn \cup Asked(1).ports /\ registry' = registry
      BY <1>1, <1>5, <2>1, <2>7 DEF StubsWritten
    <3> QED
      BY <1>0, <1>r, <2>1, <2>3, <2>4, <2>5, <3>1 DEF Lands
  <2> QED
    BY <2>6, <2>7
<1>6. CASE ReadDone
  <2>1. Head(answers).caller \in Clients
    BY <1>6, AnsweredClient DEF ReadDone
  <2>2. Resume(Head(answers).caller) /\ UNCHANGED <<registry, torn>>
    BY <1>6 DEF ReadDone
  <2>3. \A p : ~Writes(1, p)
    BY <1>2, <1>6, WritesIs DEF ReadDone, Answered, WriteOps
  <2> QED
    BY <1>n, <1>r, <2>1, <2>2, <2>3
<1>7. CASE OperationFails
  <2>1. Head(answers).caller \in Clients
    BY <1>7, AnsweredClient DEF OperationFails
  <2>2. Resume(Head(answers).caller) /\ UNCHANGED <<registry, torn>>
    BY <1>7 DEF OperationFails
  <2>3. \A p : ~Writes(1, p)
    BY <1>1, <1>7, WritesIs DEF OperationFails, Answered
  <2> QED
    BY <1>n, <1>r, <2>1, <2>2, <2>3
<1>8. CASE PlaneStarted
  <2>1. /\ answers' = Tail(answers) /\ call' = call
        /\ UNCHANGED <<registry, torn, native, transport, misreported>>
    BY <1>8 DEF PlaneStarted, history
  <2>2. \A i \in DOMAIN answers' : Asked(i)' = Asked(i + 1)
    BY <1>0, <2>1, Shifts
  <2>3. \A p : ~Writes(1, p)
    BY <1>2, <1>8, WritesIs DEF PlaneStarted, Answered, WriteOps
  <2> QED
    BY <1>n, <2>1, <2>2, <2>3
<1> QED
  BY <1>4, <1>5, <1>6, <1>7, <1>8 DEF Deliver

LEMMA RegistryStep ==
  TypeOK /\ ClientsAwait /\ OneInLine /\ RegistryInv /\ [Next]_vars => RegistryInv'
<1> SUFFICES ASSUME TypeOK, ClientsAwait, OneInLine, RegistryInv, [Next]_vars
             PROVE  RegistryInv'
  OBVIOUS
<1>k. ASSUME UNCHANGED <<call, answers, registry, native, torn, transport, misreported>>
      PROVE  RegistryInv'
  <2>1. Keeps
    BY <1>k, AskedStays DEF Keeps
  <2> QED
    BY <2>1, Kept
<1>o. ASSUME NEW c \in Clients, call[c].op \notin NativeOps,
             \A d \in Clients \ {c} : call'[d] = call[d],
             UNCHANGED <<answers, registry, native, torn, transport, misreported>>
      PROVE  RegistryInv'
  <2>1. \A d \in Clients : (\E i \in DOMAIN answers : answers[i].caller = d) => d # c
    BY <1>o, IdleNotInLine DEF InLine
  <2>2. Keeps
    BY <1>o, <2>1, AskedStays DEF Keeps
  <2> QED
    BY <2>2, Kept
<1>i. "none" \notin NativeOps /\ BridgeOps \cap NativeOps = {}
  BY DEF NativeOps, WriteOps, BridgeOps
<1>1. CASE BootStep
  BY <1>1, <1>k DEF BootStep, Preflight, EagerPlane, Retracted, engineVars, history
<1>2. ASSUME NEW c \in Clients, Operation(c) PROVE RegistryInv'
  <2>1. CASE Bridge(c)
    <3>1. call[c].op = "none" /\ \A d \in Clients \ {c} : call'[d] = call[d]
      BY <2>1 DEF Bridge, Ready, TypeOK
    <3>2. UNCHANGED <<answers, registry, native, torn, transport, misreported>>
      BY <2>1 DEF Bridge, history
    <3> QED
      BY <1>i, <1>o, <3>1, <3>2
  <2>2. ASSUME NEW op, NEW ports, NEW config, PostsOne(c, op, ports, config)
        PROVE  RegistryInv'
    <3>1. call[c].op = "none" /\ \A d \in Clients \ {c} : call'[d] = call[d]
      BY <2>2 DEF PostsOne, Post, Ready, TypeOK
    <3>2. UNCHANGED <<answers, registry, native, torn, transport, misreported>>
      BY <2>2 DEF PostsOne, Post, history
    <3> QED
      BY <1>i, <1>o, <3>1, <3>2
  <2> QED
    BY <1>2, <2>1, <2>2, OperationPosts
<1>3. ASSUME NEW c \in Clients, BridgeStep(c) PROVE RegistryInv'
  <2>1. call[c].op \in BridgeOps /\ \A d \in Clients \ {c} : call'[d] = call[d]
    BY <1>3, BridgeMoves
  <2>2. UNCHANGED <<answers, registry, native, torn, transport, misreported>>
    BY <1>3, BridgeMoves DEF engineVars, history
  <2> QED
    BY <1>i, <1>o, <2>1, <2>2
<1>4. CASE ServeRequest
  <2> SUFFICES ASSUME ~misreported' PROVE RegistryInv'
    BY DEF RegistryInv
  <2>1. transport = "open" /\ transport' = transport
    BY <1>4 DEF ServeRequest
  <2>2. ~misreported /\ \E a : Lengthens(a, Len(answers) + 1)
    BY <1>4, <2>1, ServeRequestLengthens
  <2>3. PICK a, m : Lengthens(a, m)
    BY <2>2
  <2>4. AnswersOK /\ LastWritesStand /\ UnwrittenAgree
    BY <2>1, <2>2 DEF RegistryInv
  <2> QED
    BY <2>3, <2>4, Lengthened DEF RegistryInv
<1>5. CASE Deliver
  <2>0. UNCHANGED <<transport, misreported>>
    BY <1>5 DEF Deliver, RegistryWritten, StubsWritten, ReadDone, OperationFails, PlaneStarted,
                Resume, history
  <2> SUFFICES ASSUME transport = "open", ~misreported
               PROVE  AnswersOK' /\ LastWritesStand' /\ UnwrittenAgree'
    BY <2>0 DEF RegistryInv
  <2>1. AnswersOK /\ LastWritesStand /\ UnwrittenAgree
    BY DEF RegistryInv
  <2>2. Lands
    BY <1>5, <2>1, DeliverLands
  <2> QED
    BY <2>1, <2>2, Landed, AskedTyped
<1>6. CASE CloseNative
  BY <1>6 DEF CloseNative, RegistryInv
<1>7. CASE Close
  BY <1>6, <1>7, <1>k DEF Close, engineVars, history
<1>8. CASE CloseStep
  BY <1>6, <1>8, <1>k DEF CloseStep, PlaneAwaited, CloseFinishes, engineVars, history
<1>9. CASE UNCHANGED vars
  BY <1>9, <1>k DEF vars, adminVars, engineVars, history
<1> QED
  BY <1>1, <1>2, <1>3, <1>4, <1>5, <1>7, <1>8, <1>9 DEF Next, Over

\* What the engine has on a port is what the last undelivered answer about it
\* says, and what the registry says when there is none, however many operations
\* overlap (admin.ts: every operation's registry update after its await).
THEOREM CatchesUp == Spec => []RegistryCatchesUp
<1>1. ASSUME TypeOK, RegistryInv PROVE RegistryCatchesUp
  <2> SUFFICES ASSUME transport = "open", ~misreported, NEW p \in Ports
               PROVE  IF \E i \in DOMAIN answers : LastWrite(i, p)
                      THEN \A i \in DOMAIN answers : LastWrite(i, p) => Agrees(p, answers[i].config[p])
                      ELSE Agrees(p, registry[p])
    BY DEF RegistryCatchesUp, Agrees
  <2>1. LastWritesStand /\ UnwrittenAgree
    BY <1>1 DEF RegistryInv
  <2>2. \A i \in DOMAIN answers : LastWrite(i, p) => Agrees(p, answers[i].config[p])
    BY <2>1 DEF LastWritesStand, Agrees
  <2>3. ASSUME ~\E i \in DOMAIN answers : LastWrite(i, p)
        PROVE  Agrees(p, registry[p])
    BY <1>1, <2>1, <2>3, SomeLastWrite DEF UnwrittenAgree
  <2> QED
    BY <2>2, <2>3
<1>2. Spec => []RegistryInv
  BY Line, RegistryInit, RegistryStep, PTL DEF Spec
<1> QED
  BY <1>1, <1>2, TypeCorrect, PTL
=============================================================================
