------------------------- MODULE NativeEngineProofs -------------------------
(***************************************************************************)
(* Theorems about NativeEngine for every number of calls, whether or not   *)
(* terminate() may fail.                                                   *)
(***************************************************************************)
EXTENDS NativeEngine, TLAPS

LEMMA ConstantsFacts == MaxCalls \in Nat
BY MaxCallsAssumption

\* The two channels carry only well-formed messages.
LEMMA ToTyped == /\ To("init", 0) \in ToWorkerMessage
                 /\ To("shutdown", 0) \in ToWorkerMessage
                 /\ \A c \in CallIds : To("call", c) \in ToWorkerMessage
BY DEF To, ToWorkerMessage

LEMMA FromTyped ==
  /\ From("ready", 0, "none") \in FromWorkerMessage
  /\ From("init-error", 0, "none") \in FromWorkerMessage
  /\ From("shutdown-ack", 0, "none") \in FromWorkerMessage
  /\ \A c \in CallIds, a \in {"value", "error"} :
       From("result", c, a) \in FromWorkerMessage
BY DEF From, FromWorkerMessage

\* Taking the oldest message off a channel and posting one keep it well-typed.
LEMMA TailTyped == ASSUME NEW S, NEW q \in Seq(S), q # <<>>
                   PROVE  Head(q) \in S /\ Tail(q) \in Seq(S)
OBVIOUS

LEMMA AppendTyped == ASSUME NEW S, NEW q \in Seq(S), NEW m \in S
                     PROVE  Append(q, m) \in Seq(S)
OBVIOUS

\* Settling a set of calls keeps the two histories well-typed.
LEMMA SettleTyped ==
  ASSUME TypeOK, NEW ids, NEW o \in {"value", "error"}, Settle(ids, o)
  PROVE  /\ outcome' \in [CallIds -> {"none", "value", "error"}]
         /\ settles' \in [CallIds -> Nat]
BY DEF TypeOK, Settle

LEMMA RefTyped == ASSUME TypeOK, Ref \/ Unref \/ UNCHANGED ref PROVE ref' \in BOOLEAN
BY DEF TypeOK, Ref, Unref

-----------------------------------------------------------------------------
(* Type correctness.                                                       *)

LEMMA TypeInit == Init => TypeOK
<1> SUFFICES ASSUME Init PROVE TypeOK
  OBVIOUS
<1>1. To("init", 0) \in ToWorkerMessage
  BY ToTyped
<1>2. toWorker \in Seq(ToWorkerMessage)
  BY <1>1 DEF Init
<1>3. fromWorker \in Seq(FromWorkerMessage)
  BY DEF Init
<1>4. nextId \in 1..(MaxCalls + 1) /\ pending \in SUBSET CallIds
  BY ConstantsFacts DEF Init
<1>5. /\ outcome \in [CallIds -> {"none", "value", "error"}]
      /\ settles \in [CallIds -> Nat]
  BY DEF Init
<1> QED
  BY <1>2, <1>3, <1>4, <1>5 DEF Init, TypeOK

LEMMA TypeStep == TypeOK /\ [Next]_vars => TypeOK'
<1> SUFFICES ASSUME TypeOK, [Next]_vars PROVE TypeOK'
  OBVIOUS
<1> USE ConstantsFacts
<1>1. ASSUME LoadStep PROVE TypeOK'
  <2>1. ASSUME fromWorker' = Tail(fromWorker), fromWorker # <<>>
        PROVE fromWorker' \in Seq(FromWorkerMessage)
    BY <2>1, TailTyped DEF TypeOK
  <2>2. CASE LoadReady
    BY <2>1, <2>2, RefTyped DEF TypeOK, LoadReady, MessageArrives, TakeMessage
  <2>3. CASE LoadInitError
    BY <2>1, <2>3 DEF TypeOK, LoadInitError, MessageArrives, TakeMessage, Terminate
  <2>4. CASE LoadWorkerError
    BY <2>4 DEF TypeOK, LoadWorkerError, Terminate, workerVars
  <2>5. CASE LoadWorkerExit
    BY <2>5 DEF TypeOK, LoadWorkerExit, Terminate, workerVars
  <2>6. CASE LoadThrows
    BY <2>6 DEF TypeOK, LoadThrows, handleVars, workerVars
  <2> QED
    BY <1>1, <2>2, <2>3, <2>4, <2>5, <2>6 DEF LoadStep
<1>2. CASE Call
  <2>1. nextId \in CallIds /\ nextId' \in 1..(MaxCalls + 1)
    BY <1>2 DEF Call, TypeOK, CallIds
  <2>2. toWorker' \in Seq(ToWorkerMessage)
    BY <1>2, <2>1, ToTyped, AppendTyped DEF Call, TypeOK
  <2>3. ref' \in BOOLEAN
    BY <1>2, RefTyped DEF Call
  <2> QED
    BY <1>2, <2>1, <2>2, <2>3 DEF Call, TypeOK
<1>3. CASE CallPostThrows
  <2>1. nextId' \in 1..(MaxCalls + 1)
    BY <1>3 DEF CallPostThrows, TypeOK
  <2>2. ref' \in BOOLEAN
    BY <1>3, RefTyped DEF CallPostThrows
  <2> QED
    BY <1>3, <2>1, <2>2, SettleTyped DEF CallPostThrows, TypeOK, workerVars
<1>4. ASSUME RejectAllPending
      PROVE /\ outcome' \in [CallIds -> {"none", "value", "error"}]
            /\ settles' \in [CallIds -> Nat]
            /\ pending' \in SUBSET CallIds
            /\ ref' \in BOOLEAN
  BY <1>4, SettleTyped, RefTyped DEF RejectAllPending
<1>5. ASSUME EventStep PROVE TypeOK'
  <2>1. ASSUME fromWorker' = Tail(fromWorker), fromWorker # <<>>
        PROVE fromWorker' \in Seq(FromWorkerMessage)
    BY <2>1, TailTyped DEF TypeOK
  <2>2. CASE OnResult
    <3>1. fromWorker' \in Seq(FromWorkerMessage)
      BY <2>1, <2>2 DEF OnResult, MessageArrives, TakeMessage
    <3>2. ref' \in BOOLEAN
      BY <2>2, RefTyped DEF OnResult
    <3>3. Head(fromWorker) \in FromWorkerMessage
      BY <2>2, TailTyped DEF OnResult, MessageArrives, TypeOK
    <3>4. Head(fromWorker).answer \in {"value", "error"}
      BY <2>2, <3>3 DEF OnResult, FromWorkerMessage
    <3>5. /\ outcome' \in [CallIds -> {"none", "value", "error"}]
          /\ settles' \in [CallIds -> Nat]
      BY <2>2, <3>4, SettleTyped DEF OnResult
    <3> QED
      BY <2>2, <3>1, <3>2, <3>5 DEF OnResult, TypeOK
  <2>3. CASE OnIgnoredMessage
    BY <2>1, <2>3 DEF TypeOK, OnIgnoredMessage, MessageArrives, TakeMessage, facadeVars, handleVars
  <2>4. CASE OnWorkerError
    BY <1>4, <2>4 DEF TypeOK, OnWorkerError, workerVars
  <2>5. CASE OnMootError
    BY <2>5, ZenonT(30) DEF TypeOK, OnMootError, facadeVars, workerVars
  <2>6. CASE OnUnexpectedExit
    BY <1>4, <2>6 DEF TypeOK, OnUnexpectedExit, workerVars
  <2>7. CASE OnExpectedExit
    BY <2>7 DEF TypeOK, OnExpectedExit, workerVars
  <2> QED
    BY <1>5, <2>2, <2>3, <2>4, <2>5, <2>6, <2>7 DEF EventStep
<1>6. CASE Close
  <2>1. toWorker' \in Seq(ToWorkerMessage)
    BY <1>6, ToTyped, AppendTyped DEF Close, TypeOK
  <2> QED
    BY <1>4, <1>6, <2>1 DEF Close, TypeOK
<1>7. CASE CloseStep
  BY <1>7, ZenonT(30) DEF CloseStep, CloseTimesOut, CloseTerminated, CloseFinishes, TypeOK,
              Terminate, handleVars, workerVars
<1>8. CASE LoopDrains
  <2>1. Append(toWorker, To("shutdown", 0)) \in Seq(ToWorkerMessage)
    BY ToTyped, AppendTyped DEF TypeOK
  <2> QED
    BY <1>8, <2>1, ZenonT(30) DEF LoopDrains, TypeOK, facadeVars
<1>9. ASSUME WorkerStep PROVE TypeOK'
  <2> DEFINE Handled == /\ UNCHANGED <<facadeVars, ref, terminating, exitSeen, errorEvent, host>>
                        /\ worker' \in {"booting", "serving", "initFailed", "exited"}
                        /\ inNative' \in BOOLEAN
  <2>1. ASSUME toWorker # <<>>, toWorker' = Tail(toWorker)
        PROVE /\ toWorker' \in Seq(ToWorkerMessage)
              /\ Head(toWorker).type = "call" => Head(toWorker).id \in CallIds
    <3>1. Head(toWorker) \in ToWorkerMessage /\ Tail(toWorker) \in Seq(ToWorkerMessage)
      BY <2>1, TailTyped DEF TypeOK
    <3> QED
      BY <2>1, <3>1 DEF ToWorkerMessage
  <2>2. CASE WorkerInit
    <3>1. fromWorker' \in Seq(FromWorkerMessage)
      BY <2>2, FromTyped, AppendTyped DEF WorkerInit, TypeOK
    <3>2. toWorker' \in Seq(ToWorkerMessage)
      BY <2>1, <2>2 DEF WorkerInit, WorkerHandles
    <3>3. Handled
      BY <2>2, Zenon DEF WorkerInit, WorkerHandles, TypeOK
    <3> QED
      BY <3>1, <3>2, <3>3, ZenonT(30) DEF TypeOK, facadeVars
  <2>3. CASE WorkerCall
    <3>1. toWorker' \in Seq(ToWorkerMessage) /\ Head(toWorker).id \in CallIds
      BY <2>1, <2>3 DEF WorkerCall, WorkerHandles
    <3>2. PICK answer \in {"value", "error"} :
            fromWorker' = Append(fromWorker, From("result", Head(toWorker).id, answer))
      BY <2>3 DEF WorkerCall
    <3>3. From("result", Head(toWorker).id, answer) \in FromWorkerMessage
      BY <3>1, FromTyped
    <3>4. fromWorker' \in Seq(FromWorkerMessage)
      BY <3>2, <3>3, AppendTyped DEF TypeOK
    <3>5. Handled
      BY <2>3, Zenon DEF WorkerCall, WorkerHandles, TypeOK
    <3> QED
      BY <3>1, <3>4, <3>5, ZenonT(30) DEF TypeOK, facadeVars
  <2>4. CASE WorkerShutdown
    <3>1. fromWorker' \in Seq(FromWorkerMessage)
      BY <2>4, FromTyped, AppendTyped DEF WorkerShutdown, TypeOK
    <3>2. toWorker' \in Seq(ToWorkerMessage)
      BY <2>1, <2>4 DEF WorkerShutdown, WorkerHandles
    <3>3. Handled
      BY <2>4, Zenon DEF WorkerShutdown, WorkerHandles, TypeOK
    <3> QED
      BY <3>1, <3>2, <3>3, ZenonT(30) DEF TypeOK, facadeVars
  <2>5. CASE WorkerEnters
    <3>1. Handled /\ UNCHANGED <<toWorker, fromWorker>>
      BY <2>5, ZenonT(30) DEF WorkerEnters, TypeOK, handleVars
    <3> QED
      BY <3>1, ZenonT(30) DEF TypeOK, facadeVars
  <2>6. CASE WorkerCutShort
    <3>1. Handled /\ UNCHANGED <<toWorker, fromWorker>>
      BY <2>6, ZenonT(30) DEF WorkerCutShort, TypeOK, handleVars
    <3> QED
      BY <3>1, ZenonT(30) DEF TypeOK, facadeVars
  <2> QED
    BY <1>9, <2>2, <2>3, <2>4, <2>5, <2>6 DEF WorkerStep, NativeReturns
<1>10. CASE WorkerCrashes \/ WorkerQuits \/ WorkerTerminated
  <2>1. CASE WorkerCrashes
    BY <2>1, ZenonT(30) DEF WorkerCrashes, TypeOK, facadeVars
  <2>2. CASE WorkerQuits
    BY <2>2, ZenonT(30) DEF WorkerQuits, TypeOK, facadeVars, handleVars
  <2>3. CASE WorkerTerminated
    BY <2>3, ZenonT(30) DEF WorkerTerminated, TypeOK, facadeVars, handleVars
  <2> QED
    BY <1>10, <2>1, <2>2, <2>3
<1>11. CASE UNCHANGED vars
  BY <1>11 DEF vars, facadeVars, handleVars, workerVars, TypeOK
<1> QED
  BY <1>1, <1>2, <1>3, <1>5, <1>6, <1>7, <1>8, <1>9, <1>10, <1>11 DEF Next, Over

\* Every variable keeps its type.
THEOREM TypeCorrect == Spec => []TypeOK
BY TypeInit, TypeStep, PTL DEF Spec

-----------------------------------------------------------------------------
(* Safety: the invariants of the runs, by one inductive invariant.         *)

\* Only ids already handed out are in flight.
PendingIssued == \A c \in pending : c < nextId

\* The stages of load(), close() and the worker's handle go together: a handle
\* somebody waits on is ref'd, an exit seen is an exit, and neither load() nor
\* close() is over before it (unless terminate() failed).
StagesAgree ==
  /\ state \in {"loading", "loadFailing"} => ref
  /\ state \in {"loading", "open"} => ~exitSeen
  /\ closing # "no" => state \in {"closing", "closed"}
  /\ state = "closing" => closing \in {"racing", "terminating", "finishing"}
  /\ closing = "terminating" => ref
  /\ exitSeen => worker = "exited"
  /\ state = "loadFailed" => exitSeen \/ unstoppable
  /\ closing \in {"finishing", "done"} => exitSeen \/ unstoppable

\* The inductive invariant. NoDrainUnderAnAwait needs RefTracksInFlight (the
\* ref'd handle is what holds the loop) and StagesAgree (the handle is still
\* live); RefTracksInFlight needs NobodyWaitsOnADeadEngine.
IInv == /\ TypeOK
        /\ PendingIssued
        /\ StagesAgree
        /\ NobodyWaitsOnADeadEngine
        /\ SettledOnceOrPending
        /\ RefTracksInFlight
        /\ NoDrainUnderAnAwait
        /\ ExitHookWhileLive

LEMMA IInvInit == Init => IInv
<1> SUFFICES ASSUME Init PROVE IInv
  OBVIOUS
<1>1. TypeOK
  BY TypeInit
<1>2. SettledOnceOrPending
  BY ConstantsFacts DEF Init, SettledOnceOrPending, CallIds
<1> QED
  BY <1>1, <1>2 DEF Init, IInv, PendingIssued, StagesAgree, NobodyWaitsOnADeadEngine,
                    RefTracksInFlight, NoDrainUnderAnAwait, ExitHookWhileLive

\* A step that touches none of #pending, #nextId and the histories keeps what
\* is said about them.
LEMMA BookkeepingUntouched ==
  ASSUME SettledOnceOrPending, PendingIssued,
         UNCHANGED <<nextId, pending, outcome, settles>>
  PROVE  SettledOnceOrPending' /\ PendingIssued'
BY DEF SettledOnceOrPending, PendingIssued

\* Settling part of #pending, once, and dropping it from #pending.
LEMMA BookkeepingSettled ==
  ASSUME TypeOK, SettledOnceOrPending, PendingIssued, nextId' = nextId,
         NEW ids \in SUBSET pending, NEW o \in {"value", "error"},
         Settle(ids, o), pending' = pending \ ids
  PROVE  SettledOnceOrPending' /\ PendingIssued'
<1>1. PendingIssued'
  BY DEF PendingIssued
<1>2. ASSUME NEW c \in CallIds
      PROVE  /\ settles'[c] = (IF c < nextId' /\ c \notin pending' THEN 1 ELSE 0)
             /\ (outcome'[c] = "none") <=> (settles'[c] = 0)
  <2>1. CASE c \in ids
    <3>1. c \in pending /\ c < nextId /\ settles[c] = 0
      BY <2>1 DEF PendingIssued, SettledOnceOrPending
    <3>2. settles'[c] = 1 /\ outcome'[c] = o
      BY <2>1, <3>1 DEF Settle
    <3> QED
      BY <2>1, <3>1, <3>2
  <2>2. CASE c \notin ids
    <3>1. settles'[c] = settles[c] /\ outcome'[c] = outcome[c]
      BY <2>2 DEF Settle
    <3> QED
      BY <2>2, <3>1 DEF SettledOnceOrPending
  <2> QED
    BY <2>1, <2>2
<1> QED
  BY <1>1, <1>2 DEF SettledOnceOrPending

LEMMA BookkeepingRejected ==
  ASSUME TypeOK, SettledOnceOrPending, PendingIssued, nextId' = nextId, RejectAllPending
  PROVE  /\ SettledOnceOrPending' /\ PendingIssued'
         /\ pending' = {}
         /\ pending = {} => ref' = ref
<1>1. pending' = pending \ pending
  BY DEF RejectAllPending
<1> QED
  BY <1>1, BookkeepingSettled DEF RejectAllPending

LEMMA IInvStep == IInv /\ [Next]_vars => IInv'
<1> SUFFICES ASSUME IInv, [Next]_vars PROVE IInv'
  OBVIOUS
<1>0. TypeOK'
  BY TypeStep DEF IInv
<1> DEFINE Rest == /\ StagesAgree
                   /\ NobodyWaitsOnADeadEngine
                   /\ RefTracksInFlight
                   /\ NoDrainUnderAnAwait
                   /\ ExitHookWhileLive
           Books == SettledOnceOrPending /\ PendingIssued
<1> USE ConstantsFacts
\* What a step has to keep, once the bookkeeping is set apart.
<1>a. ASSUME Rest', Books' PROVE IInv'
  BY <1>0, <1>a DEF IInv
<1>b. ASSUME UNCHANGED <<nextId, pending, outcome, settles>> PROVE Books'
  BY <1>b, BookkeepingUntouched DEF IInv
<1>1. ASSUME LoadStep PROVE IInv'
  <2>1. Books'
    BY <1>1, <1>b DEF LoadStep, LoadReady, LoadInitError, LoadWorkerError, LoadWorkerExit,
                      LoadThrows
  <2>2. CASE LoadReady
    <3>1. Rest'
      BY <2>2 DEF LoadReady, Unref, MessageArrives, IInv, TypeOK, StagesAgree,
                  NobodyWaitsOnADeadEngine, RefTracksInFlight, NoDrainUnderAnAwait,
                  ExitHookWhileLive
    <3> QED BY <1>a, <2>1, <3>1
  <2>3. CASE LoadInitError \/ LoadWorkerError \/ LoadWorkerExit \/ LoadThrows
    <3>1. Rest'
      BY <2>3 DEF LoadInitError, LoadWorkerError, LoadWorkerExit, LoadThrows, Terminate,
                  MessageArrives, ErrorArrives, ExitArrives, handleVars, workerVars,
                  IInv, TypeOK, StagesAgree, NobodyWaitsOnADeadEngine, RefTracksInFlight,
                  NoDrainUnderAnAwait, ExitHookWhileLive
    <3> QED BY <1>a, <2>1, <3>1
  <2> QED BY <1>1, <2>2, <2>3 DEF LoadStep
<1>2. CASE Call
  <2>1. nextId \in CallIds /\ nextId \notin pending /\ settles[nextId] = 0
    BY <1>2 DEF Call, IInv, TypeOK, CallIds, PendingIssued, SettledOnceOrPending
  <2>2. PendingIssued'
    BY <1>2 DEF Call, IInv, TypeOK, PendingIssued, CallIds
  <2>3. SettledOnceOrPending'
    <3> SUFFICES ASSUME NEW c \in CallIds
                 PROVE  (c < nextId /\ c \notin pending)
                           <=> (c < nextId' /\ c \notin pending')
      BY <1>2 DEF Call, IInv, SettledOnceOrPending
    <3> QED
      BY <1>2, <2>1 DEF Call, IInv, TypeOK, CallIds
  <2>4. Rest'
    BY <1>2 DEF Call, Ref, IInv, TypeOK, StagesAgree, NobodyWaitsOnADeadEngine,
                RefTracksInFlight, NoDrainUnderAnAwait, ExitHookWhileLive
  <2> QED BY <1>a, <2>2, <2>3, <2>4
<1>3. CASE CallPostThrows
  <2>1. nextId \in CallIds /\ nextId \notin pending
    BY <1>3 DEF CallPostThrows, IInv, TypeOK, CallIds, PendingIssued
  <2>2. PendingIssued'
    BY <1>3 DEF CallPostThrows, IInv, TypeOK, PendingIssued, CallIds
  <2>3. SettledOnceOrPending'
    <3> SUFFICES ASSUME NEW c \in CallIds
                 PROVE  /\ settles'[c] = (IF c < nextId' /\ c \notin pending' THEN 1 ELSE 0)
                        /\ (outcome'[c] = "none") <=> (settles'[c] = 0)
      BY DEF SettledOnceOrPending
    <3>1. CASE c = nextId
      BY <1>3, <2>1, <3>1 DEF CallPostThrows, Settle, IInv, TypeOK, CallIds, SettledOnceOrPending
    <3>2. CASE c # nextId
      BY <1>3, <2>1, <3>2 DEF CallPostThrows, Settle, IInv, TypeOK, CallIds, SettledOnceOrPending
    <3> QED BY <3>1, <3>2
  <2>4. Rest'
    BY <1>3 DEF CallPostThrows, Unref, IInv, TypeOK, StagesAgree, NobodyWaitsOnADeadEngine,
                RefTracksInFlight, NoDrainUnderAnAwait, ExitHookWhileLive, workerVars
  <2> QED BY <1>a, <2>2, <2>3, <2>4
<1>4. CASE OnResult
  <2>1. Head(fromWorker).answer \in {"value", "error"}
    <3>1. Head(fromWorker) \in FromWorkerMessage
      BY <1>4, TailTyped DEF OnResult, MessageArrives, IInv, TypeOK
    <3> QED BY <1>4, <3>1 DEF OnResult, FromWorkerMessage
  <2>2. Books'
    BY <1>4, <2>1, BookkeepingSettled DEF OnResult, IInv
  <2>3. Rest'
    BY <1>4 DEF OnResult, MessageArrives, Unref, IInv, TypeOK, StagesAgree,
                NobodyWaitsOnADeadEngine, RefTracksInFlight, NoDrainUnderAnAwait,
                ExitHookWhileLive
  <2> QED BY <1>a, <2>2, <2>3
<1>5. CASE OnIgnoredMessage \/ OnMootError \/ OnExpectedExit
  <2>1. Books'
    BY <1>5, <1>b DEF OnIgnoredMessage, OnMootError, OnExpectedExit, facadeVars
  <2>2. Rest'
    BY <1>5 DEF OnIgnoredMessage, OnMootError, OnExpectedExit, MessageArrives, ErrorArrives,
                ExitArrives, facadeVars, handleVars, workerVars, IInv, TypeOK, StagesAgree,
                NobodyWaitsOnADeadEngine, RefTracksInFlight, NoDrainUnderAnAwait,
                ExitHookWhileLive
  <2> QED BY <1>a, <2>1, <2>2
<1>6. CASE OnWorkerError
  <2>1. Books' /\ pending' = {} /\ (pending = {} => ref' = ref)
    BY <1>6, BookkeepingRejected DEF OnWorkerError, IInv
  <2>2. Rest'
    BY <1>6, <2>1 DEF OnWorkerError, ErrorArrives, workerVars, IInv, TypeOK, StagesAgree,
                NobodyWaitsOnADeadEngine, RefTracksInFlight, NoDrainUnderAnAwait,
                ExitHookWhileLive
  <2> QED BY <1>a, <2>1, <2>2
<1>7. CASE OnUnexpectedExit
  <2>1. Books' /\ pending' = {} /\ (pending = {} => ref' = ref)
    BY <1>7, BookkeepingRejected DEF OnUnexpectedExit, IInv
  <2>2. Rest'
    BY <1>7, <2>1 DEF OnUnexpectedExit, ExitArrives, workerVars, IInv, TypeOK, StagesAgree,
                NobodyWaitsOnADeadEngine, RefTracksInFlight, NoDrainUnderAnAwait,
                ExitHookWhileLive
  <2> QED BY <1>a, <2>1, <2>2
<1>8. CASE Close
  <2>1. Books' /\ pending' = {} /\ (pending = {} => ref' = ref)
    BY <1>8, BookkeepingRejected DEF Close, IInv
  <2>2. Rest'
    BY <1>8, <2>1 DEF Close, IInv, TypeOK, StagesAgree, NobodyWaitsOnADeadEngine,
                RefTracksInFlight, NoDrainUnderAnAwait, ExitHookWhileLive
  <2> QED BY <1>a, <2>1, <2>2
<1>9. CASE CloseStep
  <2>1. Books'
    BY <1>9, <1>b DEF CloseStep, CloseTimesOut, CloseTerminated, CloseFinishes
  <2>2. Rest'
    BY <1>9 DEF CloseStep, CloseTimesOut, CloseTerminated, CloseFinishes, Terminate,
                handleVars, workerVars, IInv, TypeOK, StagesAgree, NobodyWaitsOnADeadEngine,
                RefTracksInFlight, NoDrainUnderAnAwait, ExitHookWhileLive
  <2> QED BY <1>a, <2>1, <2>2
<1>10. CASE LoopDrains
  <2>1. Books'
    BY <1>10, <1>b DEF LoopDrains, facadeVars
  <2>2. Rest'
    BY <1>10 DEF LoopDrains, LoopHeld, facadeVars, IInv, TypeOK, StagesAgree,
                NobodyWaitsOnADeadEngine, RefTracksInFlight, NoDrainUnderAnAwait,
                ExitHookWhileLive
  <2> QED BY <1>a, <2>1, <2>2
<1>11. CASE WorkerStep \/ WorkerCrashes \/ WorkerQuits \/ WorkerTerminated
  <2>1. Books'
    BY <1>11, <1>b DEF WorkerStep, NativeReturns, WorkerEnters, WorkerCutShort, WorkerInit,
                WorkerCall, WorkerShutdown, WorkerHandles, WorkerCrashes, WorkerQuits,
                WorkerTerminated, facadeVars
  <2>2. Rest'
    <3>1. /\ UNCHANGED <<facadeVars, ref, exitSeen, host>>
          /\ worker = "exited" => worker' = "exited"
      BY <1>11 DEF WorkerStep, NativeReturns, WorkerEnters, WorkerCutShort, WorkerInit,
                   WorkerCall, WorkerShutdown, WorkerHandles, WorkerCrashes, WorkerQuits,
                   WorkerTerminated, handleVars, IInv, StagesAgree
    <3> QED
      BY <3>1 DEF facadeVars, IInv, StagesAgree, NobodyWaitsOnADeadEngine,
                  RefTracksInFlight, NoDrainUnderAnAwait, ExitHookWhileLive
  <2> QED BY <1>a, <2>1, <2>2
<1>12. CASE UNCHANGED vars
  <2>1. Books'
    BY <1>12, <1>b DEF vars, facadeVars
  <2>2. Rest'
    BY <1>12 DEF vars, facadeVars, handleVars, workerVars, IInv, StagesAgree,
                NobodyWaitsOnADeadEngine, RefTracksInFlight, NoDrainUnderAnAwait,
                ExitHookWhileLive
  <2> QED BY <1>a, <2>1, <2>2
<1> QED
  BY <1>1, <1>2, <1>3, <1>4, <1>5, <1>6, <1>7, <1>8, <1>9, <1>10, <1>11, <1>12
     DEF Next, EventStep, Over

LEMMA Inductive == Spec => []IInv
BY IInvInit, IInvStep, PTL DEF Spec

\* However calls, answers, close(), crashes and exits interleave, every call
\* is settled exactly once, or still in #pending and unsettled.
THEOREM CallsSettleOnce == Spec => []SettledOnceOrPending
<1>1. IInv => SettledOnceOrPending
  BY DEF IInv
<1> QED
  BY <1>1, Inductive, PTL

\* Nobody is left waiting on an engine that is closing or dead.
THEOREM NobodyLeftWaiting == Spec => []NobodyWaitsOnADeadEngine
<1>1. IInv => NobodyWaitsOnADeadEngine
  BY DEF IInv
<1> QED
  BY <1>1, Inductive, PTL

\* The worker's handle is ref'd exactly while a call is in flight.
THEOREM HandleRefd == Spec => []RefTracksInFlight
<1>1. IInv => RefTracksInFlight
  BY DEF IInv
<1> QED
  BY <1>1, Inductive, PTL

\* The event loop never drains under a pending call, load() or close().
THEOREM AwaitsHoldTheLoop == Spec => []NoDrainUnderAnAwait
<1>1. IInv => NoDrainUnderAnAwait
  BY DEF IInv
<1> QED
  BY <1>1, Inductive, PTL

\* The process 'exit' hook is registered exactly while the engine is live.
THEOREM HookFollowsEngine == Spec => []ExitHookWhileLive
<1>1. IInv => ExitHookWhileLive
  BY DEF IInv
<1> QED
  BY <1>1, Inductive, PTL

\* Once load() has failed, or close() has finished, the thread has exited,
\* provided terminate() does not fail.
THEOREM ThreadsAreReaped == Spec => []NoThreadLeak
<1>1. IInv => NoThreadLeak
  BY DEF IInv, StagesAgree, NoThreadLeak
<1> QED
  BY <1>1, Inductive, PTL

-----------------------------------------------------------------------------
(* Refinement: NativeEngine implements the SettleOnce.                     *)

\* What the two histories and #pending say about the abstract status.
LEMMA StatusUnchanged ==
  ASSUME UNCHANGED <<pending, outcome>> PROVE Status' = Status
BY DEF Status

LEMMA GateUnchanged == ASSUME state' = state PROVE Gate' = Gate
BY DEF Gate

LEMMA StatusType == ASSUME TypeOK, NEW c \in CallIds
                    PROVE  Status[c] \in {"inflight", "idle", "value", "error"}
BY DEF Status, TypeOK

\* Rejecting everything that is pending while the gate shuts is GoDown.
LEMMA RejectingIsGoDown ==
  ASSUME TypeOK, SettledOnceOrPending, RejectAllPending,
         state \in {"loading", "open"}, state' \in {"closing", "closed"}
  PROVE  Promise!GoDown
<1>1. Gate # "down" /\ Gate' = "down"
  BY DEF Gate
<1>2. Status' = [c \in CallIds |-> IF Status[c] = "inflight" THEN "error" ELSE Status[c]]
  <2> SUFFICES ASSUME NEW c \in CallIds
               PROVE  Status'[c] = IF Status[c] = "inflight" THEN "error" ELSE Status[c]
    BY DEF Status
  <2>1. CASE c \in pending
    BY <2>1 DEF Status, RejectAllPending, Settle
  <2>2. CASE c \notin pending
    <3>1. Status[c] = (IF outcome[c] = "none" THEN "idle" ELSE outcome[c])
      BY <2>2 DEF Status
    <3>2. outcome'[c] = outcome[c] /\ c \notin pending'
      BY <2>2 DEF RejectAllPending, Settle
    <3>3. Status'[c] = Status[c]
      BY <3>1, <3>2 DEF Status
    <3>4. Status[c] # "inflight"
      BY <3>1 DEF TypeOK
    <3> QED BY <3>3, <3>4
  <2> QED BY <2>1, <2>2
<1> QED
  BY <1>1, <1>2 DEF Promise!GoDown

\* Nothing in flight: shutting the gate alone is GoDown as well.
LEMMA ShuttingIsGoDown ==
  ASSUME TypeOK, pending = {}, UNCHANGED <<pending, outcome>>, Gate # "down", Gate' = "down"
  PROVE  Promise!GoDown
<1>1. \A c \in CallIds : Status[c] # "inflight"
  BY DEF Status, TypeOK
<1>2. Status' = [c \in CallIds |-> IF Status[c] = "inflight" THEN "error" ELSE Status[c]]
  BY <1>1 DEF Status
<1> QED
  BY <1>2 DEF Promise!GoDown

LEMMA RefinesInit == Init => Promise!Init
<1> SUFFICES ASSUME Init PROVE Promise!Init
  OBVIOUS
<1>1. Gate = "starting"
  BY DEF Gate, Init
<1>2. Status = [c \in CallIds |-> "idle"]
  BY DEF Status, Init
<1> QED
  BY <1>1, <1>2 DEF Promise!Init

LEMMA RefinesStep == IInv /\ [Next]_vars => [Promise!Next]_(Promise!vars)
<1> SUFFICES ASSUME IInv, [Next]_vars PROVE [Promise!Next]_(Promise!vars)
  OBVIOUS
<1> USE ConstantsFacts
<1>t. TypeOK /\ SettledOnceOrPending /\ NobodyWaitsOnADeadEngine /\ PendingIssued
  BY DEF IInv
<1>g. Gate' = Gate <=> \/ state' = state
                       \/ state \notin {"loading", "open"} /\ state' \notin {"loading", "open"}
  BY TypeStep, <1>t DEF Gate, TypeOK
<1>s. ASSUME UNCHANGED <<pending, outcome>>, Gate' = Gate
      PROVE  UNCHANGED Promise!vars
  BY <1>s, StatusUnchanged DEF Promise!vars
<1>1. CASE LoadReady
  <2>1. Status' = Status /\ Gate = "starting" /\ Gate' = "up"
    BY <1>1, StatusUnchanged DEF LoadReady, Gate
  <2> QED BY <2>1 DEF Promise!Next, Promise!ComeUp
<1>2. CASE LoadInitError \/ LoadWorkerError \/ LoadWorkerExit
  <2>1. /\ Gate # "down" /\ Gate' = "down" /\ pending = {}
        /\ UNCHANGED <<pending, outcome>>
    BY <1>2, <1>t DEF LoadInitError, LoadWorkerError, LoadWorkerExit, Gate,
                      NobodyWaitsOnADeadEngine
  <2> QED BY <1>t, <2>1, ShuttingIsGoDown DEF Promise!Next
<1>3. CASE LoadThrows
  BY <1>3, <1>g, <1>s DEF LoadThrows
<1>4. CASE Call
  <2>1. nextId \in CallIds /\ nextId \notin pending /\ outcome[nextId] = "none"
    BY <1>4, <1>t DEF Call, TypeOK, CallIds, PendingIssued, SettledOnceOrPending
  <2>2. Gate = "up" /\ Gate' = Gate
    BY <1>4 DEF Call, Gate
  <2>3. Status[nextId] = "idle" /\ Status' = [Status EXCEPT ![nextId] = "inflight"]
    BY <1>4, <2>1 DEF Call, Status
  <2> QED BY <2>1, <2>2, <2>3 DEF Promise!Next, Promise!Issue
<1>5. CASE CallPostThrows
  <2>1. nextId \in CallIds /\ nextId \notin pending /\ outcome[nextId] = "none"
    BY <1>5, <1>t DEF CallPostThrows, TypeOK, CallIds, PendingIssued, SettledOnceOrPending
  <2>2. Gate = "up" /\ Gate' = Gate
    BY <1>5 DEF CallPostThrows, Gate
  <2>3. Status[nextId] = "idle" /\ Status' = [Status EXCEPT ![nextId] = "error"]
    BY <1>5, <2>1 DEF CallPostThrows, Settle, Status
  <2> QED BY <2>1, <2>2, <2>3 DEF Promise!Next, Promise!FailAtOnce
<1>6. CASE OnResult
  <2> DEFINE c == Head(fromWorker).id
             a == Head(fromWorker).answer
  <2>1. a \in {"value", "error"} /\ c \in pending /\ c \in CallIds
    <3>1. Head(fromWorker) \in FromWorkerMessage
      BY <1>6, <1>t, TailTyped DEF OnResult, MessageArrives, TypeOK
    <3> QED BY <1>6, <3>1 DEF OnResult, FromWorkerMessage
  <2>2. Gate = "up" /\ Gate' = Gate
    BY <1>6, <1>t, <2>1 DEF OnResult, NobodyWaitsOnADeadEngine, Gate
  <2>3. pending' = pending \ {c} /\ Settle({c}, a)
    BY <1>6 DEF OnResult
  <2> HIDE DEF c, a
  <2>4. Status[c] = "inflight" /\ Status' = [Status EXCEPT ![c] = a]
    BY <2>1, <2>3 DEF Settle, Status
  <2> QED BY <2>1, <2>2, <2>4 DEF Promise!Next, Promise!Answer, Promise!Settled
<1>7. CASE OnIgnoredMessage \/ OnMootError \/ OnExpectedExit
  BY <1>7, <1>g, <1>s DEF OnIgnoredMessage, OnMootError, OnExpectedExit, facadeVars
<1>8. CASE OnWorkerError
  <2>1. CASE state = "open"
    BY <1>8, <1>t, <2>1, RejectingIsGoDown DEF OnWorkerError, Promise!Next
  <2>2. CASE state = "closing"
    <3>1. pending = {} /\ pending' = {}
      BY <1>8, <1>t, <2>2 DEF OnWorkerError, RejectAllPending, NobodyWaitsOnADeadEngine
    <3>2. outcome' = outcome
      BY <1>8, <1>t, <3>1 DEF OnWorkerError, RejectAllPending, Settle, TypeOK
    <3>3. Gate' = Gate
      BY <1>8, <1>g, <2>2 DEF OnWorkerError
    <3> QED BY <3>1, <3>2, <3>3, <1>s
  <2> QED BY <1>8, <2>1, <2>2 DEF OnWorkerError
<1>9. CASE OnUnexpectedExit
  BY <1>9, <1>t, RejectingIsGoDown DEF OnUnexpectedExit, Promise!Next
<1>10. CASE Close
  BY <1>10, <1>t, RejectingIsGoDown DEF Close, Promise!Next
<1>11. CASE CloseStep
  <2>1. UNCHANGED <<pending, outcome>>
    BY <1>11 DEF CloseStep, CloseTimesOut, CloseTerminated, CloseFinishes
  <2>2. Gate' = Gate
    BY <1>11, <1>g DEF CloseStep, CloseTimesOut, CloseTerminated, CloseFinishes, IInv, StagesAgree
  <2> QED BY <1>s, <2>1, <2>2
<1>12. CASE LoopDrains \/ WorkerStep \/ WorkerCrashes \/ WorkerQuits \/ WorkerTerminated
            \/ UNCHANGED vars
  BY <1>12, <1>g, <1>s DEF LoopDrains, WorkerStep, NativeReturns, WorkerEnters,
        WorkerCutShort, WorkerInit, WorkerCall, WorkerShutdown, WorkerHandles, WorkerCrashes, WorkerQuits, WorkerTerminated, vars, facadeVars
<1> QED
  BY <1>1, <1>2, <1>3, <1>4, <1>5, <1>6, <1>7, <1>8, <1>9, <1>10, <1>11, <1>12
     DEF Next, LoadStep, EventStep, Over

\* The facade, its worker and their channels implement the promise that every
\* call is answered exactly once and none after the service went down.
THEOREM ImplementsPromise == Spec => ImplementsSettleOnce
BY Inductive, RefinesInit, RefinesStep, PTL DEF Spec, ImplementsSettleOnce, Promise!Spec
=============================================================================
