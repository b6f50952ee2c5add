---------------------------- MODULE TestkitProofs ----------------------------
(***************************************************************************)
(* Theorems about EngineFacade and Testkit, for any number of calls, ports *)
(* and tests, and any set of engines.                                      *)
(***************************************************************************)
EXTENDS Testkit, TLAPS

-----------------------------------------------------------------------------
(* The facade.                                                             *)

\* What is true of call c at every stage: only a create() or replaceAll() has
\* gated imposters; c has made what it says it has; and a rollback has deleted
\* what is neither on its list nor reported.
CallOK(c) ==
  /\ call[c].stage = "idle" => ~call[c].gated
  /\ call[c].gated /\ call[c].stage \notin {"idle", "gate", "rejected"} =>
       setup.versionCheck = "off" \/ (version \in Versions /\ ~Refused(version))
  /\ \A p \in Ports : live[p] = c =>
       /\ call[c].kind \in {"create", "replaceAll"}
       /\ call[c].stage \in {"answer", "partial", "reading", "rollback", "resolved", "rejected"}
       /\ call[c].stage # "rejected" => p \in call[c].made
  /\ call[c].stage = "rollback" =>
       \A p \in call[c].made \ (call[c].todo \cup call[c].failed) : live[p] # c
  /\ call[c].stage = "rejected" /\ ~call[c].unseen =>
       \A p \in Ports \ call[c].failed : live[p] # c

FacadeInv ==
  /\ FacadeTypeOK
  /\ GateFollowsLookup
  /\ \A c \in Calls : CallOK(c)

LEMMA FacadeInvInit == FacadeInit => FacadeInv
BY FacadeAssumption DEF FacadeInit, FacadeInv, FacadeTypeOK, AllSetups, Versions, Stages, CallOK,
   GateFollowsLookup, WhoWait

\* What the engine does: imposters go, or are made by c, which is to know them.
LEMMA CarriedOut ==
  ASSUME FacadeTypeOK, NEW c \in Calls, EngineCarriesOut(c)
  PROVE  /\ call[c].stage = "request" /\ UNCHANGED <<setup, version>>
         /\ \E ports \in SUBSET Ports :
              /\ call' = [call EXCEPT ![c].stage = "answer", ![c].made = ports, ![c].todo = {}]
              /\ live' \in [Ports -> Calls \cup {None}]
              /\ \A p \in Ports : \/ live'[p] \in {live[p], None}
                                  \/ /\ live'[p] = c /\ p \in ports
                                     /\ call[c].kind \in {"create", "replaceAll"}
              /\ call[c].kind = "deleteAll" => \A p \in Ports : live'[p] = None
<1> DEFINE Effect(ports) ==
             /\ call' = [call EXCEPT ![c].stage = "answer", ![c].made = ports, ![c].todo = {}]
             /\ live' \in [Ports -> Calls \cup {None}]
             /\ \A p \in Ports : \/ live'[p] \in {live[p], None}
                                 \/ /\ live'[p] = c /\ p \in ports
                                    /\ call[c].kind \in {"create", "replaceAll"}
             /\ call[c].kind = "deleteAll" => \A p \in Ports : live'[p] = None
<1>0. call[c].stage = "request" /\ UNCHANGED <<setup, version>>
  BY DEF EngineCarriesOut
<1>1. ASSUME NEW p \in Ports, call[c].kind = "create", Carried(c, {p}, [live EXCEPT ![p] = c])
      PROVE  Effect({p})
  BY <1>1 DEF Carried, FacadeTypeOK
<1>2. ASSUME NEW ports \in SUBSET Ports, call[c].kind = "replaceAll",
             Carried(c, ports, [p \in Ports |-> IF p \in ports THEN c ELSE None])
      PROVE  Effect(ports)
  BY <1>2 DEF Carried, FacadeTypeOK
<1>3. ASSUME call[c].kind = "deleteAll", Carried(c, {}, [p \in Ports |-> None])
      PROVE  Effect({})
  BY <1>3 DEF Carried, FacadeTypeOK
<1>4. ASSUME call[c].kind = "delete",
             Carried(c, {}, [p \in Ports |-> IF p \in call[c].todo THEN None ELSE live[p]])
      PROVE  Effect({})
  BY <1>4 DEF Carried, FacadeTypeOK
<1> HIDE DEF Effect
<1>5. \E ports \in SUBSET Ports : Effect(ports)
  BY <1>1, <1>2, <1>3, <1>4 DEF EngineCarriesOut
<1> QED
  BY <1>0, <1>5 DEF Effect

\* Types.
CallRecord == [kind : {"create", "replaceAll", "deleteAll", "delete"},
               stage : Stages, gated : BOOLEAN, made : SUBSET Ports,
               todo : SUBSET Ports, failed : SUBSET Ports, unseen : BOOLEAN]

LEMMA FacadeTypeStep == FacadeTypeOK /\ FacadeNext => FacadeTypeOK'
<1> SUFFICES ASSUME FacadeTypeOK, FacadeNext PROVE FacadeTypeOK'
  OBVIOUS
<1> USE DEF FacadeTypeOK, Stages, Settled, Versions
<1>1. CASE VersionRead
  BY <1>1 DEF VersionRead, Gated, WhoWait
<1>2. CASE VersionFails
  BY <1>2 DEF VersionFails, WhoWait
<1>3. ASSUME NEW c \in Calls, Begin(c) PROVE FacadeTypeOK'
  <2>1. ASSUME NEW kind \in {"create", "replaceAll"}, NEW gated \in BOOLEAN, Make(c, kind, gated)
        PROVE  FacadeTypeOK'
    BY <2>1 DEF Make, Gated
  <2>2. CASE DeleteAll(c)
    BY <2>2 DEF DeleteAll
  <2>3. CASE DeleteHandle(c)
    <3>1. PICK p \in Ports :
            call' = [call EXCEPT ![c].kind = "delete", ![c].stage = "request", ![c].todo = {p}]
      BY <2>3 DEF DeleteHandle
    <3>2. {p} \in SUBSET Ports
      OBVIOUS
    <3> QED
      BY <2>3, <3>1, <3>2 DEF DeleteHandle
  <2> QED
    BY <1>3, <2>1, <2>2, <2>3 DEF Begin
<1>4. ASSUME NEW c \in Calls, EngineCarriesOut(c) PROVE FacadeTypeOK'
  <2>1. PICK ports \in SUBSET Ports :
          /\ call' = [call EXCEPT ![c].stage = "answer", ![c].made = ports, ![c].todo = {}]
          /\ live' \in [Ports -> Calls \cup {None}]
    BY <1>4, CarriedOut
  <2>2. UNCHANGED <<setup, version>>
    BY <1>4, CarriedOut
  <2> DEFINE now == [call[c] EXCEPT !.stage = "answer", !.made = ports, !.todo = {}]
  <2>3. now \in CallRecord
    BY DEF CallRecord
  <2>4. call' = [call EXCEPT ![c] = now]
    BY <2>1
  <2>5. call \in [Calls -> CallRecord]
    BY DEF CallRecord
  <2> HIDE DEF now
  <2>6. call' \in [Calls -> CallRecord]
    BY <2>3, <2>4, <2>5
  <2> QED
    BY <2>1, <2>2, <2>6 DEF CallRecord
<1>5. ASSUME NEW c \in Calls, EngineRefuses(c) \/ RolledBack(c) PROVE FacadeTypeOK'
  BY <1>5 DEF EngineRefuses, RolledBack
<1>8. ASSUME NEW c \in Calls, EngineAppliesPart(c) PROVE FacadeTypeOK'
  <2>1. PICK ports \in SUBSET Ports :
          /\ live' = [p \in Ports |-> IF p \in ports THEN c ELSE None]
          /\ call' = [call EXCEPT ![c].stage = "partial", ![c].made = ports]
    BY <1>8 DEF EngineAppliesPart
  <2>2. live' \in [Ports -> Calls \cup {None}] /\ UNCHANGED <<setup, version>>
    BY <1>8, <2>1 DEF EngineAppliesPart
  <2> DEFINE now == [call[c] EXCEPT !.stage = "partial", !.made = ports]
  <2>3. now \in CallRecord
    BY DEF CallRecord
  <2>4. call' = [call EXCEPT ![c] = now]
    BY <2>1
  <2>5. call \in [Calls -> CallRecord]
    BY DEF CallRecord
  <2> HIDE DEF now
  <2>6. call' \in [Calls -> CallRecord]
    BY <2>3, <2>4, <2>5
  <2> QED
    BY <2>2, <2>6 DEF CallRecord
<1>9. ASSUME NEW c \in Calls, RejectUnseen(c) PROVE FacadeTypeOK'
  <2> DEFINE now == [call[c] EXCEPT !.stage = "rejected", !.unseen = TRUE]
  <2>1. now \in CallRecord
    BY DEF CallRecord
  <2>2. call' = [call EXCEPT ![c] = now] /\ UNCHANGED <<setup, version, live>>
    BY <1>9 DEF RejectUnseen
  <2>3. call \in [Calls -> CallRecord]
    BY DEF CallRecord
  <2> HIDE DEF now
  <2>4. call' \in [Calls -> CallRecord]
    BY <2>1, <2>2, <2>3
  <2> QED
    BY <2>2, <2>4 DEF CallRecord
<1>6. ASSUME NEW c \in Calls, Answered(c) \/ WarningsRead(c) PROVE FacadeTypeOK'
  BY <1>6 DEF Answered, WarningsRead, Judge
<1>7. ASSUME NEW c \in Calls, RollbackDeletes(c) PROVE FacadeTypeOK'
  BY <1>7 DEF RollbackDeletes
<1> QED
  BY <1>1, <1>2, <1>3, <1>4, <1>5, <1>6, <1>7, <1>8, <1>9
     DEF FacadeNext, Continue, PartReported, AnswerUnusable

\* A call that does not change stays as it should be, whoever's imposters come
\* and go.
LEMMA OtherCall ==
  ASSUME FacadeTypeOK, NEW d \in Calls, CallOK(d), call'[d] = call[d], setup' = setup,
         version \in Versions => version' = version,
         \A p \in Ports : live'[p] = d => live[p] = d
  PROVE  CallOK(d)'
BY DEF CallOK, FacadeTypeOK, Refused

\* A call that is not at the gate, and goes on to somewhere else.
LEMMA OneCall ==
  ASSUME FacadeInv, NEW c \in Calls, FacadeTypeOK', UNCHANGED <<setup, version>>,
         \A d \in Calls \ {c} : call'[d] = call[d],
         call[c].stage # "gate", call'[c].stage # "gate",
         \A p \in Ports : live'[p] \in {live[p], None, c},
         CallOK(c)'
  PROVE  FacadeInv'
<1>1. ASSUME NEW d \in Calls PROVE CallOK(d)'
  <2>1. d # c => \A p \in Ports : live'[p] = d => live[p] = d
    BY FacadeAssumption
  <2> QED
    BY <2>1, OtherCall DEF FacadeInv
<1>2. GateFollowsLookup'
  BY DEF FacadeInv, GateFollowsLookup, WhoWait
<1> QED
  BY <1>1, <1>2 DEF FacadeInv

LEMMA FacadeStep == FacadeInv /\ FacadeNext => FacadeInv'
<1> SUFFICES ASSUME FacadeInv, FacadeNext PROVE FacadeInv'
  OBVIOUS
<1>0. FacadeTypeOK /\ FacadeTypeOK' /\ \A d \in Calls : CallOK(d)
  BY FacadeTypeStep DEF FacadeInv
<1>1. CASE VersionRead
  <2>1. /\ version = "pending" /\ version' \in Versions /\ UNCHANGED <<setup, live>>
        /\ \A c \in Calls : call[c].stage # "gate" => call'[c] = call[c]
        /\ \A c \in Calls : call[c].stage = "gate" =>
             /\ call'[c].stage = Gated(version') /\ call'[c].kind = call[c].kind
             /\ call'[c].gated = call[c].gated /\ call'[c].made = call[c].made
    BY <1>0, <1>1 DEF VersionRead, FacadeTypeOK, WhoWait
  <2>2. Gated(version') \in {"rejected", "request"} /\ (Gated(version') = "request" => ~Refused(version'))
    BY <2>1 DEF Gated
  <2>3. Refused(version)' = Refused(version')
    BY <2>1 DEF Refused
  <2>4. version \notin Versions
    BY <2>1 DEF Versions
  <2>5. ASSUME NEW c \in Calls PROVE CallOK(c)'
    <3>1. CASE call[c].stage # "gate"
      BY <1>0, <2>1, <2>4, <3>1, OtherCall
    <3>2. CASE call[c].stage = "gate"
      <4>1. \A p \in Ports : live'[p] # c
        BY <1>0, <2>1, <3>2 DEF CallOK
      <4>2. call'[c].stage \in {"rejected", "request"} /\ (call'[c].stage = "request" => ~Refused(version)')
        BY <2>1, <2>2, <2>3, <3>2
      <4> QED
        BY <1>0, <2>1, <4>1, <4>2 DEF CallOK, FacadeTypeOK
    <3> QED
      BY <3>1, <3>2
  <2>6. GateFollowsLookup'
    BY <2>1, <2>2 DEF Versions, GateFollowsLookup, WhoWait
  <2> QED
    BY <1>0, <2>5, <2>6 DEF FacadeInv
<1>2. CASE VersionFails
  <2>1. /\ version = "pending" /\ version' = "none" /\ UNCHANGED <<setup, live>>
        /\ \A c \in Calls : call[c].stage # "gate" => call'[c] = call[c]
        /\ \A c \in Calls : call[c].stage = "gate" =>
             /\ call'[c].stage = "rejected" /\ call'[c].kind = call[c].kind
             /\ call'[c].gated = call[c].gated /\ call'[c].made = call[c].made
    BY <1>0, <1>2 DEF VersionFails, FacadeTypeOK, WhoWait
  <2>2. version \notin Versions
    BY <2>1 DEF Versions
  <2>3. ASSUME NEW c \in Calls PROVE CallOK(c)'
    <3>1. CASE call[c].stage # "gate"
      BY <1>0, <2>1, <2>2, <3>1, OtherCall
    <3>2. CASE call[c].stage = "gate"
      <4>1. \A p \in Ports : live'[p] # c
        BY <1>0, <2>1, <3>2 DEF CallOK
      <4> QED
        BY <1>0, <2>1, <3>2, <4>1 DEF CallOK, FacadeTypeOK
    <3> QED
      BY <3>1, <3>2
  <2>4. GateFollowsLookup'
    BY <2>1 DEF GateFollowsLookup, WhoWait
  <2> QED
    BY <1>0, <2>3, <2>4 DEF FacadeInv
<1>3. ASSUME NEW c \in Calls, NEW kind \in {"create", "replaceAll"}, NEW gated \in BOOLEAN,
             Make(c, kind, gated)
      PROVE  FacadeInv'
  <2> DEFINE gate == gated /\ setup.versionCheck # "off"
  <2>1. /\ call[c].stage = "idle" /\ UNCHANGED <<setup, live>>
        /\ \A d \in Calls \ {c} : call'[d] = call[d]
        /\ call'[c].gated = gated
        /\ call'[c].stage = IF gate THEN Gated(version) ELSE "request"
        /\ version' = IF gate /\ version = "none" THEN "pending" ELSE version
    BY <1>0, <1>3 DEF Make, FacadeTypeOK
  <2>2. version \in Versions => version' = version
    BY <2>1 DEF Versions
  <2>3. \A p \in Ports : live[p] # c
    BY <1>0, <2>1 DEF CallOK
  <2>4. CallOK(c)'
    <3>1. CASE gate /\ version \in Versions
      <4>1. /\ version' = version /\ Refused(version)' = Refused(version)
            /\ \/ Refused(version) /\ call'[c].stage = "rejected"
               \/ ~Refused(version) /\ call'[c].stage = "request"
        BY <2>1, <2>2, <3>1 DEF Gated, Refused
      <4>2. \A p \in Ports : live'[p] # c
        BY <2>1, <2>3
      <4>3. CASE call'[c].stage = "rejected"
        BY <1>0, <4>2, <4>3 DEF CallOK, FacadeTypeOK
      <4>4. CASE ~Refused(version) /\ call'[c].stage = "request"
        BY <3>1, <4>1, <4>2, <4>4 DEF CallOK
      <4> QED
        BY <4>1, <4>3, <4>4
    <3>2. CASE gate /\ version \notin Versions
      BY <2>1, <2>3, <3>2 DEF CallOK, Gated
    <3>3. CASE ~gate
      BY <2>1, <2>3, <3>3 DEF CallOK
    <3> QED
      BY <3>1, <3>2, <3>3
  <2>5. ASSUME NEW d \in Calls PROVE CallOK(d)'
    BY <1>0, <2>1, <2>2, <2>4, OtherCall
  <2>6. GateFollowsLookup'
    <3>1. CASE gate /\ version \notin Versions
      <4>1. call'[c].stage = "gate" /\ version' = "pending"
        BY <1>0, <2>1, <3>1 DEF Gated, FacadeTypeOK
      <4> QED
        BY <4>1 DEF GateFollowsLookup, WhoWait
    <3>2. CASE ~(gate /\ version \notin Versions)
      <4>1. call'[c].stage # "gate" /\ version' = version
        BY <1>0, <2>1, <3>2 DEF Gated, Versions
      <4> QED
        BY <2>1, <4>1 DEF GateFollowsLookup, WhoWait, FacadeInv
    <3> QED
      BY <3>1, <3>2
  <2> QED
    BY <1>0, <2>5, <2>6 DEF FacadeInv
<1>4. ASSUME NEW c \in Calls, DeleteAll(c) \/ DeleteHandle(c) PROVE FacadeInv'
  <2>1. /\ call[c].stage = "idle" /\ call'[c].stage = "request" /\ UNCHANGED <<setup, version, live>>
        /\ call'[c].gated = call[c].gated
        /\ \A d \in Calls \ {c} : call'[d] = call[d]
    <3>1. CASE DeleteAll(c)
      BY <1>0, <3>1 DEF DeleteAll, FacadeTypeOK
    <3>2. CASE DeleteHandle(c)
      BY <1>0, <3>2 DEF DeleteHandle, FacadeTypeOK
    <3> QED
      BY <1>4, <3>1, <3>2
  <2>2. CallOK(c)'
    BY <1>0, <2>1 DEF CallOK
  <2> QED
    BY <1>0, <2>1, <2>2, OneCall
<1>5. ASSUME NEW c \in Calls, EngineCarriesOut(c) PROVE FacadeInv'
  <2>1. PICK ports \in SUBSET Ports :
              /\ call' = [call EXCEPT ![c].stage = "answer", ![c].made = ports, ![c].todo = {}]
              /\ \A p \in Ports : \/ live'[p] \in {live[p], None}
                                  \/ /\ live'[p] = c /\ p \in ports
                                     /\ call[c].kind \in {"create", "replaceAll"}
    BY <1>0, <1>5, CarriedOut
  <2>2. call[c].stage = "request" /\ UNCHANGED <<setup, version>>
    BY <1>0, <1>5, CarriedOut
  <2>3. /\ call'[c].stage = "answer" /\ call'[c].made = ports
        /\ call'[c].kind = call[c].kind /\ call'[c].gated = call[c].gated
        /\ \A d \in Calls \ {c} : call'[d] = call[d]
    BY <1>0, <2>1 DEF FacadeTypeOK
  <2>4. \A p \in Ports : live[p] # c
    BY <1>0, <2>2 DEF CallOK
  <2>5. CallOK(c)'
    <3>1. \A p \in Ports : live'[p] = c => call'[c].kind \in {"create", "replaceAll"} /\ p \in call'[c].made
      BY <2>1, <2>3, <2>4, FacadeAssumption
    <3>2. call'[c].gated => setup'.versionCheck = "off" \/ (version' \in Versions /\ ~Refused(version)')
      BY <1>0, <2>2, <2>3 DEF CallOK, Refused
    <3> QED
      BY <2>3, <3>1, <3>2 DEF CallOK
  <2> QED
    BY <1>0, <2>1, <2>2, <2>3, <2>5, OneCall
<1>6. ASSUME NEW c \in Calls, EngineRefuses(c) PROVE FacadeInv'
  <2>1. /\ call[c].stage = "request" /\ call'[c].stage = "rejected" /\ UNCHANGED <<setup, version, live>>
        /\ \A d \in Calls \ {c} : call'[d] = call[d]
        /\ call'[c].kind = call[c].kind /\ call'[c].made = call[c].made
    BY <1>0, <1>6 DEF EngineRefuses, FacadeTypeOK
  <2>2. CallOK(c)'
    BY <1>0, <2>1 DEF CallOK, FacadeTypeOK
  <2> QED
    BY <1>0, <2>1, <2>2, OneCall
<1>7. ASSUME NEW c \in Calls, PartReported(c) \/ AnswerUnusable(c) PROVE FacadeInv'
  <2>1. /\ call[c].stage \in {"answer", "partial"} /\ call'[c].stage = "rejected" /\ call'[c].unseen
        /\ UNCHANGED <<setup, version, live>>
        /\ \A d \in Calls \ {c} : call'[d] = call[d]
        /\ call'[c].kind = call[c].kind /\ call'[c].made = call[c].made
    BY <1>0, <1>7 DEF PartReported, AnswerUnusable, RejectUnseen, FacadeTypeOK
  <2>2. CallOK(c)'
    BY <1>0, <2>1 DEF CallOK
  <2> QED
    BY <1>0, <2>1, <2>2, OneCall
<1>11. ASSUME NEW c \in Calls, EngineAppliesPart(c) PROVE FacadeInv'
  <2>1. PICK ports \in SUBSET Ports :
          /\ live' = [p \in Ports |-> IF p \in ports THEN c ELSE None]
          /\ call' = [call EXCEPT ![c].stage = "partial", ![c].made = ports]
    BY <1>11 DEF EngineAppliesPart
  <2>2. call[c].stage = "request" /\ call[c].kind = "replaceAll" /\ UNCHANGED <<setup, version>>
    BY <1>11 DEF EngineAppliesPart
  <2>3. /\ call'[c].stage = "partial" /\ call'[c].made = ports
        /\ call'[c].kind = call[c].kind /\ call'[c].gated = call[c].gated
        /\ \A d \in Calls \ {c} : call'[d] = call[d]
    BY <1>0, <2>1 DEF FacadeTypeOK
  <2>4. CallOK(c)'
    <3>1. \A p \in Ports : live'[p] = c => p \in call'[c].made
      BY <2>1, <2>3, FacadeAssumption
    <3>2. call'[c].gated => setup'.versionCheck = "off" \/ (version' \in Versions /\ ~Refused(version)')
      BY <1>0, <2>2, <2>3 DEF CallOK, Refused
    <3> QED
      BY <2>2, <2>3, <3>1, <3>2 DEF CallOK
  <2>5. \A p \in Ports : live'[p] \in {live[p], None, c}
    BY <2>1
  <2> QED
    BY <1>0, <2>2, <2>3, <2>4, <2>5, OneCall
<1>8. ASSUME NEW c \in Calls, Answered(c) \/ WarningsRead(c) PROVE FacadeInv'
  <2>1. /\ call[c].stage \in {"answer", "reading"} /\ UNCHANGED <<setup, version, live>>
        /\ call'[c].stage \in {"resolved", "reading", "rollback"}
        /\ call'[c].stage = "rollback" => call'[c].todo = call[c].made
        /\ \A d \in Calls \ {c} : call'[d] = call[d]
        /\ call'[c].kind = call[c].kind /\ call'[c].made = call[c].made
        /\ call'[c].gated = call[c].gated
    BY <1>0, <1>8 DEF Answered, WarningsRead, Judge, FacadeTypeOK
  <2>2. CallOK(c)'
    BY <1>0, <2>1 DEF CallOK, Refused, FacadeTypeOK
  <2> QED
    BY <1>0, <2>1, <2>2, OneCall
<1>9. ASSUME NEW c \in Calls, RollbackDeletes(c) PROVE FacadeInv'
  <2>a. PICK p \in call[c].todo :
          \/ /\ live' = [live EXCEPT ![p] = None]
             /\ call' = [call EXCEPT ![c].todo = @ \ {p}]
          \/ /\ live' = live
             /\ call' = [call EXCEPT ![c].todo = @ \ {p}, ![c].failed = @ \cup {p}]
    BY <1>9 DEF RollbackDeletes
  <2>1. /\ call[c].stage = "rollback" /\ call'[c].stage = "rollback"
        /\ UNCHANGED <<setup, version>>
        /\ \A d \in Calls \ {c} : call'[d] = call[d]
        /\ call'[c].kind = call[c].kind /\ call'[c].made = call[c].made
        /\ call'[c].gated = call[c].gated /\ call'[c].todo = call[c].todo \ {p}
        /\ \/ live' = [live EXCEPT ![p] = None] /\ call'[c].failed = call[c].failed
           \/ live' = live /\ call'[c].failed = call[c].failed \cup {p}
    <3>1. call[c].stage = "rollback" /\ UNCHANGED <<setup, version>>
      BY <1>9 DEF RollbackDeletes
    <3>2. CASE live' = [live EXCEPT ![p] = None] /\ call' = [call EXCEPT ![c].todo = @ \ {p}]
      BY <1>0, <3>1, <3>2 DEF FacadeTypeOK
    <3>3. CASE live' = live /\ call' = [call EXCEPT ![c].todo = @ \ {p}, ![c].failed = @ \cup {p}]
      BY <1>0, <3>1, <3>3 DEF FacadeTypeOK
    <3> QED
      BY <2>a, <3>2, <3>3
  <2>2. \A q \in Ports : live'[q] \in {live[q], None}
    BY <1>0, <2>1 DEF FacadeTypeOK
  <2>3. CallOK(c)'
    BY <1>0, <2>1, <2>2, FacadeAssumption DEF CallOK, Refused, FacadeTypeOK
  <2> QED
    BY <1>0, <2>1, <2>2, <2>3, OneCall
<1>10. ASSUME NEW c \in Calls, RolledBack(c) PROVE FacadeInv'
  <2>1. /\ call[c].stage = "rollback" /\ call[c].todo = {} /\ call'[c].stage = "rejected"
        /\ UNCHANGED <<setup, version, live>>
        /\ \A d \in Calls \ {c} : call'[d] = call[d]
        /\ call'[c].kind = call[c].kind /\ call'[c].made = call[c].made
        /\ call'[c].failed = call[c].failed
    BY <1>0, <1>10 DEF RolledBack, FacadeTypeOK
  <2>2. CallOK(c)'
    BY <1>0, <2>1 DEF CallOK, FacadeTypeOK
  <2> QED
    BY <1>0, <2>1, <2>2, OneCall
<1> QED
  BY <1>1, <1>2, <1>3, <1>4, <1>5, <1>6, <1>7, <1>8, <1>9, <1>10, <1>11
     DEF FacadeNext, Begin, Continue

-----------------------------------------------------------------------------
(* The testkit.                                                            *)

\* An engine that only loses imposters keeps the invariant of the facade.
LEMMA Losing ==
  ASSUME FacadeInv, UNCHANGED <<setup, version, call>>, live' \in [Ports -> Calls \cup {None}],
         \A p \in Ports : live'[p] \in {live[p], None}
  PROVE  FacadeInv'
<1>1. FacadeTypeOK'
  BY DEF FacadeInv, FacadeTypeOK
<1>2. ASSUME NEW d \in Calls PROVE CallOK(d)'
  <2>1. \A p \in Ports : live'[p] = d => live[p] = d
    BY FacadeAssumption
  <2> QED
    BY <2>1, OtherCall DEF FacadeInv
<1>3. GateFollowsLookup'
  BY DEF FacadeInv, GateFollowsLookup, WhoWait
<1> QED
  BY <1>1, <1>2, <1>3 DEF FacadeInv

LEMMA TypeInit == Init => TypeOK /\ FacadeInv
<1> SUFFICES ASSUME Init PROVE TypeOK /\ FacadeInv
  OBVIOUS
<1>1. FacadeInv
  BY FacadeInvInit DEF Init
<1> QED
  BY <1>1, MaxTestsAssumption DEF Init, TypeOK, FacadeInv, Lists

LEMMA TypeStep == TypeOK /\ FacadeInv /\ [Next]_vars => TypeOK' /\ FacadeInv'
<1> SUFFICES ASSUME TypeOK, FacadeInv, [Next]_vars PROVE TypeOK' /\ FacadeInv'
  OBVIOUS
<1>1. CASE FacadeNext /\ Tracked
  <2>1. FacadeInv'
    BY <1>1, FacadeStep
  <2>2. \A c \in Calls : Made(c) \in SUBSET AllHandles
    BY DEF Made, Handles, AllHandles, TypeOK, FacadeTypeOK
  <2>3. created' \in [Lists -> SUBSET AllHandles]
    BY <1>1, <2>2 DEF Tracked, TrackCreates, TypeOK
  <2> QED
    BY <1>1, <2>1, <2>3 DEF Tracked, TypeOK, Resolving, FacadeInv
<1>2. ASSUME NEW c \in Calls, TestCalls(c) PROVE TypeOK' /\ FacadeInv'
  <2>1. FacadeInv'
    BY <1>2, FacadeStep DEF TestCalls, FacadeNext
  <2>2. List \in Lists
    BY MaxTestsAssumption DEF List, TypeOK, Lists
  <2> QED
    BY <1>2, <2>1, <2>2 DEF TestCalls, TypeOK, FacadeInv
<1>3. CASE TestEnds \/ Disposed \/ UNCHANGED vars
  <2>0. UNCHANGED facadeVars
    BY <1>3 DEF TestEnds, Disposed, vars
  <2>1. FacadeInv'
    BY <2>0 DEF FacadeInv, FacadeTypeOK, GateFollowsLookup, WhoWait, CallOK, Refused, facadeVars
  <2>2. List \in Lists
    BY MaxTestsAssumption DEF List, TypeOK, Lists
  <2>3. CASE TestEnds
    BY <2>1, <2>2, <2>3 DEF TestEnds, TypeOK, FacadeInv
  <2>4. CASE Disposed
    <3>1. created' \in [Lists -> SUBSET AllHandles]
      BY <2>2, <2>4 DEF Disposed, TypeOK
    <3>2. test' \in 1..MaxTests /\ phase' \in {"running", "disposing", "over"}
      BY <2>4, MaxTestsAssumption DEF Disposed, TypeOK
    <3> QED
      BY <2>1, <2>4, <3>1, <3>2 DEF Disposed, TypeOK, FacadeInv
  <2>5. CASE UNCHANGED vars
    BY <2>1, <2>5 DEF vars, TypeOK, FacadeInv
  <2> QED
    BY <1>3, <2>3, <2>4, <2>5
<1>4. ASSUME NEW h \in AllHandles, Disposes(h) PROVE TypeOK' /\ FacadeInv'
  <2>1. live' \in [Ports -> Calls \cup {None}] /\ \A p \in Ports : live'[p] \in {live[p], None}
    BY <1>4 DEF Disposes, TypeOK, FacadeTypeOK
  <2>2. FacadeInv'
    BY <1>4, <2>1, Losing DEF Disposes
  <2> QED
    BY <1>4, <2>2 DEF Disposes, TypeOK, FacadeInv
<1> QED
  BY <1>1, <1>2, <1>3, <1>4 DEF Next, FacadeNext

\* Every variable keeps its type, and every call and imposter is as the facade
\* takes it to be.
LEMMA Typed == Spec => [](TypeOK /\ FacadeInv)
BY TypeInit, TypeStep, PTL DEF Spec

\* Imposters that an older engine would serve wrongly go to no such engine.
THEOREM FailsClosed == Spec => []FailClosed
<1>1. FacadeInv => FailClosed
  BY DEF FacadeInv, CallOK, FailClosed
<1> QED
  BY <1>1, Typed, PTL

\* Nobody waits at the gate for a lookup that is over.
THEOREM GateFollows == Spec => []GateFollowsLookup
<1>1. FacadeInv => GateFollowsLookup
  BY DEF FacadeInv
<1> QED
  BY <1>1, Typed, PTL

\* A call that is rejected, and had an answer to act on if it got as far as the
\* engine, leaves no imposter behind that its error does not name, whatever
\* other calls and teardowns do to its ports meanwhile.
THEOREM NothingBehind == Spec => []NothingBehindARejection
<1>1. FacadeInv => NothingBehindARejection
  BY DEF FacadeInv, CallOK, NothingBehindARejection
<1> QED
  BY <1>1, Typed, PTL

-----------------------------------------------------------------------------
(* No imposter is forgotten.                                               *)

\* A tracked handle is in the list of its call, which has been fulfilled.
Placed ==
  \A l \in Lists : \A h \in created[l] :
    call[h.by].stage = "resolved" /\ home[h.by] = l

\* Only what has made imposters has warnings to be read.
ReadingMade == \A c \in Calls : call[c].stage = "reading" => call[c].kind \in {"create", "replaceAll"}

TeardownOver == phase # "disposing" => teardown = {}

Handle(p) == [port |-> p, by |-> live[p]]

\* The imposter on p is one the testkit has to see to.
Owed(p) ==
  /\ live[p] \in Calls
  /\ call[live[p]].stage = "resolved"
  /\ live[p] \notin overtaken
  /\ Handle(p) \notin undeleted

\* It is being deleted, or it is tracked and no deleteAll() that the engine has
\* carried out is about to empty its list.
SeenTo(p) ==
  /\ phase = "disposing" => Handle(p) \in teardown
  /\ phase # "disposing" =>
       /\ Handle(p) \in created[List]
       /\ \A d \in Calls : call[d].kind = "deleteAll" /\ call[d].stage = "answer" => home[d] # List

TrackInv == /\ Placed
            /\ ReadingMade
            /\ TeardownOver
            /\ \A p \in Ports : Owed(p) => SeenTo(p)

LEMMA TrackInit == Init => TrackInv
BY FacadeAssumption DEF Init, FacadeInit, TrackInv, Placed, ReadingMade, TeardownOver, Owed

\* A step of the facade that fulfils nobody, and touches no call that is.
FulfilsNobody ==
  /\ \A d \in Calls : call'[d].stage = "reading" => call'[d].kind \in {"create", "replaceAll"}
  /\ \A d \in Calls : call'[d].stage = "resolved" => call[d].stage = "resolved"
  /\ \A d \in Calls : call[d].stage = "resolved" => call'[d] = call[d]
  /\ \A d \in Calls : call'[d].kind = "deleteAll" /\ call'[d].stage = "answer" =>
       \/ call[d].kind = "deleteAll" /\ call[d].stage = "answer"
       \/ \A p \in Ports : live'[p] = None
  /\ \A p \in Ports : \/ live'[p] = live[p]
                      \/ live'[p] = None
                      \/ live'[p] \in Calls /\ call'[live'[p]].stage # "resolved"

LEMMA NobodyResolves ==
  ASSUME TypeOK, FacadeInv, TrackInv, Tracked, FulfilsNobody
  PROVE  TrackInv'
<1>0. Resolving = {}
  BY DEF Resolving, FulfilsNobody
<1>1. created' = created /\ overtaken' = overtaken
  BY <1>0 DEF Tracked, TrackCreates, Made, Emptied, TypeOK
<1>2. UNCHANGED <<perTest, test, phase, home, teardown, undeleted>>
  BY DEF Tracked
<1>3. Placed' /\ TeardownOver' /\ ReadingMade'
  BY <1>1, <1>2 DEF TrackInv, Placed, TeardownOver, ReadingMade, TypeOK, AllHandles, FulfilsNobody
<1>4. ASSUME NEW p \in Ports, Owed(p)' PROVE SeenTo(p)'
  <2>1. live'[p] = live[p]
    BY <1>4, FacadeAssumption DEF Owed, FulfilsNobody
  <2>2. call[live[p]].stage = "resolved"
    BY <1>4, <2>1 DEF Owed, FulfilsNobody
  <2>3. SeenTo(p) /\ Handle(p)' = Handle(p) /\ List' = List
    BY <1>1, <1>2, <1>4, <2>1, <2>2 DEF Owed, Handle, TrackInv, List, FulfilsNobody
  <2> QED
    BY <1>1, <1>2, <1>4, <2>1, <2>3, FacadeAssumption DEF SeenTo, Owed, FulfilsNobody
<1> QED
  BY <1>3, <1>4 DEF TrackInv

\* The step that fulfils c.
LEMMA OneResolves ==
  ASSUME TypeOK, FacadeInv, TrackInv, Tracked, NEW c \in Calls,
         call[c].stage \in {"answer", "reading"}, call'[c].stage = "resolved",
         call'[c].kind = call[c].kind, call'[c].made = call[c].made, UNCHANGED live,
         \A d \in Calls \ {c} : call'[d] = call[d]
  PROVE  TrackInv'
<1>1. Resolving = {c}
  BY DEF Resolving
<1>2. UNCHANGED <<perTest, test, phase, home, teardown, undeleted>> /\ List' = List
  BY DEF Tracked, List
<1>3. ReadingMade' /\ TeardownOver'
  BY <1>2 DEF TrackInv, ReadingMade, TeardownOver
<1>4. c \in overtaken' <=> c \in overtaken \/ BeingEmptied(home[c]) \/ phase = "disposing" \/ home[c] # List
  BY <1>1 DEF Tracked
<1>5. \A d \in Calls \ {c} : d \in overtaken' <=> d \in overtaken
  BY <1>1 DEF Tracked
\* Those that were fulfilled before are as they were.
<1>6. ASSUME NEW p \in Ports, Owed(p)', live[p] # c
      PROVE  Owed(p) /\ SeenTo(p) /\ Handle(p)' = Handle(p)
  BY <1>2, <1>5, <1>6 DEF Owed, Handle, TrackInv
<1>7. CASE call[c].kind \in {"create", "replaceAll"}
  <2>1. \A l \in Lists : created'[l] = created[l] \cup (IF home[c] = l THEN Handles(c) ELSE {})
    BY <1>1, <1>7 DEF Tracked, TrackCreates, Emptied, Made, TypeOK
  <2>2. \A h \in Handles(c) : h.by = c
    BY DEF Handles
  <2>3. Placed'
    BY <1>2, <2>1, <2>2 DEF Placed, TrackInv, TypeOK, AllHandles
  <2>4. ASSUME NEW p \in Ports, Owed(p)', live[p] # c PROVE SeenTo(p)'
    <3>1. List \in Lists
      BY MaxTestsAssumption DEF List, TypeOK, Lists
    <3> QED
      BY <1>2, <1>6, <1>7, <2>1, <2>4, <3>1 DEF SeenTo
  <2>5. ASSUME NEW p \in Ports, Owed(p)', live[p] = c PROVE SeenTo(p)'
    <3>1. ~BeingEmptied(home[c]) /\ phase # "disposing" /\ home[c] = List
      BY <1>4, <2>5 DEF Owed
    <3>2. Handle(p) \in Handles(c)
      BY <2>5 DEF FacadeInv, CallOK, Handle, Handles
    <3>3. Handle(p)' = Handle(p) /\ home[c] \in Lists
      BY DEF Handle, TypeOK
    <3>4. Handle(p)' \in created'[List]
      BY <2>1, <3>1, <3>2, <3>3
    <3>5. ASSUME NEW d \in Calls, call'[d].kind = "deleteAll", call'[d].stage = "answer" PROVE home[d] # List
      BY <1>7, <3>1, <3>5 DEF BeingEmptied
    <3> QED
      BY <1>2, <3>1, <3>4, <3>5 DEF SeenTo
  <2> QED
    BY <1>3, <2>3, <2>4, <2>5 DEF TrackInv
<1>8. CASE call[c].kind = "deleteAll"
  <2>1. \A l \in Lists : created'[l] = IF home[c] = l THEN {} ELSE created[l]
    BY <1>1, <1>8 DEF Tracked, TrackCreates, Emptied, Made, TypeOK
  <2>2. Placed'
    BY <1>2, <2>1 DEF Placed, TrackInv, TypeOK, AllHandles
  <2>3. ASSUME NEW p \in Ports, Owed(p)' PROVE SeenTo(p)'
    <3>1. live[p] # c
      BY <1>8, <2>3 DEF Owed, FacadeInv, CallOK
    <3>2. call[c].stage = "answer"
      BY <1>8 DEF TrackInv, ReadingMade
    <3>3. List \in Lists
      BY MaxTestsAssumption DEF List, TypeOK, Lists
    <3> QED
      BY <1>2, <1>6, <1>8, <2>1, <2>3, <3>1, <3>2, <3>3 DEF SeenTo
  <2> QED
    BY <1>3, <2>2, <2>3 DEF TrackInv
<1>9. CASE call[c].kind = "delete"
  <2>1. created' = created
    BY <1>1, <1>9 DEF Tracked, TrackCreates, Emptied, Made, TypeOK
  <2>2. Placed'
    BY <1>2, <2>1 DEF Placed, TrackInv, TypeOK, AllHandles
  <2>3. ASSUME NEW p \in Ports, Owed(p)' PROVE SeenTo(p)'
    <3>1. live[p] # c
      BY <1>9, <2>3 DEF Owed, FacadeInv, CallOK
    <3> QED
      BY <1>2, <1>6, <1>9, <2>1, <2>3, <3>1 DEF SeenTo
  <2> QED
    BY <1>3, <2>2, <2>3 DEF TrackInv
<1> QED
  BY <1>7, <1>8, <1>9 DEF FacadeInv, FacadeTypeOK

LEMMA TrackStep == TypeOK /\ FacadeInv /\ TrackInv /\ [Next]_vars => TrackInv'
<1> SUFFICES ASSUME TypeOK, FacadeInv, TrackInv, [Next]_vars PROVE TrackInv'
  OBVIOUS
<1>0. FacadeTypeOK
  BY DEF FacadeInv
<1>1. CASE (VersionRead \/ VersionFails) /\ Tracked
  <2>1. /\ UNCHANGED live
        /\ \A d \in Calls : call[d].stage # "gate" => call'[d] = call[d]
        /\ \A d \in Calls : call[d].stage = "gate" => call'[d].stage \in {"request", "rejected"}
    BY <1>0, <1>1 DEF VersionRead, VersionFails, Gated, WhoWait, FacadeTypeOK
  <2>2. /\ \A d \in Calls : call'[d].stage = "reading" => call'[d].kind \in {"create", "replaceAll"}
        /\ \A d \in Calls : call'[d].stage = "resolved" => call[d].stage = "resolved"
    BY <2>1 DEF TrackInv, ReadingMade
  <2>3. \A d \in Calls : call[d].stage = "resolved" => call'[d] = call[d]
    BY <2>1
  <2>4. \A d \in Calls : call'[d].kind = "deleteAll" /\ call'[d].stage = "answer" =>
           call[d].kind = "deleteAll" /\ call[d].stage = "answer"
    BY <2>1
  <2>5. FulfilsNobody
    BY <2>1, <2>2, <2>3, <2>4 DEF FulfilsNobody
  <2> QED
    BY <1>1, <2>5, NobodyResolves
<1>2. ASSUME NEW c \in Calls, EngineCarriesOut(c), Tracked PROVE TrackInv'
  <2>1. PICK ports \in SUBSET Ports :
          /\ call' = [call EXCEPT ![c].stage = "answer", ![c].made = ports, ![c].todo = {}]
          /\ \A p \in Ports : live'[p] \in {live[p], None} \/ live'[p] = c
          /\ call[c].kind = "deleteAll" => \A p \in Ports : live'[p] = None
    BY <1>0, <1>2, CarriedOut
  <2>2. /\ call[c].stage = "request" /\ call'[c].stage = "answer" /\ call'[c].kind = call[c].kind
        /\ \A d \in Calls \ {c} : call'[d] = call[d]
    BY <1>0, <1>2, <2>1 DEF FacadeTypeOK, EngineCarriesOut
  <2>3. /\ \A d \in Calls : call'[d].stage = "reading" => call'[d].kind \in {"create", "replaceAll"}
        /\ \A d \in Calls : call'[d].stage = "resolved" => call[d].stage = "resolved"
    BY <2>2 DEF TrackInv, ReadingMade
  <2>4. \A p \in Ports : \/ live'[p] = live[p]
                         \/ live'[p] = None
                         \/ live'[p] \in Calls /\ call'[live'[p]].stage # "resolved"
    BY <2>1, <2>2
  <2>5. \A d \in Calls : call[d].stage = "resolved" => call'[d] = call[d]
    BY <2>2
  <2>6. \A d \in Calls : call'[d].kind = "deleteAll" /\ call'[d].stage = "answer" =>
           \/ call[d].kind = "deleteAll" /\ call[d].stage = "answer"
           \/ \A p \in Ports : live'[p] = None
    BY <2>1, <2>2
  <2>7. FulfilsNobody
    BY <2>3, <2>4, <2>5, <2>6 DEF FulfilsNobody
  <2> QED
    BY <1>2, <2>7, NobodyResolves
<1> DEFINE Rejects(c) == EngineRefuses(c) \/ PartReported(c) \/ AnswerUnusable(c) \/ RolledBack(c)
<1>3. ASSUME NEW c \in Calls, Rejects(c) \/ RollbackDeletes(c), Tracked
      PROVE TrackInv'
  <2>0. \A p \in Ports : live'[p] \in {live[p], None}
    BY <1>0, <1>3 DEF Rejects, EngineRefuses, PartReported, AnswerUnusable, RejectUnseen, RolledBack, RollbackDeletes, FacadeTypeOK
  <2>1. /\ call[c].stage \in {"request", "answer", "partial", "rollback"} /\ call'[c].stage \in {"rejected", "rollback"}
        /\ \A d \in Calls \ {c} : call'[d] = call[d]
    <3>1. CASE RollbackDeletes(c)
      BY <1>0, <3>1 DEF RollbackDeletes, FacadeTypeOK
    <3>2. CASE Rejects(c)
      BY <1>0, <3>2 DEF Rejects, EngineRefuses, PartReported, AnswerUnusable, RejectUnseen, RolledBack, FacadeTypeOK
    <3> QED
      BY <1>3, <3>1, <3>2
  <2>2. /\ \A d \in Calls : call'[d].stage = "reading" => call'[d].kind \in {"create", "replaceAll"}
        /\ \A d \in Calls : call'[d].stage = "resolved" => call[d].stage = "resolved"
    BY <2>1 DEF TrackInv, ReadingMade
  <2>3. FulfilsNobody
    BY <2>0, <2>1, <2>2 DEF FulfilsNobody
  <2> QED
    BY <1>3, <2>3, NobodyResolves
<1>10. ASSUME NEW c \in Calls, EngineAppliesPart(c), Tracked PROVE TrackInv'
  <2>1. PICK ports \in SUBSET Ports :
          /\ live' = [p \in Ports |-> IF p \in ports THEN c ELSE None]
          /\ call' = [call EXCEPT ![c].stage = "partial", ![c].made = ports]
    BY <1>10 DEF EngineAppliesPart
  <2>2. /\ call[c].stage = "request" /\ call'[c].stage = "partial"
        /\ \A d \in Calls \ {c} : call'[d] = call[d]
    BY <1>0, <1>10, <2>1 DEF FacadeTypeOK, EngineAppliesPart
  <2>3. /\ \A d \in Calls : call'[d].stage = "reading" => call'[d].kind \in {"create", "replaceAll"}
        /\ \A d \in Calls : call'[d].stage = "resolved" => call[d].stage = "resolved"
    BY <2>2 DEF TrackInv, ReadingMade
  <2>4. \A p \in Ports : \/ live'[p] = None
                         \/ live'[p] \in Calls /\ call'[live'[p]].stage # "resolved"
    BY <2>1, <2>2
  <2>5. FulfilsNobody
    BY <2>2, <2>3, <2>4 DEF FulfilsNobody
  <2> QED
    BY <1>10, <2>5, NobodyResolves
<1>4. ASSUME NEW c \in Calls, Answered(c) \/ WarningsRead(c), Tracked PROVE TrackInv'
  <2>1. /\ call[c].stage \in {"answer", "reading"} /\ UNCHANGED live
        /\ call'[c].stage \in {"resolved", "reading", "rollback"}
        /\ call'[c].stage = "reading" => call[c].kind \in {"create", "replaceAll"}
        /\ \A d \in Calls \ {c} : call'[d] = call[d]
        /\ call'[c].kind = call[c].kind /\ call'[c].made = call[c].made
    BY <1>0, <1>4 DEF Answered, WarningsRead, Judge, FacadeTypeOK
  <2>2. CASE call'[c].stage = "resolved"
    BY <1>4, <2>1, <2>2, OneResolves
  <2>3. CASE call'[c].stage # "resolved"
    <3>1. /\ \A d \in Calls : call'[d].stage = "reading" => call'[d].kind \in {"create", "replaceAll"}
        /\ \A d \in Calls : call'[d].stage = "resolved" => call[d].stage = "resolved"
      BY <2>1, <2>3 DEF TrackInv, ReadingMade
    <3>2. FulfilsNobody
      BY <2>1, <2>3, <3>1 DEF FulfilsNobody
    <3> QED
      BY <1>4, <3>2, NobodyResolves
  <2> QED
    BY <2>2, <2>3
<1>5. ASSUME NEW c \in Calls, TestCalls(c) PROVE TrackInv'
  <2>1. /\ call[c].stage = "idle" /\ call'[c].stage \in {"gate", "request", "rejected"}
        /\ \A d \in Calls \ {c} : call'[d] = call[d]
        /\ UNCHANGED live
    <3>1. ASSUME NEW kind \in {"create", "replaceAll"}, NEW gated \in BOOLEAN, Make(c, kind, gated)
          PROVE  /\ call[c].stage = "idle" /\ call'[c].stage \in {"gate", "request", "rejected"}
                 /\ \A d \in Calls \ {c} : call'[d] = call[d]
                 /\ UNCHANGED live
      BY <1>0, <3>1 DEF Make, Gated, FacadeTypeOK
    <3>2. CASE DeleteAll(c) \/ DeleteHandle(c)
      BY <1>0, <3>2 DEF DeleteAll, DeleteHandle, FacadeTypeOK
    <3> QED
      BY <1>5, <3>1, <3>2 DEF TestCalls, Begin
  <2>2. /\ UNCHANGED <<perTest, test, phase, created, teardown, undeleted, overtaken>> /\ List' = List
        /\ \A d \in Calls \ {c} : home'[d] = home[d]
    BY <1>5 DEF TestCalls, List, TypeOK
  <2>3. Placed'
    BY <2>1, <2>2 DEF Placed, TrackInv, TypeOK, AllHandles
  <2>4. ReadingMade' /\ TeardownOver'
    BY <2>1, <2>2 DEF ReadingMade, TeardownOver, TrackInv
  <2>5. ASSUME NEW p \in Ports, Owed(p)' PROVE SeenTo(p)'
    <3>1. Owed(p) /\ Handle(p)' = Handle(p) /\ SeenTo(p)
      BY <2>1, <2>2, <2>5 DEF Owed, Handle, TrackInv
    <3> QED
      BY <2>1, <2>2, <3>1 DEF SeenTo
  <2> QED
    BY <2>3, <2>4, <2>5 DEF TrackInv
<1>6. CASE TestEnds
  <2>1. UNCHANGED <<call, live, home, created, undeleted, overtaken>>
    BY <1>6 DEF TestEnds, facadeVars
  <2>2. Placed' /\ ReadingMade' /\ TeardownOver'
    BY <1>6, <2>1 DEF TestEnds, TrackInv, Placed, ReadingMade, TeardownOver
  <2>3. ASSUME NEW p \in Ports, Owed(p)' PROVE SeenTo(p)'
    <3>1. SeenTo(p) /\ Handle(p)' = Handle(p)
      BY <2>1, <2>3 DEF TrackInv, Owed, Handle
    <3> QED
      BY <1>6, <3>1 DEF TestEnds, SeenTo
  <2> QED
    BY <2>2, <2>3 DEF TrackInv
<1>7. ASSUME NEW h \in AllHandles, Disposes(h) PROVE TrackInv'
  <2>1. h \in teardown /\ teardown' = teardown \ {h} /\ UNCHANGED <<call, home, created, phase, overtaken, test, perTest>>
    BY <1>7 DEF Disposes
  <2>2. phase = "disposing"
    BY <2>1 DEF TrackInv, TeardownOver
  <2>3. Placed' /\ ReadingMade' /\ TeardownOver'
    BY <2>1, <2>2 DEF TrackInv, Placed, ReadingMade, TeardownOver
  <2>4. ASSUME NEW p \in Ports, Owed(p)' PROVE SeenTo(p)'
    <3>1. \/ live' = [live EXCEPT ![h.port] = None] /\ undeleted' = undeleted
          \/ live' = live /\ undeleted' = undeleted \cup {h}
      BY <1>7 DEF Disposes
    <3>2. live'[p] = live[p] /\ Handle(p)' = Handle(p)
      BY <1>0, <2>4, <3>1, FacadeAssumption DEF Owed, FacadeTypeOK, Handle
    <3>3. Handle(p) # h
      BY <1>0, <2>4, <3>1, <3>2, FacadeAssumption DEF Owed, Handle, FacadeTypeOK
    <3>4. SeenTo(p)
      BY <2>1, <2>4, <3>1, <3>2 DEF Owed, TrackInv
    <3> QED
      BY <2>1, <2>2, <3>2, <3>3, <3>4 DEF SeenTo
  <2> QED
    BY <2>3, <2>4 DEF TrackInv
<1>8. CASE Disposed
  <2>1. UNCHANGED <<call, live, home, teardown, undeleted, overtaken>>
    BY <1>8 DEF Disposed, facadeVars
  <2>2. \A l \in Lists : created'[l] \subseteq created[l]
    BY <1>8 DEF Disposed, TypeOK
  <2>3. Placed' /\ ReadingMade' /\ TeardownOver'
    BY <1>8, <2>1, <2>2 DEF Disposed, TrackInv, Placed, ReadingMade, TeardownOver
  <2>4. ASSUME NEW p \in Ports PROVE ~Owed(p)'
    <3>1. ~Owed(p)
      BY <1>8 DEF Disposed, TrackInv, SeenTo
    <3> QED
      BY <2>1, <3>1 DEF Owed, Handle
  <2> QED
    BY <2>3, <2>4 DEF TrackInv
<1>9. CASE UNCHANGED vars
  BY <1>9 DEF vars, facadeVars, TrackInv, Placed, ReadingMade, TeardownOver, Owed, SeenTo, Handle, List
<1> QED
  BY <1>1, <1>2, <1>3, <1>4, <1>5, <1>6, <1>7, <1>8, <1>9, <1>10 DEF Next, Continue

\* Between tests and within them, an imposter that a test's fulfilled call has
\* made is tracked, being deleted, or reported, unless a deleteAll() or a
\* teardown overtook the call.
THEOREM NobodyForgotten == Spec => []NoneForgotten
<1>1. TypeOK /\ FacadeInv /\ TrackInv => NoneForgotten
  <2> SUFFICES ASSUME TypeOK, FacadeInv, TrackInv, NEW p \in Ports,
                      live[p] # None, call[live[p]].stage = "resolved", live[p] \notin overtaken,
                      Handle(p) \notin undeleted
               PROVE  Handle(p) \in IF phase = "disposing" THEN teardown ELSE created[List]
    BY DEF NoneForgotten, Handle
  <2>1. Owed(p)
    BY DEF Owed, FacadeInv, FacadeTypeOK
  <2> QED
    BY <2>1 DEF TrackInv, SeenTo
<1> QED
  BY <1>1, Typed, TrackInit, TrackStep, PTL DEF Spec
=============================================================================
