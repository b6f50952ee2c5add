---------------------------- MODULE EngineFacade ----------------------------
(***************************************************************************)
(* The engine facade (rift-core/src/engine.ts): creating, replacing and    *)
(* deleting imposters through the Engine and its handles, with the version *)
(* gate on imposter keys and the stub-warnings policy.                     *)
(*                                                                         *)
(* Every call is made once; an imposter is named by the call that made it, *)
(* so that a later imposter on the same port is told from it.  A step is a *)
(* turn of the host's event loop, or the engine carrying out one request.  *)
(* Requests overlap and are answered in any order, as over HTTP; the       *)
(* embedded transport, which keeps their order, does less.                 *)
(***************************************************************************)
EXTENDS FiniteSets

CONSTANTS
  Calls,    \* the calls of create, replaceAll, deleteAll and handle.delete
  Ports,
  None,     \* no imposter
  Setups    \* the engines looked at: how they were opened, and the version they recorded

Versions == {"new", "old", "unreadable"}   \* against the version a gated key needs

AllSetups == [embedded : BOOLEAN, stubWarnings : {"ignore", "warn", "fail"},
              versionCheck : {"fail", "warn", "off"}, version : Versions \cup {"none"}]

ASSUME FacadeAssumption == /\ None \notin Calls
                           /\ Setups \subseteq AllSetups

VARIABLES
  setup,    \* the options of this Engine
  version,  \* opts.engineVersion, or the memo #engineVersion
  call,     \* call[c]: what it is, how far it has come, its imposters' ports;
            \* unseen (history): rejected before it had an answer to act on
  live      \* live[p]: the call that made the engine's imposter on port p

facadeVars == <<setup, version, call, live>>

Settled == {"resolved", "rejected"}
Stages  == {"idle", "gate", "request", "answer", "partial", "reading", "rollback"} \cup Settled

FacadeTypeOK ==
  /\ setup \in Setups
  /\ version \in Versions \cup {"none", "pending"}
  /\ call \in [Calls -> [kind : {"create", "replaceAll", "deleteAll", "delete"},
                         stage : Stages, gated : BOOLEAN, made : SUBSET Ports,
                         todo : SUBSET Ports, failed : SUBSET Ports, unseen : BOOLEAN]]
  /\ live \in [Ports -> Calls \cup {None}]

FacadeInit ==
  /\ setup \in Setups
  /\ version = setup.version
  /\ call = [c \in Calls |-> [kind |-> "create", stage |-> "idle", gated |-> FALSE,
                              made |-> {}, todo |-> {}, failed |-> {}, unseen |-> FALSE]]
  /\ live = [p \in Ports |-> None]

\* The imposters that call c has made.
Handles(c) == {[port |-> p, by |-> c] : p \in call[c].made}

-----------------------------------------------------------------------------
(* The gate on imposter keys that an older engine would silently ignore.   *)

Refused(v) == v = "old" \/ (v = "unreadable" /\ setup.versionCheck # "warn")

\* Bug: a version that cannot be read is a pass.
BugGatedFailsOpen(v) == IF v \notin Versions THEN "gate" ELSE IF v = "old" THEN "rejected" ELSE "request"

\* How far a call comes whose imposters carry a gated key.
Gated(v) == IF v \notin Versions THEN "gate" ELSE IF Refused(v) THEN "rejected" ELSE "request"

\* create() or replaceAll().
Make(c, kind, gated) ==
  LET gate == gated /\ setup.versionCheck # "off"
  IN  /\ call[c].stage = "idle"
      /\ call' = [call EXCEPT ![c].kind = kind, ![c].gated = gated,
                              ![c].stage = IF gate THEN Gated(version) ELSE "request"]
      /\ version' = IF gate /\ version = "none" THEN "pending" ELSE version
      /\ UNCHANGED <<setup, live>>

WhoWait == {c \in Calls : call[c].stage = "gate"}

\* Everybody who waits for /config goes on, and later calls find the version.
VersionRead ==
  /\ version = "pending"
  /\ version' \in Versions
  /\ call' = [c \in Calls |-> IF c \in WhoWait
                              THEN [call[c] EXCEPT !.stage = Gated(version')] ELSE call[c]]
  /\ UNCHANGED <<setup, live>>

\* Bug: the failed lookup is kept.
BugVersionFailureKept ==
  /\ version = "pending"
  /\ call' = [c \in Calls |-> IF c \in WhoWait
                              THEN [call[c] EXCEPT !.stage = "rejected"] ELSE call[c]]
  /\ UNCHANGED <<setup, version, live>>

\* A lookup that fails takes everybody who waits with it, and nobody later.
VersionFails ==
  /\ version = "pending"
  /\ version' = "none"
  /\ call' = [c \in Calls |-> IF c \in WhoWait
                              THEN [call[c] EXCEPT !.stage = "rejected"] ELSE call[c]]
  /\ UNCHANGED <<setup, live>>

-----------------------------------------------------------------------------
(* The other calls.                                                        *)

DeleteAll(c) ==
  /\ call[c].stage = "idle"
  /\ call' = [call EXCEPT ![c].kind = "deleteAll", ![c].stage = "request"]
  /\ UNCHANGED <<setup, version, live>>

\* delete() of a handle that create() or replaceAll() has returned.
DeleteHandle(c) ==
  /\ call[c].stage = "idle"
  /\ \E d \in Calls : /\ call[d].stage = "resolved"
                      /\ \E p \in call[d].made :
                           call' = [call EXCEPT ![c].kind = "delete", ![c].stage = "request",
                                                ![c].todo = {p}]
  /\ UNCHANGED <<setup, version, live>>

-----------------------------------------------------------------------------
(* The engine.                                                             *)

\* The engine does what call c asks for; its answer is under way.
Carried(c, ports, now) ==
  /\ live' = now
  /\ call' = [call EXCEPT ![c].stage = "answer", ![c].made = ports, ![c].todo = {}]

EngineCarriesOut(c) ==
  /\ call[c].stage = "request"
  /\ \/ /\ call[c].kind = "create"
        /\ \E p \in Ports : /\ live[p] = None
                            /\ Carried(c, {p}, [live EXCEPT ![p] = c])
     \/ /\ call[c].kind = "replaceAll"
        /\ \E ports \in SUBSET Ports :
             Carried(c, ports, [p \in Ports |-> IF p \in ports THEN c ELSE None])
     \/ /\ call[c].kind = "deleteAll"
        /\ Carried(c, {}, [p \in Ports |-> None])
     \/ /\ call[c].kind = "delete"
        /\ Carried(c, {}, [p \in Ports |-> IF p \in call[c].todo THEN None ELSE live[p]])
  /\ UNCHANGED <<setup, version>>

\* The engine refuses, or the request does not get there.
EngineRefuses(c) ==
  /\ call[c].stage = "request"
  /\ call' = [call EXCEPT ![c].stage = "rejected", ![c].todo = {}]
  /\ UNCHANGED <<setup, version, live>>

\* applyConfig of the embedded engine can fail for some imposters only: the
\* others are live when it reports the failed ones.
EngineAppliesPart(c) ==
  /\ call[c].stage = "request"
  /\ call[c].kind = "replaceAll"
  /\ setup.embedded
  /\ \E ports \in SUBSET Ports :
       /\ live' = [p \in Ports |-> IF p \in ports THEN c ELSE None]
       /\ call' = [call EXCEPT ![c].stage = "partial", ![c].made = ports]
  /\ UNCHANGED <<setup, version>>

RejectUnseen(c) ==
  /\ call' = [call EXCEPT ![c].stage = "rejected", ![c].unseen = TRUE]
  /\ UNCHANGED <<setup, version, live>>

\* The admin reconciles its registry and throws; the error names what failed.
PartReported(c) == call[c].stage = "partial" /\ RejectUnseen(c)

\* It was done, and the answer is lost, comes too late, cannot be read, or has
\* an imposter without its port: what was made stays.
AnswerUnusable(c) == call[c].stage = "answer" /\ RejectUnseen(c)

-----------------------------------------------------------------------------
(* After the answer: the stub-warnings policy.                             *)

\* Bug: a list of warnings that cannot be read throws, and that is all.
BugJudge(c, bad) ==
  call' = [call EXCEPT ![c].stage = IF bad /\ setup.stubWarnings = "fail"
                                    THEN "rejected" ELSE "resolved"]

\* bad: an actionable warning, or warnings that could not be read.  'fail'
\* starts to delete whatever the call has created.
Judge(c, bad) ==
  IF bad /\ setup.stubWarnings = "fail"
  THEN call' = [call EXCEPT ![c].stage = "rollback", ![c].todo = call[c].made]
  ELSE call' = [call EXCEPT ![c].stage = "resolved"]

\* A create() over HTTP has the warnings in its answer; the others read them.
Answered(c) ==
  /\ call[c].stage = "answer"
  /\ IF call[c].kind \in {"delete", "deleteAll"} \/ setup.stubWarnings = "ignore"
     THEN call' = [call EXCEPT ![c].stage = "resolved"]
     ELSE IF call[c].kind = "create" /\ ~setup.embedded
     THEN \E bad \in BOOLEAN : Judge(c, bad)
     ELSE call' = [call EXCEPT ![c].stage = "reading"]
  /\ UNCHANGED <<setup, version, live>>

WarningsRead(c) ==
  /\ call[c].stage = "reading"
  /\ \E bad \in {b \in BOOLEAN : b => call[c].made # {}} : Judge(c, bad)
  /\ UNCHANGED <<setup, version, live>>

\* One delete of the rollback settles.  That there is no such imposter any
\* more is a failure like any other here.
RollbackDeletes(c) ==
  /\ call[c].stage = "rollback"
  /\ \E p \in call[c].todo :
       \/ /\ live[p] # None
          /\ live' = [live EXCEPT ![p] = None]
          /\ call' = [call EXCEPT ![c].todo = @ \ {p}]
       \/ /\ live' = live
          /\ call' = [call EXCEPT ![c].todo = @ \ {p}, ![c].failed = @ \cup {p}]
  /\ UNCHANGED <<setup, version>>

RolledBack(c) ==
  /\ call[c].stage = "rollback"
  /\ call[c].todo = {}
  /\ call' = [call EXCEPT ![c].stage = "rejected"]
  /\ UNCHANGED <<setup, version, live>>

-----------------------------------------------------------------------------

Begin(c) == \/ \E kind \in {"create", "replaceAll"}, gated \in BOOLEAN : Make(c, kind, gated)
            \/ DeleteAll(c)
            \/ DeleteHandle(c)

\* What call c waits for.
Continue(c) == \/ EngineCarriesOut(c) \/ EngineAppliesPart(c) \/ EngineRefuses(c)
               \/ Answered(c) \/ PartReported(c) \/ AnswerUnusable(c)
               \/ WarningsRead(c) \/ RollbackDeletes(c) \/ RolledBack(c)

FacadeNext == VersionRead \/ VersionFails \/ \E c \in Calls : Begin(c) \/ Continue(c)

-----------------------------------------------------------------------------
(* Properties                                                              *)

\* Fail closed: imposters with a key that an older engine would ignore go to
\* an engine that is new enough, or as versionCheck asked for.
FailClosed ==
  \A c \in Calls :
    call[c].gated /\ call[c].stage \notin {"idle", "gate", "rejected"} =>
      setup.versionCheck = "off" \/ (version \in Versions /\ ~Refused(version))

\* Calls wait at the gate exactly while a lookup is under way: nobody is left
\* waiting by one that is over, and one that failed is not kept for later calls.
GateFollowsLookup == WhoWait # {} <=> version = "pending"

\* A rejected call leaves no imposter of its own live, unless the error says that
\* it could not be deleted: refused by the gate or by the engine it has made none,
\* and under stubWarnings 'fail' it deletes what it has made. This is less than
\* the comment at engine.ts:879-882 promises of 'fail': a call that never had an
\* answer to act on (lost, unreadable or portless; a partial applyConfig of the
\* embedded engine, whose error names only what failed) leaves behind whatever
\* the engine has made.
NothingBehindARejection ==
  \A c \in Calls : call[c].stage = "rejected" /\ ~call[c].unseen =>
    \A p \in Ports \ call[c].failed : live[p] # c
=============================================================================
