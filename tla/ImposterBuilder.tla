--------------------------- MODULE ImposterBuilder ---------------------------
(***************************************************************************)
(* ImposterBuilder and ScenarioBuilder (rift-core/src/dsl/imposter.ts,     *)
(* scenario.ts): chained calls build an imposter, and a scenario of which  *)
(* the stubs are appended to it.  A call may throw, and the caller go on.  *)
(*                                                                         *)
(* A stub is what tells it from the others: its predicates, its responses, *)
(* and for a scenario's the states it is for and leads to.                 *)
(***************************************************************************)
EXTENDS Naturals, Sequences

CONSTANTS
  MaxImposterCalls,   \* bound: calls chained on an imposter and its scenario
  Requests,           \* the predicates of a stub
  Answers,            \* the responses of a stub, in sequence
  States              \* the states of the scenario

VARIABLES
  i,        \* the imposter builder's fields
  steps,    \* the scenario's committed steps
  open,     \* the step when() has opened: none or one
  initial,  \* startingAt(): none or one state
  chained,  \* the calls chained so far
  \* --- history
  said,     \* the steps the caller has described
  given,    \* the stubs the caller has given to the imposter, in order
  demand    \* the client certificate the caller has asked for last

imposterVars == <<i, steps, open, initial, chained, said, given, demand>>

Plain == {"name", "recordRequests", "cert"}         \* fields that are set and emitted
Rift  == {"backend", "flowIdSource", "metrics"}     \* keys under _rift, merged

\* Anchors: those of requireClientCertificate(caPems), "none" without any.
Anchors   == {"none", "one", "several"}
Protocols == {"http", "https", "tcp"}

NewImposter ==
  [fields |-> {}, rift |-> {}, protocol |-> "unset", mutualAuth |-> "unset",
   rejectUnauthorized |-> FALSE, ca |-> "none", stubs |-> <<>>, default |-> "unset"]

ImposterInit ==
  /\ i = NewImposter
  /\ steps = <<>> /\ open = <<>> /\ initial = {}
  /\ chained = 0
  /\ said = <<>> /\ given = <<>>
  /\ demand = [certificate |-> FALSE, anchors |-> "none"]

Count == chained < MaxImposterCalls /\ chained' = chained + 1

scenarioVars == <<steps, open, initial, said>>

-----------------------------------------------------------------------------
(* The scenario.                                                           *)

Step(state, request, answers) ==
  [state |-> state, request |-> request, answers |-> answers, next |-> "unset"]

Last1(seq, step) == [seq EXCEPT ![Len(seq)] = step]

\* The stub given to when() contributes its predicates and its responses.
When(state, request, answers) ==
  /\ Count
  /\ steps' = steps \o open
  /\ open' = <<Step(state, request, answers)>>
  /\ said' = Append(said, Step(state, request, answers))
  /\ UNCHANGED <<i, initial, given, demand>>

\* respond() and goTo() throw when no step is open; respond() replaces.
Edit(step) ==
  /\ Count
  /\ IF open = <<>> THEN UNCHANGED <<open, said>>
     ELSE /\ open' = <<step>>
          /\ said' = Last1(said, step)
  /\ UNCHANGED <<i, steps, initial, given, demand>>

Respond(answers) == Edit(IF open = <<>> THEN {} ELSE [open[1] EXCEPT !.answers = answers])

GoTo(next) == Edit(IF open = <<>> THEN {} ELSE [open[1] EXCEPT !.next = next])

StartingAt(state) ==
  /\ Count
  /\ initial' = {state}
  /\ UNCHANGED <<i, steps, open, said, given, demand>>

\* Bug: the step that was open stays open when it has been committed.
BugScenario ==
  /\ Count
  /\ steps' = steps \o open
  /\ UNCHANGED <<open, initial, said, demand>>
  /\ IF steps' # <<>> /\ steps'[1].state \notin initial /\ initial # {}
     THEN UNCHANGED <<i, given>>
     ELSE /\ i' = [i EXCEPT !.stubs = @ \o steps']
          /\ given' = given \o said

\* imposter.scenario(s): s is built, which commits the step that is open whether
\* or not build() then throws, and its stubs are appended.
Scenario ==
  /\ Count
  /\ steps' = steps \o open
  /\ open' = <<>>
  /\ IF steps' # <<>> /\ steps'[1].state \notin initial /\ initial # {}
     THEN UNCHANGED <<i, given>>
     ELSE /\ i' = [i EXCEPT !.stubs = @ \o steps']
          /\ given' = given \o said
  /\ UNCHANGED <<initial, said, demand>>

-----------------------------------------------------------------------------
(* The imposter.                                                           *)

AddStub(request, answers) ==
  LET stub == Step("unset", request, answers) IN
  /\ Count
  /\ i' = [i EXCEPT !.stubs = Append(@, stub)]
  /\ given' = Append(given, stub)
  /\ UNCHANGED <<scenarioVars, demand>>

SetField(field) ==
  /\ Count
  /\ i' = [i EXCEPT !.fields = @ \cup {field}]
  /\ UNCHANGED <<scenarioVars, given, demand>>

\* flowState(), flowIdFromHeader(), metrics(), scriptEngine(), registerScript().
SetRift(key) ==
  /\ Count
  /\ i' = [i EXCEPT !.rift = @ \cup {key}]
  /\ UNCHANGED <<scenarioVars, given, demand>>

\* defaultResponse(): a response that builds no is block is refused.
DefaultResponse(answer, hasIs) ==
  /\ Count
  /\ i' = IF hasIs THEN [i EXCEPT !.default = answer] ELSE i
  /\ UNCHANGED <<scenarioVars, given, demand>>

Protocol(protocol) ==
  /\ Count
  /\ i' = [i EXCEPT !.protocol = protocol]
  /\ UNCHANGED <<scenarioVars, given, demand>>

\* https(): mutualAuth is left as it is when it is not given.
Https(mutualAuth) ==
  /\ Count
  /\ i' = [i EXCEPT !.protocol = "https",
                    !.mutualAuth = IF mutualAuth = "unset" THEN @ ELSE mutualAuth]
  /\ demand' = [demand EXCEPT !.certificate = IF mutualAuth = "unset" THEN @ ELSE mutualAuth = "true"]
  /\ UNCHANGED <<scenarioVars, given>>

\* Bug: without anchors, those of an earlier call stay.
BugRequireClientCertificate(anchors) ==
  /\ Count
  /\ i' = [i EXCEPT !.protocol = "https", !.mutualAuth = "true",
                    !.rejectUnauthorized = (@ \/ anchors # "none"),
                    !.ca = IF anchors = "none" THEN @ ELSE anchors]
  /\ demand' = [certificate |-> TRUE, anchors |-> anchors]
  /\ UNCHANGED <<scenarioVars, given>>

\* A later call replaces; one with an empty list, or with something that is no
\* certificate, throws and changes nothing.
RequireClientCertificate(anchors) ==
  /\ Count
  /\ i' = [i EXCEPT !.protocol = "https", !.mutualAuth = "true",
                    !.rejectUnauthorized = (anchors # "none"), !.ca = anchors]
  /\ demand' = [certificate |-> TRUE, anchors |-> anchors]
  /\ UNCHANGED <<scenarioVars, given>>

RequireRefused == Count /\ UNCHANGED <<i, scenarioVars, given, demand>>

\* build() throws at anchors without the requirement, and at client
\* authentication on a protocol that has none.
ImposterRefused(x) ==
  \/ x.rejectUnauthorized /\ x.mutualAuth # "true"
  \/ (x.mutualAuth = "true" \/ x.rejectUnauthorized \/ x.ca # "none") /\ x.protocol # "https"

\* What build() emits besides what it is given as it is.
ClientAuth(x) ==
  [protocol |-> x.protocol, mutualAuth |-> x.mutualAuth,
   rejectUnauthorized |-> x.rejectUnauthorized, ca |-> x.ca]

ImposterNext ==
  \/ \E state \in States, request \in Requests, answers \in Answers \cup {<<>>} :
       When(state, request, answers)
  \/ \E answers \in Answers : Respond(answers)
  \/ \E state \in States : GoTo(state) \/ StartingAt(state)
  \/ Scenario
  \/ \E request \in Requests, answers \in Answers : AddStub(request, answers)
  \/ \E field \in Plain : SetField(field)
  \/ \E key \in Rift : SetRift(key)
  \/ \E answers \in Answers, hasIs \in BOOLEAN : DefaultResponse(Head(answers), hasIs)
  \/ \E protocol \in Protocols : Protocol(protocol)
  \/ \E mutualAuth \in {"unset", "true", "false"} : Https(mutualAuth)
  \/ \E anchors \in Anchors : RequireClientCertificate(anchors)
  \/ RequireRefused

ImposterSpec == ImposterInit /\ [][ImposterNext]_imposterVars

-----------------------------------------------------------------------------
(* Properties.                                                             *)

\* The stubs of an imposter are those it was given, in the order of the calls:
\* a scenario contributes each step described so far once, in order, with the
\* responses and the next state said last, the step still open included
\* (dsl/scenario.ts:40-96, dsl/imposter.ts:218-230).
StubsAsGiven == i.stubs = given

\* An imposter that is built demands the client certificate the caller asked
\* for last, or none when none was asked for or the demand was taken back, and
\* has no combination the engine refuses; whichever call came in between, build()
\* throws rather than emit another one (dsl/imposter.ts:107-127, 275-289).
DemandsAsAsked ==
  LET auth == ClientAuth(i) IN
  ~ImposterRefused(i) =>
    /\ (auth.mutualAuth = "true") = demand.certificate
    /\ demand.certificate => auth.ca = demand.anchors /\ auth.protocol = "https"
    /\ auth.rejectUnauthorized = (auth.ca # "none")
    /\ ~demand.certificate => auth.ca = "none"
=============================================================================
