---------------------------- MODULE Verification ----------------------------
(***************************************************************************)
(* verify() and recorded() (rift-core/src/engine.ts) and the part of the   *)
(* evaluator above the leaf predicates (verify/eval.ts, verify/index.ts):  *)
(* the imposter's journal is fetched, while requests go on arriving, and   *)
(* the predicates are evaluated in the SDK.                                *)
(*                                                                         *)
(* A predicate is a finite tree [kind, leaf, parts]: an and or an or of    *)
(* its parts, a not of its only part, or a leaf.                           *)
(***************************************************************************)
EXTENDS LeafEvaluation

CONSTANTS
  Leaves,       \* the leaf predicates in use
  Predicates,   \* the predicates in use, with all their parts
  Height,       \* Height[p]: how deep parts are nested in p, or more
  Matches,      \* the matches verify() is called with: sequences of predicates
  Requests,     \* the requests that arrive: flow, path, headers, body
  Times,        \* timestamps, 0 for one that was not recorded
  Matchers,     \* the count matchers in use
  MaxJournal    \* bound: requests in the journal

Segments ==
  [type : {"key"}, name : Strings] \cup [type : {"index"}, index : Nat] \cup [type : {"unsupported"}]

LeavesAssumption ==
  \A leaf \in Leaves :
    /\ leaf.clauses \in Seq([field : Fields \cup {"unknown"}, key : Strings, expected : Values])
    /\ leaf.params.jsonpath \in Seq(Segments)

PredicatesAssumption ==
  /\ Height \in [Predicates -> Nat]
  /\ \A p \in Predicates :
       /\ p.kind \in {"and", "or", "not", "leaf"}
       /\ p.parts \in Seq(Predicates)
       /\ \A k \in DOMAIN p.parts : Height[p.parts[k]] < Height[p]
       /\ p.kind = "not" => Len(p.parts) = 1
       /\ p.kind = "leaf" => p.leaf \in Leaves /\ p.parts = <<>>
  /\ Matches \subseteq Seq(Predicates)

RequestsAssumption ==
  /\ \A r \in Requests : /\ Str(r.path) \in Values
                         /\ r.headers \in Seq(Strings \X Values)
                         /\ r.body \in Actuals
  /\ Times \subseteq Nat
  /\ Matchers \subseteq [min : Nat, max : Nat]

ASSUME InUse == LeavesAssumption /\ PredicatesAssumption /\ RequestsAssumption

VARIABLES
  predicates,   \* the match: a sequence of predicates, implicitly and-ed
  count,        \* the count matcher
  flow,         \* the flow the verification is scoped to, or "all"
  journal,      \* the engine's journal
  stage,        \* of the call: "called", "done"
  fetched,      \* the journal as it was fetched
  outcome       \* what verify() did

vars == <<predicates, count, flow, journal, stage, fetched, outcome>>

-----------------------------------------------------------------------------
(* Predicates.                                                             *)

Negation(verdict) == CASE verdict = "true" -> "false" [] verdict = "false" -> "true" [] OTHER -> "threw"

\* evalPredicate, with the evaluation of the parts.
Combined(eval, p, request) ==
  LET parts == [k \in DOMAIN p.parts |-> eval[p.parts[k]]] IN
  CASE p.kind = "and" -> Every(parts)
    [] p.kind = "or" -> Some(parts)
    [] p.kind = "not" -> Negation(parts[1])
    [] OTHER -> LET details == EvalLeaf(p.leaf, request)
                IN  IF Mapped(details) THEN Every(details) ELSE "threw"

Evaluation(request) ==
  LET eval[p \in Predicates] == Combined(eval, p, request)
  IN  eval

EvalPredicate(p, request) == Evaluation(request)[p]

\* evalPredicates.
EvalPredicates(list, request) ==
  Every([k \in DOMAIN list |-> EvalPredicate(list[k], request)])

\* Bug: the leaves under a not are taken as they are.
BugNegated(p, request, inner) == inner

\* A negated group is one leaf, of the opposite verdict.
Negated(p, request, inner) == IF Mapped(inner) THEN <<EvalPredicate(p, request)>> ELSE <<"threw">>

\* collectLeafDetails of one predicate, as the verdicts of the leaves, with the
\* details of the parts.
Collected(details, p, request) ==
  CASE p.kind = "leaf" -> EvalLeaf(p.leaf, request)
    [] p.kind = "not" -> Negated(p, request, details[p.parts[1]])
    [] OTHER -> FlattenSeq([k \in DOMAIN p.parts |-> details[p.parts[k]]])

Details(request) ==
  LET details[p \in Predicates] == Collected(details, p, request)
  IN  details

CollectLeafDetails(list, request) ==
  FlattenSeq([k \in DOMAIN list |-> Details(request)[list[k]]])

-----------------------------------------------------------------------------
(* The closest request that does not match.                                *)

Passed(details) == Cardinality({k \in DOMAIN details : details[k] = "true"})

\* The fraction of passed leaves, as a pair.
Share(details) == IF details = <<>> THEN <<1, 1>> ELSE <<Passed(details), Len(details)>>
Fraction(list, request) == Share(CollectLeafDetails(list, request))
Exceeds(f, g) == f[1] * g[2] > g[1] * f[2]

\* Bug: of two timestamps the earlier is taken for the more recent.
BugIsMoreRecent(recorded, j, k) ==
  IF 0 \notin {recorded[j].time, recorded[k].time} /\ recorded[j].time # recorded[k].time
  THEN recorded[j].time < recorded[k].time
  ELSE j > k

IsMoreRecent(recorded, j, k) ==
  IF 0 \notin {recorded[j].time, recorded[k].time} /\ recorded[j].time # recorded[k].time
  THEN recorded[j].time > recorded[k].time
  ELSE j > k

Closer(f, g, moreRecent) == Exceeds(f, g) \/ (~Exceeds(g, f) /\ moreRecent)

Better(list, recorded, j, best) ==
  Closer(Fraction(list, recorded[j]), Fraction(list, recorded[best]), IsMoreRecent(recorded, j, best))

\* The better of the best so far, 0 for none, and the next request.
Chosen(list, recorded, best, j) ==
  IF best = 0 \/ Better(list, recorded, j, best) THEN j ELSE best

\* computeClosest: its index, 0 for none.
ComputeClosest(list, recorded) ==
  LET best[n \in 0..Len(recorded)] ==
        IF n = 0 THEN 0 ELSE Chosen(list, recorded, best[n - 1], n)
  IN  best[Len(recorded)]

-----------------------------------------------------------------------------
(* verify().                                                               *)

NoOutcome == [result |-> "none", matched |-> 0, closest |-> 0]

Scopes == {"all"} \cup {r.flow : r \in Requests}

Init ==
  /\ predicates = <<>>
  /\ count = [min |-> 0, max |-> 0]
  /\ flow = "all"
  /\ journal = <<>>
  /\ stage = "called"
  /\ fetched = <<>>
  /\ outcome = NoOutcome

Stamped(r, time) ==
  [flow |-> r.flow, path |-> r.path, headers |-> r.headers, body |-> r.body, time |-> time]
Recorded == {Stamped(r, time) : r \in Requests, time \in Times}

\* The engine records a request, before or while the journal is fetched.
Record(r, time) ==
  /\ stage = "called"
  /\ Len(journal) < MaxJournal
  /\ journal' = Append(journal, Stamped(r, time))
  /\ UNCHANGED <<predicates, count, flow, stage, fetched, outcome>>

\* fetchRecorded: the flow is filtered by the engine.
FetchRecorded(scope) ==
  FlattenSeq([k \in DOMAIN journal |->
                IF scope \in {"all", journal[k].flow} THEN <<journal[k]>> ELSE <<>>])

\* Bug: the greatest number of requests is not looked at.
BugSatisfies(matched, matcher) == matched >= matcher.min

Satisfies(matched, matcher) == matched >= matcher.min /\ matched <= matcher.max

\* runVerify on what was fetched: nothing is awaited from there on.
Conclude(list, matcher, recorded) ==
  LET verdicts == [k \in DOMAIN recorded |-> EvalPredicates(list, recorded[k])]
      matched  == Passed(verdicts)
      unread   == \E k \in DOMAIN recorded : ~Mapped(CollectLeafDetails(list, recorded[k]))
  IN  IF ~Mapped(verdicts) THEN [NoOutcome EXCEPT !.result = "threw"]
      ELSE IF Satisfies(matched, matcher) THEN [NoOutcome EXCEPT !.result = "passed", !.matched = matched]
      ELSE IF matched = 0 /\ unread THEN [NoOutcome EXCEPT !.result = "threw"]
      ELSE [result |-> "failed", matched |-> matched,
            closest |-> IF matched = 0 THEN ComputeClosest(list, recorded) ELSE 0]

\* The call, from the moment its journal is fetched; it keeps its arguments.
Verify(list, matcher, scope) ==
  /\ stage = "called"
  /\ stage' = "done"
  /\ predicates' = list /\ count' = matcher /\ flow' = scope
  /\ fetched' = FetchRecorded(scope)
  /\ outcome' = Conclude(list, matcher, fetched')
  /\ UNCHANGED journal

\* Recording is not enabled, or the journal cannot be fetched.
VerifyFails ==
  /\ stage = "called"
  /\ stage' = "done"
  /\ outcome' = [NoOutcome EXCEPT !.result = "error"]
  /\ UNCHANGED <<predicates, count, flow, journal, fetched>>

Next ==
  \/ \E r \in Requests, time \in Times : Record(r, time)
  \/ \E list \in Matches, matcher \in Matchers, scope \in Scopes : Verify(list, matcher, scope)
  \/ VerifyFails

Spec == Init /\ [][Next]_vars

-----------------------------------------------------------------------------
(* Reference definitions and properties.                                   *)

\* What is true of a predicate: that it holds, that it fails, or neither; pushed
\* through its negations, and leaves that cannot be evaluated count for neither.
Meaning(means, p, request) ==
  LET details == EvalLeaf(p.leaf, request)
      differs == \E k \in DOMAIN details : details[k] = "false"
  IN  {v \in {"true", "false"} :
         \/ p.kind = "not" /\ Negation(v) \in means[p.parts[1]]
         \/ p.kind = "leaf" /\ Mapped(details) /\ v = Verdict(~differs)
         \/ <<p.kind, v>> \in {<<"and", "true">>, <<"or", "false">>}
              /\ \A k \in DOMAIN p.parts : v \in means[p.parts[k]]
         \/ <<p.kind, v>> \in {<<"and", "false">>, <<"or", "true">>}
              /\ \E k \in DOMAIN p.parts : v \in means[p.parts[k]]}

Truth(request) ==
  LET means[p \in Predicates] == Meaning(means, p, request)
  IN  means

Match(request)   == \A k \in DOMAIN predicates : "true" \in Truth(request)[predicates[k]]
Differs(request) == \E k \in DOMAIN predicates : "false" \in Truth(request)[predicates[k]]

\* verify() resolves only when the number of requests that match, of those that
\* were in the journal at one moment during the call and in the flow asked for,
\* is one the matcher allows, and fails only when it is not; each request does
\* match or does not, or verify() throws (engine.ts:449-470).
VerdictIsTheCount ==
  outcome.result \in {"passed", "failed"} =>
    LET asked    == {k \in DOMAIN journal : flow \in {"all", journal[k].flow}}
        matching == {k \in asked : Match(journal[k])}
    IN  /\ \A k \in asked \ matching : Differs(journal[k])
        /\ (outcome.result = "passed") = (Cardinality(matching) \in count.min..count.max)

HasEmptyOr(p) ==
  LET has[q \in Predicates] ==
        (q.kind = "or" /\ q.parts = <<>>) \/ \E k \in DOMAIN q.parts : has[q.parts[k]]
  IN  has[p]

\* A verification that fails because nothing matched names a request, unless
\* there is none, and at least one clause of the match that this request does
\* not satisfy: what the user is shown as ✗ is a reason.  Only an or without
\* alternatives has no clause to show (verify/eval.ts:96-129, 148-151).
NonMatchIsExplained ==
  outcome.result = "failed" /\ outcome.matched = 0 /\ fetched # <<>> =>
    /\ outcome.closest \in DOMAIN fetched
    /\ \/ "false" \in ToSet(CollectLeafDetails(predicates, fetched[outcome.closest]))
       \/ \E k \in DOMAIN predicates : HasEmptyOr(predicates[k])

\* The request that is named satisfies the greatest fraction of the clauses, and
\* is the most recent of those that do; as long as all requests have a timestamp
\* or none has: mixed, "more recent" is not an order (verify/eval.ts:131-159).
ClosestIsBest ==
  outcome.closest # 0 /\ ({r.time : r \in ToSet(fetched)} = {0} \/ 0 \notin {r.time : r \in ToSet(fetched)}) =>
    \A k \in DOMAIN fetched \ {outcome.closest} :
      LET f == Fraction(predicates, fetched[k])
          g == Fraction(predicates, fetched[outcome.closest])
      IN  /\ ~Exceeds(f, g)
          /\ Exceeds(g, f) \/ fetched[k].time < fetched[outcome.closest].time
               \/ (fetched[k].time = fetched[outcome.closest].time /\ k < outcome.closest)

\* deepEquals on a body is structural equality, not containment, under every
\* setting of the two case parameters (verify/eval.ts:337-356), except for an
\* object with two keys that differ in case only, when keys are folded, and for a
\* string that faces a number, a boolean, null or a composite that prints as it
\* does: those the code takes for the string (:354), although it says "exact
\* structural equality" (:10-11, :327).
DeepEqualsIsExact ==
  \A k \in DOMAIN fetched, leaf \in Leaves :
    leaf.operator = "deepEquals" /\ leaf.params.except = "none" /\ leaf.params.jsonpath = <<>> =>
      \A n \in DOMAIN leaf.clauses :
        LET clause == leaf.clauses[n] IN
        clause.field = "body" /\ IsComposite(clause.expected)
          /\ (leaf.params.keyCaseSensitive \/ (~KeysCollide(fetched[k].body) /\ ~KeysCollide(clause.expected))) =>
            \/ EvalField("deepEquals", clause, fetched[k], leaf.params)
                 = Verdict(SameJson(fetched[k].body, clause.expected, leaf.params))
            \/ MistakenForString(fetched[k].body, clause.expected, leaf.params)
=============================================================================
