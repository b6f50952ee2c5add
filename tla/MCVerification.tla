--------------------------- MODULE MCVerification ---------------------------
(***************************************************************************)
(* Model-checking instance of Verification.  The configuration names what  *)
(* is at the end: TLC evaluates the body of a definition given to a        *)
(* constant at each use, and keeps the value of what that body names.      *)
(***************************************************************************)
EXTENDS Verification

Printable == {"", "a", "A", "ab", "b", "x", "1", "2", "json", "invalid"}
Lowered == [s \in Printable |-> IF s = "A" THEN "a" ELSE s]
Relation == {<<op, "ab", "a">> : op \in {"contains", "startsWith", "matches"}}
               \cup {<<op, s, s>> : op \in {"contains", "startsWith", "matches"}, s \in Printable}
Stripped == [e \in {"a"} |-> [s \in Printable |-> CASE s = "a" -> "" [] s = "ab" -> "b" [] OTHER -> s]]

Params == [caseSensitive |-> FALSE, keyCaseSensitive |-> FALSE, except |-> "none", jsonpath |-> <<>>]
Exact  == [Params EXCEPT !.caseSensitive = TRUE, !.keyCaseSensitive = TRUE]
Clause(field, key, expected) == [field |-> field, key |-> key, expected |-> expected]
Predicate(operator, clauses, params) == [operator |-> operator, clauses |-> clauses, params |-> params]

Inner   == Obj(<<<<"b", Arr(<<Num(1)>>)>>>>)
Both    == Obj(<<<<"a", Str("1")>>, <<"b", Arr(<<Num(1)>>)>>>>)
Folding == Obj(<<<<"a", Num(1)>>, <<"A", Num(1)>>>>)

LeafInstances ==
  {Predicate("equals", <<Clause("path", "", Str("A")), Clause("body", "", Inner)>>, Params),
   Predicate("deepEquals", <<Clause("body", "", Both)>>, Params),
   Predicate("deepEquals", <<Clause("body", "", Inner)>>, Exact),
   Predicate("contains", <<Clause("headers", "A", Str("b"))>>, [Params EXCEPT !.except = "a"]),
   Predicate("equals", <<Clause("body", "", Str("1"))>>,
             [Params EXCEPT !.jsonpath = <<[type |-> "key", name |-> "b"], [type |-> "index", index |-> 1]>>]),
   Predicate("exists", <<Clause("headers", "", Str("1")), Clause("body", "", Str("2"))>>, Params),
   Predicate("matches", <<Clause("unknown", "", Str("a"))>>, Params),
   Predicate("inject", <<>>, Params),
   Predicate("empty", <<>>, Params)}

Json ==
  {Str(s) : s \in Printable} \cup {Num(1), Arr(<<Num(1)>>), Arr(<<Str("x"), Str("ab")>>), Inner, Both, Folding,
     Obj(<<<<"A", Num(1)>>, <<"b", Arr(<<Num(1)>>)>>>>)}

RECURSIVE Deep(_)
Deep(v) ==
  CASE v.type = "array" -> 1 + Max({0} \cup {Deep(v.items[k]) : k \in DOMAIN v.items})
    [] v.type = "object" -> 1 + Max({0} \cup {Deep(v.entries[k][2]) : k \in DOMAIN v.entries})
    [] OTHER -> 0
Depths == [v \in Json |-> Deep(v)]

Groups(kind, seqs) == {[kind |-> kind, leaf |-> CHOOSE leaf \in LeafInstances : TRUE, parts |-> seq] : seq \in seqs}
Singles(S) == {<<p>> : p \in S}
Pairs(S)   == {<<p, q>> : p \in S, q \in S}

LeafPredicates == {[kind |-> "leaf", leaf |-> leaf, parts |-> <<>>] : leaf \in LeafInstances}
Ors            == Groups("or", {<<>>} \cup Pairs(LeafPredicates))
Trees == LeafPredicates \cup Groups("not", Singles(LeafPredicates))
           \cup Ors \cup Groups("and", {<<>>} \cup Pairs(LeafPredicates)) \cup Groups("not", Singles(Ors))
Calls ==
  Singles(Trees) \cup {pair \in Pairs(LeafPredicates) : pair[2].leaf.operator \in {"equals", "inject"}}

RECURSIVE Tall(_)
Tall(p) == IF p.parts = <<>> THEN 0 ELSE 1 + Max({Tall(p.parts[k]) : k \in DOMAIN p.parts})
Heights == [p \in Trees |-> Tall(p)]

Arriving ==
  {[flow |-> "f1", path |-> "a", headers |-> <<>>, body |-> Inner],
   [flow |-> "f2", path |-> "ab", headers |-> <<<<"a", Arr(<<Str("x"), Str("ab")>>)>>>>, body |-> Undefined],
   [flow |-> "f1", path |-> "b", headers |-> <<<<"x", Str("a")>>>>,
    body |-> Obj(<<<<"A", Num(1)>>, <<"b", Arr(<<Num(1)>>)>>>>)],
   [flow |-> "f1", path |-> "x", headers |-> <<<<"A", Str("A")>>>>, body |-> Folding]}

\* times(1) and never().
Counts == {[min |-> 1, max |-> 1], [min |-> 0, max |-> 0]}

MCLower      == Lowered
MCRelated    == Relation
MCStrip      == Stripped
MCValues     == Json
MCDepth      == Depths
MCLeaves     == LeafInstances
MCPredicates == Trees
MCHeight     == Heights
MCMatches    == Calls
MCRequests   == Arriving
MCMatchers   == Counts
=============================================================================
