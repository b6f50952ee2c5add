--------------------------- MODULE LeafEvaluation ---------------------------
(***************************************************************************)
(* The part of the SDK's evaluator that looks at one request               *)
(* (rift-core/src/verify/eval.ts): one leaf predicate, its clauses, the    *)
(* JSON comparison and the JSONPath subset.                                *)
(*                                                                         *)
(* A string is a member of a small set, with what the operators, the case  *)
(* folding and the regular expressions say of it as constants; "invalid"   *)
(* is the expression that does not compile.  A JSON value is tagged with   *)
(* its type, an object is the sequence of its entries.                     *)
(***************************************************************************)
EXTENDS Naturals, Sequences, FiniteSets, SequencesExt

CONSTANTS
  Lower,        \* Lower[s]: s in lower case
  Related,      \* <<operator, actual, expected>> that are so, besides equality
  Strip,        \* Strip[e][s]: s without what the expression e matches
  Values,       \* the JSON values in use, with all values inside them
  Depth         \* Depth[v]: how deep values are nested in v, or more

Strings   == DOMAIN Lower
Undefined == [type |-> "undefined"]
Str(s)    == [type |-> "string", value |-> s]
Num(n)    == [type |-> "number", value |-> n]
Arr(seq)  == [type |-> "array", items |-> seq]
Obj(seq)  == [type |-> "object", entries |-> seq]

\* Case folding is a function on strings; JSON values are finite trees, and no
\* object has one key twice.
LowerAssumption == Lower \in [Strings -> Strings]
ValuesAssumption ==
  /\ Depth \in [Values -> Nat]
  /\ Undefined \notin Values
  /\ \A v \in Values : v.type = "array" =>
       v.items \in Seq(Values) /\ \A k \in DOMAIN v.items : Depth[v.items[k]] < Depth[v]
  /\ \A v \in Values : v.type = "object" =>
       /\ v.entries \in Seq(Strings \X Values)
       /\ \A k \in DOMAIN v.entries : Depth[v.entries[k][2]] < Depth[v]
       /\ \A j, k \in DOMAIN v.entries : v.entries[j][1] = v.entries[k][1] => j = k

ASSUME StringsAndValues == LowerAssumption /\ ValuesAssumption

-----------------------------------------------------------------------------
(* Verdicts: the outcome of an evaluation that may throw.                  *)

Verdicts == {"true", "false", "threw"}
Verdict(test) == IF test THEN "true" ELSE "false"

\* Array.prototype.every and some: the first verdict that decides.
FirstOther(verdicts, ordinary) ==
  LET others == {k \in DOMAIN verdicts : verdicts[k] # ordinary}
  IN  IF others = {} THEN ordinary ELSE verdicts[Min(others)]
Every(verdicts) == FirstOther(verdicts, "true")
Some(verdicts)  == FirstOther(verdicts, "false")

\* map(): every element is evaluated, and any of them may throw.
Mapped(verdicts) == \A k \in DOMAIN verdicts : verdicts[k] # "threw"

-----------------------------------------------------------------------------
(* Values.                                                                 *)

IsComposite(v) == v.type \in {"array", "object"}

\* toStr: a number prints as a string may be spelled, a composite as none is.
ToStr(v) ==
  CASE v.type = "undefined" -> ""
    [] v.type = "string" -> v.value
    [] v.type = "number" -> IF v.value = 1 THEN "1" ELSE "2"
    [] OTHER -> "json"

\* A string and a key, in lower case unless the parameters say otherwise.
Folded(s, params)    == IF params.caseSensitive THEN s ELSE Lower[s]
FoldedKey(s, params) == IF params.keyCaseSensitive THEN s ELSE Lower[s]

\* stringCompare with compileRegex and applyExcept.
StringCompare(operator, actualRaw, expectedRaw, params) ==
  LET actual == IF params.except = "none" THEN actualRaw ELSE Strip[params.except][actualRaw]
      a      == Folded(actual, params)
      e      == Folded(expectedRaw, params)
  IN  IF params.except = "invalid" \/ (operator = "matches" /\ expectedRaw = "invalid") THEN "threw"
      ELSE IF operator \in {"equals", "deepEquals"} THEN Verdict(a = e)
      ELSE Verdict(<<operator, a, e>> \in Related)

\* findObjectKey, and findKeyValue on headers: the first key that is equal once
\* both are folded.
FindKey(entries, key, params) ==
  LET found == {k \in DOMAIN entries : FoldedKey(entries[k][1], params) = FoldedKey(key, params)}
  IN  IF found = {} THEN Undefined ELSE entries[Min(found)][2]

\* Bug: an exact comparison lets an object have more keys.
BugCompare(compare, actual, expected, exact, params) ==
  CASE expected.type = "array" ->
         IF actual.type # "array" \/ (exact /\ Len(actual.items) # Len(expected.items))
              \/ Len(expected.items) > Len(actual.items)
         THEN "false"
         ELSE Every([k \in DOMAIN expected.items |-> compare[expected.items[k]][actual.items[k]]])
    [] expected.type = "object" ->
         IF actual.type # "object" THEN "false"
         ELSE Every([k \in DOMAIN expected.entries |->
                LET found == FindKey(actual.entries, expected.entries[k][1], params)
                IN  IF found = Undefined THEN "false" ELSE compare[expected.entries[k][2]][found]])
    [] expected.type = "string" -> StringCompare("equals", ToStr(actual), expected.value, params)
    [] OTHER -> Verdict(actual = expected)

\* compareBody, with the comparison of the values inside: containment, or exact;
\* a string is compared with what the other value prints as.
Compare(compare, actual, expected, exact, params) ==
  CASE expected.type = "array" ->
         IF actual.type # "array" \/ (exact /\ Len(actual.items) # Len(expected.items))
              \/ Len(expected.items) > Len(actual.items)
         THEN "false"
         ELSE Every([k \in DOMAIN expected.items |-> compare[expected.items[k]][actual.items[k]]])
    [] expected.type = "object" ->
         IF actual.type # "object" \/ (exact /\ Len(actual.entries) # Len(expected.entries))
         THEN "false"
         ELSE Every([k \in DOMAIN expected.entries |->
                LET found == FindKey(actual.entries, expected.entries[k][1], params)
                IN  IF found = Undefined THEN "false" ELSE compare[expected.entries[k][2]][found]])
    [] expected.type = "string" -> StringCompare("equals", ToStr(actual), expected.value, params)
    [] OTHER -> Verdict(actual = expected)

Actuals == Values \cup {Undefined}

Comparison(exact, params) ==
  LET compare[expected \in Values] ==
        [actual \in Actuals |-> Compare(compare, actual, expected, exact, params)]
  IN  compare

CompareBody(actual, expected, exact, params) == Comparison(exact, params)[expected][actual]

\* One segment of a JSONPath: a key or an index, counted from one here.
Inside(v, segment) ==
  CASE segment.type = "index" /\ v.type = "array" ->
         IF segment.index \in DOMAIN v.items THEN v.items[segment.index] ELSE Undefined
    [] segment.type = "key" /\ v.type = "object" ->
         FindKey(v.entries, segment.name, [keyCaseSensitive |-> TRUE])
    [] OTHER -> Undefined

\* applyJsonPath.
ApplyJsonPath(segments, v) ==
  LET current[n \in 0..Len(segments)] ==
        IF n = 0 THEN v ELSE Inside(current[n - 1], segments[n])
  IN  current[Len(segments)]

-----------------------------------------------------------------------------
(* One leaf predicate on one request.                                      *)

Fields == {"path", "headers", "body"}

\* lookupActual: a header may have several values.
LookupActual(clause, request, params) ==
  CASE clause.field = "path" -> Str(request.path)
    [] clause.field = "body" -> request.body
    [] OTHER -> FindKey(request.headers, clause.key, params)

\* evalField; a predicate without a JSONPath has the path <<>>, and the selector
\* "$" alone, the only one without segments, is left out.
EvalField(operator, clause, request, params) ==
  LET raw    == LookupActual(clause, request, params)
      actual == IF params.jsonpath = <<>> THEN raw ELSE ApplyJsonPath(params.jsonpath, raw)
      compared(v) == StringCompare(operator, ToStr(v), ToStr(clause.expected), params)
  IN  IF clause.field \notin Fields \/ \E k \in DOMAIN params.jsonpath : params.jsonpath[k].type = "unsupported"
      THEN "threw"
      ELSE IF clause.field = "body" /\ operator \in {"equals", "deepEquals"}
                /\ IsComposite(clause.expected) /\ params.jsonpath = <<>>
      THEN CompareBody(actual, clause.expected, operator = "deepEquals", params)
      ELSE IF clause.field = "headers" /\ actual.type = "array"
      THEN Some([k \in DOMAIN actual.items |-> compared(actual.items[k])])
      ELSE compared(actual)

\* fieldPresence.
FieldPresence(field, request) ==
  CASE field = "headers" -> request.headers # <<>>
    [] field = "body" -> request.body # Undefined
    [] OTHER -> TRUE

EvalExists(clause, request) ==
  IF clause.field \notin Fields THEN "threw"
  ELSE Verdict(FieldPresence(clause.field, request) = (clause.expected = Str("1")))

\* The details of a leaf predicate: one verdict per clause, or a throw for an
\* operator that is unknown or not there; an empty predicate has no clauses.
EvalLeaf(leaf, request) ==
  CASE leaf.operator \in {"inject", "xpath", "unknown", "modifiers only"} -> <<"threw">>
    [] leaf.operator = "exists" ->
         [k \in DOMAIN leaf.clauses |-> EvalExists(leaf.clauses[k], request)]
    [] OTHER ->
         [k \in DOMAIN leaf.clauses |-> EvalField(leaf.operator, leaf.clauses[k], request, leaf.params)]

-----------------------------------------------------------------------------
(* Reference definitions.                                                  *)

\* Structural equality of JSON values, up to the order of entries and to the case
\* of strings and keys as the parameters say; same[w] are the values that are the
\* same as the value w inside.
Alike(same, v, w, params) ==
  LET paired(j, k) == /\ FoldedKey(v.entries[j][1], params) = FoldedKey(w.entries[k][1], params)
                      /\ v.entries[j][2] \in same[w.entries[k][2]]
  IN  /\ v.type = w.type
      /\ CASE w.type = "array" ->
                /\ Len(v.items) = Len(w.items)
                /\ \A k \in DOMAIN w.items : v.items[k] \in same[w.items[k]]
           [] w.type = "object" ->
                /\ \A j \in DOMAIN v.entries : \E k \in DOMAIN w.entries : paired(j, k)
                /\ \A k \in DOMAIN w.entries : \E j \in DOMAIN v.entries : paired(j, k)
           [] w.type = "string" -> Folded(v.value, params) = Folded(w.value, params)
           [] OTHER -> v = w

Sameness(params) ==
  LET same[w \in Values] == {v \in Actuals : Alike(same, v, w, params)}
  IN  same

SameJson(v, w, params) == v \in Sameness(params)[w]

\* Whether a string in w faces a value in v that is no string and prints as it
\* does: here, or at one item or key of both.
Mistaken(mistaken, v, w, params) ==
  \/ w.type = "string" /\ v.type # "string" /\ Folded(ToStr(v), params) = Folded(w.value, params)
  \/ /\ v.type = "array" /\ w.type = "array"
     /\ \E k \in DOMAIN v.items \cap DOMAIN w.items : v.items[k] \in mistaken[w.items[k]]
  \/ /\ v.type = "object" /\ w.type = "object"
     /\ \E j \in DOMAIN v.entries, k \in DOMAIN w.entries :
          /\ FoldedKey(v.entries[j][1], params) = FoldedKey(w.entries[k][1], params)
          /\ v.entries[j][2] \in mistaken[w.entries[k][2]]

Mistakes(params) ==
  LET mistaken[w \in Values] == {v \in Actuals : Mistaken(mistaken, v, w, params)}
  IN  mistaken

MistakenForString(v, w, params) == v \in Mistakes(params)[w]

\* Whether two keys of one object inside a value are the same once folded.
Collision(collide, v) ==
  \/ /\ v.type = "object"
     /\ \/ \E j, k \in DOMAIN v.entries : j # k /\ Lower[v.entries[j][1]] = Lower[v.entries[k][1]]
        \/ \E k \in DOMAIN v.entries : collide[v.entries[k][2]]
  \/ v.type = "array" /\ \E k \in DOMAIN v.items : collide[v.items[k]]

KeysCollide(v) ==
  LET collide[w \in Values] == Collision(collide, w)
  IN  v \in Values /\ collide[v]
=============================================================================
