------------------------- MODULE VerificationProofs -------------------------
(***************************************************************************)
(* Theorems about Verification and the evaluator it stands on, for any     *)
(* predicates and JSON values: finite trees, of any depth.                 *)
(*                                                                         *)
(* The evaluator's recursions are recursive functions; that such a         *)
(* function exists, and that it is what its equation says, is proved by    *)
(* well-founded recursion on a rank.                                       *)
(***************************************************************************)
EXTENDS Verification, FiniteSetTheorems, WellFoundedInduction, TLAPS

-----------------------------------------------------------------------------
(* Induction and recursion on a rank.                                      *)

\* What holds for an element when it holds for all of lower rank holds for all.
LEMMA RankInduction ==
  ASSUME NEW D, NEW rank \in [D -> Nat], NEW T,
         \A x \in D : (\A y \in D : rank[y] < rank[x] => y \in T) => x \in T
  PROVE  D \subseteq T
<1> DEFINE Missing == {rank[x] : x \in D \ T}
<1> SUFFICES ASSUME Missing # {} PROVE FALSE
  OBVIOUS
<1>1. Missing \subseteq Nat
  OBVIOUS
<1>2. PICK n \in Missing : \A m \in Missing : ~(<<m, n>> \in OpToRel(<, Nat))
  BY <1>1, NatLessThanWellFounded, WFMin
<1>3. PICK x \in D \ T : rank[x] = n
  BY <1>2
<1>4. ASSUME NEW y \in D, rank[y] < rank[x], y \notin T PROVE FALSE
  <2>1. rank[y] \in Missing /\ rank[y] \in Nat /\ n \in Nat /\ rank[y] < n
    BY <1>1, <1>3, <1>4
  <2>2. <<rank[y], n>> \in OpToRel(<, Nat)
    BY <2>1 DEF OpToRel
  <2> QED BY <1>2, <2>1, <2>2
<1> QED BY <1>3, <1>4

\* What holds from 0 on, and for n when it holds below n, holds for all numbers.
LEMMA StrongInduction ==
  ASSUME NEW T, \A n \in Nat : (\A m \in Nat : m < n => m \in T) => n \in T
  PROVE  Nat \subseteq T
<1> DEFINE rank == [n \in Nat |-> n]
<1>1. rank \in [Nat -> Nat] /\ \A n \in Nat : rank[n] = n
  OBVIOUS
<1> HIDE DEF rank
<1>2. PICK D : D = Nat
  OBVIOUS
<1>3. rank \in [D -> Nat] /\ \A x \in D : (\A y \in D : rank[y] < rank[x] => y \in T) => x \in T
  BY <1>1, <1>2
<1>4. D \subseteq T
  BY <1>3, RankInduction
<1> QED BY <1>2, <1>4

LEMMA SimpleInduction ==
  ASSUME NEW T, 0 \in T, \A n \in Nat : n \in T => n + 1 \in T
  PROVE  Nat \subseteq T
<1>1. ASSUME NEW n \in Nat, \A m \in Nat : m < n => m \in T PROVE n \in T
  <2>1. CASE n = 0
    BY <2>1
  <2>2. CASE n # 0
    <3>1. n - 1 \in Nat /\ n - 1 < n /\ (n - 1) + 1 = n
      BY <2>2
    <3> QED BY <1>1, <3>1
  <2> QED BY <2>1, <2>2
<1> QED BY <1>1, StrongInduction

\* An operator on functions whose result for an argument depends on the function's
\* values for arguments of lower rank only.
IsLocal(F, D, V, rank) ==
  /\ rank \in [D -> Nat]
  /\ F \in [[D -> V] -> [D -> V]]
  /\ \A g, h \in [D -> V], x \in D :
       (\A y \in D : rank[y] < rank[x] => g[y] = h[y]) => F[g][x] = F[h][x]

\* A function that is a fixed point on the arguments of rank below n.
FixedBelow(F, D, V, rank, n, f) ==
  f \in [D -> V] /\ \A x \in D : rank[x] < n => f[x] = F[f][x]

LEMMA FixedBelowAny ==
  ASSUME NEW D, NEW V, V # {}, NEW rank, NEW F, IsLocal(F, D, V, rank), NEW n \in Nat
  PROVE  \E f : FixedBelow(F, D, V, rank, n, f)
<1> DEFINE T == {m \in Nat : \E f : FixedBelow(F, D, V, rank, m, f)}
<1>1. ASSUME NEW m \in Nat, \A k \in Nat : k < m => k \in T PROVE m \in T
  <2>1. CASE m = 0
    <3>1. PICK v \in V : TRUE
      OBVIOUS
    <3>2. FixedBelow(F, D, V, rank, m, [x \in D |-> v])
      BY <2>1, <3>1 DEF FixedBelow, IsLocal
    <3> QED BY <3>2
  <2>2. CASE m # 0
    <3>1. m - 1 \in T
      BY <1>1, <2>2
    <3>2. PICK f : FixedBelow(F, D, V, rank, m - 1, f)
      BY <3>1
    <3>3. f \in [D -> V] /\ F[f] \in [D -> V]
      BY <3>2 DEF FixedBelow, IsLocal
    <3>4. ASSUME NEW x \in D, rank[x] < m PROVE F[f][x] = F[F[f]][x]
      <4>1. \A y \in D : rank[y] < rank[x] => f[y] = F[f][y]
        BY <3>2, <3>4 DEF FixedBelow, IsLocal
      <4> QED BY <3>3, <4>1 DEF IsLocal
    <3>5. FixedBelow(F, D, V, rank, m, F[f])
      BY <3>3, <3>4 DEF FixedBelow
    <3> QED BY <3>5
  <2> QED BY <2>1, <2>2
<1> HIDE DEF T
<1>2. Nat \subseteq T
  BY <1>1, StrongInduction
<1> QED BY <1>2 DEF T

LEMMA FixedBelowAgree ==
  ASSUME NEW D, NEW V, NEW rank, NEW F, IsLocal(F, D, V, rank), NEW n \in Nat,
         NEW f, NEW g, FixedBelow(F, D, V, rank, n, f), FixedBelow(F, D, V, rank, n, g),
         NEW z \in D, rank[z] < n
  PROVE  f[z] = g[z]
<1> DEFINE T == {x \in D : rank[x] < n => f[x] = g[x]}
<1>0. rank \in [D -> Nat]
  BY DEF IsLocal
<1>1. ASSUME NEW x \in D, \A y \in D : rank[y] < rank[x] => y \in T PROVE x \in T
  <2> SUFFICES ASSUME rank[x] < n PROVE f[x] = g[x]
    OBVIOUS
  <2>1. \A y \in D : rank[y] < rank[x] => f[y] = g[y]
    BY <1>0, <1>1
  <2>2. F[f][x] = F[g][x]
    BY <2>1 DEF IsLocal, FixedBelow
  <2> QED BY <2>2 DEF FixedBelow
<1> HIDE DEF T
<1>2. D \subseteq T
  BY <1>0, <1>1, RankInduction
<1> QED BY <1>2 DEF T

\* Such an operator has a fixed point.
LEMMA RankRecursion ==
  ASSUME NEW D, NEW V, V # {}, NEW rank, NEW F, IsLocal(F, D, V, rank)
  PROVE  \E f \in [D -> V] : f = F[f]
<1> DEFINE At(n) == CHOOSE f : FixedBelow(F, D, V, rank, n, f)
           whole == [x \in D |-> At(rank[x] + 1)[x]]
<1>1. \A n \in Nat : FixedBelow(F, D, V, rank, n, At(n))
  BY FixedBelowAny
<1> HIDE DEF At
<1>2. rank \in [D -> Nat]
  BY DEF IsLocal
<1>3. \A n \in Nat : At(n) \in [D -> V]
  BY <1>1 DEF FixedBelow
<1>4. whole \in [D -> V]
  BY <1>2, <1>3
<1>5. ASSUME NEW x \in D PROVE whole[x] = F[whole][x]
  <2>1. PICK n \in Nat : n = rank[x] + 1
    BY <1>2
  <2>2. PICK f : f = At(n)
    OBVIOUS
  <2>3. f \in [D -> V] /\ FixedBelow(F, D, V, rank, n, f)
    BY <1>1, <1>3, <2>2
  <2>4. ASSUME NEW y \in D, rank[y] < rank[x] PROVE f[y] = whole[y]
    <3>1. PICK m \in Nat : m = rank[y] + 1
      BY <1>2
    <3>2. PICK g : g = At(m)
      OBVIOUS
    <3>3. m < n /\ rank[y] < m /\ FixedBelow(F, D, V, rank, m, g)
      BY <1>1, <1>2, <2>1, <2>4, <3>1, <3>2
    <3>4. FixedBelow(F, D, V, rank, m, f)
      BY <1>2, <2>1, <2>3, <3>1, <3>3 DEF FixedBelow
    <3>5. f[y] = g[y]
      BY <3>3, <3>4, FixedBelowAgree
    <3> QED BY <3>1, <3>2, <3>5
  <2>5. F[f][x] = F[whole][x]
    BY <1>4, <2>3, <2>4 DEF IsLocal
  <2>6. whole[x] = f[x] /\ f[x] = F[f][x]
    BY <1>2, <2>1, <2>2, <2>3 DEF FixedBelow
  <2> QED BY <2>5, <2>6
<1>6. whole = F[whole]
  <2> HIDE DEF whole
  <2>1. F[whole] \in [D -> V]
    BY <1>4 DEF IsLocal
  <2> QED BY <1>4, <1>5, <2>1
<1> QED BY <1>4, <1>6

\* A sequence of values, each made of the one before it.
Iterates(f, N, V, base, next) ==
  f \in [0..N -> V] /\ f[0] = base /\ \A n \in 1..N : f[n] = next[f[n - 1]][n]

LEMMA Iteration ==
  ASSUME NEW N \in Nat, NEW V, NEW base \in V, NEW next \in [V -> [1..N -> V]]
  PROVE  \E f : Iterates(f, N, V, base, next)
<1> DEFINE D       == 0..N
           rank    == [n \in D |-> n]
           step(g) == [n \in D |-> IF n = 0 THEN base ELSE next[g[n - 1]][n]]
           F       == [g \in [D -> V] |-> step(g)]
<1>1. \A g \in [D -> V] : F[g] = step(g) /\ step(g) \in [D -> V]
  OBVIOUS
<1>2. rank \in [D -> Nat] /\ \A n \in D : rank[n] = n
  OBVIOUS
<1>3. ASSUME NEW g \in [D -> V], NEW h \in [D -> V], NEW n \in D,
             \A m \in D : rank[m] < rank[n] => g[m] = h[m]
      PROVE  F[g][n] = F[h][n]
  <2>1. n # 0 => g[n - 1] = h[n - 1]
    BY <1>2, <1>3
  <2>2. step(g)[n] = step(h)[n]
    BY <2>1
  <2> QED BY <1>1, <2>2
<1>4. F \in [[D -> V] -> [D -> V]]
  BY <1>1
<1>5. IsLocal(F, D, V, rank)
  <2> HIDE DEF F, D, rank
  <2> QED BY <1>2, <1>3, <1>4 DEF IsLocal
<1>6. PICK f \in [D -> V] : f = F[f]
  <2> HIDE DEF F, D, rank
  <2> QED BY <1>5, RankRecursion
<1>7. f = step(f)
  BY <1>1, <1>6
<1>8. f[0] = base
  BY <1>7
<1>9. ASSUME NEW n \in 1..N PROVE f[n] = next[f[n - 1]][n]
  <2>1. n \in D /\ n # 0
    OBVIOUS
  <2>2. step(f)[n] = next[f[n - 1]][n]
    BY <2>1
  <2> HIDE DEF step, F
  <2> QED BY <1>7, <2>2
<1> QED BY <1>6, <1>8, <1>9 DEF Iterates

\* The elements of a sequence.
LEMMA ElementOf ==
  ASSUME NEW S, NEW s \in Seq(S)
  PROVE  /\ Len(s) \in Nat /\ DOMAIN s = 1..Len(s)
         /\ \A k \in DOMAIN s : s[k] \in S
OBVIOUS

-----------------------------------------------------------------------------
(* Verdicts.                                                               *)

LEMMA MinIsLeast ==
  ASSUME NEW S \in SUBSET Nat, S # {}
  PROVE  Min(S) \in S /\ \A k \in S : Min(S) <= k
<1>1. PICK n \in S : \A m \in S : ~(<<m, n>> \in OpToRel(<, Nat))
  BY NatLessThanWellFounded, WFMin
<1>2. ASSUME NEW m \in S, m < n PROVE FALSE
  <2>1. <<m, n>> \in OpToRel(<, Nat)
    BY <1>2 DEF OpToRel
  <2> QED BY <1>1, <2>1
<1>3. \A m \in S : n <= m
  BY <1>2
<1>4. \E x \in S : \A y \in S : x =< y
  BY <1>3
<1> QED BY <1>4 DEF Min

\* The verdict that decides is the ordinary one if all are, or else the first other.
LEMMA FirstOtherIs ==
  ASSUME NEW s, DOMAIN s \subseteq Nat, NEW ordinary
  PROVE  \/ FirstOther(s, ordinary) = ordinary /\ \A k \in DOMAIN s : s[k] = ordinary
         \/ \E k \in DOMAIN s : s[k] # ordinary /\ FirstOther(s, ordinary) = s[k]
<1> DEFINE others == {k \in DOMAIN s : s[k] # ordinary}
<1>1. CASE others = {}
  BY <1>1 DEF FirstOther
<1>2. CASE others # {}
  <2>1. others \in SUBSET Nat
    OBVIOUS
  <2>2. Min(others) \in others
    <3> HIDE DEF others
    <3> QED BY <1>2, <2>1, MinIsLeast
  <2>3. FirstOther(s, ordinary) = s[Min(others)]
    BY <1>2 DEF FirstOther
  <2> QED BY <2>2, <2>3
<1> QED BY <1>1, <1>2

LEMMA EveryIs ==
  ASSUME NEW s, DOMAIN s \subseteq Nat
  PROVE  /\ Every(s) = "true" <=> \A k \in DOMAIN s : s[k] = "true"
         /\ Every(s) # "true" => \E k \in DOMAIN s : s[k] = Every(s)
         /\ (\A k \in DOMAIN s : s[k] \in Verdicts) => Every(s) \in Verdicts
BY FirstOtherIs DEF Every, Verdicts

LEMMA SomeIs ==
  ASSUME NEW s, DOMAIN s \subseteq Nat
  PROVE  /\ Some(s) = "false" <=> \A k \in DOMAIN s : s[k] = "false"
         /\ Some(s) # "false" => \E k \in DOMAIN s : s[k] = Some(s)
         /\ (\A k \in DOMAIN s : s[k] \in Verdicts) => Some(s) \in Verdicts
BY FirstOtherIs DEF Some, Verdicts

LEMMA VerdictTyped == \A test : Verdict(test) \in Verdicts
BY DEF Verdict, Verdicts

LEMMA StringCompareTyped ==
  \A operator, a, e, params : StringCompare(operator, a, e, params) \in Verdicts
BY VerdictTyped DEF StringCompare, Verdicts

-----------------------------------------------------------------------------
(* JSON values.                                                            *)

LEMMA ArrayItems ==
  ASSUME NEW v \in Actuals, v.type = "array"
  PROVE  /\ v \in Values
         /\ v.items \in Seq(Values)
         /\ Len(v.items) \in Nat /\ DOMAIN v.items = 1..Len(v.items)
         /\ \A k \in DOMAIN v.items : v.items[k] \in Values /\ Depth[v.items[k]] < Depth[v]
<1>1. v \in Values
  BY DEF Actuals, Undefined
<1>2. v.items \in Seq(Values) /\ \A k \in DOMAIN v.items : Depth[v.items[k]] < Depth[v]
  BY <1>1, StringsAndValues DEF ValuesAssumption
<1> QED BY <1>1, <1>2

LEMMA ObjectEntries ==
  ASSUME NEW v \in Actuals, v.type = "object"
  PROVE  /\ v \in Values
         /\ v.entries \in Seq(Strings \X Values)
         /\ Len(v.entries) \in Nat /\ DOMAIN v.entries = 1..Len(v.entries)
         /\ \A k \in DOMAIN v.entries :
              v.entries[k][2] \in Values /\ Depth[v.entries[k][2]] < Depth[v]
         /\ \A j, k \in DOMAIN v.entries : v.entries[j][1] = v.entries[k][1] => j = k
<1>1. v \in Values
  BY DEF Actuals, Undefined
<1>2. /\ v.entries \in Seq(Strings \X Values)
      /\ \A k \in DOMAIN v.entries : Depth[v.entries[k][2]] < Depth[v]
      /\ \A j, k \in DOMAIN v.entries : v.entries[j][1] = v.entries[k][1] => j = k
  BY <1>1, StringsAndValues DEF ValuesAssumption
<1>3. Len(v.entries) \in Nat /\ DOMAIN v.entries = 1..Len(v.entries)
  BY <1>2
<1>4. \A k \in DOMAIN v.entries : v.entries[k] \in Strings \X Values
  BY <1>2
<1> QED BY <1>1, <1>2, <1>3, <1>4

\* What a key leads to: the value of the first entry with that key, or nothing.
LEMMA FindKeyIs ==
  ASSUME NEW entries \in Seq(Strings \X Values), NEW key, NEW params
  PROVE  LET same(k) == FoldedKey(entries[k][1], params) = FoldedKey(key, params)
         IN  /\ FindKey(entries, key, params) \in Actuals
             /\ FindKey(entries, key, params) = Undefined => \A k \in DOMAIN entries : ~same(k)
             /\ FindKey(entries, key, params) # Undefined =>
                  \E k \in DOMAIN entries : same(k) /\ FindKey(entries, key, params) = entries[k][2]
<1> DEFINE same(k) == FoldedKey(entries[k][1], params) = FoldedKey(key, params)
           found   == {k \in DOMAIN entries : same(k)}
<1>1. DOMAIN entries \subseteq Nat /\ \A k \in DOMAIN entries : entries[k][2] \in Values
  <2>1. \A k \in DOMAIN entries : entries[k] \in Strings \X Values
    OBVIOUS
  <2> QED BY <2>1
<1>2. CASE found = {}
  <2>1. FindKey(entries, key, params) = Undefined
    BY <1>2 DEF FindKey
  <2>2. \A k \in DOMAIN entries : ~same(k)
    BY <1>2
  <2> QED BY <2>1, <2>2 DEF Actuals
<1>3. CASE found # {}
  <2>1. found \in SUBSET Nat
    BY <1>1
  <2>2. Min(found) \in found
    <3> HIDE DEF found
    <3> QED BY <1>3, <2>1, MinIsLeast
  <2>3. FindKey(entries, key, params) = entries[Min(found)][2]
    BY <1>3 DEF FindKey
  <2>4. Min(found) \in DOMAIN entries /\ same(Min(found))
    BY <2>2
  <2>5. FindKey(entries, key, params) \in Values
    BY <1>1, <2>3, <2>4
  <2>6. Undefined \notin Values
    BY StringsAndValues DEF ValuesAssumption
  <2> HIDE DEF found
  <2> QED BY <2>3, <2>4, <2>5, <2>6 DEF Actuals
<1> QED BY <1>2, <1>3

-----------------------------------------------------------------------------
(* compareBody.                                                            *)

Comparers == [Values -> [Actuals -> Verdicts]]

LEMMA CompareTyped ==
  ASSUME NEW g \in Comparers, NEW a \in Actuals, NEW e \in Values, NEW exact, NEW params
  PROVE  Compare(g, a, e, exact, params) \in Verdicts
<1>0. e \in Actuals
  BY DEF Actuals
<1>1. CASE e.type = "array" /\ a.type = "array" /\ ~(Len(e.items) > Len(a.items))
  <2> DEFINE s == [k \in DOMAIN e.items |-> g[e.items[k]][a.items[k]]]
  <2>1. ASSUME NEW k \in DOMAIN e.items PROVE e.items[k] \in Values /\ a.items[k] \in Actuals
    BY <1>0, <1>1, ArrayItems DEF Actuals
  <2>2. DOMAIN s \subseteq Nat /\ \A k \in DOMAIN s : s[k] \in Verdicts
    BY <1>0, <1>1, <2>1, ArrayItems DEF Comparers
  <2>3. Every(s) \in Verdicts
    <3> HIDE DEF s
    <3> QED BY <2>2, EveryIs
  <2> QED BY <1>1, <2>3 DEF Compare, Verdicts
<1>2. CASE e.type = "object" /\ a.type = "object"
  <2> DEFINE s == [k \in DOMAIN e.entries |->
                     LET found == FindKey(a.entries, e.entries[k][1], params)
                     IN  IF found = Undefined THEN "false" ELSE g[e.entries[k][2]][found]]
  <2>1. ASSUME NEW k \in DOMAIN e.entries
        PROVE  e.entries[k][2] \in Values /\ FindKey(a.entries, e.entries[k][1], params) \in Actuals
    BY <1>0, <1>2, ObjectEntries, FindKeyIs
  <2>2. DOMAIN s \subseteq Nat
    BY <1>0, <1>2, ObjectEntries
  <2>3. \A k \in DOMAIN s : s[k] \in Verdicts
    BY <2>1 DEF Comparers, Verdicts
  <2>4. Every(s) \in Verdicts
    <3> HIDE DEF s
    <3> QED BY <2>2, <2>3, EveryIs
  <2> QED BY <1>2, <2>4 DEF Compare, Verdicts
<1>3. CASE e.type = "array" /\ ~(a.type = "array" /\ ~(Len(e.items) > Len(a.items)))
  BY <1>3 DEF Compare, Verdicts
<1>4. CASE e.type = "object" /\ a.type # "object"
  BY <1>4 DEF Compare, Verdicts
<1>5. CASE e.type \notin {"array", "object"}
  <2>1. CASE e.type = "string"
    BY <2>1, StringCompareTyped DEF Compare
  <2>2. CASE e.type # "string"
    BY <1>5, <2>2, VerdictTyped DEF Compare
  <2> QED BY <2>1, <2>2
<1> QED BY <1>1, <1>2, <1>3, <1>4, <1>5

LEMMA CompareLocal ==
  ASSUME NEW g, NEW h, NEW a \in Actuals, NEW e \in Values, NEW exact, NEW params,
         \A w \in Values : Depth[w] < Depth[e] => g[w] = h[w]
  PROVE  Compare(g, a, e, exact, params) = Compare(h, a, e, exact, params)
<1>0. e \in Actuals
  BY DEF Actuals
<1>1. CASE e.type = "array"
  <2>1. \A k \in DOMAIN e.items : g[e.items[k]] = h[e.items[k]]
    BY <1>0, <1>1, ArrayItems
  <2>2. [k \in DOMAIN e.items |-> g[e.items[k]][a.items[k]]]
          = [k \in DOMAIN e.items |-> h[e.items[k]][a.items[k]]]
    BY <2>1
  <2> QED BY <1>1, <2>2 DEF Compare
<1>2. CASE e.type = "object"
  <2> DEFINE found(k) == FindKey(a.entries, e.entries[k][1], params)
  <2>1. \A k \in DOMAIN e.entries : g[e.entries[k][2]] = h[e.entries[k][2]]
    BY <1>0, <1>2, ObjectEntries
  <2>2. [k \in DOMAIN e.entries |-> IF found(k) = Undefined THEN "false" ELSE g[e.entries[k][2]][found(k)]]
          = [k \in DOMAIN e.entries |-> IF found(k) = Undefined THEN "false" ELSE h[e.entries[k][2]][found(k)]]
    BY <2>1
  <2> QED BY <1>2, <2>2 DEF Compare
<1>3. CASE e.type \notin {"array", "object"}
  BY <1>3 DEF Compare
<1> QED BY <1>1, <1>2, <1>3

\* The comparison of JSON values is what its equation says.
LEMMA ComparisonIs ==
  ASSUME NEW exact, NEW params
  PROVE  /\ Comparison(exact, params) \in Comparers
         /\ \A e \in Values, a \in Actuals :
              Comparison(exact, params)[e][a] = Compare(Comparison(exact, params), a, e, exact, params)
<1> DEFINE step(g) == [e \in Values |-> [a \in Actuals |-> Compare(g, a, e, exact, params)]]
           F       == [g \in Comparers |-> step(g)]
           it      == Comparison(exact, params)
<1>1. \A g \in Comparers : F[g] = step(g) /\ step(g) \in Comparers
  BY CompareTyped DEF Comparers
<1>2. ASSUME NEW g, NEW h, NEW e \in Values, \A w \in Values : Depth[w] < Depth[e] => g[w] = h[w]
      PROVE  step(g)[e] = step(h)[e]
  <2>1. \A a \in Actuals : Compare(g, a, e, exact, params) = Compare(h, a, e, exact, params)
    BY <1>2, CompareLocal
  <2> QED BY <2>1
<1>3. F \in [Comparers -> Comparers]
  BY <1>1
<1>4. Depth \in [Values -> Nat]
  BY StringsAndValues DEF ValuesAssumption
<1> HIDE DEF F
<1>5. IsLocal(F, Values, [Actuals -> Verdicts], Depth)
  <2>1. ASSUME NEW g \in Comparers, NEW h \in Comparers, NEW e \in Values,
               \A w \in Values : Depth[w] < Depth[e] => g[w] = h[w]
        PROVE  F[g][e] = F[h][e]
    <3>1. step(g)[e] = step(h)[e]
      <4> HIDE DEF step
      <4> QED BY <1>2, <2>1
    <3>2. F[g] = step(g) /\ F[h] = step(h)
      BY <1>1
    <3> HIDE DEF step
    <3> QED BY <3>1, <3>2
  <2> QED BY <1>3, <1>4, <2>1 DEF IsLocal, Comparers
<1>6. [Actuals -> Verdicts] # {}
  <2>1. [a \in Actuals |-> "true"] \in [Actuals -> Verdicts]
    BY DEF Verdicts
  <2> QED BY <2>1
<1>7. PICK f \in Comparers : f = F[f]
  BY <1>5, <1>6, RankRecursion DEF Comparers
<1>8. f = step(f)
  BY <1>1, <1>7
<1>9. it = step(it)
  <2>1. it = CHOOSE g : g = step(g)
    BY DEF Comparison
  <2> HIDE DEF step, it
  <2> QED BY <1>8, <2>1
<1>10. it = f
  <2> DEFINE T == {e \in Values : it[e] = f[e]}
  <2>1. ASSUME NEW e \in Values, \A w \in Values : Depth[w] < Depth[e] => w \in T PROVE e \in T
    <3>1. step(it)[e] = step(f)[e]
      <4> HIDE DEF step, it
      <4> QED BY <1>2, <2>1
    <3> HIDE DEF step, it
    <3> QED BY <1>8, <1>9, <3>1
  <2> HIDE DEF T
  <2>2. Values \subseteq T
    BY <1>4, <2>1, RankInduction
  <2>3. \A e \in Values : step(it)[e] = step(f)[e]
    <3> HIDE DEF step, it
    <3> QED BY <1>8, <1>9, <2>2 DEF T
  <2>4. step(it) = step(f)
    BY <2>3
  <2> HIDE DEF step, it
  <2> QED BY <1>8, <1>9, <2>4
<1>11. it \in Comparers
  BY <1>7, <1>10
<1>12. \A e \in Values, a \in Actuals : step(it)[e][a] = Compare(it, a, e, exact, params)
  <2> HIDE DEF it
  <2> QED OBVIOUS
<1> HIDE DEF step
<1> QED BY <1>9, <1>11, <1>12

-----------------------------------------------------------------------------
(* One leaf predicate: its details are verdicts, one per clause.           *)

LEMMA InsideTyped ==
  ASSUME NEW v \in Actuals, NEW segment PROVE Inside(v, segment) \in Actuals
<1>1. CASE segment.type = "index" /\ v.type = "array"
  <2>1. \A k \in DOMAIN v.items : v.items[k] \in Values
    BY <1>1, ArrayItems
  <2> QED BY <1>1, <2>1 DEF Inside, Actuals
<1>2. CASE segment.type = "key" /\ v.type = "object"
  <2>1. FindKey(v.entries, segment.name, [keyCaseSensitive |-> TRUE]) \in Actuals
    BY <1>2, ObjectEntries, FindKeyIs
  <2> QED BY <1>2, <2>1 DEF Inside
<1>3. CASE ~(segment.type = "index" /\ v.type = "array") /\ ~(segment.type = "key" /\ v.type = "object")
  BY <1>3 DEF Inside, Actuals
<1> QED BY <1>1, <1>2, <1>3

\* A path leads to a JSON value, or to none.
LEMMA ApplyJsonPathTyped ==
  ASSUME NEW segments \in Seq(Segments), NEW v \in Actuals
  PROVE  ApplyJsonPath(segments, v) \in Actuals
<1> DEFINE N       == Len(segments)
           step(g) == [n \in 0..N |-> IF n = 0 THEN v ELSE Inside(g[n - 1], segments[n])]
           next    == [w \in Actuals |-> [n \in 1..N |-> Inside(w, segments[n])]]
<1>1. N \in Nat
  OBVIOUS
<1>2. next \in [Actuals -> [1..N -> Actuals]]
  BY InsideTyped
<1>3. PICK f : Iterates(f, N, Actuals, v, next)
  <2> HIDE DEF N, next
  <2> QED BY <1>1, <1>2, Iteration
<1>4. \A n \in 0..N : f[n] = step(f)[n]
  <2> SUFFICES ASSUME NEW n \in 0..N, n # 0 PROVE f[n] = Inside(f[n - 1], segments[n])
    BY <1>3 DEF Iterates
  <2>1. n \in 1..N /\ n - 1 \in 0..N
    BY <1>1
  <2>2. f[n - 1] \in Actuals
    BY <1>3, <2>1 DEF Iterates
  <2> QED BY <1>3, <2>1, <2>2 DEF Iterates
<1>5. f = step(f)
  BY <1>3, <1>4 DEF Iterates
<1> DEFINE it == CHOOSE g : g = step(g)
<1>6. it = step(it)
  <2> HIDE DEF step
  <2> QED BY <1>5
<1> HIDE DEF it
<1>7. it[0] = v /\ \A n \in Nat : n + 1 <= N => it[n + 1] = Inside(it[n], segments[n + 1])
  <2>1. ASSUME NEW n \in Nat, n + 1 <= N PROVE it[n + 1] = Inside(it[n], segments[n + 1])
    <3>1. n + 1 \in 0..N /\ n + 1 # 0 /\ (n + 1) - 1 = n
      BY <1>1, <2>1
    <3>2. step(it)[n + 1] = Inside(it[n], segments[n + 1])
      BY <3>1
    <3> HIDE DEF step
    <3> QED BY <1>6, <3>2
  <2>2. step(it)[0] = v
    BY <1>1
  <2> HIDE DEF step
  <2> QED BY <1>6, <2>1, <2>2
<1> DEFINE T == {n \in Nat : n <= N => it[n] \in Actuals}
<1>8. 0 \in T
  BY <1>7
<1>9. ASSUME NEW n \in Nat, n \in T PROVE n + 1 \in T
  BY <1>1, <1>7, <1>9, InsideTyped
<1>10. Nat \subseteq T
  <2> HIDE DEF T
  <2> QED BY <1>8, <1>9, SimpleInduction
<1>11. it[N] \in Actuals
  BY <1>1, <1>10
<1>12. ApplyJsonPath(segments, v) = it[N]
  BY DEF ApplyJsonPath, it
<1> QED BY <1>11, <1>12

LEMMA RecordedJournaled ==
  ASSUME NEW request \in Recorded
  PROVE  /\ Str(request.path) \in Actuals
         /\ request.headers \in Seq(Strings \X Values)
         /\ request.body \in Actuals
         /\ request.time \in Nat
<1>1. PICK r \in Requests, time \in Times : request = Stamped(r, time)
  BY DEF Recorded
<1>2. /\ request.path = r.path /\ request.headers = r.headers
      /\ request.body = r.body /\ request.time = time
  BY <1>1 DEF Stamped
<1> QED BY <1>2, InUse DEF RequestsAssumption, Actuals

LEMMA LookupActualTyped ==
  ASSUME NEW request \in Recorded, NEW clause, NEW params
  PROVE  LookupActual(clause, request, params) \in Actuals
<1>1. CASE clause.field = "path"
  BY <1>1, RecordedJournaled DEF LookupActual
<1>2. CASE clause.field = "body"
  BY <1>2, RecordedJournaled DEF LookupActual
<1>3. CASE clause.field \notin {"path", "body"}
  <2>1. FindKey(request.headers, clause.key, params) \in Actuals
    BY RecordedJournaled, FindKeyIs
  <2> QED BY <1>3, <2>1 DEF LookupActual
<1> QED BY <1>1, <1>2, <1>3

LEMMA EvalFieldTyped ==
  ASSUME NEW request \in Recorded, NEW operator, NEW clause, clause.expected \in Values,
         NEW params, params.jsonpath \in Seq(Segments)
  PROVE  EvalField(operator, clause, request, params) \in Verdicts
<1> DEFINE raw    == LookupActual(clause, request, params)
           actual == IF params.jsonpath = <<>> THEN raw ELSE ApplyJsonPath(params.jsonpath, raw)
           compared(v) == StringCompare(operator, ToStr(v), ToStr(clause.expected), params)
<1>1. actual \in Actuals
  BY LookupActualTyped, ApplyJsonPathTyped
<1>2. CompareBody(actual, clause.expected, operator = "deepEquals", params) \in Verdicts
  <2> HIDE DEF actual
  <2>1. Comparison(operator = "deepEquals", params) \in Comparers
    BY ComparisonIs
  <2> QED BY <1>1, <2>1 DEF CompareBody, Comparers
<1>3. \A v : compared(v) \in Verdicts
  BY StringCompareTyped
<1>4. ASSUME actual.type = "array"
      PROVE  Some([k \in DOMAIN actual.items |-> compared(actual.items[k])]) \in Verdicts
  <2> DEFINE s == [k \in DOMAIN actual.items |-> compared(actual.items[k])]
  <2>1. DOMAIN s \subseteq Nat
    BY <1>1, <1>4, ArrayItems
  <2>2. \A k \in DOMAIN s : s[k] \in Verdicts
    <3> HIDE DEF actual, compared
    <3> QED BY <1>3
  <2>3. Some(s) \in Verdicts
    <3> HIDE DEF s
    <3> QED BY <2>1, <2>2, SomeIs
  <2> QED BY <2>3
<1>5. "threw" \in Verdicts
  BY DEF Verdicts
<1>6. \/ EvalField(operator, clause, request, params) = "threw"
      \/ EvalField(operator, clause, request, params)
           = CompareBody(actual, clause.expected, operator = "deepEquals", params)
      \/ actual.type = "array" /\ EvalField(operator, clause, request, params)
           = Some([k \in DOMAIN actual.items |-> compared(actual.items[k])])
      \/ EvalField(operator, clause, request, params) = compared(actual)
  BY DEF EvalField
<1> HIDE DEF actual, compared
<1> QED BY <1>2, <1>3, <1>4, <1>5, <1>6

LEMMA EvalLeafTyped ==
  ASSUME NEW request \in Recorded, NEW leaf \in Leaves
  PROVE  EvalLeaf(leaf, request) \in Seq(Verdicts)
<1>1. /\ leaf.clauses \in Seq([field : Fields \cup {"unknown"}, key : Strings, expected : Values])
      /\ leaf.params.jsonpath \in Seq(Segments)
  BY InUse DEF LeavesAssumption
<1>2. DOMAIN leaf.clauses = 1..Len(leaf.clauses) /\ Len(leaf.clauses) \in Nat
  BY <1>1
<1>3. \A k \in DOMAIN leaf.clauses : leaf.clauses[k].expected \in Values
  <2> DEFINE Clauses == [field : Fields \cup {"unknown"}, key : Strings, expected : Values]
  <2>1. \A k \in DOMAIN leaf.clauses : leaf.clauses[k] \in Clauses
    <3>1. leaf.clauses \in Seq(Clauses)
      BY <1>1
    <3> HIDE DEF Clauses
    <3> QED BY <3>1, ElementOf
  <2> QED BY <2>1
<1>4. \A k \in DOMAIN leaf.clauses : EvalExists(leaf.clauses[k], request) \in Verdicts
  BY VerdictTyped DEF EvalExists, Verdicts
<1>5. \A k \in DOMAIN leaf.clauses :
        EvalField(leaf.operator, leaf.clauses[k], request, leaf.params) \in Verdicts
  BY <1>1, <1>3, EvalFieldTyped
<1>6. CASE leaf.operator \in {"inject", "xpath", "unknown", "modifiers only"}
  <2>1. <<"threw">> \in Seq(Verdicts)
    BY DEF Verdicts
  <2> QED BY <1>6, <2>1 DEF EvalLeaf
<1>7. CASE leaf.operator = "exists"
  <2>1. [k \in DOMAIN leaf.clauses |-> EvalExists(leaf.clauses[k], request)] \in Seq(Verdicts)
    BY <1>2, <1>4
  <2> QED BY <1>7, <2>1 DEF EvalLeaf
<1>8. CASE leaf.operator \notin {"inject", "xpath", "unknown", "modifiers only", "exists"}
  <2>1. [k \in DOMAIN leaf.clauses |->
           EvalField(leaf.operator, leaf.clauses[k], request, leaf.params)] \in Seq(Verdicts)
    BY <1>2, <1>5
  <2> QED BY <1>8, <2>1 DEF EvalLeaf
<1> QED BY <1>6, <1>7, <1>8

-----------------------------------------------------------------------------
(* evalPredicate.                                                          *)

LEMMA PredicateParts ==
  ASSUME NEW p \in Predicates
  PROVE  /\ Height \in [Predicates -> Nat]
         /\ p.kind \in {"and", "or", "not", "leaf"}
         /\ Len(p.parts) \in Nat /\ DOMAIN p.parts = 1..Len(p.parts)
         /\ \A k \in DOMAIN p.parts : p.parts[k] \in Predicates /\ Height[p.parts[k]] < Height[p]
         /\ p.kind = "not" => 1 \in DOMAIN p.parts
         /\ p.kind = "leaf" => p.leaf \in Leaves
<1>1. /\ Height \in [Predicates -> Nat]
      /\ p.kind \in {"and", "or", "not", "leaf"}
      /\ p.parts \in Seq(Predicates)
      /\ \A k \in DOMAIN p.parts : Height[p.parts[k]] < Height[p]
      /\ p.kind = "not" => Len(p.parts) = 1
      /\ p.kind = "leaf" => p.leaf \in Leaves
  BY InUse DEF PredicatesAssumption
<1>2. Len(p.parts) \in Nat /\ DOMAIN p.parts = 1..Len(p.parts)
         /\ \A k \in DOMAIN p.parts : p.parts[k] \in Predicates
  BY <1>1, ElementOf
<1>3. ASSUME p.kind = "not" PROVE 1 \in DOMAIN p.parts
  <2>1. Len(p.parts) = 1
    BY <1>1, <1>3
  <2>2. DOMAIN p.parts = 1..1
    BY <1>2, <2>1
  <2> QED BY <2>2
<1> QED BY <1>1, <1>2, <1>3

LEMMA CombinedTyped ==
  ASSUME NEW request \in Recorded, NEW g \in [Predicates -> Verdicts], NEW p \in Predicates
  PROVE  Combined(g, p, request) \in Verdicts
<1> DEFINE parts   == [k \in DOMAIN p.parts |-> g[p.parts[k]]]
           details == EvalLeaf(p.leaf, request)
<1>1. DOMAIN parts \subseteq Nat /\ \A k \in DOMAIN parts : parts[k] \in Verdicts
  BY PredicateParts
<1>2. Every(parts) \in Verdicts /\ Some(parts) \in Verdicts
  <2> HIDE DEF parts
  <2> QED BY <1>1, EveryIs, SomeIs
<1>3. Negation(parts[1]) \in Verdicts
  BY DEF Negation, Verdicts
<1>4. p.kind = "leaf" => Every(details) \in Verdicts
  <2> SUFFICES ASSUME p.kind = "leaf" PROVE Every(details) \in Verdicts
    OBVIOUS
  <2>1. details \in Seq(Verdicts)
    BY PredicateParts, EvalLeafTyped
  <2> HIDE DEF details
  <2>2. DOMAIN details \subseteq Nat /\ \A k \in DOMAIN details : details[k] \in Verdicts
    BY <2>1, ElementOf
  <2> QED BY <2>2, EveryIs
<1>5. "threw" \in Verdicts /\ p.kind \in {"and", "or", "not", "leaf"}
  BY PredicateParts DEF Verdicts
<1>6. Combined(g, p, request) =
        CASE p.kind = "and" -> Every(parts)
          [] p.kind = "or" -> Some(parts)
          [] p.kind = "not" -> Negation(parts[1])
          [] OTHER -> IF Mapped(details) THEN Every(details) ELSE "threw"
  BY DEF Combined
<1> HIDE DEF parts, details
<1> QED BY <1>2, <1>3, <1>4, <1>5, <1>6

LEMMA CombinedLocal ==
  ASSUME NEW request, NEW g, NEW h, NEW p \in Predicates,
         \A q \in Predicates : Height[q] < Height[p] => g[q] = h[q]
  PROVE  Combined(g, p, request) = Combined(h, p, request)
<1>1. [k \in DOMAIN p.parts |-> g[p.parts[k]]] = [k \in DOMAIN p.parts |-> h[p.parts[k]]]
  BY PredicateParts
<1> QED BY <1>1 DEF Combined

\* The evaluation of predicates is what its equation says.
LEMMA EvaluationIs ==
  ASSUME NEW request \in Recorded
  PROVE  /\ Evaluation(request) \in [Predicates -> Verdicts]
         /\ \A p \in Predicates : Evaluation(request)[p] = Combined(Evaluation(request), p, request)
<1> DEFINE Evals   == [Predicates -> Verdicts]
           step(g) == [p \in Predicates |-> Combined(g, p, request)]
           F       == [g \in Evals |-> step(g)]
           it      == Evaluation(request)
<1>1. \A g \in Evals : F[g] = step(g) /\ step(g) \in Evals
  BY CombinedTyped
<1>2. ASSUME NEW g, NEW h, NEW p \in Predicates,
             \A q \in Predicates : Height[q] < Height[p] => g[q] = h[q]
      PROVE  step(g)[p] = step(h)[p]
  BY <1>2, CombinedLocal
<1>3. F \in [Evals -> Evals]
  BY <1>1
<1>4. Height \in [Predicates -> Nat]
  BY InUse DEF PredicatesAssumption
<1> HIDE DEF F
<1>5. IsLocal(F, Predicates, Verdicts, Height)
  <2>1. ASSUME NEW g \in Evals, NEW h \in Evals, NEW p \in Predicates,
               \A q \in Predicates : Height[q] < Height[p] => g[q] = h[q]
        PROVE  F[g][p] = F[h][p]
    <3>1. step(g)[p] = step(h)[p]
      <4> HIDE DEF step
      <4> QED BY <1>2, <2>1
    <3>2. F[g] = step(g) /\ F[h] = step(h)
      BY <1>1
    <3> HIDE DEF step
    <3> QED BY <3>1, <3>2
  <2> QED BY <1>3, <1>4, <2>1 DEF IsLocal
<1>6. PICK f \in Evals : f = F[f]
  <2>1. Verdicts # {}
    BY DEF Verdicts
  <2> QED BY <1>5, <2>1, RankRecursion
<1>7. f = step(f)
  BY <1>1, <1>6
<1>8. it = step(it)
  <2>1. it = CHOOSE g : g = step(g)
    BY DEF Evaluation
  <2> HIDE DEF step, it
  <2> QED BY <1>7, <2>1
<1>9. \A p \in Predicates : it[p] = f[p]
  <2> DEFINE T == {p \in Predicates : it[p] = f[p]}
  <2>1. ASSUME NEW p \in Predicates, \A q \in Predicates : Height[q] < Height[p] => q \in T PROVE p \in T
    <3>1. step(it)[p] = step(f)[p]
      <4> HIDE DEF step, it
      <4> QED BY <1>2, <2>1
    <3> HIDE DEF step, it
    <3> QED BY <1>7, <1>8, <3>1
  <2> HIDE DEF T
  <2>2. Predicates \subseteq T
    BY <1>4, <2>1, RankInduction
  <2> QED BY <2>2 DEF T
<1>10. it \in Evals
  <2>1. \A p \in Predicates : it[p] \in Verdicts
    BY <1>6, <1>9
  <2>2. \A p \in Predicates : step(it)[p] = it[p]
    <3> HIDE DEF step, it
    <3> QED BY <1>8
  <2>3. step(it) \in Evals
    <3> HIDE DEF it
    <3> QED BY <2>1, <2>2
  <2> HIDE DEF step, it
  <2> QED BY <1>8, <2>3
<1>11. \A p \in Predicates : step(it)[p] = Combined(it, p, request)
  <2> HIDE DEF it
  <2> QED OBVIOUS
<1> HIDE DEF step
<1> QED BY <1>8, <1>10, <1>11

-----------------------------------------------------------------------------
(* What a verdict means.                                                   *)

Meanings == SUBSET {"true", "false"}

\* What a leaf says of a request.
LeafMeans(details, v) ==
  Mapped(details) /\ v = Verdict(~(\E k \in DOMAIN details : details[k] = "false"))

LEMMA MeaningIs ==
  ASSUME NEW request, NEW h, NEW p \in Predicates, NEW v \in {"true", "false"}
  PROVE  /\ p.kind = "not" =>
              (v \in Meaning(h, p, request) <=> Negation(v) \in h[p.parts[1]])
         /\ p.kind = "leaf" =>
              (v \in Meaning(h, p, request) <=> LeafMeans(EvalLeaf(p.leaf, request), v))
         /\ <<p.kind, v>> \in {<<"and", "true">>, <<"or", "false">>} =>
              (v \in Meaning(h, p, request) <=> \A k \in DOMAIN p.parts : v \in h[p.parts[k]])
         /\ <<p.kind, v>> \in {<<"and", "false">>, <<"or", "true">>} =>
              (v \in Meaning(h, p, request) <=> \E k \in DOMAIN p.parts : v \in h[p.parts[k]])
<1>1. CASE p.kind = "not"
  BY <1>1 DEF Meaning
<1>2. CASE p.kind = "leaf"
  BY <1>2 DEF Meaning, LeafMeans
<1>3. CASE p.kind = "and"
  BY <1>3 DEF Meaning
<1>4. CASE p.kind = "or"
  BY <1>4 DEF Meaning
<1>5. p.kind \in {"and", "or", "not", "leaf"}
  BY PredicateParts
<1> QED BY <1>1, <1>2, <1>3, <1>4, <1>5

LEMMA MeaningLocal ==
  ASSUME NEW request, NEW g, NEW h, NEW p \in Predicates,
         \A q \in Predicates : Height[q] < Height[p] => g[q] = h[q]
  PROVE  Meaning(g, p, request) = Meaning(h, p, request)
<1>1. \A k \in DOMAIN p.parts : g[p.parts[k]] = h[p.parts[k]]
  BY PredicateParts
<1>2. p.kind = "not" => g[p.parts[1]] = h[p.parts[1]]
  BY <1>1, PredicateParts
<1> QED BY <1>1, <1>2 DEF Meaning

\* The meaning of predicates is what its equation says.
LEMMA TruthIs ==
  ASSUME NEW request
  PROVE  \A p \in Predicates : Truth(request)[p] = Meaning(Truth(request), p, request)
<1> DEFINE All     == [Predicates -> Meanings]
           step(g) == [p \in Predicates |-> Meaning(g, p, request)]
           F       == [g \in All |-> step(g)]
           it      == Truth(request)
<1>1. \A g \in All : F[g] = step(g) /\ step(g) \in All
  BY DEF Meaning, Meanings
<1>2. F \in [All -> All]
  BY <1>1
<1>3. IsLocal(F, Predicates, Meanings, Height)
  <2>1. Height \in [Predicates -> Nat]
    BY InUse DEF PredicatesAssumption
  <2>2. ASSUME NEW g \in All, NEW h \in All, NEW p \in Predicates,
               \A q \in Predicates : Height[q] < Height[p] => g[q] = h[q]
        PROVE  F[g][p] = F[h][p]
    <3>1. step(g)[p] = step(h)[p]
      BY <2>2, MeaningLocal
    <3>2. F[g] = step(g) /\ F[h] = step(h)
      BY <1>1
    <3> HIDE DEF step, F
    <3> QED BY <3>1, <3>2
  <2> HIDE DEF F
  <2> QED BY <1>2, <2>1, <2>2 DEF IsLocal
<1> HIDE DEF F
<1>4. PICK f \in All : f = F[f]
  <2>1. Meanings # {}
    BY DEF Meanings
  <2> QED BY <1>3, <2>1, RankRecursion
<1>5. f = step(f)
  BY <1>1, <1>4
<1>6. it = step(it)
  <2>1. it = CHOOSE g : g = step(g)
    BY DEF Truth
  <2> HIDE DEF step, it
  <2> QED BY <1>5, <2>1
<1>7. \A p \in Predicates : step(it)[p] = Meaning(it, p, request)
  <2> HIDE DEF it
  <2> QED OBVIOUS
<1> HIDE DEF step
<1> QED BY <1>6, <1>7

\* A predicate that evaluates to true holds and does not fail, one that evaluates
\* to false fails and does not hold.
LEMMA EvaluationIsTruth ==
  ASSUME NEW request \in Recorded, NEW p \in Predicates, NEW v \in {"true", "false"}
  PROVE  Evaluation(request)[p] # "threw" =>
           (v \in Truth(request)[p] <=> v = Evaluation(request)[p])
<1> DEFINE T == {q \in Predicates : \A w \in {"true", "false"} :
                   Evaluation(request)[q] # "threw" =>
                     (w \in Truth(request)[q] <=> w = Evaluation(request)[q])}
<1> DEFINE eval  == Evaluation(request)
           truth == Truth(request)
<1>1. ASSUME NEW q \in Predicates, \A x \in Predicates : Height[x] < Height[q] => x \in T,
             NEW w \in {"true", "false"}, eval[q] # "threw"
      PROVE  w \in truth[q] <=> w = eval[q]
  <2> DEFINE parts   == [k \in DOMAIN q.parts |-> eval[q.parts[k]]]
             details == EvalLeaf(q.leaf, request)
  <2>1. /\ truth[q] = Meaning(truth, q, request)
        /\ eval[q] = Combined(eval, q, request)
        /\ eval[q] \in Verdicts
        /\ q.kind \in {"and", "or", "not", "leaf"}
    BY TruthIs, EvaluationIs, PredicateParts
  <2>2. ASSUME NEW k \in DOMAIN q.parts, NEW u \in {"true", "false"}, eval[q.parts[k]] # "threw"
        PROVE  u \in truth[q.parts[k]] <=> u = eval[q.parts[k]]
    BY <1>1, <2>2, PredicateParts
  <2>3. DOMAIN parts \subseteq Nat /\ DOMAIN parts = DOMAIN q.parts
          /\ \A k \in DOMAIN parts : parts[k] = eval[q.parts[k]] /\ parts[k] \in Verdicts
    BY PredicateParts, EvaluationIs
  <2>4. CASE q.kind = "not"
    <3>1. 1 \in DOMAIN q.parts /\ eval[q] = Negation(eval[q.parts[1]])
      BY <2>1, <2>4, PredicateParts DEF Combined
    <3>2. w \in truth[q] <=> Negation(w) \in truth[q.parts[1]]
      BY <2>1, <2>4, MeaningIs
    <3> HIDE DEF eval, truth
    <3>3. Negation(w) \in {"true", "false"} /\ eval[q.parts[1]] # "threw"
      BY <1>1, <3>1 DEF Negation
    <3>4. eval[q.parts[1]] \in Verdicts
      BY <2>3, <3>1
    <3>5. Negation(w) \in truth[q.parts[1]] <=> Negation(w) = eval[q.parts[1]]
      BY <2>2, <3>1, <3>3
    <3> QED BY <3>1, <3>2, <3>3, <3>4, <3>5 DEF Negation, Verdicts
  <2>5. CASE q.kind = "leaf"
    <3>1. details \in Seq(Verdicts)
      BY <2>5, PredicateParts, EvalLeafTyped
    <3>2. eval[q] = IF Mapped(details) THEN Every(details) ELSE "threw"
      BY <2>1, <2>5 DEF Combined
    <3>3. w \in truth[q] <=> LeafMeans(details, w)
      BY <2>1, <2>5, MeaningIs
    <3> HIDE DEF eval, truth, details
    <3>4. DOMAIN details \subseteq Nat /\ \A k \in DOMAIN details : details[k] \in Verdicts
      BY <3>1, ElementOf
    <3>5. Mapped(details) /\ eval[q] = Every(details)
      BY <1>1, <3>2
    <3>6. (Every(details) = "true" /\ \A k \in DOMAIN details : details[k] = "true")
            \/ (Every(details) = "false" /\ \E k \in DOMAIN details : details[k] = "false")
      BY <3>4, <3>5, EveryIs DEF Mapped, Verdicts
    <3> QED BY <3>3, <3>5, <3>6 DEF LeafMeans, Verdict
  <2>6. CASE q.kind = "and"
    <3>1. eval[q] = Every(parts)
      BY <2>1, <2>6 DEF Combined
    <3>2. /\ w = "true" => (w \in truth[q] <=> \A k \in DOMAIN q.parts : w \in truth[q.parts[k]])
          /\ w = "false" => (w \in truth[q] <=> \E k \in DOMAIN q.parts : w \in truth[q.parts[k]])
      BY <2>1, <2>6, MeaningIs
    <3> HIDE DEF eval, truth, parts
    <3>3. CASE eval[q] = "true"
      <4>1. \A k \in DOMAIN parts : parts[k] = "true"
        BY <2>3, <3>1, <3>3, EveryIs
      <4>2. \A k \in DOMAIN q.parts : eval[q.parts[k]] = "true"
        BY <2>3, <4>1
      <4> QED BY <2>2, <3>2, <3>3, <4>2
    <3>4. CASE eval[q] = "false"
      <4>1. \E k \in DOMAIN parts : parts[k] = "false"
        BY <2>3, <3>1, <3>4, EveryIs
      <4>2. \E k \in DOMAIN q.parts : eval[q.parts[k]] = "false"
        BY <2>3, <4>1
      <4> QED BY <2>2, <3>2, <3>4, <4>2
    <3> QED BY <1>1, <2>1, <3>3, <3>4 DEF Verdicts
  <2>7. CASE q.kind = "or"
    <3>1. eval[q] = Some(parts)
      BY <2>1, <2>7 DEF Combined
    <3>2. /\ w = "false" => (w \in truth[q] <=> \A k \in DOMAIN q.parts : w \in truth[q.parts[k]])
          /\ w = "true" => (w \in truth[q] <=> \E k \in DOMAIN q.parts : w \in truth[q.parts[k]])
      BY <2>1, <2>7, MeaningIs
    <3> HIDE DEF eval, truth, parts
    <3>3. CASE eval[q] = "false"
      <4>1. \A k \in DOMAIN parts : parts[k] = "false"
        BY <2>3, <3>1, <3>3, SomeIs
      <4>2. \A k \in DOMAIN q.parts : eval[q.parts[k]] = "false"
        BY <2>3, <4>1
      <4> QED BY <2>2, <3>2, <3>3, <4>2
    <3>4. CASE eval[q] = "true"
      <4>1. \E k \in DOMAIN parts : parts[k] = "true"
        BY <2>3, <3>1, <3>4, SomeIs
      <4>2. \E k \in DOMAIN q.parts : eval[q.parts[k]] = "true"
        BY <2>3, <4>1
      <4> QED BY <2>2, <3>2, <3>4, <4>2
    <3> QED BY <1>1, <2>1, <3>3, <3>4 DEF Verdicts
  <2> QED BY <2>1, <2>4, <2>5, <2>6, <2>7
<1>2. Height \in [Predicates -> Nat]
  BY PredicateParts, InUse DEF PredicatesAssumption
<1>3. Predicates \subseteq T
  <2>1. ASSUME NEW q \in Predicates, \A x \in Predicates : Height[x] < Height[q] => x \in T PROVE q \in T
    BY <1>1, <2>1
  <2> HIDE DEF T
  <2> QED BY <1>2, <2>1, RankInduction
<1> QED BY <1>3

-----------------------------------------------------------------------------
(* Flattening.                                                             *)

\* The flattened prefixes of a sequence of sequences.
Accumulates(f, seqs, V) ==
  /\ f \in [0..Len(seqs) -> Seq(V)]
  /\ f[0] = <<>>
  /\ \A n \in 1..Len(seqs) : f[n] = f[n - 1] \o seqs[n]

LEMMA FlattenSeqIs ==
  ASSUME NEW V, NEW seqs \in Seq(Seq(V))
  PROVE  \E f : Accumulates(f, seqs, V) /\ f[Len(seqs)] = FlattenSeq(seqs)
<1> DEFINE N       == Len(seqs)
           next    == [w \in Seq(V) |-> [n \in 1..N |-> w \o seqs[n]]]
           step(g) == [i \in 1..N |-> IF i = 1 THEN seqs[i] ELSE g[i - 1] \o seqs[i]]
           it      == CHOOSE g : g = step(g)
<1>1. N \in Nat /\ DOMAIN seqs = 1..N /\ \A n \in 1..N : seqs[n] \in Seq(V)
  OBVIOUS
<1>2. next \in [Seq(V) -> [1..N -> Seq(V)]]
  BY <1>1
<1>3. <<>> \in Seq(V)
  OBVIOUS
<1>4. PICK f : Iterates(f, N, Seq(V), <<>>, next)
  <2> HIDE DEF N, next
  <2> QED BY <1>1, <1>2, <1>3, Iteration
<1>5. Accumulates(f, seqs, V)
  <2>1. f \in [0..N -> Seq(V)] /\ f[0] = <<>>
    BY <1>4 DEF Iterates
  <2>2. ASSUME NEW n \in 1..N PROVE f[n] = f[n - 1] \o seqs[n]
    <3>1. n - 1 \in 0..N
      BY <1>1
    <3>2. f[n - 1] \in Seq(V)
      BY <2>1, <3>1
    <3>3. next[f[n - 1]][n] = f[n - 1] \o seqs[n]
      BY <3>2
    <3> QED BY <1>4, <3>3 DEF Iterates
  <2> QED BY <2>1, <2>2 DEF Accumulates
<1>6. CASE N = 0
  <2>1. seqs = <<>>
    BY <1>1, <1>6
  <2> QED BY <1>5, <1>6, <2>1 DEF Accumulates, FlattenSeq
<1>7. CASE N # 0
  <2> DEFINE g == [i \in 1..N |-> f[i]]
  <2>1. f[1] = seqs[1]
    <3>1. 1 \in 1..N /\ 1 - 1 = 0
      BY <1>1, <1>7
    <3>2. f[1] = <<>> \o seqs[1]
      BY <1>5, <3>1 DEF Accumulates
    <3>3. seqs[1] \in Seq(V)
      BY <1>1, <3>1
    <3>4. <<>> \o seqs[1] = seqs[1]
      BY <3>3
    <3> QED BY <3>2, <3>4
  <2>2. g = step(g)
    <3>1. ASSUME NEW i \in 1..N PROVE g[i] = step(g)[i]
      <4>1. CASE i = 1
        BY <2>1, <4>1
      <4>2. CASE i # 1
        <5>1. i - 1 \in 1..N
          BY <1>1, <4>2
        <5>2. g[i - 1] = f[i - 1] /\ g[i] = f[i]
          BY <5>1
        <5>3. step(g)[i] = g[i - 1] \o seqs[i]
          BY <4>2
        <5>4. f[i] = f[i - 1] \o seqs[i]
          BY <1>5 DEF Accumulates
        <5> QED BY <5>2, <5>3, <5>4
      <4> QED BY <4>1, <4>2
    <3> QED BY <3>1
  <2>3. it = step(it)
    <3> HIDE DEF step, g
    <3> QED BY <2>2
  <2>4. FlattenSeq(seqs) = it[N]
    BY <1>1, <1>7 DEF FlattenSeq
  <2> HIDE DEF it
  <2>5. /\ it[1] = seqs[1]
        /\ \A n \in Nat : n # 0 /\ n + 1 <= N => it[n + 1] = it[n] \o seqs[n + 1]
    <3>1. ASSUME NEW n \in Nat, n # 0, n + 1 <= N PROVE it[n + 1] = it[n] \o seqs[n + 1]
      <4>1. n + 1 \in 1..N /\ n + 1 # 1 /\ (n + 1) - 1 = n
        BY <1>1, <3>1
      <4>2. step(it)[n + 1] = it[n] \o seqs[n + 1]
        BY <4>1
      <4> HIDE DEF step
      <4> QED BY <2>3, <4>2
    <3>2. step(it)[1] = seqs[1]
      BY <1>1, <1>7
    <3> HIDE DEF step
    <3> QED BY <2>3, <3>1, <3>2
  <2> DEFINE T == {n \in Nat : n # 0 /\ n <= N => it[n] = f[n]}
  <2>6. ASSUME NEW n \in Nat, n \in T PROVE n + 1 \in T
    <3> SUFFICES ASSUME n + 1 <= N PROVE it[n + 1] = f[n + 1]
      OBVIOUS
    <3>1. CASE n = 0
      BY <2>1, <2>5, <3>1
    <3>2. CASE n # 0
      <4>1. n + 1 \in 1..N /\ (n + 1) - 1 = n
        BY <1>1
      <4>2. f[n + 1] = f[n] \o seqs[n + 1]
        BY <1>5, <4>1 DEF Accumulates
      <4>3. it[n] = f[n]
        BY <1>1, <2>6, <3>2, <4>1
      <4> QED BY <2>5, <3>2, <4>2, <4>3
    <3> QED BY <3>1, <3>2
  <2>7. 0 \in T
    OBVIOUS
  <2>8. Nat \subseteq T
    <3> HIDE DEF T
    <3> QED BY <2>6, <2>7, SimpleInduction
  <2>9. it[N] = f[N]
    BY <1>1, <1>7, <2>8
  <2> QED BY <1>5, <2>4, <2>9
<1> QED BY <1>6, <1>7

\* Whether a sequence has the element v.
IsIn(v, s) == \E i \in DOMAIN s : s[i] = v

\* The elements of a flattened sequence are those of its parts.
LEMMA Flattened ==
  ASSUME NEW V, NEW seqs \in Seq(Seq(V))
  PROVE  /\ FlattenSeq(seqs) \in Seq(V)
         /\ \A v : IsIn(v, FlattenSeq(seqs)) <=> \E k \in DOMAIN seqs : IsIn(v, seqs[k])
<1>1. PICK f : Accumulates(f, seqs, V) /\ f[Len(seqs)] = FlattenSeq(seqs)
  BY FlattenSeqIs
<1>2. Len(seqs) \in Nat /\ DOMAIN seqs = 1..Len(seqs) /\ \A n \in 1..Len(seqs) : seqs[n] \in Seq(V)
  OBVIOUS
<1>3. FlattenSeq(seqs) \in Seq(V)
  BY <1>1, <1>2 DEF Accumulates
<1>4. ASSUME NEW v
      PROVE  IsIn(v, FlattenSeq(seqs)) <=> \E k \in DOMAIN seqs : IsIn(v, seqs[k])
  <2> DEFINE T == {n \in Nat : n <= Len(seqs) => (IsIn(v, f[n]) <=> \E k \in 1..n : IsIn(v, seqs[k]))}
  <2>1. 0 \in T
    BY <1>1 DEF Accumulates, IsIn
  <2>2. ASSUME NEW n \in Nat, n \in T PROVE n + 1 \in T
    <3> SUFFICES ASSUME n + 1 <= Len(seqs)
                 PROVE  IsIn(v, f[n + 1]) <=> \E k \in 1..n + 1 : IsIn(v, seqs[k])
      OBVIOUS
    <3>1. n + 1 \in 1..Len(seqs) /\ n \in 0..Len(seqs) /\ (n + 1) - 1 = n
      BY <1>2
    <3>2. f[n + 1] = f[n] \o seqs[n + 1] /\ f[n] \in Seq(V) /\ seqs[n + 1] \in Seq(V)
      BY <1>1, <1>2, <3>1 DEF Accumulates
    <3>3. IsIn(v, f[n] \o seqs[n + 1]) <=> IsIn(v, f[n]) \/ IsIn(v, seqs[n + 1])
      <4> DEFINE s == f[n]
                 t == seqs[n + 1]
      <4>1. s \in Seq(V) /\ t \in Seq(V)
        BY <3>2
      <4> HIDE DEF s, t
      <4>2. /\ Len(s) \in Nat /\ Len(t) \in Nat
            /\ DOMAIN s = 1..Len(s) /\ DOMAIN t = 1..Len(t)
            /\ DOMAIN (s \o t) = 1..(Len(s) + Len(t))
            /\ \A i \in DOMAIN s : (s \o t)[i] = s[i]
        BY <4>1
      <4>3. \A i \in DOMAIN t : i + Len(s) \in DOMAIN (s \o t) /\ (s \o t)[i + Len(s)] = t[i]
        BY <4>1
      <4>4. \A i \in DOMAIN (s \o t) :
              i \in DOMAIN s \/ (i - Len(s) \in DOMAIN t /\ (s \o t)[i] = t[i - Len(s)])
        BY <4>1
      <4>5. ASSUME NEW i \in DOMAIN (s \o t), (s \o t)[i] = v PROVE IsIn(v, s) \/ IsIn(v, t)
        BY <4>2, <4>4, <4>5 DEF IsIn
      <4>6. ASSUME NEW i \in DOMAIN s, s[i] = v PROVE IsIn(v, s \o t)
        BY <4>2, <4>6 DEF IsIn
      <4>7. ASSUME NEW i \in DOMAIN t, t[i] = v PROVE IsIn(v, s \o t)
        BY <4>3, <4>7 DEF IsIn
      <4>8. IsIn(v, s \o t) <=> IsIn(v, s) \/ IsIn(v, t)
        BY <4>5, <4>6, <4>7 DEF IsIn
      <4> QED BY <4>8 DEF s, t
    <3>4. IsIn(v, f[n]) <=> \E k \in 1..n : IsIn(v, seqs[k])
      <4>1. n <= Len(seqs)
        BY <1>2, <3>1
      <4> QED BY <2>2, <4>1
    <3> QED BY <3>1, <3>2, <3>3, <3>4
  <2>3. Nat \subseteq T
    <3> HIDE DEF T
    <3> QED BY <2>1, <2>2, SimpleInduction
  <2>4. IsIn(v, f[Len(seqs)]) <=> \E k \in 1..Len(seqs) : IsIn(v, seqs[k])
    BY <1>2, <2>3
  <2> QED BY <1>1, <1>2, <2>4
<1> QED BY <1>3, <1>4

-----------------------------------------------------------------------------
(* collectLeafDetails.                                                     *)

LEMMA CollectedTyped ==
  ASSUME NEW request \in Recorded, NEW g \in [Predicates -> Seq(Verdicts)], NEW p \in Predicates
  PROVE  Collected(g, p, request) \in Seq(Verdicts)
<1>1. CASE p.kind = "leaf"
  <2>1. EvalLeaf(p.leaf, request) \in Seq(Verdicts)
    BY <1>1, PredicateParts, EvalLeafTyped
  <2> QED BY <1>1, <2>1 DEF Collected
<1>2. CASE p.kind = "not"
  <2>1. EvalPredicate(p, request) \in Verdicts /\ "threw" \in Verdicts
    BY EvaluationIs DEF EvalPredicate, Verdicts
  <2>2. Negated(p, request, g[p.parts[1]]) \in Seq(Verdicts)
    BY <2>1 DEF Negated
  <2> QED BY <1>2, <2>2 DEF Collected
<1>3. CASE p.kind \in {"and", "or"}
  <2> DEFINE parts == [k \in DOMAIN p.parts |-> g[p.parts[k]]]
  <2>1. parts \in Seq(Seq(Verdicts))
    <3> DEFINE S == Seq(Verdicts)
    <3>1. \A k \in DOMAIN p.parts : g[p.parts[k]] \in S
      BY PredicateParts
    <3> HIDE DEF S
    <3>2. PICK n \in Nat : DOMAIN p.parts = 1..n
      BY PredicateParts
    <3>3. parts \in [1..n -> S]
      BY <3>1, <3>2
    <3>4. parts \in Seq(S)
      <4> HIDE DEF parts
      <4> QED BY <3>3
    <3> QED BY <3>4 DEF S
  <2>2. FlattenSeq(parts) \in Seq(Verdicts)
    <3> HIDE DEF parts
    <3> QED BY <2>1, Flattened
  <2>3. Collected(g, p, request) = FlattenSeq(parts)
    BY <1>3 DEF Collected
  <2> QED BY <2>2, <2>3
<1> QED BY <1>1, <1>2, <1>3, PredicateParts

LEMMA CollectedLocal ==
  ASSUME NEW request, NEW g, NEW h, NEW p \in Predicates,
         \A q \in Predicates : Height[q] < Height[p] => g[q] = h[q]
  PROVE  Collected(g, p, request) = Collected(h, p, request)
<1>1. [k \in DOMAIN p.parts |-> g[p.parts[k]]] = [k \in DOMAIN p.parts |-> h[p.parts[k]]]
  BY PredicateParts
<1>2. p.kind = "not" => g[p.parts[1]] = h[p.parts[1]]
  BY PredicateParts
<1> QED BY <1>1, <1>2 DEF Collected

\* The details of predicates are what their equation says.
LEMMA DetailsIs ==
  ASSUME NEW request \in Recorded
  PROVE  /\ Details(request) \in [Predicates -> Seq(Verdicts)]
         /\ \A p \in Predicates : Details(request)[p] = Collected(Details(request), p, request)
<1> DEFINE All     == [Predicates -> Seq(Verdicts)]
           step(g) == [p \in Predicates |-> Collected(g, p, request)]
           F       == [g \in All |-> step(g)]
           it      == Details(request)
<1>1. \A g \in All : F[g] = step(g) /\ step(g) \in All
  BY CollectedTyped
<1>2. F \in [All -> All]
  BY <1>1
<1>3. Height \in [Predicates -> Nat]
  BY InUse DEF PredicatesAssumption
<1> HIDE DEF F
<1>4. IsLocal(F, Predicates, Seq(Verdicts), Height)
  <2>1. ASSUME NEW g \in All, NEW h \in All, NEW p \in Predicates,
               \A q \in Predicates : Height[q] < Height[p] => g[q] = h[q]
        PROVE  F[g][p] = F[h][p]
    <3>1. step(g)[p] = step(h)[p]
      BY <2>1, CollectedLocal
    <3>2. F[g] = step(g) /\ F[h] = step(h)
      BY <1>1
    <3> HIDE DEF step
    <3> QED BY <3>1, <3>2
  <2> QED BY <1>2, <1>3, <2>1 DEF IsLocal
<1>5. PICK f \in All : f = F[f]
  <2>1. Seq(Verdicts) # {}
    <3>1. <<>> \in Seq(Verdicts)
      OBVIOUS
    <3> QED BY <3>1
  <2> QED BY <1>4, <2>1, RankRecursion
<1>6. f = step(f)
  BY <1>1, <1>5
<1>7. it = step(it)
  <2>1. it = CHOOSE g : g = step(g)
    BY DEF Details
  <2> HIDE DEF step, it
  <2> QED BY <1>6, <2>1
<1>8. \A p \in Predicates : it[p] = f[p]
  <2> DEFINE T == {p \in Predicates : it[p] = f[p]}
  <2>1. ASSUME NEW p \in Predicates, \A q \in Predicates : Height[q] < Height[p] => q \in T PROVE p \in T
    <3>1. step(it)[p] = step(f)[p]
      <4>1. \A q \in Predicates : Height[q] < Height[p] => it[q] = f[q]
        BY <2>1
      <4> HIDE DEF it
      <4> QED BY <4>1, CollectedLocal
    <3> HIDE DEF step, it
    <3> QED BY <1>6, <1>7, <3>1
  <2> HIDE DEF T
  <2>2. Predicates \subseteq T
    BY <1>3, <2>1, RankInduction
  <2> QED BY <2>2 DEF T
<1>9. it \in All
  <2>1. \A p \in Predicates : it[p] \in Seq(Verdicts)
    BY <1>5, <1>8
  <2>2. \A p \in Predicates : step(it)[p] = it[p]
    <3> HIDE DEF step, it
    <3> QED BY <1>7
  <2>3. step(it) \in All
    <3> HIDE DEF it
    <3> QED BY <2>1, <2>2
  <2> HIDE DEF step, it
  <2> QED BY <1>7, <2>3
<1>10. \A p \in Predicates : step(it)[p] = Collected(it, p, request)
  <2> HIDE DEF it
  <2> QED OBVIOUS
<1> HIDE DEF step
<1> QED BY <1>7, <1>9, <1>10

LEMMA DetailsCollected ==
  ASSUME NEW request \in Recorded, NEW list \in Seq(Predicates)
  PROVE  LET details == CollectLeafDetails(list, request)
         IN  /\ details \in Seq(Verdicts)
             /\ \A v : IsIn(v, details) <=> \E k \in DOMAIN list : IsIn(v, Details(request)[list[k]])
<1> DEFINE seqs == [k \in DOMAIN list |-> Details(request)[list[k]]]
<1>1. seqs \in Seq(Seq(Verdicts))
  <2>1. \A k \in DOMAIN list : Details(request)[list[k]] \in Seq(Verdicts)
    BY DetailsIs
  <2> QED BY <2>1
<1>2. DOMAIN seqs = DOMAIN list /\ \A k \in DOMAIN list : seqs[k] = Details(request)[list[k]]
  OBVIOUS
<1>3. CollectLeafDetails(list, request) = FlattenSeq(seqs)
  BY DEF CollectLeafDetails
<1> HIDE DEF seqs
<1>4. /\ FlattenSeq(seqs) \in Seq(Verdicts)
      /\ \A v : IsIn(v, FlattenSeq(seqs)) <=> \E k \in DOMAIN seqs : IsIn(v, seqs[k])
  BY <1>1, Flattened
<1> QED BY <1>2, <1>3, <1>4

\* An or without alternatives is one of those that are inside.
LEMMA HasEmptyOrIs ==
  ASSUME NEW p \in Predicates,
         (p.kind = "or" /\ p.parts = <<>>) \/ \E k \in DOMAIN p.parts : HasEmptyOr(p.parts[k])
  PROVE  HasEmptyOr(p)
<1> DEFINE All     == [Predicates -> BOOLEAN]
           test(g, q) == (q.kind = "or" /\ q.parts = <<>>) \/ \E k \in DOMAIN q.parts : g[q.parts[k]]
           step(g) == [q \in Predicates |-> test(g, q)]
           F       == [g \in All |-> step(g)]
           it      == CHOOSE g : g = step(g)
<1>1. \A g \in All : F[g] = step(g) /\ step(g) \in All
  OBVIOUS
<1>2. F \in [All -> All]
  BY <1>1
<1> HIDE DEF F
<1>3. IsLocal(F, Predicates, BOOLEAN, Height)
  <2>1. ASSUME NEW g \in All, NEW h \in All, NEW q \in Predicates,
               \A x \in Predicates : Height[x] < Height[q] => g[x] = h[x]
        PROVE  F[g][q] = F[h][q]
    <3>1. \A k \in DOMAIN q.parts : g[q.parts[k]] = h[q.parts[k]]
      BY <2>1, PredicateParts
    <3>2. test(g, q) = test(h, q)
      BY <3>1
    <3>3. F[g] = step(g) /\ F[h] = step(h)
      BY <1>1
    <3>4. step(g)[q] = test(g, q) /\ step(h)[q] = test(h, q)
      OBVIOUS
    <3> HIDE DEF step, test
    <3> QED BY <3>2, <3>3, <3>4
  <2> QED BY <1>2, <2>1, InUse DEF IsLocal, PredicatesAssumption
<1>4. PICK f \in All : f = F[f]
  <2>1. BOOLEAN # {}
    OBVIOUS
  <2> QED BY <1>3, <2>1, RankRecursion
<1>5. f = step(f)
  BY <1>1, <1>4
<1>6. it = step(it)
  <2> HIDE DEF step
  <2> QED BY <1>5
<1>7. \A q \in Predicates : HasEmptyOr(q) = it[q]
  BY DEF HasEmptyOr
<1> HIDE DEF it
<1>8. step(it)[p] = test(it, p)
  OBVIOUS
<1>9. test(it, p)
  BY <1>7, PredicateParts
<1> HIDE DEF step, test
<1> QED BY <1>6, <1>7, <1>8, <1>9

\* When a predicate fails, one of its clauses does, or it has an or without any.
LEMMA FailureHasDetail ==
  ASSUME NEW request \in Recorded, NEW p \in Predicates,
         Evaluation(request)[p] = "false", Mapped(Details(request)[p])
  PROVE  HasEmptyOr(p) \/ \E i \in DOMAIN Details(request)[p] : Details(request)[p][i] = "false"
<1> DEFINE eval    == Evaluation(request)
           details == Details(request)
           Shown(q) == HasEmptyOr(q) \/ \E i \in DOMAIN details[q] : details[q][i] = "false"
           T == {q \in Predicates : eval[q] = "false" /\ Mapped(details[q]) => Shown(q)}
<1>1. ASSUME NEW q \in Predicates, \A x \in Predicates : Height[x] < Height[q] => x \in T,
             eval[q] = "false", Mapped(details[q])
      PROVE  Shown(q)
  <2> DEFINE parts == [k \in DOMAIN q.parts |-> eval[q.parts[k]]]
             seqs  == [k \in DOMAIN q.parts |-> details[q.parts[k]]]
  <2>1. eval[q] = Combined(eval, q, request) /\ details[q] = Collected(details, q, request)
    BY EvaluationIs, DetailsIs
  <2>2. CASE q.kind = "leaf"
    <3>1. details[q] = EvalLeaf(q.leaf, request) /\ details[q] \in Seq(Verdicts)
      BY <2>1, <2>2, DetailsIs DEF Collected
    <3>2. Every(details[q]) = "false"
      BY <1>1, <2>1, <2>2, <3>1 DEF Combined
    <3>3. PICK d : d = details[q]
      OBVIOUS
    <3> HIDE DEF details
    <3>4. DOMAIN d \subseteq Nat
      BY <3>1, <3>3, ElementOf
    <3>5. \E k \in DOMAIN d : d[k] = "false"
      BY <3>2, <3>3, <3>4, EveryIs
    <3> QED BY <3>3, <3>5
  <2>3. CASE q.kind = "not"
    <3>1. details[q] = Negated(q, request, details[q.parts[1]])
      BY <2>1, <2>3 DEF Collected
    <3>2. details[q] = <<"threw">> \/ details[q] = <<eval[q]>>
      BY <3>1 DEF Negated, EvalPredicate
    <3> HIDE DEF details, eval
    <3>3. details[q] = <<"false">>
      BY <1>1, <3>2 DEF Mapped
    <3> QED BY <3>3
  <2>4. CASE q.kind \in {"and", "or"}
    <3>1. seqs \in Seq(Seq(Verdicts)) /\ DOMAIN seqs = DOMAIN q.parts
      <4> DEFINE S == Seq(Verdicts)
      <4>1. \A k \in DOMAIN q.parts : details[q.parts[k]] \in S
        BY PredicateParts, DetailsIs
      <4> HIDE DEF S, details
      <4>2. PICK n \in Nat : DOMAIN q.parts = 1..n
        BY PredicateParts
      <4>3. seqs \in [1..n -> S]
        BY <4>1, <4>2
      <4>4. seqs \in Seq(S)
        <5> HIDE DEF seqs
        <5> QED BY <4>3
      <4> QED BY <4>4 DEF S
    <3>2. details[q] = FlattenSeq(seqs)
      BY <2>1, <2>4 DEF Collected
    <3>3. \A k \in DOMAIN q.parts : seqs[k] = details[q.parts[k]]
      OBVIOUS
    <3>4. ASSUME NEW k \in DOMAIN q.parts, NEW i \in DOMAIN details[q.parts[k]]
          PROVE  \E j \in DOMAIN details[q] : details[q][j] = details[q.parts[k]][i]
      <4>1. PICK v : v = details[q.parts[k]][i]
        OBVIOUS
      <4> HIDE DEF seqs, details
      <4>2. k \in DOMAIN seqs /\ IsIn(v, seqs[k])
        BY <3>1, <3>3, <3>4, <4>1 DEF IsIn
      <4>3. IsIn(v, FlattenSeq(seqs))
        BY <3>1, <4>2, Flattened
      <4> QED BY <3>2, <4>1, <4>3 DEF IsIn
    <3>5. ASSUME NEW k \in DOMAIN q.parts, eval[q.parts[k]] = "false" PROVE Shown(q)
      <4>1. Mapped(details[q.parts[k]])
        <5> HIDE DEF details
        <5> QED BY <1>1, <3>4, <3>5 DEF Mapped
      <4>2. Shown(q.parts[k])
        BY <1>1, <3>5, <4>1, PredicateParts
      <4>3. CASE HasEmptyOr(q.parts[k])
        BY <3>5, <4>3, HasEmptyOrIs
      <4>4. CASE \E i \in DOMAIN details[q.parts[k]] : details[q.parts[k]][i] = "false"
        <5> HIDE DEF details
        <5> QED BY <3>4, <3>5, <4>4
      <4> QED BY <4>2, <4>3, <4>4
    <3>6. DOMAIN parts = DOMAIN q.parts /\ DOMAIN parts \subseteq Nat
            /\ \A k \in DOMAIN q.parts : parts[k] = eval[q.parts[k]]
      BY PredicateParts
    <3>7. CASE q.kind = "and"
      <4>1. Every(parts) = "false"
        BY <1>1, <2>1, <3>7 DEF Combined
      <4>2. \E k \in DOMAIN q.parts : eval[q.parts[k]] = "false"
        <5> HIDE DEF parts, eval
        <5> QED BY <3>6, <4>1, EveryIs
      <4> HIDE DEF Shown
      <4> QED BY <3>5, <4>2
    <3>8. CASE q.kind = "or"
      <4>1. Some(parts) = "false"
        BY <1>1, <2>1, <3>8 DEF Combined
      <4>2. \A k \in DOMAIN q.parts : eval[q.parts[k]] = "false"
        <5> HIDE DEF parts, eval
        <5> QED BY <3>6, <4>1, SomeIs
      <4>3. CASE q.parts = <<>>
        BY <3>8, <4>3, HasEmptyOrIs
      <4>4. CASE q.parts # <<>>
        <5>1. 1 \in DOMAIN q.parts
          <6>1. q.parts \in Seq(Predicates)
            BY InUse DEF PredicatesAssumption
          <6> QED BY <4>4, <6>1
        <5> HIDE DEF Shown
        <5> QED BY <3>5, <4>2, <5>1
      <4> QED BY <4>3, <4>4
    <3> QED BY <2>4, <3>7, <3>8
  <2> QED BY <2>2, <2>3, <2>4, PredicateParts
<1>2. Predicates \subseteq T
  <2>1. ASSUME NEW q \in Predicates, \A x \in Predicates : Height[x] < Height[q] => x \in T PROVE q \in T
    BY <1>1, <2>1
  <2>2. Height \in [Predicates -> Nat]
    BY InUse DEF PredicatesAssumption
  <2> HIDE DEF T
  <2> QED BY <2>1, <2>2, RankInduction
<1> QED BY <1>2

-----------------------------------------------------------------------------
(* Fractions.                                                              *)

Fractions == Nat \X (Nat \ {0})

LEMMA Counting ==
  ASSUME NEW n \in Nat, NEW S \in SUBSET (1..n)
  PROVE  IsFiniteSet(S) /\ Cardinality(S) \in Nat /\ Cardinality(S) <= n
<1>1. IsFiniteSet(1..n) /\ Cardinality(1..n) = n
  BY FS_Interval
<1>2. IsFiniteSet(S) /\ Cardinality(S) <= n
  BY <1>1, FS_Subset
<1> QED BY <1>2, FS_CardinalityType

LEMMA FractionTyped ==
  ASSUME NEW list \in Seq(Predicates), NEW request \in Recorded
  PROVE  Fraction(list, request) \in Fractions
<1> DEFINE details == CollectLeafDetails(list, request)
<1>1. details \in Seq(Verdicts)
  BY DetailsCollected
<1>2. Fraction(list, request) = IF details = <<>> THEN <<1, 1>> ELSE <<Passed(details), Len(details)>>
  BY DEF Fraction, Share
<1> HIDE DEF details
<1>3. Len(details) \in Nat /\ DOMAIN details = 1..Len(details)
  BY <1>1
<1>4. Passed(details) \in Nat
  BY <1>3, Counting DEF Passed
<1>5. details # <<>> => Len(details) # 0
  BY <1>1
<1> QED BY <1>2, <1>3, <1>4, <1>5 DEF Fractions

\* Products of natural numbers.
LEMMA Products ==
  ASSUME NEW a \in Nat, NEW b \in Nat, NEW c \in Nat
  PROVE  /\ a * b \in Nat
         /\ a * b = b * a
         /\ (a * b) * c = a * (b * c)
OBVIOUS

LEMMA Scaled ==
  ASSUME NEW a \in Nat, NEW b \in Nat, NEW c \in Nat \ {0}
  PROVE  /\ a * c <= b * c <=> a <= b
         /\ a * c < b * c <=> a < b
<1>1. ASSUME a <= b PROVE a * c <= b * c
  BY <1>1
<1>2. ASSUME a < b PROVE a * c < b * c
  BY <1>2
<1>3. a * c \in Nat /\ b * c \in Nat
  OBVIOUS
<1> QED BY <1>1, <1>2, <1>3

\* Of three fractions: greater than one that is not less, is greater.
LEMMA ExceedsOrder ==
  ASSUME NEW f \in Fractions, NEW g \in Fractions, NEW h \in Fractions
  PROVE  /\ Exceeds(f, g) => ~Exceeds(g, f)
         /\ ~Exceeds(f, g) /\ ~Exceeds(g, h) => ~Exceeds(f, h)
         /\ Exceeds(h, g) /\ ~Exceeds(f, g) => Exceeds(h, f)
         /\ ~Exceeds(g, h) /\ Exceeds(g, f) => Exceeds(h, f)
<1>1. PICK a \in Nat, b \in Nat \ {0} : f = <<a, b>>
  BY DEF Fractions
<1>2. PICK c \in Nat, d \in Nat \ {0} : g = <<c, d>>
  BY DEF Fractions
<1>3. PICK m \in Nat, n \in Nat \ {0} : h = <<m, n>>
  BY DEF Fractions
<1>4. /\ Exceeds(f, g) <=> c * b < a * d
      /\ Exceeds(g, f) <=> a * d < c * b
      /\ Exceeds(g, h) <=> m * d < c * n
      /\ Exceeds(h, g) <=> c * n < m * d
      /\ Exceeds(f, h) <=> m * b < a * n
      /\ Exceeds(h, f) <=> a * n < m * b
  BY <1>1, <1>2, <1>3 DEF Exceeds
<1>5. /\ c * b \in Nat /\ a * d \in Nat /\ m * d \in Nat /\ c * n \in Nat /\ m * b \in Nat /\ a * n \in Nat
      /\ (c * b) * n \in Nat /\ (a * d) * n \in Nat /\ (m * d) * b \in Nat
      /\ (c * n) * b \in Nat /\ (m * b) * d \in Nat /\ (a * n) * d \in Nat
  OBVIOUS
<1>6. (c * b) * n = (c * n) * b /\ (a * d) * n = (a * n) * d /\ (m * d) * b = (m * b) * d
  OBVIOUS
<1>7. /\ c * b < a * d <=> (c * b) * n < (a * d) * n
      /\ a * d < c * b <=> (a * d) * n < (c * b) * n
      /\ m * d < c * n <=> (m * d) * b < (c * n) * b
      /\ c * n < m * d <=> (c * n) * b < (m * d) * b
      /\ m * b < a * n <=> (m * b) * d < (a * n) * d
      /\ a * n < m * b <=> (a * n) * d < (m * b) * d
  BY <1>5, Scaled
<1>8. PICK x \in Nat, y \in Nat, z \in Nat : x = (c * b) * n /\ y = (a * d) * n /\ z = (m * d) * b
  BY <1>5
<1>9. /\ Exceeds(f, g) <=> x < y
      /\ Exceeds(g, f) <=> y < x
      /\ Exceeds(g, h) <=> z < x
      /\ Exceeds(h, g) <=> x < z
      /\ Exceeds(f, h) <=> z < y
      /\ Exceeds(h, f) <=> y < z
  BY <1>4, <1>6, <1>7, <1>8
<1> QED BY <1>9

-----------------------------------------------------------------------------
(* computeClosest.                                                         *)

\* All requests have a timestamp, or none has.
Uniform(recorded) ==
  {r.time : r \in ToSet(recorded)} = {0} \/ 0 \notin {r.time : r \in ToSet(recorded)}

\* The request b is better than k.
Beats(list, recorded, b, k) ==
  LET f == Fraction(list, recorded[k])
      g == Fraction(list, recorded[b])
  IN  /\ ~Exceeds(f, g)
      /\ Exceeds(g, f) \/ recorded[k].time < recorded[b].time
           \/ (recorded[k].time = recorded[b].time /\ k < b)

LEMMA BeatsOrder ==
  ASSUME NEW list \in Seq(Predicates), NEW recorded \in Seq(Recorded),
         NEW j \in DOMAIN recorded, NEW b \in DOMAIN recorded, NEW k \in DOMAIN recorded,
         Beats(list, recorded, j, b), Beats(list, recorded, b, k)
  PROVE  Beats(list, recorded, j, k)
<1> DEFINE f(i) == Fraction(list, recorded[i])
<1>1. \A i \in DOMAIN recorded : f(i) \in Fractions /\ recorded[i].time \in Nat /\ i \in Nat
  BY ElementOf, FractionTyped, RecordedJournaled
<1> HIDE DEF f
<1>2. /\ ~Exceeds(f(b), f(j)) /\ ~Exceeds(f(k), f(b))
      /\ \/ Exceeds(f(j), f(b)) \/ recorded[b].time < recorded[j].time
         \/ recorded[b].time = recorded[j].time /\ b < j
      /\ \/ Exceeds(f(b), f(k)) \/ recorded[k].time < recorded[b].time
         \/ recorded[k].time = recorded[b].time /\ k < b
  BY DEF Beats, f
<1>3. PICK u \in Nat, v \in Nat, w \in Nat :
        u = recorded[j].time /\ v = recorded[b].time /\ w = recorded[k].time
  BY <1>1
<1>4. ~Exceeds(f(k), f(j))
  BY <1>1, <1>2, ExceedsOrder
<1>5. Exceeds(f(j), f(b)) \/ Exceeds(f(b), f(k)) => Exceeds(f(j), f(k))
  BY <1>1, <1>2, ExceedsOrder
<1>6. Exceeds(f(j), f(k)) \/ w < u \/ (w = u /\ k < j)
  BY <1>1, <1>2, <1>3, <1>5
<1> QED BY <1>3, <1>4, <1>6 DEF Beats, f

\* The next request replaces the best one exactly when it is better.
LEMMA BetterIs ==
  ASSUME NEW list \in Seq(Predicates), NEW recorded \in Seq(Recorded), Uniform(recorded),
         NEW j \in DOMAIN recorded, NEW b \in DOMAIN recorded, b < j
  PROVE  IF Better(list, recorded, j, b) THEN Beats(list, recorded, j, b)
                                         ELSE Beats(list, recorded, b, j)
<1> DEFINE f(i) == Fraction(list, recorded[i])
<1>1. \A i \in DOMAIN recorded : f(i) \in Fractions /\ recorded[i].time \in Nat /\ i \in Nat
  BY ElementOf, FractionTyped, RecordedJournaled
<1>2. recorded[j].time = 0 <=> recorded[b].time = 0
  <2>1. recorded[j] \in ToSet(recorded) /\ recorded[b] \in ToSet(recorded)
    BY DEF ToSet
  <2>2. /\ recorded[j].time \in {r.time : r \in ToSet(recorded)}
        /\ recorded[b].time \in {r.time : r \in ToSet(recorded)}
    BY <2>1
  <2> QED BY <2>2 DEF Uniform
<1>3. Exceeds(f(j), f(b)) => ~Exceeds(f(b), f(j))
  BY <1>1, ExceedsOrder
<1>4. Better(list, recorded, j, b)
        <=> Exceeds(f(j), f(b)) \/ (~Exceeds(f(b), f(j)) /\ IsMoreRecent(recorded, j, b))
  BY DEF Better, Closer
<1>5. /\ Beats(list, recorded, j, b) <=>
           /\ ~Exceeds(f(b), f(j))
           /\ Exceeds(f(j), f(b)) \/ recorded[b].time < recorded[j].time
                \/ (recorded[b].time = recorded[j].time /\ b < j)
      /\ Beats(list, recorded, b, j) <=>
           /\ ~Exceeds(f(j), f(b))
           /\ Exceeds(f(b), f(j)) \/ recorded[j].time < recorded[b].time
                \/ (recorded[j].time = recorded[b].time /\ j < b)
  BY DEF Beats
<1> HIDE DEF f
<1>6. IsMoreRecent(recorded, j, b) <=> recorded[b].time <= recorded[j].time
  BY <1>1, <1>2 DEF IsMoreRecent
<1>7. recorded[j].time \in Nat /\ recorded[b].time \in Nat
  BY <1>1
<1> QED BY <1>3, <1>4, <1>5, <1>6, <1>7

\* One request is chosen, and it beats all others.
LEMMA ClosestIs ==
  ASSUME NEW list \in Seq(Predicates), NEW recorded \in Seq(Recorded), recorded # <<>>
  PROVE  LET closest == ComputeClosest(list, recorded)
         IN  /\ closest \in DOMAIN recorded
             /\ Uniform(recorded) =>
                  \A k \in DOMAIN recorded \ {closest} : Beats(list, recorded, closest, k)
<1> DEFINE N       == Len(recorded)
           next    == [b \in Nat |-> [n \in 1..N |-> Chosen(list, recorded, b, n)]]
           step(g) == [n \in 0..N |-> IF n = 0 THEN 0 ELSE Chosen(list, recorded, g[n - 1], n)]
           it      == CHOOSE g : g = step(g)
<1>1. N \in Nat /\ DOMAIN recorded = 1..N /\ N # 0
  OBVIOUS
<1>2. next \in [Nat -> [1..N -> Nat]]
  BY <1>1 DEF Chosen
<1>3. PICK f : Iterates(f, N, Nat, 0, next)
  <2> HIDE DEF N, next
  <2> QED BY <1>1, <1>2, Iteration
<1>4. \A n \in 0..N : f[n] = step(f)[n]
  <2> SUFFICES ASSUME NEW n \in 0..N, n # 0 PROVE f[n] = Chosen(list, recorded, f[n - 1], n)
    BY <1>3 DEF Iterates
  <2>1. n \in 1..N /\ n - 1 \in 0..N
    BY <1>1
  <2>2. f[n - 1] \in Nat
    BY <1>3, <2>1 DEF Iterates
  <2> QED BY <1>3, <2>1, <2>2 DEF Iterates
<1>5. f = step(f)
  BY <1>3, <1>4 DEF Iterates
<1>6. it = step(it)
  <2> HIDE DEF step
  <2> QED BY <1>5
<1>7. ComputeClosest(list, recorded) = it[N]
  BY DEF ComputeClosest
<1> HIDE DEF it
<1>8. /\ it[0] = 0
      /\ \A n \in Nat : n + 1 <= N => it[n + 1] = Chosen(list, recorded, it[n], n + 1)
  <2>1. ASSUME NEW n \in Nat, n + 1 <= N PROVE it[n + 1] = Chosen(list, recorded, it[n], n + 1)
    <3>1. n + 1 \in 0..N /\ n + 1 # 0 /\ (n + 1) - 1 = n
      BY <1>1, <2>1
    <3>2. step(it)[n + 1] = Chosen(list, recorded, it[n], n + 1)
      BY <3>1
    <3> HIDE DEF step
    <3> QED BY <1>6, <3>2
  <2>2. step(it)[0] = 0
    BY <1>1
  <2> HIDE DEF step
  <2> QED BY <1>6, <2>1, <2>2
<1> DEFINE Best(b, n) == /\ b \in 1..n
                         /\ Uniform(recorded) => \A k \in (1..n) \ {b} : Beats(list, recorded, b, k)
           T == {n \in Nat : n # 0 /\ n <= N => Best(it[n], n)}
<1>9. ASSUME NEW n \in Nat, n \in T PROVE n + 1 \in T
  <2> SUFFICES ASSUME n + 1 <= N PROVE Best(it[n + 1], n + 1)
    OBVIOUS
  <2>1. PICK j \in DOMAIN recorded : j = n + 1
    BY <1>1
  <2>2. it[j] = Chosen(list, recorded, it[n], j)
    BY <1>8, <2>1
  <2>3. CASE n = 0
    <3>1. it[j] = j
      BY <1>8, <2>2, <2>3 DEF Chosen
    <3>2. (1..j) \ {j} = {} /\ j \in 1..j
      BY <2>1, <2>3
    <3> QED BY <2>1, <3>1, <3>2
  <2>4. CASE n # 0
    <3>1. PICK b : b = it[n]
      OBVIOUS
    <3>2. n <= N
      BY <1>1
    <3>3. Best(b, n)
      BY <1>9, <2>4, <3>1, <3>2
    <3>4. b \in DOMAIN recorded /\ b < j /\ b # 0 /\ b \in Nat
      BY <1>1, <2>1, <3>2, <3>3
    <3>5. b \in 1..j /\ j \in 1..j /\ \A k \in 1..j : k = j \/ k \in 1..n
      BY <2>1, <3>3
    <3>6. CASE Better(list, recorded, j, b)
      <4>1. it[j] = j
        BY <2>2, <3>1, <3>6 DEF Chosen
      <4>2. ASSUME Uniform(recorded), NEW k \in (1..j) \ {j} PROVE Beats(list, recorded, j, k)
        <5>1. Beats(list, recorded, j, b)
          BY <3>4, <3>6, <4>2, BetterIs
        <5>2. k \in 1..n /\ k \in DOMAIN recorded
          BY <1>1, <3>2, <3>5, <4>2
        <5>3. k # b => Beats(list, recorded, b, k)
          BY <3>3, <4>2, <5>2
        <5> QED BY <3>4, <5>1, <5>2, <5>3, BeatsOrder
      <4> QED BY <2>1, <3>5, <4>1, <4>2
    <3>7. CASE ~Better(list, recorded, j, b)
      <4>1. it[j] = b
        BY <2>2, <3>1, <3>4, <3>7 DEF Chosen
      <4>2. ASSUME Uniform(recorded), NEW k \in (1..j) \ {b} PROVE Beats(list, recorded, b, k)
        <5>1. Beats(list, recorded, b, j)
          BY <3>4, <3>7, <4>2, BetterIs
        <5>2. k # j => Beats(list, recorded, b, k)
          BY <3>3, <3>5, <4>2
        <5> QED BY <5>1, <5>2
      <4> QED BY <2>1, <3>5, <4>1, <4>2
    <3> QED BY <3>6, <3>7
  <2> QED BY <2>3, <2>4
<1>10. 0 \in T
  OBVIOUS
<1>11. Nat \subseteq T
  <2> HIDE DEF T
  <2> QED BY <1>9, <1>10, SimpleInduction
<1>12. Best(it[N], N)
  <2>1. N \in T /\ N # 0 /\ N <= N
    BY <1>1, <1>11
  <2> HIDE DEF N, Best
  <2> QED BY <2>1
<1> QED BY <1>1, <1>7, <1>12

-----------------------------------------------------------------------------
(* fetchRecorded.                                                          *)

\* What is fetched of a journal.
FetchOf(recorded, scope) ==
  FlattenSeq([k \in DOMAIN recorded |->
                IF scope \in {"all", recorded[k].flow} THEN <<recorded[k]>> ELSE <<>>])

\* The positions, of some, where a sequence has an element of M.
PositionsIn(positions, s, M) == {k \in positions : s[k] \in M}

\* As many of the requests fetched are of a kind as there are, in the scope, in
\* the journal.
LEMMA FetchedCount ==
  ASSUME NEW recorded \in Seq(Recorded), NEW scope, NEW M, NEW seen, NEW asked,
         seen = FetchOf(recorded, scope),
         \A k : k \in asked <=> k \in DOMAIN recorded /\ scope \in {"all", recorded[k].flow}
  PROVE  /\ seen \in Seq(Recorded)
         /\ \A r : IsIn(r, seen) <=> \E k \in asked : recorded[k] = r
         /\ Cardinality(PositionsIn(DOMAIN seen, seen, M)) = Cardinality(PositionsIn(asked, recorded, M))
<1> DEFINE N       == Len(recorded)
           ask(k)  == scope \in {"all", recorded[k].flow}
           seqs    == [k \in DOMAIN recorded |-> IF ask(k) THEN <<recorded[k]>> ELSE <<>>]
           flat    == FlattenSeq(seqs)
<1>1. N \in Nat /\ DOMAIN recorded = 1..N /\ \A k \in 1..N : recorded[k] \in Recorded
  BY ElementOf
<1>2. seqs \in Seq(Seq(Recorded)) /\ DOMAIN seqs = 1..N /\ Len(seqs) = N
  <2> DEFINE S == Seq(Recorded)
  <2>1. \A k \in 1..N : <<recorded[k]>> \in S /\ <<>> \in S
    BY <1>1
  <2> HIDE DEF S, N, ask
  <2>2. seqs \in [1..N -> S]
    BY <1>1, <2>1
  <2>3. seqs \in Seq(S) /\ DOMAIN seqs = 1..N /\ Len(seqs) = N
    <3> HIDE DEF seqs
    <3> QED BY <1>1, <2>2
  <2> QED BY <2>3 DEF S
<1>3. \A k \in 1..N : seqs[k] = IF ask(k) THEN <<recorded[k]>> ELSE <<>>
  BY <1>1
<1>4. FetchOf(recorded, scope) = flat
  BY DEF FetchOf
<1> HIDE DEF seqs, ask
<1>6. /\ flat \in Seq(Recorded)
      /\ \A r : IsIn(r, flat) <=> \E k \in DOMAIN seqs : IsIn(r, seqs[k])
  BY <1>2, Flattened
<1>7. ASSUME NEW k \in 1..N, NEW r
      PROVE  IsIn(r, seqs[k]) <=> ask(k) /\ recorded[k] = r
  <2>1. CASE ask(k)
    <3>1. seqs[k] = <<recorded[k]>>
      BY <1>3, <2>1
    <3>2. DOMAIN seqs[k] = {1} /\ seqs[k][1] = recorded[k]
      BY <3>1
    <3> QED BY <2>1, <3>2 DEF IsIn
  <2>2. CASE ~ask(k)
    <3>1. seqs[k] = <<>>
      BY <1>3, <2>2
    <3>2. DOMAIN seqs[k] = {}
      BY <3>1
    <3> QED BY <2>2, <3>2 DEF IsIn
  <2> QED BY <2>1, <2>2
<1>8. ASSUME NEW r
      PROVE  IsIn(r, flat) <=> \E k \in {x \in 1..N : ask(x)} : recorded[k] = r
  <2> HIDE DEF N, flat
  <2> QED BY <1>2, <1>6, <1>7
<1>9. PICK f : Accumulates(f, seqs, Recorded) /\ f[N] = flat
  BY <1>2, FlattenSeqIs
<1> HIDE DEF N, flat
<1> DEFINE Kind(s)  == {j \in DOMAIN s : s[j] \in M}
           Asked(n) == {k \in 1..n : ask(k) /\ recorded[k] \in M}
           T == {n \in Nat : n <= N => Cardinality(Kind(f[n])) = Cardinality(Asked(n))}
<1>10. 0 \in T
  <2>1. f[0] = <<>>
    BY <1>9 DEF Accumulates
  <2>2. Kind(f[0]) = {} /\ Asked(0) = {}
    BY <2>1
  <2> QED BY <2>2
<1>11. ASSUME NEW n \in Nat, n \in T PROVE n + 1 \in T
  <2> SUFFICES ASSUME n + 1 <= N PROVE Cardinality(Kind(f[n + 1])) = Cardinality(Asked(n + 1))
    OBVIOUS
  <2>1. PICK m \in 1..N : m = n + 1
    BY <1>1
  <2>2. n \in 0..N /\ n <= N /\ m - 1 = n
    BY <1>1, <2>1
  <2>3. PICK s \in Seq(Recorded) : s = f[n]
    BY <1>2, <1>9, <2>2 DEF Accumulates
  <2>4. f[m] = s \o seqs[m]
    BY <1>2, <1>9, <2>2, <2>3 DEF Accumulates
  <2>5. Cardinality(Kind(s)) = Cardinality(Asked(n))
    BY <1>11, <2>2, <2>3
  <2>6. Len(s) \in Nat /\ DOMAIN s = 1..Len(s)
    OBVIOUS
  <2>7. IsFiniteSet(Kind(s)) /\ IsFiniteSet(Asked(n)) /\ Cardinality(Asked(n)) \in Nat
    BY <2>6, Counting
  <2>8. CASE ~ask(m)
    <3>1. seqs[m] = <<>>
      BY <1>3, <2>8
    <3>2. f[m] = s
      BY <2>4, <3>1
    <3>3. Asked(m) = Asked(n)
      BY <2>1, <2>8
    <3> QED BY <2>1, <2>5, <3>2, <3>3
  <2>9. CASE ask(m)
    <3>1. PICK r \in Recorded : r = recorded[m]
      BY <1>1
    <3>2. seqs[m] = <<r>>
      BY <1>3, <2>9, <3>1
    <3>3. f[m] = s \o <<r>>
      BY <2>4, <3>2
    <3>4. PICK t : t = s \o <<r>>
      OBVIOUS
    <3>5. /\ DOMAIN t = 1..(Len(s) + 1)
          /\ \A j \in 1..Len(s) : t[j] = s[j]
          /\ t[Len(s) + 1] = r
      BY <3>4
    <3>6. CASE r \in M
      <4>1. Kind(t) = Kind(s) \cup {Len(s) + 1} /\ Len(s) + 1 \notin Kind(s)
        BY <2>6, <3>5, <3>6
      <4>2. Asked(m) = Asked(n) \cup {m} /\ m \notin Asked(n)
        BY <2>1, <2>9, <3>1, <3>6
      <4>3. Cardinality(Kind(t)) = Cardinality(Kind(s)) + 1
        BY <2>7, <4>1, FS_AddElement
      <4>4. Cardinality(Asked(m)) = Cardinality(Asked(n)) + 1
        <5> HIDE DEF Asked
        <5> QED BY <2>7, <4>2, FS_AddElement
      <4> QED BY <2>1, <2>5, <3>3, <3>4, <4>3, <4>4
    <3>7. CASE r \notin M
      <4>1. Kind(t) = Kind(s)
        BY <2>6, <3>5, <3>7
      <4>2. Asked(m) = Asked(n)
        BY <2>1, <3>1, <3>7
      <4> QED BY <2>1, <2>5, <3>3, <3>4, <4>1, <4>2
    <3> QED BY <3>6, <3>7
  <2> QED BY <2>8, <2>9
<1>12. Nat \subseteq T
  <2> HIDE DEF T
  <2> QED BY <1>10, <1>11, SimpleInduction
<1>13. Cardinality(Kind(flat)) = Cardinality(Asked(N))
  BY <1>1, <1>9, <1>12
<1>14. Asked(N) = {k \in {x \in 1..N : ask(x)} : recorded[k] \in M}
  OBVIOUS
<1>15. Cardinality({j \in DOMAIN flat : flat[j] \in M})
         = Cardinality({k \in {x \in 1..N : ask(x)} : recorded[k] \in M})
  BY <1>13, <1>14
<1>16. seen = flat /\ asked = {x \in 1..N : ask(x)}
  BY <1>1, <1>4 DEF ask
<1> HIDE DEF Kind, Asked
<1> QED BY <1>6, <1>8, <1>15, <1>16 DEF PositionsIn

-----------------------------------------------------------------------------
(* verify().                                                               *)

\* evalPredicates: a request matches, or differs, as the predicates say.
LEMMA EvalPredicatesIs ==
  ASSUME NEW list \in Seq(Predicates), NEW request \in Recorded
  PROVE  LET holds == \A k \in DOMAIN list : "true" \in Truth(request)[list[k]]
             fails == \E k \in DOMAIN list : "false" \in Truth(request)[list[k]]
         IN  /\ EvalPredicates(list, request) \in Verdicts
             /\ EvalPredicates(list, request) = "true" => holds
             /\ EvalPredicates(list, request) = "false" =>
                  /\ ~holds /\ fails
                  /\ \E k \in DOMAIN list : Evaluation(request)[list[k]] = "false"
<1> DEFINE s == [k \in DOMAIN list |-> EvalPredicate(list[k], request)]
<1>1. DOMAIN list \subseteq Nat /\ \A k \in DOMAIN list : list[k] \in Predicates
  BY ElementOf
<1>2. /\ DOMAIN s \subseteq Nat /\ DOMAIN s = DOMAIN list
      /\ \A k \in DOMAIN list : s[k] = Evaluation(request)[list[k]] /\ s[k] \in Verdicts
  BY <1>1, EvaluationIs DEF EvalPredicate
<1>3. EvalPredicates(list, request) = Every(s)
  BY DEF EvalPredicates
<1> HIDE DEF s
<1>4. Every(s) \in Verdicts
  BY <1>2, EveryIs
<1>5. ASSUME Every(s) = "true", NEW k \in DOMAIN list PROVE "true" \in Truth(request)[list[k]]
  <2>1. Evaluation(request)[list[k]] = "true"
    BY <1>2, <1>5, EveryIs
  <2> QED BY <1>1, <2>1, EvaluationIsTruth
<1>6. ASSUME Every(s) = "false"
      PROVE  \E k \in DOMAIN list : /\ Evaluation(request)[list[k]] = "false"
                                    /\ "false" \in Truth(request)[list[k]]
                                    /\ "true" \notin Truth(request)[list[k]]
  <2>1. PICK k \in DOMAIN list : Evaluation(request)[list[k]] = "false"
    BY <1>2, <1>6, EveryIs
  <2>2. "false" \in Truth(request)[list[k]] /\ "true" \notin Truth(request)[list[k]]
    BY <1>1, <2>1, EvaluationIsTruth
  <2> QED BY <2>1, <2>2
<1> QED BY <1>3, <1>4, <1>5, <1>6

\* What verify() concludes from what was fetched.
LEMMA ConcludeIs ==
  ASSUME NEW list, NEW matcher, NEW recorded
  PROVE  LET verdicts == [k \in DOMAIN recorded |-> EvalPredicates(list, recorded[k])]
             matched  == Cardinality({k \in DOMAIN recorded : EvalPredicates(list, recorded[k]) = "true"})
             unread   == \E k \in DOMAIN recorded : ~Mapped(CollectLeafDetails(list, recorded[k]))
             outcomes == Conclude(list, matcher, recorded)
         IN  /\ outcomes.result \in {"passed", "failed"} =>
                  /\ \A k \in DOMAIN recorded : EvalPredicates(list, recorded[k]) # "threw"
                  /\ (outcomes.result = "passed") <=> Satisfies(matched, matcher)
                  /\ outcomes.matched = matched
             /\ outcomes.result = "failed" /\ matched = 0 =>
                  ~unread /\ outcomes.closest = ComputeClosest(list, recorded)
             /\ outcomes.result # "failed" \/ matched # 0 => outcomes.closest = 0
<1> DEFINE verdicts == [k \in DOMAIN recorded |-> EvalPredicates(list, recorded[k])]
           unread   == \E k \in DOMAIN recorded : ~Mapped(CollectLeafDetails(list, recorded[k]))
<1>1. Passed(verdicts) = Cardinality({k \in DOMAIN recorded : EvalPredicates(list, recorded[k]) = "true"})
  <2>1. {k \in DOMAIN verdicts : verdicts[k] = "true"}
          = {k \in DOMAIN recorded : EvalPredicates(list, recorded[k]) = "true"}
    OBVIOUS
  <2> QED BY <2>1 DEF Passed
<1>2. Mapped(verdicts) <=> \A k \in DOMAIN recorded : EvalPredicates(list, recorded[k]) # "threw"
  BY DEF Mapped
<1>3. Conclude(list, matcher, recorded) =
        IF ~Mapped(verdicts) THEN [NoOutcome EXCEPT !.result = "threw"]
        ELSE IF Satisfies(Passed(verdicts), matcher)
        THEN [NoOutcome EXCEPT !.result = "passed", !.matched = Passed(verdicts)]
        ELSE IF Passed(verdicts) = 0 /\ unread THEN [NoOutcome EXCEPT !.result = "threw"]
        ELSE [result |-> "failed", matched |-> Passed(verdicts),
              closest |-> IF Passed(verdicts) = 0 THEN ComputeClosest(list, recorded) ELSE 0]
  BY DEF Conclude
<1> HIDE DEF verdicts, unread
<1>4. NoOutcome = [result |-> "none", matched |-> 0, closest |-> 0]
  BY DEF NoOutcome
<1> QED BY <1>1, <1>2, <1>3, <1>4 DEF unread

TypeInvariant ==
  /\ predicates \in Seq(Predicates)
  /\ count \in [min : Nat, max : Nat]
  /\ journal \in Seq(Recorded)
  /\ fetched \in Seq(Recorded)

\* An outcome is that of the journal, which no longer grows.
Invariant ==
  /\ TypeInvariant
  /\ stage = "called" => outcome = NoOutcome
  /\ outcome.result \notin {"none", "error"} =>
       /\ fetched = FetchRecorded(flow)
       /\ outcome = Conclude(predicates, count, fetched)
  /\ outcome.result \in {"none", "error"} => outcome.closest = 0

LEMMA Inductive == Spec => []Invariant
<1>1. Init => Invariant
  BY DEF Init, Invariant, TypeInvariant, NoOutcome
<1>2. Invariant /\ [Next]_vars => Invariant'
  <2> SUFFICES ASSUME Invariant, [Next]_vars PROVE Invariant'
    OBVIOUS
  <2>1. ASSUME NEW r \in Requests, NEW time \in Times, Record(r, time) PROVE Invariant'
    <3>1. Stamped(r, time) \in Recorded
      BY DEF Recorded
    <3>2. journal' \in Seq(Recorded)
      BY <2>1, <3>1 DEF Record, Invariant, TypeInvariant
    <3>3. outcome' = NoOutcome /\ UNCHANGED <<predicates, count, fetched>>
      BY <2>1 DEF Record, Invariant
    <3> QED BY <3>2, <3>3 DEF Invariant, TypeInvariant, NoOutcome
  <2>2. ASSUME NEW list \in Matches, NEW matcher \in Matchers, NEW scope \in Scopes,
               Verify(list, matcher, scope)
        PROVE  Invariant'
    <3>1. list \in Seq(Predicates) /\ matcher \in [min : Nat, max : Nat]
      BY InUse DEF PredicatesAssumption, RequestsAssumption
    <3>2. journal \in Seq(Recorded) /\ journal' = journal
      BY <2>2 DEF Verify, Invariant, TypeInvariant
    <3>3. FetchRecorded(scope) = FetchOf(journal, scope) /\ FetchRecorded(flow)' = FetchRecorded(scope)
      BY <2>2 DEF Verify, FetchRecorded, FetchOf
    <3>4. FetchOf(journal, scope) \in Seq(Recorded)
      <4>1. PICK asked : \A k : k \in asked <=> k \in DOMAIN journal /\ scope \in {"all", journal[k].flow}
        <5> WITNESS {k \in DOMAIN journal : scope \in {"all", journal[k].flow}}
        <5> QED OBVIOUS
      <4> QED BY <3>2, <4>1, FetchedCount
    <3>5. TypeInvariant'
      BY <2>2, <3>1, <3>2, <3>3, <3>4 DEF Verify, TypeInvariant
    <3>6. stage' = "done" /\ fetched' = FetchRecorded(flow)'
            /\ outcome' = Conclude(predicates', count', fetched')
      BY <2>2, <3>3 DEF Verify
    <3>7. outcome'.result # "failed" => outcome'.closest = 0
      BY <3>6, ConcludeIs
    <3> QED BY <3>5, <3>6, <3>7 DEF Invariant
  <2>3. CASE VerifyFails
    BY <2>3 DEF VerifyFails, Invariant, TypeInvariant, NoOutcome
  <2>4. CASE UNCHANGED vars
    <3>1. UNCHANGED <<predicates, count, flow, journal, stage, fetched, outcome>>
      BY <2>4 DEF vars
    <3>2. FetchRecorded(flow)' = FetchRecorded(flow)
      BY <3>1 DEF FetchRecorded
    <3> QED BY <3>1, <3>2 DEF Invariant, TypeInvariant
  <2> QED BY <2>1, <2>2, <2>3, <2>4 DEF Next
<1> QED BY <1>1, <1>2, PTL DEF Spec

\* verify() resolves only when the number of requests that match is one the
\* matcher allows, and fails only when it is not (engine.ts:449-470).
THEOREM CountDecides == Spec => []VerdictIsTheCount
<1>1. Invariant => VerdictIsTheCount
  <2> SUFFICES ASSUME Invariant, outcome.result \in {"passed", "failed"} PROVE VerdictIsTheCount
    BY DEF VerdictIsTheCount
  <2> DEFINE asked == {k \in DOMAIN journal : flow \in {"all", journal[k].flow}}
             M     == {r \in Recorded : EvalPredicates(predicates, r) = "true"}
  <2>1. /\ predicates \in Seq(Predicates) /\ journal \in Seq(Recorded)
        /\ fetched \in Seq(Recorded) /\ count \in [min : Nat, max : Nat]
        /\ fetched = FetchOf(journal, flow)
        /\ outcome = Conclude(predicates, count, fetched)
    BY DEF Invariant, TypeInvariant, FetchRecorded, FetchOf
  <2>2. /\ \A r : IsIn(r, fetched) <=> \E k \in asked : journal[k] = r
        /\ Cardinality({j \in DOMAIN fetched : fetched[j] \in M})
             = Cardinality({k \in asked : journal[k] \in M})
    <3>1. \A k : k \in asked <=> k \in DOMAIN journal /\ flow \in {"all", journal[k].flow}
      OBVIOUS
    <3>2. /\ \A r : IsIn(r, fetched) <=> \E k \in asked : journal[k] = r
          /\ Cardinality(PositionsIn(DOMAIN fetched, fetched, M))
               = Cardinality(PositionsIn(asked, journal, M))
      <4> HIDE DEF M, asked
      <4>1. PICK positions : positions = asked
        OBVIOUS
      <4>2. PICK kinds : kinds = M
        OBVIOUS
      <4>3. PICK scope : scope = flow
        OBVIOUS
      <4>4. PICK seen : seen = fetched
        OBVIOUS
      <4>5. PICK recorded : recorded = journal
        OBVIOUS
      <4>6. \A k : k \in positions <=> k \in DOMAIN recorded /\ scope \in {"all", recorded[k].flow}
        BY <3>1, <4>1, <4>3, <4>5
      <4>7. recorded \in Seq(Recorded) /\ seen = FetchOf(recorded, scope)
        BY <2>1, <4>3, <4>4, <4>5
      <4>8. /\ \A r : IsIn(r, seen) <=> \E k \in positions : recorded[k] = r
            /\ Cardinality(PositionsIn(DOMAIN seen, seen, kinds))
                 = Cardinality(PositionsIn(positions, recorded, kinds))
        BY <4>6, <4>7, FetchedCount
      <4> QED BY <4>1, <4>2, <4>4, <4>5, <4>8
    <3> QED BY <3>2 DEF PositionsIn
  <2>3. \A k \in DOMAIN journal : journal[k] \in Recorded
    BY <2>1, ElementOf
  <2>4. \A j \in DOMAIN fetched : fetched[j] \in Recorded
    BY <2>1, ElementOf
  <2>5. /\ \A j \in DOMAIN fetched : EvalPredicates(predicates, fetched[j]) # "threw"
        /\ (outcome.result = "passed") <=>
             Satisfies(Cardinality({j \in DOMAIN fetched : EvalPredicates(predicates, fetched[j]) = "true"}),
                       count)
    BY <2>1, ConcludeIs
  <2>6. {j \in DOMAIN fetched : EvalPredicates(predicates, fetched[j]) = "true"}
          = {j \in DOMAIN fetched : fetched[j] \in M}
    BY <2>4
  <2>7. ASSUME NEW k \in asked
        PROVE  /\ journal[k] \in M <=> Match(journal[k])
               /\ ~Match(journal[k]) => Differs(journal[k])
    <3>1. journal[k] \in Recorded
      BY <2>3
    <3>2. EvalPredicates(predicates, journal[k]) # "threw"
      <4> HIDE DEF asked, M
      <4>1. IsIn(journal[k], fetched)
        BY <2>2
      <4>2. PICK j \in DOMAIN fetched : fetched[j] = journal[k]
        BY <4>1 DEF IsIn
      <4> QED BY <2>5, <4>2
    <3> QED BY <2>1, <3>1, <3>2, EvalPredicatesIs DEF Match, Differs, Verdicts
  <2>8. {k \in asked : journal[k] \in M} = {k \in asked : Match(journal[k])}
    <3> HIDE DEF asked, M
    <3> QED BY <2>7
  <2>9. Cardinality({k \in asked : Match(journal[k])}) \in Nat
    <3>1. DOMAIN journal = 1..Len(journal) /\ Len(journal) \in Nat
      BY <2>1
    <3> QED BY <3>1, Counting
  <2>10. PICK n \in Nat : n = Cardinality({k \in asked : Match(journal[k])})
    BY <2>9
  <2>11. (outcome.result = "passed") <=> n \in count.min..count.max
    <3>1. (outcome.result = "passed") <=> Satisfies(n, count)
      BY <2>2, <2>5, <2>6, <2>8, <2>10
    <3> QED BY <2>1, <3>1 DEF Satisfies
  <2>12. \A k \in asked \ {k \in asked : Match(journal[k])} : Differs(journal[k])
    <3> HIDE DEF asked
    <3> QED BY <2>7
  <2> QED BY <2>10, <2>11, <2>12 DEF VerdictIsTheCount
<1> QED BY <1>1, Inductive, PTL

\* A verification that fails because nothing matched names a request, and at least
\* one clause that this request does not satisfy (verify/eval.ts:96-129, 148-151).
THEOREM FailureIsExplained == Spec => []NonMatchIsExplained
<1>1. Invariant => NonMatchIsExplained
  <2> SUFFICES ASSUME Invariant, outcome.result = "failed", outcome.matched = 0, fetched # <<>>
               PROVE  /\ outcome.closest \in DOMAIN fetched
                      /\ \/ "false" \in ToSet(CollectLeafDetails(predicates, fetched[outcome.closest]))
                         \/ \E k \in DOMAIN predicates : HasEmptyOr(predicates[k])
    BY DEF NonMatchIsExplained
  <2>1. /\ predicates \in Seq(Predicates) /\ fetched \in Seq(Recorded)
        /\ outcome = Conclude(predicates, count, fetched)
    BY DEF Invariant, TypeInvariant
  <2> DEFINE matching == {j \in DOMAIN fetched : EvalPredicates(predicates, fetched[j]) = "true"}
  <2>2. /\ \A j \in DOMAIN fetched : EvalPredicates(predicates, fetched[j]) # "threw"
        /\ outcome.matched = Cardinality(matching)
        /\ \A j \in DOMAIN fetched : Mapped(CollectLeafDetails(predicates, fetched[j]))
        /\ outcome.closest = ComputeClosest(predicates, fetched)
    BY <2>1, ConcludeIs
  <2>3. PICK c \in DOMAIN fetched : c = outcome.closest
    BY <2>1, <2>2, ClosestIs
  <2>4. PICK request \in Recorded : request = fetched[c]
    BY <2>1, ElementOf
  <2>5. EvalPredicates(predicates, request) = "false"
    <3>1. DOMAIN fetched = 1..Len(fetched) /\ Len(fetched) \in Nat
      BY <2>1
    <3>2. IsFiniteSet(matching)
      BY <3>1, Counting
    <3>3. matching = {}
      <4> HIDE DEF matching
      <4> QED BY <2>2, <3>2, FS_EmptySet
    <3>4. EvalPredicates(predicates, request) \notin {"true", "threw"}
      BY <2>2, <2>4, <3>3
    <3> QED BY <2>1, <3>4, EvalPredicatesIs DEF Verdicts
  <2>6. PICK k \in DOMAIN predicates : Evaluation(request)[predicates[k]] = "false"
    BY <2>1, <2>5, EvalPredicatesIs
  <2>7. PICK p \in Predicates : p = predicates[k]
    BY <2>1, ElementOf
  <2> DEFINE all == CollectLeafDetails(predicates, request)
             own == Details(request)[p]
  <2>8. \A i \in DOMAIN own : \E j \in DOMAIN all : all[j] = own[i]
    <3>1. \A v : IsIn(v, all) <=> \E m \in DOMAIN predicates : IsIn(v, Details(request)[predicates[m]])
      BY <2>1, DetailsCollected
    <3>2. \A v : IsIn(v, own) => IsIn(v, all)
      BY <2>7, <3>1
    <3> HIDE DEF own, all
    <3> QED BY <3>2 DEF IsIn
  <2>9. Mapped(own)
    <3>1. Mapped(all)
      BY <2>2, <2>4
    <3> HIDE DEF own, all
    <3> QED BY <2>8, <3>1 DEF Mapped
  <2>10. HasEmptyOr(p) \/ \E i \in DOMAIN own : own[i] = "false"
    BY <2>6, <2>7, <2>9, FailureHasDetail
  <2>11. HasEmptyOr(predicates[k]) \/ "false" \in ToSet(all)
    <3> HIDE DEF own, all
    <3>1. (\E i \in DOMAIN own : own[i] = "false") => "false" \in ToSet(all)
      BY <2>8 DEF ToSet
    <3> QED BY <2>7, <2>10, <3>1
  <2> QED BY <2>3, <2>4, <2>11
<1> QED BY <1>1, Inductive, PTL

\* The request that is named satisfies the greatest fraction of the clauses, and is
\* the most recent of those that do (verify/eval.ts:131-159).
THEOREM ClosestWins == Spec => []ClosestIsBest
<1>1. Invariant => ClosestIsBest
  <2> SUFFICES ASSUME Invariant, outcome.closest # 0, Uniform(fetched),
                      NEW k \in DOMAIN fetched \ {outcome.closest}
               PROVE  Beats(predicates, fetched, outcome.closest, k)
    BY DEF ClosestIsBest, Uniform, Beats
  <2>1. predicates \in Seq(Predicates) /\ fetched \in Seq(Recorded) /\ fetched # <<>>
    BY DEF Invariant, TypeInvariant
  <2>2. outcome = Conclude(predicates, count, fetched)
    BY DEF Invariant
  <2>3. outcome.closest = ComputeClosest(predicates, fetched)
    BY <2>2, ConcludeIs
  <2> QED BY <2>1, <2>3, ClosestIs
<1> QED BY <1>1, Inductive, PTL

-----------------------------------------------------------------------------
(* deepEquals.                                                             *)

\* Keys that collide inside a value, collide in it.
LEMMA NoCollision ==
  ASSUME NEW v \in Actuals, ~KeysCollide(v)
  PROVE  /\ v.type = "object" =>
              /\ \A j, k \in DOMAIN v.entries :
                   Lower[v.entries[j][1]] = Lower[v.entries[k][1]] => j = k
              /\ \A k \in DOMAIN v.entries : ~KeysCollide(v.entries[k][2])
         /\ v.type = "array" => \A k \in DOMAIN v.items : ~KeysCollide(v.items[k])
<1> DEFINE All     == [Values -> BOOLEAN]
           step(g) == [w \in Values |-> Collision(g, w)]
           F       == [g \in All |-> step(g)]
           it      == CHOOSE g : g = step(g)
<1>1. \A g \in All : F[g] = step(g) /\ step(g) \in All
  BY DEF Collision
<1>2. F \in [All -> All]
  BY <1>1
<1> HIDE DEF F
<1>3. IsLocal(F, Values, BOOLEAN, Depth)
  <2>1. ASSUME NEW g \in All, NEW h \in All, NEW w \in Values,
               \A x \in Values : Depth[x] < Depth[w] => g[x] = h[x]
        PROVE  F[g][w] = F[h][w]
    <3>1. w.type = "object" => \A k \in DOMAIN w.entries : g[w.entries[k][2]] = h[w.entries[k][2]]
      BY <2>1, ObjectEntries DEF Actuals
    <3>2. w.type = "array" => \A k \in DOMAIN w.items : g[w.items[k]] = h[w.items[k]]
      BY <2>1, ArrayItems DEF Actuals
    <3>3. Collision(g, w) = Collision(h, w)
      BY <3>1, <3>2 DEF Collision
    <3>4. F[g] = step(g) /\ F[h] = step(h)
      BY <1>1
    <3>5. step(g)[w] = Collision(g, w) /\ step(h)[w] = Collision(h, w)
      OBVIOUS
    <3> HIDE DEF step
    <3> QED BY <3>3, <3>4, <3>5
  <2> QED BY <1>2, <2>1, StringsAndValues DEF IsLocal, ValuesAssumption
<1>4. PICK f \in All : f = F[f]
  <2>1. BOOLEAN # {}
    OBVIOUS
  <2> QED BY <1>3, <2>1, RankRecursion
<1>5. f = step(f)
  BY <1>1, <1>4
<1>6. it = step(it)
  <2> HIDE DEF step
  <2> QED BY <1>5
<1>7. \A w \in Values : KeysCollide(w) <=> it[w]
  BY DEF KeysCollide
<1> HIDE DEF it
<1>8. \A w \in Values : step(it)[w] = Collision(it, w)
  OBVIOUS
<1> HIDE DEF step
<1>9. \A w \in Values : it[w] = Collision(it, w)
  BY <1>6, <1>8
<1>10. ASSUME v.type = "object"
       PROVE  /\ \A j, k \in DOMAIN v.entries :
                   Lower[v.entries[j][1]] = Lower[v.entries[k][1]] => j = k
              /\ \A k \in DOMAIN v.entries : ~KeysCollide(v.entries[k][2])
  <2>1. v \in Values /\ \A k \in DOMAIN v.entries : v.entries[k][2] \in Values
    BY <1>10, ObjectEntries
  <2>2. ~Collision(it, v)
    BY <1>7, <1>9, <2>1
  <2>3. \A k \in DOMAIN v.entries : ~it[v.entries[k][2]]
    BY <1>10, <2>2 DEF Collision
  <2> QED BY <1>7, <1>10, <2>1, <2>2, <2>3 DEF Collision
<1>11. ASSUME v.type = "array" PROVE \A k \in DOMAIN v.items : ~KeysCollide(v.items[k])
  <2>1. v \in Values /\ \A k \in DOMAIN v.items : v.items[k] \in Values
    BY <1>11, ArrayItems
  <2>2. ~Collision(it, v)
    BY <1>7, <1>9, <2>1
  <2>3. \A k \in DOMAIN v.items : ~it[v.items[k]]
    BY <1>11, <2>2 DEF Collision
  <2> QED BY <1>7, <2>1, <2>3
<1> QED BY <1>10, <1>11

LEMMA AlikeLocal ==
  ASSUME NEW g, NEW h, NEW v, NEW w \in Values, NEW params,
         \A x \in Values : Depth[x] < Depth[w] => g[x] = h[x]
  PROVE  Alike(g, v, w, params) <=> Alike(h, v, w, params)
<1>1. CASE w.type = "array"
  <2>1. \A k \in DOMAIN w.items : g[w.items[k]] = h[w.items[k]]
    BY <1>1, ArrayItems DEF Actuals
  <2> QED BY <1>1, <2>1 DEF Alike
<1>2. CASE w.type = "object"
  <2>1. \A k \in DOMAIN w.entries : g[w.entries[k][2]] = h[w.entries[k][2]]
    BY <1>2, ObjectEntries DEF Actuals
  <2> QED BY <1>2, <2>1 DEF Alike
<1>3. CASE w.type \notin {"array", "object"}
  BY <1>3 DEF Alike
<1> QED BY <1>1, <1>2, <1>3

\* The reference equality is what its equation says.
LEMMA SamenessIs ==
  ASSUME NEW params
  PROVE  \A w \in Values : Sameness(params)[w] = {v \in Actuals : Alike(Sameness(params), v, w, params)}
<1> DEFINE V       == SUBSET Actuals
           All     == [Values -> V]
           step(g) == [w \in Values |-> {v \in Actuals : Alike(g, v, w, params)}]
           F       == [g \in All |-> step(g)]
           it      == Sameness(params)
<1>1. \A g \in All : F[g] = step(g) /\ step(g) \in All
  OBVIOUS
<1>2. F \in [All -> All]
  BY <1>1
<1> HIDE DEF F
<1>3. IsLocal(F, Values, V, Depth)
  <2>1. ASSUME NEW g \in All, NEW h \in All, NEW w \in Values,
               \A x \in Values : Depth[x] < Depth[w] => g[x] = h[x]
        PROVE  F[g][w] = F[h][w]
    <3>1. step(g)[w] = step(h)[w]
      BY <2>1, AlikeLocal
    <3>2. F[g] = step(g) /\ F[h] = step(h)
      BY <1>1
    <3> HIDE DEF step
    <3> QED BY <3>1, <3>2
  <2> QED BY <1>2, <2>1, StringsAndValues DEF IsLocal, ValuesAssumption
<1>4. PICK f \in All : f = F[f]
  <2>1. V # {}
    OBVIOUS
  <2> QED BY <1>3, <2>1, RankRecursion
<1>5. f = step(f)
  BY <1>1, <1>4
<1>6. it = step(it)
  <2>1. it = CHOOSE g : g = step(g)
    BY DEF Sameness
  <2> HIDE DEF step, it
  <2> QED BY <1>5, <2>1
<1>7. \A w \in Values : step(it)[w] = {v \in Actuals : Alike(it, v, w, params)}
  <2> HIDE DEF it
  <2> QED OBVIOUS
<1> HIDE DEF step
<1> QED BY <1>6, <1>7

LEMMA MistakenLocal ==
  ASSUME NEW g, NEW h, NEW v, NEW w \in Values, NEW params,
         \A x \in Values : Depth[x] < Depth[w] => g[x] = h[x]
  PROVE  Mistaken(g, v, w, params) <=> Mistaken(h, v, w, params)
<1>1. CASE w.type = "array"
  <2>1. \A k \in DOMAIN w.items : g[w.items[k]] = h[w.items[k]]
    BY <1>1, ArrayItems DEF Actuals
  <2> QED BY <1>1, <2>1 DEF Mistaken
<1>2. CASE w.type = "object"
  <2>1. \A k \in DOMAIN w.entries : g[w.entries[k][2]] = h[w.entries[k][2]]
    BY <1>2, ObjectEntries DEF Actuals
  <2> QED BY <1>2, <2>1 DEF Mistaken
<1>3. CASE w.type \notin {"array", "object"}
  BY <1>3 DEF Mistaken
<1> QED BY <1>1, <1>2, <1>3

\* What is taken for a string is what its equation says.
LEMMA MistakesAre ==
  ASSUME NEW params
  PROVE  \A w \in Values : Mistakes(params)[w] = {v \in Actuals : Mistaken(Mistakes(params), v, w, params)}
<1> DEFINE V       == SUBSET Actuals
           All     == [Values -> V]
           step(g) == [w \in Values |-> {v \in Actuals : Mistaken(g, v, w, params)}]
           F       == [g \in All |-> step(g)]
           it      == Mistakes(params)
<1>1. \A g \in All : F[g] = step(g) /\ step(g) \in All
  OBVIOUS
<1>2. F \in [All -> All]
  BY <1>1
<1> HIDE DEF F
<1>3. IsLocal(F, Values, V, Depth)
  <2>1. ASSUME NEW g \in All, NEW h \in All, NEW w \in Values,
               \A x \in Values : Depth[x] < Depth[w] => g[x] = h[x]
        PROVE  F[g][w] = F[h][w]
    <3>1. step(g)[w] = step(h)[w]
      BY <2>1, MistakenLocal
    <3>2. F[g] = step(g) /\ F[h] = step(h)
      BY <1>1
    <3> HIDE DEF step
    <3> QED BY <3>1, <3>2
  <2> QED BY <1>2, <2>1, StringsAndValues DEF IsLocal, ValuesAssumption
<1>4. PICK f \in All : f = F[f]
  <2>1. V # {}
    OBVIOUS
  <2> QED BY <1>3, <2>1, RankRecursion
<1>5. f = step(f)
  BY <1>1, <1>4
<1>6. it = step(it)
  <2>1. it = CHOOSE g : g = step(g)
    BY DEF Mistakes
  <2> HIDE DEF step, it
  <2> QED BY <1>5, <2>1
<1>7. \A w \in Values : step(it)[w] = {v \in Actuals : Mistaken(it, v, w, params)}
  <2> HIDE DEF it
  <2> QED OBVIOUS
<1> HIDE DEF step
<1> QED BY <1>6, <1>7

\* A relation that reaches every k, from no j twice, needs as many j, and reaches
\* all of them when there are no more.
LEMMA Covering ==
  ASSUME NEW m \in Nat, NEW n \in Nat, NEW R,
         \A k \in 1..n : \E j \in 1..m : <<j, k>> \in R,
         \A j \in 1..m, k \in 1..n, l \in 1..n : <<j, k>> \in R /\ <<j, l>> \in R => k = l
  PROVE  /\ n <= m
         /\ n = m => \A j \in 1..m : \E k \in 1..n : <<j, k>> \in R
<1> DEFINE f == [k \in 1..n |-> CHOOSE j \in 1..m : <<j, k>> \in R]
<1>1. \A k \in 1..n : f[k] \in 1..m /\ <<f[k], k>> \in R
  OBVIOUS
<1>2. f \in [1..n -> 1..m]
  BY <1>1
<1> HIDE DEF f
<1>3. f \in Injection(1..n, 1..m)
  <2>1. \A k, l \in 1..n : f[k] = f[l] => k = l
    BY <1>1
  <2> QED BY <1>2, <2>1 DEF Injection, IsInjective
<1>4. /\ IsFiniteSet(1..m) /\ IsFiniteSet(1..n)
      /\ Cardinality(1..m) = m /\ Cardinality(1..n) = n
  BY FS_Interval
<1>5. n <= m /\ (n = m <=> f \in Surjection(1..n, 1..m))
  BY <1>3, <1>4, FS_Injection
<1>6. ASSUME n = m, NEW j \in 1..m PROVE \E k \in 1..n : <<j, k>> \in R
  <2>1. \E k \in 1..n : f[k] = j
    BY <1>5, <1>6 DEF Surjection
  <2> QED BY <1>1, <2>1
<1> QED BY <1>5, <1>6

\* A relation that reaches nothing twice.
OneToOne(m, n, R) ==
  /\ \A j \in 1..m, k \in 1..n, l \in 1..n : <<j, k>> \in R /\ <<j, l>> \in R => k = l
  /\ \A i \in 1..m, j \in 1..m, k \in 1..n : <<i, k>> \in R /\ <<j, k>> \in R => i = j
CoversLeft(m, n, R)  == \A j \in 1..m : \E k \in 1..n : <<j, k>> \in R
CoversRight(m, n, R) == \A k \in 1..n : \E j \in 1..m : <<j, k>> \in R

\* When both sides are covered, there are as many.
LEMMA Matching ==
  ASSUME NEW m \in Nat, NEW n \in Nat, NEW R, OneToOne(m, n, R)
  PROVE  m = n /\ CoversRight(m, n, R) <=> CoversLeft(m, n, R) /\ CoversRight(m, n, R)
<1>1. ASSUME \A k \in 1..n : \E j \in 1..m : <<j, k>> \in R
      PROVE  n <= m /\ (n = m => \A j \in 1..m : \E k \in 1..n : <<j, k>> \in R)
  BY <1>1, Covering DEF OneToOne
<1>2. ASSUME \A j \in 1..m : \E k \in 1..n : <<j, k>> \in R PROVE m <= n
  <2> DEFINE Q == {<<k, j>> : j \in 1..m, k \in 1..n}
             S == {pair \in Q : <<pair[2], pair[1]>> \in R}
  <2>1. \A k \in 1..n, j \in 1..m : <<k, j>> \in S <=> <<j, k>> \in R
    OBVIOUS
  <2> HIDE DEF S
  <2>2. \A j \in 1..m : \E k \in 1..n : <<k, j>> \in S
    BY <1>2, <2>1
  <2>3. \A k \in 1..n, i \in 1..m, j \in 1..m : <<k, i>> \in S /\ <<k, j>> \in S => i = j
    BY <2>1 DEF OneToOne
  <2> QED BY <2>2, <2>3, Covering
<1> QED BY <1>1, <1>2 DEF CoversLeft, CoversRight

\* Verdicts that do not throw.
LEMMA EveryVerdict ==
  ASSUME NEW s, DOMAIN s \subseteq Nat, \A k \in DOMAIN s : s[k] \in {"true", "false"}
  PROVE  Every(s) = Verdict(\A k \in DOMAIN s : s[k] = "true")
<1>1. CASE Every(s) = "true"
  BY <1>1, EveryIs DEF Verdict
<1>2. CASE Every(s) # "true"
  <2>1. \E k \in DOMAIN s : s[k] = Every(s)
    BY <1>2, EveryIs
  <2>2. Every(s) = "false"
    BY <1>2, <2>1
  <2> QED BY <2>1, <2>2 DEF Verdict
<1> QED BY <1>1, <1>2

LEMMA VerdictIs == \A test : /\ Verdict(test) = "true" <=> test
                             /\ Verdict(test) = "false" <=> ~test
BY DEF Verdict

\* No two keys of a value are the same, as the parameters fold them.
Clear(v, params) == params.keyCaseSensitive \/ ~KeysCollide(v)

LEMMA UniqueKeys ==
  ASSUME NEW params, NEW v \in Actuals, v.type = "object", Clear(v, params)
  PROVE  \A j, k \in DOMAIN v.entries :
           FoldedKey(v.entries[j][1], params) = FoldedKey(v.entries[k][1], params) => j = k
<1>1. CASE params.keyCaseSensitive
  BY <1>1, ObjectEntries DEF FoldedKey
<1>2. CASE ~params.keyCaseSensitive
  <2>1. ~KeysCollide(v)
    BY <1>2 DEF Clear
  <2> QED BY <1>2, <2>1, NoCollision DEF FoldedKey
<1> QED BY <1>1, <1>2

\* Whether a comparison is exact.
IsExact(exact) == exact = TRUE

\* The comparison g and the equality of two values agree.
Agree(g, same, v, w) == g[w][v] = Verdict(v \in same[w])
ItemsAgree(g, same, v, w) ==
  Len(v.items) = Len(w.items) => \A k \in DOMAIN w.items : Agree(g, same, v.items[k], w.items[k])
EntriesAgree(g, same, v, w, params) ==
  \A j \in DOMAIN v.entries, k \in DOMAIN w.entries :
    FoldedKey(v.entries[j][1], params) = FoldedKey(w.entries[k][1], params) =>
      Agree(g, same, v.entries[j][2], w.entries[k][2])

AgreeBelow(g, same, mistaken, w, params) ==
  \A x \in Values, y \in Actuals :
    Depth[x] < Depth[w] /\ Clear(x, params) /\ Clear(y, params) /\ y \notin mistaken[x] =>
      Agree(g, same, y, x)

LEMMA ArraysCompared ==
  ASSUME NEW g, NEW same, NEW params, NEW exact, IsExact(exact),
         NEW a \in Actuals, a.type = "array", NEW e \in Values, e.type = "array",
         ItemsAgree(g, same, a, e)
  PROVE  Compare(g, a, e, exact, params) = Verdict(Alike(same, a, e, params))
<1> DEFINE s == [k \in DOMAIN e.items |-> g[e.items[k]][a.items[k]]]
<1>1. Len(a.items) \in Nat /\ Len(e.items) \in Nat /\ DOMAIN e.items = 1..Len(e.items)
  BY ArrayItems DEF Actuals
<1>2. CASE Len(a.items) # Len(e.items)
  <2>1. Compare(g, a, e, exact, params) = "false"
    BY <1>2 DEF Compare, IsExact
  <2>2. ~Alike(same, a, e, params)
    BY <1>2 DEF Alike
  <2> QED BY <2>1, <2>2 DEF Verdict
<1>3. CASE Len(a.items) = Len(e.items)
  <2>1. Compare(g, a, e, exact, params) = Every(s)
    BY <1>1, <1>3 DEF Compare, IsExact
  <2>2. Alike(same, a, e, params) <=> \A k \in DOMAIN e.items : a.items[k] \in same[e.items[k]]
    BY <1>3 DEF Alike
  <2>3. DOMAIN s = DOMAIN e.items
          /\ \A k \in DOMAIN e.items : s[k] = Verdict(a.items[k] \in same[e.items[k]])
    BY <1>3 DEF Agree, ItemsAgree
  <2> HIDE DEF s
  <2>4. /\ DOMAIN s \subseteq Nat
        /\ \A k \in DOMAIN s : s[k] \in {"true", "false"}
        /\ \A k \in DOMAIN s : s[k] = "true" <=> a.items[k] \in same[e.items[k]]
    BY <1>1, <2>3, VerdictIs DEF Verdict
  <2>5. Every(s) = Verdict(\A k \in DOMAIN s : s[k] = "true")
    BY <2>4, EveryVerdict
  <2>6. (\A k \in DOMAIN s : s[k] = "true") <=> Alike(same, a, e, params)
    BY <2>2, <2>3, <2>4
  <2>7. Every(s) \in {"true", "false"} /\ (Every(s) = "true" <=> Alike(same, a, e, params))
    BY <2>5, <2>6, VerdictIs DEF Verdict
  <2> QED BY <2>1, <2>7 DEF Verdict
<1> QED BY <1>2, <1>3

LEMMA ObjectsCompared ==
  ASSUME NEW g, NEW same, NEW params, NEW exact, IsExact(exact),
         NEW a \in Actuals, a.type = "object", Clear(a, params),
         NEW e \in Values, e.type = "object", Clear(e, params),
         EntriesAgree(g, same, a, e, params)
  PROVE  Compare(g, a, e, exact, params) = Verdict(Alike(same, a, e, params))
<1> DEFINE found(k) == FindKey(a.entries, e.entries[k][1], params)
           s == [k \in DOMAIN e.entries |->
                   LET v == FindKey(a.entries, e.entries[k][1], params)
                   IN  IF v = Undefined THEN "false" ELSE g[e.entries[k][2]][v]]
           m == Len(a.entries)
           n == Len(e.entries)
           key(j, k) == FoldedKey(a.entries[j][1], params) = FoldedKey(e.entries[k][1], params)
           paired(j, k) == key(j, k) /\ a.entries[j][2] \in same[e.entries[k][2]]
           R == {pair \in (1..m) \X (1..n) : paired(pair[1], pair[2])}
<1>1. /\ m \in Nat /\ n \in Nat /\ DOMAIN a.entries = 1..m /\ DOMAIN e.entries = 1..n
      /\ a.entries \in Seq(Strings \X Values)
      /\ \A j \in 1..m : a.entries[j][2] \in Values
  BY ObjectEntries DEF Actuals
<1>2. \A j, k \in DOMAIN a.entries :
        FoldedKey(a.entries[j][1], params) = FoldedKey(a.entries[k][1], params) => j = k
  BY UniqueKeys
<1>3. \A j, k \in DOMAIN e.entries :
        FoldedKey(e.entries[j][1], params) = FoldedKey(e.entries[k][1], params) => j = k
  BY UniqueKeys DEF Actuals
<1>4. \A j \in 1..m, k \in 1..n : <<j, k>> \in R <=> paired(j, k)
  OBVIOUS
<1>5. Alike(same, a, e, params)
        <=> /\ \A j \in DOMAIN a.entries : \E k \in DOMAIN e.entries : paired(j, k)
            /\ \A k \in DOMAIN e.entries : \E j \in DOMAIN a.entries : paired(j, k)
  BY DEF Alike
<1>6. Compare(g, a, e, exact, params) = IF m # n THEN "false" ELSE Every(s)
  BY DEF Compare, IsExact
<1>7. m = n /\ (\A k \in 1..n : \E j \in 1..m : paired(j, k)) <=> Alike(same, a, e, params)
  <2>1. \A j \in 1..m, k \in 1..n, l \in 1..n : <<j, k>> \in R /\ <<j, l>> \in R => k = l
    BY <1>1, <1>3, <1>4
  <2>2. \A i \in 1..m, j \in 1..m, k \in 1..n : <<i, k>> \in R /\ <<j, k>> \in R => i = j
    BY <1>1, <1>2, <1>4
  <2> HIDE DEF R, paired, m, n
  <2>3. m = n /\ (\A k \in 1..n : \E j \in 1..m : <<j, k>> \in R)
          <=> /\ \A j \in 1..m : \E k \in 1..n : <<j, k>> \in R
              /\ \A k \in 1..n : \E j \in 1..m : <<j, k>> \in R
    <3>1. m \in Nat /\ n \in Nat /\ OneToOne(m, n, R)
      BY <1>1, <2>1, <2>2 DEF OneToOne
    <3>2. m = n /\ CoversRight(m, n, R) <=> CoversLeft(m, n, R) /\ CoversRight(m, n, R)
      BY <3>1, Matching
    <3> QED BY <3>2 DEF CoversLeft, CoversRight
  <2> QED BY <1>1, <1>4, <1>5, <2>3
<1>8. ASSUME NEW k \in 1..n
      PROVE  s[k] = Verdict(\E j \in 1..m : paired(j, k))
  <2>1. s[k] = IF found(k) = Undefined THEN "false" ELSE g[e.entries[k][2]][found(k)]
    BY <1>1
  <2>2. /\ found(k) = Undefined => \A j \in DOMAIN a.entries : ~key(j, k)
        /\ found(k) # Undefined => \E j \in DOMAIN a.entries : key(j, k) /\ found(k) = a.entries[j][2]
    <3>1. PICK wanted : wanted = e.entries[k][1]
      OBVIOUS
    <3>2. PICK entries \in Seq(Strings \X Values) : entries = a.entries
      BY <1>1
    <3>3. /\ FindKey(entries, wanted, params) = Undefined =>
               \A j \in DOMAIN entries : FoldedKey(entries[j][1], params) # FoldedKey(wanted, params)
          /\ FindKey(entries, wanted, params) # Undefined =>
               \E j \in DOMAIN entries : /\ FoldedKey(entries[j][1], params) = FoldedKey(wanted, params)
                                        /\ FindKey(entries, wanted, params) = entries[j][2]
      BY FindKeyIs
    <3> QED BY <3>1, <3>2, <3>3
  <2>3. CASE found(k) = Undefined
    <3>1. ~(\E j \in 1..m : paired(j, k))
      BY <1>1, <2>2, <2>3
    <3> HIDE DEF paired, found, s
    <3> QED BY <2>1, <2>3, <3>1, VerdictIs
  <2>4. CASE found(k) # Undefined
    <3>1. PICK j \in DOMAIN a.entries : key(j, k) /\ found(k) = a.entries[j][2]
      BY <2>2, <2>4
    <3>2. s[k] = Verdict(a.entries[j][2] \in same[e.entries[k][2]])
      <4>1. Agree(g, same, a.entries[j][2], e.entries[k][2])
        BY <1>1, <3>1 DEF EntriesAgree
      <4> HIDE DEF s, found
      <4> QED BY <2>1, <2>4, <3>1, <4>1 DEF Agree
    <3>3. \A i \in DOMAIN a.entries : key(i, k) => i = j
      BY <1>2, <3>1
    <3>4. (\E i \in 1..m : paired(i, k)) <=> a.entries[j][2] \in same[e.entries[k][2]]
      BY <1>1, <3>1, <3>3
    <3> HIDE DEF paired, s
    <3> QED BY <3>2, <3>4 DEF Verdict
  <2> QED BY <2>3, <2>4
<1>9. DOMAIN s = 1..n
  BY <1>1
<1> HIDE DEF s, paired, m, n
<1>10. /\ DOMAIN s \subseteq Nat
       /\ \A k \in DOMAIN s : s[k] \in {"true", "false"}
       /\ \A k \in DOMAIN s : s[k] = "true" <=> \E j \in 1..m : paired(j, k)
  BY <1>1, <1>8, <1>9, VerdictIs DEF Verdict
<1>11. Every(s) = Verdict(\A k \in DOMAIN s : s[k] = "true")
  BY <1>10, EveryVerdict
<1>12. (\A k \in DOMAIN s : s[k] = "true") <=> \A k \in 1..n : \E j \in 1..m : paired(j, k)
  BY <1>9, <1>10
<1>13. CASE m # n
  BY <1>6, <1>7, <1>13 DEF Verdict
<1>14. CASE m = n
  BY <1>6, <1>7, <1>11, <1>12, <1>14 DEF Verdict
<1> QED BY <1>13, <1>14

\* A comparison that agrees with the equality of the values inside, agrees with that
\* of the values.
LEMMA AgreeAbove ==
  ASSUME NEW g, NEW same, NEW params, NEW exact, IsExact(exact), params.except = "none",
         NEW w \in Values, Clear(w, params), NEW v \in Actuals, Clear(v, params),
         NEW mistaken, ~Mistaken(mistaken, v, w, params), AgreeBelow(g, same, mistaken, w, params)
  PROVE  Compare(g, v, w, exact, params) = Verdict(Alike(same, v, w, params))
<1>0. w \in Actuals
  BY DEF Actuals
<1>1. CASE w.type = "array"
  <2>1. CASE v.type = "array"
    <3>1. ASSUME Len(v.items) = Len(w.items), NEW k \in DOMAIN w.items
          PROVE  Agree(g, same, v.items[k], w.items[k])
      <4>1. w.items[k] \in Values /\ Depth[w.items[k]] < Depth[w]
        BY <1>0, <1>1, ArrayItems
      <4>2. k \in DOMAIN v.items
        BY <1>0, <1>1, <2>1, <3>1, ArrayItems
      <4>3. v.items[k] \in Actuals
        BY <2>1, <4>2, ArrayItems DEF Actuals
      <4>4. Clear(w.items[k], params)
        BY <1>0, <1>1, NoCollision DEF Clear
      <4>5. Clear(v.items[k], params)
        BY <2>1, <4>2, NoCollision DEF Clear
      <4>6. v.items[k] \notin mistaken[w.items[k]]
        BY <1>1, <2>1, <4>2 DEF Mistaken
      <4> QED BY <4>1, <4>3, <4>4, <4>5, <4>6 DEF AgreeBelow
    <3>2. ItemsAgree(g, same, v, w)
      BY <3>1 DEF ItemsAgree
    <3> QED BY <1>1, <2>1, <3>2, ArraysCompared
  <2>2. CASE v.type # "array"
    <3>1. Compare(g, v, w, exact, params) = "false"
      BY <1>1, <2>2 DEF Compare
    <3>2. ~Alike(same, v, w, params)
      BY <1>1, <2>2 DEF Alike
    <3> QED BY <3>1, <3>2 DEF Verdict
  <2> QED BY <2>1, <2>2
<1>2. CASE w.type = "object"
  <2>1. CASE v.type = "object"
    <3>1. ASSUME NEW j \in DOMAIN v.entries, NEW k \in DOMAIN w.entries,
                 FoldedKey(v.entries[j][1], params) = FoldedKey(w.entries[k][1], params)
          PROVE  Agree(g, same, v.entries[j][2], w.entries[k][2])
      <4>1. w.entries[k][2] \in Values /\ Depth[w.entries[k][2]] < Depth[w]
        BY <1>0, <1>2, ObjectEntries
      <4>2. v.entries[j][2] \in Actuals
        BY <2>1, ObjectEntries DEF Actuals
      <4>3. Clear(w.entries[k][2], params)
        BY <1>0, <1>2, NoCollision DEF Clear
      <4>4. Clear(v.entries[j][2], params)
        BY <2>1, NoCollision DEF Clear
      <4>5. v.entries[j][2] \notin mistaken[w.entries[k][2]]
        BY <1>2, <2>1, <3>1 DEF Mistaken
      <4> QED BY <4>1, <4>2, <4>3, <4>4, <4>5 DEF AgreeBelow
    <3>2. EntriesAgree(g, same, v, w, params)
      BY <3>1 DEF EntriesAgree
    <3> QED BY <1>2, <2>1, <3>2, ObjectsCompared
  <2>2. CASE v.type # "object"
    <3>1. Compare(g, v, w, exact, params) = "false"
      BY <1>2, <2>2 DEF Compare
    <3>2. ~Alike(same, v, w, params)
      BY <1>2, <2>2 DEF Alike
    <3> QED BY <3>1, <3>2 DEF Verdict
  <2> QED BY <2>1, <2>2
<1>3. CASE w.type = "string"
  <2>1. Compare(g, v, w, exact, params) = StringCompare("equals", ToStr(v), w.value, params)
    BY <1>3 DEF Compare
  <2>2. StringCompare("equals", ToStr(v), w.value, params)
          = Verdict(Folded(ToStr(v), params) = Folded(w.value, params))
    BY DEF StringCompare
  <2>3. CASE v.type = "string"
    <3>1. Alike(same, v, w, params) <=> Folded(ToStr(v), params) = Folded(w.value, params)
      BY <1>3, <2>3 DEF Alike, ToStr
    <3> QED BY <2>1, <2>2, <3>1 DEF Verdict
  <2>4. CASE v.type # "string"
    <3>1. ~Alike(same, v, w, params)
      BY <1>3, <2>4 DEF Alike
    <3>2. Folded(ToStr(v), params) # Folded(w.value, params)
      BY <1>3, <2>4 DEF Mistaken
    <3> QED BY <2>1, <2>2, <3>1, <3>2 DEF Verdict
  <2> QED BY <2>3, <2>4
<1>4. CASE w.type \notin {"array", "object", "string"}
  <2>1. Compare(g, v, w, exact, params) = Verdict(v = w)
    BY <1>4 DEF Compare
  <2>2. Alike(same, v, w, params) <=> v = w
    BY <1>4 DEF Alike
  <2> QED BY <2>1, <2>2 DEF Verdict
<1> QED BY <1>1, <1>2, <1>3, <1>4

\* The exact comparison of bodies is the equality of JSON values, where none is
\* taken for a string.
LEMMA ComparedIsSame ==
  ASSUME NEW params, NEW exact, IsExact(exact), params.except = "none",
         NEW e \in Values, Clear(e, params), NEW a \in Actuals, Clear(a, params),
         a \notin Mistakes(params)[e]
  PROVE  Comparison(exact, params)[e][a] = Verdict(a \in Sameness(params)[e])
<1>1. PICK g : g = Comparison(exact, params)
  OBVIOUS
<1>2. PICK same : same = Sameness(params)
  OBVIOUS
<1>0. PICK mistaken : mistaken = Mistakes(params)
  OBVIOUS
<1> DEFINE T == {w \in Values : \A v \in Actuals :
                   Clear(w, params) /\ Clear(v, params) /\ v \notin mistaken[w] => Agree(g, same, v, w)}
<1>3. ASSUME NEW w \in Values, \A x \in Values : Depth[x] < Depth[w] => x \in T,
             NEW v \in Actuals, Clear(w, params), Clear(v, params), v \notin mistaken[w]
      PROVE  Agree(g, same, v, w)
  <2>1. g[w][v] = Compare(g, v, w, exact, params)
    BY <1>1, ComparisonIs
  <2>2. v \in same[w] <=> Alike(same, v, w, params)
    BY <1>2, SamenessIs
  <2>3. AgreeBelow(g, same, mistaken, w, params)
    BY <1>3 DEF AgreeBelow
  <2>5. ~Mistaken(mistaken, v, w, params)
    BY <1>0, <1>3, MistakesAre
  <2> HIDE DEF T
  <2>4. Compare(g, v, w, exact, params) = Verdict(Alike(same, v, w, params))
    BY <1>3, <2>3, <2>5, AgreeAbove
  <2> QED BY <2>1, <2>2, <2>4 DEF Agree, Verdict
<1>4. Values \subseteq T
  <2>1. ASSUME NEW w \in Values, \A x \in Values : Depth[x] < Depth[w] => x \in T PROVE w \in T
    BY <1>3, <2>1
  <2>2. Depth \in [Values -> Nat]
    BY StringsAndValues DEF ValuesAssumption
  <2> HIDE DEF T
  <2> QED BY <2>1, <2>2, RankInduction
<1>5. Agree(g, same, a, e)
  BY <1>0, <1>4
<1> QED BY <1>1, <1>2, <1>5 DEF Agree

\* deepEquals on a body is structural equality, not containment, under every setting
\* of the two case parameters (verify/eval.ts:337-356); except for keys that are
\* the same once folded, and for a string that faces another value printing as it.
THEOREM DeepEqualsExact == Spec => []DeepEqualsIsExact
<1>1. Invariant => DeepEqualsIsExact
  <2> SUFFICES ASSUME Invariant, NEW k \in DOMAIN fetched, NEW leaf \in Leaves,
                      leaf.params.except = "none", leaf.params.jsonpath = <<>>,
                      NEW n \in DOMAIN leaf.clauses,
                      leaf.clauses[n].field = "body", IsComposite(leaf.clauses[n].expected),
                      leaf.params.keyCaseSensitive
                        \/ (~KeysCollide(fetched[k].body) /\ ~KeysCollide(leaf.clauses[n].expected)),
                      ~MistakenForString(fetched[k].body, leaf.clauses[n].expected, leaf.params)
               PROVE  EvalField("deepEquals", leaf.clauses[n], fetched[k], leaf.params)
                        = Verdict(SameJson(fetched[k].body, leaf.clauses[n].expected, leaf.params))
    BY DEF DeepEqualsIsExact
  <2>1. fetched \in Seq(Recorded)
    BY DEF Invariant, TypeInvariant
  <2>2. PICK request \in Recorded : request = fetched[k]
    BY <2>1, ElementOf
  <2>3. PICK clause : clause = leaf.clauses[n]
    OBVIOUS
  <2>4. PICK params : params = leaf.params
    OBVIOUS
  <2>5. clause.expected \in Values
    <3> DEFINE Clauses == [field : Fields \cup {"unknown"}, key : Strings, expected : Values]
    <3>1. leaf.clauses \in Seq(Clauses)
      BY InUse DEF LeavesAssumption
    <3>2. leaf.clauses[n] \in Clauses
      <4> HIDE DEF Clauses
      <4> QED BY <3>1, ElementOf
    <3> QED BY <2>3, <3>2
  <2>6. request.body \in Actuals
    BY RecordedJournaled
  <2>7. PICK exact : exact = ("deepEquals" = "deepEquals")
    OBVIOUS
  <2>8. EvalField("deepEquals", clause, request, params)
          = CompareBody(request.body, clause.expected, exact, params)
    <3>1. LookupActual(clause, request, params) = request.body
      BY <2>3 DEF LookupActual
    <3>2. clause.field \in Fields /\ DOMAIN params.jsonpath = {}
      BY <2>3, <2>4 DEF Fields
    <3> QED BY <2>3, <2>4, <2>7, <3>1, <3>2 DEF EvalField
  <2>9. Clear(clause.expected, params) /\ Clear(request.body, params)
    BY <2>2, <2>3, <2>4 DEF Clear
  <2>10. Comparison(exact, params)[clause.expected][request.body]
           = Verdict(request.body \in Sameness(params)[clause.expected])
    <3>1. IsExact(exact)
      BY <2>7 DEF IsExact
    <3>2. params.except = "none"
      BY <2>4
    <3>3. request.body \notin Mistakes(params)[clause.expected]
      BY <2>2, <2>3, <2>4 DEF MistakenForString
    <3> QED BY <2>5, <2>6, <2>9, <3>1, <3>2, <3>3, ComparedIsSame
  <2>11. EvalField("deepEquals", clause, request, params)
           = Verdict(SameJson(request.body, clause.expected, params))
    BY <2>8, <2>10 DEF CompareBody, SameJson
  <2> QED BY <2>2, <2>3, <2>4, <2>11
<1> QED BY <1>1, Inductive, PTL
=============================================================================
