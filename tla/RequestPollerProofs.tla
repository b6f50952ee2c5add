------------------------ MODULE RequestPollerProofs ------------------------
(***************************************************************************)
(* Theorems about RequestPoller, for any number of requests and any        *)
(* predicates.                                                             *)
(***************************************************************************)
EXTENDS RequestPoller, TLAPS

-----------------------------------------------------------------------------
(* Increasing sequences of numbers.                                        *)

LEMMA InDomain ==
  ASSUME NEW s \in Seq(Nat)
  PROVE  /\ Len(s) \in Nat /\ DOMAIN s = 1..Len(s)
         /\ \A k \in 1..Len(s) : s[k] \in Nat
OBVIOUS

LEMMA AppendIncreasing ==
  ASSUME NEW s \in Seq(Nat), NEW x \in Nat, Increasing(s), \A j \in 1..Len(s) : s[j] < x
  PROVE  /\ Append(s, x) \in Seq(Nat) /\ Increasing(Append(s, x))
         /\ \A j \in 1..Len(Append(s, x)) : Append(s, x)[j] <= x
<1> DEFINE t == Append(s, x)
<1>1. /\ t \in Seq(Nat) /\ Len(t) = Len(s) + 1 /\ DOMAIN t = 1..(Len(s) + 1)
      /\ t[Len(s) + 1] = x /\ \A j \in 1..Len(s) : t[j] = s[j]
  OBVIOUS
<1> HIDE DEF t
<1>2. \A j \in 1..(Len(s) + 1) : j = Len(s) + 1 \/ j \in 1..Len(s)
  BY InDomain
<1>3. \A j \in 1..Len(t) : t[j] <= x
  <2>1. \A j \in 1..Len(s) : s[j] \in Nat
    BY InDomain
  <2>2. QED
    BY <1>1, <1>2, <2>1, SMTT(30)
<1>4. Increasing(t)
  <2> SUFFICES ASSUME NEW i \in 1..(Len(s) + 1), NEW j \in 1..(Len(s) + 1), i < j PROVE t[i] < t[j]
    BY <1>1 DEF Increasing
  <2>1. i \in 1..Len(s)
    BY InDomain
  <2>2. CASE j = Len(s) + 1
    BY <1>1, <2>1, <2>2
  <2>3. CASE j \in 1..Len(s)
    BY <1>1, <2>1, <2>3, InDomain DEF Increasing
  <2>4. QED
    BY <1>2, <2>2, <2>3
<1>5. QED
  BY <1>1, <1>3, <1>4 DEF t

LEMMA TailIncreasing ==
  ASSUME NEW s \in Seq(Nat), s # <<>>, Increasing(s)
  PROVE  /\ Tail(s) \in Seq(Nat) /\ Increasing(Tail(s)) /\ s[1] \in Nat
         /\ \A k \in 1..Len(Tail(s)) : k + 1 \in 1..Len(s) /\ Tail(s)[k] = s[k + 1] /\ s[1] < Tail(s)[k]
<1> DEFINE t == Tail(s)
<1>1. /\ t \in Seq(Nat) /\ Len(t) = Len(s) - 1 /\ DOMAIN t = 1..(Len(s) - 1)
      /\ Len(s) \in Nat /\ Len(s) >= 1
      /\ \A k \in 1..(Len(s) - 1) : t[k] = s[k + 1]
  OBVIOUS
<1> HIDE DEF t
<1>2. Increasing(t)
  <2> SUFFICES ASSUME NEW i \in 1..(Len(s) - 1), NEW j \in 1..(Len(s) - 1), i < j PROVE t[i] < t[j]
    BY <1>1 DEF Increasing
  <2>1. i + 1 \in 1..Len(s) /\ j + 1 \in 1..Len(s) /\ i + 1 < j + 1
    BY <1>1
  <2>2. s[i + 1] < s[j + 1]
    BY <2>1, InDomain DEF Increasing
  <2>3. QED
    BY <1>1, <2>2
<1>3. ASSUME NEW k \in 1..Len(t) PROVE k + 1 \in 1..Len(s) /\ t[k] = s[k + 1] /\ s[1] < t[k]
  <2>1. 1 \in 1..Len(s) /\ k + 1 \in 1..Len(s) /\ 1 < k + 1
    BY <1>1
  <2>2. s[1] < s[k + 1]
    BY <2>1, InDomain DEF Increasing
  <2>3. QED
    BY <1>1, <2>1, <2>2
<1>4. QED
  BY <1>1, <1>2, <1>3 DEF t

-----------------------------------------------------------------------------
(* The journal is a run of consecutive numbers as long as nobody clears a  *)
(* part of it: it is known by its length and the number before its first.  *)

RunFrom(s, before) == s \in Seq(Nat) /\ \A k \in 1..Len(s) : s[k] = before + k

\* The number before the first of the journal.
JournalBefore == recorded - Len(journal)

JournalOK ==
  /\ journal \in Seq(Nat)
  /\ recorded \in Nat
  /\ cursor \in Nat
  /\ Len(journal) <= recorded
  /\ \A k \in 1..Len(journal) : journal[k] = JournalBefore + k

\* What the consumer has been given and will be given of the batch ends at top.
BatchInv(top) ==
  /\ yielded \in Seq(Nat)
  /\ fresh \in Seq(Nat)
  /\ Increasing(yielded)
  /\ Increasing(fresh)
  /\ \A j \in 1..Len(yielded) : yielded[j] <= top
  /\ \A k \in 1..Len(fresh) : fresh[k] <= top
  /\ \A j \in 1..Len(yielded), k \in 1..Len(fresh) : yielded[j] < fresh[k]

\* A run of this length, that follows a list of n requests that ended at top:
\* it was recorded later, or it is the same list, as long or longer.
GoesOn(before, length, n, top) == before >= top \/ (before + n = top /\ n <= length)

\* The journal goes on from the last list taken, or the answer that was not
\* taken yet does, and the journal from the answer.
Pending == pc = "answered" /\ answer.kind = "list"
CursorLinked(top) == GoesOn(JournalBefore, Len(journal), cursor, top)
AnswerLinked(top) ==
  \E before \in Nat :
    /\ RunFrom(answer.list, before)
    /\ GoesOn(before, Len(answer.list), cursor, top)
    /\ GoesOn(JournalBefore, Len(journal), Len(answer.list), before + Len(answer.list))

LinkInv(top) == /\ Pending => AnswerLinked(top)
                /\ ~Pending => CursorLinked(top)

IInv == ~filtered => JournalOK /\ \E top \in Nat : BatchInv(top) /\ LinkInv(top)

LEMMA IInvInit == Init => IInv
<1> SUFFICES ASSUME Init PROVE JournalOK /\ BatchInv(0) /\ LinkInv(0)
  BY DEF IInv
<1>1. recorded \in Nat /\ journal \in Seq(Nat) /\ Len(journal) = recorded
  BY ConstantsAssumption DEF Init
<1>2. BatchInv(0)
  BY DEF Init, BatchInv, Increasing
<1>3. pc = "check" /\ cursor = 0 /\ \A k \in 1..recorded : journal[k] = k
  BY <1>1 DEF Init
<1>4. JournalOK
  BY <1>1, <1>3 DEF JournalOK, JournalBefore
<1>5. LinkInv(0)
  BY <1>1, <1>3 DEF LinkInv, Pending, CursorLinked, GoesOn, JournalBefore
<1>6. QED
  BY <1>2, <1>4, <1>5

\* What a step leaves of the invariant when it changes neither the journal nor
\* the answer nor the cursor.
LEMMA JournalSame ==
  ASSUME NEW top, JournalOK, LinkInv(top), UNCHANGED <<journal, recorded, cursor, answer>>,
         Pending' <=> Pending
  PROVE  JournalOK' /\ LinkInv(top)'
BY DEF JournalOK, JournalBefore, LinkInv, CursorLinked, AnswerLinked, RunFrom, GoesOn

LEMMA BatchSame ==
  ASSUME NEW top, BatchInv(top), UNCHANGED <<yielded, fresh>>
  PROVE  BatchInv(top)'
BY DEF BatchInv, Increasing

\* The answer stays; the journal may grow or start again after what it held.
LEMMA JournalMoves ==
  ASSUME NEW top \in Nat, JournalOK, JournalOK', LinkInv(top), UNCHANGED <<answer, cursor, pc>>,
         \/ JournalBefore' = JournalBefore /\ Len(journal') >= Len(journal)
         \/ JournalBefore' = recorded
  PROVE  LinkInv(top)'
<1>1. /\ JournalBefore \in Nat /\ JournalBefore' \in Nat
      /\ Len(journal) \in Nat /\ Len(journal') \in Nat
      /\ recorded = JournalBefore + Len(journal) /\ cursor \in Nat
  BY DEF JournalOK, JournalBefore
<1>2. ASSUME NEW n \in Nat, NEW m \in Nat, GoesOn(JournalBefore, Len(journal), n, m)
      PROVE  GoesOn(JournalBefore', Len(journal'), n, m)
  <2>1. CASE JournalBefore' = JournalBefore /\ Len(journal') >= Len(journal)
    <3>1. n <= Len(journal) => n <= Len(journal')
      BY <1>1, <2>1
    <3>2. QED
      BY <1>2, <2>1, <3>1 DEF GoesOn
  <2>2. CASE JournalBefore' = recorded
    <3>1. recorded >= m
      BY <1>1, <1>2 DEF GoesOn
    <3>2. QED
      BY <2>2, <3>1 DEF GoesOn
  <2>3. QED
    BY <2>1, <2>2
<1>3. Pending' <=> Pending
  BY DEF Pending
<1>4. CASE ~Pending
  <2>1. GoesOn(JournalBefore', Len(journal'), cursor, top)
    BY <1>1, <1>2, <1>4 DEF LinkInv, CursorLinked
  <2>2. QED
    BY <1>3, <1>4, <2>1 DEF LinkInv, CursorLinked, GoesOn
<1>5. CASE Pending
  <2>1. PICK before \in Nat :
          /\ RunFrom(answer.list, before)
          /\ GoesOn(before, Len(answer.list), cursor, top)
          /\ GoesOn(JournalBefore, Len(journal), Len(answer.list), before + Len(answer.list))
    BY <1>5 DEF LinkInv, AnswerLinked
  <2>2. Len(answer.list) \in Nat /\ before + Len(answer.list) \in Nat
    BY <2>1 DEF RunFrom
  <2>3. GoesOn(JournalBefore', Len(journal'), Len(answer.list), before + Len(answer.list))
    BY <1>2, <2>1, <2>2
  <2>4. AnswerLinked(top)'
    BY <2>1, <2>3 DEF AnswerLinked, RunFrom, GoesOn
  <2>5. QED
    BY <1>3, <1>5, <2>4 DEF LinkInv
<1>6. QED
  BY <1>4, <1>5

\* A request recorded extends the run.
LEMMA RecordStep ==
  ASSUME NEW top \in Nat, JournalOK, BatchInv(top), LinkInv(top), Record
  PROVE  JournalOK' /\ BatchInv(top)' /\ LinkInv(top)'
<1>1. BatchInv(top)'
  BY BatchSame DEF Record
<1>2. /\ journal \in Seq(Nat) /\ recorded \in Nat /\ Len(journal) \in Nat
      /\ Len(journal) <= recorded /\ cursor \in Nat
      /\ recorded' = recorded + 1 /\ journal' = Append(journal, recorded + 1)
      /\ UNCHANGED <<cursor, answer, pc>>
  BY DEF JournalOK, Record
<1>3. journal' \in Seq(Nat) /\ Len(journal') = Len(journal) + 1 /\ JournalBefore' = JournalBefore
  BY <1>2 DEF JournalBefore
<1>4. ASSUME NEW k \in 1..Len(journal') PROVE journal'[k] = JournalBefore' + k
  <2>1. CASE k = Len(journal) + 1
    BY <1>2, <1>3, <2>1 DEF JournalBefore
  <2>2. CASE k # Len(journal) + 1
    BY <1>2, <1>3, <2>2 DEF JournalOK, JournalBefore
  <2>3. QED
    BY <2>1, <2>2
<1>5. JournalOK'
  BY <1>2, <1>3, <1>4 DEF JournalOK
<1>6. Len(journal') >= Len(journal)
  BY <1>2, <1>3
<1>7. QED
  BY <1>1, <1>2, <1>3, <1>5, <1>6, JournalMoves

\* A journal that is emptied goes on after what was recorded.
LEMMA EmptyStep ==
  ASSUME NEW top \in Nat, JournalOK, BatchInv(top), LinkInv(top), NEW to, Empty(to)
  PROVE  JournalOK' /\ BatchInv(top)' /\ LinkInv(top)'
<1>1. BatchInv(top)'
  BY BatchSame DEF Empty
<1>2. /\ journal' = <<>> /\ UNCHANGED <<recorded, cursor, answer, pc>>
      /\ recorded \in Nat /\ cursor \in Nat
  BY DEF Empty, JournalOK
<1>3. JournalBefore' = recorded /\ Len(journal') = 0 /\ journal' \in Seq(Nat)
  BY <1>2 DEF JournalBefore
<1>4. JournalOK'
  BY <1>2, <1>3 DEF JournalOK
<1>5. QED
  BY <1>1, <1>2, <1>3, <1>4, JournalMoves

\* An answer is the journal as it is.
LEMMA AnswerStep ==
  ASSUME NEW top \in Nat, JournalOK, BatchInv(top), LinkInv(top), Answer
  PROVE  JournalOK' /\ BatchInv(top)' /\ LinkInv(top)'
<1>1. BatchInv(top)'
  BY BatchSame DEF Answer
<1>2. /\ pc = "fetching" /\ pc' = "answered" /\ UNCHANGED <<journal, recorded, cursor>>
      /\ journal \in Seq(Nat) /\ Len(journal) \in Nat
      /\ JournalBefore \in Nat /\ JournalBefore' = JournalBefore
  BY DEF Answer, engineVars, JournalOK, JournalBefore
<1>3. JournalOK'
  BY <1>2 DEF JournalOK
<1>4. CursorLinked(top)
  BY <1>2 DEF LinkInv, Pending
<1>5. CASE answer' = [kind |-> "list", list |-> journal, emptied |-> emptied]
  <2>1. answer'.list = journal /\ Pending'
    BY <1>2, <1>5 DEF Pending
  <2>2. RunFrom(journal, JournalBefore)
    BY DEF RunFrom, JournalOK
  <2>3. GoesOn(JournalBefore, Len(journal), cursor, top)
    BY <1>4 DEF CursorLinked
  <2>4. GoesOn(JournalBefore, Len(journal), Len(journal), JournalBefore + Len(journal))
    BY <1>2 DEF GoesOn
  <2>5. AnswerLinked(top)'
    BY <1>2, <2>1, <2>2, <2>3, <2>4 DEF AnswerLinked, RunFrom, GoesOn
  <2>6. QED
    BY <1>1, <1>3, <2>1, <2>5 DEF LinkInv
<1>6. CASE answer'.kind # "list"
  <2>1. ~Pending'
    BY <1>6 DEF Pending
  <2>2. CursorLinked(top)'
    BY <1>2, <1>4 DEF CursorLinked, GoesOn
  <2>3. QED
    BY <1>1, <1>3, <2>1, <2>2 DEF LinkInv
<1>7. answer' = [kind |-> "list", list |-> journal, emptied |-> emptied] \/ answer'.kind # "list"
  BY DEF Answer, NoAnswer
<1>8. QED
  BY <1>5, <1>6, <1>7

\* The batch that is taken begins after everything the consumer has been given.
LEMMA TakeStep ==
  ASSUME NEW top \in Nat, JournalOK, BatchInv(top), LinkInv(top), TakeList
  PROVE  JournalOK' /\ \E new \in Nat : BatchInv(new)' /\ LinkInv(new)'
<1>1. PICK before \in Nat :
        /\ RunFrom(answer.list, before)
        /\ GoesOn(before, Len(answer.list), cursor, top)
        /\ GoesOn(JournalBefore, Len(journal), Len(answer.list), before + Len(answer.list))
  BY DEF TakeList, LinkInv, Pending, AnswerLinked
<1> DEFINE list == answer.list
           n    == Len(list)
           s    == Start(list)
<1>0. PICK new \in Nat : new = before + n
  BY <1>1 DEF RunFrom
<1>2. list \in Seq(Nat) /\ n \in Nat /\ cursor \in Nat
      /\ \A k \in 1..n : list[k] = before + k
  BY <1>1 DEF RunFrom, JournalOK
<1>3. s \in 0..n /\ before + s >= top /\ new >= top
  BY <1>0, <1>1, <1>2 DEF Start, GoesOn
<1>4. /\ pc' = "yielding" /\ fresh' = SubSeq(list, s + 1, n) /\ cursor' = n
      /\ UNCHANGED <<journal, recorded, yielded>>
  BY DEF TakeList, engineVars
<1>5. GoesOn(JournalBefore, Len(journal), n, new)
  BY <1>0, <1>1
<1> HIDE DEF list, n, s
<1>6. Len(fresh') = n - s /\ fresh' \in Seq(Nat) /\ \A k \in 1..(n - s) : fresh'[k] = list[s + k]
  BY <1>2, <1>3, <1>4 DEF n
<1>7. ASSUME NEW k \in 1..(n - s) PROVE fresh'[k] = before + s + k /\ fresh'[k] \in Nat
  <2>1. s + k \in 1..n /\ s \in Nat /\ k \in Nat
    BY <1>2, <1>3
  <2>2. fresh'[k] = before + (s + k)
    BY <1>2, <1>6, <2>1
  <2>3. QED
    BY <2>1, <2>2
<1>8. JournalOK'
  BY <1>2, <1>4 DEF JournalOK, JournalBefore
<1>9. LinkInv(new)'
  <2>1. ~Pending'
    BY <1>4 DEF Pending
  <2>2. CursorLinked(new)'
    BY <1>4, <1>5 DEF CursorLinked, GoesOn, JournalBefore
  <2>3. QED
    BY <2>1, <2>2 DEF LinkInv
<1>10. BatchInv(new)'
  <2>1. /\ yielded' \in Seq(Nat) /\ Increasing(yielded')
        /\ \A j \in 1..Len(yielded') : yielded'[j] <= top /\ yielded'[j] \in Nat
    BY <1>4, InDomain DEF BatchInv, Increasing
  <2>2. \A k \in 1..Len(fresh') : fresh'[k] > top /\ fresh'[k] <= new /\ fresh'[k] \in Nat
    BY <1>0, <1>2, <1>3, <1>6, <1>7, SMTT(30)
  <2>3. Increasing(fresh')
    <3>1. DOMAIN fresh' = 1..(n - s) /\ n - s \in Nat /\ s \in Nat
      BY <1>2, <1>3, <1>6
    <3>2. ASSUME NEW i \in 1..(n - s), NEW j \in 1..(n - s), i < j PROVE fresh'[i] < fresh'[j]
      <4>1. fresh'[i] = before + s + i /\ fresh'[j] = before + s + j
        BY <1>7
      <4>2. QED
        BY <1>2, <3>1, <3>2, <4>1
    <3>3. QED
      BY <3>1, <3>2 DEF Increasing
  <2>4. \A j \in 1..Len(yielded') : yielded'[j] <= new
    BY <1>2, <1>3, <2>1
  <2>5. \A j \in 1..Len(yielded'), k \in 1..Len(fresh') : yielded'[j] < fresh'[k]
    BY <2>1, <2>2
  <2>6. QED
    BY <1>6, <2>1, <2>2, <2>3, <2>4, <2>5 DEF BatchInv, Increasing
<1>11. QED
  BY <1>8, <1>9, <1>10

\* The first of the batch is greater than everything before it.
LEMMA YieldStep ==
  ASSUME NEW top \in Nat, JournalOK, BatchInv(top), LinkInv(top), Yield
  PROVE  JournalOK' /\ BatchInv(top)' /\ LinkInv(top)'
<1>1. JournalOK' /\ LinkInv(top)'
  <2>1. ~Pending /\ ~Pending'
    BY DEF Pending, Yield
  <2>2. QED
    BY <2>1, JournalSame DEF Yield, engineVars
<1>2. /\ fresh \in Seq(Nat) /\ fresh # <<>> /\ fresh' = Tail(fresh) /\ yielded \in Seq(Nat)
      /\ Increasing(fresh) /\ Increasing(yielded) /\ Len(fresh) \in Nat /\ 1 \in 1..Len(fresh)
      /\ \A j \in 1..Len(yielded) : yielded[j] <= top
      /\ \A k \in 1..Len(fresh) : fresh[k] <= top
      /\ \A j \in 1..Len(yielded), k \in 1..Len(fresh) : yielded[j] < fresh[k]
  BY DEF Yield, BatchInv
<1>3. /\ fresh' \in Seq(Nat) /\ Increasing(fresh') /\ fresh[1] \in Nat
      /\ \A k \in 1..Len(fresh') : k + 1 \in 1..Len(fresh) /\ fresh'[k] = fresh[k + 1] /\ fresh[1] < fresh'[k]
  BY <1>2, TailIncreasing
<1>4. \A k \in 1..Len(fresh') : fresh'[k] \in Nat /\ fresh'[k] <= top
  BY <1>2, <1>3, InDomain
<1>5. CASE yielded' = yielded
  <2>1. \A j \in 1..Len(yielded'), k \in 1..Len(fresh') : yielded'[j] < fresh'[k]
    BY <1>2, <1>3, <1>5
  <2>2. QED
    BY <1>1, <1>2, <1>3, <1>4, <1>5, <2>1 DEF BatchInv, Increasing
<1>6. CASE yielded' = Append(yielded, fresh[1])
  <2>1. \A j \in 1..Len(yielded) : yielded[j] < fresh[1]
    BY <1>2
  <2>2. /\ yielded' \in Seq(Nat) /\ Increasing(yielded')
        /\ \A j \in 1..Len(yielded') : yielded'[j] <= fresh[1]
    BY <1>2, <1>3, <1>6, <2>1, AppendIncreasing
  <2>3. fresh[1] <= top
    BY <1>2
  <2>4. \A j \in 1..Len(yielded') : yielded'[j] \in Nat
    BY <2>2, InDomain
  <2>5. \A j \in 1..Len(yielded') : yielded'[j] <= top
    BY <1>3, <2>2, <2>3, <2>4
  <2>6. ASSUME NEW j \in 1..Len(yielded'), NEW k \in 1..Len(fresh') PROVE yielded'[j] < fresh'[k]
    <3>1. yielded'[j] \in Nat /\ yielded'[j] <= fresh[1]
      BY <2>2, <2>4
    <3>2. fresh[1] < fresh'[k] /\ fresh'[k] \in Nat
      BY <1>3, <1>4
    <3>3. QED
      BY <1>3, <3>1, <3>2
  <2>7. QED
    BY <1>1, <1>3, <1>4, <2>2, <2>5, <2>6 DEF BatchInv, Increasing
<1>7. QED
  BY <1>5, <1>6 DEF Yield

-----------------------------------------------------------------------------
\* The other steps move only the generator's place, the signal or the imposter.
LEMMA OtherStep ==
  ASSUME NEW top \in Nat, JournalOK, BatchInv(top), LinkInv(top),
         UNCHANGED <<journal, recorded, answer, cursor, fresh, yielded>>,
         Pending' <=> Pending
  PROVE  JournalOK' /\ BatchInv(top)' /\ LinkInv(top)'
BY JournalSame, BatchSame

LEMMA IInvStep == IInv /\ [Next]_vars => IInv'
<1> SUFFICES ASSUME IInv, [Next]_vars, ~filtered' PROVE IInv'
  BY DEF IInv
<1>1. CASE filtered
  BY <1>1 DEF Next, Environment, Iterator, Record, Clear, Delete, Recreate, Empty,
              FilteredClear, Abort, Fetch, Answer, TakeList, PollFails, Yield, Pull,
              Break, BatchDone, Wake, Over, vars
<1>2. CASE ~filtered
  <2>1. JournalOK
    BY <1>2 DEF IInv
  <2>2. PICK top \in Nat : BatchInv(top) /\ LinkInv(top)
    BY <1>2 DEF IInv
  <2>3. CASE Record
    BY <2>1, <2>2, <2>3, RecordStep DEF IInv
  <2>4. CASE Clear \/ Delete \/ Recreate
    BY <2>1, <2>2, <2>4, EmptyStep DEF IInv, Clear, Delete, Recreate
  <2>5. CASE FilteredClear
    BY <2>5 DEF FilteredClear
  <2>6. CASE Answer
    BY <2>1, <2>2, <2>6, AnswerStep DEF IInv
  <2>7. CASE TakeList
    BY <2>1, <2>2, <2>7, TakeStep DEF IInv
  <2>8. CASE Yield
    BY <2>1, <2>2, <2>8, YieldStep DEF IInv
  <2>9. CASE Fetch
    BY <2>1, <2>2, <2>9, OtherStep DEF IInv, Fetch, Pending, engineVars
  <2>10. CASE PollFails
    BY <2>1, <2>2, <2>10, OtherStep DEF IInv, PollFails, Pending, engineVars
  <2>11. CASE Pull \/ Break \/ BatchDone \/ Wake
    BY <2>1, <2>2, <2>11, OtherStep DEF IInv, Pull, Break, BatchDone, Wake, Pending, engineVars
  <2>12. CASE Abort \/ UNCHANGED vars
    BY <2>1, <2>2, <2>12, OtherStep DEF IInv, Abort, Pending, engineVars, vars
  <2>13. QED
    BY <2>3, <2>4, <2>5, <2>6, <2>7, <2>8, <2>9, <2>10, <2>11, <2>12
       DEF Next, Environment, Iterator, Over
<1>3. QED
  BY <1>1, <1>2

\* Every request is yielded at most once and in journal order, across fetches
\* under way while the journal is cleared, the imposter deleted and its port
\* taken again, as long as nobody clears only a part of the journal.
THEOREM InOrder == Spec => []InOrderUnlessFiltered
<1>1. IInv => InOrderUnlessFiltered
  BY DEF IInv, BatchInv, InOrderUnlessFiltered
<1>2. QED
  BY <1>1, IInvInit, IInvStep, PTL DEF Spec
=============================================================================
