--------------------------- MODULE RequestPoller ---------------------------
(***************************************************************************)
(* ImposterHandle.requests(): the polling iterator over an imposter's      *)
(* journal of recorded requests (pollRecordedRequests and abortableSleep,  *)
(* rift-core/src/engine.ts), while the imposter records traffic, and other *)
(* clients clear its journal, delete it and create it again on its port.   *)
(*                                                                         *)
(* Requests are numbered in the order they are recorded; MaxRequests       *)
(* bounds how many there are.  The generator runs when its consumer pulls; *)
(* it suspends at the fetch, at the sleep and at each yield.               *)
(***************************************************************************)
EXTENDS Naturals, Sequences

CONSTANTS
  MaxRequests,
  Matching       \* the requests opts.match lets through

ASSUME ConstantsAssumption == /\ MaxRequests \in Nat
                              /\ Matching \in SUBSET (1..MaxRequests)

Requests == 1..MaxRequests

VARIABLES
  \* --- the engine
  imposter,   \* "up" or "gone"
  journal,    \* what the imposter has recorded and nobody cleared
  recorded,   \* how many requests were recorded so far
  \* --- the iterator
  aborted,    \* opts.signal
  pc,         \* where the generator is
  answer,     \* the answer to getSavedRequests, not yet taken
  cursor,
  fresh,      \* what is left of the batch being yielded
  yielded,    \* what the consumer was given, oldest first (history)
  \* --- history
  emptied,    \* the journal was emptied since it was last fetched
  gap,        \* a refilled journal has hidden requests from the cursor
  filtered    \* somebody cleared only some of the journal

engineVars == <<imposter, journal, recorded>>
vars == <<engineVars, aborted, pc, answer, cursor, fresh, yielded, emptied, gap, filtered>>

Answers == [kind : {"list", "notFound", "error"}, list : Seq(Requests), emptied : BOOLEAN]
NoAnswer(kind) == [kind |-> kind, list |-> <<>>, emptied |-> FALSE]

TypeOK ==
  /\ imposter \in {"up", "gone"}
  /\ journal \in Seq(Requests)
  /\ recorded \in 0..MaxRequests
  /\ aborted \in BOOLEAN
  /\ pc \in {"check", "fetching", "answered", "yielding", "suspended",
             "sleeping", "done", "failed"}
  /\ answer \in Answers
  /\ cursor \in Nat
  /\ fresh \in Seq(Requests)
  /\ yielded \in Seq(Requests)
  /\ emptied \in BOOLEAN
  /\ gap \in BOOLEAN
  /\ filtered \in BOOLEAN

\* The imposter may have recorded requests before the iterator is made.
Init ==
  /\ imposter = "up"
  /\ recorded \in 0..MaxRequests
  /\ journal = [i \in 1..recorded |-> i]
  /\ aborted = FALSE
  /\ pc = "check"
  /\ answer = NoAnswer("list")
  /\ cursor = 0
  /\ fresh = <<>>
  /\ yielded = <<>>
  /\ emptied = FALSE
  /\ gap = FALSE
  /\ filtered = FALSE

-----------------------------------------------------------------------------
(* The engine and its other clients.                                       *)

Record ==
  /\ imposter = "up"
  /\ recorded < MaxRequests
  /\ recorded' = recorded + 1
  /\ journal' = Append(journal, recorded')
  /\ UNCHANGED <<imposter, aborted, pc, answer, cursor, fresh, yielded, emptied, gap, filtered>>

\* clearRecorded(), or the imposter goes, or a new one takes its port.
Empty(to) ==
  /\ imposter' = to
  /\ journal' = <<>>
  /\ emptied' = TRUE
  /\ UNCHANGED <<recorded, aborted, pc, answer, cursor, fresh, yielded, gap, filtered>>

Clear    == imposter = "up" /\ Empty("up")
Delete   == imposter = "up" /\ Empty("gone")
Recreate == imposter = "gone" /\ Empty("up")

\* deleteSavedRequests(port, match): only what matches goes.
FilteredClear ==
  /\ imposter = "up"
  /\ \E matched \in SUBSET Requests :
       journal' = SelectSeq(journal, LAMBDA r : r \notin matched)
  /\ filtered' = TRUE
  /\ UNCHANGED <<imposter, recorded, aborted, pc, answer, cursor, fresh, yielded,
                 emptied, gap>>

Abort ==
  /\ ~aborted
  /\ aborted' = TRUE
  /\ UNCHANGED <<engineVars, pc, answer, cursor, fresh, yielded, emptied, gap, filtered>>

-----------------------------------------------------------------------------
(* The iterator.                                                           *)

Fetch ==
  /\ pc = "check"
  /\ pc' = IF aborted THEN "done" ELSE "fetching"
  /\ UNCHANGED <<engineVars, aborted, answer, cursor, fresh, yielded, emptied, gap, filtered>>

\* getSavedRequests reads the journal while the call is under way, or fails.
Answer ==
  /\ pc = "fetching"
  /\ pc' = "answered"
  /\ \/ /\ imposter = "up"
        /\ answer' = [kind |-> "list", list |-> journal, emptied |-> emptied]
        /\ emptied' = FALSE
     \/ /\ imposter = "gone"
        /\ answer' = NoAnswer("notFound")
        /\ UNCHANGED emptied
     \/ /\ answer' = NoAnswer("error")
        /\ UNCHANGED emptied
  /\ UNCHANGED <<engineVars, aborted, cursor, fresh, yielded, gap, filtered>>

\* Bug: a journal that shrank does not reset the cursor.
BugStartStalls(list) == cursor

\* Bug: every poll starts over.
BugStartOver(list) == 0

\* Where the new slice starts: a shrunk journal was cleared.
Start(list) == IF Len(list) < cursor THEN 0 ELSE cursor

TakeList ==
  /\ pc = "answered"
  /\ answer.kind = "list"
  /\ pc' = "yielding"
  /\ fresh' = SubSeq(answer.list, Start(answer.list) + 1, Len(answer.list))
  /\ cursor' = Len(answer.list)
  /\ gap' = (gap \/ (answer.emptied /\ cursor > 0 /\ Len(answer.list) >= cursor))
  /\ UNCHANGED <<engineVars, aborted, answer, yielded, emptied, filtered>>

\* Bug: a poll that finds no imposter is retried.
BugPollsOn ==
  /\ pc = "answered"
  /\ \/ answer.kind = "notFound" /\ pc' = "sleeping"
     \/ answer.kind = "error" /\ pc' = "failed"
  /\ UNCHANGED <<engineVars, aborted, answer, cursor, fresh, yielded, emptied, gap, filtered>>

\* The imposter is gone: the iterator ends; any other error is thrown.
PollFails ==
  /\ pc = "answered"
  /\ \/ answer.kind = "notFound" /\ pc' = "done"
     \/ answer.kind = "error" /\ pc' = "failed"
  /\ UNCHANGED <<engineVars, aborted, answer, cursor, fresh, yielded, emptied, gap, filtered>>

\* One request of the batch: yielded when it matches, passed over otherwise.
Yield ==
  /\ pc = "yielding"
  /\ fresh # <<>>
  /\ fresh' = Tail(fresh)
  /\ IF Head(fresh) \in Matching
     THEN yielded' = Append(yielded, Head(fresh)) /\ pc' = "suspended"
     ELSE UNCHANGED <<yielded, pc>>
  /\ UNCHANGED <<engineVars, aborted, answer, cursor, emptied, gap, filtered>>

Pull ==
  /\ pc = "suspended"
  /\ pc' = "yielding"
  /\ UNCHANGED <<engineVars, aborted, answer, cursor, fresh, yielded, emptied, gap, filtered>>

\* The consumer leaves its for-await loop.
Break ==
  /\ pc = "suspended"
  /\ pc' = "done"
  /\ UNCHANGED <<engineVars, aborted, answer, cursor, fresh, yielded, emptied, gap, filtered>>

BatchDone ==
  /\ pc = "yielding"
  /\ fresh = <<>>
  /\ pc' = IF aborted THEN "done" ELSE "sleeping"
  /\ UNCHANGED <<engineVars, aborted, answer, cursor, fresh, yielded, emptied, gap, filtered>>

\* The timer fires, or the signal wakes it.
Wake ==
  /\ pc = "sleeping"
  /\ pc' = "check"
  /\ UNCHANGED <<engineVars, aborted, answer, cursor, fresh, yielded, emptied, gap, filtered>>

-----------------------------------------------------------------------------

Over == /\ pc \in {"done", "failed"}
        /\ UNCHANGED vars

Environment == Record \/ Clear \/ Delete \/ Recreate \/ FilteredClear \/ Abort
Iterator    == \/ Fetch \/ Answer \/ TakeList \/ PollFails
               \/ Yield \/ Pull \/ BatchDone \/ Wake

Next == Environment \/ Iterator \/ Break \/ Over

Spec == Init /\ [][Next]_vars

\* A consumer that keeps pulling, calls that settle, and timers that fire.
FairSpec == Spec /\ WF_vars(Iterator)

-----------------------------------------------------------------------------
(* Safety                                                                  *)

Members(s) == {s[i] : i \in DOMAIN s}
Increasing(s) == \A i, j \in DOMAIN s : i < j => s[i] < s[j]

\* Every request is yielded at most once, and in journal order (engine.ts,
\* requests()), across any clearing of the whole journal and any deletion of the
\* imposter, also while a fetch is under way.  When somebody clears only some of
\* the journal it does not hold: the README says how.
InOrderUnlessFiltered == ~filtered => Increasing(yielded)

(* Liveness                                                                *)

Ended == pc \in {"done", "failed"}

\* A request recorded is yielded, unless it is cleared first, the iterator
\* ends, or a refilled or partly cleared journal hid some.
EveryRequestReported ==
  \A r \in Matching :
    r \in Members(journal) ~> r \in Members(yielded) \/ r \notin Members(journal)
                              \/ Ended \/ gap \/ filtered

\* Aborting ends the iterator, and so does an imposter that stays deleted.
EndsWhenTold == (aborted ~> Ended) /\ ([](imposter = "gone") ~> Ended)
=============================================================================
