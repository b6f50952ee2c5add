------------------------------ MODULE Testkit ------------------------------
(***************************************************************************)
(* The testkit (rift-core/src/testkit/core.ts, jest.ts, vitest.ts): the    *)
(* imposters that tests create through a tracked engine are deleted after  *)
(* each test.                                                              *)
(*                                                                         *)
(* A test may end while calls it made are still under way: it did not      *)
(* await them, or ran into the runner's timeout.  setupRift (Jest) has one *)
(* list of handles for all tests of a file, createRiftTest (Vitest) one    *)
(* per test.                                                               *)
(***************************************************************************)
EXTENDS EngineFacade, Naturals

CONSTANT MaxTests

ASSUME MaxTestsAssumption == MaxTests \in Nat \ {0}

VARIABLES
  perTest,    \* every test has a list of its own
  test,       \* the test that runs, or is torn down
  phase,
  created,    \* the lists of tracked handles
  home,       \* home[c]: the list of the tracked engine that call c was made on
  teardown,   \* the handles whose delete() disposeTracked waits for
  undeleted,  \* history: handles it warned about
  overtaken   \* history: calls that came to their end while their list was being emptied

vars == <<facadeVars, perTest, test, phase, created, home, teardown, undeleted, overtaken>>

Lists == 1..MaxTests
AllHandles == [port : Ports, by : Calls]

TypeOK ==
  /\ FacadeTypeOK
  /\ perTest \in BOOLEAN
  /\ test \in 1..MaxTests
  /\ phase \in {"running", "disposing", "over"}
  /\ created \in [Lists -> SUBSET AllHandles]
  /\ home \in [Calls -> Lists]
  /\ teardown \in SUBSET AllHandles
  /\ undeleted \in SUBSET AllHandles
  /\ overtaken \in SUBSET Calls

Init ==
  /\ FacadeInit
  /\ perTest \in BOOLEAN
  /\ test = 1
  /\ phase = "running"
  /\ created = [l \in Lists |-> {}]
  /\ home = [c \in Calls |-> 1]
  /\ teardown = {}
  /\ undeleted = {}
  /\ overtaken = {}

List == IF perTest THEN test ELSE 1

\* The calls whose promise is fulfilled in this step.
Resolving == {c \in Calls : call[c].stage # "resolved" /\ call'[c].stage = "resolved"}

Made(c) == IF c \in Resolving /\ call[c].kind \in {"create", "replaceAll"} THEN Handles(c) ELSE {}

Emptied(l) == \E c \in Resolving : call[c].kind = "deleteAll" /\ home[c] = l

\* A deleteAll() of list l is under way.
BeingEmptied(l) ==
  \E d \in Calls : /\ call[d].kind = "deleteAll" /\ home[d] = l
                   /\ call[d].stage \in {"request", "answer"}

\* Bug: replaceAll() is not tracked.
BugTrackCreates ==
  created' = [l \in Lists |-> IF Emptied(l) THEN {}
                ELSE created[l] \cup UNION {Made(c) : c \in {d \in Calls : home[d] = l
                                                              /\ call[d].kind = "create"}}]

\* trackCreates: a fulfilled create() or replaceAll() adds its handles, a
\* fulfilled deleteAll() empties the list.
TrackCreates ==
  created' = [l \in Lists |-> IF Emptied(l) THEN {}
                ELSE created[l] \cup UNION {Made(c) : c \in {d \in Calls : home[d] = l}}]

\* The tracked engine takes notice of what the engine's step fulfilled.
Tracked ==
  /\ TrackCreates
  /\ overtaken' = overtaken \cup {c \in Resolving : \/ BeingEmptied(home[c])
                                                   \/ phase = "disposing"
                                                   \/ home[c] # List}
  /\ UNCHANGED <<perTest, test, phase, home, teardown, undeleted>>

TestCalls(c) ==
  /\ phase = "running"
  /\ Begin(c)
  /\ home' = [home EXCEPT ![c] = List]
  /\ UNCHANGED <<perTest, test, phase, created, teardown, undeleted, overtaken>>

\* afterEach, or what follows use() in the fixture: disposeTracked.
TestEnds ==
  /\ phase = "running"
  /\ phase' = "disposing"
  /\ teardown' = created[List]
  /\ UNCHANGED <<facadeVars, perTest, test, created, home, undeleted, overtaken>>

\* One of its deletes settles: that the imposter is gone already is success.
Disposes(h) ==
  /\ h \in teardown
  /\ teardown' = teardown \ {h}
  /\ \/ /\ live' = [live EXCEPT ![h.port] = None]
        /\ UNCHANGED undeleted
     \/ /\ undeleted' = undeleted \cup {h}
        /\ UNCHANGED live
  /\ UNCHANGED <<setup, version, call, perTest, test, phase, created, home, overtaken>>

\* All have settled: the list is emptied, and the next test runs.
Disposed ==
  /\ phase = "disposing"
  /\ teardown = {}
  /\ created' = [created EXCEPT ![List] = {}]
  /\ IF test < MaxTests THEN test' = test + 1 /\ phase' = "running"
                        ELSE test' = test /\ phase' = "over"
  /\ UNCHANGED <<facadeVars, perTest, home, teardown, undeleted, overtaken>>

Next == \/ (VersionRead \/ VersionFails) /\ Tracked
        \/ \E c \in Calls : (Continue(c) /\ Tracked) \/ TestCalls(c)
        \/ TestEnds
        \/ \E h \in AllHandles : Disposes(h)
        \/ Disposed

Spec == Init /\ [][Next]_vars

-----------------------------------------------------------------------------
(* Safety                                                                  *)

\* No imposter is forgotten: one that a fulfilled create() or replaceAll() has
\* made is in the list of the running test, being deleted, reported as not
\* deleted, or was overtaken by a deleteAll() or a teardown.
NoneForgotten ==
  \A p \in Ports : LET c == live[p] IN
    c # None /\ call[c].stage = "resolved" /\ c \notin overtaken =>
      [port |-> p, by |-> c] \in undeleted
        \cup (IF phase = "disposing" THEN teardown ELSE created[List])

=============================================================================
