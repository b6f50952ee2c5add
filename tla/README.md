# Formal models of rift-node

rift-node is a TypeScript SDK for the Rift service-virtualisation engine. The engine itself (Rust) is
not in this repository: the SDK starts it or talks to it, in one of three ways (*transports*), and puts
one API on top of them. This directory holds TLA+ models of the SDK's concurrent and stateful parts, the
TLC configurations that check them on small instances, and TLAPS proofs about them.

Everything is translated from `packages/rift-core/src` and `packages/rift-embedded/src`; what the engine,
Node.js, the operating system and other processes do is modelled from how that code uses them, and those
definitions say so in `PROJECT.json` (`external`).

    tlc -workers 2 -config MCNativeEngine.cfg MCNativeEngine      # a run
    tlapm NativeEngineProofs.tla                                  # a proof module

## 1. Inventory

| component (source) | state it keeps | operations | hard behaviours |
|---|---|---|---|
| **NativeEngine** (`rift-embedded/src/native.ts`) | `#state`, `#nextId`, `#pending`, the worker's ref, an exit hook | `load`, the native calls (`#call`), `close`, listeners for `message`, `error`, `exit` | answers racing close, crash and exit; ref-counting of the event loop; timeouts; failed loads |
| **worker** (`worker.ts`, `protocol.ts`) | the native handle | `init`, `call`, `shutdown` | a native call that blocks or throws; dying between messages |
| **FFI discipline** (`native-call.ts`, `native-binding.ts`) | ownership of C strings, the last-error slot | `handleCall`, `readLastErrorMessage`, `readBuildInfo` | each string freed exactly once, also when decoding throws |
| **EmbeddedAdmin** (`admin.ts`, `bridge.ts`) | `#registry`, `#planePromise`, `#closed` | the `AdminApi`: imposters, stubs, requests, spaces, flow state, scenarios, `close` | state read before an await and written after; partial application; lazy start of the admin plane |
| **createEmbeddedEngine** (`create.ts`) | — | load, version/feature/trust gates, eager plane | failing after the engine is up |
| **Engine facade** (`rift-core/src/engine.ts`) | `#closed`, memoised version, memoised intercept handle | `create`, `replaceAll`, `intercept`, `close`, imposter handles | batch rollback under `stubWarnings: 'fail'`; check-await-assign |
| **requests()** (`engine.ts`, `pollRecordedRequests`) | `cursor` | polling iterator | a journal cleared, deleted or re-created between polls; abort |
| **spawn transport** (`spawn/spawn.ts`) | child process, closed flag | `spawn`, `close` | start-up failure, signals, exit racing timers, ports |
| **binary resolver** (`spawn/resolve.ts`, `binary.ts`) | a cache directory shared by processes | `resolveBinary` | concurrent downloads without a lock, crashes |
| **cdylib resolver** (`natives/resolve.ts`) | a cache directory shared by processes, a lock directory | `resolveCdylib` | crashes between file operations, stray locks |
| **remote client** (`remote/client.ts`) | `#closed` | one HTTP request per operation | timeouts, status mapping |
| **testkit** (`testkit/*.ts`) | tracked handles | `trackCreates`, `disposeTracked`, fixtures | creations overlapping teardown |
| **verify** (`verify/*.ts`, `engine.ts`) | the journal as it was fetched | `verify`, `recorded`: predicate evaluation, counting, closest request | requests that arrive meanwhile; negations, nested bodies, operators that cannot be evaluated |
| **intercept** (`engine.ts`, `intercept/*.ts`, `intercept-backend.ts`) | `#interceptHandle` | `intercept(options)`, the handle's methods, `serve`/`forward` rules | calls that overlap; options one transport cannot apply; responses a rule cannot deliver |
| **DSL** (`dsl/*.ts`) | the builders' fields | chained calls, `build()` | calls in any order, some of which throw; combinations the engine would ignore |
| **wire model, options** | — | conversions, validation | pure |
| **compat create()** (`compat/index.ts`) | child process | `create`, `close` | as spawn |

How they interact: the facade holds one `AdminApi`. On the embedded transport that is an `EmbeddedAdmin`,
which calls `NativeEngine`, which posts messages to the worker, which calls the native library; the
operations the library has no symbol for go to an admin plane (HTTP on the loopback) that EmbeddedAdmin
starts on first use. On the spawn and remote transports it is a `RemoteClient`. Everything on the host's
side runs on one event loop: the interleavings are those of awaits, events and timers, plus the worker
thread, the child process, the engine, and other processes that share a cache directory.

What makes each part correct: every call settles exactly once and nobody waits on a dead engine
(NativeEngine); the registry says what the engine has (EmbeddedAdmin); every request is reported once and
in order (requests()); a cache only ever serves verified libraries (cdylib resolver); no child process is
left behind and close() always settles (spawn); the binary is verified before a byte of it is on disk, and
what is returned runs (binary resolver); options are applied or refused (intercept); what was asked for is
built, or build() throws (DSL); a verdict is the count (verify). The hazards behind these, each at its line, are the
`hazards` of `PROJECT.json`.

## 2. Plan

| | module | status |
|---|---|---|
| 1 | `SettleOnce` (what the embedded transport promises), `NativeEngine` (facade + worker + channels), refinement between them | modelled, checked, proved |
| 2 | `EmbeddedAdmin` (registry, plane, close, createEmbeddedEngine), on the guarantees of NativeEngine | modelled, checked, safety proved |
| 3 | `RequestPoller` | modelled, checked; order proved |
| 4 | `CdylibResolver` | modelled, checked, proved |
| 5 | `SpawnedEngine` | modelled, checked, proved |
| 6 | `NativeCall` (native strings, the last-error slot) and `RemoteClient` (a request and its body), composed in `Intercept` (the memo, three transports) | modelled, checked, safety proved |
| 7 | `EngineFacade`: stub-warning policy and rollback, version gate and memo | modelled, checked with 8, proved |
| 8 | `Testkit`: tracked handles against a live engine, composed with 7 | modelled, checked, proved |
| 9 | `BinaryResolver`: lookup order, downloads without a lock, crash windows | modelled, checked, proved |
| 10 | `ResponseBuilder`, `InterceptRules` (composed: the rules take what the builder builds), `ImposterBuilder` | modelled, checked together, proved |
| 11 | `LeafEvaluation` and `Verification`: the evaluator against reference definitions, and verify() on a journal that grows | modelled, checked, proved |
| 12 | compat server, wire model, version comparison | not modelled (section 7) |

Abstract specifications: `SettleOnce`; a registry-as-map specification for EmbeddedAdmin's sequential
behaviour and a "verified or nothing" specification for both resolvers are candidates. Modules to
be proved about use no RECURSIVE operator: the evaluator's recursions are recursive functions, over the
predicates and JSON values in use.

## 3. Modules

Each model takes one turn of the event loop, one handled message or one file operation as a step, and says
so in its header. `Bug...` operators are deliberately wrong variants of a definition: substituted for it,
they make a property fail; no specification uses them.

* **`NativeEngine`** — `state` is `load()`'s progress and then `#state`; `pending` the keys of `#pending`;
  `closing` how far `#doClose` has come; `ref` whether the worker's handle holds the event loop;
  `toWorker`/`fromWorker` the two channels. `outcome` and `settles` record what each caller's promise was
  settled with and how often. `LoopDrains` is Node ending the process when nothing holds its loop
  (`LoopHeld`). The worker handles a message in two steps: `WorkerEnters` is its entry into native code
  (`inNative`), `WorkerInit`, `WorkerCall` and `WorkerShutdown` the native function returning and the rest of
  the handler. `WorkerCrashes` is an uncaught throw, `WorkerQuits` an exit without an error, `WorkerTerminated`
  `terminate()` taking effect, which it does not inside native code: there the thread ends when the function
  returns (`WorkerCutShort`), if it does. `unstoppable`, chosen at the start, is a worker (the code lets one
  be injected) whose `terminate()` may fail. The public methods are `#call` with the name of a native
  function; that a caller's `JSON.parse` of the answer may throw (`native.ts:268`) rejects that caller after
  the call has settled, and is not modelled.
* **`SettleOnce`** — a gate (starting, up, down) and a status per call; `NativeEngine!Promise` maps to it.
* **`EmbeddedAdmin`** — `registry` and `native` map ports to stub sets (or `Absent`); `call[c]` is the
  operation client `c` awaits, with what it computed before its await; `queue` and `answers` are the
  requests and answers under way, in the order NativeEngine keeps them. An operation is an action that
  posts (`CreateImposter`, `AddStub`, ...) and a continuation (`RegistryWritten`, `StubsWritten`, ...).
  `attached` says whose captured `Imposter` object is still in the registry; `torn` remembers the ports
  whose last edit reached an object that was not. An operation on the admin plane waits for headers under a
  timer (`bridge`) and then for the body without one (`bridgeBody`). `boot` is createEmbeddedEngine. The engine's answers
  (`MayAnswer`) are external: it refuses what it does not know, `applyConfig` may apply a part.
* **`RequestPoller`** — the generator as a program counter (`check`, `fetching`, `answered`, `yielding`,
  `suspended`, `sleeping`) with its `cursor` and batch; the imposter's `journal` and everybody who may
  clear, partly clear, delete or re-create it. `gap`, `filtered`, `emptied` are history.
* **`CdylibResolver`** — one step per file operation of `resolveCdylib`, for any number of processes;
  a file's content stands for its digest. A process may die at any step, the lock removal may fail, and
  the user may remove a stray lock as the error message tells him to.
* **`SpawnedEngine`** — `spawn()` and `Engine.close()` for any number of callers, and the child.
* **`EngineFacade`** — calls of `create`, `replaceAll`, `deleteAll` and `handle.delete`, each as stages
  (version gate, request, answer, reading of warnings, rollback) against `live`, which says which call made
  the imposter on each port. `version` is `opts.engineVersion` or the memo `#engineVersion`. A call may be
  rejected although the engine has done all of it (`AnswerUnusable`: lost, late, unreadable or without a
  port) or, embedded, a part of it (`EngineAppliesPart`, `PartReported`); `unseen` marks those.
* **`Testkit`** EXTENDS it: every step of the facade is a step of a tracked engine (`Tracked`), which adds
  handles to `created[l]` or empties it; `TestEnds`, `Disposes`, `Disposed` are `disposeTracked`. `home[c]`
  is the list of the tracked engine the call was made on; `undeleted` and `overtaken` are history.

* **`BinaryResolver`** — one step per file operation of the default download, and per lookup before it. A
  file is its data (published or not), whether it is whole, executable and still open; `shared` are the
  archives two processes write at a time. `raced` and `skipped` are history: two downloads at a time, and
  an opt-out of the checksum. Only one cached version, and the archive layout since v0.12.0.
* **`NativeCall`** — `handleCall` as the steps the library sees: `Invoke` (throws, returns its sentinel with
  or without a diagnostic, or succeeds), `ReadLastError`, `Decode` (which may throw), `Free`. `strings` is
  what has become of each string the library handed over.
* **`RemoteClient`** — a request: fetching under the timer, reading its body without one, settled; statuses
  and bodies by the classes `throwForStatus` and `parseJsonBody` tell apart.
* **`Intercept`** EXTENDS both: `memo` is `#interceptHandle`, `call[c]` where a caller's `intercept()` and the
  use of its handle are. `setup` is the transport, whether it is wired for interception, and the engine's
  listener: up, of an engine before `GET /intercept`, or down. The engine's answers are external.
* **`ResponseBuilder`** — the builder's fields as classes of values; each method is an action, `build()` is
  `Refused` and `Build`. `asked` is history: the facets of the response the calls asked for, against which
  `Found` says what of the wire response takes effect in the engine: it runs behaviors on what an `is`, a proxy
  or an inject returns and only `repeat` elsewhere (`RepeatOnly`), and state operations on an `is` that neither
  a script nor a TCP fault replaces (`StateOpsIdle`). `LetThrough` lists the calls `build()` does not refuse
  although nothing will run them. A method that throws leaves the builder to a caller that goes on.
* **`InterceptRules`** EXTENDS it: `serveRule` and its refusals on what the builder builds, `Served` what a
  serve action delivers (external).
* **`ImposterBuilder`** — the imposter's fields and a scenario builder whose stubs are appended to it.
  `said`, `given`, `demand` are history: what the caller described, gave and demanded last.
* **`LeafEvaluation`** — `StringCompare`, `CompareBody`, `ApplyJsonPath`, `EvalField` and `EvalLeaf` follow
  `verify/eval.ts` function by function on one request; a predicate that cannot be evaluated makes a verdict
  `"threw"`, in the order the code would throw. What case folding, `contains` and regular expressions say of
  strings is given as constants. A recursion of the code is a recursive function over a constant set that is
  closed under parts, with a rank (`Depth`) that says the values are finite trees. Of the request's fields
  there are `path`, `headers` and `body`: `method` is as `path`, `query` as `headers`. Of the literals that
  are no string there are numbers. `SameJson` is the reference definition of structural equality, which
  knows nothing of how values print; `MistakenForString` says where `compareBody` takes a value for the string
  it prints as.
* **`Verification`** EXTENDS it: `EvalPredicate`, `CollectLeafDetails`, `ComputeClosest` and `runVerify` on trees
  of predicates (`Predicates`, with the rank `Height`). `Truth` is the reference definition of a match.
  `Record` and `Verify` are a journal that grows until it is fetched.

`MC*` modules instantiate these; `*Proofs` hold the theorems. The type invariants of
the modules with proofs are theorems where the argument needs them (those of the two builders are stated
beside their proofs); the runs spend their time on the other properties.

## 4. Runs

| run | bounds | shows |
|---|---|---|
| `native_engine` | 3 calls | every safety property, liveness, and the refinement of SettleOnce |
| `embedded_admin` | 2 clients, 2 ports, 1 stub, symmetry | the registry catches up with the engine; one request or answer per waiter |
| `embedded_admin_settles` | 2 clients, 1 port, 1 stub | everything settles, but for a body that never ends; close() reaches the engine |
| `request_poller` | 4 requests, 3 of them match | order, no loss, no duplicates, termination |
| `cdylib_resolver` | 3 processes, 2 contents | verified-only, a valid cache stays valid, is served whatever the lock |
| `spawned_engine` | 3 callers of close() | no orphan, no signal to a dead process, everything settles |
| `testkit` | 2 calls, 2 ports, 2 tests, 2 setups, symmetry | no handle forgotten, nothing behind a create() that is refused or rolled back, gate fails closed |
| `binary_resolver` | 2 processes, symmetry | nothing unverified on disk, what is returned runs, leftovers do no harm |
| `dsl` | 4 calls on a response, or 5 on an imposter and its scenario | what was asked for takes effect, is refused, or is one of the calls let through; so with intercept rules |
| `verify` | 9 leaf predicates and their combinations, 4 kinds of requests, a journal of 2, 3 timestamps | verdict, closest request and deepEquals against the reference definitions |
| `intercept` | 2 callers, 3 transports, 5 kinds of options, 2 uses | options, handles, strings; every call settles or waits for a body |
| `embedded_admin_refused` | as embedded_admin | expects a violation (section 6) |

`CHECK_DEADLOCK FALSE` stands where the system ends: the last test is over (`testkit`), the caller stops
chaining (`dsl`), verify() has settled (`verify`).

Why the bounds are enough: three calls give a first, a middle and a last call in flight, which is what
ref-counting and the empty/non-empty tests of `#pending` tell apart. Two clients are what an
operation and the one that interferes with it need, and two ports what a partly applied configuration
needs; one stub tells "with" from "without", and edits that differ. Four requests let the journal shrink
below, to and above the cursor. Two calls
are an operation and the one that overtakes it, and two tests are what a handle can leak into; the two
setups of `testkit` are a spawned engine (version looked up on demand) and an embedded one (version on record,
warnings read by an extra call), both under `stubWarnings: 'fail'`. Three resolvers are a holder, a waiter and one that comes later. The
`Releases` of `CdylibResolver` are two so that a re-published artifact can differ from the cached one.
Two resolvers of the binary
are the one that dies or races and the one that finds what it left. Four calls on a response reach every
pair of methods that exclude each other together with the patch that undoes them; five on an imposter
open, edit, commit and add to a scenario with a call that throws in between. The leaves of `verify` are one
per path through the evaluator (case folding, `except`, JSONPath, multi-valued headers, containment and
equality, an unsupported and an empty predicate), each alone, negated, in pairs under `and`, `or` and a
negated `or`, and in lists of two; a journal of two has a request that matches and one that does not, or two to choose the
closest from. Two callers of intercept() are the one that memoizes first and the one that overwrites it.
Symmetry is used in safety runs only. Every unbounded counter is bounded by a named constant
(`MaxCalls`,
`MaxRequests`, `MaxTests`, `MaxImposterCalls`, `MaxJournal`).

Fairness. *NativeEngine*: Node delivers events and fires timers while the process lives, and a `terminate()`
that does not fail ends a thread that is not inside native code. Nothing is assumed of the worker, nor that a
native function returns: `EveryCallSettles` states the fairness of the worker as its own premise, and
`CloseCompletes` that no native call lasts for ever. Without that premise TLC shows a `close()` that never
settles (section 6).
*EmbeddedAdmin*: the event loop turns, and a request to the admin plane has its headers or is aborted by its
timer. That a body ends is not assumed: `EveryOperationSettles` lets an operation wait for the rest of one for
ever. The worker serving its queue, and `native.close()` settling, are again premises of the properties.
*RequestPoller*: the consumer pulls, calls settle, timers fire. *CdylibResolver*: a process that is not
killed goes on. *SpawnedEngine*: timers fire and SIGKILL kills; the child may ignore SIGTERM for ever.
*Intercept*: the worker serves its calls, timers fire and continuations run; no engine has to answer a
request or to finish a body, which is why `EveryCallSettles` lets a call wait for the rest of a body.
The other modules have safety properties only, and assume none.

## 5. Proofs

Each theorem holds for every value of the constants, so without the bounds of section 4: any number of
calls, clients, ports, processes, tests or chained methods. Each follows from an inductive invariant that
contains the invariants the runs check and what they need to carry themselves through a step. What it
assumes of the constants is named, and every run evaluates it.

* **`NativeEngineProofs`** (assumes `MaxCalls \in Nat`). `IInv` adds to the checked invariants: keys in
  `#pending` were issued (`PendingIssued`), the stages of `load()`, `#state`, `#doClose` and the exit hook
  agree (`StagesAgree`, `ExitHookWhileLive`), and `#pending` is empty unless the engine is open
  (`NobodyWaitsOnADeadEngine`). The last two are what makes a step of `#failAll` settle each call once: a
  key is in `#pending` exactly as long as its call has not been settled, so an answer that comes after a
  crash, an exit or a close finds no key. That no thread leaks and that the loop does not drain under an
  await follow. `ImplementsPromise` maps every step of NativeEngine to a step or a stutter of SettleOnce.
* **`EmbeddedAdminProofs`** (assumes `NoStubAssumption` and `ClientsAssumption`: what is not a stub, and that
  no client is called what the start of the plane is). `OneInLine` says that nobody has two places in the
  line of requests and answers together, and that those in it are those who wait: a request keeps its
  caller's place when it is served (`Moved`), an answer gives it up when it is delivered (`Delivered`), and
  `#planePromise`, assigned before the await, is what keeps a second first use out. `EveryWaitIsOnItsWay` counts
  these places. `RegistryInv` is about every answer under way, not only the last about a port: the last write
  of a port is what the engine has (`LastWritesStand`), a port nobody writes any more is as the registry says
  (`UnwrittenAgree`), and stubs that were taken are preceded by something that makes the imposter known
  (`AnswersOK`), be it an earlier answer or the registry. The third is needed for an edit that reaches an
  `Imposter` object no longer in the registry: its stubs are lost to the registry, but the imposter is
  there. A delivery shifts every index by one (`Landed`), a served request adds one at the end (`Lengthened`).
* **`TestkitProofs`** (assumes `FacadeAssumption`, that no call is called None and what an engine's options are,
  and `MaxTestsAssumption`, that there is a test). `CallOK` says of a call at each of its stages what the gate has decided for it, that every imposter
  it made which is still there is one it knows of, and that a rollback has deleted or recorded what is not on
  its list: from it the facade's three properties follow at the moment a call is rejected, whatever
  overlapped it. `TrackInv` adds where a tracked handle is (`Placed`) and that whatever is owed (made by a
  fulfilled call, neither overtaken nor reported) is seen to: in the list of the test that runs, with no
  `deleteAll()` about to empty it, or in what the teardown is deleting. The steps of the facade that fulfil
  nobody are one lemma (`NobodyResolves`), those that do are one each.
* **`CdylibResolverProofs`** (assumes `ContentsAssumption`: what `None` and a half-written file are not).
  What the holder of the lock has established (`ShaKnown`, `TmpVerified`, `DestVerified`, `Holds`) is about
  shared files and survives the others' steps only because of `LockIsExclusive`; with `Present` and
  `SidecarTells` it gives that a sidecar never vouches for a library that was not verified, also when its
  writer died half-way. `ValidStays` is an action property: only a holder writes, and a holder has seen
  under its lock that the cache is not valid.
* **`SpawnProofs`** (assumes `NobodyAssumption`: no process is called Nobody), on BinaryResolver and SpawnedEngine.
  `TypeInv` adds to the types that a process past the verification has data (`InHand`); on it, every file in the
  directory is seen to come from data that passed `Verify`, whoever extracted, renamed or left it:
  `NothingUnverified`. `OneAtATime` holds until two downloads overlap: one process at most is between opening the
  archive and installing the binary, it has got ready what its next step needs (`ReadyFor`: a whole archive
  to extract, a complete file to rename) although it may find any leftover when it starts, and a binary in
  its place was complete before it was put there (`BinaryComplete`). `LeftoversDoNoHarm` and `ReturnedRuns` follow.
  Of SpawnedEngine, `SpawnInv` says that a child that was not spawned is not alive (`NoChildYet`) and that a
  close() that waits has a timer or an exit to wait for (`WaitsForExit`); from these, a `spawn()` that threw
  and a `close()` that returned leave the child gone or killed.
* **`InterceptProofs`** (assumes `InterceptAssumption`: what options, uses and calls are). `StringInv` says
  that everything but the one string the worker is at has gone back and that the slot holds at most the
  diagnostic of the call being served; the worker taking one call at a time is what keeps it.
  `HandlesInv` says what a call at each stage knows of its options (`CallOK`), what the answer to its request
  implies about the listener (`RequestOK`) and that every handle made leads somewhere (`Leads`).
  The module also holds the theorems on the builders and the rules (no assumption), on chains of calls of any
  length. `ScenarioInv` says that the steps described are the committed ones followed by the open one, which is what makes `Scenario` append each once, also after a
  build() that threw; `FieldsFollowDemand` ties the three client-authentication fields to the last demand, from
  which `build()`'s two refusals give `DemandsAsAsked`. For responses, `Held` says that each facet that was asked
  for is still in the builder's fields, also after a method that threw half-way: methods only add, but for
  those that replace a facet of their own kind (`GrowsBut`). What `build()` drops, it drops for a kind of
  response it refuses to be combined with that facet (`Fit`); what is left, and not let through, takes effect
  (`NothingDropped`) and, when `serve()` accepts it, in what is served (`ServedAsAsked`).
* **`RequestPollerProofs`** (assumes `ConstantsAssumption`: a number of requests and a set of them that match).
  While nobody clears a part of the journal it is a run of consecutive numbers (`JournalOK`). `BatchInv(top)`:
  what was yielded and what is left of the batch increase, the one below the other, up to `top`, the last
  request of the last list taken. `LinkInv(top)`: the answer not yet taken goes on from that list (the same
  run, as long or longer) or was recorded wholly after it, and so does the journal from the answer. An
  emptied journal starts after everything recorded, so either way the slice from the cursor, or from 0 when
  the list is shorter, begins after `top`: `InOrder`.
* **`VerificationProofs`** (assumes `LowerAssumption`, `ValuesAssumption`, `LeavesAssumption`,
  `PredicatesAssumption` and `RequestsAssumption`: JSON values and predicates are finite trees with a rank, an
  object has no key twice, the constants have their types). The state is simple: `Inductive` says that the
  outcome is what `Conclude` makes of a journal that was fetched. What has to be proved is that the recursions
  agree with the reference definitions for trees of every depth. `RankInduction` is an induction on a rank that
  takes a set, not an operator, and follows from a least counterexample; `RankRecursion` gives that a
  recursive function exists and obeys its equation. From these, `EvaluationIs`, `TruthIs`, `DetailsIs`,
  `ClosestIs`, `SamenessIs` and `MistakesAre` unfold each recursion one level, and
  - `EvaluationIsTruth` compares verdicts with meanings over the tree, `FetchedCount` carries the count of
    matching requests through the filter by flow: `CountDecides`;
  - `Flattened` says which verdicts the details of a group have, `FailureHasDetail` that a predicate that
    is false has a false one, but for an `or` without parts, whatever the nots around it: `FailureIsExplained`;
  - `ExceedsOrder` orders fractions (by cross-multiplication, as `computeClosest` compares them: a fraction
    of no clauses is 1) and `BeatsOrder` the pairs of fraction and recency, when timestamps are all there or all
    missing; an induction over the requests looked at gives `ClosestWins`;
  - `ComparedIsSame` is an induction over pairs of values. For objects `compareBody` looks every expected key
    up and compares the numbers of keys; that nothing else is in the actual object follows by counting
    (`Covering`: an injection between finite sets of one size is onto), which needs that no two keys
    fold to one (`UniqueKeys`, `NoCollision`); the induction takes only pairs of which none inside is
    mistaken for a string: `DeepEqualsExact`.

Only model-checked is liveness, which is out of the prover's reach, as is ENABLED: that calls, closes and polls
come to an end (`EveryCallSettles`, `CloseCompletes`, `EveryOperationSettles`, `CloseReachesTheEngine`,
`EveryRequestReported`, `EndsWhenTold`, `ValidCacheServes`, `EverythingSettles`). Neither checked nor proved is
that the JavaScript library's `toLowerCase`, `includes` and regular expressions are what the constants `Lower`,
`Related` and `Strip` say: the theorems hold for any such constants.

The theorems on deepEquals and the closest request hold under the conditions their properties state, each
with a reason in the code: with `keyCaseSensitive` off, `findObjectKey` finds the first of two keys that fold to
one; a string is compared with what the other value prints as; with some timestamps missing, `isMoreRecent` is not transitive; and an `or` without parts is false without
a clause that could be shown.

## 6. Where the code and its comments disagree

`embedded_admin_refused` expects a violation: a preflight that refuses the loaded engine does not close it,
and nobody else has a handle to do it with (`create.ts:118`, against the comment at `create.ts:149`).

The following were seen while modelling, or found by a property before it was stated as the code has it;
they have no run of their own. The properties of section 4 except them by name.

* `EmbeddedAdmin.close()` waits for a plane that is being started before it calls `native.close()`
  (`admin.ts:398`): on a worker stuck in `rift_serve_admin` it never gets there, though "native.close() MUST
  run" (`admin.ts:394`).
* A worker that stays in a native function is never ended by `terminate()`, and `NativeEngine.close()` awaits
  that (`native.ts:253`): it does not settle, though a worker that has not exited in time is said to be
  force-terminated (`native.ts:211`). `CloseCompletes` excepts a native call that lasts for ever.
* `stubWarnings: 'fail'`, said to never leave an imposter behind a rejected call (`engine.ts:879`), deletes
  what an answer named. A `create()` or `replaceAll()` whose answer is lost, late, unreadable or without a port
  (`engine.ts:550`) is rejected and leaves what the engine has made; so does an `applyConfig` that applies a
  part and throws with the names of what failed only (`admin.ts:209`).
* Two overlapping `delete()`s of one imposter both pass `#requireImposter` (`admin.ts:172`): the second one
  rejects with the engine's error, though `delete()` is called idempotent (`engine.ts:661`).
* After a clear of only some requests, `requests()` yields those that stay a second time (`engine.ts:527`).
* A `create()` that overlaps `deleteAll()` of the tracked engine can be dropped from the tracked handles
  although its imposter lives (`testkit/core.ts:157`).
* A stray lock is said to cost poll cycles only (`natives/resolve.ts:265`), but without a valid cache every
  later resolver times out until it is removed.
* `Engine.closed`, said to flip once cleanup has run (`engine.ts:1151`), is set by a second `close()` while
  the child is still being stopped.
* `downloadBinary()`, which is to "actually fetch the requested version" (`binary.ts:49`), downloads and
  verifies an archive and then leaves a binary that is in the cache where it is (`spawn/resolve.ts:301`).
* Overlapping `intercept()` calls each start or attach, and the last to finish overwrites the memo
  (`engine.ts:1044`); a later call without options gets that one. With an explicit port the probe asks the
  admin API whether there is a listener, not whether it is at that port.
* The timer of an HTTP request is cleared at its headers (`client.ts:422`): the body is waited for without, by
  the operations of the embedded engine that go through its admin plane too.
* `build()` is to "fail loudly rather than drop" (`response.ts:327`) and refuses state operations that nothing
  would run, but lets through what the engine only warns of: behaviors other than `repeat` on a native fault
  (`fault(...).latency(10)`) or on a script alone (`response.ts:18`), and state operations on an `is` beside
  `fault()` or `withFault(Fault.tcp(...))`, which "a legacy fault" never runs (`response.ts:338`): the check
  looks for an `is` only.
* `binaryBody(x)` followed by `body('text')` keeps `_mode: 'binary'`; `stateOps(good, bad)` throws and leaves
  `good` pushed (`response.ts:275`).
* `ImposterBuilder.build()` returns its own list of stubs, to which later calls append (`imposter.ts:306`);
  `ScenarioBuilder.when()` takes the predicates and responses of a stub and drops its other fields; its
  `build()` commits the open step also when it throws.
* `deepEquals` takes an object with two keys that differ in case only for equal to one with one of them and
  another key, when keys are folded, and a string for equal to a number, null or composite that prints as it
  (`eval.ts:354`): `{a: "1"}` and `{a: 1}` are equal, though `deepEquals` is "exact structural equality"
  (`eval.ts:10`, `:327`). `isMoreRecent` is no order
  when only some requests have a timestamp (`eval.ts:154`). A predicate that is not supported goes unnoticed
  behind one that decides, or on an empty journal, and may throw from `computeClosest` in place of the
  verification error.

## 7. Not modelled

* The engine's own behaviour beyond what the SDK relies on, and `ffi.ts` (C prototypes).
* The compat server (`compat/index.ts`): the child protocol of `SpawnedEngine` without its check for a child
  that has exited; what would be new is one wait for an event that has passed.
* The wire model (`model/*.ts`) and the option modules (`apikey.ts`, `upstream-trust.ts`, `version.ts`,
  `host.ts`): conversions and checks of single values, without state and without interaction.
* Of the facade: `connect()`, `buildInfo()` and the methods of handles and spaces that pass a call on; of the
  remote client: the routes but for those of the intercept, which differ in path and payload only.
* Of the DSL: `stub.ts` and `matcher.ts`, which collect predicates, and `raw()` of an imposter; of the
  intercept: forward and redirect rules, the undici adaptor; of verify: the text of a failure (`render.ts`).
* Command-line and environment assembly of `spawn()`, `rift-fetch`, message wording and logging.

`PROJECT.json` lists every component with its status.
