--------------------------- MODULE ResponseBuilder ---------------------------
(***************************************************************************)
(* ResponseBuilder and ProxyBuilder (rift-core/src/dsl/response.ts,        *)
(* proxy.ts, fault.ts): a response is built by chained calls, each of      *)
(* which may throw and leave the builder to a caller that goes on with it. *)
(*                                                                         *)
(* A value is its class, as far as the builder, the intercept rules and    *)
(* the engine tell classes apart.  Every call is remembered as the facets  *)
(* of the response it asked for, until another call replaces them.         *)
(***************************************************************************)
EXTENDS Naturals, Sequences

CONSTANTS
  MaxCalls,     \* bound: calls chained on one response
  Behaviours,   \* the keys of _behaviors in use
  ProxyKeys     \* the keys of proxy in use, injectHeaders aside

VARIABLES
  b,      \* the builder's fields
  calls,  \* the calls chained so far
  asked   \* history: the facets of the response that were asked for

responseVars == <<b, calls, asked>>

Primaries == {"none", "proxy", "inject", "fault"}
Statuses  == {"valid", "invalid"}      \* 100..999, or another number
\* Two spellings of one name, a name the engine manages, one that is no name,
\* a value that is no header value, and one without values.
Headers   == {"plain", "PLAIN", "managed", "malformed", "control", "empty"}
BodyValues    == {"null", "text", "json", "unserializable"}
Faults    == {"latency", "error", "tcp"}

\* What a raw patch may put in the place of a block: another one, something
\* that is not an object, or the undefined that JSON leaves out.
RawBlocks == {"object", "malformed", "undefined"}
RawIs     == RawBlocks \cup {"text mode", "unknown mode", "nested behaviors"}
NoRaw     == [is |-> "absent", behaviors |-> "absent", rift |-> "absent", flat |-> FALSE]

Fresh ==
  [primary |-> "none", proxy |-> {}, injected |-> {}, status |-> "unset", headers |-> {}, body |-> "unset",
   binary |-> FALSE, behaviors |-> {}, faults |-> {}, legacy |-> FALSE,
   script |-> FALSE, templated |-> FALSE, stateOps |-> 0, raw |-> NoRaw]

-----------------------------------------------------------------------------
(* build().                                                                *)

HasIsContent(x) == x.status # "unset" \/ x.headers # {} \/ x.body # "unset" \/ x.binary

\* Bug: a body alone does not count as content.
BugRefused(x) ==
  \/ x.primary # "none" /\ (x.status # "unset" \/ x.headers # {})
  \/ x.stateOps > 0 /\ (x.script \/ ~HasIsContent(x))
  \/ x.legacy /\ "tcp" \in x.faults

\* What build() throws at: content beside a proxy, an inject or a fault, state
\* operations nothing will run, and two TCP faults.
Refused(x) ==
  \/ x.primary # "none" /\ HasIsContent(x)
  \/ x.stateOps > 0 /\ (x.script \/ ~HasIsContent(x))
  \/ x.legacy /\ "tcp" \in x.faults

NoIs == [kind |-> "absent", status |-> "unset", headers |-> {}, body |-> "unset",
         mode |-> "unset", nested |-> FALSE]

IsBlock(x) ==
  IF x.primary # "none" \/ ~HasIsContent(x) THEN NoIs
  ELSE [kind |-> "object", status |-> x.status, headers |-> x.headers, body |-> x.body,
        mode |-> IF x.binary THEN "binary" ELSE "unset", nested |-> FALSE]

PatchedIs(patch) ==
  CASE patch = "malformed" -> [NoIs EXCEPT !.kind = "malformed"]
    [] patch = "undefined" -> NoIs
    [] OTHER -> [NoIs EXCEPT !.kind = "object", !.status = "valid",
                             !.mode = CASE patch = "text mode" -> "text"
                                        [] patch = "unknown mode" -> "unknown"
                                        [] OTHER -> "unset",
                             !.nested = (patch = "nested behaviors")]

\* A block with something in it, or none; a patch replaces it.
Block(keys, patch) ==
  CASE patch = "absent" -> [kind |-> IF keys = {} THEN "absent" ELSE "object", keys |-> keys]
    [] patch = "object" -> [kind |-> "object", keys |-> {"raw"}]
    [] patch = "undefined" -> [kind |-> "absent", keys |-> {}]
    [] OTHER -> [kind |-> "malformed", keys |-> {}]

\* The keys of _rift; fault() takes the place of withFault(Fault.tcp(...)).
RiftKeys(x) ==
  (x.faults \ (IF x.legacy THEN {"tcp"} ELSE {}))
    \cup (IF x.legacy THEN {"legacy tcp"} ELSE {})
    \cup (IF x.script THEN {"script"} ELSE {})
    \cup (IF x.templated THEN {"templated"} ELSE {})
    \cup (IF x.stateOps > 0 THEN {"stateOps"} ELSE {})

\* The wire response build() returns when it does not throw.
Build(x) ==
  [proxy     |-> x.proxy \cup x.injected,
   is        |-> IF x.raw.is = "absent" THEN IsBlock(x) ELSE PatchedIs(x.raw.is),
   primary   |-> x.primary,
   behaviors |-> Block(x.behaviors, x.raw.behaviors),
   rift      |-> Block(RiftKeys(x), x.raw.rift),
   flat      |-> x.raw.flat]

-----------------------------------------------------------------------------
(* The calls.                                                              *)

Facets(x) ==
  {<<"primary", x.primary>>} \cup {<<"status", x.status>>} \cup {<<"body", x.body>>}
    \cup {<<"header", h>> : h \in x.headers} \cup {<<"rift", k>> : k \in RiftKeys(x)}

OfKind(kind) == {f \in asked : f[1] = kind}

\* A call that returns; one that throws leaves the builder as it was.
Chain(after, replaced, facets) ==
  /\ calls < MaxCalls
  /\ calls' = calls + 1
  /\ b' = after
  /\ asked' = (asked \ replaced) \cup facets

Throw == Chain(b, {}, {})

ResponseInit ==
  /\ b \in {[Fresh EXCEPT !.primary = p] : p \in Primaries}          \* proxyTo, inject, fault
        \cup {[Fresh EXCEPT !.status = "valid", !.body = v] : v \in {"unset", "text"}}
        \cup {[Fresh EXCEPT !.status = "valid", !.body = "json", !.headers = {"plain"}],
              [Fresh EXCEPT !.legacy = TRUE], [Fresh EXCEPT !.script = TRUE]}
  /\ calls = 0
  /\ asked = {f \in Facets(b) : f[2] \notin {"none", "unset"}}

Status(code)   == Chain([b EXCEPT !.status = code], OfKind("status"), {<<"status", code>>})

\* header() and headers(): merged with what is there.
Header(names)  == Chain([b EXCEPT !.headers = @ \cup names], {}, {<<"header", h>> : h \in names})

Body(value)    == Chain([b EXCEPT !.body = value], OfKind("body"), {<<"body", value>>})

\* Bytes are encoded; a string that is not canonical base64 is refused.
BinaryBody(data) ==
  IF data = "other string" THEN Throw
  ELSE Chain([b EXCEPT !.body = "base64", !.binary = TRUE], OfKind("body"),
             {<<"body", "base64">>, <<"mode", "binary">>})

\* latency(), repeat() and the other setters of one _behaviors key: some refuse
\* an argument, some take one with nothing in it for no call at all.
Behave(key, argument) ==
  CASE argument = "refused" -> key \in {"wait", "repeat"} /\ Throw
    [] argument = "nothing" -> key \in {"shellTransform", "copy", "lookup"} /\ Chain(b, {}, {})
    [] OTHER -> Chain([b EXCEPT !.behaviors = @ \cup {key}], {}, {<<"behavior", key>>})

WithFault(kind) ==
  IF kind \in b.faults THEN Throw
  ELSE Chain([b EXCEPT !.faults = @ \cup {kind}], {}, {<<"rift", kind>>})

Fault == Chain([b EXCEPT !.legacy = TRUE], {}, {<<"rift", "legacy tcp">>})

\* Exactly one of code, file and ref.
Script(present) ==
  IF present # 1 THEN Throw ELSE Chain([b EXCEPT !.script = TRUE], {}, {<<"rift", "script">>})

Templated == Chain([b EXCEPT !.templated = TRUE], {}, {<<"rift", "templated">>})

\* Each operation is validated and pushed in its turn: those before one that is
\* refused stay, although the call throws.
StateOps(ops) ==
  LET refusedAt == {i \in DOMAIN ops : ~ops[i]}
      pushed    == IF refusedAt = {} THEN Len(ops) ELSE (CHOOSE i \in refusedAt : TRUE) - 1
  IN  Chain([b EXCEPT !.stateOps = @ + pushed], {},
            IF refusedAt = {} THEN {<<"rift", "stateOps">>} ELSE {})

\* raw(): the last patch of a top-level key wins over it, whatever it holds.
RawKind == [is |-> "raw is", behaviors |-> "raw behaviors", rift |-> "raw rift"]

Raw(block, patch) ==
  Chain([b EXCEPT !.raw[block] = patch], OfKind(RawKind[block]), {<<RawKind[block], patch>>})

RawFlat == Chain([b EXCEPT !.raw.flat = TRUE], {}, {<<"raw flat", "status">>})

\* The calls of a ProxyBuilder: each sets a key of proxy, and a header has one
\* spelling.
Patch(key) ==
  /\ b.primary = "proxy"
  /\ Chain([b EXCEPT !.proxy = @ \cup {key}], {}, {<<"proxy", key>>})

InjectHeader(name) ==
  /\ b.primary = "proxy"
  /\ IF b.injected \subseteq {name}
     THEN Chain([b EXCEPT !.injected = {name}], {}, {<<"proxy", name>>})
     ELSE Throw

ResponseNext ==
  \/ \E code \in Statuses : Status(code)
  \/ \E names \in {{}} \cup {{h} : h \in Headers} : Header(names)
  \/ \E value \in BodyValues : Body(value)
  \/ \E data \in {"bytes", "base64", "other string"} : BinaryBody(data)
  \/ \E key \in Behaviours, argument \in {"usable", "refused", "nothing"} : Behave(key, argument)
  \/ \E kind \in Faults : WithFault(kind)
  \/ Fault
  \/ \E present \in 0..2 : Script(present)
  \/ Templated
  \/ \E ops \in {<<TRUE>>, <<FALSE>>, <<TRUE, FALSE>>} : StateOps(ops)
  \/ \E patch \in RawIs : Raw("is", patch)
  \/ \E block \in {"behaviors", "rift"}, patch \in RawBlocks : Raw(block, patch)
  \/ RawFlat
  \/ \E key \in ProxyKeys : Patch(key)
  \/ \E name \in {"plain", "PLAIN"} : InjectHeader(name)

ResponseSpec == ResponseInit /\ [][ResponseNext]_responseVars

-----------------------------------------------------------------------------
(* What was asked for, and what the engine finds in the wire response.     *)

\* A patch of a block is a wish to have the patch instead of the block.
Overridden ==
  (IF b.raw.is = "absent" THEN {} ELSE {"status", "header", "body", "mode"})
    \cup (IF b.raw.behaviors = "absent" THEN {} ELSE {"behavior"})
    \cup (IF b.raw.rift = "absent" THEN {} ELSE {"rift"})

Wanted == {f \in asked : f[1] \notin Overridden}

\* A block of behaviors is run on what an is, a proxy or an inject returns.  On a
\* native fault, and on a script with no is beside it, only repeat takes effect:
\* the engine warns of the rest and goes on without it.
RepeatOnly(wire) ==
  \/ wire.primary = "fault"
  \/ wire.primary = "none" /\ wire.is.kind = "absent" /\ "script" \in wire.rift.keys

\* The engine runs state operations after it has rendered an is response that
\* neither a script nor a TCP fault takes the place of.
StateOpsIdle(wire) ==
  wire.is.kind = "absent" \/ wire.rift.keys \cap {"script", "tcp", "legacy tcp"} # {}

Found(wire) ==
  {<<"primary", wire.primary>>, <<"status", wire.is.status>>, <<"body", wire.is.body>>,
   <<"mode", wire.is.mode>>}
    \cup {<<"header", h>> : h \in wire.is.headers} \cup {<<"proxy", k>> : k \in wire.proxy}
    \cup {<<"behavior", k>> : k \in {k \in wire.behaviors.keys : k = "repeat" \/ ~RepeatOnly(wire)}}
    \cup {<<"rift", k>> : k \in wire.rift.keys \ (IF StateOpsIdle(wire) THEN {"stateOps"} ELSE {})}

\* What build() lets through although nothing will run it: behaviors other than
\* repeat on a native fault or on a script alone (dsl/response.ts:18-20), state
\* operations beside a TCP fault, which build() means to refuse but looks for an
\* is only (:338-346), and either of them when the caller patches the is away.
LetThrough ==
  {<<"behavior", k>> : k \in {k \in Behaviours : k # "repeat"
     /\ \/ b.primary = "fault"
        \/ b.primary = "none" /\ b.script /\ (~HasIsContent(b) \/ b.raw.is = "undefined")}}
    \cup {f \in {<<"rift", "stateOps">>} : b.raw.is = "undefined" \/ b.legacy \/ "tcp" \in b.faults}

\* A response that is built has everything that was asked of it take effect, or
\* build() throws: no call of the chain is lost to another one, to a primary
\* content it cannot go with, or to a response that never runs it
\* (dsl/response.ts:325-352); except for the calls build() lets through to an
\* engine that only warns of them.  A raw patch is the caller's own replacement.
NothingSilentlyDropped ==
  ~Refused(b) =>
    \A f \in Wanted \ LetThrough :
      f \in Found(Build(b)) \/ f[1] \in {"raw is", "raw behaviors", "raw rift", "raw flat"}
=============================================================================
