--------------------------- MODULE InterceptRules ---------------------------
(***************************************************************************)
(* The intercept rules (rift-core/src/intercept/rules.ts): serve() turns a *)
(* response into the engine's serve action, which holds a status, headers  *)
(* and a string body and ignores everything else it is sent.               *)
(***************************************************************************)
EXTENDS ResponseBuilder, FiniteSets

\* Bug: a block that is not an object has no keys to report.
BugUndeliverableBlock(name, block) == {<<name, k>> : k \in block.keys}

\* blockKeys: the keys of a block, or the block when it is not an object.
UndeliverableBlock(name, block) ==
  IF block.kind = "malformed" THEN {<<name, "all of it">>}
  ELSE {<<name, k>> : k \in block.keys}

\* undeliverable() on an is block, or on a literal response.
UndeliverableIs(is) == IF is.nested THEN {<<"is", "nested behaviors">>} ELSE {}

\* undeliverable() on what a builder has built.
Undeliverable(wire) ==
  UndeliverableBlock("_behaviors", wire.behaviors)
    \cup UndeliverableBlock("_rift", wire.rift)
    \cup (IF wire.flat THEN {<<"flat", "status">>} ELSE {})
    \cup (IF wire.primary # "none" THEN {<<"primary", wire.primary>>} ELSE {})
    \cup UndeliverableIs(wire.is)

\* toIsResponse.
IsResponseRefused(dropped, is) == is.kind # "object" \/ dropped # {}

\* toStatusCode.
StatusRefused(is) == is.status = "invalid"

\* toHeaders: names the engine manages or would skip, values it would drop, a
\* second spelling of a name, and a header without values.
HeadersRefused(is) ==
  \/ is.headers \cap {"managed", "malformed", "control", "empty"} # {}
  \/ {"plain", "PLAIN"} \subseteq is.headers

\* toBody.
BodyRefused(is) == is.body = "unserializable"

\* toServeStub; null and no body are the same to it.
ServeStubRefused(is) ==
  \/ is.mode \in {"binary", "unknown"}
  \/ StatusRefused(is) \/ HeadersRefused(is) \/ BodyRefused(is)

\* serveRule(match, response), response being a builder or what one has built.
ServeRefused(wire)        == \/ IsResponseRefused(Undeliverable(wire), wire.is)
                             \/ ServeStubRefused(wire.is)
ServeLiteralRefused(wire) == \/ IsResponseRefused(UndeliverableIs(wire.is), wire.is)
                             \/ ServeStubRefused(wire.is)

\* What the application gets from a rule that is registered: a serve action's
\* engine answers 500 for a status that is none, strips or skips headers, merges
\* two spellings, and knows no mode.
Served(is) ==
  {<<"status", is.status>> : s \in {is.status} \ {"invalid"}}
    \cup {<<"body", is.body>> : v \in {is.body} \ {"unserializable", "base64"}}
    \cup {<<"header", h>> : h \in is.headers
            \ ({"managed", "malformed", "control", "empty"}
               \cup (IF {"plain", "PLAIN"} \subseteq is.headers THEN {"plain", "PLAIN"} ELSE {}))}

\* The parts of an is block that mean something.
Meant(is) ==
  {f \in {<<"status", is.status>>, <<"body", is.body>>} : f[2] # "unset"}
    \cup {<<"header", h>> : h \in is.headers}

RawBlockWanted == b.raw.behaviors \in {"object", "malformed"} \/ b.raw.rift \in {"object", "malformed"}
                    \/ b.raw.flat

\* A rule that serve() accepts answers what was asked for: all of the is block
\* arrives as it was given, and there was nothing else to it, not in the calls
\* and not in raw patches (intercept/rules.ts:83-169, 314-336).
ServedIsWhatWasAsked ==
  LET wire == Build(b) IN
  /\ ~Refused(b) /\ ~ServeRefused(wire) =>
       /\ {f \in Wanted : f[1] \notin {"raw is", "raw behaviors", "raw rift"}} \subseteq Served(wire.is)
       /\ Meant(wire.is) \subseteq Served(wire.is)
       /\ ~RawBlockWanted
       /\ wire.is.mode \in {"unset", "text"} /\ ~wire.is.nested
  /\ ~ServeLiteralRefused(wire) =>
       /\ Meant(wire.is) \subseteq Served(wire.is)
       /\ wire.is.mode \in {"unset", "text"} /\ ~wire.is.nested
=============================================================================
