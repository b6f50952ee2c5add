---------------------------- MODULE RemoteClient ----------------------------
(***************************************************************************)
(* A request of the admin client (rift-core/src/remote/client.ts): fetch   *)
(* under a timer, the status, the body.  The timer runs until the headers  *)
(* are there; the body is read without one.                                *)
(***************************************************************************)
EXTENDS FiniteSets

CONSTANT Callers    \* each has at most one request under way

VARIABLES
  clientClosed,     \* RemoteClient.#closed
  request           \* the last request of each caller

clientVars == <<clientClosed, request>>

\* Routes that may answer nothing, and routes whose body is taken as it is.
AllowEmpty == {"POST rules", "DELETE rules"}
Unparsed   == {"GET ca.pem", "GET truststore"}
Routes     == AllowEmpty \cup Unparsed \cup {"GET rules", "GET intercept"}

Bodies   == {"empty", "json", "shapeless", "garbage"}
Errors   == {"RiftError", "EngineUnavailable", "InvalidDefinition", "ImposterNotFound",
             "EngineError", "CommunicationError", "TypeError"}
NoRequest == [step |-> "none"]

ClientTypeOK ==
  /\ clientClosed \in BOOLEAN
  /\ \A c \in Callers : \/ request[c] = NoRequest
                        \/ request[c].step \in {"fetching", "body"} /\ request[c].route \in Routes
                        \/ request[c].step = "settled" /\ request[c].outcome \in Bodies \cup Errors

ClientInit == clientClosed = FALSE /\ request = [c \in Callers |-> NoRequest]

Settled(outcome) == [step |-> "settled", outcome |-> outcome]

\* request(), rawFetch(): a closed client throws before it fetches.
Send(c, route) ==
  request' = [request EXCEPT ![c] = IF clientClosed THEN Settled("RiftError")
                                    ELSE [step |-> "fetching", route |-> route]]

\* fetch rejects: the engine cannot be reached, or the timer has aborted it.
FetchFails(c) ==
  /\ request[c].step = "fetching"
  /\ request' = [request EXCEPT ![c] = Settled("EngineUnavailable")]
  /\ UNCHANGED clientClosed

\* Bug: nobody aborts a fetch that is not answered.
BugTimesOut(c) == FALSE /\ UNCHANGED clientVars

TimesOut(c) == FetchFails(c)

\* The headers arrive: clearTimeout.
HeadersArrive(c, status) ==
  /\ request[c].step = "fetching"
  /\ request' = [request EXCEPT ![c] = [step |-> "body", route |-> @.route, status |-> status]]
  /\ UNCHANGED clientClosed

\* throwForStatus.
ThrowForStatus(status) ==
  CASE status = 400 -> "InvalidDefinition"
    [] status = 404 -> "ImposterNotFound"
    [] OTHER        -> "EngineError"

\* parseJsonBody.
ParseJsonBody(body, allowEmpty) ==
  IF body = "garbage" \/ (body = "empty" /\ ~allowEmpty) THEN "CommunicationError" ELSE body

BodyEnds(c, body) ==
  LET r == request[c] IN
  /\ r.step = "body"
  /\ request' = [request EXCEPT ![c] = Settled(
       IF r.status # 200 THEN ThrowForStatus(r.status)
       ELSE IF r.route \in Unparsed THEN body
       ELSE ParseJsonBody(body, r.route \in AllowEmpty))]
  /\ UNCHANGED clientClosed

\* The connection breaks in the middle of the body. The message of an error is
\* read for what there is of it; anything else rejects with what fetch throws.
BodyBreaks(c) ==
  LET r == request[c] IN
  /\ r.step = "body"
  /\ request' = [request EXCEPT ![c] =
       Settled(IF r.status # 200 THEN ThrowForStatus(r.status) ELSE "TypeError")]
  /\ UNCHANGED clientClosed

\* close(): requests under way go on.
CloseClient == clientClosed' = TRUE /\ UNCHANGED request

\* A request that is never settled is waiting for the rest of a body.
AtBody(c) == request[c].step = "body"
=============================================================================
