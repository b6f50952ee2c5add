----------------------------- MODULE SettleOnce -----------------------------
(***************************************************************************)
(* What the embedded transport promises to whoever calls a native          *)
(* function: a call made while the service is up is answered exactly once, *)
(* with a value or an error, whatever happens to the thread that serves    *)
(* it; the moment the service goes down every call still in flight is      *)
(* failed, and nothing is accepted afterwards.                             *)
(***************************************************************************)
EXTENDS Naturals

CONSTANT CallIds   \* the calls that may ever be made

VARIABLES gate,    \* "starting", "up" or "down"
          status   \* status[c]: "idle", "inflight", "value" or "error"

vars == <<gate, status>>

Settled == {"value", "error"}

TypeOK == /\ gate \in {"starting", "up", "down"}
          /\ status \in [CallIds -> {"idle", "inflight"} \cup Settled]

Init == /\ gate = "starting"
        /\ status = [c \in CallIds |-> "idle"]

ComeUp == /\ gate = "starting"
          /\ gate' = "up"
          /\ UNCHANGED status

Issue(c) == /\ gate = "up"
            /\ status[c] = "idle"
            /\ status' = [status EXCEPT ![c] = "inflight"]
            /\ UNCHANGED gate

\* A call whose request could not even be handed over fails on the spot.
FailAtOnce(c) == /\ gate = "up"
                 /\ status[c] = "idle"
                 /\ status' = [status EXCEPT ![c] = "error"]
                 /\ UNCHANGED gate

Answer(c) == /\ gate = "up"
             /\ status[c] = "inflight"
             /\ \E s \in Settled : status' = [status EXCEPT ![c] = s]
             /\ UNCHANGED gate

GoDown == /\ gate # "down"
          /\ gate' = "down"
          /\ status' = [c \in CallIds |->
                          IF status[c] = "inflight" THEN "error" ELSE status[c]]

Next == \/ ComeUp
        \/ GoDown
        \/ \E c \in CallIds : Issue(c) \/ FailAtOnce(c) \/ Answer(c)

Spec == Init /\ [][Next]_vars
=============================================================================
