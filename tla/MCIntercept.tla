---------------------------- MODULE MCIntercept ----------------------------
(* Model-checking instance of Intercept. *)
EXTENDS Intercept

MCUses == {"addRule", "rules"}

MCCalls == [by : Callers, fn : {"rift_start_intercept"} \cup {NativeFn[u] : u \in MCUses}]

\* A port of the caller's, one JSON does not have, a certificate pair, half a
\* pair, a credential.
MCOptions ==
  {[NoOptions EXCEPT !.port = "own"], [NoOptions EXCEPT !.port = "NaN"],
   [NoOptions EXCEPT !.ca = "pair"], [NoOptions EXCEPT !.ca = "lone"],
   [NoOptions EXCEPT !.auth = "user"]}
=============================================================================
