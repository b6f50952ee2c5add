-------------------------- MODULE MCRequestPoller --------------------------
(* Model-checking instances of RequestPoller: opts.match refuses request 2. *)
EXTENDS RequestPoller
=============================================================================
