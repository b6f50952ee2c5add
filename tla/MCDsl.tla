------------------------------- MODULE MCDsl -------------------------------
(* Model-checking instance of the DSL: a program that builds one response, *)
(* or one imposter with one scenario, and hands the response to the        *)
(* intercept rules. *)
EXTENDS InterceptRules, ImposterBuilder

MCAnswers == {<<"ok">>, <<"gone", "ok">>}

\* The builders share nothing: a response is built, and copied, where it is
\* handed over.
MCInit == ResponseInit /\ ImposterInit
MCNext == \/ chained = 0 /\ ResponseNext /\ UNCHANGED imposterVars
          \/ calls = 0 /\ b = Fresh /\ ImposterNext /\ UNCHANGED responseVars
MCSpec == MCInit /\ [][MCNext]_<<responseVars, imposterVars>>
=============================================================================
