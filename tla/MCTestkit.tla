----------------------------- MODULE MCTestkit -----------------------------
(* Model-checking instances of Testkit. *)
EXTENDS Testkit, TLC

Symmetry == Permutations(Calls) \cup Permutations(Ports)

\* A spawned engine, whose version is looked up when it is needed; an embedded
\* one whose version could not be read.
MCSetups ==
  {[embedded |-> FALSE, stubWarnings |-> "fail", versionCheck |-> "fail", version |-> "none"],
   [embedded |-> TRUE, stubWarnings |-> "fail", versionCheck |-> "warn", version |-> "unreadable"]}

=============================================================================
