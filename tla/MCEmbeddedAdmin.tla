-------------------------- MODULE MCEmbeddedAdmin --------------------------
(* Model-checking instances of EmbeddedAdmin. *)
EXTENDS EmbeddedAdmin, TLC

\* The clients are interchangeable, and so are the ports and the stubs (safety
\* runs only).
Symmetry == Permutations(Clients) \cup Permutations(Ports) \cup Permutations(Stubs)
=============================================================================
