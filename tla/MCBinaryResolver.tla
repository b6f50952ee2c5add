-------------------------- MODULE MCBinaryResolver --------------------------
(* Model-checking instance of BinaryResolver. *)
EXTENDS BinaryResolver, TLC

\* The processes are interchangeable.
Symmetry == Permutations(Procs)
=============================================================================
