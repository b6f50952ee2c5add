-------------------------- MODULE MCCdylibResolver --------------------------
(* Model-checking instances of CdylibResolver. *)
EXTENDS CdylibResolver
=============================================================================
