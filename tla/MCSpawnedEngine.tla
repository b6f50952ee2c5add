-------------------------- MODULE MCSpawnedEngine --------------------------
(* Model-checking instances of SpawnedEngine. *)
EXTENDS SpawnedEngine
=============================================================================
