--------------------------- MODULE MCNativeEngine ---------------------------
(* Model-checking instance of NativeEngine. *)
EXTENDS NativeEngine
=============================================================================
