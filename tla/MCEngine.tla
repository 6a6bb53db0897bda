------------------------------ MODULE MCEngine ------------------------------
(* Engine with one application thread beside the engine's own: a callback  *)
(* that calls again is the second caller.                                  *)
EXTENDS Engine
=============================================================================
