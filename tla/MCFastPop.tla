------------------------------ MODULE MCFastPop ------------------------------
(* Instances of FastPop for TLC. *)
EXTENDS FastPop
=============================================================================
