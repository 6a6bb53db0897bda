------------------------------ MODULE MCWheel -------------------------------
(* Wheel with two slots per level, which go round every other tick. *)
EXTENDS Wheel

CONSTANTS t1, t2, scheduler, popper
=============================================================================
