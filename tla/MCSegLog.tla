------------------------------ MODULE MCSegLog ------------------------------
(* SegLog on small files: segments of three cells, records of two. *)
EXTENDS SegLog
=============================================================================
