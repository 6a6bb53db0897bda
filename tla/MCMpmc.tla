-------------------------------- MODULE MCMpmc --------------------------------
(* Instances of Mpmc for TLC; the .cfg file chooses threads, items and bounds. *)
EXTENDS Mpmc
=============================================================================
