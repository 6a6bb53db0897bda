------------------------------ MODULE MCLfqRing ------------------------------
(***************************************************************************)
(* Instances of LfqRing for TLC.                                           *)
(***************************************************************************)
EXTENDS LfqRing

\* Two threads and a claiming consumer: frames of one size in a ring they do
\* not fill evenly, so padding appears at a different place on every lap.
TwoThreads ==
  [capacity |-> 32, backpressure |-> "drop_new", limit |-> 0, sizes |-> {3}, bufs |-> {0, 3},
   trash |-> 1, payload |-> COMMITTED, claims |-> TRUE, one_thread |-> FALSE, pushes |-> 8]

\* Two threads and a ring that ends in a gap shorter than a frame header: five
\* frames of three cells leave one.
ShortGap ==
  [capacity |-> 16, backpressure |-> "drop_new", limit |-> 0, sizes |-> {1}, bufs |-> {1},
   trash |-> 1, payload |-> COMMITTED, claims |-> FALSE, one_thread |-> FALSE, pushes |-> 8]

\* One thread, frames of two sizes, and pushes that drop the oldest message.
DropOld ==
  [capacity |-> 8, backpressure |-> "drop_old", limit |-> 2, sizes |-> {0, 2}, bufs |-> {0, 2},
   trash |-> 1, payload |-> COMMITTED, claims |-> FALSE, one_thread |-> TRUE, pushes |-> 6]

\* Two threads and a limit in messages; a claim held while pushes are refused.
Limited ==
  [TwoThreads EXCEPT !.limit = 2, !.backpressure = "block", !.bufs = {3}]

\* One thread that pushes, pops and claims frames of two sizes.
Claiming ==
  [DropOld EXCEPT !.backpressure = "drop_new", !.limit = 0, !.claims = TRUE]

\* Two threads and frames of two sizes in a small ring.
Mixed ==
  [capacity |-> 8, backpressure |-> "drop_new", limit |-> 0, sizes |-> {0, 2}, bufs |-> {2},
   trash |-> 1, payload |-> EMPTY, claims |-> FALSE, one_thread |-> FALSE, pushes |-> 6]

Uses == {TwoThreads, ShortGap, DropOld, Limited, Claiming}
MixedSizes == {Mixed}
=============================================================================
