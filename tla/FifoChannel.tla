----------------------------- MODULE FifoChannel -----------------------------
(***************************************************************************)
(* What every queue of the engine promises about order, without saying     *)
(* how: what is put in comes out once, oldest first, and no more than      *)
(* Bound entries are ever inside.                                          *)
(***************************************************************************)
EXTENDS Naturals, Sequences

CONSTANTS
  Messages,  \* what may be put in
  Bound      \* how many entries may be inside at once

VARIABLES
  chan,   \* what is inside, oldest first
  taken   \* everything that has come out, in the order it came out

chanVars == <<chan, taken>>

Init == chan = <<>> /\ taken = <<>>

Put(x) ==
  /\ Len(chan) < Bound
  /\ chan' = Append(chan, x)
  /\ UNCHANGED taken

Take ==
  /\ chan # <<>>
  /\ chan' = Tail(chan)
  /\ taken' = Append(taken, Head(chan))

Next == (\E x \in Messages : Put(x)) \/ Take

Spec == Init /\ [][Next]_chanVars
=============================================================================
