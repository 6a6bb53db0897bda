------------------------------ MODULE MCDelivery ------------------------------
(***************************************************************************)
(* Instances of Delivery for TLC: one scenario for each way the code reads *)
(* the log, with the events that way of reading has to cope with.          *)
(***************************************************************************)
EXTENDS Delivery

AtLeast(policy, kinds, tries, crashes) ==
  [policy |-> policy, at_least_once |-> TRUE, kinds |-> kinds, prios |-> {0},
   pushes |-> 3, retries |-> tries, seeks |-> 0, restarts |-> crashes]
AtMost(policy, kinds) ==
  [AtLeast(policy, kinds, 0, 1) EXCEPT !.at_least_once = FALSE, !.seeks = 1]

Two(s) == [s EXCEPT !.pushes = 2]

All == {"plain", "ttl", "delayed"}
Mortal == {"plain", "ttl"}

\* Three messages with one retry, two with two retries.
Every ==
  {AtLeast("fifo", All, 1, 1), Two(AtLeast("fifo", All, 2, 1)),
   AtLeast("lifo", Mortal, 1, 1), Two(AtLeast("lifo", Mortal, 2, 1)),
   [AtLeast("priority", Mortal, 0, 1) EXCEPT !.prios = {0, 1}],
   [AtLeast("priority", {"plain"}, 1, 1) EXCEPT !.prios = {0, 1}],
   AtLeast("delay", All, 1, 0), Two(AtLeast("delay", All, 1, 1)),
   [AtLeast("stream", {"plain"}, 1, 0) EXCEPT !.seeks = 1],
   [Two(AtLeast("stream", Mortal, 1, 0)) EXCEPT !.seeks = 1],
   [AtLeast("ring", Mortal, 0, 0) EXCEPT !.pushes = 4], AtLeast("ring", Mortal, 1, 0),
   AtMost("lifo", Mortal), AtMost("fifo", All)}
=============================================================================
