------------------------------ MODULE AlarmSet ------------------------------
(***************************************************************************)
(* What a timer service promises, told without a wheel: an alarm goes off  *)
(* at most once, never before its time, and never after a cancel that      *)
(* succeeded.  Once its time has come it may also be dropped unheard.      *)
(* Wheel is shown to implement it.                                         *)
(***************************************************************************)
EXTENDS Naturals

CONSTANT Alarms

VARIABLES clock, alarm

vars == <<clock, alarm>>

Over(how) == [state |-> how, at |-> 0]

Init ==
    /\ clock = 0
    /\ alarm = [a \in Alarms |-> Over("free")]

Passes == clock' = clock + 1 /\ UNCHANGED alarm

Set(a) ==
    /\ alarm[a].state = "free"
    /\ alarm'[a].at \in Nat
    /\ alarm' = [alarm EXCEPT ![a] = [state |-> "armed", at |-> alarm'[a].at]]
    /\ UNCHANGED clock

Ends(a, how) ==
    /\ alarm[a].state = "armed" /\ alarm[a].at <= clock
    /\ alarm' = [alarm EXCEPT ![a] = Over(how)]
    /\ UNCHANGED clock

GoOff(a) == Ends(a, "fired")
Drop(a)  == Ends(a, "dropped")

Cancel(a) ==
    /\ alarm[a].state = "armed"
    /\ alarm' = [alarm EXCEPT ![a] = Over("cancelled")]
    /\ UNCHANGED clock

Next == Passes \/ \E a \in Alarms : Set(a) \/ GoOff(a) \/ Drop(a) \/ Cancel(a)

Spec == Init /\ [][Next]_vars
=============================================================================
