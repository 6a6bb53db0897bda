----------------------------- MODULE DurableLog -----------------------------
(***************************************************************************)
(* What a persistent queue log promises its queue across restarts, told    *)
(* without files: a sequence of messages of which those from "first" on    *)
(* are handed to readers, those below "stable" are promised, and those     *)
(* below "floor" are gone for good.  SegLog is shown to implement it.      *)
(***************************************************************************)
EXTENDS Naturals, FiniteSetsExt, SequencesExt

CONSTANT Ids

VARIABLES kept,     \* the messages from offset floor on, oldest first
          floor,    \* nothing below it ever comes back
          first,    \* offset of the oldest message handed to readers
          stable    \* messages below it survive any crash

vars == <<kept, floor, first, stable>>

End == floor + Len(kept)

Init == kept = <<>> /\ floor = 0 /\ first = 0 /\ stable = 0

(* A message is accepted, and promised at once or later. *)
Accept(id) ==
    /\ kept' = Append(kept, id)
    /\ stable' \in {stable, End + 1}
    /\ UNCHANGED <<floor, first>>

Sync == stable' = End /\ UNCHANGED <<kept, floor, first>>

Trim(n) ==
    /\ n \in first .. End
    /\ first' = n
    /\ UNCHANGED <<kept, floor, stable>>

(* Trimmed messages are dropped for good; what is left is promised. *)
Persist ==
    /\ kept' = SubSeq(kept, first - floor + 1, Len(kept))
    /\ floor' = first
    /\ stable' = End
    /\ UNCHANGED first

(* A clean restart hands out again what was trimmed in memory only. *)
Restart == first' = floor /\ UNCHANGED <<kept, floor, stable>>

(* s is t without some of its elements (matched from the left). *)
Within(s, t) ==
    FoldLeft(LAMBDA n, x : IF n < Len(s) /\ s[n + 1] = x THEN n + 1 ELSE n, 0, t) = Len(s)

(* What a crash leaves: all that was promised and, of the rest and of the  *)
(* message being accepted when it struck, some in their order.  It may     *)
(* strike after an interrupted Persist took effect.                        *)
Crash ==
    \E f \in {floor, first}, id \in Ids :
        LET safe == SubSeq(kept, f - floor + 1, stable - floor)
            open == Append(SubSeq(kept, Max({f, stable}) - floor + 1, Len(kept)), id)
        IN /\ IsPrefix(safe, kept')
           /\ Within(SubSeq(kept', Len(safe) + 1, Len(kept')), open)
           /\ floor' = f
           /\ first' = f
           /\ stable' = f + Len(kept')

Next ==
    \/ \E id \in Ids : Accept(id)
    \/ \E n \in 0 .. End : Trim(n)
    \/ Sync \/ Persist \/ Restart \/ Crash

Spec == Init /\ [][Next]_vars
=============================================================================
