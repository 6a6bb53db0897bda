----------------------------- MODULE TopicMatch -----------------------------
(***************************************************************************)
(* emq_topic_match of src/core/src/routing/emq_routing.c, character by     *)
(* character as the code goes, and what its comment says a pattern means,  *)
(* level by level.  A topic and a pattern are sequences of characters.     *)
(***************************************************************************)
EXTENDS Naturals, Sequences, SequencesExt

Sep == {".", "/"}
CharAt(s, i) == IF i <= Len(s) THEN s[i] ELSE "end"

(* The first separator or the end from position j on. *)
LevelEnd(t, j) ==
    CHOOSE k \in j .. Len(t) + 1 :
        CharAt(t, k) \in Sep \cup {"end"} /\ \A i \in j .. k - 1 : t[i] \notin Sep

\* Mutant: the last of the tests, for "a.#" and "a", is missing.
AtEnd_one_level(p, t, i, j) ==
    \/ i = Len(p) /\ (p[i] = "#" \/ (p[i] = "*" /\ j > Len(t)))
    \/ i > Len(p) /\ j > Len(t)

(* After the loop, when the pattern or the topic is at its end. *)
AtEnd(p, t, i, j) ==
    \/ i = Len(p) /\ (p[i] = "#" \/ (p[i] = "*" /\ j > Len(t)))
    \/ CharAt(p, i) \in Sep /\ i + 1 = Len(p) /\ p[i + 1] = "#"
    \/ i > Len(p) /\ j > Len(t)

Match(p, t) ==
    LET m[i \in 1 .. Len(p) + 2, j \in 1 .. Len(t) + 2] ==
          LET pc == CharAt(p, i)
              tc == CharAt(t, j)
          IN IF "end" \in {pc, tc} THEN AtEnd(p, t, i, j)
             ELSE IF pc = "#" THEN i = Len(p)
             ELSE IF pc = "*" THEN
                  LET k == LevelEnd(t, j)
                  IN IF CharAt(p, i + 1) \in Sep /\ CharAt(t, k) \in Sep
                       THEN m[i + 2, k + 1]
                       ELSE i = Len(p) /\ k > Len(t)
             ELSE ({pc, tc} \subseteq Sep \/ pc = tc) /\ m[i + 1, j + 1]
    IN m[1, 1]
-----------------------------------------------------------------------------
Levels(s) ==
    FoldLeft(LAMBDA ls, ch : IF ch \in Sep THEN Append(ls, <<>>)
                             ELSE [ls EXCEPT ![Len(ls)] = Append(@, ch)],
             << <<>> >>, s)

(* "* = one level, # = zero or more levels (must be last token)" *)
Means(p, t) ==
    LET pl == Levels(p)
        tl == Levels(t)
        open == pl[Len(pl)] = <<"#">>
        n == IF open THEN Len(pl) - 1 ELSE Len(pl)
    IN /\ IF open THEN n <= Len(tl) ELSE n = Len(tl)
       /\ \A k \in 1 .. n : pl[k] \in {<<"*">>, tl[k]}
=============================================================================
