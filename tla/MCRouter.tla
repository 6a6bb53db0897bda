------------------------------ MODULE MCRouter ------------------------------
(* Router with one subscription of its own and a group of two. *)
EXTENDS Router

CONSTANTS s1, s2, s3, own, group

MCBoxOf == [s \in {s1, s2, s3} |-> IF s = s1 THEN own ELSE group]

(* The patterns "a.#" and "*.b", the topics "a" and "a/b". *)
MCPatternOf == [b \in {own, group} |-> IF b = own THEN <<"a", ".", "#">> ELSE <<"*", ".", "b">>]
MCTopics == {<<"a">>, <<"a", "/", "b">>}
=============================================================================
