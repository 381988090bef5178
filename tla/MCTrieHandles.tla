--------------------------- MODULE MCTrieHandles ----------------------------
(* Instances of TrieHandles for TLC. *)
EXTENDS TrieHandles, TLC

CONSTANTS a, b, c, dot, v1, t1, t2, h1

MCNode    == 0 .. 3
MCChar    == {a, b, c, dot}
MCValue   == {v1}
MCGarbage == {<<>>}
MCKey     == {<<a, dot, b>>, <<a, dot, c>>}
MCTries   == {t1, t2}
MCHolder  == {h1}
MCSymmetry == Permutations({b, c}) \cup Permutations(MCTries)
=============================================================================
