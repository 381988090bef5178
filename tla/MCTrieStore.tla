---------------------------- MODULE MCTrieStore -----------------------------
(* Instances of TrieStore for TLC. *)
EXTENDS TrieStore, TLC

CONSTANTS a, b, dot, v1, v2

MCNode    == 0 .. 4
MCChar    == {a, b, dot}
MCValue   == {v1, v2}
MCGarbage == {<<>>}
MCSymmetry == Permutations(MCValue)
MCKey     == {<<a>>, <<a, b>>, <<a, b, a>>, <<a, dot, b>>, <<a, dot, a>>}
=============================================================================
