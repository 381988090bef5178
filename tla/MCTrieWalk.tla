----------------------------- MODULE MCTrieWalk -----------------------------
(* Instances of TrieWalk for TLC. *)
EXTENDS TrieWalk

CONSTANTS a, b, dot, v1

MCNode    == 0 .. 4
MCChar    == {a, b, dot}
MCValue   == {v1}
MCGarbage == {<<>>}
MCKey     == {<<a>>, <<a, dot, a>>, <<a, dot, b>>, <<b>>}
=============================================================================
