------------------------------- MODULE MCTrie -------------------------------
(* Instances of Trie for TLC. *)
EXTENDS Trie

CONSTANTS a, b, dot, v1, v2

MCNode    == 0 .. 4
MCChar    == {a, b, dot}
MCValue   == {v1}
MCGarbage == {<<>>, <<a>>}
MCKey     == {<<>>, <<a>>, <<a, b>>, <<a, b, a>>, <<b, b>>, <<a, dot>>, <<a, dot, b>>}
=============================================================================
