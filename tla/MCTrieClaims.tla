---------------------------- MODULE MCTrieClaims ----------------------------
(* Instances of TrieClaims for TLC. *)
EXTENDS TrieClaims

CONSTANTS a, b, dot, v1, v2

MCNode    == 0 .. 5
MCChar    == {a, b, dot}
MCValue   == {v1}
MCGarbage == {<<>>}
MCKey     == {<<a>>, <<a, b>>, <<b, a, b>>, <<b, a, a>>, <<b, b>>, <<b, b, dot>>}
=============================================================================
