----------------------------- MODULE MCStreams ------------------------------
(* Instances of Streams for TLC. *)
EXTENDS Streams, FlagClaims, TLC

\* Each part absent, one figure, and three.
MCPart     == {0, 7, 100}
MCDuration == [head : {"none", "seconds", "more"}, ms : MCPart, us : MCPart, ns : MCPart]

\* After the epoch, at it, in each of the two seconds before it, and at the end of those.
MCInstant == {1040007100, 0, -7, -1000000000, -2000000000}

\* Bound: savers live on a stream nobody has written to.  A stream has no part in them.
SaversApart == savers = <<>> \/ (past = NoHistory /\ ~ dumping)
=============================================================================
