----------------------------- MODULE FlagClaims ------------------------------
(***************************************************************************)
(* What the tests and comments of trie-cxx say of the flags of iom, and    *)
(* the code does not do.                                                   *)
(***************************************************************************)
EXTENDS FormatFlags

\* test/chrono.cc:193-195 prints a time in GMT with nanoseconds, with microseconds and
\* with milliseconds: `<< gmt << ns`, `<< gmt << us`, `<< gmt << ms`.  A stream that has
\* been asked for GMT stays with it when it is asked for digits.
DigitsKeepGmt ==
  [][\A v \in SmallName :
       Has(word, "gmt") /\ Zone(word) = "gmt" /\ Ask(v, TRUE) => Zone(word') = "gmt"]_flagVars
=============================================================================
