----------------------------- MODULE TimeFormat ------------------------------
(***************************************************************************)
(* What the manipulators of iom (trie-chrono.hh) amount to: one zone and   *)
(* one number of fraction digits for every stream of the process, and      *)
(* scopes that put both back.                                              *)
(***************************************************************************)
EXTENDS Naturals, Sequences, SequencesExt

CONSTANT MaxSavers     \* bound: scopes open at once

VARIABLES
  zone,      \* "gmt" or "local"
  digits,    \* digits of the fraction: 0, 3, 6 or 9
  saved,     \* what the open scopes put back
  printed    \* <<zone, digits>> the last call printed a time with, <<>> if it printed none

vars == <<zone, digits, saved, printed>>

Init == zone = "gmt" /\ digits = 6 /\ saved = <<>> /\ printed = <<>>

Sets(z, d) == zone' = z /\ digits' = d /\ printed' = <<>>

AskZone(z) == Sets(z, digits) /\ UNCHANGED saved

\* Choosing the digits chooses the local zone as well.
AskDigits(d) == Sets("local", d) /\ UNCHANGED saved

AskNone == Sets(zone, 0) /\ UNCHANGED saved

Clear == Sets("gmt", 6) /\ UNCHANGED saved

Open == /\ Len(saved) < MaxSavers
        /\ saved' = Append(saved, <<zone, digits>>)
        /\ Sets(zone, digits)

Close == /\ saved # <<>>
         /\ Sets(Last(saved)[1], Last(saved)[2])
         /\ saved' = Front(saved)

\* A time is printed in the zone asked for, or in the local one at the caller's wish,
\* which changes nothing for others; an instant whose seconds round to -1 is not.
PrintTime(z) == printed' = <<z, digits>> /\ UNCHANGED <<zone, digits, saved>>

PrintNothing == printed' = <<>> /\ UNCHANGED <<zone, digits, saved>>

Next == \/ \E z \in {"gmt", "local"} : AskZone(z)
        \/ \E d \in {3, 6, 9} : AskDigits(d)
        \/ AskNone \/ Clear \/ Open \/ Close
        \/ PrintTime(zone) \/ PrintTime("local") \/ PrintNothing

Spec == Init /\ [][Next]_vars
=============================================================================
