---------------------------- MODULE FormatFlags -----------------------------
(***************************************************************************)
(* class iom of trie-chrono.hh: the one word of flags that every stream of *)
(* the process shares, the RAII saver, and the printing of instants, which *)
(* reads it.  A word is the set of its bit positions; an instant is an     *)
(* integer number of nanoseconds since the epoch.                          *)
(***************************************************************************)
EXTENDS Integers, Sequences, SequencesExt

CONSTANTS
  MaxSavers,   \* bound: savers alive at once
  SizeBits,    \* the width of size_t
  Instant      \* time points printed

\* Every fraction of a second is a size_t.
ASSUME SizeBitsAssumption == SizeBits \in Nat /\ 2^SizeBits \in Nat /\ 2^SizeBits >= 10^9

ASSUME InstantAssumption == Instant \subseteq Int

VARIABLES
  word,        \* iom::_flags
  savers,      \* the words the savers alive will put back, oldest first
  printed      \* zone and digits the last call printed an instant with, <<>> if none

flagVars == <<word, savers, printed>>

-----------------------------------------------------------------------------
(* The word.                                                               *)

\* enum class fmtflags; `nothing` is another name for ms.
Flag == [ms           |-> {0},  us    |-> {1},  ns           |-> {0, 1},
         gmt          |-> {12}, local |-> {13}, gmt_or_local |-> {14},
         mask_extra_fields |-> 0 .. 3, clear |-> {}]

FlagName  == DOMAIN Flag
SmallName == {"ms", "us", "ns"}      \* v < mask_extra_fields, clear aside
Extra     == Flag.mask_extra_fields

\* Mutant: ms, us and ns are looked for as bits.
HasBits(w, v) == v # "clear" /\ Flag[v] \subseteq w

\* has(v)
Has(w, v) == IF v \in SmallName THEN w \cap Extra = Flag[v]
                                ELSE v # "clear" /\ Flag[v] \subseteq w

\* The word after reset(), and the first.
ResetWord == Flag.gmt_or_local \cup Flag.us

Switch(w, v, on) == IF on THEN w \cup Flag[v] ELSE w \ Flag[v]

\* Mutant: `|` for `&`.
OrBits(w) == w \cup {4}

\* `& (mask_extra_fields + 1)`: what is left of the word when ms, us or ns is set.
KeptBits(w) == w \cap {4}

\* set_flags(v, on)
SetFlags(w, v, on) ==
  CASE v = "clear"      -> ResetWord
    [] v \in SmallName  -> KeptBits(w) \cup Flag[v]
    [] v = "gmt"        -> Switch(Switch(w, v, on), "gmt_or_local", TRUE)
    [] v = "local"      -> Switch(Switch(w, v, on), "gmt_or_local", FALSE)
    [] OTHER            -> Switch(w, v, on)

-----------------------------------------------------------------------------
(* Instants.                                                               *)

\* Integer division and remainder of C++, and the conversion to size_t.
Quotient(n, m)  == IF n >= 0 THEN n \div m ELSE - ((- n) \div m)
Remainder(n, m) == n - m * Quotient(n, m)
SizeT(n)        == n % 2^SizeBits

\* Mutant: the remainder of the whole count, not of its milliseconds.
MsOfSecond(t) == SizeT(Quotient(t, 1000000))

\* time_point_get_ms, _us, _ns
GetMs(t) == SizeT(Remainder(Quotient(t, 1000000), 1000))
GetUs(t) == SizeT(Remainder(Quotient(t, 1000), 1000))
GetNs(t) == SizeT(Remainder(t, 1000))

\* system_clock::to_time_t
ToTimeT(t) == Quotient(t, 1000000000)

Zone(w) == IF Has(w, "gmt_or_local") THEN "gmt" ELSE "local"

Digits(w) == IF Has(w, "ns") THEN 9 ELSE IF Has(w, "us") THEN 6 ELSE IF Has(w, "ms") THEN 3 ELSE 0

\* serialize_time_point: the groups of three digits it puts after the seconds.
Fraction(w, t) == SubSeq(<<GetMs(t), GetUs(t), GetNs(t)>>, 1, Digits(w) \div 3)

IsPrinted(t) == ToTimeT(t) # -1

\* Zone and digits that serialize_time_point prints with; <<>> if it prints nothing.
Serialized(w, t) == IF IsPrinted(t) THEN <<Zone(w), Digits(w)>> ELSE <<>>

\* clock::in_nsec and the one number clock::serialize puts after the seconds.
InNsec(t) == SizeT((GetMs(t) * 1000 + GetUs(t)) * 1000 + GetNs(t))
ClockFraction(w, t) == InNsec(t) \div 10^(9 - Digits(w))

-----------------------------------------------------------------------------

FlagsTypeOK == /\ word \subseteq UNION {Flag[v] : v \in FlagName}
               /\ savers \in Seq(SUBSET UNION {Flag[v] : v \in FlagName})
               /\ printed \in {<<>>} \cup ({"gmt", "local"} \X {0, 3, 6, 9})

FlagsInit == word = ResetWord /\ savers = <<>> /\ printed = <<>>

NoPrint == printed' = <<>>

\* set_flags(v, on); os << v is set_flags(v).
Ask(v, on) == word' = SetFlags(word, v, on) /\ UNCHANGED savers /\ NoPrint

\* iom::saver _iom_saver{}; and the end of its scope.
Save == /\ Len(savers) < MaxSavers
        /\ savers' = Append(savers, word)
        /\ UNCHANGED word /\ NoPrint

Restore == /\ savers # <<>>
           /\ word' = Last(savers) /\ savers' = Front(savers)
           /\ NoPrint

\* serialize_time_point, format_time_point, and format_time_point_to_local(format),
\* which reads the clock and forgets about the local zone.
PrintInstant(t) == printed' = Serialized(word, t) /\ UNCHANGED <<word, savers>>

\* format_time_point_to_local(time, format): a saver, set_flags, and the print.
PrintLocal(t) == /\ printed' = Serialized(SetFlags(word, "gmt_or_local", FALSE), t)
                 /\ UNCHANGED <<word, savers>>

\* clock::serialize
PrintClock == printed' = <<Zone(word), Digits(word)>> /\ UNCHANGED <<word, savers>>

\* What client code does to the word.
Manipulate == \/ \E v \in FlagName, on \in BOOLEAN : Ask(v, on)
              \/ Save \/ Restore

-----------------------------------------------------------------------------
(* Properties.                                                             *)

\* For a reader of times the flag word, with the bits that stay behind in it and those
\* that get lost, is a zone and a number of digits.
format == INSTANCE TimeFormat WITH
            zone   <- Zone(word),
            digits <- Digits(word),
            saved  <- [i \in DOMAIN savers |-> <<Zone(savers[i]), Digits(savers[i])>>]

\* Every instant of the second before the last one before the epoch goes unprinted.
PrintsIn(t, z) == IF - 2 * 10^9 < t /\ t <= - 10^9 THEN format!PrintNothing
                                                   ELSE format!PrintTime(z)

\* What each manipulator, scope and print is for a reader of times.
CallsAsAsked ==
  /\ \A on \in BOOLEAN :
       /\ Ask("gmt", on) => format!AskZone("gmt")
       /\ Ask("local", on) => format!AskZone("local")
       /\ Ask("gmt_or_local", on) => format!AskZone(IF on THEN "gmt" ELSE "local")
       /\ Ask("ms", on) => format!AskDigits(3)
       /\ Ask("us", on) => format!AskDigits(6)
       /\ Ask("ns", on) => format!AskDigits(9)
       /\ Ask("mask_extra_fields", on) => format!AskNone
       /\ Ask("clear", on) => format!Clear
  /\ Save => format!Open
  /\ Restore => format!Close
  /\ \A t \in Instant : /\ PrintInstant(t) => PrintsIn(t, Zone(word))
                        /\ PrintLocal(t) => PrintsIn(t, "local")
  /\ PrintClock => format!PrintTime(Zone(word))

\* Every sequence of manipulators, savers and prints is one of TimeFormat, and each call
\* is the operation that its argument names: zone and digits are those asked for last,
\* but asking for digits gives up GMT.
ImplementsTimeFormat == format!Spec /\ [][CallsAsAsked]_flagVars

\* What a reader makes of groups of figures that stand side by side: one group.
Joined(g, h) == [n |-> g.n * 10^h.width + h.n, width |-> g.width + h.width]

Read(groups) ==
  LET upto[i \in 0 .. Len(groups)] ==
        IF i = 0 THEN [n |-> 0, width |-> 0] ELSE Joined(upto[i - 1], groups[i])
  IN upto[Len(groups)]

\* A time point is printed to within its last digit exactly if it is not before the
\* epoch, or has no fraction to print and does not round to -1 seconds, which stand for
\* an error; clock prints the same fraction as serialize_time_point.
InstantReadsBack ==
  \A t \in Instant :
    LET groups == Fraction(word, t)
        known  == \A i \in DOMAIN groups : groups[i] < 1000
        fraction == Read([i \in DOMAIN groups |-> [n |-> groups[i], width |-> 3]]).n
        unit   == 10^(9 - Digits(word))
        error  == t - (ToTimeT(t) * 10^9 + fraction * unit)
    IN /\ (IsPrinted(t) /\ known /\ error \in 1 - unit .. unit - 1)
            <=> t >= 0 \/ (IsPrinted(t) /\ \A i \in DOMAIN groups : groups[i] = 0)
       /\ t >= 0 => ClockFraction(word, t) = fraction
=============================================================================
