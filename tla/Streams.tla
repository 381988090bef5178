------------------------------ MODULE Streams -------------------------------
(***************************************************************************)
(* What the library writes to streams, and what it leaves behind in them:  *)
(* variant_to_string (trie-base.hh), which prints the values of a trie,    *)
(* format_duration (trie-chrono.hh), and the dump of a trie                *)
(* (trie-core.hh), which goes to a stream of its own.  A stream is the     *)
(* state that printing reads: base, boolalpha, adjustment, fill and        *)
(* precision.  The times among the values are printed through FormatFlags. *)
(***************************************************************************)
EXTENDS FormatFlags

CONSTANT
  Duration     \* durations printed, see Text; not negative

ASSUME DurationAssumption ==
  Duration \subseteq [head : {"none", "seconds", "more"},
                      ms : 0 .. 999, us : 0 .. 999, ns : 0 .. 999]

VARIABLES
  os,          \* the client's stream, so far written to only by the library
  past,        \* what has been printed to it, see History
  dumping,     \* node::dump is running
  ss,          \* its own stringstream, a new one while there is none
  lines        \* what has been printed to that

streamVars == <<word, savers, printed, os, past, dumping, ss, lines>>

\* A stream nobody has written to.
NewStream == [hex |-> FALSE, boolalpha |-> FALSE, left |-> FALSE, fill |-> " ", precision |-> 6]

Stream == [hex : BOOLEAN, boolalpha : BOOLEAN, left : BOOLEAN,
           fill : {" ", "0"}, precision : {6, 15, 36}]

-----------------------------------------------------------------------------
(* Durations.  The years, days, hours and minutes are exact and each has   *)
(* its unit; of them only `head` is kept: none, seconds alone, or more.    *)

FoundNonZero(d) == d.head = "more"
Overs(d)        == d.head # "none"

Figures(n) == IF n < 10 THEN 1 ELSE IF n < 100 THEN 2 ELSE 3

\* A number as it is written: in its own width, or in a field of three filled with
\* '0', on its left or, on a stream that adjusts to the left, on its right.
Plain(n) == [n |-> n, width |-> Figures(n)]
Wide(n, left) == [n |-> IF left THEN n * 10^(3 - Figures(n)) ELSE n, width |-> 3]

\* Mutant: no field.
PlainGroup(d, n, left) == Plain(n)

\* Milliseconds and microseconds.
Group(d, n, left) == IF FoundNonZero(d) THEN Wide(n, left) ELSE Plain(n)

If(cond, s) == IF cond THEN s ELSE <<>>

\* format_duration after the seconds: what is written before the separator, after it,
\* the separator ('+' is the one that should stand in front, not in between), and
\* the unit, as the power of ten that it is of a nanosecond.
Text(d, left) ==
  LET z1 == d.ms # 0   z2 == d.us # 0   z3 == d.ns # 0
      zdot1 == z1 /\ z2
      zdot2 == ~ z1 /\ z2 /\ z3
      ms == If(z1, <<Group(d, d.ms, left)>>)
      us == If(z2, <<Group(d, d.us, left)>>)
      ns == If(z3, <<Wide(d.ns, left)>>)
  IN [before |-> IF zdot1 THEN ms ELSE IF zdot2 THEN us ELSE ms \o us \o ns,
      after  |-> IF zdot1 THEN us \o ns ELSE IF zdot2 THEN ns ELSE <<>>,
      plus   |-> zdot2 /\ Overs(d),
      unit   |-> IF zdot1 THEN 6 ELSE IF zdot2 THEN 3 ELSE
                 IF z3 THEN 0 ELSE IF z2 THEN 3 ELSE 6]

-----------------------------------------------------------------------------
(* Values.                                                                 *)

\* The alternatives of base_t, by how variant_to_string prints them: byte is int8_t,
\* uint8_t and std::byte; the plural ones are vectors.
Kind == {"null", "bool", "char", "int", "byte", "float", "double", "long double",
         "string", "duration", "time", "bools", "ints", "floats", "strings"}

\* Mutant: a saver that saves nothing.
NotSaved(s, s1) == s1

\* lite_ios_fmt_saver: the stream a statement leaves, when it was s and became s1.
LiteSaved(s, s1) == [s1 EXCEPT !.hex = s.hex, !.boolalpha = s.boolalpha, !.left = s.left]

\* Mutant: two digits, padded with '0', for which this saver is not enough.
HexPadded(s) == [s EXCEPT !.hex = TRUE, !.fill = "0"]

\* << std::hex
Hex(s) == [s EXCEPT !.hex = TRUE]

\* The stream while the value is written to it.
Setting(s, kind) ==
  CASE kind = "bool"        -> [s EXCEPT !.boolalpha = TRUE]
    [] kind = "byte"        -> Hex(s)
    [] kind = "float"       -> [s EXCEPT !.precision = 6]
    [] kind = "double"      -> [s EXCEPT !.precision = 15]
    [] kind = "long double" -> [s EXCEPT !.precision = 36]
    [] kind = "duration"    -> [s EXCEPT !.fill = "0"]
    [] OTHER                -> s

\* The stream it leaves.
After(s, kind) == IF kind = "byte" THEN LiteSaved(s, Setting(s, kind)) ELSE Setting(s, kind)

\* What the text of a value depends on.  list_to_string writes the elements with the
\* bare <<, so those of bools and floats come out as the stream happens to be.
Look(s, kind) ==
  LET t == Setting(s, kind) IN
  CASE kind \in {"bool", "bools"}        -> <<t.boolalpha>>
    [] kind \in {"int", "ints", "byte"}  -> <<t.hex>>
    [] kind \in {"float", "double", "long double", "floats"} -> <<t.precision>>
    [] kind = "duration"                 -> <<t.hex, t.left, t.fill>>
    [] OTHER                             -> <<>>

\* What the properties remember of the values printed to a stream: that there was a
\* bool, a duration or a time with a fraction, and the type of the last float.
History == [bool : BOOLEAN, zeros : BOOLEAN, float : {"none", "float", "double", "long double"}]

NoHistory == [bool |-> FALSE, zeros |-> FALSE, float |-> "none"]

Then(p, kind) == [bool  |-> p.bool \/ kind = "bool",
                  zeros |-> p.zeros \/ kind = "duration",
                  float |-> IF kind \in {"float", "double", "long double"} THEN kind ELSE p.float]

-----------------------------------------------------------------------------
(* Actions.                                                                *)

StreamTypeOK == /\ FlagsTypeOK
                /\ os \in Stream /\ past \in History
                /\ dumping \in BOOLEAN
                /\ ss \in Stream /\ lines \in History

NewDump == ss' = NewStream /\ lines' = NoHistory

StreamInit == /\ FlagsInit
              /\ os = NewStream /\ past = NoHistory
              /\ dumping = FALSE
              /\ ss = NewStream /\ lines = NoHistory

\* A client's code on the process-wide flags and on instants.
Flags == /\ ~ dumping
         /\ Manipulate \/ \E t \in Instant : PrintInstant(t) \/ PrintLocal(t)
         /\ UNCHANGED <<os, past, dumping, ss, lines>>

\* What a value prints on the way: a time point goes through format_time_point.
Inner(kind) == IF kind = "time" THEN \E t \in Instant : PrintInstant(t)
                                ELSE UNCHANGED <<word, savers>> /\ NoPrint

\* variant_to_string(os, v), or os << v of a value_t.
PrintValue(kind) == /\ ~ dumping
                    /\ os' = After(os, kind) /\ past' = Then(past, kind)
                    /\ Inner(kind)
                    /\ UNCHANGED <<dumping, ss, lines>>

\* A fraction is written with the fill '0'.
AfterTime == IF Digits(word) > 0
             THEN os' = [os EXCEPT !.fill = "0"] /\ past' = [past EXCEPT !.zeros = TRUE]
             ELSE UNCHANGED <<os, past>>

\* serialize_time_point(os, t)
PrintTimeTo(t) == /\ ~ dumping
                  /\ IF IsPrinted(t) THEN AfterTime ELSE UNCHANGED <<os, past>>
                  /\ PrintInstant(t)
                  /\ UNCHANGED <<dumping, ss, lines>>

\* os << clock
PrintClockTo == /\ ~ dumping
                /\ AfterTime
                /\ PrintClock
                /\ UNCHANGED <<dumping, ss, lines>>

\* The end of a high_res_duration: its callback may ask for the line to be printed.
HighResDuration(ok) ==
  /\ ~ dumping
  /\ IF ok THEN os' = After(os, "duration") /\ past' = Then(past, "duration")
           ELSE UNCHANGED <<os, past>>
  /\ UNCHANGED <<word, savers, dumping, ss, lines>> /\ NoPrint

\* The client takes up another stream, a new one.
TakeUp == /\ ~ dumping
          /\ os' = NewStream /\ past' = NoHistory
          /\ UNCHANGED <<word, savers, dumping, ss, lines>> /\ NoPrint

\* dump(os, level) writes to a stringstream.
DumpBegin == /\ ~ dumping /\ dumping' = TRUE
             /\ NewDump
             /\ UNCHANGED <<word, savers, os, past>> /\ NoPrint

\* dump_r writes the fragment of a node to the left of its field, and then its value.
Fragment(s) == [s EXCEPT !.left = TRUE]

\* dump_r for a branch, and for a leaf with a value of this kind.
DumpBranch == /\ dumping
              /\ ss' = Fragment(ss)
              /\ UNCHANGED <<word, savers, os, past, dumping, lines>> /\ NoPrint

DumpLeaf(kind) == /\ dumping
                  /\ ss' = After(Fragment(ss), kind) /\ lines' = Then(lines, kind)
                  /\ Inner(kind)
                  /\ UNCHANGED <<os, past, dumping>>

\* os << ss.str(): the client's stream is given one string.
DumpEnd == /\ dumping /\ dumping' = FALSE
           /\ NewDump
           /\ UNCHANGED <<word, savers, os, past>> /\ NoPrint

StreamNext == \/ Flags \/ PrintClockTo \/ TakeUp
              \/ DumpBegin \/ DumpBranch \/ DumpEnd
              \/ \E kind \in Kind : PrintValue(kind) \/ DumpLeaf(kind)
              \/ \E t \in Instant : PrintTimeTo(t)
              \/ \E ok \in BOOLEAN : HighResDuration(ok)

StreamSpec == StreamInit /\ [][StreamNext]_streamVars

-----------------------------------------------------------------------------
(* Properties.                                                             *)

\* What the values printed to a stream before this one do to its text.
Changed(p, kind) == \/ kind = "bools" /\ p.bool
                    \/ kind = "floats" /\ p.float \in {"double", "long double"}

\* A value looks on a stream the library has written to as it does on a new one, but
\* bools in a list come out as words after a single bool, and floats in a list with the
\* precision of the last double; nothing else has been left in the stream but the fill
\* '0' of a duration or a time.  In a dump a duration is adjusted to the left, and the
\* other values are subject to those before them in the same dump.
ValuesLookAlike ==
  /\ \A kind \in Kind : Look(os, kind) = Look(NewStream, kind) <=> ~ Changed(past, kind)
  /\ os.left = FALSE /\ (os.fill = "0" <=> past.zeros)
  /\ dumping => \A kind \in Kind :
       Look(Fragment(ss), kind) = Look(NewStream, kind)
         <=> kind # "duration" /\ ~ Changed(lines, kind)

\* The length after the seconds that a reader makes of a text.
Reading(t) ==
  LET before == Read(t.before)  after == Read(t.after) IN
  before.n * 10^t.unit + after.n * 10^(t.unit - after.width)

\* The text of d on stream s is the length of d.
ReadsBack(d, s) ==
  LET t == Text(d, s.left) IN
  ~ t.plus /\ Reading(t) = (d.ms * 1000 + d.us) * 1000 + d.ns

\* A duration is read back as it was, with these exceptions: milliseconds with
\* nanoseconds alone, a dot where nothing has been padded, and a '+' in the middle; in
\* a dump, where everything is adjusted to the left, also every part that is padded.
Misplaced(d) ==
  \/ d.ms # 0 /\ d.us = 0 /\ d.ns # 0
  \/ d.ms # 0 /\ d.us \in 1 .. 99 /\ ~ FoundNonZero(d)
  \/ d.ms = 0 /\ d.us # 0 /\ d.ns # 0 /\ Overs(d)
Padded(d) == \/ d.ns \in 1 .. 99
             \/ FoundNonZero(d) /\ (d.ms \in 1 .. 99 \/ d.us \in 1 .. 99)

DurationReadsBack ==
  \A d \in Duration :
    /\ ReadsBack(d, os) <=> ~ Misplaced(d)
    /\ dumping => (ReadsBack(d, Fragment(ss)) <=> ~ Misplaced(d) /\ ~ Padded(d))

\* A line of a dump is indented with blanks exactly until the first duration among the
\* values of the nodes before it.
DumpIsIndented == dumping => (ss.fill = " " <=> ~ lines.zeros)
=============================================================================
