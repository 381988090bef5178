---------------------------- MODULE StreamProofs -----------------------------
(***************************************************************************)
(* Theorems about FormatFlags and Streams: the types of the flag word and  *)
(* of the streams; that the word with its masks implements the zone and    *)
(* the digits of TimeFormat, for any number of savers; what printing       *)
(* leaves in a stream; and which durations and instants can be read back,  *)
(* for all of them.                                                        *)
(***************************************************************************)
EXTENDS Streams, ProofFacts, TLAPS

\* The bits that can be set in a word.
Bits == UNION {Flag[v] : v \in FlagName}

-----------------------------------------------------------------------------
(* The word.                                                               *)

\* The flags, bit by bit.
LEMMA FlagBits ==
  /\ FlagName = {"ms", "us", "ns", "gmt", "local", "gmt_or_local", "mask_extra_fields", "clear"}
  /\ Flag["ms"] = {0} /\ Flag["us"] = {1} /\ Flag["ns"] = {0, 1}
  /\ Flag["gmt"] = {12} /\ Flag["local"] = {13} /\ Flag["gmt_or_local"] = {14}
  /\ Flag["mask_extra_fields"] = 0 .. 3 /\ Flag["clear"] = {}
  /\ Extra = 0 .. 3
  BY DEF FlagName, Flag, Extra

\* The bits of all flags,
LEMMA BitsAre == Bits = (0 .. 3) \cup {12, 13, 14}
  BY FlagBits DEF Bits

\* and those that get set and cleared.
LEMMA KnownBits ==
  /\ 0 .. 3 \subseteq Bits
  /\ 12 \in Bits /\ 13 \in Bits /\ 14 \in Bits
  BY BitsAre

\* A bit outside a set of bits does not show in it.
LEMMA OtherBit ==
  ASSUME NEW w, NEW n, NEW E, n \notin E
  PROVE  (w \cup {n}) \cap E = w \cap E /\ (w \ {n}) \cap E = w \cap E
  OBVIOUS

\* What a reader of times sees of a word.
LEMMA Readings ==
  ASSUME NEW w
  PROVE  /\ Zone(w) = IF 14 \in w THEN "gmt" ELSE "local"
         /\ Digits(w) = IF w \cap (0 .. 3) = {0, 1} THEN 9 ELSE
                        IF w \cap (0 .. 3) = {1} THEN 6 ELSE
                        IF w \cap (0 .. 3) = {0} THEN 3 ELSE 0
  BY FlagBits DEF Zone, Digits, Has, SmallName

\* The zones and the numbers of digits there are.
LEMMA ReadingTypes ==
  ASSUME NEW w
  PROVE  Zone(w) \in {"gmt", "local"} /\ Digits(w) \in {0, 3, 6, 9}
  BY Readings

\* What a reader of times sees of w1, when flag v has been set or cleared in w.
AsAsked(w1, w, v, on) ==
  CASE v = "clear" -> Zone(w1) = "gmt" /\ Digits(w1) = 6
    [] v = "ms"    -> Zone(w1) = "local" /\ Digits(w1) = 3
    [] v = "us"    -> Zone(w1) = "local" /\ Digits(w1) = 6
    [] v = "ns"    -> Zone(w1) = "local" /\ Digits(w1) = 9
    [] v = "gmt"   -> Zone(w1) = "gmt" /\ Digits(w1) = Digits(w)
    [] v = "local" -> Zone(w1) = "local" /\ Digits(w1) = Digits(w)
    [] v = "gmt_or_local" ->
         Zone(w1) = (IF on THEN "gmt" ELSE "local") /\ Digits(w1) = Digits(w)
    [] v = "mask_extra_fields" -> Zone(w1) = Zone(w) /\ Digits(w1) = 0

\* Setting a flag changes zone and digits as TimeFormat says, and no bit but known ones.
LEMMA SettingFlags ==
  ASSUME NEW w \in SUBSET Bits, NEW v \in FlagName, NEW on \in BOOLEAN
  PROVE  LET w1 == SetFlags(w, v, on) IN w1 \in SUBSET Bits /\ AsAsked(w1, w, v, on)
<1> DEFINE w1 == SetFlags(w, v, on)
<1>1. CASE v = "clear"
  <2>1. w1 = {14} \cup {1}
    <3>1. w1 = ResetWord
      BY <1>1 DEF SetFlags, SmallName
    <3> QED BY <3>1, FlagBits DEF ResetWord
  <2>2. w1 \cap (0 .. 3) = {1} /\ 14 \in w1
    BY <2>1
  <2>3. Digits(w1) = 6 /\ Zone(w1) = "gmt"
    BY <2>2, Readings
  <2>4. AsAsked(w1, w, v, on)
    BY <1>1, <2>3 DEF AsAsked
  <2> QED BY <2>1, <2>4, BitsAre
<1>2. CASE v \in SmallName
  <2>1. w1 = (w \cap {4}) \cup Flag[v]
    BY <1>2 DEF SetFlags, KeptBits, SmallName
  <2>2. w \cap {4} = {}
    BY BitsAre
  <2>3. w1 \in {{0}, {1}, {0, 1}}
    BY <1>2, <2>1, <2>2, FlagBits DEF SmallName
  <2>4. 14 \notin w1 /\ w1 \cap (0 .. 3) = w1
    BY <2>3
  <2>5. /\ Zone(w1) = "local"
        /\ Digits(w1) = IF w1 = {0, 1} THEN 9 ELSE IF w1 = {1} THEN 6 ELSE 3
    BY <2>3, <2>4, Readings
  <2>6. w1 = Flag[v]
    BY <2>1, <2>2
  <2> HIDE DEF w1
  <2>7. ASSUME v = "ms" PROVE AsAsked(w1, w, v, on)
    <3>1. Digits(w1) = 3
      BY <2>5, <2>6, <2>7, FlagBits
    <3> QED BY <2>5, <2>7, <3>1 DEF AsAsked
  <2>8. ASSUME v = "us" PROVE AsAsked(w1, w, v, on)
    <3>1. Digits(w1) = 6
      BY <2>5, <2>6, <2>8, FlagBits
    <3> QED BY <2>5, <2>8, <3>1 DEF AsAsked
  <2>9. ASSUME v = "ns" PROVE AsAsked(w1, w, v, on)
    <3>1. Digits(w1) = 9
      BY <2>5, <2>6, <2>9, FlagBits
    <3> QED BY <2>5, <2>9, <3>1 DEF AsAsked
  <2>10. w1 \in SUBSET Bits
    BY <2>3, BitsAre
  <2> QED BY <1>2, <2>10, <2>7, <2>8, <2>9 DEF SmallName, w1
<1>3. CASE v = "gmt_or_local"
  <2>1. w1 = Switch(w, v, on)
    BY <1>3 DEF SetFlags, SmallName
  <2>2. w1 = IF on THEN w \cup {14} ELSE w \ {14}
    BY <2>1, <1>3, FlagBits DEF Switch
  <2>3. w1 \cap (0 .. 3) = w \cap (0 .. 3)
    BY <2>2, 14 \notin 0 .. 3, OtherBit
  <2>4. w1 \in SUBSET Bits
    BY <2>2, KnownBits
  <2>5. 14 \in w1 <=> on
    BY <2>2
  <2>6. Zone(w1) = (IF on THEN "gmt" ELSE "local") /\ Digits(w1) = Digits(w)
    BY <2>3, <2>5, Readings
  <2> QED BY <1>3, <2>4, <2>6 DEF AsAsked
<1>5. CASE v \in {"gmt", "local"}
  <2>1. w1 = Switch(Switch(w, v, on), "gmt_or_local", v = "gmt")
    BY <1>5 DEF SetFlags, SmallName
  <2> DEFINE w2 == Switch(w, v, on)
  <2>2. \E n \in {12, 13} : w2 = w \cup {n} \/ w2 = w \ {n}
    BY <1>5, FlagBits DEF Switch
  <2>3. w1 = IF v = "gmt" THEN w2 \cup {14} ELSE w2 \ {14}
    BY <2>1, FlagBits DEF Switch
  <2>4. w2 \cap (0 .. 3) = w \cap (0 .. 3)
    BY <2>2, 12 \notin 0 .. 3, 13 \notin 0 .. 3, OtherBit
  <2>5. w2 \in SUBSET Bits
    BY <2>2, KnownBits
  <2> HIDE DEF w2
  <2>6. w1 \cap (0 .. 3) = w \cap (0 .. 3)
    BY <2>3, <2>4, 14 \notin 0 .. 3, OtherBit
  <2>7. w1 \in SUBSET Bits
    BY <2>3, <2>5, KnownBits
  <2>8. 14 \in w1 <=> v = "gmt"
    BY <2>3
  <2>9. Zone(w1) = (IF v = "gmt" THEN "gmt" ELSE "local") /\ Digits(w1) = Digits(w)
    BY <2>6, <2>8, Readings
  <2> QED BY <1>5, <2>7, <2>9 DEF AsAsked
<1>4. CASE v = "mask_extra_fields"
  <2>0. w1 = Switch(w, v, on)
    BY <1>4 DEF SetFlags, SmallName
  <2>1. w1 = w \cup (0 .. 3) \/ w1 = w \ (0 .. 3)
    BY <2>0, <1>4, FlagBits DEF Switch
  <2>2. 14 \in w1 <=> 14 \in w
    BY <2>1
  <2>6. w1 \in SUBSET Bits
    BY <2>1, KnownBits
  <2>3. w1 \cap (0 .. 3) \in {0 .. 3, {}}
    BY <2>1
  <2>4. w1 \cap (0 .. 3) \notin {{0}, {1}, {0, 1}}
    <3>1. 3 \in 0 .. 3
      OBVIOUS
    <3> QED BY <2>3, <3>1
  <2>5. Zone(w1) = Zone(w) /\ Digits(w1) = 0
    BY <2>2, <2>4, Readings
  <2> QED BY <1>4, <2>6, <2>5 DEF AsAsked
<1> QED BY <1>1, <1>2, <1>3, <1>4, <1>5, FlagBits DEF SmallName

\* Dropping gmt_or_local alone is what prints in the local zone.
LEMMA DroppingGmt ==
  ASSUME NEW w
  PROVE  /\ Zone(SetFlags(w, "gmt_or_local", FALSE)) = "local"
         /\ Digits(SetFlags(w, "gmt_or_local", FALSE)) = Digits(w)
<1> DEFINE w1 == SetFlags(w, "gmt_or_local", FALSE)
<1>0. w1 = Switch(w, "gmt_or_local", FALSE)
  BY DEF SetFlags, SmallName
<1>1. w1 = w \ {14}
  BY <1>0, FlagBits DEF Switch
<1>2. 14 \notin w1 /\ w1 \cap (0 .. 3) = w \cap (0 .. 3)
  BY <1>1, 14 \notin 0 .. 3, OtherBit
<1> QED BY <1>2, Readings

-----------------------------------------------------------------------------
(* Types.                                                                  *)

\* What the types need of the clients' arguments: nothing.
LEMMA WordTypes == FlagsTypeOK <=> /\ word \subseteq Bits
                                  /\ savers \in Seq(SUBSET Bits)
                                  /\ printed \in {<<>>} \cup ({"gmt", "local"} \X {0, 3, 6, 9})
  BY DEF FlagsTypeOK, Bits

\* What a call prints with.
LEMMA SerializedTypes ==
  ASSUME NEW w, NEW t
  PROVE  Serialized(w, t) \in {<<>>} \cup ({"gmt", "local"} \X {0, 3, 6, 9})
  BY ReadingTypes DEF Serialized

\* Every step leaves the flags alone, or is one of iom's own on them.
WordStep == \/ UNCHANGED <<word, savers>> /\ printed' = <<>>
            \/ UNCHANGED <<word, savers>> /\ \E t \in Instant : printed' = Serialized(word, t)
            \/ UNCHANGED <<word, savers>> /\ printed' = <<Zone(word), Digits(word)>>
            \/ \E t \in Instant : PrintLocal(t)
            \/ \E v \in FlagName, on \in BOOLEAN : Ask(v, on)
            \/ Save \/ Restore

\* A value of any kind may print a time point on the way, and changes no flag.
LEMMA InnerPrints ==
  ASSUME NEW kind, Inner(kind)
  PROVE  /\ UNCHANGED <<word, savers>>
         /\ printed' = <<>> \/ \E t \in Instant : printed' = Serialized(word, t)
  BY DEF Inner, PrintInstant, NoPrint

LEMMA StreamWordSteps == StreamNext => WordStep
<1> SUFFICES ASSUME StreamNext PROVE WordStep
  OBVIOUS
<1>1. CASE Flags
  BY <1>1 DEF Flags, Manipulate, PrintInstant, WordStep
<1>2. CASE PrintClockTo
  BY <1>2 DEF PrintClockTo, PrintClock, WordStep
<1>3. CASE DumpBegin \/ DumpBranch \/ DumpEnd \/ TakeUp
             \/ (\E ok \in BOOLEAN : HighResDuration(ok))
  BY <1>3 DEF DumpBegin, DumpBranch, DumpEnd, TakeUp, HighResDuration, NoPrint, WordStep
<1>4. CASE \E kind \in Kind : PrintValue(kind) \/ DumpLeaf(kind)
  BY <1>4, InnerPrints DEF PrintValue, DumpLeaf, WordStep
<1>5. CASE \E t \in Instant : PrintTimeTo(t)
  BY <1>5 DEF PrintTimeTo, PrintInstant, WordStep
<1> QED BY <1>1, <1>2, <1>3, <1>4, <1>5 DEF StreamNext

\* The first word,
LEMMA FlagTypesInit == FlagsInit => FlagsTypeOK
<1>1. ResetWord = {14} \cup {1}
  BY FlagBits DEF ResetWord
<1>2. ResetWord \in SUBSET Bits
  BY <1>1, KnownBits
<1> QED BY <1>2, WordTypes DEF FlagsInit

\* and every step, keep the flag word and the savers to known bits.
LEMMA FlagTypesStep ==
  ASSUME FlagsTypeOK, WordStep
  PROVE  FlagsTypeOK'
<1> USE WordTypes
<1>0. (FlagsTypeOK <=> /\ word \subseteq Bits
                      /\ savers \in Seq(SUBSET Bits)
                      /\ printed \in {<<>>} \cup ({"gmt", "local"} \X {0, 3, 6, 9}))'
  BY DEF FlagsTypeOK, Bits
<1>1. CASE UNCHANGED <<word, savers>> /\ printed' = <<>>
  BY <1>0, <1>1
<1>2. CASE UNCHANGED <<word, savers>> /\ \E t \in Instant : printed' = Serialized(word, t)
  BY <1>0, <1>2, SerializedTypes
<1>3. CASE UNCHANGED <<word, savers>> /\ printed' = <<Zone(word), Digits(word)>>
  BY <1>0, <1>3, ReadingTypes
<1>4. CASE \E t \in Instant : PrintLocal(t)
  BY <1>0, <1>4, SerializedTypes DEF PrintLocal
<1>5. ASSUME NEW v \in FlagName, NEW on \in BOOLEAN, Ask(v, on) PROVE FlagsTypeOK'
  BY <1>0, <1>5, SettingFlags DEF Ask, NoPrint
<1>6. CASE Save
  BY <1>0, <1>6, AppendProperties DEF Save, NoPrint
<1>7. CASE Restore
  BY <1>0, <1>7, FrontAndLast DEF Restore, NoPrint
<1> QED BY <1>1, <1>2, <1>3, <1>4, <1>5, <1>6, <1>7 DEF WordStep

-----------------------------------------------------------------------------
(* The refinement.                                                         *)

\* A word as TimeFormat sees it, and the savers.
Seen(w) == <<Zone(w), Digits(w)>>
AllSeen(s) == [i \in DOMAIN s |-> Seen(s[i])]

\* The savers, seen that way,
LEMMA AllSeenIsSeq ==
  ASSUME NEW s \in Seq(SUBSET Bits)
  PROVE  /\ AllSeen(s) \in Seq({"gmt", "local"} \X {0, 3, 6, 9})
         /\ Len(AllSeen(s)) = Len(s)
         /\ \A i \in 1 .. Len(s) : AllSeen(s)[i] = Seen(s[i])
<1>1. AllSeen(s) = [i \in 1 .. Len(s) |-> Seen(s[i])] /\ Len(s) \in Nat
  BY DEF AllSeen
<1>2. \A i \in 1 .. Len(s) : Seen(s[i]) \in {"gmt", "local"} \X {0, 3, 6, 9}
  BY ReadingTypes DEF Seen
<1>3. AllSeen(s) \in Seq({"gmt", "local"} \X {0, 3, 6, 9})
  BY <1>1, <1>2, IsASeq
<1>4. Len(AllSeen(s)) = Len(s)
  BY <1>1, <1>3
<1> QED BY <1>1, <1>3, <1>4

\* one more saver,
LEMMA AppendSeen ==
  ASSUME NEW s \in Seq(SUBSET Bits), NEW w \in SUBSET Bits
  PROVE  AllSeen(Append(s, w)) = Append(AllSeen(s), Seen(w))
<1> DEFINE T == {"gmt", "local"} \X {0, 3, 6, 9}
           x == AllSeen(Append(s, w))
           y == Append(AllSeen(s), Seen(w))
<1>0. Len(s) \in Nat
  OBVIOUS
<1>1. /\ Append(s, w) \in Seq(SUBSET Bits) /\ Len(Append(s, w)) = Len(s) + 1
      /\ \A i \in 1 .. Len(s) : Append(s, w)[i] = s[i]
      /\ Append(s, w)[Len(s) + 1] = w
  BY AppendProperties
<1>2. Seen(w) \in T
  BY ReadingTypes DEF Seen
<1>3. AllSeen(s) \in Seq(T) /\ Len(AllSeen(s)) = Len(s)
  BY AllSeenIsSeq
<1>4. /\ y \in Seq(T) /\ Len(y) = Len(s) + 1
      /\ \A i \in 1 .. Len(s) : y[i] = AllSeen(s)[i]
      /\ y[Len(s) + 1] = Seen(w)
  BY <1>2, <1>3, AppendProperties
<1>5. x \in Seq(T) /\ Len(x) = Len(s) + 1
  BY <1>1, AllSeenIsSeq
<1>6. ASSUME NEW i \in 1 .. Len(s) + 1 PROVE x[i] = y[i]
  <2>1. x[i] = Seen(Append(s, w)[i])
    BY <1>1, AllSeenIsSeq
  <2>2. CASE i = Len(s) + 1
    BY <1>1, <1>4, <2>1, <2>2
  <2>3. CASE i \in 1 .. Len(s)
    BY <1>1, <1>4, <2>1, <2>3, AllSeenIsSeq
  <2>4. i = Len(s) + 1 \/ i \in 1 .. Len(s)
    BY <1>0
  <2> QED BY <2>2, <2>3, <2>4
<1> HIDE DEF x, y
<1>7. x = y
  BY <1>4, <1>5, <1>6, SeqEqual
<1> QED BY <1>7 DEF x, y

\* and one less.
LEMMA FrontSeen ==
  ASSUME NEW s \in Seq(SUBSET Bits), s # <<>>
  PROVE  /\ AllSeen(s) # <<>>
         /\ Last(AllSeen(s)) = Seen(Last(s))
         /\ AllSeen(Front(s)) = Front(AllSeen(s))
<1> DEFINE T == {"gmt", "local"} \X {0, 3, 6, 9}
           x == AllSeen(Front(s))
           y == Front(AllSeen(s))
<1>1. Len(s) \in Nat /\ Len(s) # 0
  OBVIOUS
<1>2. /\ AllSeen(s) \in Seq(T) /\ Len(AllSeen(s)) = Len(s)
      /\ \A i \in 1 .. Len(s) : AllSeen(s)[i] = Seen(s[i])
  BY AllSeenIsSeq
<1>3. AllSeen(s) # <<>>
  BY <1>1, <1>2
<1>4. Last(AllSeen(s)) = Seen(Last(s))
  BY <1>1, <1>2 DEF Last
<1>5. /\ Front(s) \in Seq(SUBSET Bits) /\ Len(Front(s)) = Len(s) - 1
      /\ \A i \in 1 .. Len(s) - 1 : Front(s)[i] = s[i]
  BY FrontAndLast
<1>6. /\ y \in Seq(T) /\ Len(y) = Len(s) - 1
      /\ \A i \in 1 .. Len(s) - 1 : y[i] = AllSeen(s)[i]
  BY <1>2, <1>3, FrontAndLast
<1>7. x \in Seq(T) /\ Len(x) = Len(s) - 1
  BY <1>5, AllSeenIsSeq
<1>8. ASSUME NEW i \in 1 .. Len(s) - 1 PROVE x[i] = y[i]
  <2>1. i \in 1 .. Len(s)
    BY <1>1
  <2>2. x[i] = Seen(Front(s)[i])
    BY <1>5, AllSeenIsSeq
  <2> QED BY <1>2, <1>5, <1>6, <2>1, <2>2
<1> HIDE DEF x, y
<1>9. x = y
  BY <1>6, <1>7, <1>8, SeqEqual
<1> QED BY <1>3, <1>4, <1>9 DEF x, y

\* The instants whose seconds round to -1.
LEMMA Unprinted ==
  ASSUME NEW t \in Int
  PROVE  IsPrinted(t) <=> ~ (- 2 * 10^9 < t /\ t <= - 10^9)
<1>1. 10^9 = 1000000000
  OBVIOUS
<1>2. CASE t >= 0
  <2>1. ToTimeT(t) >= 0
    BY <1>2 DEF ToTimeT, Quotient
  <2>2. ToTimeT(t) # -1
    BY <1>2, <2>1 DEF ToTimeT, Quotient
  <2> QED BY <1>1, <1>2, <2>2 DEF IsPrinted
<1>3. CASE t < 0
  <2> DEFINE n == - t
             q == n \div 1000000000
  <2>1. n \in Nat /\ q \in Nat
    BY <1>3
  <2>2. ToTimeT(t) = - q
    BY <1>3 DEF ToTimeT, Quotient
  <2>3. q = 1 <=> n >= 1000000000 /\ n < 2000000000
    BY <2>1
  <2>4. n >= 1000000000 /\ n < 2000000000 <=> - 2 * 10^9 < t /\ t <= - 10^9
    BY <1>1
  <2> HIDE DEF q, n
  <2> QED BY <2>1, <2>2, <2>3, <2>4 DEF IsPrinted
<1> QED BY <1>2, <1>3

\* Every call, whatever else is so, is the operation that it asks for.
LEMMA EveryCallAsAsked ==
  ASSUME FlagsTypeOK
  PROVE  CallsAsAsked
<1>1. word \in SUBSET Bits /\ savers \in Seq(SUBSET Bits)
  BY WordTypes
<1> DEFINE z == Zone(word)'  d == Digits(word)'
           saved == AllSeen(savers)
<1>2. ASSUME NEW v \in FlagName, NEW on \in BOOLEAN, Ask(v, on)
      PROVE  /\ AsAsked(word', word, v, on)
             /\ saved' = saved /\ printed' = <<>>
  BY <1>1, <1>2, SettingFlags DEF Ask, NoPrint
<1> USE DEF format!Sets, AllSeen, Seen
<1>3. ASSUME NEW on \in BOOLEAN
      PROVE  /\ Ask("gmt", on) => format!AskZone("gmt")
             /\ Ask("local", on) => format!AskZone("local")
             /\ Ask("gmt_or_local", on) => format!AskZone(IF on THEN "gmt" ELSE "local")
  BY <1>2, FlagBits DEF AsAsked, format!AskZone
<1>4. ASSUME NEW on \in BOOLEAN
      PROVE  /\ Ask("ms", on) => format!AskDigits(3)
             /\ Ask("us", on) => format!AskDigits(6)
             /\ Ask("ns", on) => format!AskDigits(9)
  BY <1>2, FlagBits DEF AsAsked, format!AskDigits
<1>5. ASSUME NEW on \in BOOLEAN
      PROVE  /\ Ask("mask_extra_fields", on) => format!AskNone
             /\ Ask("clear", on) => format!Clear
  BY <1>2, FlagBits DEF AsAsked, format!AskNone, format!Clear
<1>6. Save => format!Open
  <2> SUFFICES ASSUME Save PROVE format!Open
    OBVIOUS
  <2>1. /\ Len(savers) < MaxSavers /\ savers' = Append(savers, word)
        /\ UNCHANGED word /\ printed' = <<>>
    BY DEF Save, NoPrint
  <2> HIDE DEF AllSeen, Seen
  <2>2. Len(AllSeen(savers)) < MaxSavers /\ AllSeen(savers') = Append(AllSeen(savers), Seen(word))
    BY <1>1, <2>1, AppendSeen, AllSeenIsSeq
  <2> QED BY <2>1, <2>2 DEF format!Open, AllSeen, Seen
<1>7. Restore => format!Close
  <2> SUFFICES ASSUME Restore PROVE format!Close
    OBVIOUS
  <2>1. /\ savers # <<>> /\ savers' = Front(savers)
        /\ word' = Last(savers) /\ printed' = <<>>
    BY DEF Restore, NoPrint
  <2> HIDE DEF AllSeen, Seen
  <2>2. /\ AllSeen(savers) # <<>> /\ AllSeen(savers') = Front(AllSeen(savers))
        /\ Seen(word') = Last(AllSeen(savers))
    BY <1>1, <2>1, FrontSeen
  <2>3. Zone(word') = Last(AllSeen(savers))[1] /\ Digits(word') = Last(AllSeen(savers))[2]
    BY <2>2 DEF Seen
  <2> QED BY <2>1, <2>2, <2>3
      DEF format!Close, format!Last, format!Front, Last, Front, AllSeen, Seen
<1>8. ASSUME NEW t \in Instant
      PROVE  /\ PrintInstant(t) => PrintsIn(t, Zone(word))
             /\ PrintLocal(t) => PrintsIn(t, "local")
  <2>1. t \in Int /\ (IsPrinted(t) <=> ~ (- 2 * 10^9 < t /\ t <= - 10^9))
    BY InstantAssumption, Unprinted
  <2>2. PrintInstant(t) => PrintsIn(t, Zone(word))
    BY <2>1 DEF PrintInstant, Serialized, PrintsIn, format!PrintNothing, format!PrintTime
  <2>3. PrintLocal(t) => PrintsIn(t, "local")
    BY <2>1, DroppingGmt DEF PrintLocal, Serialized, PrintsIn, format!PrintNothing, format!PrintTime
  <2> QED BY <2>2, <2>3
<1>9. PrintClock => format!PrintTime(Zone(word))
  BY DEF PrintClock, format!PrintTime
<1> QED BY <1>3, <1>4, <1>5, <1>6, <1>7, <1>8, <1>9 DEF CallsAsAsked

\* So every step is one of TimeFormat.
LEMMA FlagStepsAreFormatSteps ==
  ASSUME FlagsTypeOK, WordStep
  PROVE  format!Next
<1>1. CallsAsAsked
  BY EveryCallAsAsked
<1>2. ASSUME NEW v \in FlagName, NEW on \in BOOLEAN, Ask(v, on) PROVE format!Next
  <2>1. (IF on THEN "gmt" ELSE "local") \in {"gmt", "local"}
    OBVIOUS
  <2>2. CASE v \in {"gmt", "local", "gmt_or_local"}
    <3>1. \E z \in {"gmt", "local"} : format!AskZone(z)
      BY <1>1, <1>2, <2>1, <2>2 DEF CallsAsAsked
    <3> QED BY <3>1 DEF format!Next
  <2>3. CASE v \in {"ms", "us", "ns"}
    <3>1. \E d \in {3, 6, 9} : format!AskDigits(d)
      BY <1>1, <1>2, <2>3 DEF CallsAsAsked
    <3> QED BY <3>1 DEF format!Next
  <2>4. CASE v \in {"mask_extra_fields", "clear"}
    <3>1. format!AskNone \/ format!Clear
      BY <1>1, <1>2, <2>4 DEF CallsAsAsked
    <3> QED BY <3>1 DEF format!Next
  <2> QED BY <2>2, <2>3, <2>4, FlagBits
<1>3. CASE Save
  BY <1>1, <1>3 DEF CallsAsAsked, format!Next
<1>4. CASE Restore
  BY <1>1, <1>4 DEF CallsAsAsked, format!Next
<1>5. CASE UNCHANGED <<word, savers>> /\ printed' = <<Zone(word), Digits(word)>>
  BY <1>1, <1>5 DEF CallsAsAsked, PrintClock, format!Next
<1>6. ASSUME NEW t \in Instant, PrintInstant(t) \/ PrintLocal(t) PROVE format!Next
  <2>1. PrintsIn(t, Zone(word)) \/ PrintsIn(t, "local")
    BY <1>1, <1>6 DEF CallsAsAsked
  <2> QED BY <2>1 DEF PrintsIn, format!Next
<1>7. CASE UNCHANGED <<word, savers>> /\ printed' = <<>>
  BY <1>7 DEF format!PrintNothing, format!Next
<1>8. CASE UNCHANGED <<word, savers>> /\ \E t \in Instant : printed' = Serialized(word, t)
  BY <1>6, <1>8 DEF PrintInstant
<1> QED BY <1>2, <1>3, <1>4, <1>5, <1>6, <1>7, <1>8 DEF WordStep

-----------------------------------------------------------------------------
(* What stays behind in a stream.                                          *)

\* What a stream shows of the values printed to it.
Shows(s, p) == /\ s.hex = FALSE
               /\ s.boolalpha = p.bool
               /\ s.fill = (IF p.zeros THEN "0" ELSE " ")
               /\ s.precision = IF p.float = "double" THEN 15 ELSE
                                IF p.float = "long double" THEN 36 ELSE 6

\* No number but a byte is ever written in hex, only a dump adjusts to the left, and
\* everything else tells of the values before.
Tidy == os.left = FALSE /\ Shows(os, past) /\ Shows(ss, lines)

TidyInv == StreamTypeOK /\ Tidy

\* A new stream has nothing to tell.
LEMMA NewShows ==
  /\ NewStream \in Stream /\ NoHistory \in History
  /\ NewStream.left = FALSE /\ Shows(NewStream, NoHistory)
  BY DEF NewStream, NoHistory, Stream, History, Shows

\* What the fragment of a node leaves of a stream,
LEMMA AfterFragment ==
  ASSUME NEW s \in Stream
  PROVE  /\ Fragment(s) \in Stream /\ Fragment(s).left = TRUE
         /\ \A p : Shows(s, p) => Shows(Fragment(s), p)
  BY DEF Stream, Fragment, Shows

\* a fraction of a second,
LEMMA AfterFraction ==
  ASSUME NEW s \in Stream, NEW p \in History, Shows(s, p)
  PROVE  LET s1 == [s EXCEPT !.fill = "0"]
             p1 == [p EXCEPT !.zeros = TRUE]
         IN s1 \in Stream /\ p1 \in History /\ s1.left = s.left /\ Shows(s1, p1)
  BY DEF Stream, History, Shows

\* and a value.
LEMMA AfterValue ==
  ASSUME NEW s \in Stream, NEW p \in History, NEW kind \in Kind, Shows(s, p)
  PROVE  /\ After(s, kind) \in Stream /\ Then(p, kind) \in History
         /\ After(s, kind).left = s.left /\ Shows(After(s, kind), Then(p, kind))
<1> DEFINE s1 == After(s, kind)
           p1 == Then(p, kind)
<1>1. p1 \in History
  BY DEF Then, History
<1> SUFFICES s1 \in Stream /\ s1.left = s.left /\ Shows(s1, p1)
  BY <1>1
<1>2. CASE kind \notin {"bool", "duration", "float", "double", "long double"}
  <2>1. s1 = s
    <3>1. CASE kind = "byte"
      BY <3>1 DEF Stream, After, LiteSaved, Setting, Hex
    <3>2. CASE kind # "byte"
      BY <1>2, <3>2 DEF After, Setting
    <3> QED BY <3>1, <3>2
  <2>2. p1.bool = p.bool /\ p1.zeros = p.zeros /\ p1.float = p.float
    BY <1>2 DEF Then, History
  <2> HIDE DEF s1, p1
  <2> QED BY <2>1, <2>2 DEF Shows
<1>3. CASE kind = "bool"
  <2>1. s1 = [s EXCEPT !.boolalpha = TRUE]
    BY <1>3 DEF After, Setting
  <2>2. p1.bool = TRUE /\ p1.zeros = p.zeros /\ p1.float = p.float
    BY <1>3 DEF Then, History
  <2> HIDE DEF s1, p1
  <2> QED BY <2>1, <2>2 DEF Stream, Shows
<1>4. CASE kind = "duration"
  <2>1. s1 = [s EXCEPT !.fill = "0"]
    BY <1>4 DEF After, Setting
  <2>2. p1.bool = p.bool /\ p1.zeros = TRUE /\ p1.float = p.float
    BY <1>4 DEF Then, History
  <2> HIDE DEF s1, p1
  <2> QED BY <2>1, <2>2 DEF Stream, Shows
<1>5. CASE kind \in {"float", "double", "long double"}
  <2> DEFINE n == IF kind = "float" THEN 6 ELSE IF kind = "double" THEN 15 ELSE 36
  <2>1. s1 = [s EXCEPT !.precision = n]
    BY <1>5 DEF After, Setting
  <2>2. p1.bool = p.bool /\ p1.zeros = p.zeros /\ p1.float = kind
    BY <1>5 DEF Then, History
  <2> HIDE DEF s1, p1
  <2> QED BY <1>5, <2>1, <2>2 DEF Stream, Shows
<1> QED BY <1>2, <1>3, <1>4, <1>5

\* The streams in the beginning,
LEMMA StreamsInit == StreamInit => TidyInv
  BY NewShows, FlagTypesInit DEF StreamInit, TidyInv, Tidy, StreamTypeOK

\* and after a step.
LEMMA StreamSteps ==
  ASSUME TidyInv, StreamNext
  PROVE  /\ os' \in Stream /\ past' \in History /\ dumping' \in BOOLEAN
         /\ ss' \in Stream /\ lines' \in History
         /\ Tidy'
<1>1. /\ os \in Stream /\ past \in History /\ dumping \in BOOLEAN
      /\ ss \in Stream /\ lines \in History
      /\ os.left = FALSE /\ Shows(os, past) /\ Shows(ss, lines)
  BY DEF TidyInv, Tidy, StreamTypeOK
<1> DEFINE Good == /\ os' \in Stream /\ past' \in History /\ dumping' \in BOOLEAN
                   /\ ss' \in Stream /\ lines' \in History
                   /\ os'.left = FALSE /\ Shows(os', past') /\ Shows(ss', lines')
<1>2. ASSUME Flags PROVE Good
  BY <1>1, <1>2 DEF Flags
<1>3. ASSUME UNCHANGED <<os, past>> \/ AfterTime, UNCHANGED <<dumping, ss, lines>> PROVE Good
  BY <1>1, <1>3, AfterFraction DEF AfterTime
<1>4. ASSUME PrintClockTo \/ \E t \in Instant : PrintTimeTo(t)
      PROVE  Good
  BY <1>3, <1>4 DEF PrintClockTo, PrintTimeTo
<1>5. ASSUME NEW kind \in Kind, os' = After(os, kind), past' = Then(past, kind),
             UNCHANGED <<dumping, ss, lines>>
      PROVE  Good
  BY <1>1, <1>5, AfterValue
<1>6. ASSUME \E ok \in BOOLEAN : HighResDuration(ok)
      PROVE  Good
  BY <1>3, <1>5, <1>6, "duration" \in Kind DEF HighResDuration, Kind
<1>7. ASSUME \E kind \in Kind : PrintValue(kind)
      PROVE  Good
  BY <1>5, <1>7 DEF PrintValue
<1>8. ASSUME TakeUp PROVE Good
  BY <1>1, <1>8, NewShows DEF TakeUp
<1>9. ASSUME DumpBegin \/ DumpEnd PROVE Good
  BY <1>1, <1>9, NewShows DEF DumpBegin, DumpEnd, NewDump
<1>10. ASSUME DumpBranch PROVE Good
  BY <1>1, <1>10, AfterFragment DEF DumpBranch
<1>11. ASSUME NEW kind \in Kind, DumpLeaf(kind) PROVE Good
  <2>1. /\ ss' = After(Fragment(ss), kind) /\ lines' = Then(lines, kind)
        /\ UNCHANGED <<os, past, dumping>>
    BY <1>11 DEF DumpLeaf
  <2>2. Fragment(ss) \in Stream /\ Shows(Fragment(ss), lines)
    BY <1>1, AfterFragment
  <2>3. ss' \in Stream /\ lines' \in History /\ Shows(ss', lines')
    BY <1>1, <2>1, <2>2, AfterValue
  <2> QED BY <1>1, <2>1, <2>3
<1>12. Good
  BY <1>2, <1>4, <1>6, <1>7, <1>8, <1>9, <1>10, <1>11 DEF StreamNext
<1>13. Tidy' <=> os'.left = FALSE /\ Shows(os', past') /\ Shows(ss', lines')
  BY DEF Tidy, Shows
<1> QED BY <1>12, <1>13

\* Types and tidiness go together.
LEMMA TidyAlways == StreamSpec => []TidyInv
<1>1. TidyInv /\ [StreamNext]_streamVars => TidyInv'
  <2> SUFFICES ASSUME TidyInv, [StreamNext]_streamVars PROVE TidyInv'
    OBVIOUS
  <2>1. CASE StreamNext
    BY <2>1, StreamWordSteps, FlagTypesStep, StreamSteps DEF TidyInv, StreamTypeOK
  <2>2. CASE UNCHANGED streamVars
    BY <2>2 DEF streamVars, TidyInv, Tidy, Shows, StreamTypeOK, FlagsTypeOK
  <2> QED BY <2>1, <2>2
<1> QED BY <1>1, StreamsInit, PTL DEF StreamSpec

\* Whatever is printed, in whatever order, the flag word holds no bit but those of the
\* flags and the streams stay streams.
THEOREM StreamTypes == StreamSpec => []StreamTypeOK
<1>1. TidyInv => StreamTypeOK
  BY DEF TidyInv
<1> QED BY <1>1, TidyAlways, PTL

\* The flag word with its masks and its bits left behind is, for whoever prints a time,
\* a zone and a number of digits, which each manipulator, saver and print sets, puts back
\* and uses as the operation of TimeFormat does that goes by its name.
THEOREM FlagsImplementFormat == StreamSpec => ImplementsTimeFormat
<1>1. FlagsInit => format!Init
  <2> SUFFICES ASSUME FlagsInit PROVE format!Init
    OBVIOUS
  <2>1. word = {14} \cup {1} /\ savers = <<>> /\ printed = <<>>
    BY FlagBits DEF FlagsInit, ResetWord
  <2>2. 14 \in word /\ word \cap (0 .. 3) = {1}
    BY <2>1
  <2>3. Zone(word) = "gmt" /\ Digits(word) = 6
    BY <2>2, Readings
  <2>4. [i \in DOMAIN savers |-> <<Zone(savers[i]), Digits(savers[i])>>] = <<>>
    BY <2>1
  <2> QED BY <2>1, <2>3, <2>4 DEF format!Init
<1>2. StreamTypeOK /\ [StreamNext]_streamVars => [format!Next]_(format!vars)
  <2>1. UNCHANGED streamVars => UNCHANGED format!vars
    BY DEF streamVars, format!vars
  <2> QED BY <2>1, StreamWordSteps, FlagStepsAreFormatSteps DEF StreamTypeOK
<1>3. StreamTypeOK => [CallsAsAsked]_flagVars
  BY EveryCallAsAsked DEF StreamTypeOK
<1>4. StreamInit => FlagsInit
  BY DEF StreamInit
<1> QED BY <1>1, <1>2, <1>3, <1>4, StreamTypes, PTL
    DEF StreamSpec, ImplementsTimeFormat, format!Spec

\* What the text of a value depends on, in a stream that shows p.
LookOf(p, left, kind) ==
  CASE kind = "bool"        -> <<TRUE>>
    [] kind = "bools"       -> <<p.bool>>
    [] kind \in {"int", "ints"} -> <<FALSE>>
    [] kind = "byte"        -> <<TRUE>>
    [] kind = "float"       -> <<6>>
    [] kind = "double"      -> <<15>>
    [] kind = "long double" -> <<36>>
    [] kind = "floats"      -> <<IF p.float = "double" THEN 15 ELSE
                                 IF p.float = "long double" THEN 36 ELSE 6>>
    [] kind = "duration"    -> <<FALSE, left, "0">>
    [] OTHER                -> <<>>

LEMMA Looks ==
  ASSUME NEW s \in Stream, NEW p, NEW kind \in Kind, Shows(s, p)
  PROVE  Look(s, kind) = LookOf(p, s.left, kind)
<1> USE DEF Look, Setting, Hex, Stream, Shows, LookOf
<1>1. CASE kind = "bool"
  BY <1>1
<1>2. CASE kind = "bools"
  BY <1>2
<1>3. CASE kind \in {"int", "ints"}
  BY <1>3
<1>4. CASE kind = "byte"
  BY <1>4
<1>5. CASE kind \in {"float", "double", "long double"}
  BY <1>5
<1>6. CASE kind = "floats"
  BY <1>6
<1>7. CASE kind = "duration"
  BY <1>7
<1>8. CASE kind \notin {"bool", "bools", "int", "ints", "byte", "float", "double",
                        "long double", "floats", "duration"}
  BY <1>8
<1> QED BY <1>1, <1>2, <1>3, <1>4, <1>5, <1>6, <1>7, <1>8

\* So it looks as on a new stream, unless what has changed is looked at.
LEMMA LooksAlike ==
  ASSUME NEW s \in Stream, NEW p \in History, NEW kind \in Kind, Shows(s, p)
  PROVE  Look(s, kind) = Look(NewStream, kind)
           <=> ~ Changed(p, kind) /\ ~ (kind = "duration" /\ s.left)
<1>1. s.left \in BOOLEAN /\ p.bool \in BOOLEAN
  BY DEF Stream, History
<1>2. Look(s, kind) = LookOf(p, s.left, kind)
  BY Looks
<1>3. Look(NewStream, kind) = LookOf(NoHistory, FALSE, kind)
  BY NewShows, Looks
<1>4. NoHistory.bool = FALSE /\ NoHistory.float = "none"
  BY DEF NoHistory
<1> DEFINE a == LookOf(p, s.left, kind)
           b == LookOf(NoHistory, FALSE, kind)
<1> SUFFICES a = b <=> ~ Changed(p, kind) /\ ~ (kind = "duration" /\ s.left)
  BY <1>2, <1>3
<1>5. CASE kind = "bools"
  <2>1. a = <<p.bool>> /\ b = <<FALSE>>
    BY <1>4, <1>5 DEF LookOf
  <2> HIDE DEF a, b
  <2> QED BY <1>1, <1>5, <2>1 DEF Changed
<1>6. CASE kind = "floats"
  <2> DEFINE n == IF p.float = "double" THEN 15 ELSE IF p.float = "long double" THEN 36 ELSE 6
  <2>1. a = <<n>> /\ b = <<6>>
    BY <1>4, <1>6 DEF LookOf
  <2>2. n = 6 <=> p.float \notin {"double", "long double"}
    <3>1. p.float = "double" => n = 15
      OBVIOUS
    <3>2. p.float = "long double" => n = 36
      OBVIOUS
    <3>3. p.float \notin {"double", "long double"} => n = 6
      OBVIOUS
    <3>4. 15 # 6 /\ 36 # 6
      OBVIOUS
    <3> HIDE DEF n
    <3> QED BY <3>1, <3>2, <3>3, <3>4, Zenon
  <2> HIDE DEF a, b, n
  <2>3. a = b <=> n = 6
    BY <2>1
  <2> QED BY <1>6, <2>2, <2>3 DEF Changed
<1>7. CASE kind = "duration"
  <2>1. a = <<FALSE, s.left, "0">> /\ b = <<FALSE, FALSE, "0">>
    BY <1>7 DEF LookOf
  <2> HIDE DEF a, b
  <2> QED BY <1>1, <1>7, <2>1 DEF Changed
<1>8. CASE kind \notin {"bools", "floats", "duration"}
  <2>1. a = b
    BY <1>8 DEF LookOf
  <2> QED BY <1>8, <2>1 DEF Changed
<1> QED BY <1>5, <1>6, <1>7, <1>8

\* However many values have been printed to a stream, each looks on it as on a new one
\* except for bools and floats in lists and, in a dump, for durations; and the stream is
\* left with no other trace of them than Shows says.
THEOREM ValuesAlwaysLookAlike == StreamSpec => []ValuesLookAlike
<1>1. TidyInv => ValuesLookAlike
  <2> SUFFICES ASSUME TidyInv PROVE ValuesLookAlike
    OBVIOUS
  <2>1. /\ os \in Stream /\ past \in History /\ ss \in Stream /\ lines \in History
        /\ os.left = FALSE /\ Shows(os, past) /\ Shows(ss, lines)
    BY DEF TidyInv, Tidy, StreamTypeOK
  <2>2. /\ Fragment(ss) \in Stream /\ Fragment(ss).left = TRUE
        /\ Shows(Fragment(ss), lines)
    BY <2>1, AfterFragment
  <2>3. ASSUME NEW kind \in Kind
        PROVE  Look(os, kind) = Look(NewStream, kind) <=> ~ Changed(past, kind)
    BY <2>1, LooksAlike
  <2>4. ASSUME NEW kind \in Kind
        PROVE  Look(Fragment(ss), kind) = Look(NewStream, kind)
                 <=> kind # "duration" /\ ~ Changed(lines, kind)
    BY <2>1, <2>2, LooksAlike
  <2>5. os.fill = "0" <=> past.zeros
    BY <2>1 DEF Shows, History
  <2> QED BY <2>1, <2>3, <2>4, <2>5 DEF ValuesLookAlike
<1> QED BY <1>1, TidyAlways, PTL

\* The indentation of a dump is blanks until the first duration, and zeroes ever after.
THEOREM DumpsAreIndented == StreamSpec => []DumpIsIndented
<1>1. TidyInv => DumpIsIndented
  BY DEF TidyInv, Tidy, Shows, StreamTypeOK, History, DumpIsIndented
<1> QED BY <1>1, TidyAlways, PTL

-----------------------------------------------------------------------------
(* Reading back.                                                           *)

Group3 == [n : Nat, width : 1 .. 3]
Part   == 0 .. 999
Nothing == [n |-> 0, width |-> 0]

\* f is what has been read after each of the groups.
ReadBy(f, groups) ==
  f = [i \in 0 .. Len(groups) |-> IF i = 0 THEN Nothing ELSE Joined(f[i - 1], groups[i])]

\* There is one for up to three groups, though it is defined by recursion.
LEMMA ReadExists ==
  ASSUME NEW groups, NEW k \in 0 .. 3, Len(groups) = k
  PROVE  \E f : ReadBy(f, groups)
<1> DEFINE r1 == Joined(Nothing, groups[1])
           r2 == Joined(r1, groups[2])
           r3 == Joined(r2, groups[3])
           f  == [i \in 0 .. k |->
                    IF i = 0 THEN Nothing ELSE IF i = 1 THEN r1 ELSE IF i = 2 THEN r2 ELSE r3]
<1>1. ASSUME NEW i \in 0 .. k, i # 0 PROVE f[i] = Joined(f[i - 1], groups[i])
  <2>1. i \in 1 .. 3
    BY <1>1
  <2>2. i - 1 \in 0 .. k
    BY <1>1
  <2>3. f[i] = IF i = 1 THEN r1 ELSE IF i = 2 THEN r2 ELSE r3
    BY <1>1
  <2>4. f[i - 1] = IF i = 1 THEN Nothing ELSE IF i = 2 THEN r1 ELSE r2
    BY <2>1, <2>2
  <2> HIDE DEF f
  <2>5. CASE i = 1
    BY <2>3, <2>4, <2>5
  <2>6. CASE i = 2
    BY <2>3, <2>4, <2>6
  <2>7. CASE i = 3
    BY <2>3, <2>4, <2>7
  <2> QED BY <2>1, <2>5, <2>6, <2>7
<1>2. f = [i \in 0 .. Len(groups) |-> IF i = 0 THEN Nothing ELSE Joined(f[i - 1], groups[i])]
  <2>1. f[0] = Nothing
    OBVIOUS
  <2>2. \A i \in 0 .. k : f[i] = IF i = 0 THEN Nothing ELSE Joined(f[i - 1], groups[i])
    BY <1>1, <2>1
  <2>3. f = [i \in 0 .. k |-> f[i]]
    OBVIOUS
  <2> HIDE DEF f
  <2> QED BY <2>2, <2>3
<1> QED BY <1>2 DEF ReadBy

\* What has been read grows group by group.
LEMMA ReadBySteps ==
  ASSUME NEW groups, NEW k \in 0 .. 3, Len(groups) = k
  PROVE  \E f : /\ Read(groups) = f[k] /\ f[0] = Nothing
                /\ \A i \in 1 .. k : f[i] = Joined(f[i - 1], groups[i])
<1> DEFINE f == CHOOSE f : ReadBy(f, groups)
<1>1. ReadBy(f, groups)
  BY ReadExists
<1>2. Read(groups) = f[k]
  BY DEF Read, ReadBy, Nothing
<1> HIDE DEF f
<1>3. \A i \in 0 .. k : f[i] = IF i = 0 THEN Nothing ELSE Joined(f[i - 1], groups[i])
  BY <1>1 DEF ReadBy
<1>4. f[0] = Nothing /\ \A i \in 1 .. k : f[i] = Joined(f[i - 1], groups[i])
  BY <1>3
<1> QED BY <1>2, <1>4

\* Up to three groups, side by side.
LEMMA ReadIs ==
  /\ Read(<<>>) = Nothing
  /\ \A a : Read(<<a>>) = Joined(Nothing, a)
  /\ \A a, b : Read(<<a, b>>) = Joined(Joined(Nothing, a), b)
  /\ \A a, b, c : Read(<<a, b, c>>) = Joined(Joined(Joined(Nothing, a), b), c)
<1>5. Read(<<>>) = Nothing
  <2>1. Len(<<>>) = 0
    OBVIOUS
  <2> QED BY <2>1, ReadBySteps
<1>6. ASSUME NEW a PROVE Read(<<a>>) = Joined(Nothing, a)
  <2> DEFINE s == <<a>>
  <2>1. Len(s) = 1 /\ s[1] = a
    OBVIOUS
  <2> HIDE DEF s
  <2>2. PICK g : /\ Read(s) = g[1] /\ g[0] = Nothing
                 /\ \A i \in 1 .. 1 : g[i] = Joined(g[i - 1], s[i])
    BY <2>1, 1 \in 0 .. 3, ReadBySteps
  <2>3. g[1] = Joined(g[0], s[1])
    BY <2>2
  <2> QED BY <2>1, <2>2, <2>3 DEF s
<1>7. ASSUME NEW a, NEW b PROVE Read(<<a, b>>) = Joined(Joined(Nothing, a), b)
  <2> DEFINE s == <<a, b>>
  <2>1. Len(s) = 2 /\ s[1] = a /\ s[2] = b
    OBVIOUS
  <2> HIDE DEF s
  <2>2. PICK g : /\ Read(s) = g[2] /\ g[0] = Nothing
                 /\ \A i \in 1 .. 2 : g[i] = Joined(g[i - 1], s[i])
    BY <2>1, 2 \in 0 .. 3, ReadBySteps
  <2>3. g[1] = Joined(g[0], s[1]) /\ g[2] = Joined(g[1], s[2])
    BY <2>2
  <2> QED BY <2>1, <2>2, <2>3 DEF s
<1>8. ASSUME NEW a, NEW b, NEW c
      PROVE  Read(<<a, b, c>>) = Joined(Joined(Joined(Nothing, a), b), c)
  <2> DEFINE s == <<a, b, c>>
  <2>1. Len(s) = 3 /\ s[1] = a /\ s[2] = b /\ s[3] = c
    OBVIOUS
  <2> HIDE DEF s
  <2>2. PICK g : /\ Read(s) = g[3] /\ g[0] = Nothing
                 /\ \A i \in 1 .. 3 : g[i] = Joined(g[i - 1], s[i])
    BY <2>1, 3 \in 0 .. 3, ReadBySteps
  <2>3. g[1] = Joined(g[0], s[1]) /\ g[2] = Joined(g[1], s[2]) /\ g[3] = Joined(g[2], s[3])
    BY <2>2
  <2> QED BY <2>1, <2>2, <2>3 DEF s
<1> QED BY <1>5, <1>6, <1>7, <1>8

\* A number in its place, on its own and after another one in a field of three.
LEMMA JoinedIs ==
  ASSUME NEW a \in Group3
  PROVE  /\ Joined(Nothing, a) = a
         /\ \A b \in Group3 : b.width = 3 =>
              Joined(a, b) = [n |-> a.n * 1000 + b.n, width |-> a.width + 3]
<1>1. a.n \in Nat /\ a.width \in {1, 2, 3} /\ a = [n |-> a.n, width |-> a.width]
  BY DEF Group3
<1>2. 10^1 = 10 /\ 10^2 = 100 /\ 10^3 = 1000
  OBVIOUS
<1>3. 0 * 10^a.width = 0
  BY <1>1, <1>2
<1>4. Joined(Nothing, a) = [n |-> a.n, width |-> a.width]
  BY <1>1, <1>3 DEF Joined, Nothing
<1>5. ASSUME NEW b \in Group3, b.width = 3
      PROVE  Joined(a, b) = [n |-> a.n * 1000 + b.n, width |-> a.width + 3]
  BY <1>2, <1>5 DEF Joined
<1> QED BY <1>1, <1>4, <1>5

\* A number n as it is written in a field of so many, kept unless it is `short` and
\* filled on the right.
IsWritten(g, n, width, short) == /\ g \in Group3 /\ g.width = width
                                 /\ g.n >= n /\ g.n <= 999
                                 /\ g.n = n <=> ~ (short /\ n \in 1 .. 99)

\* A field of three.
LEMMA WideIs ==
  ASSUME NEW n \in Part, NEW left \in BOOLEAN
  PROVE  IsWritten(Wide(n, left), n, 3, left)
<1>1. 10^0 = 1 /\ 10^1 = 10 /\ 10^2 = 100
  OBVIOUS
<1>2. CASE n < 10
  <2>1. 10^(3 - Figures(n)) = 100
    BY <1>1, <1>2 DEF Figures, Part
  <2> QED BY <1>2, <2>1 DEF Wide, Group3, IsWritten, Part
<1>3. CASE n >= 10 /\ n < 100
  <2>1. 10^(3 - Figures(n)) = 10
    BY <1>1, <1>3 DEF Figures, Part
  <2> QED BY <1>3, <2>1 DEF Wide, Group3, IsWritten, Part
<1>4. CASE n >= 100
  <2>1. 10^(3 - Figures(n)) = 1
    BY <1>1, <1>4 DEF Figures, Part
  <2> QED BY <1>4, <2>1 DEF Wide, Group3, IsWritten, Part
<1> QED BY <1>2, <1>3, <1>4 DEF Part

IsPlain(g, n) == g \in Group3 /\ g.n = n /\ (g.width = 3 <=> n >= 100)

\* No field: the width is that of the number.
LEMMA PlainIs ==
  ASSUME NEW n \in Part
  PROVE  IsPlain(Plain(n), n)
  BY DEF Plain, Figures, Group3, IsPlain, Part

\* Groups in a row.
LEMMA Alone == \A a : <<a>> \o <<>> = <<a>>
  OBVIOUS

\* Two groups.
LEMMA SideBySide == \A a, b : <<a>> \o <<b>> = <<a, b>>
<1> TAKE a, b
<1> DEFINE S == {a, b}
<1>1. <<a>> \in Seq(S) /\ <<b>> \in Seq(S) /\ <<a, b>> \in Seq(S)
  OBVIOUS
<1>2. Len(<<a>>) = 1 /\ Len(<<b>>) = 1 /\ Len(<<a, b>>) = 2 /\ <<a>>[1] = a /\ <<b>>[1] = b
  OBVIOUS
<1>3. <<a>> \o <<b>> \in Seq(S) /\ Len(<<a>> \o <<b>>) = 2
  BY <1>1, <1>2
<1>4. \A i \in 1 .. 2 : (<<a>> \o <<b>>)[i] = <<a, b>>[i]
  BY <1>1, <1>2
<1> QED BY <1>1, <1>2, <1>3, <1>4, SeqEqual

\* What the reader makes of the numbers of a text; q is the power of ten that the width
\* of the microseconds takes away.
Value(ms, us, ns, M, U, K, q) ==
  IF us = 0
  THEN IF ms = 0 THEN IF ns = 0 THEN 0 ELSE K
       ELSE IF ns = 0 THEN M * 1000000 ELSE M * 1000 + K
  ELSE IF ms = 0 THEN IF ns = 0 THEN U * 1000 ELSE U * 1000 + K
       ELSE M * 1000000 + IF ns = 0 THEN U * (1000 * q) ELSE (U * 1000 + K) * q

\* A text, part by part, as the reader takes it.
LEMMA TextReads ==
  ASSUME NEW d \in Duration, NEW left \in BOOLEAN,
         NEW m \in Group3, m = Group(d, d.ms, left),
         NEW u \in Group3, u = Group(d, d.us, left),
         NEW k \in Group3, k = Wide(d.ns, left), k.width = 3
  PROVE  Reading(Text(d, left)) = Value(d.ms, d.us, d.ns, m.n, u.n, k.n, 10^(3 - u.width))
<1>1. /\ m.n \in Nat /\ u.n \in Nat /\ k.n \in Nat
      /\ m.width \in 1 .. 3 /\ u.width \in 1 .. 3
  BY DEF Group3
<1>2. 10^0 = 1 /\ 10^3 = 1000 /\ 10^6 = 1000000
  OBVIOUS
<1>6. 10^(6 - u.width) = 1000 * 10^(3 - u.width)
  <2>1. 10^1 = 10 /\ 10^2 = 100 /\ 10^4 = 10000 /\ 10^5 = 100000
    OBVIOUS
  <2>2. CASE u.width = 1
    BY <1>2, <2>1, <2>2, 6 - 1 = 5, 3 - 1 = 2
  <2>3. CASE u.width = 2
    BY <1>2, <2>1, <2>3, 6 - 2 = 4, 3 - 2 = 1
  <2>4. CASE u.width = 3
    BY <1>2, <2>1, <2>4, 6 - 3 = 3, 3 - 3 = 0
  <2> QED BY <1>1, <2>2, <2>3, <2>4
<1> DEFINE t == Text(d, left)
           v == Value(d.ms, d.us, d.ns, m.n, u.n, k.n, 10^(3 - u.width))
<1>3. CASE d.us = 0
  <2>1. t.after = <<>> /\ Read(t.after) = Nothing
    BY <1>3, ReadIs DEF Text
  <2>2. CASE d.ms = 0 /\ d.ns = 0
    <3>1. t.before = <<>> /\ t.unit = 6
      BY <1>3, <2>2 DEF Text, If
    <3> HIDE DEF t
    <3>2. Reading(t) = 0
      BY <1>2, <2>1, <3>1, ReadIs DEF Reading, Nothing
    <3>9. v = 0
      BY <1>3, <2>2 DEF Value
    <3> HIDE DEF v
    <3> QED BY <3>2, <3>9 DEF t, v
  <2>3. CASE d.ms = 0 /\ d.ns # 0
    <3>1. t.before = <<k>> /\ t.unit = 0
      BY <1>3, <2>3 DEF Text, If
    <3> HIDE DEF t
    <3>2. Read(t.before) = k
      BY <1>1, <2>3, <3>1, ReadIs, JoinedIs
    <3>3. Reading(t) = k.n
      BY <1>1, <1>2, <2>1, <2>3, <3>1, <3>2 DEF Reading, Nothing, Group3
    <3>9. v = k.n
      BY <1>3, <2>3 DEF Value
    <3> HIDE DEF v
    <3> QED BY <3>3, <3>9 DEF t, v
  <2>4. CASE d.ms # 0 /\ d.ns = 0
    <3>1. t.before = <<m>> /\ t.unit = 6
      BY <1>3, <2>4 DEF Text, If
    <3> HIDE DEF t
    <3>2. Read(t.before) = m
      BY <1>1, <2>4, <3>1, ReadIs, JoinedIs
    <3>3. Reading(t) = m.n * 1000000
      BY <1>1, <1>2, <2>1, <2>4, <3>1, <3>2 DEF Reading, Nothing, Group3
    <3>9. v = m.n * 1000000
      BY <1>3, <2>4 DEF Value
    <3> HIDE DEF v
    <3> QED BY <3>3, <3>9 DEF t, v
  <2>5. CASE d.ms # 0 /\ d.ns # 0
    <3>1. t.before = <<m, k>> /\ t.unit = 0
      <4>1. t.before = <<m>> \o <<>> \o <<k>> /\ t.unit = 0
        BY <1>3, <2>5 DEF Text, If
      <4>2. <<m>> \o <<>> \o <<k>> = <<m, k>>
        BY Alone, SideBySide
      <4> QED BY <4>1, <4>2
    <3> HIDE DEF t
    <3>2. Read(t.before) = [n |-> m.n * 1000 + k.n, width |-> m.width + 3]
      <4>1. Read(t.before) = Joined(Joined(Nothing, m), k)
        BY <3>1, ReadIs
      <4>2. Joined(Nothing, m) = m
        BY JoinedIs
      <4>3. Joined(m, k) = [n |-> m.n * 1000 + k.n, width |-> m.width + 3]
        BY JoinedIs
      <4> QED BY <4>1, <4>2, <4>3
    <3>3. Reading(t) = (m.n * 1000 + k.n) * 10^0 + 0 * 10^0
      <4>1. Read(t.before).n = m.n * 1000 + k.n /\ Read(t.after).n = 0
        BY <2>1, <3>2 DEF Nothing
      <4>2. t.unit = 0 /\ t.unit - Read(t.after).width = 0
        BY <2>1, <3>1 DEF Nothing
      <4> QED BY <4>1, <4>2 DEF Reading
    <3>5. Reading(t) = m.n * 1000 + k.n
      BY <1>1, <1>2, <2>5, <3>3 DEF Group3
    <3>9. v = m.n * 1000 + k.n
      BY <1>3, <2>5 DEF Value
    <3> HIDE DEF v
    <3> QED BY <3>5, <3>9 DEF t, v
  <2> QED BY <2>2, <2>3, <2>4, <2>5
<1>4. CASE d.us # 0 /\ d.ms = 0
  <2>1. t.before = <<u>> /\ t.unit = 3
    BY <1>4 DEF Text, If
  <2>2. t.after = IF d.ns = 0 THEN <<>> ELSE <<k>>
    BY <1>4 DEF Text, If
  <2>3. Read(t.before) = u
    BY <1>1, <1>4, <2>1, ReadIs, JoinedIs
  <2>4. d.ns = 0 => Read(t.after) = Nothing
    BY <2>2, ReadIs
  <2>5. d.ns # 0 => Read(t.after) = k
    BY <1>1, <2>2, ReadIs, JoinedIs
  <2> HIDE DEF t
  <2>6. CASE d.ns = 0
    <3>1. Reading(t) = u.n * 1000
      BY <1>1, <1>2, <1>4, <2>1, <2>3, <2>4, <2>6 DEF Reading, Nothing, Group3
    <3>9. v = u.n * 1000
      BY <1>4, <2>6 DEF Value
    <3> HIDE DEF v
    <3> QED BY <3>1, <3>9 DEF t, v
  <2>7. CASE d.ns # 0
    <3>1. Reading(t) = u.n * 10^3 + k.n * 10^(3 - k.width)
      BY <2>1, <2>3, <2>5, <2>7 DEF Reading
    <3>2. 3 - k.width = 0
      BY <1>1, <2>7
    <3>3. Reading(t) = u.n * 1000 + k.n
      BY <1>1, <1>2, <1>4, <2>7, <3>1, <3>2 DEF Group3
    <3>9. v = u.n * 1000 + k.n
      BY <1>4, <2>7 DEF Value
    <3> HIDE DEF v
    <3> QED BY <3>3, <3>9 DEF t, v
  <2> QED BY <2>6, <2>7
<1>5. CASE d.us # 0 /\ d.ms # 0
  <2>1. t.before = <<m>> /\ t.unit = 6
    BY <1>5 DEF Text, If
  <2>2. t.after = IF d.ns = 0 THEN <<u>> ELSE <<u, k>>
    <3>1. t.after = <<u>> \o (IF d.ns # 0 THEN <<k>> ELSE <<>>)
      BY <1>5 DEF Text, If
    <3>2. <<u>> \o <<k>> = <<u, k>> /\ <<u>> \o <<>> = <<u>>
      BY Alone, SideBySide
    <3> QED BY <3>1, <3>2
  <2>3. Read(t.before) = m
    BY <1>1, <1>5, <2>1, ReadIs, JoinedIs
  <2>4. d.ns = 0 => Read(t.after) = u
    BY <1>1, <1>5, <2>2, ReadIs, JoinedIs
  <2>5. d.ns # 0 => Read(t.after) = [n |-> u.n * 1000 + k.n, width |-> u.width + 3]
    BY <1>1, <1>5, <2>2, ReadIs, JoinedIs
  <2> HIDE DEF t
  <2>6. CASE d.ns = 0
    <3>1. Reading(t) = m.n * 1000000 + u.n * 10^(6 - u.width)
      BY <1>1, <1>2, <1>5, <2>1, <2>3, <2>4, <2>6 DEF Reading, Group3
    <3>9. v = m.n * 1000000 + u.n * 10^(6 - u.width)
      BY <1>5, <1>6, <2>6 DEF Value
    <3> HIDE DEF v
    <3> QED BY <3>1, <3>9 DEF t, v
  <2>7. CASE d.ns # 0
    <3>1. 6 - (u.width + 3) = 3 - u.width
      BY <1>1, <1>5 DEF Group3
    <3>2. Reading(t) = m.n * 1000000 + (u.n * 1000 + k.n) * 10^(3 - u.width)
      BY <1>1, <1>2, <1>5, <2>1, <2>3, <2>5, <2>7, <3>1 DEF Reading
    <3>9. v = m.n * 1000000 + (u.n * 1000 + k.n) * 10^(3 - u.width)
      BY <1>5, <2>7 DEF Value
    <3> HIDE DEF v
    <3> QED BY <3>2, <3>9 DEF t, v
  <2> QED BY <2>6, <2>7
<1> QED BY <1>3, <1>4, <1>5

\* n, filled up or not; and when a text is read as the three numbers it was made from.
Field(N, n) == N \in n .. 999 /\ (n = 0 => N = 0)
ValueMeans(ms, us, ns, M, U, K, q) ==
  Value(ms, us, ns, M, U, K, q) = (ms * 1000 + us) * 1000 + ns
    <=> /\ M = ms /\ U = us /\ K = ns
        /\ ~ (ms # 0 /\ us = 0 /\ ns # 0)
        /\ (ms # 0 /\ us # 0) => q = 1

\* The reader gets the length of the duration exactly when all parts are as they were and
\* stand in their places.
LEMMA ValueIs ==
  ASSUME NEW ms \in Part, NEW us \in Part, NEW ns \in Part,
         NEW M, Field(M, ms), NEW U, Field(U, us), NEW K, Field(K, ns), NEW q \in {1, 10, 100}
  PROVE  ValueMeans(ms, us, ns, M, U, K, q)
<1> USE DEF Field, ValueMeans, Part
<1>1. CASE us = 0
  BY <1>1 DEF Value
<1>2. CASE us # 0 /\ ms = 0
  BY <1>2 DEF Value
<1>3. CASE us # 0 /\ ms # 0 /\ q = 1
  BY <1>3 DEF Value
<1>4. CASE us # 0 /\ ms # 0 /\ q = 10
  BY <1>4 DEF Value
<1>5. CASE us # 0 /\ ms # 0 /\ q = 100
  BY <1>5 DEF Value
<1> QED BY <1>1, <1>2, <1>3, <1>4, <1>5

\* Durations are read back as DurationReadsBack says, on every stream that can be there.
LEMMA ReadsBackWhen ==
  ASSUME NEW d \in Duration, NEW s, NEW left \in BOOLEAN, s.left = left
  PROVE  ReadsBack(d, s) <=> ~ Misplaced(d) /\ ~ (left /\ Padded(d))
<1>0. d.ms \in Part /\ d.us \in Part /\ d.ns \in Part
  BY DurationAssumption DEF Part
<1>a. PICK ms \in Part : ms = d.ms
  BY <1>0
<1>b. PICK us \in Part : us = d.us
  BY <1>0
<1>c. PICK ns \in Part : ns = d.ns
  BY <1>0
<1>1. ms = d.ms /\ us = d.us /\ ns = d.ns
  BY <1>a, <1>b, <1>c
<1>2. PICK m : m = Group(d, ms, left)
  OBVIOUS
<1>3. PICK u : u = Group(d, us, left)
  OBVIOUS
<1>4. PICK k : k = Wide(ns, left)
  OBVIOUS
<1>5. IsWritten(k, ns, 3, left)
  BY <1>4, WideIs
<1> DEFINE q == 10^(3 - u.width)
           plus == ms = 0 /\ us # 0 /\ ns # 0 /\ Overs(d)
           length == (ms * 1000 + us) * 1000 + ns
<1>6. ReadsBack(d, s) <=> ~ plus /\ Reading(Text(d, left)) = length
  <2>1. Text(d, left).plus <=> plus
    BY <1>1 DEF Text
  <2> QED BY <1>1, <2>1 DEF ReadsBack
<1>7. /\ k.n \in ns .. 999 /\ (ns = 0 => k.n = 0)
      /\ k.n = ns <=> ~ (left /\ ns \in 1 .. 99)
      /\ k \in Group3 /\ k.width = 3
  BY <1>5 DEF IsWritten, Group3
<1>8. ASSUME m \in Group3, u \in Group3
      PROVE  Reading(Text(d, left)) = Value(ms, us, ns, m.n, u.n, k.n, q)
  BY <1>1, <1>2, <1>3, <1>4, <1>7, <1>8, TextReads
<1>9. CASE FoundNonZero(d)
  <2>1. m = Wide(ms, left) /\ u = Wide(us, left)
    BY <1>2, <1>3, <1>9 DEF Group
  <2>2. IsWritten(m, ms, 3, left)
    BY <2>1, WideIs
  <2>3. IsWritten(u, us, 3, left)
    BY <2>1, WideIs
  <2>4. /\ m.n \in ms .. 999 /\ (ms = 0 => m.n = 0)
        /\ m.n = ms <=> ~ (left /\ ms \in 1 .. 99)
        /\ m \in Group3
    BY <2>2 DEF IsWritten, Group3
  <2>5. /\ u.n \in us .. 999 /\ (us = 0 => u.n = 0)
        /\ u.n = us <=> ~ (left /\ us \in 1 .. 99)
        /\ u \in Group3 /\ u.width = 3
    BY <2>3 DEF IsWritten, Group3
  <2>6. q = 1
    BY <2>5, 3 - 3 = 0, 10^0 = 1
  <2> HIDE DEF q
  <2>7. Value(ms, us, ns, m.n, u.n, k.n, q) = length
          <=> /\ m.n = ms /\ u.n = us /\ k.n = ns
              /\ ~ (ms # 0 /\ us = 0 /\ ns # 0)
    <3>1. Field(m.n, ms) /\ Field(u.n, us) /\ Field(k.n, ns)
      BY <1>7, <2>4, <2>5 DEF Field
    <3>2. ValueMeans(ms, us, ns, m.n, u.n, k.n, 1)
      BY <3>1, ValueIs
    <3> QED BY <2>6, <3>2 DEF ValueMeans
  <2>8. Padded(d) <=> ns \in 1 .. 99 \/ ms \in 1 .. 99 \/ us \in 1 .. 99
    BY <1>1, <1>9 DEF Padded
  <2>9. Misplaced(d) <=> \/ ms # 0 /\ us = 0 /\ ns # 0
                         \/ ms = 0 /\ us # 0 /\ ns # 0
    BY <1>1, <1>9 DEF Misplaced, FoundNonZero, Overs
  <2>10. plus <=> ms = 0 /\ us # 0 /\ ns # 0
    BY <1>9 DEF FoundNonZero, Overs
  <2> HIDE DEF plus, length
  <2> QED BY <1>6, <1>7, <1>8, <2>4, <2>5, <2>7, <2>8, <2>9, <2>10
<1>10. CASE ~ FoundNonZero(d)
  <2>1. m = Plain(ms) /\ u = Plain(us)
    BY <1>2, <1>3, <1>10 DEF Group
  <2>2. /\ m.n = ms /\ m \in Group3 /\ u.n = us /\ u \in Group3
        /\ u.width \in 1 .. 3 /\ (u.width = 3 <=> us >= 100)
    <3>1. IsPlain(m, ms)
      BY <2>1, PlainIs
    <3>2. IsPlain(u, us)
      BY <2>1, PlainIs
    <3> QED BY <3>1, <3>2 DEF IsPlain, Group3
  <2>3. q \in {1, 10, 100} /\ (q = 1 <=> us >= 100)
    <3>1. 10^0 = 1 /\ 10^1 = 10 /\ 10^2 = 100
      OBVIOUS
    <3>2. CASE u.width = 1
      BY <2>2, <3>1, <3>2, 3 - 1 = 2
    <3>3. CASE u.width = 2
      BY <2>2, <3>1, <3>3, 3 - 2 = 1
    <3>4. CASE u.width = 3
      BY <2>2, <3>1, <3>4, 3 - 3 = 0
    <3> QED BY <2>2, <3>2, <3>3, <3>4
  <2> HIDE DEF q
  <2>4. Value(ms, us, ns, m.n, u.n, k.n, q) = length
          <=> /\ k.n = ns
              /\ ~ (ms # 0 /\ us = 0 /\ ns # 0)
              /\ (ms # 0 /\ us # 0) => us >= 100
    <3>1. Field(ms, ms) /\ Field(us, us) /\ Field(k.n, ns)
      BY <1>7 DEF Field, Part
    <3>2. ValueMeans(ms, us, ns, ms, us, k.n, q)
      BY <2>3, <3>1, ValueIs
    <3> QED BY <2>2, <2>3, <3>2 DEF ValueMeans
  <2>5. Padded(d) <=> ns \in 1 .. 99
    BY <1>1, <1>10 DEF Padded
  <2>6. Misplaced(d) <=> \/ ms # 0 /\ us = 0 /\ ns # 0
                         \/ ms # 0 /\ us \in 1 .. 99
                         \/ plus
    BY <1>1, <1>10 DEF Misplaced
  <2> HIDE DEF plus, length
  <2>7. us # 0 => (us >= 100 <=> us \notin 1 .. 99)
    BY DEF Part
  <2> QED BY <1>6, <1>7, <1>8, <2>2, <2>4, <2>5, <2>6, <2>7
<1> QED BY <1>9, <1>10

\* A duration is read back, whatever has been printed to the stream before, exactly if it
\* is not one of those that format_duration gets wrong, nor one whose parts dump_r's
\* std::left fills on the wrong side.
THEOREM DurationsReadBack == StreamSpec => []DurationReadsBack
<1>1. ASSUME StreamTypeOK, Tidy, NEW d \in Duration
      PROVE  /\ ReadsBack(d, os) <=> ~ Misplaced(d)
             /\ ReadsBack(d, Fragment(ss)) <=> ~ Misplaced(d) /\ ~ Padded(d)
  <2>1. os.left = FALSE
    BY <1>1 DEF Tidy
  <2>2. Fragment(ss).left = TRUE
    BY <1>1, AfterFragment DEF StreamTypeOK
  <2>3. ReadsBack(d, os) <=> ~ Misplaced(d)
    BY <2>1, ReadsBackWhen
  <2>4. ReadsBack(d, Fragment(ss)) <=> ~ Misplaced(d) /\ ~ Padded(d)
    BY <2>2, ReadsBackWhen
  <2> QED BY <2>3, <2>4
<1>2. TidyInv => DurationReadsBack
  BY <1>1 DEF TidyInv, DurationReadsBack
<1> QED BY <1>2, TidyAlways, PTL

\* An instant, from or before the epoch, in seconds and three parts of a second.
Parts(x, s, a, b, c) == /\ s \in Nat /\ a \in Part /\ b \in Part /\ c \in Part
                        /\ x = ((s * 1000 + a) * 1000 + b) * 1000 + c

\* What time_point_get_ms, _us and _ns make of a part of an instant before the epoch.
Wrapped(a) == IF a = 0 THEN 0 ELSE 2^SizeBits - a

Divided(x, s, a, b, c) ==
  /\ x \div 1000000000 = s
  /\ x \div 1000000 - 1000 * ((x \div 1000000) \div 1000) = a
  /\ x \div 1000 - 1000 * ((x \div 1000) \div 1000) = b
  /\ x - 1000 * (x \div 1000) = c

\* Division and remainder give these parts.
LEMMA PartsExist ==
  ASSUME NEW x \in Nat
  PROVE  \E s, a, b, c : Parts(x, s, a, b, c) /\ Divided(x, s, a, b, c)
<1> DEFINE s == x \div 1000000000
           a == x \div 1000000 - 1000 * ((x \div 1000000) \div 1000)
           b == x \div 1000 - 1000 * ((x \div 1000) \div 1000)
           c == x - 1000 * (x \div 1000)
<1>1. Parts(x, s, a, b, c)
  BY SMTT(30) DEF Parts, Part
<1>2. Divided(x, s, a, b, c)
  BY DEF Divided
<1> HIDE DEF s, a, b, c
<1> QED BY <1>1, <1>2

\* Fractions of a second are size_t's; below zero they wrap around.
LEMMA Small ==
  ASSUME NEW x \in Nat, x < 1000000000
  PROVE  SizeT(x) = x /\ SizeT(- x) = Wrapped(x)
<1>1. PICK m \in Nat : m = 2^SizeBits /\ m >= 1000000000
  BY SizeBitsAssumption, 10^9 = 1000000000, SMT
<1>2. x % m = x /\ (- x) % m = IF x = 0 THEN 0 ELSE m - x
  BY <1>1, SMT
<1> QED BY <1>1, <1>2, SMT DEF SizeT, Wrapped

\* The getters give the parts of an instant from the epoch as they are,
LEMMA AfterEpoch ==
  ASSUME NEW t \in Nat
  PROVE  \E s, a, b, c :
           /\ Parts(t, s, a, b, c)
           /\ ToTimeT(t) = s /\ GetMs(t) = a /\ GetUs(t) = b /\ GetNs(t) = c
<1>1. PICK s, a, b, c : Parts(t, s, a, b, c) /\ Divided(t, s, a, b, c)
  BY PartsExist
<1>2. ToTimeT(t) = s
  BY <1>1, SMT DEF ToTimeT, Quotient, Divided
<1>3. /\ Remainder(Quotient(t, 1000000), 1000) = a
      /\ Remainder(Quotient(t, 1000), 1000) = b
      /\ Remainder(t, 1000) = c
  BY <1>1, SMT DEF Remainder, Quotient, Divided
<1>4. SizeT(a) = a /\ SizeT(b) = b /\ SizeT(c) = c
  <2>1. /\ a \in Nat /\ a < 1000000000
        /\ b \in Nat /\ b < 1000000000
        /\ c \in Nat /\ c < 1000000000
    BY <1>1, SMT DEF Parts, Part
  <2> QED BY <2>1, Small, SMT
<1>5. GetMs(t) = a /\ GetUs(t) = b /\ GetNs(t) = c
  BY <1>3, <1>4, SMT DEF GetMs, GetUs, GetNs
<1> QED BY <1>1, <1>2, <1>5

\* and those of one before it wrapped around.
LEMMA BeforeEpoch ==
  ASSUME NEW t \in Int, t < 0
  PROVE  \E s, a, b, c :
           /\ Parts(-t, s, a, b, c)
           /\ ToTimeT(t) = - s
           /\ GetMs(t) = Wrapped(a) /\ GetUs(t) = Wrapped(b) /\ GetNs(t) = Wrapped(c)
<1>1. PICK x \in Nat : x = - t /\ t = - x /\ x # 0
  BY SMT
<1>2. PICK s, a, b, c : Parts(x, s, a, b, c) /\ Divided(x, s, a, b, c)
  BY PartsExist
<1>3. ToTimeT(t) = - s
  BY <1>1, <1>2, SMT DEF ToTimeT, Quotient, Divided
<1>4. /\ Remainder(Quotient(t, 1000000), 1000) = - a
      /\ Remainder(Quotient(t, 1000), 1000) = - b
      /\ Remainder(t, 1000) = - c
  BY <1>1, <1>2, SMT DEF Remainder, Quotient, Divided
<1>5. SizeT(- a) = Wrapped(a) /\ SizeT(- b) = Wrapped(b) /\ SizeT(- c) = Wrapped(c)
  <2>1. /\ a \in Nat /\ a < 1000000000
        /\ b \in Nat /\ b < 1000000000
        /\ c \in Nat /\ c < 1000000000
    BY <1>2, SMT DEF Parts, Part
  <2> QED BY <2>1, Small, SMT
<1>6. GetMs(t) = Wrapped(a) /\ GetUs(t) = Wrapped(b) /\ GetNs(t) = Wrapped(c)
  BY <1>4, <1>5, SMT DEF GetMs, GetUs, GetNs
<1> QED BY <1>1, <1>2, <1>3, <1>6

\* The groups that are printed, and what is read of them.
LEMMA FractionIs ==
  ASSUME NEW w, NEW t, NEW k \in 0 .. 3, Digits(w) = 3 * k
  PROVE  /\ DOMAIN Fraction(w, t) = 1 .. k
         /\ k >= 1 => Fraction(w, t)[1] = GetMs(t)
         /\ k >= 2 => Fraction(w, t)[2] = GetUs(t)
         /\ k >= 3 => Fraction(w, t)[3] = GetNs(t)
<1> DEFINE a == GetMs(t)
           b == GetUs(t)
           c == GetNs(t)
<1>1. Digits(w) \div 3 = k
  BY SMT
<1>2. Fraction(w, t) = SubSeq(<<a, b, c>>, 1, k)
  BY <1>1 DEF Fraction
<1> HIDE DEF a, b, c
<1>3. SubSeq(<<a, b, c>>, 1, k) = [i \in 1 .. k |-> <<a, b, c>>[i]]
  OBVIOUS
<1>4. /\ DOMAIN Fraction(w, t) = 1 .. k
      /\ k >= 1 => Fraction(w, t)[1] = a
      /\ k >= 2 => Fraction(w, t)[2] = b
      /\ k >= 3 => Fraction(w, t)[3] = c
  BY <1>2, <1>3
<1> QED BY <1>4 DEF a, b, c

\* The number two groups make.
LEMMA JoinedNumber ==
  ASSUME NEW g, NEW h
  PROVE  Joined(g, h).n = g.n * 10^h.width + h.n
  BY DEF Joined

\* Groups, each in a field of three.
InFields(groups) == [i \in DOMAIN groups |-> [n |-> groups[i], width |-> 3]]
AreNumbers(groups, k) == \A i \in 1 .. k : groups[i] \in Nat

InARow(groups, k) == IF k = 0 THEN 0 ELSE
                     IF k = 1 THEN groups[1] ELSE
                     IF k = 2 THEN groups[1] * 1000 + groups[2]
                              ELSE (groups[1] * 1000 + groups[2]) * 1000 + groups[3]

\* Groups of three digits, read as one number.
LEMMA GroupsRead ==
  ASSUME NEW groups, NEW k \in 0 .. 3, DOMAIN groups = 1 .. k,
         AreNumbers(groups, k)
  PROVE  Read(InFields(groups)).n = InARow(groups, k)
<1> DEFINE g == InFields(groups)
<1>1. g = [i \in 1 .. k |-> [n |-> groups[i], width |-> 3]]
  BY DEF InFields
<1>2. Len(g) = k
  <2>1. g \in Seq([n : Nat, width : {3}])
    BY <1>1, IsASeq DEF AreNumbers
  <2> QED BY <1>1, <2>1
<1>3. \A i \in 1 .. k : g[i].n = groups[i] /\ g[i].width = 3
  BY <1>1
<1> HIDE DEF g
<1>4. PICK f : /\ Read(g) = f[k] /\ f[0] = Nothing
               /\ \A i \in 1 .. k : f[i] = Joined(f[i - 1], g[i])
  BY <1>2, ReadBySteps
<1> USE DEF AreNumbers
<1>5. ASSUME NEW i \in 1 .. k PROVE f[i].n = f[i - 1].n * 1000 + groups[i]
  <2>1. f[i] = Joined(f[i - 1], g[i])
    BY <1>4
  <2>2. f[i].n = f[i - 1].n * 10^g[i].width + g[i].n
    BY <2>1, JoinedNumber
  <2>3. g[i].width = 3 /\ g[i].n = groups[i]
    BY <1>3
  <2>4. f[i].n = f[i - 1].n * 10^3 + groups[i]
    BY <2>2, <2>3, Zenon
  <2> QED BY <2>4, 10^3 = 1000
<1>6. f[0].n = 0
  BY <1>4 DEF Nothing
<1>7. k >= 1 => f[1].n = groups[1]
  BY <1>5, <1>6
<1>8. k >= 2 => f[2].n = groups[1] * 1000 + groups[2]
  BY <1>5, <1>7
<1>9. k >= 3 => f[3].n = (groups[1] * 1000 + groups[2]) * 1000 + groups[3]
  BY <1>5, <1>8
<1>10. Read(g).n = InARow(groups, k)
  BY <1>4, <1>6, <1>7, <1>8, <1>9 DEF InARow
<1> QED BY <1>10 DEF g

\* The fraction of an instant from the epoch, and that of one before it, digit by digit.
LEMMA UnitIs ==
  ASSUME NEW w
  PROVE  \E k \in 0 .. 3 :
           /\ Digits(w) = 3 * k
           /\ 10^(9 - Digits(w)) = IF k = 0 THEN 1000000000 ELSE IF k = 1 THEN 1000000 ELSE
                                   IF k = 2 THEN 1000 ELSE 1
<1>1. 10^9 = 1000000000 /\ 10^6 = 1000000 /\ 10^3 = 1000 /\ 10^0 = 1
  BY SMT
<1>2. CASE Digits(w) = 0
  BY <1>1, <1>2, 9 - 0 = 9, 0 \in 0 .. 3, SMT
<1>3. CASE Digits(w) = 3
  BY <1>1, <1>3, 9 - 3 = 6, 1 \in 0 .. 3, SMT
<1>4. CASE Digits(w) = 6
  BY <1>1, <1>4, 9 - 6 = 3, 2 \in 0 .. 3, SMT
<1>5. CASE Digits(w) = 9
  BY <1>1, <1>5, 9 - 9 = 0, 3 \in 0 .. 3, SMT
<1> QED BY <1>2, <1>3, <1>4, <1>5, ReadingTypes

\* InstantReadsBack for one instant and any flag word.
IsReadBack(w, t) ==
  LET groups == Fraction(w, t)
      known  == \A i \in DOMAIN groups : groups[i] < 1000
      fraction == Read([i \in DOMAIN groups |-> [n |-> groups[i], width |-> 3]]).n
      unit   == 10^(9 - Digits(w))
      error  == t - (ToTimeT(t) * 10^9 + fraction * unit)
  IN /\ (IsPrinted(t) /\ known /\ error \in 1 - unit .. unit - 1)
          <=> t >= 0 \/ (IsPrinted(t) /\ \A i \in DOMAIN groups : groups[i] = 0)
     /\ t >= 0 => ClockFraction(w, t) = fraction

\* A bound on the size of a number, as an interval around zero.
LEMMA Within ==
  ASSUME NEW n \in Nat, NEW x \in Int, - n < x, x < n
  PROVE  x \in 1 - n .. n - 1
  OBVIOUS

\* From the epoch on, every instant is read back.
LEMMA ReadBackAfterEpoch ==
  ASSUME NEW w, NEW t \in Nat
  PROVE  IsReadBack(w, t)
<1> DEFINE groups == Fraction(w, t)
           fraction == Read(InFields(groups)).n
           unit   == 10^(9 - Digits(w))
<1>1. PICK k \in 0 .. 3 :
           /\ Digits(w) = 3 * k
           /\ unit = IF k = 0 THEN 1000000000 ELSE IF k = 1 THEN 1000000 ELSE
                     IF k = 2 THEN 1000 ELSE 1
  BY UnitIs
<1>2. PICK s, a, b, c :
           /\ Parts(t, s, a, b, c)
           /\ ToTimeT(t) = s /\ GetMs(t) = a /\ GetUs(t) = b /\ GetNs(t) = c
  BY AfterEpoch
<1>3. /\ DOMAIN groups = 1 .. k
      /\ k >= 1 => groups[1] = a
      /\ k >= 2 => groups[2] = b
      /\ k >= 3 => groups[3] = c
  <2>1. Digits(w) = 3 * k
    BY <1>1
  <2>2. /\ DOMAIN groups = 1 .. k
        /\ k >= 1 => groups[1] = GetMs(t)
        /\ k >= 2 => groups[2] = GetUs(t)
        /\ k >= 3 => groups[3] = GetNs(t)
    BY <2>1, FractionIs
  <2> HIDE DEF groups
  <2> QED BY <1>2, <2>2
<1>4. s \in Nat /\ a \in 0 .. 999 /\ b \in 0 .. 999 /\ c \in 0 .. 999
      /\ t = ((s * 1000 + a) * 1000 + b) * 1000 + c
  BY <1>2, SMT DEF Parts, Part
<1>5. InNsec(t) = (a * 1000 + b) * 1000 + c
  <2> DEFINE x == (a * 1000 + b) * 1000 + c
  <2>1. x \in Nat /\ x < 1000000000
    BY <1>4, SMT
  <2> HIDE DEF x
  <2>2. SizeT(x) = x
    BY <2>1, Small
  <2> QED BY <1>2, <2>2 DEF InNsec, x
<1> HIDE DEF groups, unit
<1>6. \A i \in 1 .. k : groups[i] \in Nat /\ groups[i] < 1000
  <2> TAKE i \in 1 .. k
  <2>1. i = 1 \/ (i = 2 /\ k >= 2) \/ (i = 3 /\ k >= 3)
    BY SMT
  <2> QED BY <1>3, <1>4, <2>1, SMT
<1>7. fraction = IF k = 0 THEN 0 ELSE IF k = 1 THEN a ELSE
                 IF k = 2 THEN a * 1000 + b ELSE (a * 1000 + b) * 1000 + c
  <2>1. fraction = InARow(groups, k)
    <3>1. AreNumbers(groups, k)
      BY <1>6 DEF AreNumbers
    <3> QED BY <1>3, <3>1, GroupsRead
  <2> HIDE DEF fraction
  <2> QED BY <1>3, <2>1 DEF InARow
<1> HIDE DEF fraction
<1>8. ToTimeT(t) # -1 /\ ToTimeT(t) = s
  BY <1>2, <1>4, SMT
<1> DEFINE error == t - (s * 1000000000 + fraction * unit)
           whole == (a * 1000 + b) * 1000 + c
<1>9. unit \in Nat /\ error \in Nat /\ error < unit /\ whole \div unit = fraction
  <2>1. CASE k = 0
    <3>1. unit = 1000000000 /\ fraction = 0
      BY <1>1, <1>7, <2>1
    <3>2. error = whole /\ whole \in Nat /\ whole < 1000000000 /\ whole \div 1000000000 = 0
      BY <1>4, <3>1, SMT
    <3> HIDE DEF error, whole
    <3> QED BY <3>1, <3>2
  <2>2. CASE k = 1
    <3>1. unit = 1000000 /\ fraction = a
      BY <1>1, <1>7, <2>2
    <3>2. error \in Nat /\ error < 1000000 /\ whole \div 1000000 = a
      BY <1>4, <3>1, SMT
    <3> HIDE DEF error, whole
    <3> QED BY <3>1, <3>2
  <2>3. CASE k = 2
    <3>1. unit = 1000 /\ fraction = a * 1000 + b
      BY <1>1, <1>7, <2>3
    <3>2. error \in Nat /\ error < 1000 /\ whole \div 1000 = a * 1000 + b
      BY <1>4, <3>1, SMT
    <3> HIDE DEF error, whole
    <3> QED BY <3>1, <3>2
  <2>4. CASE k = 3
    <3>1. unit = 1 /\ fraction = whole
      BY <1>1, <1>7, <2>4
    <3>2. error = 0 /\ whole \div 1 = whole
      BY <1>4, <3>1, SMT
    <3> HIDE DEF error, whole
    <3> QED BY <3>1, <3>2
  <2> QED BY <2>1, <2>2, <2>3, <2>4
<1>10. t - (ToTimeT(t) * 10^9 + fraction * unit) \in 1 - unit .. unit - 1
  <2>1. t - (ToTimeT(t) * 10^9 + fraction * unit) = error
    BY <1>8, 10^9 = 1000000000
  <2> HIDE DEF error, whole
  <2> QED BY <1>9, <2>1, Within
<1>11. ClockFraction(w, t) = fraction
  <2>1. InNsec(t) = whole
    BY <1>5
  <2> HIDE DEF whole, error
  <2> QED BY <1>9, <2>1 DEF ClockFraction, unit
<1>12. IsPrinted(t) /\ \A i \in DOMAIN groups : groups[i] < 1000
  BY <1>3, <1>6, <1>8 DEF IsPrinted
<1>13. t >= 0
  OBVIOUS
<1> QED BY <1>10, <1>11, <1>12, <1>13, Zenon DEF IsReadBack, InFields, groups, fraction, unit

\* Before it, those whose printed groups are all zero.
LEMMA ReadBackBeforeEpoch ==
  ASSUME NEW w, NEW t \in Int, t < 0
  PROVE  IsReadBack(w, t)
<1> DEFINE groups == Fraction(w, t)
           fraction == Read(InFields(groups)).n
           unit   == 10^(9 - Digits(w))
           known  == \A i \in DOMAIN groups : groups[i] < 1000
           zero   == \A i \in DOMAIN groups : groups[i] = 0
<1>1. PICK k \in 0 .. 3 :
           /\ Digits(w) = 3 * k
           /\ unit = IF k = 0 THEN 1000000000 ELSE IF k = 1 THEN 1000000 ELSE
                     IF k = 2 THEN 1000 ELSE 1
  BY UnitIs
<1>2. PICK s, a, b, c :
           /\ Parts(- t, s, a, b, c)
           /\ ToTimeT(t) = - s
           /\ GetMs(t) = Wrapped(a) /\ GetUs(t) = Wrapped(b) /\ GetNs(t) = Wrapped(c)
  BY BeforeEpoch
<1>3. /\ DOMAIN groups = 1 .. k
      /\ k >= 1 => groups[1] = Wrapped(a)
      /\ k >= 2 => groups[2] = Wrapped(b)
      /\ k >= 3 => groups[3] = Wrapped(c)
  <2>1. Digits(w) = 3 * k
    BY <1>1
  <2>2. /\ DOMAIN groups = 1 .. k
        /\ k >= 1 => groups[1] = GetMs(t)
        /\ k >= 2 => groups[2] = GetUs(t)
        /\ k >= 3 => groups[3] = GetNs(t)
    BY <2>1, FractionIs
  <2> HIDE DEF groups
  <2> QED BY <1>2, <2>2
<1>4. s \in Nat /\ a \in 0 .. 999 /\ b \in 0 .. 999 /\ c \in 0 .. 999
      /\ t = 0 - (((s * 1000 + a) * 1000 + b) * 1000 + c)
  BY <1>2, SMT DEF Parts, Part
<1>5. /\ Wrapped(a) \in Nat /\ (Wrapped(a) < 1000 => a = 0) /\ (a = 0 <=> Wrapped(a) = 0)
      /\ Wrapped(b) \in Nat /\ (Wrapped(b) < 1000 => b = 0) /\ (b = 0 <=> Wrapped(b) = 0)
      /\ Wrapped(c) \in Nat /\ (Wrapped(c) < 1000 => c = 0) /\ (c = 0 <=> Wrapped(c) = 0)
  <2>1. PICK m \in Nat : m = 2^SizeBits /\ m >= 1000000000
    BY SizeBitsAssumption, 10^9 = 1000000000, SMT
  <2> QED BY <1>4, <2>1, SMT DEF Wrapped
<1> HIDE DEF groups, unit
<1>6. known => zero
  <2> SUFFICES ASSUME known, NEW i \in 1 .. k PROVE groups[i] = 0
    BY <1>3
  <2>1. groups[i] < 1000
    BY <1>3
  <2>2. i = 1 \/ (i = 2 /\ k >= 2) \/ (i = 3 /\ k >= 3)
    BY SMT
  <2>3. groups[i] = Wrapped(a) \/ groups[i] = Wrapped(b) \/ groups[i] = Wrapped(c)
    BY <1>3, <2>2, SMT
  <2> QED BY <1>5, <2>1, <2>3
<1>7. ASSUME zero
      PROVE  known /\ t - (ToTimeT(t) * 10^9 + fraction * unit) \in 1 - unit .. unit - 1
  <2>1. known
    BY <1>7, SMT
  <2>2. /\ k >= 1 => a = 0
        /\ k >= 2 => b = 0
        /\ k >= 3 => c = 0
    <3>1. \A i \in 1 .. k : groups[i] = 0
      BY <1>3, <1>7
    <3>2. k >= 1 => groups[1] = 0
      BY <3>1
    <3>3. k >= 2 => groups[2] = 0
      BY <3>1
    <3>4. k >= 3 => groups[3] = 0
      BY <3>1
    <3> QED BY <1>3, <1>5, <3>2, <3>3, <3>4
  <2>3. AreNumbers(groups, k)
    BY <1>3, <1>7 DEF AreNumbers
  <2>4. fraction = InARow(groups, k)
    BY <1>3, <2>3, GroupsRead
  <2> HIDE DEF fraction
  <2>5. fraction = 0
    BY <1>3, <1>7, <2>4, SMT DEF InARow
  <2>6. unit \in Nat /\ t - (- s * 1000000000 + 0 * unit) \in Int
        /\ t - (- s * 1000000000 + 0 * unit) <= 0 /\ - unit < t - (- s * 1000000000 + 0 * unit)
    <3> DEFINE error == t + s * 1000000000
    <3>1. error = 0 - ((a * 1000 + b) * 1000 + c)
      BY <1>4, SMT
    <3>2. CASE k = 0
      <4>1. unit = 1000000000
        BY <1>1, <3>2
      <4>2. - 1000000000 < 0 - ((a * 1000 + b) * 1000 + c)
        BY <1>4, SMT
      <4> QED BY <1>4, <3>1, <4>1, <4>2, SMT
    <3>3. CASE k = 1
      <4>1. unit = 1000000 /\ - 1000000 < error
        BY <1>1, <1>4, <2>2, <3>3, SMT
      <4> QED BY <1>4, <3>1, <4>1, SMT
    <3>4. CASE k = 2
      <4>1. unit = 1000 /\ - 1000 < error
        BY <1>1, <1>4, <2>2, <3>4, SMT
      <4> QED BY <1>4, <3>1, <4>1, SMT
    <3>5. CASE k = 3
      <4>1. unit = 1 /\ - 1 < error
        BY <1>1, <1>4, <2>2, <3>5, SMT
      <4> QED BY <1>4, <3>1, <4>1, SMT
    <3> QED BY <3>2, <3>3, <3>4, <3>5
  <2>7. t - (- s * 1000000000 + 0 * unit) \in 1 - unit .. unit - 1
    BY <2>6, Within, SMT
  <2>8. ToTimeT(t) * 10^9 = - s * 1000000000
    <3>1. ToTimeT(t) * 10^9 = (- s) * 1000000000
      BY <1>2, 10^9 = 1000000000
    <3>2. (- s) * 1000000000 = - s * 1000000000
      BY <1>4, SMT
    <3> QED BY <3>1, <3>2
  <2> QED BY <2>1, <2>5, <2>7, <2>8
<1>8. ~ (t >= 0)
  BY SMT
<1> HIDE DEF known, zero
<1>9. (IsPrinted(t) /\ known /\ t - (ToTimeT(t) * 10^9 + fraction * unit) \in 1 - unit .. unit - 1)
        <=> t >= 0 \/ (IsPrinted(t) /\ zero)
  BY <1>6, <1>7, <1>8
<1> QED BY <1>8, <1>9, Zenon DEF IsReadBack, InFields, groups, fraction, unit, known, zero

\* An instant is printed to within its last digit, whatever flags are set, exactly if it is
\* not before the epoch or loses no fraction, and is not taken for an error.
THEOREM InstantsReadBack == StreamSpec => []InstantReadsBack
<1>1. ASSUME NEW t \in Instant PROVE IsReadBack(word, t)
  <2>1. t \in Int
    BY InstantAssumption
  <2>2. CASE t < 0
    BY <2>1, <2>2, ReadBackBeforeEpoch
  <2>3. CASE t >= 0
    <3>1. t \in Nat
      BY <2>1, <2>3
    <3> QED BY <3>1, ReadBackAfterEpoch
  <2> QED BY <2>1, <2>2, <2>3
<1>2. InstantReadsBack
  BY <1>1, Zenon DEF InstantReadsBack, IsReadBack
<1> QED BY <1>2, PTL
=============================================================================
