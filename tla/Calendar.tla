------------------------------ MODULE Calendar -------------------------------
(***************************************************************************)
(* The calendar helpers and the date parsing of trie-chrono.hh, on a tm    *)
(* that a client passes from one call to the next.  They all rest on       *)
(* mktime, which believes the tm_isdst it is given, and never set it.      *)
(* Time is counted in hours: a time_t is the number of hours since the     *)
(* first of January of FirstYear in local standard time.                   *)
(***************************************************************************)
EXTENDS Integers, Sequences

CONSTANTS
  FirstYear, LastYear,   \* bound: the years tm stays in
  Instant,               \* what system_clock::now() may return, in those years
  Text,                  \* strings to parse, see Formats, with dates in those years
  Offset, Delta          \* arguments day_offset and month_delta

ASSUME YearAssumption == FirstYear \in Nat /\ LastYear \in Nat /\ FirstYear <= LastYear

VARIABLES
  now,         \* system_clock::now()
  tm           \* a std::tm of the client

calendarVars == <<now, tm>>

-----------------------------------------------------------------------------
(* The C library: the calendar, mktime and localtime.                      *)

IsLeap(y) == y % 4 = 0 /\ (y % 100 # 0 \/ y % 400 = 0)

MonthLength(y, m) ==
  IF m = 1 /\ IsLeap(y) THEN 29 ELSE <<31, 28, 31, 30, 31, 30, 31, 31, 30, 31, 30, 31>>[m + 1]

LeapsBefore(y) == (y - 1) \div 4 - (y - 1) \div 100 + (y - 1) \div 400

\* Calls that start in these years stay less than three years off.
NearYear == FirstYear - 3 .. LastYear + 3

\* Days from the first day of FirstYear to the first of a month.
FirstDay ==
  [y \in NearYear |-> [mon \in 0 .. 11 |->
     365 * (y - FirstYear) + LeapsBefore(y) - LeapsBefore(FirstYear)
       + <<0, 31, 59, 90, 120, 151, 181, 212, 243, 273, 304, 334>>[mon + 1]
       + IF mon > 1 /\ IsLeap(y) THEN 1 ELSE 0]]

\* The same, for any number of months after January.
MonthStart(y, m) == FirstDay[y + m \div 12][m % 12]

\* Summer time, from the first of April, 2:00, to the first of November, 2:00.
YearOf(day) ==
  CHOOSE y \in NearYear : day - FirstDay[y][0] \in 0 .. (IF IsLeap(y) THEN 365 ELSE 364)
Dst(t) == LET y == YearOf(t \div 24) IN
          IF t \in 24 * MonthStart(y, 3) + 2 .. 24 * MonthStart(y, 10) THEN 1 ELSE 0

\* mktime normalises month and day, and takes hour as summer time if isdst says so.
Mktime(x) == 24 * (MonthStart(x.year, x.mon) + x.mday - 1) + x.hour - x.isdst

\* localtime: time_point_2_tm
Localtime(t) ==
  LET local == t + Dst(t)
      day   == local \div 24
      y     == YearOf(day)
      m     == CHOOSE mon \in 0 .. 11 : day - FirstDay[y][mon] \in 0 .. MonthLength(y, mon) - 1
  IN [year |-> y, mon |-> m, mday |-> day - MonthStart(y, m) + 1,
      hour |-> local % 24, isdst |-> Dst(t)]

-----------------------------------------------------------------------------
(* last_day_at_this_month, last_day_at_this_year, compare_date_part        *)

\* tm_mon past December is carried into the year.
Carry(x) == IF x.mon > 11 THEN [x EXCEPT !.mon = @ % 12, !.year = @ + x.mon \div 12] ELSE x

\* Mutants: the day of the month is left; the year is not advanced.
KeepDay(x)  == x
SameYear(x) == [x EXCEPT !.mday = 1, !.mon = 0]

FirstOf(x)  == [x EXCEPT !.mday = 1]
NextYear(x) == [x EXCEPT !.mday = 1, !.mon = 0, !.year = @ + 1]

\* last_day_at_this_month_in_time_point, with the default for mday
LastDayAtThisMonth(x, day_offset, month_delta) ==
  IF day_offset \notin 1 .. 31 THEN Mktime(x)
  ELSE Mktime(Carry([FirstOf(x) EXCEPT !.mon = @ + month_delta])) - 24 * day_offset

\* last_day_at_this_year_in_time_point
LastDayAtThisYear(x, day_offset) ==
  IF day_offset \notin 1 .. 366 THEN Mktime(x) ELSE Mktime(NextYear(x)) - 24 * day_offset

\* Mutant: -1 becomes false.
PositiveToBool(n) == n > 0

\* The int 0, -1 or 1 that compare_date_part returns as a bool.
ToBool(n) == n # 0

CompareDatePart(lhs, rhs) ==
  LET tmr == Localtime(rhs)
      l   == Mktime([Localtime(lhs) EXCEPT !.hour = tmr.hour])
      r   == Mktime(tmr)
  IN ToBool(IF l = r THEN 0 ELSE IF l < r THEN -1 ELSE 1)

-----------------------------------------------------------------------------
(* Parsing.  A text has a date written with '-' or '/' or none, and an     *)
(* hour, or no time of day (-1).  A format names a date in the same way,   *)
(* and whether a time of day follows.                                      *)

Dashes      == [sep |-> "-", time |-> FALSE]
DashesTime  == [sep |-> "-", time |-> TRUE]
Slashes     == [sep |-> "/", time |-> FALSE]
SlashesTime == [sep |-> "/", time |-> TRUE]
Clock       == [sep |-> "",  time |-> TRUE]

\* The formats parse_datetime tries, and those of its test, in their order.
ParseFormats == <<Dashes, Slashes, Clock, DashesTime, SlashesTime>>
TestFormats  == <<Clock, DashesTime, SlashesTime>>

HasTime(text) == text.hour # -1

\* Mutant: bad() for fail(), which does not see that the text is at its end.
AcceptsShort(format, text) == format.sep = text.sep

\* std::get_time reads a format to its end and leaves the rest of the text alone.
Accepts(format, text) ==
  /\ format.sep = text.sep
  /\ format.time => HasTime(text)

\* It sets the fields that the format names, and no others.
Read(x, format, text) ==
  LET dated == IF format.sep = "" THEN x
               ELSE [x EXCEPT !.year = text.date[1], !.mon = text.date[2], !.mday = text.date[3]]
  IN IF format.time THEN [dated EXCEPT !.hour = text.hour] ELSE dated

\* Mutant: what a format has set before it failed is left: a year, from an hour.
LeftOver(x, format, text) ==
  IF format.sep # "" /\ text.sep = "" /\ HasTime(text) THEN [x EXCEPT !.year = text.hour] ELSE x

\* tm = tm_local_copy
Restored(x, format, text) == x

\* The next format of the list is tried, unless one before it was accepted.
Attempt(acc, format, text) ==
  IF acc.ok THEN acc
  ELSE IF Accepts(format, text) THEN [ok |-> TRUE, tm |-> Read(acc.tm, format, text)]
  ELSE [ok |-> FALSE, tm |-> Restored(acc.tm, format, text)]

\* try_parse_by(tm, text, formats...), format by format
TryParseBy(x, text, formats) ==
  LET all == <<DashesTime>> \o formats
      after[j \in 0 .. Len(all)] ==
        IF j = 0 THEN [ok |-> FALSE, tm |-> x] ELSE Attempt(after[j - 1], all[j], text)
  IN after[Len(all)]

\* Mutant: tm is not filled in from the clock.
ParsedFromZero(t, text) == TryParseBy(Localtime(0), text, ParseFormats)

\* parse_datetime: fields the text does not name are those of now, isdst always is.
ParsedTm(t, text) == TryParseBy(Localtime(t), text, ParseFormats)
ParseDatetime(t, text) == Mktime(ParsedTm(t, text).tm)

-----------------------------------------------------------------------------
(* A client.                                                               *)

Year == FirstYear .. LastYear

ASSUME InstantAssumption == Instant \subseteq 0 .. 24 * FirstDay[LastYear + 1][0] - 1
ASSUME DeltaAssumption   == Delta \subseteq -24 .. 24   \* bound: two years

ASSUME TextAssumption ==
  Text \subseteq [sep : {"-", "/"}, date : Year \X (0 .. 11) \X (1 .. 31), hour : -1 .. 23]
                   \cup [sep : {""}, date : {<<>>}, hour : -1 .. 23]

CalendarTypeOK ==
  /\ now \in Instant
  /\ tm \in [year : Year, mon : 0 .. 11, mday : 1 .. 31, hour : 0 .. 23, isdst : 0 .. 1]

CalendarInit == now \in Instant /\ tm = Localtime(now)

Becomes(t) == LET x == Localtime(t) IN x.year \in Year /\ tm' = x

\* The wall clock goes on, or is set.
Tick == now' \in Instant /\ UNCHANGED tm

Now == Becomes(now) /\ UNCHANGED now

MonthEnd(day_offset, month_delta) ==
  Becomes(LastDayAtThisMonth(tm, day_offset, month_delta)) /\ UNCHANGED now

YearEnd(day_offset) == Becomes(LastDayAtThisYear(tm, day_offset)) /\ UNCHANGED now

TryParse(text, formats) == tm' = TryParseBy(tm, text, formats).tm /\ UNCHANGED now

\* If no format fits, parse_datetime returns the epoch, which a client must look for.
Parse(text) == /\ ParsedTm(now, text).ok
               /\ Becomes(ParseDatetime(now, text))
               /\ UNCHANGED now

CalendarNext ==
  \/ Tick \/ Now
  \/ \E off \in Offset : YearEnd(off) \/ \E delta \in Delta : MonthEnd(off, delta)
  \/ \E text \in Text :
       Parse(text) \/ \E formats \in {ParseFormats, TestFormats} : TryParse(text, formats)

CalendarSpec == CalendarInit /\ [][CalendarNext]_calendarVars

-----------------------------------------------------------------------------
(* Properties.                                                             *)

DateOf(x) == <<x.year, x.mon, x.mday>>

\* The hour is counted by the season of x; in the other one it may be of the day before
\* or of the day after.
OtherDay(x, t) == \/ x.hour = 0  /\ x.isdst = 1 /\ Dst(t) = 0
                  \/ x.hour = 23 /\ x.isdst = 0 /\ Dst(t) = 1

\* The day a number of days before the first of a month.
DayBefore(y, m, days) ==
  LET year(k) == y + (m - k) \div 12
      mon(k)  == (m - k) % 12
      long(k) == MonthLength(year(k), mon(k))
  IN IF days <= long(1) THEN <<year(1), mon(1), long(1) + 1 - days>>
     ELSE <<year(2), mon(2), long(1) + long(2) + 1 - days>>

\* last_day_at_this_month finds the day_offset-th day from the end of a month, counted
\* as its comment says, 1 for this month and 2 for the next; 0, the default, is the
\* month before this one.  It does so whatever the day in tm is and across the ends of
\* years, except at hours that fall on another day there.
MonthEndIsFound ==
  \A off \in Offset \cap 1 .. 31, delta \in Delta :
    LET t == LastDayAtThisMonth(tm, off, delta) IN
    (DateOf(Localtime(t)) = DayBefore(tm.year, tm.mon + delta, off)) <=> ~ OtherDay(tm, t)

\* last_day_at_this_year finds the day that has day_offset - 1 days after it in its
\* year, also in a leap year; 366 in a year of 365 days is the last of the year before.
YearEndIsRight ==
  \A off \in Offset \cap 1 .. 366 :
    LET t == LastDayAtThisYear(tm, off)
        x == Localtime(t)
        days == IF IsLeap(tm.year) THEN 366 ELSE 365
    IN (IF off <= days
          THEN x.year = tm.year /\ MonthStart(x.year, x.mon) + x.mday - 1 + off
                                     = MonthStart(tm.year, 0) + days
          ELSE DateOf(x) = <<tm.year - 1, 11, 31>>)
       <=> ~ OtherDay(tm, t)

\* compare_date_part is false exactly for two instants of one day and one season: on the
\* day the clocks change, the hours before and after are different dates.
SameDate ==
  \A t \in Instant :
    CompareDatePart(t, now) <=> ~ /\ DateOf(Localtime(t)) = DateOf(Localtime(now))
                                  /\ Dst(t) = Dst(now)

\* A list of formats that fails, or fails before one fits, leaves no trace: a date is
\* that of the text or as it was, the hour too, and the season is never touched.
ParseLeavesNoTrace ==
  \A text \in Text, formats \in {ParseFormats, TestFormats} :
    LET p == TryParseBy(tm, text, formats) IN
    /\ DateOf(p.tm) = IF p.ok /\ text.sep # "" THEN text.date ELSE DateOf(tm)
    /\ p.tm.hour = tm.hour \/ (HasTime(text) /\ p.tm.hour = text.hour)
    /\ p.tm.isdst = tm.isdst

\* parse_datetime returns the instant of the text exactly if the date is one and is in
\* the season of now.  After a date with slashes the time of day is lost.
ParsedInstantReadsBack ==
  \A text \in Text :
    LET p == ParsedTm(now, text)
        t == ParseDatetime(now, text)
        x == Localtime(t)
        today == Localtime(now)
        date  == IF text.sep = "" THEN DateOf(today) ELSE text.date
        hour  == IF HasTime(text) THEN text.hour ELSE today.hour
    IN p.ok =>
       IF text.sep = "/" /\ HasTime(text)
         THEN t = ParseDatetime(now, [text EXCEPT !.hour = -1])
         ELSE (DateOf(x) = date /\ x.hour = hour)
                <=> date[3] <= MonthLength(date[1], date[2]) /\ Dst(t) = Dst(now)
=============================================================================
