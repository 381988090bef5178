--------------------------- MODULE CalendarProofs ---------------------------
(***************************************************************************)
(* Proofs about Calendar.  The C library's calendar is a counting of days: *)
(* every day has one date, so two ways to reach a day agree on its date.   *)
(***************************************************************************)
EXTENDS Calendar, ProofFacts

-----------------------------------------------------------------------------
(* The calendar.                                                           *)

\* Days from the first day of FirstYear to the first of January of a year.
YearStart(y) == 365 * (y - FirstYear) + LeapsBefore(y) - LeapsBefore(FirstYear)

YearLength(y) == IF IsLeap(y) THEN 366 ELSE 365

\* Days of a year before a month.
DaysBefore(y, m) ==
  <<0, 31, 59, 90, 120, 151, 181, 212, 243, 273, 304, 334>>[m + 1]
    + (IF m > 1 /\ IsLeap(y) THEN 1 ELSE 0)

\* The first of a month is the first of January and the months before.
LEMMA FirstDayIs ==
  ASSUME NEW y \in NearYear, NEW m \in 0 .. 11
  PROVE  FirstDay[y][m] = YearStart(y) + DaysBefore(y, m)
<1> DEFINE row(z) == [mon \in 0 .. 11 |->
             365 * (z - FirstYear) + LeapsBefore(z) - LeapsBefore(FirstYear)
               + <<0, 31, 59, 90, 120, 151, 181, 212, 243, 273, 304, 334>>[mon + 1]
               + IF mon > 1 /\ IsLeap(z) THEN 1 ELSE 0]
<1>1. FirstDay = [z \in NearYear |-> row(z)]
  BY DEF FirstDay
<1>2. FirstDay[y] = row(y)
  <2> HIDE DEF row
  <2> QED BY <1>1
<1>3. row(y)[m] = YearStart(y) + DaysBefore(y, m)
  <2> DEFINE days == <<0, 31, 59, 90, 120, 151, 181, 212, 243, 273, 304, 334>>[m + 1]
             leap == IF m > 1 /\ IsLeap(y) THEN 1 ELSE 0
  <2>1. row(y)[m] = YearStart(y) + days + leap
    BY DEF YearStart
  <2>2. YearStart(y) \in Int /\ days \in Int /\ leap \in Int
    BY YearAssumption DEF YearStart, LeapsBefore, NearYear
  <2>3. DaysBefore(y, m) = days + leap
    BY DEF DaysBefore
  <2> HIDE DEF row, days, leap
  <2> QED BY <2>1, <2>2, <2>3
<1> QED BY <1>2, <1>3

\* IsLeap and LeapsBefore agree.
LEMMA LeapsStep ==
  ASSUME NEW y \in Int
  PROVE  /\ LeapsBefore(y) \in Int
         /\ LeapsBefore(y + 1) = LeapsBefore(y) + (IF IsLeap(y) THEN 1 ELSE 0)
<1>1. (y + 1) - 1 = y
  OBVIOUS
<1>2. y \div 4 - (y - 1) \div 4 = IF y % 4 = 0 THEN 1 ELSE 0
  OBVIOUS
<1>3. y \div 100 - (y - 1) \div 100 = IF y % 100 = 0 THEN 1 ELSE 0
  OBVIOUS
<1>4. y \div 400 - (y - 1) \div 400 = IF y % 400 = 0 THEN 1 ELSE 0
  OBVIOUS
<1>5. (y % 400 = 0 => y % 100 = 0) /\ (y % 100 = 0 => y % 4 = 0)
  OBVIOUS
<1> QED BY <1>1, <1>2, <1>3, <1>4, <1>5 DEF LeapsBefore, IsLeap

\* The next year starts after the days of a year.
LEMMA YearStep ==
  ASSUME NEW y \in Int
  PROVE  /\ YearStart(y) \in Int /\ YearLength(y) \in 365 .. 366
         /\ YearStart(y + 1) = YearStart(y) + YearLength(y)
BY LeapsStep, YearAssumption DEF YearStart, YearLength

\* A later year starts after all days of an earlier one.
LEMMA YearsApart ==
  ASSUME NEW y \in Int, NEW z \in Int, y < z
  PROVE  YearStart(z) >= YearStart(y) + YearLength(y)
<1>1. PICK a \in Int : a = y + 1
  OBVIOUS
<1>2. LeapsBefore(z) >= LeapsBefore(a) - 3 /\ LeapsBefore(z) \in Int /\ LeapsBefore(a) \in Int
  BY <1>1 DEF LeapsBefore
<1>3. YearStart(z) >= YearStart(a)
  <2>1. CASE z = a
    BY <2>1, <1>1, YearStep
  <2>2. CASE z > a
    BY <2>2, <1>2, LeapsStep, YearAssumption DEF YearStart
  <2> QED BY <2>1, <2>2, <1>1
<1> QED BY <1>1, <1>3, YearStep

\* Months have 28 to 31 days; the eleven before December have 334 or 335.
LEMMA MonthLengths ==
  ASSUME NEW y \in Int, NEW m \in 0 .. 11
  PROVE  MonthLength(y, m) \in 28 .. 31 /\ DaysBefore(y, m) \in 0 .. 335
BY DEF MonthLength, DaysBefore

\* The same as integers.
LEMMA MonthInts ==
  ASSUME NEW y \in Int, NEW m \in 0 .. 11
  PROVE  DaysBefore(y, m) \in Int /\ MonthLength(y, m) \in Int
<1>1. MonthLength(y, m) \in 28 .. 31
  BY MonthLengths
<1>2. DaysBefore(y, m) \in 0 .. 335
  BY MonthLengths
<1> QED BY <1>1, <1>2

\* The next month starts after the days of a month, the next year after December's.
LEMMA MonthStep ==
  ASSUME NEW y \in Int
  PROVE  /\ \A m \in 0 .. 10 : DaysBefore(y, m + 1) = DaysBefore(y, m) + MonthLength(y, m)
         /\ DaysBefore(y, 11) + MonthLength(y, 11) = YearLength(y)
         /\ DaysBefore(y, 0) = 0
BY DEF MonthLength, DaysBefore, YearLength

\* A later month starts after all days of an earlier one.
LEMMA MonthsApart ==
  ASSUME NEW y \in Int, NEW m \in 0 .. 11, NEW n \in 0 .. 11, m < n
  PROVE  DaysBefore(y, n) >= DaysBefore(y, m) + MonthLength(y, m)
BY DEF MonthLength, DaysBefore

-----------------------------------------------------------------------------
(* Every day has one date.                                                 *)

IsDate(y, m, d) == y \in NearYear /\ m \in 0 .. 11 /\ d \in 1 .. MonthLength(y, m)

DayNumber(y, m, d) == FirstDay[y][m] + d - 1

\* The days of the years near the ones that tm stays in.
NearDay == YearStart(FirstYear - 3) .. YearStart(LastYear + 4) - 1

\* The years of tm are among those that the calendar covers.
LEMMA NearYears == NearYear \in SUBSET Int /\ Year \subseteq NearYear
BY YearAssumption DEF NearYear, Year

\* A date is a day of its year.
LEMMA DateInYear ==
  ASSUME NEW y, NEW m, NEW d, IsDate(y, m, d)
  PROVE  /\ FirstDay[y][m] = YearStart(y) + DaysBefore(y, m)
         /\ DayNumber(y, m, d) \in YearStart(y) .. YearStart(y) + YearLength(y) - 1
<1>1. y \in NearYear /\ y \in Int /\ m \in 0 .. 11 /\ d \in 1 .. MonthLength(y, m)
  BY NearYears DEF IsDate
<1>2. FirstDay[y][m] = YearStart(y) + DaysBefore(y, m)
  BY <1>1, FirstDayIs
<1>3. YearStart(y) \in Int /\ YearLength(y) \in 365 .. 366 /\ DaysBefore(y, m) \in 0 .. 335
      /\ MonthLength(y, m) \in 28 .. 31
  <2>1. YearStart(y) \in Int /\ YearLength(y) \in 365 .. 366
    BY <1>1, YearStep, Zenon
  <2>2. MonthLength(y, m) \in 28 .. 31 /\ DaysBefore(y, m) \in 0 .. 335
    BY <1>1, MonthLengths, Zenon
  <2> QED BY <2>1, <2>2
<1>4. DaysBefore(y, m) + MonthLength(y, m) <= YearLength(y)
  <2>1. CASE m = 11
    BY <2>1, <1>1, <1>3, MonthStep
  <2>2. CASE m < 11
    <3>1. DaysBefore(y, 11) >= DaysBefore(y, m) + MonthLength(y, m)
      BY <2>2, <1>1, MonthsApart
    <3>2. DaysBefore(y, 11) + MonthLength(y, 11) = YearLength(y)
      BY <1>1, MonthStep
    <3>3. \A k \in 0 .. 11 : MonthLength(y, k) \in 28 .. 31 /\ DaysBefore(y, k) \in 0 .. 335
      BY <1>1, MonthLengths
    <3>4. DaysBefore(y, 11) \in Int /\ MonthLength(y, 11) \in 28 .. 31
      BY <3>3
    <3> QED BY <3>1, <3>2, <3>4, <1>3
  <2> QED BY <2>1, <2>2, <1>1
<1> QED BY <1>1, <1>2, <1>3, <1>4 DEF DayNumber

\* Two dates of one day are the same.
LEMMA OneDate ==
  ASSUME NEW y, NEW m, NEW d, IsDate(y, m, d), NEW z, NEW n, NEW e, IsDate(z, n, e),
         DayNumber(y, m, d) = DayNumber(z, n, e)
  PROVE  y = z /\ m = n /\ d = e
<1>1. y \in Int /\ m \in 0 .. 11 /\ d \in 1 .. MonthLength(y, m)
      /\ z \in Int /\ n \in 0 .. 11 /\ e \in 1 .. MonthLength(z, n)
  BY NearYears DEF IsDate
<1>2. MonthLength(y, m) \in 28 .. 31 /\ MonthLength(z, n) \in 28 .. 31
  BY <1>1, MonthLengths
<1>3. DayNumber(y, m, d) \in YearStart(y) .. YearStart(y) + YearLength(y) - 1
      /\ DayNumber(z, n, e) \in YearStart(z) .. YearStart(z) + YearLength(z) - 1
  BY DateInYear
<1>4. YearStart(y) \in Int /\ YearStart(z) \in Int
      /\ YearLength(y) \in 365 .. 366 /\ YearLength(z) \in 365 .. 366
  BY <1>1, YearStep
<1>5. y = z
  <2>1. ~ (y < z)
    BY <1>1, <1>3, <1>4, YearsApart
  <2>2. ~ (z < y)
    BY <1>1, <1>3, <1>4, YearsApart
  <2> QED BY <2>1, <2>2, <1>1
<1>6. PICK p \in Int, q \in Int, s \in Int, u \in Int, v \in Int :
          /\ p = DaysBefore(y, m) /\ q = DaysBefore(y, n) /\ s = YearStart(y)
          /\ u = MonthLength(y, m) /\ v = MonthLength(y, n)
  <2>1. DaysBefore(y, m) \in Int /\ DaysBefore(y, n) \in Int
    BY <1>1, MonthInts
  <2>2. MonthLength(y, m) \in Int /\ MonthLength(y, n) \in Int
    BY <1>2, <1>5
  <2> QED BY <1>4, <2>1, <2>2, Zenon
<1>7. FirstDay[y][m] = s + p /\ FirstDay[y][n] = s + q
  BY <1>5, <1>6, DateInYear
<1>8. p + d = q + e
  <2>1. (s + p) + d - 1 = (s + q) + e - 1
    BY <1>5, <1>7 DEF DayNumber
  <2>2. d \in Int /\ e \in Int
    BY <1>1, <1>2
  <2> QED BY <2>1, <2>2
<1>9. d \in 1 .. u /\ e \in 1 .. v
  BY <1>1, <1>5, <1>6
<1>10. ~ (m < n)
  <2>1. m < n => q >= p + u
    BY <1>1, <1>6, MonthsApart
  <2> QED BY <2>1, <1>8, <1>9
<1>11. ~ (n < m)
  <2>1. n < m => p >= q + v
    BY <1>1, <1>6, MonthsApart
  <2> QED BY <2>1, <1>8, <1>9
<1>12. m = n
  BY <1>1, <1>10, <1>11
<1> QED BY <1>5, <1>6, <1>8, <1>9, <1>12

\* The year of a day.
LEMMA YearOfIs ==
  ASSUME NEW day \in NearDay
  PROVE  /\ YearOf(day) \in NearYear
         /\ day \in YearStart(YearOf(day)) .. YearStart(YearOf(day)) + YearLength(YearOf(day)) - 1
<1> DEFINE first == FirstYear - 3
           past  == {k \in Nat : day < YearStart(first + k + 1)}
<1>1. first \in Int /\ LastYear \in Int /\ LastYear >= first + 3
  BY YearAssumption
<1>2. YearStart(first) \in Int /\ YearStart(LastYear + 4) \in Int
  BY <1>1, YearStep
<1>3. day \in Int /\ day >= YearStart(first) /\ day < YearStart(LastYear + 4)
  BY <1>2 DEF NearDay
<1> HIDE DEF first
<1>4. LastYear + 3 - first \in Nat /\ first + (LastYear + 3 - first) + 1 = LastYear + 4
  BY <1>1
<1>5. LastYear + 3 - first \in past
  BY <1>3, <1>4
<1>6. PICK k \in past : \A j \in past : k <= j
  <2>1. past \in SUBSET Nat /\ past # {}
    BY <1>5
  <2> HIDE DEF past
  <2> QED BY <2>1, LeastNumber
<1>7. PICK y \in Int : y = first + k
  BY <1>1
<1>8. y \in NearYear
  <2>1. k <= LastYear + 3 - first
    BY <1>5, <1>6
  <2> QED BY <2>1, <1>1, <1>7 DEF NearYear, first
<1>9. day >= YearStart(y)
  <2>1. CASE k = 0
    BY <2>1, <1>3, <1>7, <1>1
  <2>2. CASE k # 0
    <3>1. k - 1 \in Nat /\ first + (k - 1) + 1 = y
      BY <2>2, <1>1, <1>7
    <3>2. k - 1 \notin past
      BY <3>1, <1>6
    <3>3. YearStart(y) \in Int
      BY YearStep
    <3> QED BY <3>1, <3>2, <3>3, <1>3
  <2> QED BY <2>1, <2>2
<1>10. YearStart(y) \in Int /\ YearLength(y) \in 365 .. 366
       /\ YearStart(y + 1) = YearStart(y) + YearLength(y) /\ day < YearStart(y + 1)
  BY <1>6, <1>7, YearStep
<1> DEFINE within(z) == day - FirstDay[z][0] \in 0 .. (IF IsLeap(z) THEN 365 ELSE 364)
<1>11. ASSUME NEW z \in NearYear
       PROVE  within(z) <=> day \in YearStart(z) .. YearStart(z) + YearLength(z) - 1
  <2>1. z \in Int
    BY NearYears
  <2>2. FirstDay[z][0] = YearStart(z)
    <3>1. FirstDay[z][0] = YearStart(z) + DaysBefore(z, 0)
      BY FirstDayIs
    <3>2. DaysBefore(z, 0) = 0 /\ YearStart(z) \in Int
      BY <2>1, MonthStep, YearStep
    <3> QED BY <3>1, <3>2
  <2>3. YearStart(z) \in Int
    BY <2>1, YearStep
  <2> QED BY <2>2, <2>3, <1>3 DEF YearLength
<1>12. YearOf(day) = CHOOSE z \in NearYear : within(z)
  BY DEF YearOf
<1>13. day \in YearStart(y) .. YearStart(y) + YearLength(y) - 1
  BY <1>3, <1>9, <1>10
<1> HIDE DEF within
<1>14. within(y)
  BY <1>8, <1>11, <1>13
<1>15. YearOf(day) \in NearYear /\ within(YearOf(day))
  BY <1>8, <1>12, <1>14, Zenon
<1> QED BY <1>11, <1>15

\* The month of a day of a year.
LEMMA MonthExists ==
  ASSUME NEW y \in Int, NEW k \in 0 .. YearLength(y) - 1
  PROVE  \E m \in 0 .. 11 : k - DaysBefore(y, m) \in 0 .. MonthLength(y, m) - 1
<1> DEFINE past == {m \in 0 .. 11 : k < DaysBefore(y, m) + MonthLength(y, m)}
<1>1. k \in Nat /\ k < YearLength(y)
  BY YearStep
<1>2. 11 \in past
  BY <1>1, MonthStep
<1>3. PICK m \in past : \A j \in past : m <= j
  <2>1. past \in SUBSET Nat /\ past # {}
    BY <1>2
  <2> HIDE DEF past
  <2> QED BY <2>1, LeastNumber
<1>4. m \in 0 .. 11 /\ k < DaysBefore(y, m) + MonthLength(y, m)
  OBVIOUS
<1>5. DaysBefore(y, m) \in Int /\ MonthLength(y, m) \in Int
  BY <1>4, MonthInts
<1>6. k >= DaysBefore(y, m)
  <2>1. CASE m = 0
    BY <2>1, <1>1, MonthStep
  <2>2. CASE m # 0
    <3>1. PICK j \in 0 .. 10 : m = j + 1
      <4>1. m - 1 \in 0 .. 10 /\ m = (m - 1) + 1
        BY <2>2, <1>4
      <4> QED BY <4>1
    <3>2. j \notin past
      BY <3>1, <1>3
    <3>3. DaysBefore(y, m) = DaysBefore(y, j) + MonthLength(y, j)
      BY <3>1, MonthStep
    <3> QED BY <3>2, <3>3, <1>1, <1>5
  <2> QED BY <2>1, <2>2
<1> QED BY <1>1, <1>4, <1>5, <1>6

\* The date of a day, as localtime finds it.
MonthOf(day) ==
  CHOOSE m \in 0 .. 11 :
    day - FirstDay[YearOf(day)][m] \in 0 .. MonthLength(YearOf(day), m) - 1

\* Year and month of a day, and the day of the month, are a date.
LEMMA MonthOfIs ==
  ASSUME NEW day \in NearDay
  PROVE  /\ IsDate(YearOf(day), MonthOf(day), day - FirstDay[YearOf(day)][MonthOf(day)] + 1)
         /\ FirstDay[YearOf(day)][MonthOf(day)] \in Int
<1>1. PICK y \in NearYear : y = YearOf(day)
  BY YearOfIs
<1>2. y \in Int
  BY NearYears
<1>3. day \in YearStart(y) .. YearStart(y) + YearLength(y) - 1
  BY <1>1, YearOfIs
<1>4. YearStart(y) \in Int /\ YearLength(y) \in Int
  BY <1>2, YearStep
<1>5. PICK k \in 0 .. YearLength(y) - 1 : day = YearStart(y) + k
  <2>1. day - YearStart(y) \in 0 .. YearLength(y) - 1 /\ day = YearStart(y) + (day - YearStart(y))
    BY <1>3, <1>4
  <2> QED BY <2>1
<1> DEFINE within(m) == day - FirstDay[y][m] \in 0 .. MonthLength(y, m) - 1
<1>6. ASSUME NEW m \in 0 .. 11
      PROVE  /\ FirstDay[y][m] \in Int
             /\ within(m) <=> k - DaysBefore(y, m) \in 0 .. MonthLength(y, m) - 1
  <2>1. FirstDay[y][m] = YearStart(y) + DaysBefore(y, m)
    BY FirstDayIs
  <2>2. DaysBefore(y, m) \in Int /\ MonthLength(y, m) \in Int
    BY <1>2, MonthInts
  <2>3. k \in Int /\ day - (YearStart(y) + DaysBefore(y, m)) = k - DaysBefore(y, m)
    BY <1>4, <1>5, <2>2
  <2> QED BY <1>4, <2>1, <2>2, <2>3
<1>7. PICK m \in 0 .. 11 : k - DaysBefore(y, m) \in 0 .. MonthLength(y, m) - 1
  BY <1>2, MonthExists
<1>8. MonthOf(day) = CHOOSE j \in 0 .. 11 : within(j)
  BY <1>1 DEF MonthOf
<1>9. within(m)
  BY <1>6, <1>7
<1>10. MonthOf(day) \in 0 .. 11 /\ within(MonthOf(day))
  <2> HIDE DEF within
  <2> DEFINE months == 0 .. 11
  <2>1. MonthOf(day) = (CHOOSE j \in months : within(j)) /\ m \in months
    BY <1>8
  <2> HIDE DEF months
  <2>2. MonthOf(day) \in months /\ within(MonthOf(day))
    BY <1>9, <2>1, Zenon
  <2> QED BY <2>2 DEF months
<1>11. FirstDay[y][MonthOf(day)] \in Int
  BY <1>6, <1>10
<1>12. MonthLength(y, MonthOf(day)) \in Int
  BY <1>2, <1>10, MonthInts
<1>13. day \in Int
  BY <1>3, <1>4
<1>14. day - FirstDay[y][MonthOf(day)] + 1 \in 1 .. MonthLength(y, MonthOf(day))
  BY <1>10, <1>11, <1>12, <1>13
<1> QED BY <1>1, <1>10, <1>11, <1>14 DEF IsDate

-----------------------------------------------------------------------------
(* localtime and mktime.                                                   *)

\* The hours of those days, in which summer time ends before the last one.
NearInstant == 24 * YearStart(FirstYear - 3) .. 24 * YearStart(LastYear + 4) - 2

NearTm == [year : NearYear, mon : 0 .. 11, mday : 1 .. 31, hour : 0 .. 23, isdst : 0 .. 1]

DayOf(x) == DayNumber(x.year, x.mon, x.mday)

\* x is the broken-down local time t.
IsLocal(x, t) ==
  /\ x \in NearTm /\ IsDate(x.year, x.mon, x.mday)
  /\ x.isdst = Dst(t)
  /\ DayOf(x) \in Int /\ 24 * DayOf(x) + x.hour = t + Dst(t)

\* tm_isdst is 0 or 1.
LEMMA DstBit == ASSUME NEW t PROVE Dst(t) \in 0 .. 1
BY DEF Dst

\* The calendar ends at whole days.
LEMMA NearBounds ==
  /\ YearStart(FirstYear - 3) \in Int
  /\ YearStart(LastYear + 4) \in Int
BY YearAssumption, YearStep

\* MonthStart for a month of the year itself.
LEMMA MonthStartIs ==
  ASSUME NEW y \in NearYear, NEW m \in 0 .. 11
  PROVE  MonthStart(y, m) = FirstDay[y][m]
<1>1. y + m \div 12 = y /\ m % 12 = m
  BY NearYears
<1> QED BY <1>1 DEF MonthStart

\* localtime returns the date of a day and an hour of it, in the season of the instant.
LEMMA LocaltimeIs ==
  ASSUME NEW t \in NearInstant
  PROVE  IsLocal(Localtime(t), t)
<1>1. PICK s \in 0 .. 1 : s = Dst(t)
  BY DstBit
<1>2. t \in Int /\ t + s \in Int
  BY NearBounds DEF NearInstant
<1>3. PICK day \in NearDay, h \in 0 .. 23 : /\ day = (t + s) \div 24 /\ h = (t + s) % 24
                                           /\ day \in Int /\ 24 * day + h = t + s
  <2>1. (t + s) \div 24 \in NearDay
    BY NearBounds DEF NearInstant, NearDay
  <2>2. PICK v \in Int : v = t + s
    BY <1>2
  <2>3. v \div 24 \in Int /\ v % 24 \in 0 .. 23 /\ v % 24 = v - 24 * (v \div 24)
    <3>1. v % 24 \in 0 .. 23 /\ v % 24 = v - 24 * (v \div 24)
      OBVIOUS
    <3> QED BY <3>1
  <2>4. PICK d, h : d = v \div 24 /\ h = v % 24
    OBVIOUS
  <2>5. d \in NearDay /\ h \in 0 .. 23 /\ d = (t + s) \div 24 /\ h = (t + s) % 24
    BY <2>1, <2>2, <2>3, <2>4
  <2>6. d \in Int /\ 24 * d + h = t + s
    BY <2>2, <2>3, <2>4
  <2> QED BY <2>5, <2>6
<1>4. PICK y, m : y = YearOf(day) /\ m = MonthOf(day)
  OBVIOUS
<1>5. IsDate(y, m, day - FirstDay[y][m] + 1) /\ FirstDay[y][m] \in Int
  BY <1>4, MonthOfIs
<1>6. y \in NearYear /\ m \in 0 .. 11
  BY <1>5 DEF IsDate
<1>7. MonthStart(y, m) = FirstDay[y][m]
  BY <1>6, MonthStartIs
<1>8. PICK d : d = day - FirstDay[y][m] + 1
  OBVIOUS
<1>9. Localtime(t) = [year |-> y, mon |-> m, mday |-> d, hour |-> h, isdst |-> s]
  <2>1. m = CHOOSE mon \in 0 .. 11 : day - FirstDay[y][mon] \in 0 .. MonthLength(y, mon) - 1
    BY <1>4 DEF MonthOf
  <2>2. Localtime(t) = [year |-> YearOf((t + Dst(t)) \div 24),
                        mon |-> MonthOf((t + Dst(t)) \div 24),
                        mday |-> (t + Dst(t)) \div 24
                           - MonthStart(YearOf((t + Dst(t)) \div 24), MonthOf((t + Dst(t)) \div 24))
                           + 1,
                        hour |-> (t + Dst(t)) % 24, isdst |-> Dst(t)]
    BY DEF Localtime, MonthOf
  <2>3. (t + Dst(t)) \div 24 = day /\ (t + Dst(t)) % 24 = h /\ Dst(t) = s
    BY <1>1, <1>3
  <2> QED BY <2>2, <2>3, <1>4, <1>7, <1>8
<1>10. d \in 1 .. 31 /\ d \in Int
  <2>1. MonthLength(y, m) \in 28 .. 31
    BY <1>6, NearYears, MonthLengths
  <2>2. d \in 1 .. MonthLength(y, m)
    BY <1>5, <1>8 DEF IsDate
  <2> QED BY <2>1, <2>2
<1>11. DayNumber(y, m, d) = day
  BY <1>3, <1>5, <1>8, <1>10 DEF DayNumber
<1>12. IsDate(y, m, d)
  BY <1>5, <1>8
<1>13. Localtime(t) \in NearTm
  BY <1>6, <1>9, <1>10 DEF NearTm
<1> QED BY <1>1, <1>3, <1>9, <1>11, <1>12, <1>13 DEF IsLocal, DayOf

\* Hour h by season s is another day in season r, see OtherDay.
Crosses(h, s, r) == \/ h = 0  /\ s = 1 /\ r = 0
                    \/ h = 23 /\ s = 0 /\ r = 1

\* An hour shifted by the season stays on its day unless it crosses midnight.
LEMMA CrossesIs ==
  ASSUME NEW n \in Int, NEW g \in 0 .. 23, NEW D \in Int, NEW h \in 0 .. 23,
         NEW s \in 0 .. 1, NEW r \in 0 .. 1, 24 * n + g = 24 * D + h - s + r
  PROVE  n = D <=> ~ Crosses(h, s, r)
<1>1. CASE s = r
  <2>1. n = D
    BY <1>1
  <2> QED BY <2>1, <1>1 DEF Crosses
<1>2. CASE s = 1 /\ r = 0
  <2>1. n = D <=> h # 0
    BY <1>2
  <2> QED BY <2>1, <1>2 DEF Crosses
<1>3. CASE s = 0 /\ r = 1
  <2>1. n = D <=> h # 23
    BY <1>3
  <2> QED BY <2>1, <1>3 DEF Crosses
<1> QED BY <1>1, <1>2, <1>3

\* An hour of a day inside those years, counted by the season s, is on that day unless
\* it is the first or the last one and the season is the other.
LEMMA HourOfDay ==
  ASSUME NEW D \in Int, D > YearStart(FirstYear - 3), D < YearStart(LastYear + 4) - 1,
         NEW h \in 0 .. 23, NEW s \in 0 .. 1, NEW t, t = 24 * D + h - s
  PROVE  /\ t \in NearInstant /\ IsLocal(Localtime(t), t)
         /\ DayOf(Localtime(t)) = D <=> ~ Crosses(h, s, Dst(t))
<1>1. t \in Int /\ t \in NearInstant
  BY NearBounds DEF NearInstant
<1>2. IsLocal(Localtime(t), t)
  BY <1>1, LocaltimeIs
<1>3. PICK n \in Int, g \in 0 .. 23, r \in 0 .. 1 :
        n = DayOf(Localtime(t)) /\ g = Localtime(t).hour /\ r = Dst(t)
  BY <1>2, DstBit DEF IsLocal, NearTm
<1>4. 24 * n + g = 24 * D + h - s + r
  BY <1>2, <1>3 DEF IsLocal
<1>5. n = D <=> ~ Crosses(h, s, r)
  BY <1>4, CrossesIs
<1>6. DayOf(Localtime(t)) = D <=> ~ Crosses(h, s, Dst(t))
  BY <1>3, <1>5, Zenon
<1> QED BY <1>1, <1>2, <1>6

\* A local time of a day that has a date has that date.
LEMMA DateIs ==
  ASSUME NEW x, NEW t, IsLocal(x, t), NEW y, NEW m, NEW d, IsDate(y, m, d)
  PROVE  DateOf(x) = <<y, m, d>> <=> DayOf(x) = DayNumber(y, m, d)
<1>1. IsDate(x.year, x.mon, x.mday)
  BY DEF IsLocal
<1>2. ASSUME DayOf(x) = DayNumber(y, m, d) PROVE DateOf(x) = <<y, m, d>>
  <2>1. x.year = y /\ x.mon = m /\ x.mday = d
    BY <1>1, <1>2, OneDate DEF DayOf
  <2> QED BY <2>1 DEF DateOf
<1>3. ASSUME DateOf(x) = <<y, m, d>> PROVE DayOf(x) = DayNumber(y, m, d)
  <2>1. x.year = y /\ x.mon = m /\ x.mday = d
    BY <1>3 DEF DateOf
  <2> QED BY <2>1 DEF DayOf
<1> QED BY <1>2, <1>3

\* The months around those years, in their order.
LEMMA MonthStarts ==
  ASSUME NEW y \in Year, NEW m \in -36 .. 47
  PROVE  /\ y + m \div 12 \in NearYear /\ y + m \div 12 \in Int /\ m % 12 \in 0 .. 11
         /\ MonthStart(y, m) \in Int
         /\ MonthStart(y, m) = YearStart(y + m \div 12) + DaysBefore(y + m \div 12, m % 12)
<1>1. m \div 12 \in -3 .. 3 /\ m % 12 \in 0 .. 11 /\ y \in Int
  BY NearYears
<1>2. PICK z : z = y + m \div 12
  OBVIOUS
<1>3. z \in NearYear /\ z \in Int
  BY <1>1, <1>2, YearAssumption DEF NearYear, Year
<1>4. MonthStart(y, m) = YearStart(z) + DaysBefore(z, m % 12)
  BY <1>1, <1>2, <1>3, FirstDayIs DEF MonthStart
<1>5. YearStart(z) \in Int /\ DaysBefore(z, m % 12) \in Int
  BY <1>1, <1>3, YearStep, MonthInts
<1> QED BY <1>1, <1>2, <1>3, <1>4, <1>5

\* The month after a month starts after its days, across the ends of years.
LEMMA MonthAfter ==
  ASSUME NEW y \in Year, NEW k \in -36 .. 46
  PROVE  MonthStart(y, k + 1) = MonthStart(y, k) + MonthLength(y + k \div 12, k % 12)
<1>1. PICK q \in Int, n \in 0 .. 11 : q = k \div 12 /\ n = k % 12
  OBVIOUS
<1>2. k = 12 * q + n
  <2>1. k % 12 = k - 12 * (k \div 12)
    OBVIOUS
  <2> QED BY <2>1, <1>1
<1>3. PICK z : z = y + q
  OBVIOUS
<1>4. k \in -36 .. 47 /\ k + 1 \in -36 .. 47
  OBVIOUS
<1>5. z \in Int /\ MonthStart(y, k) = YearStart(z) + DaysBefore(z, n)
  BY <1>1, <1>3, <1>4, MonthStarts
<1>6. YearStart(z) \in Int /\ DaysBefore(z, n) \in Int /\ MonthLength(z, n) \in Int
  BY <1>5, YearStep, MonthInts
<1>7. CASE n < 11
  <2>1. (k + 1) \div 12 = q /\ (k + 1) % 12 = n + 1
    BY <1>2, <1>7
  <2>2. MonthStart(y, k + 1) = YearStart(z) + DaysBefore(z, n + 1)
    BY <1>3, <1>4, <2>1, MonthStarts
  <2>3. n \in 0 .. 10
    BY <1>7
  <2>4. DaysBefore(z, n + 1) = DaysBefore(z, n) + MonthLength(z, n)
    BY <1>5, <2>3, MonthStep
  <2> QED BY <2>2, <2>4, <1>1, <1>3, <1>5, <1>6
<1>8. CASE n = 11
  <2>1. (k + 1) \div 12 = q + 1 /\ (k + 1) % 12 = 0
    BY <1>2, <1>8
  <2>2. y \in Int /\ y + (q + 1) = z + 1
    BY <1>3, NearYears
  <2>3. MonthStart(y, k + 1) = YearStart(z + 1) + DaysBefore(z + 1, 0)
    BY <1>4, <2>1, <2>2, MonthStarts
  <2>4. DaysBefore(z + 1, 0) = 0
    BY <1>5, MonthStep
  <2>5. YearStart(z + 1) = YearStart(z) + YearLength(z) /\ YearLength(z) \in Int
    BY <1>5, YearStep
  <2>6. DaysBefore(z, n) + MonthLength(z, n) = YearLength(z)
    BY <1>5, <1>8, MonthStep
  <2> QED BY <2>3, <2>4, <2>5, <2>6, <1>1, <1>3, <1>5, <1>6
<1> QED BY <1>7, <1>8

\* A month two years before or after those years is well inside.
LEMMA NearMonths ==
  ASSUME NEW y \in Year, NEW m \in -24 .. 35
  PROVE  /\ MonthStart(y, m) \in Int
         /\ MonthStart(y, m) >= YearStart(FirstYear - 3) + 365
         /\ MonthStart(y, m) <= YearStart(LastYear + 4) - 365
<1>1. m \in -36 .. 47 /\ m \div 12 \in -2 .. 2
  OBVIOUS
<1>2. PICK z \in Int, n \in 0 .. 11 : z = y + m \div 12 /\ n = m % 12
  BY <1>1, MonthStarts
<1>3. MonthStart(y, m) = YearStart(z) + DaysBefore(z, n)
  BY <1>1, <1>2, MonthStarts
<1>4. PICK a \in Int, b \in Int : a = FirstYear - 3 /\ b = LastYear + 4
  BY YearAssumption
<1>5. a < z /\ z + 1 < b
  BY <1>1, <1>2, <1>4, YearAssumption DEF Year
<1>6. YearStart(z) >= YearStart(a) + YearLength(a)
  BY <1>5, YearsApart
<1>7. YearStart(b) >= YearStart(z + 1) + YearLength(z + 1)
  BY <1>5, YearsApart
<1>8. YearLength(a) >= 365 /\ YearLength(a) \in Int
  BY YearStep
<1>9. YearStart(z + 1) = YearStart(z) + YearLength(z) /\ YearLength(z) \in 365 .. 366
  BY YearStep
<1>10. YearLength(z + 1) \in 365 .. 366
  BY YearStep
<1>11. YearStart(a) \in Int /\ YearStart(z) \in Int /\ YearStart(b) \in Int
  BY YearStep
<1>12. DaysBefore(z, n) \in 0 .. 335
  BY MonthLengths
<1> QED BY <1>3, <1>4, <1>6, <1>7, <1>8, <1>9, <1>10, <1>11, <1>12

-----------------------------------------------------------------------------
(* The ends of months and years.                                           *)

TmInYears == [year : Year, mon : 0 .. 11, mday : 1 .. 31, hour : 0 .. 23, isdst : 0 .. 1]

\* Months past December carried into the year are the same months.
LEMMA CarryIs ==
  ASSUME NEW x \in [year : Year, mon : -24 .. 35, mday : 1 .. 31, hour : 0 .. 23, isdst : 0 .. 1]
  PROVE  /\ MonthStart(Carry(x).year, Carry(x).mon) = MonthStart(x.year, x.mon)
         /\ Carry(x).mday = x.mday /\ Carry(x).hour = x.hour /\ Carry(x).isdst = x.isdst
<1>1. CASE x.mon > 11
  <2>1. Carry(x) = [x EXCEPT !.mon = @ % 12, !.year = @ + x.mon \div 12]
    BY <1>1 DEF Carry
  <2>2. /\ Carry(x).mon = x.mon % 12 /\ Carry(x).year = x.year + x.mon \div 12
        /\ Carry(x).mday = x.mday /\ Carry(x).hour = x.hour /\ Carry(x).isdst = x.isdst
    BY <2>1
  <2>3. x.mon \in -24 .. 35 /\ x.year \in Int
    BY NearYears
  <2>4. PICK n \in 0 .. 11, z \in Int : n = x.mon % 12 /\ z = x.year + x.mon \div 12
    BY <2>3
  <2>5. n \div 12 = 0 /\ n % 12 = n /\ z + 0 = z
    OBVIOUS
  <2>6. MonthStart(z, n) = MonthStart(x.year, x.mon)
    BY <2>4, <2>5 DEF MonthStart
  <2> QED BY <2>2, <2>4, <2>6
<1>2. CASE ~ (x.mon > 11)
  BY <1>2 DEF Carry
<1> QED BY <1>1, <1>2

\* last_day_at_this_month counts days back from the first of a month, at the same hour.
LEMMA MonthEndIs ==
  ASSUME NEW x \in TmInYears, NEW off \in 1 .. 31, NEW delta \in -24 .. 24
  PROVE  /\ x.mon + delta \in -24 .. 35
         /\ LastDayAtThisMonth(x, off, delta)
              = 24 * (MonthStart(x.year, x.mon + delta) - off) + x.hour - x.isdst
<1> DEFINE a == [FirstOf(x) EXCEPT !.mon = @ + delta]
<1>1. /\ x.year \in Year /\ x.mon \in 0 .. 11 /\ x.hour \in 0 .. 23 /\ x.isdst \in 0 .. 1
      /\ x.hour \in Int /\ x.isdst \in Int
  BY DEF TmInYears
<1>2. x.mon + delta \in -24 .. 35
  BY <1>1
<1>3. FirstOf(x) = [year |-> x.year, mon |-> x.mon, mday |-> 1, hour |-> x.hour, isdst |-> x.isdst]
  BY DEF FirstOf, TmInYears
<1>4. a = [year |-> x.year, mon |-> x.mon + delta, mday |-> 1, hour |-> x.hour, isdst |-> x.isdst]
  BY <1>3
<1>5. a \in [year : Year, mon : -24 .. 35, mday : 1 .. 31, hour : 0 .. 23, isdst : 0 .. 1]
  BY <1>1, <1>2, <1>4
<1>6. /\ a.year = x.year /\ a.mon = x.mon + delta /\ a.mday = 1
      /\ a.hour = x.hour /\ a.isdst = x.isdst
  BY <1>4
<1>7. LastDayAtThisMonth(x, off, delta) = Mktime(Carry(a)) - 24 * off
  BY DEF LastDayAtThisMonth
<1> HIDE DEF a
<1>8. /\ MonthStart(Carry(a).year, Carry(a).mon) = MonthStart(x.year, x.mon + delta)
      /\ Carry(a).mday = 1 /\ Carry(a).hour = x.hour /\ Carry(a).isdst = x.isdst
  BY <1>5, <1>6, CarryIs
<1>9. PICK n \in Int : n = MonthStart(x.year, x.mon + delta)
  BY <1>1, <1>2, NearMonths
<1>10. Mktime(Carry(a)) = 24 * (n + 1 - 1) + x.hour - x.isdst
  BY <1>8, <1>9 DEF Mktime
<1>11. 24 * (n + 1 - 1) + x.hour - x.isdst - 24 * off = 24 * (n - off) + x.hour - x.isdst
  BY <1>1
<1>12. LastDayAtThisMonth(x, off, delta) = 24 * (n - off) + x.hour - x.isdst
  <2>1. PICK c : c = Mktime(Carry(a))
    OBVIOUS
  <2>2. LastDayAtThisMonth(x, off, delta) = c - 24 * off
    BY <1>7, <2>1
  <2> QED BY <1>1, <1>10, <2>1, <2>2
<1> QED BY <1>2, <1>9, <1>12

\* The day before a month that DayBefore counts is that date.
LEMMA DayBeforeIs ==
  ASSUME NEW y \in Year, NEW m \in -24 .. 35, NEW off \in 1 .. 31
  PROVE  \E z, n, d : /\ DayBefore(y, m, off) = <<z, n, d>> /\ IsDate(z, n, d)
                      /\ DayNumber(z, n, d) = MonthStart(y, m) - off
<1> DEFINE year(k) == y + (m - k) \div 12
           mon(k)  == (m - k) % 12
           long(k) == MonthLength(year(k), mon(k))
<1>1. ASSUME NEW k \in 1 .. 2
      PROVE  /\ year(k) \in NearYear /\ mon(k) \in 0 .. 11 /\ long(k) \in 28 .. 31
             /\ MonthStart(y, m - k) = FirstDay[year(k)][mon(k)] /\ MonthStart(y, m - k) \in Int
             /\ MonthStart(y, m - k + 1) = MonthStart(y, m - k) + long(k)
  <2>1. PICK j \in -36 .. 46 : j = m - k
    OBVIOUS
  <2>2. j \in -36 .. 47
    OBVIOUS
  <2>3. y + j \div 12 \in NearYear /\ y + j \div 12 \in Int /\ j % 12 \in 0 .. 11
        /\ MonthStart(y, j) \in Int
    BY <2>2, MonthStarts
  <2>4. MonthStart(y, j) = FirstDay[y + j \div 12][j % 12]
    BY DEF MonthStart
  <2>5. MonthStart(y, j + 1) = MonthStart(y, j) + MonthLength(y + j \div 12, j % 12)
    BY MonthAfter
  <2>6. MonthLength(y + j \div 12, j % 12) \in 28 .. 31
    BY <2>3, MonthLengths
  <2> QED BY <2>1, <2>3, <2>4, <2>5, <2>6
<1>2. PICK l1 \in 28 .. 31, l2 \in 28 .. 31, a1 \in Int, a2 \in Int, b \in Int :
        /\ l1 = long(1) /\ l2 = long(2) /\ b = MonthStart(y, m)
        /\ a1 = FirstDay[year(1)][mon(1)] /\ a2 = FirstDay[year(2)][mon(2)]
        /\ b = a1 + l1 /\ a1 = a2 + l2
  <2>1. m - 1 + 1 = m /\ m - 2 + 1 = m - 1
    OBVIOUS
  <2>2. /\ long(1) \in 28 .. 31 /\ MonthStart(y, m - 1) = FirstDay[year(1)][mon(1)]
        /\ MonthStart(y, m - 1) \in Int /\ MonthStart(y, m) = MonthStart(y, m - 1) + long(1)
    BY <1>1, <2>1
  <2>3. /\ long(2) \in 28 .. 31 /\ MonthStart(y, m - 2) = FirstDay[year(2)][mon(2)]
        /\ MonthStart(y, m - 2) \in Int /\ MonthStart(y, m - 1) = MonthStart(y, m - 2) + long(2)
    BY <1>1, <2>1
  <2> HIDE DEF year, mon, long
  <2>4. MonthStart(y, m) \in Int
    BY <2>2
  <2> QED BY <2>2, <2>3, <2>4
<1>3. DayBefore(y, m, off) = IF off <= long(1)
                              THEN <<year(1), mon(1), long(1) + 1 - off>>
                              ELSE <<year(2), mon(2), long(1) + long(2) + 1 - off>>
  BY DEF DayBefore
<1>5. /\ year(1) \in NearYear /\ mon(1) \in 0 .. 11
      /\ year(2) \in NearYear /\ mon(2) \in 0 .. 11
  BY <1>1
<1> HIDE DEF year, mon, long
<1>6. CASE off <= l1
  <2>1. DayBefore(y, m, off) = <<year(1), mon(1), l1 + 1 - off>>
    BY <1>2, <1>3, <1>6
  <2>2. l1 + 1 - off \in 1 .. l1
    BY <1>6
  <2>3. IsDate(year(1), mon(1), l1 + 1 - off)
    BY <1>2, <1>5, <2>2 DEF IsDate, long
  <2>4. DayNumber(year(1), mon(1), l1 + 1 - off) = MonthStart(y, m) - off
    BY <1>2 DEF DayNumber
  <2> QED BY <2>1, <2>3, <2>4
<1>7. CASE ~ (off <= l1)
  <2>1. DayBefore(y, m, off) = <<year(2), mon(2), l1 + l2 + 1 - off>>
    BY <1>2, <1>3, <1>7
  <2>2. l1 + l2 + 1 - off \in 1 .. l2
    BY <1>7
  <2>3. IsDate(year(2), mon(2), l1 + l2 + 1 - off)
    BY <1>2, <1>5, <2>2 DEF IsDate, long
  <2>4. DayNumber(year(2), mon(2), l1 + l2 + 1 - off) = MonthStart(y, m) - off
    BY <1>2 DEF DayNumber
  <2> QED BY <2>1, <2>3, <2>4
<1> QED BY <1>6, <1>7

\* What the type invariant says of tm.
LEMMA TypeIs ==
  ASSUME CalendarTypeOK
  PROVE  /\ tm \in TmInYears /\ tm.year \in Year /\ tm.mon \in 0 .. 11 /\ tm.mday \in 1 .. 31
         /\ tm.hour \in 0 .. 23 /\ tm.isdst \in 0 .. 1
BY DEF CalendarTypeOK, TmInYears

\* OtherDay is Crosses.
LEMMA OtherDayIs ==
  ASSUME NEW x, NEW t
  PROVE  OtherDay(x, t) <=> Crosses(x.hour, x.isdst, Dst(t))
BY DEF OtherDay, Crosses

\* last_day_at_this_month finds the day it is to find.
LEMMA MonthEndFinds ==
  ASSUME CalendarTypeOK, NEW off \in Offset \cap 1 .. 31, NEW delta \in Delta, NEW t,
         t = LastDayAtThisMonth(tm, off, delta)
  PROVE  /\ t \in NearInstant
         /\ DateOf(Localtime(t)) = DayBefore(tm.year, tm.mon + delta, off) <=> ~ OtherDay(tm, t)
<1>1. delta \in -24 .. 24 /\ off \in 1 .. 31
  BY DeltaAssumption
<1>2. PICK y \in Year, h \in 0 .. 23, s \in 0 .. 1 : y = tm.year /\ h = tm.hour /\ s = tm.isdst
  BY TypeIs
<1>3. PICK m \in -24 .. 35 : m = tm.mon + delta
  BY <1>1, TypeIs, MonthEndIs
<1>4. PICK b \in Int : /\ b = MonthStart(y, m) /\ b >= YearStart(FirstYear - 3) + 365
                       /\ b <= YearStart(LastYear + 4) - 365
  BY NearMonths
<1>5. t = 24 * (b - off) + h - s
  BY <1>1, <1>2, <1>3, <1>4, TypeIs, MonthEndIs
<1>6. b - off \in Int /\ b - off > YearStart(FirstYear - 3) /\ b - off < YearStart(LastYear + 4) - 1
  BY <1>1, <1>4, NearBounds
<1>7. PICK D \in Int : D = b - off
  BY <1>6
<1>8. /\ t \in NearInstant /\ IsLocal(Localtime(t), t)
      /\ DayOf(Localtime(t)) = D <=> ~ Crosses(h, s, Dst(t))
  BY <1>5, <1>6, <1>7, HourOfDay
<1>9. PICK z, n, d : /\ DayBefore(y, m, off) = <<z, n, d>> /\ IsDate(z, n, d)
                     /\ DayNumber(z, n, d) = D
  <2>1. MonthStart(y, m) - off = D
    BY <1>4, <1>7
  <2>2. \E z, n, d : /\ DayBefore(y, m, off) = <<z, n, d>> /\ IsDate(z, n, d)
                     /\ DayNumber(z, n, d) = MonthStart(y, m) - off
    BY <1>1, DayBeforeIs
  <2> QED BY <2>1, <2>2
<1>10. DateOf(Localtime(t)) = <<z, n, d>> <=> DayOf(Localtime(t)) = D
  BY <1>8, <1>9, DateIs
<1>11. OtherDay(tm, t) <=> Crosses(h, s, Dst(t))
  BY <1>2, OtherDayIs
<1>12. DateOf(Localtime(t)) = DayBefore(y, m, off) <=> ~ OtherDay(tm, t)
  BY <1>8, <1>9, <1>10, <1>11, Zenon
<1> QED BY <1>2, <1>3, <1>8, <1>12

\* So last_day_at_this_month is right for every tm.
LEMMA MonthEndHolds == ASSUME CalendarTypeOK PROVE MonthEndIsFound
BY MonthEndFinds, Zenon DEF MonthEndIsFound

\* January starts when its year does.
LEMMA JanuaryIs ==
  ASSUME NEW y \in NearYear
  PROVE  MonthStart(y, 0) = YearStart(y) /\ YearStart(y) \in Int
<1>1. y \in Int /\ YearStart(y) \in Int
  BY NearYears, YearStep
<1>2. MonthStart(y, 0) = FirstDay[y][0]
  BY MonthStartIs
<1>3. FirstDay[y][0] = YearStart(y) + DaysBefore(y, 0)
  BY FirstDayIs
<1>4. DaysBefore(y, 0) = 0
  BY <1>1, MonthStep
<1> QED BY <1>1, <1>2, <1>3, <1>4

\* last_day_at_this_year counts days back from the next year, at the same hour.
LEMMA YearEndIs ==
  ASSUME NEW x \in TmInYears, NEW off \in 1 .. 366
  PROVE  LastDayAtThisYear(x, off) = 24 * (YearStart(x.year + 1) - off) + x.hour - x.isdst
<1>1. x.year \in Year /\ x.hour \in Int /\ x.isdst \in Int
  BY DEF TmInYears
<1>2. x.year + 1 \in NearYear
  BY <1>1, YearAssumption DEF Year, NearYear
<1>3. /\ NextYear(x).year = x.year + 1 /\ NextYear(x).mon = 0 /\ NextYear(x).mday = 1
      /\ NextYear(x).hour = x.hour /\ NextYear(x).isdst = x.isdst
  BY DEF NextYear, TmInYears
<1>4. PICK n \in Int : n = YearStart(x.year + 1) /\ n = MonthStart(x.year + 1, 0)
  BY <1>2, JanuaryIs
<1>5. Mktime(NextYear(x)) = 24 * (n + 1 - 1) + x.hour - x.isdst
  BY <1>3, <1>4 DEF Mktime
<1>6. PICK c : c = Mktime(NextYear(x))
  OBVIOUS
<1>7. LastDayAtThisYear(x, off) = c - 24 * off
  BY <1>6 DEF LastDayAtThisYear
<1>8. c - 24 * off = 24 * (n - off) + x.hour - x.isdst
  BY <1>1, <1>5, <1>6
<1> QED BY <1>4, <1>7, <1>8

\* The days of a year are in no other.
LEMMA DayInYear ==
  ASSUME NEW y \in Int, NEW m, NEW d, NEW z \in Int, IsDate(z, m, d),
         DayNumber(z, m, d) \in YearStart(y) .. YearStart(y) + YearLength(y) - 1
  PROVE  z = y
<1>1. DayNumber(z, m, d) \in YearStart(z) .. YearStart(z) + YearLength(z) - 1
  BY DateInYear
<1>2. YearStart(y) \in Int /\ YearLength(y) \in Int /\ YearStart(z) \in Int /\ YearLength(z) \in Int
  BY YearStep
<1>3. PICK n \in Int : n = DayNumber(z, m, d)
  BY <1>1, <1>2
<1>4. ~ (y < z)
  BY <1>1, <1>2, <1>3, YearsApart
<1>5. ~ (z < y)
  BY <1>1, <1>2, <1>3, YearsApart
<1> QED BY <1>4, <1>5

\* last_day_at_this_year finds the day it is to find.
YearEndFinds(x, y, off) ==
  LET days == IF IsLeap(y) THEN 366 ELSE 365 IN
  IF off <= days
    THEN x.year = y /\ MonthStart(x.year, x.mon) + x.mday - 1 + off = MonthStart(y, 0) + days
    ELSE DateOf(x) = <<y - 1, 11, 31>>

\* It finds that day if and only if localtime is on the day it has counted to.
LEMMA YearEndFindsDay ==
  ASSUME NEW y \in Year, NEW off \in 1 .. 366, NEW x, NEW t, IsLocal(x, t)
  PROVE  YearEndFinds(x, y, off) <=> DayOf(x) = YearStart(y + 1) - off
<1>1. y \in Int /\ y \in NearYear /\ y - 1 \in NearYear
  BY NearYears, YearAssumption DEF Year, NearYear
<1>2. PICK b \in Int, days \in 365 .. 366 :
        /\ b = YearStart(y) /\ b = MonthStart(y, 0) /\ days = YearLength(y)
        /\ YearStart(y + 1) = b + days
  BY <1>1, YearStep, JanuaryIs
<1>3. PICK n \in Int : n = DayOf(x)
  BY DEF IsLocal
<1>4. CASE off <= days
  <2>1. YearEndFinds(x, y, off)
          <=> x.year = y /\ MonthStart(x.year, x.mon) + x.mday - 1 + off = b + days
    BY <1>2, <1>4 DEF YearEndFinds, YearLength
  <2>2. x.year \in NearYear /\ x.mon \in 0 .. 11 /\ IsDate(x.year, x.mon, x.mday)
    BY DEF IsLocal, NearTm
  <2>3. MonthStart(x.year, x.mon) + x.mday - 1 = n
    BY <1>3, <2>2, MonthStartIs DEF DayOf, DayNumber
  <2>4. YearEndFinds(x, y, off) <=> x.year = y /\ n + off = b + days
    BY <2>1, <2>3
  <2>5. ASSUME n = b + days - off PROVE x.year = y
    <3>1. n \in b .. b + days - 1
      BY <1>4, <2>5
    <3>2. x.year \in Int
      BY <2>2, NearYears
    <3> QED BY <1>1, <1>2, <1>3, <2>2, <3>1, <3>2, DayInYear DEF DayOf
  <2>6. n + off = b + days <=> n = b + days - off
    OBVIOUS
  <2>7. n = YearStart(y + 1) - off <=> n = b + days - off
    BY <1>2
  <2> QED BY <1>3, <2>4, <2>5, <2>6, <2>7, Zenon
<1>5. CASE ~ (off <= days)
  <2>1. off = 366 /\ days = 365
    BY <1>5
  <2>2. YearEndFinds(x, y, off) <=> DateOf(x) = <<y - 1, 11, 31>>
    BY <1>2, <1>5 DEF YearEndFinds, YearLength
  <2>3. PICK z \in NearYear : z = y - 1
    BY <1>1
  <2>4. z \in Int /\ z + 1 = y
    BY <1>1, <2>3
  <2>5. MonthLength(z, 11) = 31
    BY DEF MonthLength
  <2>6. IsDate(z, 11, 31)
    BY <2>5 DEF IsDate
  <2>7. FirstDay[z][11] = YearStart(z) + DaysBefore(z, 11)
    BY <2>6, DateInYear
  <2>8. DaysBefore(z, 11) + 31 = YearLength(z)
    BY <2>4, <2>5, MonthStep
  <2>9. YearStart(z) \in Int /\ b = YearStart(z) + YearLength(z)
    BY <1>2, <2>4, YearStep
  <2>10. 11 \in 0 .. 11
    OBVIOUS
  <2>11. DaysBefore(z, 11) \in Int
    BY <2>4, <2>10, MonthInts
  <2>12. DayNumber(z, 11, 31) = b - 1
    BY <2>7, <2>8, <2>9, <2>11 DEF DayNumber
  <2>13. YearStart(y + 1) - off = b - 1
    BY <1>2, <2>1
  <2>14. DateOf(x) = <<z, 11, 31>> <=> DayOf(x) = b - 1
    BY <2>6, <2>12, DateIs
  <2> QED BY <2>2, <2>3, <2>13, <2>14
<1> QED BY <1>4, <1>5

\* And localtime is, unless the season crosses midnight.
LEMMA YearEndHour ==
  ASSUME CalendarTypeOK, NEW off \in 1 .. 366, NEW t, t = LastDayAtThisYear(tm, off)
  PROVE  t \in NearInstant /\ (YearEndFinds(Localtime(t), tm.year, off) <=> ~ OtherDay(tm, t))
<1>1. PICK y \in Year, h \in 0 .. 23, s \in 0 .. 1 : y = tm.year /\ h = tm.hour /\ s = tm.isdst
  BY TypeIs
<1>2. 12 \in -24 .. 35 /\ 12 \in -36 .. 47 /\ 12 \div 12 = 1 /\ 12 % 12 = 0
  OBVIOUS
<1>3. y + 1 \in NearYear
  BY YearAssumption DEF Year, NearYear
<1>4. MonthStart(y, 12) = YearStart(y + 1)
  <2>1. MonthStart(y, 12) = FirstDay[y + 1][0]
    BY <1>2 DEF MonthStart
  <2>2. FirstDay[y + 1][0] = MonthStart(y + 1, 0)
    BY <1>3, MonthStartIs
  <2> QED BY <1>3, <2>1, <2>2, JanuaryIs
<1>5. PICK b \in Int : /\ b = YearStart(y + 1) /\ b <= YearStart(LastYear + 4) - 365
  BY <1>2, <1>4, NearMonths
<1>6. PICK c \in Int : c = YearStart(y) /\ c >= YearStart(FirstYear - 3) + 365
  <2>1. 0 \in -24 .. 35 /\ y \in NearYear
    BY NearYears
  <2> QED BY <2>1, NearMonths, JanuaryIs
<1>7. b - c \in 365 .. 366
  <2>1. y \in Int
    BY NearYears
  <2> QED BY <2>1, <1>5, <1>6, YearStep
<1>8. PICK D \in Int : D = b - off
  OBVIOUS
<1>9. D > YearStart(FirstYear - 3) /\ D < YearStart(LastYear + 4) - 1
  BY <1>5, <1>6, <1>7, <1>8, NearBounds
<1>10. t = 24 * D + h - s
  BY <1>1, <1>5, <1>8, TypeIs, YearEndIs
<1>11. /\ t \in NearInstant /\ IsLocal(Localtime(t), t)
       /\ DayOf(Localtime(t)) = D <=> ~ Crosses(h, s, Dst(t))
  BY <1>9, <1>10, HourOfDay
<1>12. YearEndFinds(Localtime(t), y, off) <=> DayOf(Localtime(t)) = D
  BY <1>5, <1>8, <1>11, YearEndFindsDay
<1>13. OtherDay(tm, t) <=> Crosses(h, s, Dst(t))
  BY <1>1, OtherDayIs
<1> QED BY <1>1, <1>11, <1>12, <1>13, Zenon

\* So last_day_at_this_year is right for every tm.
LEMMA YearEndHolds == ASSUME CalendarTypeOK PROVE YearEndIsRight
<1> SUFFICES ASSUME NEW off \in Offset \cap 1 .. 366
             PROVE  YearEndFinds(Localtime(LastDayAtThisYear(tm, off)), tm.year, off)
                      <=> ~ OtherDay(tm, LastDayAtThisYear(tm, off))
  BY Zenon DEF YearEndIsRight, YearEndFinds
<1> QED BY YearEndHour, Zenon

-----------------------------------------------------------------------------
(* The clock.                                                              *)

\* A day from the first year to the last is in one of them.
LEMMA DayInYears ==
  ASSUME NEW z \in Int, NEW n \in YearStart(z) .. YearStart(z) + YearLength(z) - 1,
         n >= 0, n < YearStart(LastYear + 1)
  PROVE  z \in Year
<1>1. FirstYear \in Int /\ LastYear + 1 \in Int /\ LastYear \in Int
  BY YearAssumption
<1>2. YearStart(FirstYear) = 0
  BY <1>1, LeapsStep DEF YearStart
<1>3. YearStart(z) \in Int /\ YearLength(z) \in Int
  BY YearStep
<1>4. ~ (z < FirstYear)
  <2>1. z < FirstYear => YearStart(FirstYear) >= YearStart(z) + YearLength(z)
    BY <1>1, YearsApart
  <2> QED BY <1>2, <1>3, <2>1
<1>5. ~ (LastYear + 1 <= z)
  <2>1. LastYear + 1 < z => YearStart(z) >= YearStart(LastYear + 1) + YearLength(LastYear + 1)
    BY <1>1, YearsApart
  <2>2. YearStart(LastYear + 1) \in Int /\ YearLength(LastYear + 1) \in 365 .. 366
    BY <1>1, YearStep
  <2>3. ~ (LastYear + 1 < z)
    BY <1>3, <2>1, <2>2
  <2>4. LastYear + 1 # z
    BY <1>3
  <2> QED BY <1>1, <2>3, <2>4
<1> QED BY <1>1, <1>4, <1>5 DEF Year

\* localtime of an instant of the clock is in the years of tm: summer time ends before
\* its year does.
LEMMA InstantIs ==
  ASSUME NEW t \in Instant
  PROVE  t \in NearInstant /\ IsLocal(Localtime(t), t) /\ Localtime(t) \in TmInYears
<1>1. FirstYear \in Int /\ LastYear \in Int /\ LastYear + 1 \in NearYear
      /\ FirstYear - 3 \in Int /\ LastYear + 1 \in Int /\ LastYear + 4 \in Int
  BY YearAssumption DEF NearYear
<1>2. PICK e \in Int : e = YearStart(LastYear + 1) /\ e = FirstDay[LastYear + 1][0]
  BY <1>1, JanuaryIs, MonthStartIs
<1>3. t \in 0 .. 24 * e - 1 /\ t \in Int
  BY <1>2, InstantAssumption
<1>4. YearStart(FirstYear) = 0
  BY <1>1, LeapsStep DEF YearStart
<1>5. YearStart(FirstYear - 3) <= 0 - 365
  <2>1. YearStart(FirstYear) >= YearStart(FirstYear - 3) + YearLength(FirstYear - 3)
    BY <1>1, YearsApart
  <2> QED BY <1>1, <1>4, <2>1, YearStep
<1>6. YearStart(LastYear + 4) >= e + 365
  <2>1. YearStart(LastYear + 4) >= YearStart(LastYear + 1) + YearLength(LastYear + 1)
    BY <1>1, YearsApart
  <2> QED BY <1>1, <1>2, <2>1, YearStep
<1>7. PICK lo \in Int, hi \in Int : lo = YearStart(FirstYear - 3) /\ hi = YearStart(LastYear + 4)
  BY NearBounds
<1>8. t \in NearInstant /\ t \div 24 \in NearDay
  BY <1>3, <1>5, <1>6, <1>7 DEF NearInstant, NearDay
<1>9. IsLocal(Localtime(t), t)
  BY <1>8, LocaltimeIs
<1>10. PICK y \in Int, q \in Int : /\ q = t \div 24 /\ y = YearOf(q)
                                 /\ y \in NearYear
                                 /\ q \in YearStart(y) .. YearStart(y) + YearLength(y) - 1
  <2>1. PICK q : q = t \div 24
    OBVIOUS
  <2>2. q \in Int /\ q \in NearDay
    BY <1>3, <1>8, <2>1
  <2>3. YearOf(q) \in NearYear
        /\ q \in YearStart(YearOf(q)) .. YearStart(YearOf(q)) + YearLength(YearOf(q)) - 1
    BY <2>2, YearOfIs
  <2>4. YearOf(q) \in Int
    BY <2>3, NearYears
  <2> QED BY <2>1, <2>2, <2>3, <2>4
<1>11. q >= 0 /\ q < e
  BY <1>3, <1>10
<1>12. y \in Year
  BY <1>2, <1>10, <1>11, DayInYears
<1>13. PICK z \in Int, n \in Int, g \in 0 .. 23 :
         /\ z = Localtime(t).year /\ n = DayOf(Localtime(t)) /\ g = Localtime(t).hour
         /\ 24 * n + g = t + Dst(t)
         /\ n \in YearStart(z) .. YearStart(z) + YearLength(z) - 1
  <2> DEFINE x == Localtime(t)
  <2>1. /\ x.year \in Int /\ x.hour \in 0 .. 23 /\ DayOf(x) \in Int
        /\ 24 * DayOf(x) + x.hour = t + Dst(t)
    BY <1>9, NearYears DEF IsLocal, NearTm
  <2>2. DayOf(x) \in YearStart(x.year) .. YearStart(x.year) + YearLength(x.year) - 1
    BY <1>9, DateInYear DEF IsLocal, DayOf
  <2> HIDE DEF x
  <2>3. \E z \in Int, n \in Int, g \in 0 .. 23 :
         /\ z = x.year /\ n = DayOf(x) /\ g = x.hour
         /\ 24 * n + g = t + Dst(t)
         /\ n \in YearStart(z) .. YearStart(z) + YearLength(z) - 1
    BY <2>1, <2>2
  <2> QED BY <2>3 DEF x
<1>14. n >= 0 /\ n < e
  <2>1. CASE Dst(t) = 0
    BY <1>3, <1>13, <2>1
  <2>2. CASE Dst(t) = 1
    <3>1. t \in 24 * MonthStart(y, 3) + 2 .. 24 * MonthStart(y, 10)
      BY <1>10, <2>2 DEF Dst
    <3>2. 10 \in 0 .. 11 /\ 3 \in 0 .. 11 /\ 10 \in 0 .. 10
      OBVIOUS
    <3>3. PICK f \in Int : f = MonthStart(y, 10) /\ f < YearStart(y) + YearLength(y)
      <4>1. MonthStart(y, 10) = YearStart(y) + DaysBefore(y, 10)
        BY <1>10, <3>2, MonthStartIs, FirstDayIs
      <4>2. DaysBefore(y, 10) \in 0 .. 335
        BY <3>2, MonthLengths
      <4>3. YearStart(y) \in Int /\ YearLength(y) \in 365 .. 366
        BY YearStep
      <4> QED BY <4>1, <4>2, <4>3
    <3>4. PICK a \in Int : a = MonthStart(y, 3)
      <4>1. MonthStart(y, 3) = YearStart(y) + DaysBefore(y, 3)
        BY <1>10, <3>2, MonthStartIs, FirstDayIs
      <4>2. YearStart(y) \in Int /\ DaysBefore(y, 3) \in Int
        BY <3>2, MonthInts, YearStep
      <4> QED BY <4>1, <4>2
    <3>5. t <= 24 * f
      BY <1>3, <3>1, <3>3, <3>4
    <3>6. n <= f /\ n >= 0
      BY <1>3, <1>13, <2>2, <3>5
    <3>7. YearStart(y) + YearLength(y) <= e
      <4>1. y < LastYear + 1
        BY <1>1, <1>12 DEF Year
      <4> QED BY <1>1, <1>2, <4>1, YearsApart
    <3>8. YearStart(y) + YearLength(y) \in Int
      BY YearStep
    <3> QED BY <3>3, <3>6, <3>7, <3>8
  <2> QED BY <2>1, <2>2, DstBit
<1>15. z \in Year
  BY <1>2, <1>13, <1>14, DayInYears
<1>16. Localtime(t) \in TmInYears
  BY <1>9, <1>13, <1>15 DEF IsLocal, NearTm, TmInYears
<1> QED BY <1>8, <1>9, <1>16

\* Two local times of one hour of the day compare by day and season.
LEMMA ComparesDates ==
  ASSUME NEW t \in Instant, NEW u \in Instant
  PROVE  CompareDatePart(t, u) <=> ~ /\ DateOf(Localtime(t)) = DateOf(Localtime(u))
                                     /\ Dst(t) = Dst(u)
<1> DEFINE x == Localtime(t)
           y == Localtime(u)
           z == [x EXCEPT !.hour = y.hour]
<1>1. IsLocal(x, t) /\ IsLocal(y, u)
  BY InstantIs
<1>2. CompareDatePart(t, u) <=> (IF Mktime(z) = Mktime(y) THEN 0
                                 ELSE IF Mktime(z) < Mktime(y) THEN -1 ELSE 1) # 0
  BY DEF CompareDatePart, ToBool
<1>3. CompareDatePart(t, u) <=> Mktime(z) # Mktime(y)
  BY <1>2
<1> HIDE DEF x, y
<1>4. /\ x.year \in NearYear /\ x.mon \in 0 .. 11 /\ x.isdst = Dst(t) /\ DayOf(x) \in Int
      /\ y.year \in NearYear /\ y.mon \in 0 .. 11 /\ y.isdst = Dst(u) /\ DayOf(y) \in Int
      /\ y.hour \in 0 .. 23
  BY <1>1 DEF IsLocal, NearTm
<1>5. /\ z.year = x.year /\ z.mon = x.mon /\ z.mday = x.mday /\ z.hour = y.hour
      /\ z.isdst = x.isdst
  BY <1>1 DEF IsLocal, NearTm
<1> HIDE DEF z
<1>6. MonthStart(x.year, x.mon) = FirstDay[x.year][x.mon]
      /\ MonthStart(y.year, y.mon) = FirstDay[y.year][y.mon]
  BY <1>4, MonthStartIs
<1>7. PICK n \in Int, k \in Int, h \in 0 .. 23, a \in 0 .. 1, b \in 0 .. 1 :
        n = DayOf(x) /\ k = DayOf(y) /\ h = y.hour /\ a = Dst(t) /\ b = Dst(u)
  BY <1>4, DstBit
<1>8. Mktime(z) = 24 * n + h - a
  BY <1>4, <1>5, <1>6, <1>7 DEF Mktime, DayOf, DayNumber
<1>9. Mktime(y) = 24 * k + h - b
  BY <1>4, <1>6, <1>7 DEF Mktime, DayOf, DayNumber
<1>10. Mktime(z) = Mktime(y) <=> n = k /\ a = b
  <2>1. 24 * n + h - a = 24 * k + h - b <=> n = k /\ a = b
    OBVIOUS
  <2> QED BY <1>8, <1>9, <2>1, Zenon
<1>11. DateOf(x) = DateOf(y) <=> n = k
  <2>1. IsDate(y.year, y.mon, y.mday)
    BY <1>1 DEF IsLocal
  <2>2. DateOf(x) = <<y.year, y.mon, y.mday>> <=> DayOf(x) = DayNumber(y.year, y.mon, y.mday)
    BY <1>1, <2>1, DateIs
  <2> QED BY <1>7, <2>2 DEF DateOf, DayOf
<1>12. CompareDatePart(t, u) <=> ~ (DateOf(x) = DateOf(y) /\ Dst(t) = Dst(u))
  BY <1>3, <1>7, <1>10, <1>11, Zenon
<1> QED BY <1>12 DEF x, y

\* So compare_date_part is right for every instant and every now.
LEMMA SameDateHolds == ASSUME CalendarTypeOK PROVE SameDate
<1>1. now \in Instant
  BY DEF CalendarTypeOK
<1> QED BY <1>1, ComparesDates, Zenon DEF SameDate

-----------------------------------------------------------------------------
(* Parsing.                                                                *)

\* The formats that try_parse_by tries.
Tried(formats) == <<DashesTime>> \o formats

\* f is the place of the first of them that fits, or the one after the last.
FirstFit(f, formats, text) ==
  LET n == Len(Tried(formats)) IN
  /\ f \in 1 .. n + 1
  /\ \A i \in 1 .. f - 1 : ~ Accepts(Tried(formats)[i], text)
  /\ f <= n => Accepts(Tried(formats)[f], text)

\* There is such a place.
LEMMA FitExists ==
  ASSUME NEW text, NEW formats, Len(Tried(formats)) \in Nat
  PROVE  \E f : FirstFit(f, formats, text)
<1> DEFINE n == Len(Tried(formats))
           fits == {i \in 1 .. n + 1 : i <= n => Accepts(Tried(formats)[i], text)}
<1> HIDE DEF n
<1>1. n \in Nat
  BY DEF n
<1>2. n + 1 \in fits /\ fits \in SUBSET Nat
  BY <1>1
<1>3. PICK f \in fits : \A i \in fits : f <= i
  <2>1. fits # {}
    BY <1>2
  <2> HIDE DEF fits
  <2> QED BY <1>2, <2>1, LeastNumber
<1>4. ASSUME NEW i \in 1 .. f - 1 PROVE ~ Accepts(Tried(formats)[i], text)
  <2>1. i \in 1 .. n + 1 /\ i <= n /\ ~ (f <= i)
    BY <1>1
  <2>2. i \notin fits
    BY <1>3, <2>1
  <2> QED BY <2>1, <2>2
<1>5. f \in 1 .. n + 1 /\ (f <= n => Accepts(Tried(formats)[f], text))
  OBVIOUS
<1> QED BY <1>4, <1>5 DEF FirstFit, n

\* What try_parse_by has after j of the formats, if the first that fits is at f.
AfterFit(x, text, formats, f, j) ==
  IF j < f THEN [ok |-> FALSE, tm |-> x]
  ELSE [ok |-> TRUE, tm |-> Read(x, Tried(formats)[f], text)]

\* That is what a step of the loop makes of what it had.
LEMMA FitStep ==
  ASSUME NEW x, NEW text, NEW formats, Len(Tried(formats)) \in Nat,
         NEW f, FirstFit(f, formats, text), NEW j \in 1 .. Len(Tried(formats))
  PROVE  AfterFit(x, text, formats, f, j)
           = Attempt(AfterFit(x, text, formats, f, j - 1), Tried(formats)[j], text)
<1>1. f \in Int /\ j \in Int
  BY DEF FirstFit
<1>2. CASE j < f
  <2>1. ~ Accepts(Tried(formats)[j], text)
    BY <1>1, <1>2 DEF FirstFit
  <2>2. j - 1 < f
    BY <1>1, <1>2
  <2>3. AfterFit(x, text, formats, f, j) = [ok |-> FALSE, tm |-> x]
    BY <1>2 DEF AfterFit
  <2>4. AfterFit(x, text, formats, f, j - 1) = [ok |-> FALSE, tm |-> x]
    BY <2>2 DEF AfterFit
  <2>5. Attempt([ok |-> FALSE, tm |-> x], Tried(formats)[j], text) = [ok |-> FALSE, tm |-> x]
    BY <2>1 DEF Attempt, Restored
  <2> QED BY <2>3, <2>4, <2>5
<1>3. CASE j = f
  <2>1. Accepts(Tried(formats)[j], text)
    BY <1>3 DEF FirstFit
  <2>2. j - 1 < f /\ ~ (j < f)
    BY <1>1, <1>3
  <2>3. AfterFit(x, text, formats, f, j) = [ok |-> TRUE, tm |-> Read(x, Tried(formats)[j], text)]
    BY <1>3, <2>2 DEF AfterFit
  <2>4. AfterFit(x, text, formats, f, j - 1) = [ok |-> FALSE, tm |-> x]
    BY <2>2 DEF AfterFit
  <2>5. Attempt([ok |-> FALSE, tm |-> x], Tried(formats)[j], text)
          = [ok |-> TRUE, tm |-> Read(x, Tried(formats)[j], text)]
    BY <2>1 DEF Attempt
  <2> QED BY <2>3, <2>4, <2>5
<1>4. CASE j > f
  <2>1. ~ (j - 1 < f) /\ ~ (j < f)
    BY <1>1, <1>4
  <2> DEFINE y == Read(x, Tried(formats)[f], text)
  <2>2. AfterFit(x, text, formats, f, j) = [ok |-> TRUE, tm |-> y]
    BY <2>1 DEF AfterFit
  <2>3. AfterFit(x, text, formats, f, j - 1) = [ok |-> TRUE, tm |-> y]
    BY <2>1 DEF AfterFit
  <2> HIDE DEF y
  <2>4. Attempt([ok |-> TRUE, tm |-> y], Tried(formats)[j], text) = [ok |-> TRUE, tm |-> y]
    BY DEF Attempt
  <2> QED BY <2>2, <2>3, <2>4
<1> QED BY <1>1, <1>2, <1>3, <1>4

\* try_parse_by reads the first format that fits, and nothing else.
LEMMA TryParseIs ==
  ASSUME NEW x, NEW text, NEW formats, Len(Tried(formats)) \in Nat,
         NEW f, FirstFit(f, formats, text)
  PROVE  TryParseBy(x, text, formats) = AfterFit(x, text, formats, f, Len(Tried(formats)))
<1> DEFINE n == Len(Tried(formats))
           none == [ok |-> FALSE, tm |-> x]
           step(g) == [j \in 0 .. n |->
                         IF j = 0 THEN none ELSE Attempt(g[j - 1], Tried(formats)[j], text)]
           after == CHOOSE g : g = step(g)
           fit(j) == AfterFit(x, text, formats, f, j)
           h == [j \in 0 .. n |-> fit(j)]
<1>1. TryParseBy(x, text, formats) = after[n]
  BY DEF TryParseBy, Tried
<1>2. n \in Nat /\ f \in 1 .. n + 1
  BY DEF FirstFit
<1>3. fit(0) = none
  BY <1>2 DEF AfterFit
<1>4. ASSUME NEW j \in 1 .. n PROVE fit(j) = Attempt(fit(j - 1), Tried(formats)[j], text)
  BY FitStep
<1> HIDE DEF fit, n, none
<1>5. h = step(h)
  <2> SUFFICES ASSUME NEW j \in 0 .. n
               PROVE  fit(j) = IF j = 0 THEN none ELSE Attempt(h[j - 1], Tried(formats)[j], text)
    OBVIOUS
  <2>1. CASE j = 0
    BY <1>3, <2>1
  <2>2. CASE j # 0
    <3>1. j \in 1 .. n /\ j - 1 \in 0 .. n
      BY <1>2, <2>2
    <3>2. h[j - 1] = fit(j - 1)
      BY <3>1
    <3> QED BY <1>4, <2>2, <3>1, <3>2
  <2> QED BY <2>1, <2>2
<1>6. after = step(after)
  <2> HIDE DEF step, h
  <2> QED BY <1>5
<1> HIDE DEF after
<1>7. /\ after[0] = none
      /\ \A j \in 1 .. n : after[j] = Attempt(after[j - 1], Tried(formats)[j], text)
  <2>1. \A j \in 0 .. n :
          after[j] = IF j = 0 THEN none ELSE Attempt(after[j - 1], Tried(formats)[j], text)
    BY <1>6
  <2>2. 0 \in 0 .. n /\ \A j \in 1 .. n : j \in 0 .. n /\ j # 0
    BY <1>2
  <2> QED BY <2>1, <2>2
<1> HIDE DEF step
<1> DEFINE wrong == {j \in 0 .. n : after[j] # fit(j)}
<1>8. wrong = {}
  <2> SUFFICES ASSUME wrong # {} PROVE FALSE
    OBVIOUS
  <2>1. PICK j \in wrong : \A k \in wrong : j <= k
    <3>1. wrong \in SUBSET Nat
      BY <1>2
    <3> HIDE DEF wrong
    <3> QED BY <3>1, LeastNumber
  <2>2. j # 0
    BY <1>3, <1>7, <2>1
  <2>3. j \in 1 .. n /\ j - 1 \in 0 .. n /\ ~ (j <= j - 1)
    BY <1>2, <2>1, <2>2
  <2>4. after[j - 1] = fit(j - 1)
    BY <2>1, <2>3
  <2>5. after[j] = fit(j)
    BY <1>4, <1>7, <2>3, <2>4
  <2> QED BY <2>1, <2>5
<1>9. after[n] = fit(n)
  BY <1>2, <1>8
<1> QED BY <1>1, <1>9 DEF fit, n

Format == {Dashes, DashesTime, Slashes, SlashesTime, Clock}

\* A list of formats is tried after '-' with a time of day.
LEMMA TriedIs ==
  ASSUME NEW formats \in Seq(Format)
  PROVE  /\ Tried(formats) \in Seq(Format) /\ Len(Tried(formats)) = Len(formats) + 1
         /\ Tried(formats)[1] = DashesTime
         /\ \A i \in 1 .. Len(formats) : Tried(formats)[i + 1] = formats[i]
<1>1. <<DashesTime>> \in Seq(Format) /\ Len(<<DashesTime>>) = 1 /\ <<DashesTime>>[1] = DashesTime
  BY DEF Format
<1>2. PICK s \in Seq(Format) : s = <<DashesTime>> /\ Len(s) = 1 /\ s[1] = DashesTime
  BY <1>1
<1>3. Tried(formats) = s \o formats
  BY <1>2 DEF Tried
<1>4. /\ s \o formats \in Seq(Format) /\ Len(s \o formats) = 1 + Len(formats)
      /\ \A i \in 1 .. 1 + Len(formats) :
           (s \o formats)[i] = IF i <= 1 THEN s[i] ELSE formats[i - 1]
  BY <1>2, ConcatProperties
<1>5. Len(formats) \in Nat
  OBVIOUS
<1>6. (s \o formats)[1] = DashesTime
  BY <1>2, <1>4, <1>5
<1>7. ASSUME NEW i \in 1 .. Len(formats) PROVE (s \o formats)[i + 1] = formats[i]
  <2>1. i + 1 \in 1 .. 1 + Len(formats) /\ ~ (i + 1 <= 1) /\ (i + 1) - 1 = i
    BY <1>5
  <2> QED BY <1>4, <2>1
<1> QED BY <1>3, <1>4, <1>5, <1>6, <1>7

\* The lists of formats.
LEMMA FormatLists ==
  /\ ParseFormats \in Seq(Format) /\ Len(ParseFormats) = 5
  /\ TestFormats \in Seq(Format) /\ Len(TestFormats) = 3
  /\ ParseFormats[1] = Dashes /\ ParseFormats[2] = Slashes /\ ParseFormats[3] = Clock
BY DEF Format, ParseFormats, TestFormats

\* The fields of a format.
LEMMA FormatsDiffer ==
  ASSUME NEW format \in Format
  PROVE  format.sep \in {"", "-", "/"} /\ format.time \in BOOLEAN
<1>1. CASE format = Dashes
  BY <1>1 DEF Dashes
<1>2. CASE format = DashesTime
  BY <1>2 DEF DashesTime
<1>3. CASE format = Slashes
  BY <1>3 DEF Slashes
<1>4. CASE format = SlashesTime
  BY <1>4 DEF SlashesTime
<1>5. CASE format = Clock
  BY <1>5 DEF Clock
<1> QED BY <1>1, <1>2, <1>3, <1>4, <1>5 DEF Format

\* What TextAssumption says of a text.
IsText(text) ==
  /\ text.sep \in {"", "-", "/"}
  /\ text.sep # "" => text.date \in Year \X (0 .. 11) \X (1 .. 31)
  /\ text.hour \in -1 .. 23

\* A text without its time of day.
LEMMA BareText ==
  ASSUME NEW S, NEW D, NEW text \in [sep : S, date : D, hour : -1 .. 23]
  PROVE  /\ [text EXCEPT !.hour = -1] \in [sep : S, date : D, hour : -1 .. 23]
         /\ [text EXCEPT !.hour = -1].hour = -1 /\ [text EXCEPT !.hour = -1].sep = text.sep
         /\ [text EXCEPT !.hour = -1].date = text.date
OBVIOUS

\* A text, with and without its time of day, is what TextAssumption says.
LEMMA TextIs ==
  ASSUME NEW text \in Text
  PROVE  IsText(text) /\ IsText([text EXCEPT !.hour = -1])
         /\ [text EXCEPT !.hour = -1].hour = -1 /\ [text EXCEPT !.hour = -1].sep = text.sep
         /\ [text EXCEPT !.hour = -1].date = text.date
<1> DEFINE bare == [text EXCEPT !.hour = -1]
           dates == Year \X (0 .. 11) \X (1 .. 31)
           none == {<<>>}
<1>1. \/ text \in [sep : {"-", "/"}, date : dates, hour : -1 .. 23]
      \/ text \in [sep : {""}, date : none, hour : -1 .. 23]
  BY TextAssumption
<1> HIDE DEF none
<1>2. CASE text \in [sep : {"-", "/"}, date : dates, hour : -1 .. 23]
  <2>1. /\ bare \in [sep : {"-", "/"}, date : dates, hour : -1 .. 23]
        /\ bare.hour = -1 /\ bare.sep = text.sep /\ bare.date = text.date
    BY <1>2, BareText
  <2> HIDE DEF bare
  <2>2. IsText(text) /\ IsText(bare)
    BY <1>2, <2>1 DEF IsText
  <2> QED BY <2>1, <2>2 DEF bare
<1>3. CASE text \in [sep : {""}, date : none, hour : -1 .. 23]
  <2>1. /\ bare \in [sep : {""}, date : none, hour : -1 .. 23]
        /\ bare.hour = -1 /\ bare.sep = text.sep /\ bare.date = text.date
    BY <1>3, BareText
  <2> HIDE DEF bare
  <2>2. IsText(text) /\ IsText(bare)
    BY <1>3, <2>1 DEF IsText
  <2> QED BY <2>1, <2>2 DEF bare
<1> QED BY <1>1, <1>2, <1>3

\* What a format that fits reads, and what it leaves.
LEMMA ReadIs ==
  ASSUME NEW x \in TmInYears, NEW text, IsText(text), NEW format \in Format, Accepts(format, text)
  PROVE  /\ Read(x, format, text) \in TmInYears
         /\ DateOf(Read(x, format, text)) = IF text.sep # "" THEN text.date ELSE DateOf(x)
         /\ Read(x, format, text).hour = IF format.time THEN text.hour ELSE x.hour
         /\ Read(x, format, text).isdst = x.isdst
<1> DEFINE dated == IF format.sep = "" THEN x
                    ELSE [x EXCEPT !.year = text.date[1], !.mon = text.date[2],
                                   !.mday = text.date[3]]
<1>1. format.sep = text.sep /\ format.time \in BOOLEAN
  BY FormatsDiffer DEF Accepts
<1>2. /\ dated \in TmInYears /\ dated.hour = x.hour /\ dated.isdst = x.isdst
      /\ DateOf(dated) = IF text.sep # "" THEN text.date ELSE DateOf(x)
  <2>1. CASE text.sep = ""
    BY <1>1, <2>1
  <2>2. CASE text.sep # ""
    <3>1. PICK y \in Year, m \in 0 .. 11, d \in 1 .. 31 : text.date = <<y, m, d>>
      <4>1. text.date \in Year \X (0 .. 11) \X (1 .. 31)
        BY <2>2 DEF IsText
      <4> QED BY <4>1
    <3>6. text.date[1] = y /\ text.date[2] = m /\ text.date[3] = d
      BY <3>1
    <3>7. dated = [x EXCEPT !.year = text.date[1], !.mon = text.date[2], !.mday = text.date[3]]
      BY <1>1, <2>2
    <3> HIDE DEF dated
    <3>2. dated = [x EXCEPT !.year = y, !.mon = m, !.mday = d]
      BY <3>6, <3>7
    <3>3. dated = [year |-> y, mon |-> m, mday |-> d, hour |-> x.hour, isdst |-> x.isdst]
      BY <3>2 DEF TmInYears
    <3>4. dated \in TmInYears /\ dated.hour = x.hour /\ dated.isdst = x.isdst
      BY <3>3 DEF TmInYears
    <3>5. DateOf(dated) = <<y, m, d>>
      BY <3>3 DEF DateOf
    <3> QED BY <2>2, <3>1, <3>4, <3>5
  <2> QED BY <2>1, <2>2
<1>3. Read(x, format, text) = IF format.time THEN [dated EXCEPT !.hour = text.hour] ELSE dated
  BY DEF Read
<1> HIDE DEF dated
<1>4. CASE format.time
  <2>1. text.hour \in 0 .. 23
    <3>1. HasTime(text)
      BY <1>4 DEF Accepts
    <3>2. text.hour \in -1 .. 23 /\ text.hour # -1
      BY <3>1 DEF IsText, HasTime
    <3> QED BY <3>2
  <2>2. Read(x, format, text) = [year |-> dated.year, mon |-> dated.mon, mday |-> dated.mday,
                                 hour |-> text.hour, isdst |-> dated.isdst]
    BY <1>2, <1>3, <1>4 DEF TmInYears
  <2>5. /\ dated.year \in Year /\ dated.mon \in 0 .. 11 /\ dated.mday \in 1 .. 31
        /\ dated.isdst \in 0 .. 1
    BY <1>2 DEF TmInYears
  <2>3. /\ Read(x, format, text) \in TmInYears
        /\ Read(x, format, text).hour = text.hour /\ Read(x, format, text).isdst = x.isdst
    <3>1. Read(x, format, text) \in TmInYears
      BY <2>1, <2>2, <2>5 DEF TmInYears
    <3>2. Read(x, format, text).hour = text.hour
      BY <2>2
    <3>3. Read(x, format, text).isdst = x.isdst
      <4>1. Read(x, format, text).isdst = dated.isdst
        BY <2>2
      <4>2. dated.isdst = x.isdst
        BY <1>2
      <4> QED BY <4>1, <4>2
    <3> QED BY <3>1, <3>2, <3>3
  <2>4. DateOf(Read(x, format, text)) = DateOf(dated)
    BY <2>2 DEF DateOf
  <2> QED BY <1>2, <1>4, <2>3, <2>4
<1>5. CASE ~ format.time
  <2>1. Read(x, format, text) = dated
    BY <1>3, <1>5
  <2> QED BY <1>2, <1>5, <2>1
<1> QED BY <1>4, <1>5

\* A parse fails and leaves its tm, or reads one format that fits.
LEMMA ParseReads ==
  ASSUME NEW x, NEW text, NEW formats \in {ParseFormats, TestFormats}
  PROVE  \/ TryParseBy(x, text, formats) = [ok |-> FALSE, tm |-> x]
         \/ \E format \in Format :
              /\ Accepts(format, text)
              /\ TryParseBy(x, text, formats) = [ok |-> TRUE, tm |-> Read(x, format, text)]
<1> DEFINE n == Len(Tried(formats))
<1>1. n \in Nat /\ \A i \in 1 .. n : Tried(formats)[i] \in Format
  <2>1. Tried(formats) \in Seq(Format)
    BY TriedIs, FormatLists
  <2> QED BY <2>1
<1>2. PICK f : FirstFit(f, formats, text)
  BY <1>1, FitExists
<1>3. TryParseBy(x, text, formats) = AfterFit(x, text, formats, f, n)
  BY <1>1, <1>2, TryParseIs
<1>4. f \in 1 .. n + 1 /\ (f <= n => Accepts(Tried(formats)[f], text))
  BY <1>2 DEF FirstFit
<1>5. CASE n < f
  BY <1>3, <1>5 DEF AfterFit
<1>6. CASE ~ (n < f)
  <2>1. f \in 1 .. n /\ f <= n
    BY <1>1, <1>4, <1>6
  <2>2. Tried(formats)[f] \in Format /\ Accepts(Tried(formats)[f], text)
    BY <1>1, <1>4, <2>1
  <2>3. TryParseBy(x, text, formats) = [ok |-> TRUE, tm |-> Read(x, Tried(formats)[f], text)]
    BY <1>3, <1>6 DEF AfterFit
  <2> QED BY <2>2, <2>3
<1> QED BY <1>5, <1>6

\* So a parse of tm leaves no trace.
LEMMA ParseLeavesHolds == ASSUME CalendarTypeOK PROVE ParseLeavesNoTrace
<1> SUFFICES ASSUME NEW text \in Text, NEW formats \in {ParseFormats, TestFormats}
             PROVE  LET p == TryParseBy(tm, text, formats) IN
                    /\ DateOf(p.tm) = IF p.ok /\ text.sep # "" THEN text.date ELSE DateOf(tm)
                    /\ p.tm.hour = tm.hour \/ (HasTime(text) /\ p.tm.hour = text.hour)
                    /\ p.tm.isdst = tm.isdst
  BY DEF ParseLeavesNoTrace
<1> DEFINE p == TryParseBy(tm, text, formats)
<1>1. IsText(text) /\ tm \in TmInYears
  BY TypeIs, TextIs
<1>2. CASE p = [ok |-> FALSE, tm |-> tm]
  <2>1. p.ok = FALSE /\ p.tm = tm
    BY <1>2
  <2> HIDE DEF p
  <2> QED BY <2>1 DEF p
<1>3. ASSUME NEW format \in Format, Accepts(format, text),
             p = [ok |-> TRUE, tm |-> Read(tm, format, text)]
      PROVE  /\ DateOf(p.tm) = IF p.ok /\ text.sep # "" THEN text.date ELSE DateOf(tm)
             /\ p.tm.hour = tm.hour \/ (HasTime(text) /\ p.tm.hour = text.hour)
             /\ p.tm.isdst = tm.isdst
  <2>1. p.ok = TRUE /\ p.tm = Read(tm, format, text)
    BY <1>3
  <2> HIDE DEF p
  <2>2. /\ DateOf(p.tm) = IF text.sep # "" THEN text.date ELSE DateOf(tm)
        /\ p.tm.hour = IF format.time THEN text.hour ELSE tm.hour
        /\ p.tm.isdst = tm.isdst
    BY <1>1, <1>3, <2>1, ReadIs
  <2>3. format.time => HasTime(text)
    BY <1>3 DEF Accepts
  <2> QED BY <2>1, <2>2, <2>3
<1> QED BY <1>2, <1>3, ParseReads, Zenon

\* parse_datetime reads the format of the text's date, with the time of day unless that
\* date has slashes; a text without a date needs a time of day.
LEMMA ParsedIs ==
  ASSUME NEW x, NEW text, IsText(text)
  PROVE  TryParseBy(x, text, ParseFormats)
           = IF text.sep = "" /\ ~ HasTime(text) THEN [ok |-> FALSE, tm |-> x]
             ELSE [ok |-> TRUE,
                   tm |-> Read(x, IF text.sep = "" THEN Clock
                                  ELSE IF text.sep = "/" THEN Slashes
                                  ELSE IF HasTime(text) THEN DashesTime ELSE Dashes, text)]
<1> DEFINE all == Tried(ParseFormats)
           p == TryParseBy(x, text, ParseFormats)
<1>1. /\ Len(all) = 6 /\ Len(all) \in Nat
      /\ all[1] = DashesTime /\ all[2] = Dashes /\ all[3] = Slashes /\ all[4] = Clock
  <2>1. Len(all) = 6 /\ all[1] = DashesTime
    <3>1. Len(all) = Len(ParseFormats) + 1 /\ all[1] = DashesTime
      BY TriedIs, FormatLists
    <3> QED BY <3>1, FormatLists
  <2>2. \A i \in 1 .. 5 : all[i + 1] = ParseFormats[i]
    BY TriedIs, FormatLists
  <2>3. all[1 + 1] = Dashes /\ all[2 + 1] = Slashes /\ all[3 + 1] = Clock
    BY <2>2, FormatLists
  <2>4. 1 + 1 = 2 /\ 2 + 1 = 3 /\ 3 + 1 = 4
    OBVIOUS
  <2> HIDE DEF all
  <2>5. all[2] = Dashes /\ all[3] = Slashes /\ all[4] = Clock
    BY <2>3, <2>4
  <2> QED BY <2>1, <2>5
<1>2. ASSUME NEW f \in 1 .. 6, Accepts(all[f], text), \A i \in 1 .. f - 1 : ~ Accepts(all[i], text)
      PROVE  p = [ok |-> TRUE, tm |-> Read(x, all[f], text)]
  <2>1. FirstFit(f, ParseFormats, text)
    BY <1>1, <1>2 DEF FirstFit
  <2>2. p = AfterFit(x, text, ParseFormats, f, Len(all))
    BY <1>1, <2>1, TryParseIs
  <2>3. ~ (Len(all) < f)
    BY <1>1
  <2> QED BY <2>2, <2>3 DEF AfterFit
<1>3. /\ Dashes.sep = "-" /\ Dashes.time = FALSE /\ DashesTime.sep = "-" /\ DashesTime.time = TRUE
      /\ Slashes.sep = "/" /\ Slashes.time = FALSE /\ SlashesTime.sep = "/"
      /\ Clock.sep = "" /\ Clock.time = TRUE
  BY DEF Dashes, DashesTime, Slashes, SlashesTime, Clock
<1>4. \A i \in 1 .. 1 - 1 : FALSE
  OBVIOUS
<1>5. /\ \A i \in 1 .. 2 - 1 : i = 1
      /\ \A i \in 1 .. 3 - 1 : i = 1 \/ i = 2
      /\ \A i \in 1 .. 4 - 1 : i = 1 \/ i = 2 \/ i = 3
  OBVIOUS
<1>6. /\ Accepts(DashesTime, text) <=> text.sep = "-" /\ HasTime(text)
      /\ Accepts(Dashes, text) <=> text.sep = "-"
      /\ Accepts(Slashes, text) <=> text.sep = "/"
      /\ Accepts(Clock, text) <=> text.sep = "" /\ HasTime(text)
  BY <1>3 DEF Accepts
<1> HIDE DEF all, p
<1>7. CASE text.sep = "" /\ ~ HasTime(text)
  <2>1. ASSUME NEW format \in Format PROVE ~ Accepts(format, text)
    <3>1. Accepts(format, text) => format = Clock
      BY <1>3, <1>7 DEF Accepts, Format
    <3> QED BY <1>6, <1>7, <3>1
  <2>2. p = [ok |-> FALSE, tm |-> x]
    BY <2>1, ParseReads DEF p
  <2> QED BY <1>7, <2>2 DEF p
<1>8. CASE text.sep = "" /\ HasTime(text)
  <2>1. Accepts(all[4], text) /\ \A i \in 1 .. 4 - 1 : ~ Accepts(all[i], text)
    BY <1>1, <1>5, <1>6, <1>8
  <2>2. p = [ok |-> TRUE, tm |-> Read(x, Clock, text)]
    BY <1>1, <1>2, <2>1
  <2> QED BY <1>8, <2>2 DEF p
<1>9. CASE text.sep = "/"
  <2>1. Accepts(all[3], text) /\ \A i \in 1 .. 3 - 1 : ~ Accepts(all[i], text)
    BY <1>1, <1>5, <1>6, <1>9
  <2>2. p = [ok |-> TRUE, tm |-> Read(x, Slashes, text)]
    BY <1>1, <1>2, <2>1
  <2> QED BY <1>9, <2>2 DEF p
<1>10. CASE text.sep = "-" /\ HasTime(text)
  <2>1. Accepts(all[1], text) /\ \A i \in 1 .. 1 - 1 : ~ Accepts(all[i], text)
    BY <1>1, <1>4, <1>6, <1>10
  <2>2. p = [ok |-> TRUE, tm |-> Read(x, DashesTime, text)]
    BY <1>1, <1>2, <2>1
  <2> QED BY <1>10, <2>2 DEF p
<1>11. CASE text.sep = "-" /\ ~ HasTime(text)
  <2>1. Accepts(all[2], text) /\ \A i \in 1 .. 2 - 1 : ~ Accepts(all[i], text)
    BY <1>1, <1>5, <1>6, <1>11
  <2>2. p = [ok |-> TRUE, tm |-> Read(x, Dashes, text)]
    BY <1>1, <1>2, <2>1
  <2> QED BY <1>11, <2>2 DEF p
<1> QED BY <1>7, <1>8, <1>9, <1>10, <1>11 DEF IsText

\* mktime and localtime read back the hour of a day that has the date, in its season.
LEMMA ReadsBack ==
  ASSUME NEW x \in TmInYears, NEW t, t = Mktime(x)
  PROVE  /\ t \in NearInstant
         /\ (DateOf(Localtime(t)) = DateOf(x) /\ Localtime(t).hour = x.hour)
              <=> (x.mday <= MonthLength(x.year, x.mon) /\ Dst(t) = x.isdst)
<1> DEFINE z == Localtime(t)
<1>1. PICK y \in Year, m \in 0 .. 11, d \in 1 .. 31, h \in 0 .. 23, s \in 0 .. 1 :
        y = x.year /\ m = x.mon /\ d = x.mday /\ h = x.hour /\ s = x.isdst
  BY DEF TmInYears
<1>2. y \in NearYear /\ y \in Int /\ m \in -24 .. 35
  BY NearYears
<1>3. PICK b \in Int : /\ b = MonthStart(y, m) /\ b >= YearStart(FirstYear - 3) + 365
                       /\ b <= YearStart(LastYear + 4) - 365 /\ b = FirstDay[y][m]
  BY <1>2, NearMonths, MonthStartIs
<1>4. PICK D \in Int : D = b + d - 1 /\ D = DayNumber(y, m, d)
  BY <1>3 DEF DayNumber
<1>5. t = 24 * D + h - s
  BY <1>1, <1>3, <1>4 DEF Mktime
<1>6. D > YearStart(FirstYear - 3) /\ D < YearStart(LastYear + 4) - 1
  BY <1>3, <1>4, NearBounds
<1>7. t \in NearInstant /\ IsLocal(z, t)
  BY <1>5, <1>6, HourOfDay
<1> HIDE DEF z
<1>8. PICK n \in Int, g \in 0 .. 23, r \in 0 .. 1 :
        n = DayOf(z) /\ g = z.hour /\ r = Dst(t) /\ 24 * n + g = 24 * D + h - s + r
  <2>1. DayOf(z) \in Int /\ z.hour \in 0 .. 23 /\ 24 * DayOf(z) + z.hour = t + Dst(t)
    BY <1>7 DEF IsLocal, NearTm
  <2> QED BY <1>5, <2>1, DstBit
<1>9. IsDate(z.year, z.mon, z.mday)
  BY <1>7 DEF IsLocal
<1>10. DateOf(x) = <<y, m, d>>
  BY <1>1 DEF DateOf
<1>11. MonthLength(y, m) \in 28 .. 31
  BY <1>2, MonthLengths
<1>12. ASSUME DateOf(z) = DateOf(x), z.hour = x.hour
       PROVE  x.mday <= MonthLength(x.year, x.mon) /\ Dst(t) = x.isdst
  <2>1. z.year = y /\ z.mon = m /\ z.mday = d
    BY <1>10, <1>12 DEF DateOf
  <2>2. d \in 1 .. MonthLength(y, m)
    BY <1>9, <2>1 DEF IsDate
  <2>3. n = D
    BY <1>4, <1>8, <2>1 DEF DayOf
  <2>4. g = h
    BY <1>1, <1>8, <1>12
  <2>5. s = r
    BY <1>8, <2>3, <2>4
  <2> QED BY <1>1, <1>8, <1>11, <2>2, <2>5
<1>13. ASSUME x.mday <= MonthLength(x.year, x.mon), Dst(t) = x.isdst
       PROVE  DateOf(z) = DateOf(x) /\ z.hour = x.hour
  <2>1. r = s
    BY <1>1, <1>8, <1>13
  <2>2. n = D /\ g = h
    BY <1>8, <2>1
  <2>3. d \in 1 .. MonthLength(y, m)
    BY <1>1, <1>11, <1>13
  <2>4. IsDate(y, m, d)
    BY <1>2, <2>3 DEF IsDate
  <2>5. DateOf(z) = <<y, m, d>>
    <3>1. DayOf(z) = DayNumber(y, m, d)
      BY <1>4, <1>8, <2>2
    <3> QED BY <1>7, <2>4, <3>1, DateIs
  <2> QED BY <1>1, <1>8, <1>10, <2>2, <2>5
<1>14. (DateOf(z) = DateOf(x) /\ z.hour = x.hour)
         <=> (x.mday <= MonthLength(x.year, x.mon) /\ Dst(t) = x.isdst)
  BY <1>12, <1>13
<1> QED BY <1>7, <1>14 DEF z

\* What parse_datetime gives to mktime.
LEMMA ParsedTmIs ==
  ASSUME NEW t \in Instant, NEW text \in Text, ParsedTm(t, text).ok
  PROVE  LET p == ParsedTm(t, text).tm IN
         /\ p \in TmInYears /\ p.isdst = Dst(t)
         /\ DateOf(p) = IF text.sep # "" THEN text.date ELSE DateOf(Localtime(t))
         /\ p.hour = IF HasTime(text) /\ text.sep # "/" THEN text.hour ELSE Localtime(t).hour
         /\ text.sep = "" => HasTime(text)
<1> DEFINE x == Localtime(t)
           format == IF text.sep = "" THEN Clock
                     ELSE IF text.sep = "/" THEN Slashes
                     ELSE IF HasTime(text) THEN DashesTime ELSE Dashes
<1>1. x \in TmInYears /\ x.isdst = Dst(t)
  BY InstantIs DEF IsLocal
<1>2. IsText(text)
  BY TextIs
<1>3. ParsedTm(t, text) = IF text.sep = "" /\ ~ HasTime(text) THEN [ok |-> FALSE, tm |-> x]
                          ELSE [ok |-> TRUE, tm |-> Read(x, format, text)]
  BY <1>2, ParsedIs DEF ParsedTm
<1> HIDE DEF x
<1>4. ~ (text.sep = "" /\ ~ HasTime(text))
  <2> SUFFICES ASSUME text.sep = "" /\ ~ HasTime(text) PROVE FALSE
    OBVIOUS
  <2>1. ParsedTm(t, text) = [ok |-> FALSE, tm |-> x]
    BY <1>3
  <2>2. [ok |-> FALSE, tm |-> x].ok = FALSE
    OBVIOUS
  <2> QED BY <2>1, <2>2, Zenon
<1>5. ParsedTm(t, text) = [ok |-> TRUE, tm |-> Read(x, format, text)]
  BY <1>3, <1>4, Zenon
<1>6. format \in Format /\ Accepts(format, text)
      /\ (format.time <=> HasTime(text) /\ text.sep # "/")
  <2>1. CASE text.sep = ""
    BY <1>4, <2>1 DEF Accepts, Format, Clock
  <2>2. CASE text.sep = "/"
    BY <2>2 DEF Accepts, Format, Slashes
  <2>3. CASE text.sep = "-" /\ HasTime(text)
    BY <2>3 DEF Accepts, Format, DashesTime
  <2>4. CASE text.sep = "-" /\ ~ HasTime(text)
    BY <2>4 DEF Accepts, Format, Dashes
  <2> QED BY <1>2, <2>1, <2>2, <2>3, <2>4 DEF IsText
<1> HIDE DEF format
<1>7. ParsedTm(t, text).tm = Read(x, format, text)
  BY <1>5
<1>8. /\ Read(x, format, text) \in TmInYears
      /\ DateOf(Read(x, format, text)) = IF text.sep # "" THEN text.date ELSE DateOf(x)
      /\ Read(x, format, text).hour = IF format.time THEN text.hour ELSE x.hour
      /\ Read(x, format, text).isdst = x.isdst
  BY <1>1, <1>2, <1>6, ReadIs
<1>9. Read(x, format, text).hour = IF HasTime(text) /\ text.sep # "/" THEN text.hour ELSE x.hour
  BY <1>6, <1>8
<1>10. text.sep = "" => HasTime(text)
  BY <1>4
<1> QED BY <1>1, <1>7, <1>8, <1>9, <1>10 DEF x

\* After a date with slashes the time of day is not read.
LEMMA SlashesLoseTime ==
  ASSUME NEW t, NEW text \in Text, text.sep = "/"
  PROVE  ParseDatetime(t, text) = ParseDatetime(t, [text EXCEPT !.hour = -1])
<1> DEFINE bare == [text EXCEPT !.hour = -1]
           x == Localtime(t)
<1>1. IsText(text) /\ IsText(bare) /\ bare.sep = "/" /\ bare.date = text.date
  BY TextIs
<1> HIDE DEF bare, x
<1>2. ASSUME NEW u, IsText(u), u.sep = "/"
      PROVE  ParsedTm(t, u) = [ok |-> TRUE, tm |-> Read(x, Slashes, u)]
  <2>1. ~ (u.sep = "" /\ ~ HasTime(u)) /\ u.sep # ""
    BY <1>2
  <2> QED BY <1>2, <2>1, ParsedIs DEF ParsedTm, x
<1>3. Read(x, Slashes, text) = Read(x, Slashes, bare)
  <2>1. Slashes.sep # "" /\ ~ Slashes.time
    BY DEF Slashes
  <2> QED BY <1>1, <2>1 DEF Read
<1>4. ParsedTm(t, text) = ParsedTm(t, bare)
  BY <1>1, <1>2, <1>3
<1> QED BY <1>4 DEF ParseDatetime, bare

\* So parse_datetime is right for every text and every now.
LEMMA ParsedHolds == ASSUME CalendarTypeOK PROVE ParsedInstantReadsBack
<1> SUFFICES
      ASSUME NEW text \in Text, ParsedTm(now, text).ok
      PROVE  LET t     == ParseDatetime(now, text)
                 today == Localtime(now)
                 date  == IF text.sep = "" THEN DateOf(today) ELSE text.date
                 hour  == IF HasTime(text) THEN text.hour ELSE today.hour
             IN IF text.sep = "/" /\ HasTime(text)
                  THEN t = ParseDatetime(now, [text EXCEPT !.hour = -1])
                  ELSE (DateOf(Localtime(t)) = date /\ Localtime(t).hour = hour)
                         <=> date[3] <= MonthLength(date[1], date[2]) /\ Dst(t) = Dst(now)
  BY Zenon DEF ParsedInstantReadsBack
<1> DEFINE t     == ParseDatetime(now, text)
           today == Localtime(now)
           date  == IF text.sep = "" THEN DateOf(today) ELSE text.date
           hour  == IF HasTime(text) THEN text.hour ELSE today.hour
           p     == ParsedTm(now, text).tm
<1>1. CASE text.sep = "/" /\ HasTime(text)
  <2>1. t = ParseDatetime(now, [text EXCEPT !.hour = -1])
    BY <1>1, SlashesLoseTime
  <2> QED BY <1>1, <2>1
<1>2. CASE ~ (text.sep = "/" /\ HasTime(text))
  <2>1. now \in Instant
    BY DEF CalendarTypeOK
  <2>2. /\ p \in TmInYears /\ p.isdst = Dst(now)
        /\ DateOf(p) = IF text.sep # "" THEN text.date ELSE DateOf(today)
        /\ p.hour = IF HasTime(text) /\ text.sep # "/" THEN text.hour ELSE today.hour
    BY <2>1, ParsedTmIs
  <2>3. t = Mktime(p)
    BY DEF ParseDatetime
  <2>4. date = DateOf(p)
    BY <2>2
  <2>5. hour = p.hour
    BY <1>2, <2>2
  <2> HIDE DEF t, today, date, hour, p
  <2>6. (DateOf(Localtime(t)) = DateOf(p) /\ Localtime(t).hour = p.hour)
          <=> (p.mday <= MonthLength(p.year, p.mon) /\ Dst(t) = p.isdst)
    BY <2>2, <2>3, ReadsBack
  <2>7. date[1] = p.year /\ date[2] = p.mon /\ date[3] = p.mday
    BY <2>4 DEF DateOf
  <2>8. (DateOf(Localtime(t)) = date /\ Localtime(t).hour = hour)
          <=> date[3] <= MonthLength(date[1], date[2]) /\ Dst(t) = Dst(now)
    BY <2>2, <2>4, <2>5, <2>6, <2>7
  <2> QED BY <1>2, <2>8, Zenon DEF t, today, date, hour
<1> QED BY <1>1, <1>2

-----------------------------------------------------------------------------
(* The client.                                                             *)

\* A tm that a helper returns is one again.
LEMMA BecomesTm ==
  ASSUME NEW t \in NearInstant, Becomes(t)
  PROVE  tm' \in TmInYears
<1>1. IsLocal(Localtime(t), t)
  BY LocaltimeIs
<1>2. tm' = Localtime(t) /\ Localtime(t).year \in Year
  BY DEF Becomes
<1> QED BY <1>1, <1>2 DEF IsLocal, NearTm, TmInYears

\* CalendarTypeOK is inductive.
LEMMA CalendarStep ==
  ASSUME CalendarTypeOK, [CalendarNext]_calendarVars
  PROVE  CalendarTypeOK'
<1>1. now \in Instant /\ tm \in TmInYears
  BY TypeIs DEF CalendarTypeOK
<1> SUFFICES now' \in Instant /\ tm' \in TmInYears
  BY DEF CalendarTypeOK, TmInYears
<1>2. CASE Tick
  BY <1>1, <1>2 DEF Tick
<1>3. CASE Now
  BY <1>1, <1>3, InstantIs, BecomesTm DEF Now
<1>4. ASSUME NEW off \in Offset, YearEnd(off) PROVE now' \in Instant /\ tm' \in TmInYears
  <2>1. LastDayAtThisYear(tm, off) \in NearInstant
    <3>1. CASE off \in 1 .. 366
      BY <3>1, YearEndHour
    <3>2. CASE off \notin 1 .. 366
      BY <1>1, <3>2, ReadsBack DEF LastDayAtThisYear
    <3> QED BY <3>1, <3>2
  <2> QED BY <1>1, <1>4, <2>1, BecomesTm DEF YearEnd
<1>5. ASSUME NEW off \in Offset, NEW delta \in Delta, MonthEnd(off, delta)
      PROVE  now' \in Instant /\ tm' \in TmInYears
  <2>1. LastDayAtThisMonth(tm, off, delta) \in NearInstant
    <3>1. CASE off \in 1 .. 31
      BY <3>1, MonthEndFinds
    <3>2. CASE off \notin 1 .. 31
      BY <1>1, <3>2, ReadsBack DEF LastDayAtThisMonth
    <3> QED BY <3>1, <3>2
  <2> QED BY <1>1, <1>5, <2>1, BecomesTm DEF MonthEnd
<1>6. ASSUME NEW text \in Text, Parse(text) PROVE now' \in Instant /\ tm' \in TmInYears
  <2>1. ParsedTm(now, text).ok /\ Becomes(ParseDatetime(now, text)) /\ UNCHANGED now
    BY <1>6 DEF Parse
  <2>2. ParsedTm(now, text).tm \in TmInYears
    BY <1>1, <2>1, ParsedTmIs
  <2>3. ParseDatetime(now, text) \in NearInstant
    BY <2>2, ReadsBack DEF ParseDatetime
  <2> QED BY <1>1, <2>1, <2>3, BecomesTm
<1>7. ASSUME NEW text \in Text, NEW formats \in {ParseFormats, TestFormats}, TryParse(text, formats)
      PROVE  now' \in Instant /\ tm' \in TmInYears
  <2>1. IsText(text)
    BY TextIs
  <2>2. TryParseBy(tm, text, formats).tm \in TmInYears
    <3>1. CASE TryParseBy(tm, text, formats) = [ok |-> FALSE, tm |-> tm]
      BY <1>1, <3>1
    <3>2. ASSUME NEW format \in Format, Accepts(format, text),
                 TryParseBy(tm, text, formats) = [ok |-> TRUE, tm |-> Read(tm, format, text)]
          PROVE  TryParseBy(tm, text, formats).tm \in TmInYears
      <4>1. Read(tm, format, text) \in TmInYears
        BY <1>1, <2>1, <3>2, ReadIs
      <4> QED BY <3>2, <4>1
    <3> QED BY <3>1, <3>2, ParseReads
  <2> QED BY <1>1, <1>7, <2>2 DEF TryParse
<1>8. CASE UNCHANGED calendarVars
  BY <1>1, <1>8 DEF calendarVars
<1> QED BY <1>2, <1>3, <1>4, <1>5, <1>6, <1>7, <1>8 DEF CalendarNext

-----------------------------------------------------------------------------
(* The properties.                                                         *)

\* Whatever a client does with its tm, it is a broken-down time of the years that it
\* stays in: no helper returns a month past December, and no parse leaves one.
THEOREM CalendarTypes == CalendarSpec => []CalendarTypeOK
<1>1. CalendarInit => CalendarTypeOK
  BY InstantIs DEF CalendarInit, CalendarTypeOK, TmInYears
<1> QED BY <1>1, CalendarStep, PTL DEF CalendarSpec

\* last_day_at_this_month finds the day it is to find, see MonthEndIsFound, for any day
\* of any year.
THEOREM MonthEndAlways == CalendarSpec => []MonthEndIsFound
BY CalendarTypes, MonthEndHolds, PTL

\* last_day_at_this_year too, see YearEndIsRight.
THEOREM YearEndAlways == CalendarSpec => []YearEndIsRight
BY CalendarTypes, YearEndHolds, PTL

\* compare_date_part compares the date and the season, see SameDate.
THEOREM SameDateAlways == CalendarSpec => []SameDate
BY CalendarTypes, SameDateHolds, PTL

\* What formats that do not fit have set is undone, see ParseLeavesNoTrace.
THEOREM ParseAlwaysCleans == CalendarSpec => []ParseLeavesNoTrace
BY CalendarTypes, ParseLeavesHolds, PTL

\* parse_datetime returns the instant of the text, if there is one in the season of now,
\* see ParsedInstantReadsBack.
THEOREM ParsedAlwaysReadBack == CalendarSpec => []ParsedInstantReadsBack
BY CalendarTypes, ParsedHolds, PTL
=============================================================================
