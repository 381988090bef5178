----------------------------- MODULE MCCalendar -----------------------------
(* Instances of Calendar for TLC. *)
EXTENDS CalendarClaims, TLC

\* Midnight and the hour before it, in winter and summer, and on the days on which the
\* clocks change, before and after the change.
At(y, m, d, hour) == 24 * (MonthStart(y, m) + d - 1) + hour
MCInstant == {At(2024, 1, 29, 0), At(2023, 7, 5, 22),
              At(2024, 3, 1, 0), At(2024, 3, 1, 22), At(2024, 9, 31, 23), At(2024, 10, 1, 23)}

MCText == [sep : {"-", "/"}, date : {<<2023, 1, 31>>, <<2024, 6, 4>>, <<2024, 11, 31>>},
           hour : {-1, 0, 23}]
            \cup [sep : {""}, date : {<<>>}, hour : {-1, 0, 23}]

MCOffset == {0, 1, 3, 30, 31, 32, 365, 366, 367}
MCDelta  == {-13, -1, 0, 1, 2, 13}
=============================================================================
