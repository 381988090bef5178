--------------------------- MODULE CalendarClaims ---------------------------
(***************************************************************************)
(* What the comments of trie-chrono.hh say of the calendar helpers, and    *)
(* the code does not do.                                                   *)
(***************************************************************************)
EXTENDS Calendar

\* trie-chrono.hh:707 and :739 promise the "last 'day_offset' day of this month", and
\* month_delta is an argument one may leave out.  It is then 0, and the day one of the
\* month before.
ThisMonthByDefault ==
  \A off \in Offset \cap 1 .. 28 : Localtime(LastDayAtThisMonth(tm, off, 0)).mon = tm.mon
=============================================================================
