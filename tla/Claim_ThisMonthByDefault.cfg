SPECIFICATION CalendarSpec
CONSTANTS
  FirstYear = 2023
  LastYear = 2024
  Instant <- MCInstant
  Text <- MCText
  Offset <- MCOffset
  Delta <- MCDelta
INVARIANT
  ThisMonthByDefault
