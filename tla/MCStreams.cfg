SPECIFICATION StreamSpec
CONSTANTS
  MaxSavers = 1
  SizeBits = 30
  Duration <- MCDuration
  Instant <- MCInstant
CONSTRAINT
  SaversApart
INVARIANTS
  StreamTypeOK
  InstantReadsBack
  ValuesLookAlike
  DurationReadsBack
  DumpIsIndented
PROPERTIES
  ImplementsTimeFormat
