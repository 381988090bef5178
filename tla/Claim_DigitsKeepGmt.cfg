SPECIFICATION StreamSpec
CONSTANTS
  MaxSavers = 1
  SizeBits = 30
  Duration <- MCDuration
  Instant <- MCInstant
PROPERTIES
  DigitsKeepGmt
