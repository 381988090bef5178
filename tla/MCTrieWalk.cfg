SPECIFICATION WalkSpec
CONSTANTS
  a = a
  b = b
  dot = dot
  v1 = v1
  Node <- MCNode
  Root = 0
  NoPtr = NoPtr
  Char <- MCChar
  Delim = dot
  Key <- MCKey
  Value <- MCValue
  NoValue = NoValue
  Garbage <- MCGarbage
INVARIANTS
  WalkTypeOK
  BelowIsSafe
  SizeCountsLeaves
PROPERTIES
  LoopsUndisturbed
  ImplementsTraversal
  WalkEnds
