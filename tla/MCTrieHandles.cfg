SPECIFICATION HandleSpec
SYMMETRY MCSymmetry
CONSTANTS
  a = a
  b = b
  c = c
  dot = dot
  v1 = v1
  t1 = t1
  t2 = t2
  h1 = h1
  Node <- MCNode
  Root = 0
  NoPtr = NoPtr
  Char <- MCChar
  Delim = dot
  Key <- MCKey
  Value <- MCValue
  NoValue = NoValue
  Garbage <- MCGarbage
  Tries <- MCTries
  Holder <- MCHolder
INVARIANTS
  HandleTypeOK
  HandleFollowsKey
PROPERTIES
  PathsOnlyShrink
  HandleWriteIsASet
  TriesAreIsolated
  SwapFreesNothing
