SPECIFICATION Spec
CONSTANTS
  a = a
  b = b
  dot = dot
  v1 = v1
  v2 = v2
  Node <- MCNode
  Root = 0
  NoPtr = NoPtr
  Char <- MCChar
  Delim = dot
  Key <- MCKey
  Value <- MCValue
  NoValue = NoValue
  Garbage <- MCGarbage
PROPERTY
  SetKeepsOtherKeys
