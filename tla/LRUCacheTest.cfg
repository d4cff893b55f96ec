CONSTANTS
  Keys = {k1, k2, k3}
  One = k1
  Two = k2
  Three = k3
  Values = {v1}
  NULL = NULL
  Capacity = 2
  IntMax = 100
  StartAges = {0}
  WildPointers = {FALSE}
  MaxAge = 20
  MaxEntries = 4
SPECIFICATION TestSpec
INVARIANT AssertsHold
