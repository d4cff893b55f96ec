CONSTANTS
  Keys = {k1, k2, k3}
  Values = {v1, v2}
  NULL = NULL
  Capacity = 2
  IntMax = 4
  StartAges = {0, 4}
  WildPointers = {TRUE, FALSE}
  MaxAge = 7
  MaxEntries = 4
SPECIFICATION Spec
SYMMETRY Symmetry
INVARIANTS OneItemPerKey CapacityKept
PROPERTIES EvictsLeastRecent Implements
