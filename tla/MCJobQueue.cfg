CONSTANTS
  Jobs = {j1, j2, j3, j4}
  NULL = NULL
SPECIFICATION Spec
SYMMETRY Symmetry
INVARIANT LinkedList
PROPERTY Implements
