SPECIFICATION Spec
CONSTANTS
  Callers = {c1, c2}
  Kinds = {"CALL"}
  MaxSends = 2
SYMMETRY Symmetry
INVARIANT
  NullObjectRejected
