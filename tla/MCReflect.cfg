SPECIFICATION Spec
CONSTANTS
  Lists = {a, b}
  a = a
  b = b
  MaxUID = 3
  Limits = {1, 2}
  Freezable <- MCFreezable
  ReflectIntoFull = TRUE
SYMMETRY ListSymmetry
INVARIANTS
  Consistent
