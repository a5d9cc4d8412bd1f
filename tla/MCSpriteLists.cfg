SPECIFICATION Spec
CONSTANTS
  Lists = {a, b}
  a = a
  b = b
  MaxUID = 3
  Limits = {1, 3}
  Freezable <- MCFreezable
  ReflectIntoFull = FALSE
INVARIANTS
  TypeOK
  Consistent
  OneOwner
  NoStaleLookup
  TurnsInOrder
PROPERTIES
  EveryoneHadOneTurn
  PromiseKept
