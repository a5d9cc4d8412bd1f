SPECIFICATION Spec
CONSTANTS
  Processes = {p1, p2, p3}
  Platforms = {"unix", "windows"}
  AllowMultiple = TRUE
INVARIANTS
  TypeOK
  NeverLockedOut
  OneAtATime
