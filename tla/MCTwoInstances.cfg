SPECIFICATION Spec
CONSTANTS
  Processes = {p1, p2}
  Platforms = {"unix"}
  AllowMultiple = FALSE
INVARIANT
  OnlyOne
