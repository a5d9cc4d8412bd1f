SPECIFICATION SpecWipes
CONSTANTS
  NumScripts = 2
  EndFrame = 2
  Skipped = {1}
  HeroTiming = 1
  MaxDepth = 5
INVARIANT OwnRegisters
CHECK_DEADLOCK FALSE
