SPECIFICATION Spec
CONSTANTS
  NumScripts = 2
  EndFrame = 2
  Skipped = {1}
  HeroTiming = 1
  MaxDepth = 5
INVARIANTS
  TypeOK
  OwnRegisters
  RoundInTime
  NoneOwed
  ExactWait
  BeginsAtFirstCommand
  FrozenFlags
