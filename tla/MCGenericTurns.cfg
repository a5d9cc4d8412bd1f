SPECIFICATION FairSpec
CONSTANTS
  NumScripts = 1
  EndFrame = 2
  Skipped = {1}
  HeroTiming = 1
  MaxDepth = 5
PROPERTY GetsItsTurn
