SPECIFICATION FairSpec
CONSTANTS
  Handles = {h1, h2}
  Streams = {s1, s2, s3}
  Kinds <- AllKinds
  ReadErrors = TRUE
INVARIANTS
  TypeOK
  PlaylistValid
  PlayingIsListed
  PollerSafe
  StopSilences
  NoLeak
  UsesOpenStream
PROPERTIES
  CallsReturn
  KeepsPlaying
