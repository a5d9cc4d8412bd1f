SPECIFICATION Spec
CONSTANTS
  Handles = {h1, h2}
  Streams = {s1, s2, s3}
  Kinds <- MCSeekable
  ReadErrors = TRUE
INVARIANT
  SeeksOpenStream
