\* Nothing goes wrong and nothing moves, but one consumer is on a window and
\* the other on the server.
CONSTANTS
  p = p
  f = f
  w1 = w1
  w2 = w2
  s1 = s1
  s2 = s2
  s3 = s3
  Panes = {p, f}
  Floating = {f}
  Windows = {w1, w2}
  Foreign = {}
  Starts <- Together
  Sinks = {s1, s2, s3}
  Scope <- EveryKind
  KeepsOne = TRUE
  MaxMoves = 0
  MaxOutput = 2
  Early = {s1, s3}
  MaxTrouble = 0
  HeldLimit = 1
  Liners = {s1, s3}
  Breaks = {2}
SPECIFICATION LineSpec
INVARIANTS
  DecodedOnce
CHECK_DEADLOCK FALSE
