\* A consumer on a window and one on the session share a decoder; a sink on
\* the server takes bytes. Two chunks, the second ends a line.
CONSTANTS
  p = p
  f = f
  w1 = w1
  w2 = w2
  s1 = s1
  s2 = s2
  s3 = s3
  Panes = {p, f}
  Floating = {f}
  Windows = {w1, w2}
  Foreign = {}
  Starts <- Together
  Sinks = {s1, s2, s3}
  Scope <- EveryKind
  KeepsOne = TRUE
  MaxMoves = 1
  MaxOutput = 2
  Early = {s1, s3}
  MaxTrouble = 1
  HeldLimit = 1
  Liners = {s1, s2}
  Breaks = {2}
SPECIFICATION LineSpec
INVARIANTS
  LinesAsWritten
CHECK_DEADLOCK FALSE
