\* A tiled and a floating pane, two windows of the client's session and one
\* of another, a sink on each of the two.
CONSTANTS
  p = p
  f = f
  w1 = w1
  w2 = w2
  w3 = w3
  s1 = s1
  s2 = s2
  Panes = {p, f}
  Floating = {f}
  Windows = {w1, w2, w3}
  Foreign = {w3}
  Starts <- PlacesAtFirst
  Sinks = {s1, s2}
  Scope <- OneWindowEach
  KeepsOne = TRUE
  MaxMoves = 1
  MaxOutput = 1
  Early = {s1}
  MaxTrouble = 1
  HeldLimit = 1
SPECIFICATION FairSpec
INVARIANTS
  TableConverges
PROPERTIES
  RoutedHome
  NothingLost
  QueriesSettle
CHECK_DEADLOCK FALSE
