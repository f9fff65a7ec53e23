\* Two streams of one client, a mount each or two on one of them, a lost
\* connection, and a command refused or a pane resized.
CONSTANTS
  Panes = {p1, p2}
  Short = {p2}
  MaxOutput = 1
  MaxMounts = 2
  MaxDrops = 1
  MaxEvents = 1
  Cap = 1
SPECIFICATION FairSpec
INVARIANTS
  NothingVanishes
  OneCapture
PROPERTIES
  SeedSettles
CHECK_DEADLOCK FALSE
