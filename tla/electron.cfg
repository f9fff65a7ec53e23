\* Two windows over one pane.
CONSTANTS
  r1 = r1
  r2 = r2
  Renderers = {r1, r2}
  Peers = {1, 2}
  Batch = 2
  High = 3
  Low = 2
  MaxEvents = 6
  MaxRefusals = 1
  Suppress = TRUE
  Reloads = FALSE
  Eager = FALSE
SPECIFICATION Spec
SYMMETRY Symmetry
INVARIANTS
  CreditIsKept
  GoneIsForgotten
  InStepAtRest
CHECK_DEADLOCK FALSE
