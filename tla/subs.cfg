\* Every interleaving of requests, replies and departures but the unruly ones.
CONSTANTS
  p1 = p1
  p2 = p2
  a = a
  b = b
  None = None
  Peers = {p1, p2}
  Args = {a, b}
  Refusable = {a}
  MaxCalls = 4
  Unruly = {}
SPECIFICATION Spec
INVARIANTS
  OwnersAreLive
  Lockstep
  TmuxFollowsLedger
PROPERTY
  CallSettles
CHECK_DEADLOCK FALSE
