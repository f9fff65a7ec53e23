\* Two processes with one listener at a time, a relay that is asked for again
\* while it is being given up, two changes of a window, a window with a hook of
\* its own; the hook is removed once and a command refused once.
CONSTANTS
  r1 = r1
  r2 = r2
  Relays = {r1, r2}
  Windows = {w1, w2, w3}
  Shadowed = {w3}
  Found = {"foreign"}
  Cap = 2
  Listeners = 1
  MaxCalls = 2
  MaxChanges = 2
  MaxClears = 1
  MaxRefusals = 1
  ClearAnytime = FALSE
SPECIFICATION Spec
SYMMETRY Interchangeable
INVARIANTS
  NothingMissed
  CoverageFollowsCalls
  HookComesBack
CHECK_DEADLOCK FALSE
