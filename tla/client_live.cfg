\* One plain call and one that must be refused, under fairness; closing takes
\* a turn, as it does on a child process and a socket.
CONSTANTS
  c1 = c1
  c3 = c3
  None = None
  Calls = {c1, c3}
  Lists = {}
  Invalid = {c3}
  PayloadKinds = {"percent"}
  MaxPayload = 1
  MaxNotes = 1
  Mangling = TRUE
  CloseStyles = {"async"}
SPECIFICATION FairSpec
INVARIANT
  NoRunnerAfterClose
PROPERTIES
  CallSettles
  DetachCloses
CHECK_DEADLOCK FALSE
