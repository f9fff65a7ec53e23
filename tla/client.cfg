\* Two plain calls, one line that must be refused, a transport that closes
\* either way, and terminators that can be corrupted.
CONSTANTS
  c1 = c1
  c2 = c2
  c3 = c3
  None = None
  Calls = {c1, c2, c3}
  Lists = {}
  Invalid = {c3}
  PayloadKinds = {"percent"}
  MaxPayload = 1
  MaxNotes = 1
  Mangling = TRUE
  CloseStyles = {"async", "sync"}
SPECIFICATION Spec
INVARIANTS
  TypeOK
  OwnReply
  LinesFindTheirReaders
  NobodyWaitsOnAClosedConnection
  ExitBeforeClosed
PROPERTIES
  KeepsPromises
CHECK_DEADLOCK FALSE
