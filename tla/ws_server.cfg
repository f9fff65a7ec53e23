\* Three calls, two of them with the same id, one in flight at a time; a
\* watermark of one message.
CONSTANTS
  c1 = c1
  c2 = c2
  c3 = c3
  i1 = i1
  i2 = i2
  None = None
  Calls = {c1, c2, c3}
  Ids = {i1, i2}
  IdOf <- SecondUse
  MaxInflight = 1
  HeartbeatOn = TRUE
  High = 1
SPECIFICATION ServerFairSpec
INVARIANTS
  RepliedOnce
  ReleasedOnClose
  FirstFatalReported
PROPERTIES
  DeadConnectionsClose
  LaggingPeerResumes
CHECK_DEADLOCK FALSE
