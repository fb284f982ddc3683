SPECIFICATION SessionsFairSpec
CONSTANTS
  Requests = {r1, r2, r3}
  NoSession = NoSession
  maxSessions = 1
  idleTtl = 1
INVARIANTS
  WithinMax
  SweepSparesTheBusy
PROPERTIES
  AbandonedIsClosed
  ShutdownEnds
CHECK_DEADLOCK FALSE
