SPECIFICATION FairSpec
CONSTANTS
  a1 = a1
  a2 = a2
  a3 = a3
  p1 = p1
  p2 = p2
  Attempts <- TwoAttempts
  Procs <- MCProcs
  Home <- TwoHomes
  NoRec = NoRec
  NoAck = NoAck
  TTL = 1
  MaxPersist = 2
  MaxTime = 2
  HasCAS = TRUE
  Persistent = FALSE
  Patient = FALSE
  Prompt = FALSE
INVARIANTS
  RecordedOutcomeIsTrue
PROPERTIES
  CallsEnd
CHECK_DEADLOCK FALSE
