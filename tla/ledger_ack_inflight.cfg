SPECIFICATION Spec
CONSTANTS
  a1 = a1
  a2 = a2
  a3 = a3
  p1 = p1
  p2 = p2
  Attempts <- MCAttempts
  Procs <- MCProcs
  Home <- MCHome
  NoRec = NoRec
  NoAck = NoAck
  TTL = 0
  MaxPersist = 2
  MaxTime = 1
  HasCAS = TRUE
  Persistent = TRUE
  Patient = FALSE
  Prompt = TRUE
INVARIANTS
  NoSilentSecondPurchase
CHECK_DEADLOCK FALSE
