SPECIFICATION MCSpec
CONSTANTS
  Orders = {o1, o2}
  Sessions = {s1}
  ToolCalls = {t1, t2}
  Nothing = Nothing
  Caps <- MCCaps
  Packages = 2
  Estimates <- MCEstimates
  cooldown = 2
  maxPerHour = 1
  HOUR_MS = 1
  TTL = 1
  Durable = TRUE
  MaxPreviews = 2
  MaxRestarts = 1
  MaxTime = 2
  McpSessions = {m1, m2, m3}
  Nobody = Nobody
  MaxMinted = 3
  maxEntries = 2
  maxEntriesPerSession = 2
  previewTtl = 1
  retentionMs = 1
  SWEEP_INTERVAL_MS = 1
  LastTick = 2
  c1 = c1
  c2 = c2
  Old = Old
  Calls <- MCCalls
  Mixes <- MCMixes
  MaxAttempts = 2
  Amount = 2
  Total = 3
  AbortReasons = {"AbortError", "TimeoutError"}
INVARIANTS
  WithinCap
  SentOnceAsReviewed
  ReprintsSpaced
  AnswersAreTrue
  WrittenOnce
  DenialIsTrue
  VerifiedStands
  WithinBalance
PROPERTIES
  FairEviction
SYMMETRY MCSymmetry
CHECK_DEADLOCK FALSE
