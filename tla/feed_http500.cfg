SPECIFICATION FeedSpec
CONSTANTS
  c1 = c1
  c2 = c2
  c3 = c3
  p1 = p1
  p2 = p2
  Calls <- MCCalls
  Payloads <- MCPayloads
  Chunks <- MCChunks
  MaxAttempts = 2
  Faults = {"http500"}
  Sequential = TRUE
  Durable = TRUE
INVARIANT NoDoubleFeed
CHECK_DEADLOCK FALSE
