SPECIFICATION FairSpec
CONSTANTS
  p1 = p1
  p2 = p2
  c1 = c1
  c2 = c2
  c3 = c3
  k1 = k1
  k2 = k2
  v1 = v1
  v2 = v2
  old = old
  o1 = o1
  o2 = o2
  Pids <- MCPids
  Calls <- MCCalls
  ProcOf <- MCProcOf
  Requests <- MCRequests
  Operators = {o1}
  Keys <- MCKeys
  Values <- MCValues
  Absent = Absent
  Stale = {old}
  Files <- MCFiles
  NoLock = NoLock
  NoSnap = NoSnap
PROPERTIES
  CallsEnd
  IsAtomic
  ReleaseSparesTheLiving
CHECK_DEADLOCK FALSE
