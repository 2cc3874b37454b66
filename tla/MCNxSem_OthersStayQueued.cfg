SPECIFICATION DeleteSpec
CONSTANTS
  t1 = t1
  t2 = t2
  t3 = t3
  Task = {t1, t2, t3}
  Prio <- MCPrio
  Calls <- WaitPost
  InitValue = 0
  SEM_VALUE_MAX = 6
  ResetCounts = {}
  MaxPosts = 1
INVARIANTS OthersStayQueued
CHECK_DEADLOCK FALSE
