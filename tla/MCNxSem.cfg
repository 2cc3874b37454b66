SPECIFICATION LiveSpec
CONSTANTS
  t1 = t1
  t2 = t2
  t3 = t3
  Task = {t1, t2, t3}
  Prio <- MCPrio
  Calls <- Mixed
  InitValue = 1
  SEM_VALUE_MAX = 6
  ResetCounts = {0, 2}
  MaxPosts = 2
INVARIANTS TypeOK CountMatchesWaiters
PROPERTIES ImplementsAbsSem NoStaleTimeout TimedWaitReturns
CHECK_DEADLOCK FALSE
