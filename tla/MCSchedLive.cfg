SPECIFICATION LiveSpec
CONSTANTS
  Task = {t1, t2, t3}
  RRTasks = {t1, t2, t3}
  Idle = Idle
  MaxPrio = 1
  MaxLock = 1
  RRInterval = 2
PROPERTY RoundRobinShares
