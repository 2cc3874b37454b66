SPECIFICATION Spec
CONSTANTS
  Task = {t1, t2, t3}
  RRTasks = {t1, t2, t3}
  Idle = Idle
  MaxPrio = 3
  MaxLock = 2
  RRInterval = 1
SYMMETRY Symmetry
INVARIANTS TypeOK StateNamesList ListsDescending HeadIsExecuting PendingOnlyIfLocked LoopsMatchClosedForms
PROPERTIES LockedTaskKeepsCpu HandoverToHighest
