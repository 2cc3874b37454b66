SPECIFICATION LiveSpec
CONSTANTS
    k1 = k1
    k2 = k2
    w1 = w1
    w2 = w2
    p1 = p1
    a = a
    b = b
    Worker = {k1, k2}
    Work = {w1, p1}
    Periodic = {p1}
    Requeue = {w1}
    Task = {a}
    Canceller = {a}
    Delay = {0, 1}
    Nobody = Nobody
    Ticks = 6
    MaxLag = 0
    MaxSem = 2
INVARIANTS NoStrandedWork TimerIsForFirst QueuedIsListed CancelSyncWaits
PROPERTIES QueuedWorkRuns CancelSyncReturns
