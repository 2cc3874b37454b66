SPECIFICATION LiveSpec
CONSTANTS
    a = a
    b = b
    c = c
    Task = {a, b, c}
    Prio <- MCPrio
    NoHolder = NoHolder
    Calls <- AllCalls
    MayExit = {a, b}
    MaxNest = 2
INVARIANTS TypeOK MutualExclusion NoLostWaiter CountIsDepth
PROPERTIES HighestGetsIt
CHECK_DEADLOCK FALSE
