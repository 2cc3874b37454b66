SPECIFICATION Spec
CONSTANTS
    a = a
    b = b
    c = c
    Task = {a, b}
    Prio <- MCPrio
    NoHolder = NoHolder
    Calls <- AllCalls
    MayExit = {}
    MaxNest = 1
PROPERTIES UnlockReleases
