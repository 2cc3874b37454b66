SPECIFICATION LiveSpec
CONSTANTS
    a = a
    b = b
    c = c
    Task = {a, b, c}
    Prio <- MCPrio
    NoHolder = NoHolder
    MayDie = {c}
    MaxNest = 2
    SemMax = 3
INVARIANTS TypeOK Exclusion CountersMatch NoStrandedWaiter
PROPERTIES WaiterGetsIn
