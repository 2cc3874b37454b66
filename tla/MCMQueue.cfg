SPECIFICATION Spec
CONSTANTS
    a = a
    b = b
    c = c
    Task = {a, b, c}
    Prio <- MCPrio
    NoTask = NoTask
    NoMsg = NoMsg
    Calls <- MCCalls
    MayDie = {b}
    Fixed = {f1}
    Irq = {i1}
    Heap = {h1}
    MsgPrio = {0, 1}
    maxmsgs = 2
INVARIANTS TypeOK CountsMatchLists NoStrandedWaiter StructuresConserved
PROPERTIES NoStaleTimeout ImplementsAbsMQueue
