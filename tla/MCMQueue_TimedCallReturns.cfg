SPECIFICATION LiveSpec
CONSTANTS
    a = a
    b = b
    c = c
    Task = {a, c}
    Prio <- MCPrio
    NoTask = NoTask
    NoMsg = NoMsg
    Calls <- MCCalls
    MayDie = {}
    Fixed = {f1}
    Irq = {i1}
    Heap = {}
    MsgPrio = {0}
    maxmsgs = 1
PROPERTIES TimedCallReturns
