SPECIFICATION Spec
CONSTANTS
    a = a
    b = b
    c = c
    p = p
    Task = {a, b}
    Poller = {}
    None = None
    NSIGNALS = 2
    NPOLLWAITERS = 1
    MaxEdges = 2
INVARIANTS CallbackValid
CHECK_DEADLOCK FALSE
