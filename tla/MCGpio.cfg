SPECIFICATION Spec
CONSTANTS
    a = a
    b = b
    c = c
    p = p
    Task = {a, b, c}
    Poller = {p}
    None = None
    NSIGNALS = 2
    NPOLLWAITERS = 1
    MaxEdges = 2
SYMMETRY TaskSymmetry
INVARIANTS TypeOK RegistrantsSignalled UnusedIsQuiet NoMissedInterrupt
CHECK_DEADLOCK FALSE
