SPECIFICATION Spec
CONSTANTS
    Callers = {p1, p2}
    Conns = {c1, c2}
    NoConn = NoConn
    Keys = {r, w}
    Writes = {w}
    NoAnswer = NoAnswer
    UseCache = TRUE
    MaxAttempts = 2
    MaxRequests = 3
    MaxCancels = 0
SYMMETRY Symmetry
INVARIANT SeesCompletedWrites
CHECK_DEADLOCK FALSE
