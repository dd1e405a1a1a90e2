SPECIFICATION Spec
CONSTANTS
    Callers = {p1, p2}
    Conns = {c1, c2}
    NoConn = NoConn
    Keys = {r, w}
    Writes = {w}
    NoAnswer = NoAnswer
    UseCache = FALSE
    MaxAttempts = 2
    MaxRequests = 3
    MaxCancels = 1
SYMMETRY Symmetry
INVARIANT AnswersItsCall
CHECK_DEADLOCK FALSE
