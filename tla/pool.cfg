SPECIFICATION Spec
CONSTANTS
    Callers = {p1, p2}
    Owner = owner
    Conns = {c1, c2, c3, real}
    StandIns = {c1, c2, c3}
    NoConn = none
    NoTask = notask
    MinSize = 2
    MaxSize = 2
    MaxRemoved = 1
    MaxCancels = 1
SYMMETRY Symmetry
INVARIANTS
    ExclusiveUse
    PermitsBounded
    GaugesExact
    DrainedStaysEmpty
PROPERTY KeepsPromise
CHECK_DEADLOCK FALSE
