SPECIFICATION Spec
CONSTANTS
    Callers = {p1, p2}
    Owner = owner
    Conns = {c1, c2, c3}
    StandIns = {}
    NoConn = none
    NoTask = notask
    MinSize = 1
    MaxSize = 1
    MaxRemoved = 1
    MaxCancels = 0
SYMMETRY Symmetry
INVARIANT AcquireDelivers
