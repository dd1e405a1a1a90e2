SPECIFICATION EnteredSpec
CONSTANTS
    Callers = {p1, p2}
    Owner = owner
    Conns = {c1, c2, c3}
    StandIns = {c1, c2, c3}
    NoConn = none
    NoTask = notask
    MinSize = 1
    MaxSize = 1
    MaxRemoved = 1
    MaxCancels = 0
PROPERTIES
    WaiterServed
    ClosedPoolDrains
