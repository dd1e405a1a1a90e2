SPECIFICATION PoolSpec
CONSTANTS
    Threads = {p1, p2}
    Closer = closer
    Sockets = {s1, s2, s3}
    MaxConnections = 2
INVARIANT GoodReturned
CHECK_DEADLOCK FALSE
