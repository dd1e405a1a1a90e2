SPECIFICATION LibrarySpec
CONSTANTS
    Requests = {h1, h2, l1}
    Low = {l1}
    Workers = {w1, w2, w3, w4}
    FirstBorn = {w1, w2}
    NumWorkers = 2
    NoRequest = NoRequest
    MaxSize = 2
    Resubmit = TRUE
    MaxStarts = 2
    MaxCancels = 1
    MaxRaises = 1
    Users = {p1, p2}
    Operator = op
    FailureLimit = 2
    SuccessLimit = 1
    MaxFailures = 3
    Getters = {p1, p2}
    Resetter = r
    MaxLoads = 2
    MaxResets = 2
    Threads = {p1, p2, p3}
    Closer = closer
    Sockets = {s1, s2, s3}
    MaxConnections = 2
    c1 = c1
    c2 = c2
    c3 = c3
    Clients = {c1, c2, c3}
    Address <- MCAddress
    Blacklist = {"c"}
    Whitelist = {"a"}
    WhitelistMode = FALSE
    Rate = 1
    Burst = 2
    Share = 2
    MaxAge = 2
    MaxTime = 3
    MaxChecks = 4
    MaxEntries = 2
    MaxMemory = 3
    SizeOf <- MCSizeOf
    NoData = 0
    Askers = {p1, p2}
    MaxTries = 2
    MaxAsked = 3
    MaxNow = 1
    BatchSize = 3
    RequestIds = {a, b}
    ChunkSizes = {2}
    Overlaps = {0, 1, 2}
    MaxRounds = 6
    RequestKeys <- CacheRequests
    Cacheable = {"file/list", "data/read"}
    Changes <- CacheChanges
    TTL <- LivesFor
    Contents <- Files
    Bytes = {2}
    Sought <- Search
    Names <- TierNames
    Ahead <- NextKeys
    WeightOf <- KeyWeight
    Limits <- TierLimits
    Threshold = 1
    MaxCalls = 4
    Calls = {p1, p2}
    MaxAttempts = 2
    MaxConcurrent = 1
    MaxThreads = 1
    Watchers = {p1, p2}
    Durations = {1, 1500}
    MaxEvents = 2
    Never = Never
SYMMETRY Symmetry
INVARIANTS
    ActiveExact
    ServiceKept
    RateExact
    PoolCounted
    OpenCanRecover
    LazyRight
    CacheExact
    HitsFresh
    RepliesPaired
    StreamExact
    TiersExact
    RepeatsExplained
    HealthStands
CHECK_DEADLOCK FALSE
