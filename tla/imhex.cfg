SPECIFICATION FairPartsSpec
CONSTANTS
    asker = asker
    other = other
    None = None
    NoTree = NoTree
    Conns <- MCConns
    Requests <- MCRequests
    Files <- MCFiles
    Magics <- MCMagics
    ReadOnly = {"b"}
    Algorithms = {"md5"}
    LowerCase <- MCLower
    Printable = {1}
    Word = 32
    IntWord = 16
    MaxBuffer = 10
    MaxRead = 6
    MaxScan = 4
    MaxCode = 4
    SearchChunk = 3
    BatchChunk = 3
    MatchLimit = 3
    InspectBytes = 4
    CompareBytes = 4
    MaxIds = 2
    MaxTasks = 2
    Patient = TRUE
    Data <- MCData
    Targets <- MCTargets
    Reference = 1
    MaxDiffSize = 4
    MaxPolls = 2
    MaxRegions = 5
    NumRequests = 3
    Ids = {a, b, c}
INVARIANTS
    AnswersExact
    SearchesComplete
    OneProviderPerPath
    DiffsOwn
    SummaryRight
    OrderKept
    UnresolvedExactly
    AnswersInPlace
PROPERTY
    BatchEnds
CHECK_DEADLOCK FALSE
