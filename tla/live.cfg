SPECIFICATION LiveSpec
CONSTANTS
    Callers = {p1, p2, p3}
    FailureThreshold = 2
    SuccessThreshold = 2
    Requests = {h1, h2, l1}
    Low = {l1}
    Workers = {w1, w2}
    NumWorkers = 2
    NoRequest = NoRequest
    MaxSize = 1
    Resubmit = FALSE
    MaxStarts = 1
    MaxCancels = 1
    MaxRaises = 0
    Used = {"imhex_open_file", "imhex_write_hex", "imhex_batch_search", "imhex_data_statistics", "imhex_no_such_tool"}
    MaxRetries = 2
    MaxParts = 2
    MaxCalls = 2
INVARIANTS
    NothingOverdue
    
PROPERTIES
    LegalMoves
    Recovers
    AllServed
    CallReturns
CHECK_DEADLOCK FALSE
