SPECIFICATION FairServeSpec
CONSTANTS
    Requests = {h1, h2, l1}
    Low = {l1}
    Workers = {w1}
    NumWorkers = 1
    NoRequest = NoRequest
    MaxSize = 2
    Resubmit = TRUE
    MaxStarts = 1
    MaxCancels = 0
    MaxRaises = 0
PROPERTY
    AllServed
