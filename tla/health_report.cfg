SPECIFICATION FairHealthSpec
CONSTANTS
    Watchers = {p1, p2}
    Durations = {1, 1500}
    MaxEvents = 2
    Never = Never
PROPERTY ReportReturns
CHECK_DEADLOCK FALSE
