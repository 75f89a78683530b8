CONSTANTS
    Workers = {w1, w2}
    Scheduler = s
    MaxBuilds = 3
    MaxFaults = 2
    KeepLatestOnly = TRUE
SPECIFICATION Spec
PROPERTY ImplementsLatest
