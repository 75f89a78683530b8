SPECIFICATION Spec
CONSTANTS
    Worker = {w1, w2}
    Scheduler = scheduler
    Nobody = nobody
    Iterations = 2
    Jobs = 2
    WithTests = FALSE
CHECK_DEADLOCK FALSE
INVARIANTS GraphRaceFree
PROPERTY ReachesSummary
