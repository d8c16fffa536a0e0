CONSTANTS
    Main = main
    Workers = {w1, w2, w3, w4}
    Base = 2
    MaxWorkers = 3
    MaxSends = 2
    Pausers = {}
    MaxPauses = 0
    Blockers = {w1, w2, w3, w4}
    MayFail = FALSE
    NoWorker = NoWorker
SPECIFICATION Spec
CHECK_DEADLOCK FALSE
INVARIANT WithinCap
