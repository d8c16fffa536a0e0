CONSTANTS
    Main = main
    Workers = {w1, w2, w3}
    Base = 2
    MaxWorkers = 4
    MaxSends = 2
    Pausers = {}
    MaxPauses = 0
    Blockers = {w1, w2, w3}
    MayFail = FALSE
    NoWorker = NoWorker
SPECIFICATION Spec
CHECK_DEADLOCK FALSE
INVARIANT EnoughRemainFree
