CONSTANTS
    Main = main
    Workers = {w1, w2}
    Base = 2
    MaxWorkers = 2
    MaxSends = 1
    Pausers = {main}
    MaxPauses = 1
    Blockers = {}
    MayFail = FALSE
    NoWorker = NoWorker
SPECIFICATION FairSpec
CHECK_DEADLOCK FALSE
PROPERTY DestructorReturns
