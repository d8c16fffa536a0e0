CONSTANTS
    Main = main
    Workers = {w1, w2}
    Base = 1
    MaxWorkers = 2
    MaxSends = 2
    Pausers = {main, w1}
    MaxPauses = 2
    Blockers = {w1, w2}
    MayFail = TRUE
    NoWorker = NoWorker
SPECIFICATION FairSpec
CHECK_DEADLOCK FALSE
INVARIANTS NoWorkerSleepsOnWork NothingLeftBehind
PROPERTIES RunningPoolIsJoined WorkIsDone
