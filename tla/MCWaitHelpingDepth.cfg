CONSTANTS
    Actors = {1, 2, 3}
    Messages = {1, 2, 3}
    Threads = {t1, t2}
    t1 = t1
    t2 = t2
    Setups <- DeepSetups
    WalkLimit = 8
    MaxHelping = 1
    NoMessage = NoMessage
    NoActor = 0
SPECIFICATION FairSpec
ACTION_CONSTRAINT InOrder
CHECK_DEADLOCK FALSE
PROPERTY EveryMessageSettles
