CONSTANTS
    Actors = {1, 2, 3}
    Messages = {1, 2, 3, 4}
    Threads = {t1, t2}
    t1 = t1
    t2 = t2
    Setups <- BuriedSetups
    WalkLimit = 8
    MaxHelping = 4
    NoMessage = NoMessage
    NoActor = 0
SPECIFICATION Spec
ACTION_CONSTRAINT InOrder
CHECK_DEADLOCK FALSE
INVARIANT NoSilentCycle
SYMMETRY Symmetry
