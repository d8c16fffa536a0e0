CONSTANTS
    Actors = {a1, a2}
    Workers = {w1, w2}
    Clients = {main}
    Msgs = {m1, m2, m3}
    WalkLimit = 3
    NoActor = NoActor
    NoMsg = NoMsg
SPECIFICATION Spec
SYMMETRY Symmetry
INVARIANTS TypeOK OneOwner NoLostWakeup ParkedIsRegistered QueuedIsRooted
PROPERTY ImplementsSerialActors
