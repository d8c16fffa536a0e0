CONSTANTS
    Actors = {a1, a2}
    Workers = {w1, w2}
    Clients = {main}
    Msgs = {1, 2}
    WalkLimit = 3
    NoActor = NoActor
    NoMsg = NoMsg
SPECIFICATION FairSpec
ACTION_CONSTRAINT InOrder
PROPERTY EverySendSettles
