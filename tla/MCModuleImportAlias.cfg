CONSTANTS
    Threads = {t1}
    Keys = {k1, k2}
    Files = {f1}
    File = f1
    FileOf <- Aliased
    Helpers = {}
    MaxImports = 2
    MaxDepth = 3
    Message = Message
    NoThread = NoThread
    NoKey = NoKey
SPECIFICATION Spec
CHECK_DEADLOCK FALSE
INVARIANT LoadedOnce
