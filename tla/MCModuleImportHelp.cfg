CONSTANTS
    Threads = {t1}
    Keys = {k1, k2}
    Files = {k1, k2}
    File = f1
    FileOf <- Distinct
    Helpers = {t1}
    MaxImports = 3
    MaxDepth = 3
    Message = Message
    NoThread = NoThread
    NoKey = NoKey
SPECIFICATION Spec
CHECK_DEADLOCK FALSE
PROPERTY CyclesAreImports
