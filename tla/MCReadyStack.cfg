CONSTANTS
    Threads = {t1,t2}
    Values = {v1,v2,v3,v4}
    NoValue = NoValue
    FirstChunk = 1
    MaxChunks = 2
    Nil = Nil
    Generations = 32
SPECIFICATION Spec
SYMMETRY Symmetry
INVARIANTS NodesAreInPlace NoMissingChunk
PROPERTY ImplementsLifoStack
