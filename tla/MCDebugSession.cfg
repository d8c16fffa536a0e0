SPECIFICATION Spec
CONSTANTS
    Main = "main"
    Workers = {"worker"}
    Endless = {"main"}
    Program = "program"
    Files = {"program", "library"}
    MaxStops = 2
    MaxInspections = 1
    MaxRequests = 1
INVARIANTS
    NobodyWaitsForTheClient
    HandlesAreCurrent
    BreakpointsAreCurrent
PROPERTY
    DisconnectEnds
