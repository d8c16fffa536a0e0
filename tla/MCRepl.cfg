SPECIFICATION ReplSpec
CONSTANTS
    MaxLines = 3
    MaxPresses = 3
    MaxSends = 1
INVARIANT
    InterruptIsForThisEvaluation
PROPERTY
    CtrlCIsTaken
