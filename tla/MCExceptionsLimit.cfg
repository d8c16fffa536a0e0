SPECIFICATION Spec
CONSTANTS
    Classes = {"Error", "Warning"}
    Guards = {{"Error"}, {"Exception"}}
    MaxEngines = 3
    MaxSteps = 4
INVARIANT
    LimitUnwindsHaveTargets
