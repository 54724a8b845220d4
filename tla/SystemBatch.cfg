SPECIFICATION SystemSpec
CONSTANTS
    i1 = i1
    i2 = i2
    d1 = d1
    Instances <- TwoInstances
    Definitions <- OneDefinition
    DefinitionOf <- SameDefinition
    InputOf <- NoInput
    Graphs <- EditedGraphs
    MaxRuns = 3
    MaxSteps = 3
    MaxFaults = 0
    MaxEdits = 1
    MaxRequests = 0
    BatchSize = 1
INVARIANTS
    BoundedDispatch
PROPERTIES
    PendingPickedUp
CHECK_DEADLOCK FALSE
