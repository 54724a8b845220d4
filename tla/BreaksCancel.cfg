SPECIFICATION SystemSpec
CONSTANTS
    i1 = i1
    i2 = i2
    d1 = d1
    Instances <- OneInstance
    Definitions <- OneDefinition
    DefinitionOf <- SameDefinition
    InputOf <- NoInput
    Graphs <- OneCallGraph
    MaxRuns = 3
    MaxSteps = 3
    MaxFaults = 0
    MaxEdits = 0
    MaxRequests = 1
    BatchSize = 5
PROPERTIES
    CancelledIsFinal
CHECK_DEADLOCK FALSE
