SPECIFICATION SystemSpec
CONSTANTS
    i1 = i1
    i2 = i2
    d1 = d1
    Instances <- OneInstance
    Definitions <- OneDefinition
    DefinitionOf <- SameDefinition
    InputOf <- NoInput
    Graphs <- ShortGraphs
    MaxRuns = 3
    MaxSteps = 3
    MaxFaults = 1
    MaxEdits = 0
    MaxRequests = 2
    BatchSize = 5
INVARIANTS
    SystemTypeOK
    BoundedDispatch
    ResumesAreDecided
PROPERTIES
    ImplementsRunner
CHECK_DEADLOCK FALSE
