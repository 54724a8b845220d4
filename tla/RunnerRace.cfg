SPECIFICATION Spec
CONSTANTS
    i1 = i1
    i2 = i2
    d1 = d1
    Instances <- OneInstance
    Definitions <- OneDefinition
    DefinitionOf <- SameDefinition
    InputOf <- LowInput
    Graphs <- RaceGraphs
    MaxRuns = 3
    MaxSteps = 5
    MaxFaults = 1
    MaxEdits = 0
INVARIANTS
    TypeOK
    CompletedWalked
    FailedHasCause
    WaitingHasGate
    RunningIsOwned
    CompletedShowsEnd
    StepsSettled
PROPERTIES
    CancelHolds
    DecisionStays
