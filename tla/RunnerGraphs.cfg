SPECIFICATION Spec
CONSTANTS
    i1 = i1
    i2 = i2
    d1 = d1
    Instances <- TwoInstances
    Definitions <- OneDefinition
    DefinitionOf <- SameDefinition
    InputOf <- MixedInput
    Graphs <- WalkedGraphs
    MaxRuns = 2
    MaxSteps = 5
    MaxFaults = 1
    MaxEdits = 1
INVARIANTS
    LogIsWalk
    RepeatsNeedCycle
    CompletedWalked
    FailedHasCause
    TaskHasGate
    WaitingHasGate
    StepsSettled
PROPERTIES
    ImplementsLifecycle
