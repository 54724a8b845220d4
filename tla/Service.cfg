SPECIFICATION ServiceSpec
CONSTANTS
    Text <- AnyText
    Drafts <- SomeDrafts
    Edits <- SomeEdits
    Databases <- SomeDatabases
    Posts <- SomePosts
    Lowered <- LowerCase
    MaxRequests = 1
    MaxWork = 1
    MaxCuts = 1
INVARIANTS
    SeededUnlessCut
PROPERTIES
    SeedOnlyAdds
    StartsUnlessRenamed
CHECK_DEADLOCK FALSE
