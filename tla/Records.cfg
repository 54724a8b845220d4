SPECIFICATION RecordsSpec
CONSTANTS
    Text <- AnyText
    Drafts <- SomeDrafts
    Edits <- SomeEdits
    Databases <- SomeDatabases
    Posts <- SomePosts
    Lowered <- LowerCase
    MaxRequests = 3
    MaxWork = 1
INVARIANTS
    RecordsTypeOK
    QuietDeletesSucceed
    TenantsAgree
    DecidedTasksCalled
    CountsAddUp
PROPERTIES
    OnlySavesRevive
    QuietSavesKeepColumns
CHECK_DEADLOCK FALSE
