SPECIFICATION FairSpec
CONSTANTS
    Queries <- LongQueries
    MaxQueries = 1
    MultiQueries = FALSE
    EventOnCancellation = TRUE
    HasCaller = TRUE
    CancelCanFail = FALSE
    NetCanDrop = TRUE
INVARIANT ResultsOwned RightResult
PROPERTY PromptCancel ImplementsJob
CHECK_DEADLOCK FALSE
