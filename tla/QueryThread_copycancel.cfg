SPECIFICATION FairSpec
CONSTANTS
    Queries <- CopyOutQueries
    MaxQueries = 1
    MultiQueries = FALSE
    EventOnCancellation = TRUE
    HasCaller = TRUE
    CancelCanFail = FALSE
    NetCanDrop = FALSE
PROPERTY CancelEndsThread
CHECK_DEADLOCK FALSE
