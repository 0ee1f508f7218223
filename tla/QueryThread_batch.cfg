SPECIFICATION FairSpec
CONSTANTS
    Queries <- BatchQueries
    MaxQueries = 2
    MultiQueries = TRUE
    EventOnCancellation = FALSE
    HasCaller = TRUE
    CancelCanFail = TRUE
    NetCanDrop = TRUE
INVARIANT TypeOK ConnReusable OneEventPerQuery PendingEventsHaveData CancelOnlyOwnQuery AtMostOneSentAfterCancel
PROPERTY AnnouncedResultStable QueryAnswered CancelEndsAllButCopy
CHECK_DEADLOCK FALSE
