SPECIFICATION FairSpec
CONSTANTS
    MaxRuns = 3
    AutoRollback = TRUE
    AutoCommit = FALSE
    Macros = FALSE
    QuickFail = FALSE
INVARIANTS
    TypeOK
    NoOverlap
    
    ReportFitsAnswer
    AutoRollbackDone
PROPERTIES
    ExecutionCompletes
    
CHECK_DEADLOCK FALSE
