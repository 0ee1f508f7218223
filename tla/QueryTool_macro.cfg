SPECIFICATION Spec
CONSTANTS
    MaxRuns = 2
    AutoRollback = TRUE
    AutoCommit = FALSE
    Macros = TRUE
    QuickFail = FALSE
INVARIANT TabRemembered
CHECK_DEADLOCK FALSE
