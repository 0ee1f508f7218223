SPECIFICATION Spec
CONSTANTS
    MaxRuns = 2
    AutoRollback = TRUE
    AutoCommit = FALSE
    Macros = FALSE
    QuickFail = FALSE
INVARIANT ConnUnused
CHECK_DEADLOCK FALSE
