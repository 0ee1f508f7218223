SPECIFICATION FairSpec
CONSTANTS
    w1 = w1
    w2 = w2
    NoWindow = NoWindow
    Windows <- TwoWindows
    Closable <- OneWindow
    Scripts <- AllScripts
    MaxRuns = 2
INVARIANTS
    TypeOK
    OneParser
    CompletionIsCurrent
    OutputShown
PROPERTIES
    ScriptCompletes
    UIResponsive
    CancelledScriptEnds
CHECK_DEADLOCK FALSE
