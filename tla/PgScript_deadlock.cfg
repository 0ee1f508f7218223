SPECIFICATION FairSpec
CONSTANTS
    w1 = w1
    w2 = w2
    NoWindow = NoWindow
    Windows <- TwoWindows
    Closable = {}
    Scripts <- PrintQueryScripts
    MaxRuns = 1
PROPERTIES
    PrintPrints
CHECK_DEADLOCK FALSE
