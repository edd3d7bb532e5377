SPECIFICATION FairSpec
CONSTANTS
    N = 3
    Jobs = 2
    Modes <- CommandLines
    Synthesize = TRUE
    WritesFiles = TRUE
    KeepTemps = FALSE
    Filtered = TRUE
    Automatic = {2}
    ShouldPanic = {2}
    Outputs <- CbmcOutputs
INVARIANTS
    ExitZeroTrusted
    CleanExit
PROPERTIES
    KeepsVerdicts
