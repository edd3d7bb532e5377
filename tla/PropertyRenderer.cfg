SPECIFICATION Spec
CONSTANTS
    Sites = 3
    KindSets = {{"assert", "ub", "unwinding", "cover"},
                {"assert", "undefined", "unsupported", "sanity"},
                {"assert", "coverage", "unwinding", "pointer"},
                {"sanity", "coverage", "cover"}}
    ReachChecks = TRUE
    ExtraPtrChecks = FALSE
    Ids <- IdChoices
    ExecSets <- ExecPairs
INVARIANTS
    ReportTrue
