SPECIFICATION MCSpec
CONSTANTS
    N = 3
    AvailableParallelism = 8
    MaxExportThreads = 4
    Strings <- MCStrings
    Names <- MCNames
    IrepName <- MCIrepName
    Artifacts <- MCArtifacts
INVARIANTS ReportedComplete
PROPERTIES
    MainInternerGrows
    ExportsAtomically
