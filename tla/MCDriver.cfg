CONSTANTS
    PathKind <- MCPathKind
    RustFlags <- MCRustFlags
    Workspace <- MCWorkspace
    DefaultMembers = {"a"}
    Dependencies = {"serde"}
    StdTargets <- MCStdTargets
    SingleFiles <- MCSingleFiles
    Harness <- MCHarness
    Commands <- MCCommands
    Again <- MCAgain
    MaxRuns = 3
    MaxFaults = 2
    SourceFiles <- MCSourceFiles
SPECIFICATION Spec
INVARIANTS
    GreenMeansVerified
    RedHasReason
    ReplayReproduces
    SourceKept
    ArgumentsKept
    ReportsAgree
