SPECIFICATION FairSpec
CONSTANTS
    contract = contract
    loops = loops
    Harnesses <- MCHarnesses
    Settings <- MCSettings
    UndefinedChecks = TRUE
    RestrictVtable = TRUE
    SanityChecks = TRUE
    Alternatives = 2
    CopyMayFail = TRUE
INVARIANTS
    SuccessMeansModel
PROPERTIES
    AllReturn
