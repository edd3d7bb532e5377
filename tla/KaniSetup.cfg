SPECIFICATION Spec
CONSTANTS
    Procs = {p1, p2}
    Kinds <- AllKinds
    FaultPoints <- Steps
    MaxFaults = 1
    NixOS = TRUE
    Leftover = FALSE
INVARIANTS
    UndisturbedOutcome
    QuiescentInstalled
