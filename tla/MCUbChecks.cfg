SPECIFICATION Spec
CONSTANTS
    Adts <- MCAdts
    Base = 4
    CharLow = 0
    CharHigh = 2
    CharMax = 2
    Fns <- MCFns
    Scenarios <- MCScenarios
    StaticTys <- MCStaticTys
    MaxSteps = 60
INVARIANTS
    PointsToSound
    UbCaught
    NoSpuriousCheck
CHECK_DEADLOCK FALSE
