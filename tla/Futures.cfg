SPECIFICATION FairSpec
CONSTANTS
    MaxTasks = 5
    MaxYields = 1
    MaxCalls = 2
    MinCapacity = 4
    Strategies = {"RoundRobin", "Any"}
INVARIANTS JoinSound StaleOnlyInOwnPoll
PROPERTY RoundRobinEnds
CHECK_DEADLOCK FALSE
