SPECIFICATION Spec
CONSTANTS
    MachineModel <- MCMachineModel
    SymbolTable <- MCSymbolTable
    EnvSymbols <- MCEnvSymbols
    Declared <- MCDeclared
    Completions <- MCCompletions
    Bodies <- MCBodies
    Contracts <- MCContracts
    Consts <- MCConsts
    MaxAssigns = 2
    Vocabulary <- MCVocabulary
    Spelled <- MCSpelled
INVARIANTS
    RoundTrip
    Sharing
    MeaningKept
CHECK_DEADLOCK FALSE
