CONSTANTS
    MachineModel <- MCMachineModel
    SymbolTable <- MCSymbolTable
    Objects <- MCObjects
    Adts <- MCAdts
    IntTys <- MCIntTys
    WideValues <- MCWideValues
    Fills = {0, 1}
    Patterns = {0, 85, 255}
    VtableObject = "vt"
    LocalTys <- MCLocalTys
    MaxPath = 4
    Allocs <- MCAllocs
    Consts <- MCConsts
    MaxConsts = 2
SPECIFICATION Spec
INVARIANTS ArithmeticExact DiscriminantRoundTrip LayoutPreserved MemoryExact PointersExact PlacesExact GlobalsExact
