SPECIFICATION Spec
CONSTANTS
    Programs <- MCPrograms
INVARIANTS
    ClosedModel
    UbTracked
    MetadataRight
PROPERTIES
    Refinement
CHECK_DEADLOCK FALSE
