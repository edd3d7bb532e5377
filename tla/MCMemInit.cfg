SPECIFICATION Spec
CONSTANTS
    Objects <- MCObjects
    Size = 3
    Layouts <- MCLayouts
    MaxElts = 2
    Copies <- MCCopiesPlain
    Calls <- MCCallsItem
INVARIANTS NoMissedUB NoFalseAlarm
CHECK_DEADLOCK FALSE
