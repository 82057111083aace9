SPECIFICATION Spec
CONSTANTS
    Delay = 2
    Reserve = 3
    Horizon = 12
INVARIANTS
    TypeOK
    ReserveIsWhatPlayLeft
    DelayIsPerTurn
    FlagReportedOnce
PROPERTIES
    OthersClockUntouched
    ImplementsTable
