SPECIFICATION LoopSpec
CONSTANTS
    NumWheels = 2
    Pi = 4
    Low <- MCLow
    High = 3
    MaxStep = 2
    Positions <- MCPositions
    Headings <- MCHeadings
    Still = still
    MaxPushes = 1
    MaxRestarts = 1
INVARIANTS
    TypeOK
    WithinLimits
PROPERTIES
    AllOrNothing
CHECK_DEADLOCK FALSE
