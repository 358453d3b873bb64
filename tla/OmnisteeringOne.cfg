SPECIFICATION Spec
CONSTANTS
    NumWheels = 1
    Pi = 4
    Low <- MCLow
    High = 3
    MaxStep = 1
    Positions <- MCPositions
    Headings <- MCHeadings
    Still = still
    MaxPushes = 1
    MaxRestarts = 1
INVARIANTS
    ReferenceIsNearest
PROPERTIES
    RateLimited
    StartsFromMeasurement
    Converges
CHECK_DEADLOCK FALSE
