SPECIFICATION Spec
CONSTANTS
    Names = {velocity, terrain}
    TerrainBased = {terrain}
    Filtered = {velocity}
    MinCommand = 1
    MaxCommand = 3
    RawCommands <- MCRaw
    Malformed = malformed
    Timeout = 1
    MaxClock = 4
    MaxMessages = 2
    MaxRewinds = 1
INVARIANTS
    TypeOK
    CommandInRange
    HistoryDiscarded
    DeadMan
PROPERTIES
    SilenceStops
CHECK_DEADLOCK FALSE
