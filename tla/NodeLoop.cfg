SPECIFICATION Spec
CONSTANTS
    None = None
    NumSensors = 2
    Frames = {base_link}
    BaseLink = base_link
    Transforms = {identity}
    Identity = identity
    Orientations = {level}
    Vertical = {}
    SensorTimeout = 1
    MaxClouds = 2
    Names = {}
    TerrainBased = {}
    Filtered = {}
    MinCommand <- MCMin
    MaxCommand = 1
    RawCommands = {}
    Malformed = malformed
    CommandTimeout = 1
    MaxMessages = 1
    MaxClock = 3
    MaxRewinds = 0
    EstimateMessages <- MCEstimateMessages
    InitialEstimate = "nominal"
    VNames <- MCVNames
    JointNames <- MCJointNames
    References <- MCReferences
    PositionJoints = {2}
    VelocityJoints = {3}
    Doubled = {2}
    JointLow <- MCLow
    JointHigh = 2
    JointStep = 1
    MaxSpeed = 1
    RawTargets = {0, 4}
    RawSpeeds = {3}
    NaN = NaN
INVARIANTS
    TypeOK
    NeverBlind
    EstimateIsUsed
    PoisonIsForGood
    ModesByName
PROPERTIES
    NoGap
    KeepsLoop
    EventuallyRuns
CHECK_DEADLOCK FALSE
