SPECIFICATION SafetySpec
CONSTANTS
    None = None
    NumSensors = 1
    Frames = {base_link, lidar}
    BaseLink = base_link
    Transforms = {identity}
    Identity = identity
    Orientations = {level}
    Vertical = {}
    SensorTimeout = 1
    MaxClouds = 1
    Names = {}
    TerrainBased = {}
    Filtered = {}
    MinCommand <- MCMin
    MaxCommand = 1
    RawCommands = {}
    Malformed = malformed
    CommandTimeout = 1
    MaxMessages = 1
    MaxClock = 2
    MaxRewinds = 0
    EstimateMessages = {}
    InitialEstimate = "nominal"
    VNames <- MCOneName
    JointNames <- MCOneName
    References <- MCOneReference
    PositionJoints = {1}
    VelocityJoints = {}
    Doubled = {}
    JointLow <- MCLow
    JointHigh = 2
    JointStep = 1
    MaxSpeed = 1
    RawTargets = {0}
    RawSpeeds = {}
    NaN = NaN
INVARIANTS
    GainsAreSent
CHECK_DEADLOCK FALSE
