SPECIFICATION SafetySpec
CONSTANTS
    None = None
    NumSensors = 1
    Frames = {base_link, lidar}
    BaseLink = base_link
    Transforms = {identity}
    Identity = identity
    Orientations = {level, noseUp}
    Vertical = {noseUp}
    SensorTimeout = 0
    MaxClouds = 1
    Names = {velocity, terrain}
    TerrainBased = {terrain}
    Filtered = {velocity}
    MinCommand <- MCMin
    MaxCommand = 1
    RawCommands = {1}
    Malformed = malformed
    CommandTimeout = 1
    MaxMessages = 1
    MaxClock = 3
    MaxRewinds = 1
    EstimateMessages <- MCValidMessages
    InitialEstimate = "nominal"
    VNames <- MCOneName
    JointNames <- MCOneName
    References <- MCOneReference
    PositionJoints = {}
    VelocityJoints = {}
    Doubled = {}
    JointLow <- MCLow
    JointHigh = 2
    JointStep = 1
    MaxSpeed = 1
    RawTargets = {}
    RawSpeeds = {}
    NaN = NaN
INVARIANTS
    TerrainNeedsScan
    ZeroTimeoutNeverWaits
PROPERTIES
    KeepsReceivers
CHECK_DEADLOCK FALSE
