SPECIFICATION Spec
CONSTANTS
    None = None
    BaseLink = base_link
    Frames = {base_link, lidar}
    Identity = identity
    Transforms = {identity, mount1, mount2}
    Orientations = {level}
    Vertical = {}
    NumSensors = 2
    Timeout = 1
    MaxClock = 3
    MaxClouds = 1
    MaxRewinds = 0
INVARIANTS
    SameFrameSameExtrinsics
    EverySensorBeforeReady
PROPERTIES
    PendingResolves
CHECK_DEADLOCK FALSE
