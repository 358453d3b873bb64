SPECIFICATION Spec
CONSTANTS
    None = None
    BaseLink = base_link
    Frames = {base_link, lidar}
    Identity = identity
    Transforms = {identity, mount1}
    Orientations = {level, tilted, noseUp}
    Vertical = {noseUp}
    NumSensors = 1
    Timeout = 1
    MaxClock = 4
    MaxClouds = 3
    MaxRewinds = 1
INVARIANTS
    TypeOK
PROPERTIES
    NeverRetransformed
    ConsumedInTime
    KeepsPromise
CHECK_DEADLOCK FALSE
