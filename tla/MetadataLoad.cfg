SPECIFICATION SafetySpec
CONSTANTS
    Names <- MCNames
    CommandNames <- MCCommandNames
    RobotJoints <- MCRobotJoints
    Bodies <- MCBodies
    Metadata <- MCMetadata
    Indeterminate <- MCIndeterminate
INVARIANTS
    TypeOK
    SlicesFit
    CommandsByName
    GainsByName
    MissingJointsUnused
    WheelsWired
CHECK_DEADLOCK FALSE
