SPECIFICATION SafetySpec
CONSTANTS
    Names <- MCNames
    CommandNames <- MCCommandNames
    RobotJoints <- MCRobotJoints
    Bodies <- MCBodies
    Metadata <- ExportedWithScan
    Indeterminate <- MCIndeterminate
INVARIANTS
    MatchingIsLoaded
CHECK_DEADLOCK FALSE
