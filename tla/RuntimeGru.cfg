SPECIFICATION SafetySpec
CONSTANTS
    Terms <- MCTerms
    LastAction = "last_action"
    Length <- MCLength
    ClipMin <- MCClipMin
    ClipMax <- MCClipMax
    Readings <- MCReadings
    Actions <- MCActions
    States <- MCStates
    NumInputs = 2
    NumOutputs = 2
    InputShape <- GruInputShape
    OutputShape <- GruOutputShape
    Partner <- GruPartner
    MaxRuns = 5
INVARIANTS
    TypeOK
    WindowOfRuns
    ObservesLastAction
    StatesAreFedBack
CHECK_DEADLOCK FALSE
