SPECIFICATION SafetySpec
CONSTANTS
    Terms <- MCTerms
    LastAction = "last_action"
    Length <- MCLength
    ClipMin <- MCClipMin
    ClipMax <- MCClipMax
    Readings <- MCReadings
    Actions <- MCActions
    States <- MCStates
    NumInputs = 2
    NumOutputs = 2
    InputShape <- LstmShape
    OutputShape <- LstmShape
    Partner <- LstmPartner
    MaxRuns = 5
INVARIANTS
    StatesAreFedBack
CHECK_DEADLOCK FALSE
