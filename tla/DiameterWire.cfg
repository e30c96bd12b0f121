SPECIFICATION Spec
CONSTANTS
    Word = 65535
    AvpTypes <- MCAvpTypes
    Avps <- MCAvps
    Depth <- MCDepth
    Messages <- MCMessages
    Followers <- MCFollowers
    Commands <- MCCommands
    MaxMessages = 2
    MaxCuts = 1
CHECK_DEADLOCK FALSE
INVARIANTS
    ReadAsWritten
    StreamInStep
    PanicsExplained
