SPECIFICATION Spec
CONSTANTS
    Items <- MCItems
    MaxAvp = 50
    PieceSize = 40
    Packets <- MCPackets
    Secrets <- MCSecrets
    Salt <- MCSalt
    Ids = {1}
    MaxRequests = 2
    MaxExtra = 2
CHECK_DEADLOCK FALSE
INVARIANTS
    
    AnswersItsRequest
    OnlyLateAnswersFail
    WrongSecretRefused
