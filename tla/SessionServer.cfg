SPECIFICATION FairSpec
CONSTANTS
    s1 = s1
    s2 = s2
    q1 = q1
    Names = {s1, s2}
    SendTo <- Pair
    OwnName <- Wrong
    KnownAs <- Right
    MaxSeenBy = 2
    Sources <- WithAccess
    MayClose = {s2}
    Queries = {q1}
    QueryAt <- QueryS2
    MaxCopies = 2
    MaxHandled = 4
CHECK_DEADLOCK FALSE
INVARIANTS
    NoReplicationLoop
    AckedIsStored
    
PROPERTIES
    
    Replicated
