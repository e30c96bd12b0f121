CONSTANTS
    s1 = s1
    r1 = r1
    r2 = r2
    p1 = p1
    Reqs = {r1, r2}
    Ports = {p1}
    MaxSockets = 3
    Servers = {s1}
    Group <- OneServer
    Random = FALSE
    Dests <- AllDests
    Tries <- TwoTries
    ErrorLimit = 1
    Quarantine = 0
    Capacity = 8
    LateRequests = FALSE
    MaxEvents = 1
SPECIFICATION FairSpec
CHECK_DEADLOCK FALSE
INVARIANTS
    OneAnswerPerRequest
    
PROPERTIES
    
    CloseCompletes
