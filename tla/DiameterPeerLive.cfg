CONSTANTS
    r1 = r1
    r2 = r2
    h1 = h1
    h2 = h2
    Reqs <- TwoRequests
    HopIds = {h1}
    Hop <- SharedHop
    Roles = {"passive"}
    RemoteBodies = {"CER"}
    Capacity = 20
    MaxUnanswered = 2
    LateExchange = FALSE
    MaxIngress = 2
    MaxTicks = 0
    MaxSetDowns = 1
SPECIFICATION FairSpec
CHECK_DEADLOCK FALSE
PROPERTIES
    ExchangeAnswered
    ShutdownCompletes
