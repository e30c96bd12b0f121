CONSTANTS
    r1 = r1
    r2 = r2
    h1 = h1
    h2 = h2
    Reqs = {}
    HopIds = {}
    Hop <- NoHop
    Roles = {"active", "passive"}
    RemoteBodies = {"CER", "CERbad", "DWR", "DPR", "CEA", "CEAbad", "DWA", "DWAbad", "REQ", "unknown"}
    Capacity = 20
    MaxUnanswered = 0
    LateExchange = FALSE
    MaxIngress = 2
    MaxTicks = 2
    MaxSetDowns = 0
SPECIFICATION Spec
CHECK_DEADLOCK FALSE
INVARIANTS
    TypeOK
    SilentPeerGivenUp
