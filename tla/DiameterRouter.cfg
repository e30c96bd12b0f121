CONSTANTS
    h1 = h1
    h2 = h2
    p1 = p1
    p2 = p2
    r1 = r1
    r2 = r2
    NoPeer = NoPeer
    NoHost = NoHost
    Hosts = {h1}
    ActiveHosts = {h1}
    Peers = {p1, p2}
    Reqs = {r1, r2}
    PeersOf <- ToOnePeer
    Unroutable = {}
    Capacity = 3
    MayClose = TRUE
    LateRequests = FALSE
    MaxAccepts = 1
    MaxReconfigs = 1
SPECIFICATION FairSpec
CHECK_DEADLOCK FALSE
INVARIANTS
    ClosedPeersForgotten
    EngagedPeersUp
PROPERTIES
    RequestAnswered
    CloseCompletes
    ActiveRedialed
