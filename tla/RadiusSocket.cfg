CONSTANTS
    r1 = r1
    r2 = r2
    r3 = r3
    r4 = r4
    e1 = e1
    Reqs = {r1, r2, r3, r4}
    Endpoints = {e1}
    Dest <- SameServer
    AccessReqs = {r1, r3}
    Tries <- FirstRetried
    MaxId = 2
    Capacity = 20
    NotRequests = {r4}
    Unencodable = {r3}
    Faults = {"read", "write", "decode"}
    MaxResponses = 1
    MaxCloses = 1
SPECIFICATION FairSpec
CHECK_DEADLOCK FALSE
INVARIANTS
    OneAnswerPerRequest
    LateAnswersHarmless
PROPERTIES
    RequestAnswered
