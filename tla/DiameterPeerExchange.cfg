CONSTANTS
    r1 = r1
    r2 = r2
    h1 = h1
    h2 = h2
    Reqs <- TwoRequests
    HopIds = {h1, h2}
    Hop <- OwnHops
    Roles = {"passive"}
    RemoteBodies = {"CER", "DPR"}
    Capacity = 20
    MaxUnanswered = 2
    LateExchange = FALSE
    MaxIngress = 3
    MaxTicks = 0
    MaxSetDowns = 0
SPECIFICATION Spec
CHECK_DEADLOCK FALSE
INVARIANTS
    OneAnswerPerRequest
    ResponsesCorrelated
    DrainedBeforeClose
PROPERTIES
    QuietAfterDown
