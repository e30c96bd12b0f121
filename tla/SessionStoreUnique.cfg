CONSTANTS
    s1 = s1
    s2 = s2
    v1 = v1
    v2 = v2
    NoValue = NoValue
    SessionIds = {s1, s2}
    Values = {v1, v2}
    Packets <- Lives
    IsUnique = TRUE
    LimboTime = 1
    ExpirationTime = 2
    MaxTime = 5
SPECIFICATION Spec
INVARIANTS
    IndexExact
    ListsExact
    OneAcceptPerValue
PROPERTIES
    ImplementsMap
