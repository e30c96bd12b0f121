SPECIFICATION Spec
CONSTANTS
    Cdrs = {c0, c1, c2}
    OldCdrs = {c0, c1}
    Kinds = {"elastic"}
    MaxFiles = 3
    Capacity = 1
    Threshold = 1
    Glitch = 1
    ChunkSize = 1
    MaxFaults = 1
INVARIANT LostOnlyByStop
CHECK_DEADLOCK FALSE
