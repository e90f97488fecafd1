SPECIFICATION Spec
CONSTANTS
    o1 = o1
    o2 = o2
    c1 = c1
    c2 = c2
    g = g
    v = v
    w = w
    Null = Null
    ObservationIds = {o1, o2}
    Cities = {c1, c2}
    Codes = {g}
    Days = {1, 2, 3}
    Values = {v, w}
    Calls = {x, y, z}
    Batches <- MCBatches
    MaxCrashes = 1
INVARIANTS
    StoredAsPublished
    WindowsNeverOverlap
PROPERTIES
    OnlyOwnCityGains
    ReturnDescribesSeries
\* every call may have ended
CHECK_DEADLOCK FALSE
