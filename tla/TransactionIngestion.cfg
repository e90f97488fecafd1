SPECIFICATION FairSpec
CONSTANTS
    Null = Null
    x = x
    y = y
    c1 = c1
    c2 = c2
    Sources = {"s1", "s2"}
    FloorBuckets = {"low", "unknown"}
    Unknown = "unknown"
    Texts = {"low", "basement", "unknown"}
    Tolerance = 2
    Calls = {x, y}
    Communities = {c1, c2}
    Windows <- MCWindows
    Fetches <- MCFetches
    MaxCrashes = 1
INVARIANTS
    RecordsAccounted
    FirstAcceptableKept
    StoredDealWasAccepted
    ReportedIsStored
PROPERTIES
    ReturnDescribesTable
    CallsEnd
\* every call may have ended
CHECK_DEADLOCK FALSE
