SPECIFICATION FairSpec
CONSTANTS
    Null = Null
    Boolean = Boolean
    Marker = Marker
    Malformed = Malformed
    Unknown = "unknown"
    Names = {"n1", "n2"}
    FloorBuckets = {"low", "unknown"}
    Statuses = {"active", "withdrawn", "unknown"}
    ListingIds = {"l1", "l2"}
    StableId <- MCIds
    Communities = {"c1", "c2"}
    Instants = {1, 2}
    Files <- MCFiles
    Calls = {"x", "y"}
    MaxCrashes = 1
INVARIANTS
    StoredWasRecorded
    RecordedNeverClashes
    EmptyMarketIsRecorded
PROPERTIES
    CallsEnd
\* every call may have ended
CHECK_DEADLOCK FALSE
