SPECIFICATION Spec
CONSTANTS
    Null = Null
    Boolean = Boolean
    Marker = Marker
    Malformed = Malformed
    Sources = {"s1"}
    FloorBuckets = {"low", "unknown"}
    Statuses = {"active", "unknown"}
    Texts = {"low", "basement", "unknown", Null}
    Unknown = "unknown"
    Tolerance = 2
    City = "shanghai"
    LianjiaName = "lianjia"
    Cases <- MCCases
    Windows <- MCWindows
    Profiles <- MCProfiles
    Files <- MCFiles
INVARIANTS
    RowsAreAccountedFor
    AcceptedIsPlausible
    SchemaIsLastResort
    AdjoiningWindowsAddUp
PROPERTIES
    BuiltAsConfigured
    RefreshIsStable
\* a start that is refused ends the process
CHECK_DEADLOCK FALSE
