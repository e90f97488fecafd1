SPECIFICATION Spec
CONSTANTS
    l1 = l1
    l2 = l2
    n1 = n1
    n2 = n2
    c1 = c1
    c2 = c2
    p1 = p1
    p2 = p2
    Null = Null
    ListingIds = {l1, l2}
    Natives = {n1, n2}
    Communities = {c1, c2}
    Instants = {1, 2}
    Prices = {p1, p2}
    Statuses = {"active", "withdrawn"}
    Batches <- MCBatches
    Calls = {x, y, z}
    MaxCrashes = 1
SYMMETRY CallSymmetry
INVARIANTS
    TypeOK
    SnapshotsHaveIdentity
    SeenRangeSpansHistory
    RetryConverges
PROPERTIES
    WritesOnlySubject
    StoresWholeBatches
\* every call may have ended
CHECK_DEADLOCK FALSE
