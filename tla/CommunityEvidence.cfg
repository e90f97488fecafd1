SPECIFICATION Spec
CONSTANTS
    c1 = c1
    c2 = c2
    Null = Null
    ListingIds = {1, 2, 3}
    Natives = {1, 2, 3}
    Communities = {c1, c2}
    Instants = {1, 2}
    Prices = {5, 6, 8, 10}
    Statuses = {"active", "withdrawn"}
    DealIds = {1, 2, 3}
    Days = {1, 2, 3}
    MinimumSampleCount = 2
    Observations <- MCObservations
    Deals <- MCDeals
    ListingOrder <- MCListingOrder
    SnapshotOrder <- MCSnapshotOrder
    DealOrder <- MCDealOrder
INVARIANTS
    EvidenceIsGiven
    EvidencePartitionsTheStore
    MetricsMatchTheTables
    OrderIsIrrelevant
PROPERTIES
    EvidenceStaysInSubject
