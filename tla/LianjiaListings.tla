--------------------------- MODULE LianjiaListings ---------------------------
(***************************************************************************)
(* The Lianjia current-listing row parser                                  *)
(* (providers/lianjia/listing_parser.py) and the document that             *)
(* RecordedLianjiaListingProvider replays.  What it makes of a row is a    *)
(* ListingObservation of ListingStore; amounts are in tenths.              *)
(***************************************************************************)
EXTENDS RecordedSnapshot

CONSTANTS
    ListingIds,     \* canonical listing ids
    StableId        \* stable_id("lst", "lianjia", name), by name

\* A hash of source and native id; that no two names collide is idealized.
ASSUME IdsAreDerived == StableId \in [Names -> ListingIds]
ASSUME IdsDiffer == \A m, n \in Names : StableId[m] = StableId[n] => m = n

\* The fields in the order in which parse_listing_row converts them.
ListingFields ==
    <<"snapshot_at", "list_price", "unit_price", "area", "built_year",
      "orientation", "building_type", "layout", "title", "floor", "status">>

Positive(n) == n = Null \/ n > 0

\* Listing, ListingSnapshot: the constraints on what the row measures.
FitsListingSchema(row) ==
    LET year == Value(row, "built_year")
    IN  /\ Value(row, "list_price") > 0
        /\ Positive(Value(row, "unit_price"))
        /\ Positive(Value(row, "area"))
        /\ year # Null => 1800 <= year /\ year <= 2200

\* The row's own snapshot time, or the batch's.
ObservedAt(row, at) ==
    IF Value(row, "snapshot_at") = Null THEN at ELSE Value(row, "snapshot_at")

StatusOf(row) == IF Value(row, "status") = Null THEN Unknown ELSE Value(row, "status")

BuildListingId(native) == StableId[native]

\* Slip: an id of its own for every snapshot that states its instant.
ObservationPerSnapshot(row, snapshot) ==
    LET native == Value(row, "id")
        at     == ObservedAt(row, snapshot.at)
        own    == CHOOSE l \in ListingIds : l # BuildListingId(native)
    IN  [listing |-> IF at = snapshot.at THEN BuildListingId(native) ELSE own,
         native |-> native, community |-> snapshot.community,
         first |-> at, last |-> at, at |-> at,
         price |-> Value(row, "list_price"), status |-> StatusOf(row)]

\* The ListingObservation of a row: one instant is all that it proves.
ObservationOfRow(row, snapshot) ==
    LET native == Value(row, "id")
        at     == ObservedAt(row, snapshot.at)
    IN  [listing |-> BuildListingId(native), native |-> native,
         community |-> snapshot.community, first |-> at, last |-> at, at |-> at,
         price |-> Value(row, "list_price"), status |-> StatusOf(row)]

\* parse_listing_row: why the row is refused, or Null.
ListingRefusal(row, at) ==
    LET refusal == Refusal(row, ListingFields, at)
    IN  IF refusal # Null THEN refusal
        ELSE IF Value(row, "list_price") = Null
             THEN Reject(at, "schema_invalid", "list_price")
        ELSE IF ~ FitsListingSchema(row) THEN Reject(at, "schema_invalid", Null)
        ELSE Null

\* parse_listing_row, and the outcome's place in the ListingParseResult.
ParseListingRow(p, row, snapshot) ==
    LET refusal == ListingRefusal(row, Taken(p) + 1)
    IN  IF refusal = Null THEN WithRecord(p, ObservationOfRow(row, snapshot))
        ELSE WithRejection(p, refusal)

\* Slip: rows that are missing or no array are an empty market.
LoadListingSnapshotLeniently(file) ==
    IF IsDocument(file) /\ file.community # Null /\ file.at # Null
    THEN [community |-> file.community, at |-> file.at,
          rows |-> IF file.rows = Null THEN <<>> ELSE file.rows]
    ELSE Null

\* load_listing_snapshot; Null: LianjiaSnapshotError.
LoadListingSnapshot(file) ==
    IF IsDocument(file) /\ file.community # Null /\ file.at # Null /\ file.rows # Null
    THEN [community |-> file.community, at |-> file.at, rows |-> file.rows]
    ELSE Null

\* fetch_current_listings refuses a batch recorded for another community.
Answers(snapshot, community) == snapshot # Null /\ snapshot.community = community
=============================================================================
