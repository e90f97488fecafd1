---------------------------- MODULE ListingStore ----------------------------
(***************************************************************************)
(* The two listing tables of the DuckDB store and the statements that      *)
(* ListingRepository runs against them (storage/repositories.py, with the  *)
(* keys of storage/schema.py).                                             *)
(*                                                                         *)
(* Table listing is a function from listing_id to its row, or Null; table  *)
(* listing_snapshot is a function from the primary key (listing_id,        *)
(* snapshot_at) to the point stored there, or Null.  A statement is        *)
(* autocommitted: it happens wholly or, when it raises, not at all.        *)
(*                                                                         *)
(* The columns no decision depends on (area, layout, floor, provenance)    *)
(* are left out: they are copied from the observation exactly as price and *)
(* status are.                                                             *)
(***************************************************************************)
EXTENDS Integers, Sequences

CONSTANTS
    ListingIds,     \* canonical listing ids
    Natives,        \* (source, source_listing_id) pairs
    Communities,    \* resolved community ids
    Instants,       \* snapshot instants
    Prices,         \* asking prices
    Statuses,       \* ListingStatus
    Null            \* no row

ASSUME InstantsAreOrdered == Instants \subseteq Int

\* A ListingObservation.  Listing.validate_seen_range orders the seen range;
\* the parser sets both ends to the snapshot's instant, so the instant lies in
\* the range, and gives identity and snapshot the same status.
Observation ==
    {o \in [listing : ListingIds, native : Natives, community : Communities,
            first : Instants, last : Instants, at : Instants,
            price : Prices, status : Statuses] :
        o.first <= o.at /\ o.at <= o.last}

ListingRow == [community : Communities, native : Natives,
               first : Instants, last : Instants, status : Statuses]

SnapshotPoint == [price : Prices, status : Statuses]

ASSUME NullIsNoRow == Null \notin ListingRow /\ Null \notin SnapshotPoint

ListingTable  == [ListingIds -> ListingRow \union {Null}]
SnapshotTable == [ListingIds -> [Instants -> SnapshotPoint \union {Null}]]

EmptyListings  == [l \in ListingIds |-> Null]
EmptySnapshots == [l \in ListingIds |-> [i \in Instants |-> Null]]

-----------------------------------------------------------------------------
(* upsert_listing *)

least(a, b)    == IF a <= b THEN a ELSE b
greatest(a, b) == IF a >= b THEN a ELSE b

\* Slip of the VALUES list: two columns change places.
RowOfSwapped(o) == [community |-> o.native, native |-> o.community,
                    first |-> o.first, last |-> o.last, status |-> o.status]

RowOf(o) == [community |-> o.community, native |-> o.native,
             first |-> o.first, last |-> o.last, status |-> o.status]

\* Slips of the UPDATE list: the excluded range replaces the stored one; the
\* lower end is compared with the wrong stored column.
MergedRowExcludedRange(row, o) == RowOf(o)
MergedRowWrongColumn(row, o) ==
    IF row = Null THEN RowOf(o)
    ELSE [RowOf(o) EXCEPT !.first = least(row.last, o.first),
                          !.last  = greatest(row.last, o.last)]

\* ON CONFLICT(listing_id): every column comes from the new observation, the
\* seen range is widened.
MergedRow(row, o) ==
    IF row = Null THEN RowOf(o)
    ELSE [RowOf(o) EXCEPT !.first = least(row.first, o.first),
                          !.last  = greatest(row.last, o.last)]

\* UNIQUE(source, source_listing_id): another row already holds the native
\* identity, so the INSERT raises whatever ON CONFLICT(listing_id) says.
NativeTaken(t, o) ==
    \E l \in ListingIds \ {o.listing} : t[l] # Null /\ t[l].native = o.native

UpsertListing(t, o) == [t EXCEPT ![o.listing] = MergedRow(@, o)]

-----------------------------------------------------------------------------
(* append_snapshot *)

PointOf(o) == [price |-> o.price, status |-> o.status]

\* ON CONFLICT(listing_id, snapshot_at) DO UPDATE: the new point replaces one
\* already stored for the same instant.
AppendSnapshot(h, o) ==
    [h EXCEPT ![o.listing] = [@ EXCEPT ![o.at] = PointOf(o)]]

-----------------------------------------------------------------------------
(* Reads *)

\* history(listing_id), as the set of instants that hold a point.
HistoryOf(h, l) == {i \in Instants : h[l][i] # Null}

\* The instant latest_snapshots_for_community picks for one listing.
LatestInstant(h, l) ==
    CHOOSE i \in HistoryOf(h, l) : \A j \in HistoryOf(h, l) : j <= i

ListForCommunity(t, c) == {l \in ListingIds : t[l] # Null /\ t[l].community = c}

-----------------------------------------------------------------------------
(* A batch as the sequence of statements its persistence loop executes:    *)
(* the observations in the provider's order, identity before snapshot.     *)

StatementCount(b) == 2 * Len(b)

ObservationOf(b, k) == b[(k + 1) \div 2]

IsIdentityStatement(k) == k % 2 = 1

\* Statement k of batch b against tables s; once one raised, none follows.
Execute(s, b, k) ==
    LET o == ObservationOf(b, k) IN
    IF s.raised THEN s
    ELSE IF IsIdentityStatement(k)
         THEN IF NativeTaken(s.listing, o)
              THEN [s EXCEPT !.raised = TRUE]
              ELSE [s EXCEPT !.listing = UpsertListing(@, o)]
         ELSE [s EXCEPT !.snapshot = AppendSnapshot(@, o)]

\* The tables after each number of statements of batch b, starting from t, h.
Persisted(t, h, b) ==
    LET run[k \in 0 .. StatementCount(b)] ==
            IF k = 0 THEN [listing |-> t, snapshot |-> h, raised |-> FALSE]
                     ELSE Execute(run[k - 1], b, k)
    IN  run
=============================================================================
