---------------------- MODULE TransactionNormalization ----------------------
(***************************************************************************)
(* normalize_transaction (services/transaction_normalization.py): one      *)
(* provider record against a requested window, through the data-quality    *)
(* gates in the order of the code, to a canonical transaction or a         *)
(* rejection with the reason of the first gate that fails.                 *)
(*                                                                         *)
(* Days, areas and amounts are integers, a unit price is a ratio, so that  *)
(* the derived deal_price / area is exact; the tolerance is in percent.    *)
(* Float rounding, NaN and infinity are left out.  Columns no gate reads   *)
(* (layout, orientation, provenance) are left out.                         *)
(***************************************************************************)
EXTENDS Integers

CONSTANTS
    Sources,        \* source_transaction_id
    FloorBuckets,   \* FloorBucket
    Texts,          \* floor_bucket texts of a record, None among them
    Null,           \* None
    Unknown,        \* FloorBucket.UNKNOWN
    Tolerance       \* unit_price_tolerance, percent

\* validate_unit_price_tolerance
ASSUME ToleranceIsSound == Tolerance \in 0 .. 100
ASSUME NullIsNoValue == Null \notin Int /\ Null \notin Sources
ASSUME UnknownIsABucket == Unknown \in FloorBuckets
ASSUME BucketsAreTexts == FloorBuckets \subseteq Texts

Ratio == [num : Int, den : Nat \ {0}]

ASSUME NullIsNoRatio == Null \notin Ratio

\* RawTransactionRecord: measurements are permissive.
Records ==
    [native : Sources \union {Null}, deal_date : Int \union {Null},
     collected : Int, area : Int \union {Null}, deal_price : Int \union {Null},
     listing_price : Int \union {Null}, days_on_market : Int \union {Null},
     unit_price : Ratio \union {Null}, built_year : Int \union {Null},
     floor_bucket : Texts]

\* FUTURE_DEAL_DATE_GRACE, in days.
FutureDealDateGrace == 1

Window == [start : Int \union {Null}, end : Int \union {Null}]

\* Transaction, as pydantic accepts it.
Transaction ==
    [native : Sources, deal_date : Int, collected : Int, area : Int,
     deal_price : Int, listing_price : Int \union {Null},
     days_on_market : Int \union {Null}, unit_price : Ratio,
     built_year : Int \union {Null}, floor_bucket : FloorBuckets]

FitsSchema(t) ==
    /\ t.area > 0
    /\ t.deal_price > 0
    /\ t.unit_price.num > 0
    /\ t.listing_price # Null => t.listing_price > 0
    /\ t.days_on_market # Null => t.days_on_market >= 0
    /\ t.built_year # Null => 1800 <= t.built_year /\ t.built_year <= 2200

-----------------------------------------------------------------------------
(* The gates *)

TooLate(r) == r.deal_date > r.collected + FutureDealDateGrace

\* Slip: the last requested day is left out.
OutOfWindowExclusive(r, w) ==
    \/ w.start # Null /\ r.deal_date < w.start
    \/ w.end # Null /\ r.deal_date >= w.end

OutOfWindow(r, w) ==
    \/ w.start # Null /\ r.deal_date < w.start
    \/ w.end # Null /\ r.deal_date > w.end

\* Slip of a gate: zero passes.
NotPositiveButZero(x) == x = Null \/ x < 0

NotPositive(x) == x = Null \/ x <= 0

abs(n) == IF n < 0 THEN -n ELSE n

\* Slip: a price below the product is never inconsistent.
InconsistentSigned(u, area, price) ==
    100 * (u.num * area - price * u.den) > Tolerance * price * u.den

\* |unit_price * area - deal_price| / deal_price > tolerance
Inconsistent(u, area, price) ==
    100 * abs(u.num * area - price * u.den) > Tolerance * price * u.den

\* Slip: the ratio upside down.
DerivedInverted(r) == [num |-> r.area, den |-> r.deal_price]
Derived(r) == [num |-> r.deal_price, den |-> r.area]

UnitPrice(r) == IF r.unit_price = Null THEN Derived(r) ELSE r.unit_price

\* _coerce_floor_bucket
CoerceFloorBucket(text) == IF text \in FloorBuckets THEN text ELSE Unknown

TransactionOf(r) ==
    [native |-> r.native, deal_date |-> r.deal_date, collected |-> r.collected,
     area |-> r.area, deal_price |-> r.deal_price,
     listing_price |-> r.listing_price, days_on_market |-> r.days_on_market,
     unit_price |-> UnitPrice(r), built_year |-> r.built_year,
     floor_bucket |-> CoerceFloorBucket(r.floor_bucket)]

Accepted == "accepted"

\* The outcome of normalize_transaction: Accepted, or the RejectionReason.
Verdict(r, w) ==
    IF r.native = Null THEN "missing_source_identity"
    ELSE IF r.deal_date = Null THEN "missing_deal_date"
    ELSE IF TooLate(r) THEN "deal_date_in_future"
    ELSE IF OutOfWindow(r, w) THEN "deal_date_out_of_range"
    ELSE IF NotPositive(r.area) THEN "invalid_area"
    ELSE IF NotPositive(r.deal_price) THEN "invalid_deal_price"
    ELSE IF r.listing_price # Null /\ r.listing_price <= 0
         THEN "invalid_listing_price"
    ELSE IF r.days_on_market # Null /\ r.days_on_market < 0
         THEN "invalid_days_on_market"
    ELSE IF r.unit_price # Null /\ r.unit_price.num <= 0
         THEN "invalid_unit_price"
    ELSE IF r.unit_price # Null /\ Inconsistent(r.unit_price, r.area, r.deal_price)
         THEN "inconsistent_unit_price"
    ELSE IF ~ FitsSchema(TransactionOf(r)) THEN "schema_invalid"
    ELSE Accepted

Reasons == {"missing_source_identity", "missing_deal_date",
            "deal_date_in_future", "deal_date_out_of_range", "invalid_area",
            "invalid_deal_price", "invalid_listing_price",
            "invalid_days_on_market", "invalid_unit_price",
            "inconsistent_unit_price", "duplicate_in_batch", "schema_invalid"}
=============================================================================
