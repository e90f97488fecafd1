---------------------------- MODULE LianjiaCells ----------------------------
(***************************************************************************)
(* What the two Lianjia row parsers share: the scalar converters of        *)
(* providers/lianjia/values.py, the lookup of a field under its aliases,   *)
(* the rejections, and the split of outcomes of providers/parsing.py.      *)
(*                                                                         *)
(* A text is the record of what the converters recognize in it; how they   *)
(* recognize it (NFKC, regular expressions) is left out.  Numbers are in   *)
(* tenths, so that 120.5 is an integer and "is it whole" is a question.    *)
(* Columns no gate and no table of the models reads (layout, orientation,  *)
(* building type, provenance) keep their part in a row's rejection only.   *)
(***************************************************************************)
EXTENDS Integers, Sequences

CONSTANTS
    Names,          \* texts, as identities
    FloorBuckets,   \* FloorBucket
    Statuses,       \* ListingStatus
    Unknown,        \* FloorBucket.UNKNOWN, ListingStatus.UNKNOWN
    Null,           \* None
    Boolean,        \* true or false as a cell
    Marker,         \* a text of UNKNOWN_MARKERS
    Malformed       \* FieldParseError

\* What may stand next to a number; "other" is text no converter allows.
Tokens == {"wan", "yuan", "per", "area", "day", "year", "other"}

Text == [name : Names,
         numbers : Seq(Int),            \* tenths, outside of the tokens
         tokens : SUBSET Tokens,
         buckets : SUBSET (FloorBuckets \ {Unknown}),
         statuses : SUBSET (Statuses \ {Unknown}),
         day : Int \union {Null},       \* a full calendar date
         instant : Int \union {Null}]   \* a timestamp with its UTC offset

Cell == Text \union {Null, Boolean, Marker}

\* The fields of a row, by the names the rejections give them.
Fields == {"id", "deal_date", "snapshot_at", "area", "layout", "title", "floor",
           "orientation", "building_type", "built_year", "listing_price", "list_price",
           "deal_price", "unit_price", "days_on_market", "status"}

\* A row: its entries in order, each under the number of the alias of its field
\* that its normalized key is.  Null is a row that is no mapping.
Entry == [field : Fields, alias : Nat, cell : Cell]

ParseRejectionReason == {"missing_source_identity", "malformed_field",
                         "malformed_row", "schema_invalid"}

\* ParseRejection, with the number of its row.
ParseRejection == [at : Nat, reason : ParseRejectionReason, field : Fields \union {Null}]

ASSUME NullIsNoRejection == Null \notin ParseRejection
ASSUME SentinelsAreNoValues ==
    \A s \in {Null, Boolean, Marker, Malformed} :
        s \notin Int /\ s \notin Names /\ s \notin Text
ASSUME SentinelsDiffer == Null # Malformed /\ Boolean \notin {Null, Marker}
ASSUME UnknownIsKnown == Unknown \in FloorBuckets /\ Unknown \in Statuses
ASSUME BucketsAndStatusesParse ==
    Malformed \notin FloorBuckets \union Statuses
    /\ Null \notin FloorBuckets \union Statuses

-----------------------------------------------------------------------------
(* values.py *)

Normalized(cell) ==
    IF cell = Boolean THEN Malformed
    ELSE IF cell \in {Null, Marker} THEN Null ELSE cell

AreaUnits      == {"area"}

\* Slip: 元 is taken for an ornament of 万元.
WanUnitsOrYuan == {"wan", "yuan"}
WanUnits       == {"wan"}

UnitPriceUnits == {"yuan", "per", "area"}
DayUnits       == {"day"}
YearUnits      == {"year"}

\* parse_number: exactly one number, and nothing but the units around it.
Number(t, units) ==
    IF Len(t.numbers) = 1 /\ t.tokens \subseteq units THEN t.numbers[1] ELSE Malformed

\* parse_int
Whole(t, units) ==
    LET n == Number(t, units)
    IN  IF n # Malformed /\ n % 10 = 0 THEN n \div 10 ELSE Malformed

CnyPerWan == 10000

\* parse_wan_to_cny
WanToCny(t) ==
    LET n == Number(t, WanUnits) IN IF n = Malformed THEN Malformed ELSE n * CnyPerWan

\* parse_deal_date, parse_aware_datetime: a partial date, a timestamp without an
\* offset are refused.
Dated(day) == IF day = Null THEN Malformed ELSE day

\* parse_floor_bucket, parse_listing_status: one wording, or nothing is known.
OnlyOne(found) ==
    IF \E x \in found : found = {x} THEN CHOOSE x \in found : found = {x} ELSE Unknown

Amounts == {"list_price", "listing_price", "deal_price"}

\* The converter of a field, on its text.
Converted(t, field) ==
    CASE field = "deal_date"      -> Dated(t.day)
      [] field = "snapshot_at"    -> Dated(t.instant)
      [] field \in Amounts        -> WanToCny(t)
      [] field = "area"           -> Number(t, AreaUnits)
      [] field = "unit_price"     -> Number(t, UnitPriceUnits)
      [] field = "built_year"     -> Whole(t, YearUnits)
      [] field = "days_on_market" -> Whole(t, DayUnits)
      [] field = "floor"          -> OnlyOne(t.buckets)
      [] field = "status"         -> OnlyOne(t.statuses)
      [] OTHER                    -> t.name

-----------------------------------------------------------------------------
(* The fields of a row *)

\* Slip: an alias that says nothing leaves the field to the next one.
DecidesIfPublished(row, field, i) ==
    LET published(j) == row[j].field = field /\ row[j].cell \notin {Null, Marker}
    IN  /\ published(i)
        /\ \A j \in DOMAIN row : published(j) =>
              \/ row[i].alias < row[j].alias
              \/ row[i].alias = row[j].alias /\ j <= i

\* _normalize_row_keys, _raw_value: keys that normalize alike collide, and the
\* later stays; then the first alias that is present decides, whatever its cell.
Decides(row, field, i) ==
    /\ row[i].field = field
    /\ \A j \in DOMAIN row : row[j].field = field =>
          \/ row[i].alias < row[j].alias
          \/ row[i].alias = row[j].alias /\ j <= i

RawValue(row, field) ==
    IF \E i \in DOMAIN row : Decides(row, field, i)
    THEN row[CHOOSE i \in DOMAIN row : Decides(row, field, i)].cell
    ELSE Null

\* _cell
TextOf(row, field) == Normalized(RawValue(row, field))

\* _convert: the value of a field, Null, or Malformed.
Value(row, field) ==
    LET t == TextOf(row, field)
    IN  IF t \in {Null, Malformed} THEN t ELSE Converted(t, field)

\* _layout asks the title only for a layout the row does not give.
Reads(row, field) == field = "title" => TextOf(row, "layout") = Null

MalformedAt(row, order) ==
    {i \in DOMAIN order : Reads(row, order[i]) /\ Value(row, order[i]) = Malformed}

-----------------------------------------------------------------------------
(* Rejections and the split of outcomes *)

Reject(at, reason, field) == [at |-> at, reason |-> reason, field |-> field]

\* The refusals both parsers make, over the fields they convert in this order;
\* Null when there is none.
Refusal(row, order, at) ==
    LET bad == MalformedAt(row, order)
    IN  IF row = Null THEN Reject(at, "malformed_row", Null)
        ELSE IF Value(row, "id") = Malformed THEN Reject(at, "malformed_field", "id")
        ELSE IF Value(row, "id") = Null THEN Reject(at, "missing_source_identity", "id")
        ELSE IF bad # {}
             THEN Reject(at, "malformed_field",
                         order[CHOOSE i \in bad : \A j \in bad : i <= j])
        ELSE Null

\* ParseResult, ListingParseResult while their rows are split.
NothingParsed == [records |-> <<>>, rejections |-> <<>>]

Taken(p) == Len(p.records) + Len(p.rejections)

WithRecord(p, r)    == [p EXCEPT !.records = Append(@, r)]
WithRejection(p, r) == [p EXCEPT !.rejections = Append(@, r)]

-----------------------------------------------------------------------------
(* What a row says, for the properties: read off its entries, in the units *)
(* its texts name, without the parser's order and without its decisions.   *)

Unpublished(cell) == cell \in {Null, Marker}

\* In tenths of CNY: 万元 unless the text says 元 and not 万.
AmountSaid(t) ==
    IF "yuan" \in t.tokens /\ "wan" \notin t.tokens THEN t.numbers[1]
    ELSE t.numbers[1] * CnyPerWan

\* One wording names v, or no single one does and v is Unknown.
OnlySaid(wordings, v) ==
    wordings = {v} \/ (v = Unknown /\ \A x \in wordings : wordings # {x})

\* The text t, as what a field says, says v.
Means(t, field, v) ==
    CASE field = "id"          -> v = t.name
      [] field = "deal_date"   -> v = t.day
      [] field = "snapshot_at" -> v = t.instant
      [] field = "floor"       -> OnlySaid(t.buckets, v)
      [] field = "status"      -> OnlySaid(t.statuses, v)
      [] field \in Amounts     -> v = AmountSaid(t)
      [] field \in {"built_year", "days_on_market"} -> 10 * v = t.numbers[1]
      [] OTHER                 -> v = t.numbers[1]

\* Entry i has the row's say on a field: no entry of the field stands under an
\* alias before its own, and none after it under the same.
HasSay(row, field, i) ==
    /\ row[i].field = field
    /\ \A j \in DOMAIN row : row[j].field = field => row[i].alias <= row[j].alias
    /\ \A j \in i + 1 .. Len(row) : row[j].field = field => row[j].alias # row[i].alias

\* The row says v of the field, or, for Null, that it says nothing of it.
Says(row, field, v) ==
    \/ v = Null /\ \A i \in DOMAIN row : row[i].field # field
    \/ \E i \in DOMAIN row :
          /\ HasSay(row, field, i)
          /\ IF v = Null THEN Unpublished(row[i].cell)
             ELSE /\ ~ Unpublished(row[i].cell) /\ row[i].cell # Boolean
                  /\ Means(row[i].cell, field, v)
=============================================================================
