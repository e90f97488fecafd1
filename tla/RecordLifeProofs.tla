-------------------------- MODULE RecordLifeProofs --------------------------
(***************************************************************************)
(* The properties of RecordLife for every snapshot file, every record that *)
(* another source may publish and every window a caller may ask for.       *)
(***************************************************************************)
EXTENDS RecordLife, TLAPS, WellFoundedInduction

Rows == Seq(Parser!Entry) \union {Null}

Snapshots == [at : Int, rows : Seq(Rows)]

\* The types of what the source and the gates hold.
TypeInv ==
    /\ file \in Parser!File
    /\ snapshot \in Snapshots \union {Null}
    /\ parsed \in [records : Seq(Records), rejections : Seq(Parser!ParseRejection)]
    /\ record \in Records \union {Null}
    /\ window \in Window

-----------------------------------------------------------------------------
(* The gates *)

\* A ratio of integers over a positive area.
LEMMA DerivedIsRatio ==
    ASSUME NEW num \in Int, NEW den \in Int, den > 0
    PROVE  [num |-> num, den |-> den] \in Ratio
  BY DEF Ratio

\* What normalize_transaction accepts is a canonical transaction.
LEMMA AcceptedFits ==
    ASSUME NEW r \in Records, NEW w \in Window, Verdict(r, w) = Accepted
    PROVE  /\ TransactionOf(r) \in Transaction
           /\ FitsSchema(TransactionOf(r))
           /\ TransactionOf(r).native = r.native
           /\ r.native \in Sources
  <1>1. /\ r.native # Null /\ r.deal_date # Null
        /\ ~ NotPositive(r.area) /\ ~ NotPositive(r.deal_price)
        /\ FitsSchema(TransactionOf(r))
    BY DEF Verdict, Accepted
  <1>2. /\ r.native \in Sources /\ r.deal_date \in Int /\ r.collected \in Int
        /\ r.area \in Int /\ r.area > 0 /\ r.deal_price \in Int
        /\ r.listing_price \in Int \union {Null}
        /\ r.days_on_market \in Int \union {Null}
        /\ r.unit_price \in Ratio \union {Null}
        /\ r.built_year \in Int \union {Null}
    BY <1>1 DEF Records, NotPositive
  <1>3. UnitPrice(r) \in Ratio
    BY <1>2, DerivedIsRatio DEF UnitPrice, Derived
  <1>4. CoerceFloorBucket(r.floor_bucket) \in FloorBuckets
    BY UnknownIsABucket DEF CoerceFloorBucket
  <1> QED
    BY <1>1, <1>2, <1>3, <1>4 DEF TransactionOf, Transaction

\* Normalizing a stored transaction once more accepts it, whatever unit price
\* the first pass derived: the derived one deviates by nothing.
THEOREM RefreshAccepted ==
    ASSUME NEW r \in Records, NEW w \in Window, Verdict(r, w) = Accepted
    PROVE  /\ Verdict(TransactionOf(r), w) = Accepted
           /\ TransactionOf(TransactionOf(r)) = TransactionOf(r)
  <1> DEFINE t == TransactionOf(r)
  <1>1. /\ r.native # Null /\ r.deal_date # Null /\ ~ TooLate(r) /\ ~ OutOfWindow(r, w)
        /\ ~ NotPositive(r.area) /\ ~ NotPositive(r.deal_price)
        /\ ~ (r.listing_price # Null /\ r.listing_price <= 0)
        /\ ~ (r.days_on_market # Null /\ r.days_on_market < 0)
        /\ ~ (r.unit_price # Null /\ r.unit_price.num <= 0)
        /\ ~ (r.unit_price # Null /\ Inconsistent(r.unit_price, r.area, r.deal_price))
        /\ FitsSchema(t)
    BY DEF Verdict, Accepted
  <1>2. t \in Transaction
    BY AcceptedFits
  <1>3. /\ t.native = r.native /\ t.deal_date = r.deal_date
        /\ t.collected = r.collected /\ t.area = r.area
        /\ t.deal_price = r.deal_price /\ t.listing_price = r.listing_price
        /\ t.days_on_market = r.days_on_market /\ t.built_year = r.built_year
        /\ t.unit_price = UnitPrice(r)
        /\ t.floor_bucket = CoerceFloorBucket(r.floor_bucket)
    BY DEF TransactionOf
  <1>4. t.unit_price \in Ratio /\ t.unit_price # Null
    BY <1>2, NullIsNoRatio DEF Transaction
  <1>5. UnitPrice(t) = t.unit_price
    BY <1>4 DEF UnitPrice
  <1>6. CoerceFloorBucket(t.floor_bucket) = t.floor_bucket
    BY <1>2 DEF CoerceFloorBucket, Transaction
  <1>7. TransactionOf(t) = t
    BY <1>3, <1>5, <1>6 DEF TransactionOf
  <1>8. ~ Inconsistent(t.unit_price, t.area, t.deal_price)
    <2>1. CASE r.unit_price # Null
      BY <1>1, <1>3, <2>1 DEF UnitPrice
    <2>2. CASE r.unit_price = Null
      <3>1. t.unit_price = [num |-> t.deal_price, den |-> t.area]
        BY <1>3, <2>2 DEF UnitPrice, Derived
      <3>2. t.area \in Nat /\ t.deal_price \in Nat /\ Tolerance \in Nat
        BY <1>1, <1>2, <1>3, ToleranceIsSound DEF Transaction, NotPositive
      <3>3. t.deal_price * t.area \in Nat
        BY <3>2
      <3>4. Tolerance * (t.deal_price * t.area) >= 0
        BY <3>2, <3>3
      <3>5. Tolerance * t.deal_price * t.area = Tolerance * (t.deal_price * t.area)
        BY <3>2
      <3>6. t.unit_price.num * t.area - t.deal_price * t.unit_price.den = 0
        BY <3>1, <3>3
      <3>7. abs(t.unit_price.num * t.area - t.deal_price * t.unit_price.den) = 0
        BY <3>6 DEF abs
      <3>8. ~ (0 > Tolerance * t.deal_price * t.unit_price.den)
        BY <3>1, <3>2, <3>3, <3>4, <3>5
      <3> QED
        BY <3>7, <3>8 DEF Inconsistent
    <2> QED
      BY <2>1, <2>2
  <1>9. t.unit_price.num > 0
    BY <1>1 DEF FitsSchema
  <1>10. Verdict(t, w) = Accepted
    <2>1. ~ TooLate(t) /\ ~ OutOfWindow(t, w)
      BY <1>1, <1>3 DEF TooLate, OutOfWindow
    <2>2. ~ (t.unit_price.num <= 0)
      BY <1>4, <1>9 DEF Ratio
    <2> QED
      BY <1>1, <1>3, <1>7, <1>8, <2>1, <2>2 DEF Verdict
  <1> QED
    BY <1>7, <1>10

-----------------------------------------------------------------------------
(* The row parser *)

\* Every non-empty set of natural numbers has a least element.
LEMMA LeastNatural ==
    ASSUME NEW S \in SUBSET Nat, S # {}
    PROVE  \E m \in S : \A n \in S : m <= n
  <1> DEFINE less == {p \in Nat \X Nat : p[1] < p[2]}
  <1>1. IsWellFoundedOn(less, Nat)
    BY NatLessThanWellFounded, Zenon DEF OpToRel
  <1> HIDE DEF less
  <1>2. PICK m \in S : \A n \in S : ~ (<<n, m>> \in less)
    BY <1>1, WFMin, Zenon
  <1>3. \A n \in S : ~ (n < m)
    BY <1>2 DEF less
  <1> QED
    BY <1>3

LEMMA TextTyped ==
    ASSUME NEW row \in Seq(Parser!Entry), NEW field
    PROVE  Parser!TextOf(row, field) \in Parser!Text \union {Null, Malformed}
  <1>1. Parser!RawValue(row, field) \in Parser!Cell
    <2>1. ASSUME NEW i \in DOMAIN row
          PROVE  row[i].cell \in Parser!Cell
      <3>1. row[i] \in Parser!Entry
        OBVIOUS
      <3> QED
        BY <3>1 DEF Parser!Entry
    <2> QED
      BY <2>1 DEF Parser!RawValue, Parser!Cell
  <1> QED
    BY <1>1 DEF Parser!TextOf, Parser!Normalized, Parser!Cell

\* What a converter makes of one number.
LEMMA NumberTyped ==
    ASSUME NEW t \in Parser!Text, NEW units
    PROVE  /\ Parser!Number(t, units) \in Int \union {Malformed}
           /\ Parser!Whole(t, units) \in Int \union {Malformed}
           /\ Parser!WanToCny(t) \in Int \union {Malformed}
  <1>1. t.numbers \in Seq(Int)
    BY DEF Parser!Text
  <1>2. Len(t.numbers) = 1 => t.numbers[1] \in Int
    BY <1>1
  <1>3. \A u : Parser!Number(t, u) \in Int \union {Malformed}
    BY <1>2 DEF Parser!Number
  <1>4. Parser!WanToCny(t) \in Int \union {Malformed}
    BY <1>3 DEF Parser!WanToCny, Parser!CnyPerWan
  <1>5. Parser!Whole(t, units) \in Int \union {Malformed}
    BY <1>3 DEF Parser!Whole
  <1> QED
    BY <1>3, <1>4, <1>5

\* The value of each field of a row that was not refused.
LEMMA ValueTyped ==
    ASSUME NEW row \in Seq(Parser!Entry)
    PROVE  /\ Parser!Value(row, "id") \in Sources \union {Null, Malformed}
           /\ Parser!Value(row, "floor") \in FloorBuckets \union {Null, Malformed}
           /\ \A f \in {"deal_date", "area", "listing_price", "deal_price",
                        "unit_price", "built_year", "days_on_market"} :
                 Parser!Value(row, f) \in Int \union {Null, Malformed}
  <1>1. ASSUME NEW f
        PROVE  \/ Parser!Value(row, f) \in {Null, Malformed}
               \/ /\ Parser!TextOf(row, f) \in Parser!Text
                  /\ Parser!Value(row, f) = Parser!Converted(Parser!TextOf(row, f), f)
    BY TextTyped DEF Parser!Value
  <1>2. ASSUME NEW t \in Parser!Text
        PROVE  /\ Parser!Converted(t, "id") \in Sources
               /\ Parser!Converted(t, "floor") \in FloorBuckets
               /\ \A f \in {"deal_date", "area", "listing_price", "deal_price",
                            "unit_price", "built_year", "days_on_market"} :
                     Parser!Converted(t, f) \in Int \union {Malformed}
    <2>1. Parser!Converted(t, "id") = t.name
      BY DEF Parser!Converted, Parser!Amounts
    <2>2. Parser!Converted(t, "floor") = Parser!OnlyOne(t.buckets)
      BY DEF Parser!Converted, Parser!Amounts
    <2>3. Parser!OnlyOne(t.buckets) \in FloorBuckets
      BY UnknownIsABucket DEF Parser!OnlyOne, Parser!Text
    <2>4. /\ Parser!Converted(t, "deal_date") = Parser!Dated(t.day)
          /\ Parser!Converted(t, "area") = Parser!Number(t, Parser!AreaUnits)
          /\ Parser!Converted(t, "listing_price") = Parser!WanToCny(t)
          /\ Parser!Converted(t, "deal_price") = Parser!WanToCny(t)
          /\ Parser!Converted(t, "unit_price") = Parser!Number(t, Parser!UnitPriceUnits)
          /\ Parser!Converted(t, "built_year") = Parser!Whole(t, Parser!YearUnits)
          /\ Parser!Converted(t, "days_on_market") = Parser!Whole(t, Parser!DayUnits)
      BY DEF Parser!Converted, Parser!Amounts
    <2>5. Parser!Dated(t.day) \in Int \union {Malformed}
      BY DEF Parser!Dated, Parser!Text
    <2> QED
      BY <2>1, <2>2, <2>3, <2>4, <2>5, NumberTyped DEF Parser!Text
  <1> QED
    BY <1>1, <1>2

\* A malformed field is one of those the parser converts.
LEMMA MalformedNamed ==
    ASSUME NEW row, Parser!MalformedAt(row, Parser!TransactionFields) # {}
    PROVE  LET bad == Parser!MalformedAt(row, Parser!TransactionFields)
           IN  Parser!TransactionFields[CHOOSE i \in bad : \A j \in bad : i <= j]
                  \in Parser!Fields
  <1> DEFINE bad == Parser!MalformedAt(row, Parser!TransactionFields)
             first == CHOOSE i \in bad : \A j \in bad : i <= j
  <1>1. bad \in SUBSET (1 .. 11)
    BY DEF Parser!MalformedAt, Parser!TransactionFields
  <1>2. first \in bad
    <2> HIDE DEF bad
    <2>1. bad \in SUBSET Nat /\ bad # {}
      BY <1>1 DEF bad
    <2> QED
      BY <2>1, LeastNatural
  <1> HIDE DEF bad, first
  <1>3. first \in 1 .. 11
    BY <1>1, <1>2
  <1>4. \A i \in 1 .. 11 : Parser!TransactionFields[i] \in Parser!Fields
    BY DEF Parser!TransactionFields, Parser!Fields
  <1>5. Parser!TransactionFields[first] \in Parser!Fields
    BY <1>3, <1>4
  <1> QED
    BY <1>5 DEF first, bad

\* What a refusal is, by the kind of the row.
LEMMA RefusalKinds ==
    ASSUME NEW row, NEW at
    PROVE  LET bad     == Parser!MalformedAt(row, Parser!TransactionFields)
               refusal == Parser!Refusal(row, Parser!TransactionFields, at)
           IN  \/ /\ row # Null /\ bad = {} /\ refusal = Null
                  /\ Parser!Value(row, "id") \notin {Null, Malformed}
               \/ \E reason \in Parser!ParseRejectionReason,
                     field \in Parser!Fields \union {Null} :
                        refusal = Parser!Reject(at, reason, field)
  <1> DEFINE bad     == Parser!MalformedAt(row, Parser!TransactionFields)
             first   == Parser!TransactionFields[CHOOSE i \in bad : \A j \in bad : i <= j]
             refusal == Parser!Refusal(row, Parser!TransactionFields, at)
  <1>1. bad # {} => first \in Parser!Fields
    BY MalformedNamed
  <1>2. refusal = IF row = Null THEN Parser!Reject(at, "malformed_row", Null)
                  ELSE IF Parser!Value(row, "id") = Malformed
                       THEN Parser!Reject(at, "malformed_field", "id")
                  ELSE IF Parser!Value(row, "id") = Null
                       THEN Parser!Reject(at, "missing_source_identity", "id")
                  ELSE IF bad # {} THEN Parser!Reject(at, "malformed_field", first)
                  ELSE Null
    BY DEF Parser!Refusal
  <1>3. /\ "malformed_row" \in Parser!ParseRejectionReason
        /\ "malformed_field" \in Parser!ParseRejectionReason
        /\ "missing_source_identity" \in Parser!ParseRejectionReason
        /\ "id" \in Parser!Fields
    BY DEF Parser!ParseRejectionReason, Parser!Fields
  <1> HIDE DEF bad, first, refusal
  <1>4. \/ /\ row # Null /\ bad = {} /\ refusal = Null
           /\ Parser!Value(row, "id") \notin {Null, Malformed}
        \/ \E reason \in Parser!ParseRejectionReason, field \in Parser!Fields \union {Null} :
              refusal = Parser!Reject(at, reason, field)
    BY <1>1, <1>2, <1>3
  <1> QED
    BY <1>4 DEF bad, refusal

\* A row that is refused is named in a rejection, and one that is not has an
\* identity and no malformed field.
LEMMA RefusalTyped ==
    ASSUME NEW row, NEW at \in Nat,
           Parser!Refusal(row, Parser!TransactionFields, at) # Null
    PROVE  /\ Parser!Refusal(row, Parser!TransactionFields, at) \in Parser!ParseRejection
           /\ Parser!Refusal(row, Parser!TransactionFields, at).at = at
  <1>1. ASSUME NEW reason \in Parser!ParseRejectionReason,
               NEW field \in Parser!Fields \union {Null}
        PROVE  /\ Parser!Reject(at, reason, field) \in Parser!ParseRejection
               /\ Parser!Reject(at, reason, field).at = at
    BY DEF Parser!Reject, Parser!ParseRejection
  <1> QED
    BY <1>1, RefusalKinds

LEMMA NotRefused ==
    ASSUME NEW row, NEW at \in Nat,
           Parser!Refusal(row, Parser!TransactionFields, at) = Null
    PROVE  /\ row # Null
           /\ Parser!Value(row, "id") \notin {Null, Malformed}
           /\ \A f \in {"deal_date", "area", "floor", "listing_price", "deal_price",
                        "unit_price", "built_year", "days_on_market"} :
                 Parser!Value(row, f) # Malformed
  <1> DEFINE order == Parser!TransactionFields
             bad == Parser!MalformedAt(row, order)
  <1>1. ASSUME NEW reason \in Parser!ParseRejectionReason,
               NEW field \in Parser!Fields \union {Null}
        PROVE  Parser!Reject(at, reason, field) # Null
    BY NullIsNoRejection DEF Parser!Reject, Parser!ParseRejection
  <1>2. bad = {} /\ row # Null /\ Parser!Value(row, "id") \notin {Null, Malformed}
    BY <1>1, RefusalKinds
  <1>3. \A i \in 1 .. 11 : order[i] # "title" => Parser!Value(row, order[i]) # Malformed
    BY <1>2 DEF Parser!MalformedAt, Parser!Reads, Parser!TransactionFields
  <1>4. /\ order[1] = "deal_date" /\ order[2] = "area" /\ order[5] = "floor"
        /\ order[7] = "built_year" /\ order[8] = "listing_price"
        /\ order[9] = "deal_price" /\ order[10] = "unit_price"
        /\ order[11] = "days_on_market"
    BY DEF Parser!TransactionFields
  <1> HIDE DEF order
  <1> QED
    BY <1>2, <1>3, <1>4

LEMMA ParsedTyped ==
    ASSUME NEW row \in Rows, NEW collected \in Int, NEW at \in Nat,
           Parser!Refusal(row, Parser!TransactionFields, at) = Null
    PROVE  Parser!RecordOf(row, collected) \in Records
  <1>1. row \in Seq(Parser!Entry)
    BY NotRefused DEF Rows
  <1>2. Parser!UnitPriceRatio(Parser!Value(row, "unit_price")) \in Ratio \union {Null}
    BY <1>1, ValueTyped, NotRefused DEF Parser!UnitPriceRatio, Ratio
  <1>3. Parser!Value(row, "floor") \in Texts
    BY <1>1, ValueTyped, NotRefused, BucketsAreTexts, NoneIsAText
  <1>4. Parser!Value(row, "id") \in Sources
    BY <1>1, ValueTyped, NotRefused
  <1>5. \A f \in {"deal_date", "area", "listing_price", "deal_price",
                  "built_year", "days_on_market"} :
           Parser!Value(row, f) \in Int \union {Null}
    BY <1>1, ValueTyped, NotRefused
  <1> QED
    BY <1>2, <1>3, <1>4, <1>5 DEF Parser!RecordOf, Records

-----------------------------------------------------------------------------
(* The life of a record *)

LEMMA StoredIsRecord == Transaction \subseteq Records
  BY BucketsAreTexts DEF Transaction, Records

\* The rows that a snapshot holds are those of a file.
LEMMA LoadedTyped ==
    ASSUME NEW f \in Parser!File
    PROVE  Parser!LoadTransactionSnapshot(f) \in Snapshots \union {Null}
  BY DEF Parser!LoadTransactionSnapshot, Parser!File, Snapshots, Rows

\* A row becomes one record at the end of the records, or one rejection with the
\* row's number at the end of the rejections.
LEMMA StepTyped ==
    ASSUME NEW p \in [records : Seq(Records), rejections : Seq(Parser!ParseRejection)],
           NEW row \in Rows, NEW collected \in Int
    PROVE  LET refusal == Parser!Refusal(row, Parser!TransactionFields, Parser!Taken(p) + 1)
               next    == Parser!ParseTransactionRow(p, row, collected)
           IN  /\ next \in [records : Seq(Records), rejections : Seq(Parser!ParseRejection)]
               /\ \/ /\ refusal = Null
                     /\ next.records = Append(p.records, Parser!RecordOf(row, collected))
                     /\ next.rejections = p.rejections
                  \/ /\ refusal \in Parser!ParseRejection /\ refusal.at = Parser!Taken(p) + 1
                     /\ next.records = p.records
                     /\ next.rejections = Append(p.rejections, refusal)
  <1> DEFINE refusal == Parser!Refusal(row, Parser!TransactionFields, Parser!Taken(p) + 1)
  <1>1. Parser!Taken(p) + 1 \in Nat
    BY DEF Parser!Taken
  <1>2. refusal # Null => refusal \in Parser!ParseRejection /\ refusal.at = Parser!Taken(p) + 1
    BY <1>1, RefusalTyped
  <1>3. refusal = Null => Parser!RecordOf(row, collected) \in Records
    BY <1>1, ParsedTyped
  <1>4. Parser!ParseTransactionRow(p, row, collected) =
           IF refusal = Null THEN Parser!WithRecord(p, Parser!RecordOf(row, collected))
           ELSE Parser!WithRejection(p, refusal)
    BY DEF Parser!ParseTransactionRow
  <1>5. ASSUME NEW r \in Records
        PROVE  /\ Parser!WithRecord(p, r) \in [records : Seq(Records), rejections : Seq(Parser!ParseRejection)]
               /\ Parser!WithRecord(p, r).records = Append(p.records, r)
               /\ Parser!WithRecord(p, r).rejections = p.rejections
    BY DEF Parser!WithRecord
  <1>6. ASSUME NEW r \in Parser!ParseRejection
        PROVE  /\ Parser!WithRejection(p, r) \in [records : Seq(Records), rejections : Seq(Parser!ParseRejection)]
               /\ Parser!WithRejection(p, r).records = p.records
               /\ Parser!WithRejection(p, r).rejections = Append(p.rejections, r)
    BY DEF Parser!WithRejection
  <1> HIDE DEF refusal
  <1> QED
    BY <1>2, <1>3, <1>4, <1>5, <1>6 DEF refusal

LEMMA TypeInvHolds == Spec => []TypeInv
  <1>1. Init => TypeInv
    <2> SUFFICES ASSUME Init
                 PROVE  TypeInv
      OBVIOUS
    <2>1. file \in Parser!File
      BY DEF Init, NoFile, Parser!File, Parser!FileStates
    <2>2. parsed = [records |-> <<>>, rejections |-> <<>>]
      BY DEF Init, Parser!NothingParsed
    <2>3. /\ snapshot \in Snapshots \union {Null}
          /\ record \in Records \union {Null}
          /\ window \in Window
      BY CasesAreRecords DEF Init, Unbounded, Window
    <2> QED
      BY <2>1, <2>2, <2>3 DEF TypeInv
  <1>2. TypeInv /\ [Next]_life => TypeInv'
    <2> SUFFICES ASSUME TypeInv, [Next]_life
                 PROVE  TypeInv'
      OBVIOUS
    <2>1. ASSUME NEW lines \in Profiles, NEW isPath \in BOOLEAN, Start(lines, isPath)
          PROVE  TypeInv'
      BY <2>1 DEF Start, TypeInv
    <2>2. ASSUME NEW f \in Files, Capture(f)
          PROVE  TypeInv'
      BY <2>2, FilesAreFiles DEF Capture, TypeInv
    <2>3. CASE Fetch
      <3>1. parsed' = [records |-> <<>>, rejections |-> <<>>]
        BY <2>3 DEF Fetch, Parser!NothingParsed
      <3>2. snapshot' \in Snapshots \union {Null}
        BY <2>3, LoadedTyped DEF Fetch, TypeInv
      <3> QED
        BY <2>3, <3>1, <3>2 DEF Fetch, TypeInv
    <2>4. CASE ParseRow
      <3>1. /\ snapshot \in Snapshots
            /\ Parser!Taken(parsed) + 1 \in DOMAIN snapshot.rows
        BY <2>4 DEF ParseRow, TypeInv, Snapshots, Parser!Taken
      <3>2. snapshot.rows[Parser!Taken(parsed) + 1] \in Rows /\ snapshot.at \in Int
        BY <3>1 DEF Snapshots
      <3> QED
        BY <2>4, <3>2, StepTyped DEF ParseRow, TypeInv
    <2>5. ASSUME NEW i \in DOMAIN parsed.records, Examine(i)
          PROVE  TypeInv'
      BY <2>5 DEF Examine, TypeInv, source
    <2>6. ASSUME NEW w \in Windows, Ask(w)
          PROVE  TypeInv'
      BY <2>6, WindowsAreWindows DEF Ask, TypeInv, source
    <2>7. CASE Refresh
      BY <2>7, AcceptedFits, StoredIsRecord DEF Refresh, AsPublished, TypeInv, source
    <2>8. CASE UNCHANGED life
      BY <2>8 DEF life, source, TypeInv
    <2> QED
      BY <2>1, <2>2, <2>3, <2>4, <2>5, <2>6, <2>7, <2>8 DEF Next
  <1> QED
    BY <1>1, <1>2, PTL DEF Spec

-----------------------------------------------------------------------------
(* The rows of a file and what became of them *)

\* A field that a row has is decided by one entry: the first of its aliases that
\* is present, and the last entry under it.
LEMMA SomeEntryDecides ==
    ASSUME NEW row \in Seq(Parser!Entry), NEW field,
           \E i \in DOMAIN row : row[i].field = field
    PROVE  \E i \in DOMAIN row : Parser!Decides(row, field, i)
  <1> DEFINE of(a) == {i \in DOMAIN row : row[i].field = field /\ row[i].alias = a}
             aliases == {row[i].alias : i \in {j \in DOMAIN row : row[j].field = field}}
  <1>1. \A i \in DOMAIN row : row[i].alias \in Nat /\ Len(row) - i \in Nat
    <2> TAKE i \in DOMAIN row
    <2>1. row[i] \in Parser!Entry
      OBVIOUS
    <2> QED
      BY <2>1 DEF Parser!Entry
  <1>2. aliases \in SUBSET Nat /\ aliases # {}
    BY <1>1
  <1>3. PICK a \in aliases : \A b \in aliases : a <= b
    <2> HIDE DEF aliases
    <2> QED
      BY <1>2, LeastNatural
  <1> DEFINE distances == {Len(row) - i : i \in of(a)}
  <1>4. distances \in SUBSET Nat /\ distances # {}
    BY <1>1
  <1>5. PICK d \in distances : \A e \in distances : d <= e
    <2> HIDE DEF distances
    <2> QED
      BY <1>4, LeastNatural
  <1>6. PICK i \in of(a) : d = Len(row) - i
    OBVIOUS
  <1>7. ASSUME NEW j \in DOMAIN row, row[j].field = field
        PROVE  \/ row[i].alias < row[j].alias
               \/ row[i].alias = row[j].alias /\ j <= i
    <2>1. row[i].alias = a /\ i \in DOMAIN row
      BY <1>6
    <2>2. a <= row[j].alias /\ a \in Nat /\ row[j].alias \in Nat
      BY <1>1, <1>2, <1>3, <1>7
    <2>3. CASE row[j].alias = a
      <3>1. Len(row) - i <= Len(row) - j
        BY <1>5, <1>6, <1>7, <2>3
      <3> QED
        BY <2>1, <2>3, <3>1
    <2> QED
      BY <2>1, <2>2, <2>3
  <1> QED
    BY <1>6, <1>7 DEF Parser!Decides

\* The entry that decides a field is the one that has the row's say on it.
LEMMA DeciderHasSay ==
    ASSUME NEW row \in Seq(Parser!Entry), NEW field, NEW i \in DOMAIN row,
           Parser!Decides(row, field, i)
    PROVE  Parser!HasSay(row, field, i)
  <1>1. \A j \in DOMAIN row : row[j].alias \in Nat
    <2> TAKE j \in DOMAIN row
    <2>1. row[j] \in Parser!Entry
      OBVIOUS
    <2> QED
      BY <2>1 DEF Parser!Entry
  <1>2. \A j \in DOMAIN row : row[j].field = field =>
           \/ row[i].alias < row[j].alias
           \/ row[i].alias = row[j].alias /\ j <= i
    BY DEF Parser!Decides
  <1>3. i \in 1 .. Len(row) /\ row[i].field = field
    BY DEF Parser!Decides
  <1>4. \A j \in i + 1 .. Len(row) : j \in DOMAIN row /\ ~ (j <= i)
    BY <1>3
  <1>5. \A j \in i + 1 .. Len(row) : row[j].field = field => row[j].alias # row[i].alias
    BY <1>1, <1>2, <1>4
  <1>6. \A j \in DOMAIN row : row[j].field = field => row[i].alias <= row[j].alias
    BY <1>1, <1>2
  <1> QED
    BY <1>3, <1>5, <1>6 DEF Parser!HasSay

\* The text of a field is that of the entry with the say, or the row has none.
LEMMA TextIsAnEntry ==
    ASSUME NEW row \in Seq(Parser!Entry), NEW field
    PROVE  \/ /\ ~ \E i \in DOMAIN row : row[i].field = field
              /\ Parser!TextOf(row, field) = Null
           \/ \E i \in DOMAIN row :
                /\ Parser!HasSay(row, field, i) /\ row[i].cell \in Parser!Cell
                /\ Parser!TextOf(row, field) = Parser!Normalized(row[i].cell)
  <1>1. CASE \E i \in DOMAIN row : row[i].field = field
    <2>1. PICK i \in DOMAIN row : /\ Parser!Decides(row, field, i)
                                  /\ Parser!RawValue(row, field) = row[i].cell
      BY <1>1, SomeEntryDecides DEF Parser!RawValue
    <2>2. row[i] \in Parser!Entry
      OBVIOUS
    <2>3. row[i].cell \in Parser!Cell
      BY <2>2 DEF Parser!Entry
    <2> QED
      BY <2>1, <2>3, DeciderHasSay DEF Parser!TextOf
  <1>2. CASE ~ \E i \in DOMAIN row : row[i].field = field
    BY <1>2, SentinelsDiffer
       DEF Parser!RawValue, Parser!Decides, Parser!TextOf, Parser!Normalized
  <1> QED
    BY <1>1, <1>2

\* The fields whose values the record keeps.
Kept == {"id", "deal_date", "area", "floor", "built_year", "listing_price",
         "deal_price", "unit_price", "days_on_market"}

\* One wording, if there is a single one, and otherwise Unknown.
LEMMA OnlyOneIsSaid ==
    ASSUME NEW found
    PROVE  Parser!OnlySaid(found, Parser!OnlyOne(found))
  BY DEF Parser!OnlySaid, Parser!OnlyOne

\* What a converter returns of a text is what the text says, in its own unit.
LEMMA ConvertedIsMeant ==
    ASSUME NEW t \in Parser!Text, NEW field \in Kept,
           Parser!Converted(t, field) # Malformed
    PROVE  /\ Parser!Means(t, field, Parser!Converted(t, field))
           /\ Parser!Converted(t, field) # Null
  <1>1. /\ t.numbers \in Seq(Int) /\ t.name \in Sources /\ t.day \in Int \union {Null}
        /\ Len(t.numbers) = 1 => t.numbers[1] \in Int
    BY DEF Parser!Text
  <1>2. CASE field = "id"
    BY <1>1, <1>2, NullIsNoValue DEF Parser!Converted, Parser!Means, Parser!Amounts
  <1>3. CASE field = "deal_date"
    BY <1>1, <1>3, NullIsNoValue
       DEF Parser!Converted, Parser!Means, Parser!Amounts, Parser!Dated
  <1>4. CASE field \in {"area", "unit_price"}
    BY <1>1, <1>4, NullIsNoValue
       DEF Parser!Converted, Parser!Means, Parser!Amounts, Parser!Number
  <1>5. CASE field \in {"listing_price", "deal_price"}
    <2>1. Parser!Converted(t, field) = Parser!WanToCny(t)
      BY <1>5 DEF Parser!Converted, Parser!Amounts
    <2>2. /\ Len(t.numbers) = 1 /\ t.tokens \subseteq {"wan"}
          /\ Parser!WanToCny(t) = t.numbers[1] * 10000
      BY <2>1 DEF Parser!WanToCny, Parser!Number, Parser!WanUnits, Parser!CnyPerWan
    <2>3. Parser!AmountSaid(t) = t.numbers[1] * 10000
      BY <2>2 DEF Parser!AmountSaid, Parser!CnyPerWan
    <2>4. Parser!Means(t, field, Parser!AmountSaid(t))
      BY <1>5 DEF Parser!Means, Parser!Amounts
    <2> QED
      BY <1>1, <2>1, <2>2, <2>3, <2>4, NullIsNoValue
  <1>6. CASE field \in {"built_year", "days_on_market"}
    <2>1. PICK units : Parser!Converted(t, field) = Parser!Whole(t, units)
      BY <1>6 DEF Parser!Converted, Parser!Amounts
    <2>2. /\ Parser!Number(t, units) # Malformed /\ Parser!Number(t, units) % 10 = 0
          /\ Parser!Whole(t, units) = Parser!Number(t, units) \div 10
      BY <2>1 DEF Parser!Whole
    <2>3. /\ Len(t.numbers) = 1 /\ Parser!Number(t, units) = t.numbers[1]
          /\ t.numbers[1] \in Int
      BY <1>1, <2>2 DEF Parser!Number
    <2>4. \A n \in Int : n % 10 = 0 => n \div 10 \in Int /\ 10 * (n \div 10) = n
      OBVIOUS
    <2>5. /\ 10 * Parser!Converted(t, field) = t.numbers[1]
          /\ Parser!Converted(t, field) \in Int
      BY <2>1, <2>2, <2>3, <2>4
    <2>6. Parser!Means(t, field, Parser!Converted(t, field))
      BY <1>6, <2>5 DEF Parser!Means, Parser!Amounts
    <2> QED
      BY <2>5, <2>6, NullIsNoValue
  <1>7. CASE field = "floor"
    <2>1. Parser!Converted(t, field) = Parser!OnlyOne(t.buckets)
      BY <1>7 DEF Parser!Converted, Parser!Amounts
    <2>2. Parser!OnlyOne(t.buckets) \in FloorBuckets
      BY UnknownIsABucket DEF Parser!OnlyOne, Parser!Text
    <2>3. \A v : Parser!OnlySaid(t.buckets, v) => Parser!Means(t, field, v)
      BY <1>7 DEF Parser!Means, Parser!Amounts
    <2> QED
      BY <2>1, <2>2, <2>3, OnlyOneIsSaid, SentinelsAreNoValues
  <1> QED
    BY <1>2, <1>3, <1>4, <1>5, <1>6, <1>7 DEF Kept

\* What the parser reads of a row is what the row says.
LEMMA ValueIsSaid ==
    ASSUME NEW row \in Seq(Parser!Entry), NEW field \in Kept,
           Parser!Value(row, field) # Malformed
    PROVE  Parser!Says(row, field, Parser!Value(row, field))
  <1>1. CASE ~ \E i \in DOMAIN row : row[i].field = field
    <2>1. Parser!TextOf(row, field) = Null
      BY <1>1, TextIsAnEntry DEF Parser!HasSay
    <2> QED
      BY <1>1, <2>1 DEF Parser!Value, Parser!Says
  <1>2. ASSUME NEW i \in DOMAIN row, Parser!HasSay(row, field, i),
               row[i].cell \in Parser!Cell,
               Parser!TextOf(row, field) = Parser!Normalized(row[i].cell)
        PROVE  Parser!Says(row, field, Parser!Value(row, field))
    <2>1. CASE row[i].cell \in {Null, Marker}
      <3>1. Parser!Value(row, field) = Null
        BY <1>2, <2>1, SentinelsDiffer DEF Parser!Value, Parser!Normalized
      <3>2. Parser!Unpublished(row[i].cell)
        BY <2>1 DEF Parser!Unpublished
      <3> QED
        BY <1>2, <3>1, <3>2 DEF Parser!Says
    <2>2. row[i].cell # Boolean
      BY <1>2 DEF Parser!Value, Parser!Normalized
    <2>3. CASE row[i].cell \in Parser!Text /\ row[i].cell \notin {Null, Marker}
      <3>1. Parser!TextOf(row, field) = row[i].cell
        BY <1>2, <2>2, <2>3 DEF Parser!Normalized
      <3>2. row[i].cell \notin {Null, Malformed}
        BY <2>3, SentinelsAreNoValues
      <3>3. Parser!Value(row, field) = Parser!Converted(row[i].cell, field)
        BY <3>1, <3>2 DEF Parser!Value
      <3>4. /\ Parser!Means(row[i].cell, field, Parser!Value(row, field))
            /\ Parser!Value(row, field) # Null
        BY <2>3, <3>3, ConvertedIsMeant
      <3>5. ~ Parser!Unpublished(row[i].cell)
        BY <2>3 DEF Parser!Unpublished
      <3> QED
        BY <1>2, <2>2, <3>4, <3>5 DEF Parser!Says
    <2> QED
      BY <1>2, <2>1, <2>2, <2>3 DEF Parser!Cell
  <1> QED
    BY <1>1, <1>2, TextIsAnEntry

\* A field is malformed only where the row publishes something under it.
LEMMA MalformedIsPublished ==
    ASSUME NEW row \in Seq(Parser!Entry), NEW field,
           Parser!Value(row, field) = Malformed
    PROVE  \E i \in DOMAIN row : /\ Parser!HasSay(row, field, i)
                                  /\ ~ Parser!Unpublished(row[i].cell)
  <1>1. Parser!TextOf(row, field) # Null
    BY SentinelsDiffer DEF Parser!Value
  <1>2. PICK i \in DOMAIN row :
           /\ Parser!HasSay(row, field, i)
           /\ Parser!TextOf(row, field) = Parser!Normalized(row[i].cell)
    BY <1>1, TextIsAnEntry
  <1>3. row[i].cell \notin {Null, Marker}
    BY <1>1, <1>2, SentinelsDiffer DEF Parser!Normalized
  <1> QED
    BY <1>2, <1>3 DEF Parser!Unpublished

\* A refusal has something against its row.
LEMMA RefusalBlames ==
    ASSUME NEW row \in Rows, NEW at \in Nat,
           Parser!Refusal(row, Parser!TransactionFields, at) # Null
    PROVE  Blames(Parser!Refusal(row, Parser!TransactionFields, at), row)
  <1> DEFINE bad     == Parser!MalformedAt(row, Parser!TransactionFields)
             place   == CHOOSE i \in bad : \A j \in bad : i <= j
             first   == Parser!TransactionFields[place]
             refusal == Parser!Refusal(row, Parser!TransactionFields, at)
  <1>1. bad # {} => place \in bad
    <2>1. bad \in SUBSET Nat
      BY DEF Parser!MalformedAt, Parser!TransactionFields
    <2> HIDE DEF bad
    <2> QED
      BY <2>1, LeastNatural
  <1>2. bad # {} => Parser!Value(row, first) = Malformed
    <2> SUFFICES ASSUME bad # {} PROVE Parser!Value(row, first) = Malformed
      OBVIOUS
    <2>1. PICK p \in bad : p = place
      BY <1>1
    <2>2. Parser!Value(row, Parser!TransactionFields[p]) = Malformed
      BY <2>1 DEF Parser!MalformedAt
    <2> HIDE DEF bad, place
    <2> QED
      BY <2>1, <2>2
  <1>3. refusal = IF row = Null THEN Parser!Reject(at, "malformed_row", Null)
                  ELSE IF Parser!Value(row, "id") = Malformed
                       THEN Parser!Reject(at, "malformed_field", "id")
                  ELSE IF Parser!Value(row, "id") = Null
                       THEN Parser!Reject(at, "missing_source_identity", "id")
                  ELSE IF bad # {} THEN Parser!Reject(at, "malformed_field", first)
                  ELSE Null
    BY DEF Parser!Refusal
  <1>4. \A reason, field : /\ Parser!Reject(at, reason, field).reason = reason
                           /\ Parser!Reject(at, reason, field).field = field
    BY DEF Parser!Reject
  <1> HIDE DEF bad, place, first, refusal
  <1>5. ASSUME NEW x, x = Parser!Refusal(row, Parser!TransactionFields, at)
        PROVE  Blames(x, row)
    <2>1. x # Null /\ x = refusal
      BY <1>5 DEF refusal
    <2>2. CASE row = Null
      <3>1. x = Parser!Reject(at, "malformed_row", Null)
        BY <1>3, <2>1, <2>2
      <3>2. x.reason = "malformed_row"
        BY <1>4, <3>1
      <3> QED
        BY <2>2, <3>2 DEF Blames
    <2>3. ASSUME row # Null, NEW field, Parser!Value(row, field) = Malformed,
                 x = Parser!Reject(at, "malformed_field", field)
          PROVE  Blames(x, row)
      <3>1. \E i \in DOMAIN row : /\ Parser!HasSay(row, field, i)
                                  /\ ~ Parser!Unpublished(row[i].cell)
        BY <2>3, MalformedIsPublished DEF Rows
      <3>2. x.reason = "malformed_field" /\ x.field = field
        BY <1>4, <2>3
      <3> QED
        BY <2>3, <3>1, <3>2 DEF Blames
    <2>4. CASE row # Null /\ Parser!Value(row, "id") = Malformed
      <3>1. x = Parser!Reject(at, "malformed_field", "id")
        BY <1>3, <2>1, <2>4
      <3> QED
        BY <2>3, <2>4, <3>1
    <2>5. CASE row # Null /\ Parser!Value(row, "id") = Null
      <3>1. x.reason = "missing_source_identity"
        BY <1>3, <1>4, <2>1, <2>5, SentinelsDiffer
      <3>2. row \in Seq(Parser!Entry) /\ "id" \in Kept
        BY <2>5 DEF Rows, Kept
      <3>3. Parser!Says(row, "id", Null)
        BY <2>5, <3>2, ValueIsSaid, SentinelsDiffer
      <3> QED
        BY <2>5, <3>1, <3>3 DEF Blames
    <2>6. CASE /\ row # Null /\ Parser!Value(row, "id") # Null
               /\ Parser!Value(row, "id") # Malformed
      <3>1. bad # {} /\ x = Parser!Reject(at, "malformed_field", first)
        BY <1>3, <2>1, <2>6
      <3> QED
        BY <1>2, <2>3, <2>6, <3>1
    <2> QED
      BY <2>2, <2>4, <2>5, <2>6
  <1> QED
    BY <1>5

\* A record restates the row it was parsed from.
LEMMA RecordRestates ==
    ASSUME NEW row \in Rows, NEW collected \in Int, NEW at \in Nat,
           Parser!Refusal(row, Parser!TransactionFields, at) = Null
    PROVE  Restates(Parser!RecordOf(row, collected), row)
  <1> DEFINE r == Parser!RecordOf(row, collected)
  <1>1. /\ row # Null /\ row \in Seq(Parser!Entry)
        /\ \A f \in Kept : Parser!Value(row, f) # Malformed
        /\ Parser!Value(row, "id") # Null
    BY NotRefused DEF Rows, Kept
  <1>2. \A f \in Kept : Parser!Says(row, f, Parser!Value(row, f))
    BY <1>1, ValueIsSaid
  <1>3. /\ r.native = Parser!Value(row, "id") /\ r.deal_date = Parser!Value(row, "deal_date")
        /\ r.area = Parser!Value(row, "area")
        /\ r.deal_price = Parser!Value(row, "deal_price")
        /\ r.listing_price = Parser!Value(row, "listing_price")
        /\ r.unit_price = Parser!UnitPriceRatio(Parser!Value(row, "unit_price"))
        /\ r.floor_bucket = Parser!Value(row, "floor")
        /\ r.built_year = Parser!Value(row, "built_year")
        /\ r.days_on_market = Parser!Value(row, "days_on_market")
    BY DEF Parser!RecordOf
  <1>4. (IF r.unit_price = Null THEN Null ELSE r.unit_price.num) =
            Parser!Value(row, "unit_price")
    <2>1. Parser!Value(row, "unit_price") \in Int \union {Null}
      BY <1>1, ValueTyped DEF Kept
    <2> HIDE DEF r
    <2> QED
      BY <1>3, <2>1, NullIsNoRatio DEF Parser!UnitPriceRatio, Ratio
  <1> HIDE DEF r
  <1>5. Restates(r, row)
    BY <1>1, <1>2, <1>3, <1>4 DEF Restates, Kept
  <1> QED
    BY <1>5 DEF r

Accounted ==
    snapshot # Null =>
        /\ origin # Null /\ origin.state = "object"
        /\ origin.rows = snapshot.rows /\ origin.at = snapshot.at
        /\ Parser!Taken(parsed) <= Len(origin.rows)
        /\ Restated(parsed, origin.rows, origin.at)
        /\ Rejected(parsed, origin.rows)

Parses == [records : Seq(Records), rejections : Seq(Parser!ParseRejection)]

\* The row of a record stays the same where the rejections do, or where one is
\* added for a later row.
LEMMA FromStays ==
    ASSUME NEW p \in Parses, NEW k \in Nat, NEW i \in Nat, From(p, k, i)
    PROVE  \A q \in Parses :
              \/ q.rejections = p.rejections
              \/ \E x \in Parser!ParseRejection :
                    i < x.at /\ q.rejections = Append(p.rejections, x)
              => From(q, k, i)
  <1> TAKE q \in Parses
  <1>1. CASE q.rejections = p.rejections
    BY <1>1 DEF From
  <1>2. ASSUME NEW x \in Parser!ParseRejection, i < x.at,
               q.rejections = Append(p.rejections, x)
        PROVE  From(q, k, i)
    <2> DEFINE m == Len(p.rejections)
    <2>1. p.rejections \in Seq(Parser!ParseRejection)
      BY DEF Parses
    <2>2. /\ m \in Nat /\ Len(q.rejections) = m + 1 /\ q.rejections[m + 1] = x
          /\ \A a \in 1 .. m : q.rejections[a] = p.rejections[a]
      BY <2>1, <1>2
    <2> HIDE DEF m
    <2>3. /\ i - k \in 0 .. m
          /\ i - k > 0 => p.rejections[i - k].at < i
          /\ i - k < m => i < p.rejections[i - k + 1].at
      BY DEF From, m
    <2> QED
      BY <1>2, <2>2, <2>3 DEF From
  <1> QED
    BY <1>1, <1>2

\* The records that p accounts for are accounted for where one more row is taken.
LEMMA OldAccounts ==
    ASSUME NEW p \in Parses, NEW q \in Parses, NEW rows, NEW at,
           Restated(p, rows, at), Parser!Taken(q) = Parser!Taken(p) + 1,
           \/ q.rejections = p.rejections
           \/ \E x \in Parser!ParseRejection :
                 /\ x.at = Parser!Taken(p) + 1
                 /\ q.rejections = Append(p.rejections, x),
           NEW k \in 1 .. Len(p.records), q.records[k] = p.records[k]
    PROVE  \E i \in 1 .. Parser!Taken(q) : /\ From(q, k, i)
                                           /\ Restates(q.records[k], rows[i])
                                           /\ q.records[k].collected = at
  <1>1. PICK i \in 1 .. Parser!Taken(p) : /\ From(p, k, i)
                                          /\ Restates(p.records[k], rows[i])
                                          /\ p.records[k].collected = at
    BY DEF Restated
  <1>2. Parser!Taken(p) \in Nat
    BY DEF Parser!Taken, Parses
  <1>3. i \in Nat /\ k \in Nat /\ i < Parser!Taken(p) + 1 /\ i \in 1 .. Parser!Taken(q)
    BY <1>2
  <1>4. From(q, k, i)
    BY <1>1, <1>3, FromStays
  <1> QED
    BY <1>1, <1>3, <1>4

\* One more record at the end: it is of the row after those that were taken.
LEMMA RecordAccounts ==
    ASSUME NEW p \in Parses, NEW q \in Parses, NEW rows, NEW at, NEW r \in Records,
           Rejected(p, rows), Restated(p, rows, at),
           q.records = Append(p.records, r), q.rejections = p.rejections,
           Restates(r, rows[Parser!Taken(p) + 1]), r.collected = at
    PROVE  /\ Parser!Taken(q) = Parser!Taken(p) + 1
           /\ Rejected(q, rows) /\ Restated(q, rows, at)
  <1> DEFINE n == Len(p.records)
             m == Len(p.rejections)
  <1>1. p.records \in Seq(Records) /\ p.rejections \in Seq(Parser!ParseRejection)
    BY DEF Parses
  <1>2. /\ n \in Nat /\ m \in Nat /\ Len(q.records) = n + 1 /\ q.records[n + 1] = r
        /\ \A k \in 1 .. n : q.records[k] = p.records[k]
    BY <1>1
  <1>3. Parser!Taken(p) = n + m /\ Parser!Taken(q) = n + m + 1
    BY <1>1, <1>2 DEF Parser!Taken, Parses
  <1>4. \A a \in 1 .. m : p.rejections[a].at \in Nat
    <2> TAKE a \in 1 .. m
    <2>1. p.rejections[a] \in Parser!ParseRejection
      BY <1>1
    <2> QED
      BY <2>1 DEF Parser!ParseRejection
  <1>5. \A a \in 1 .. m : /\ p.rejections[a].at \in 1 .. n + m
                          /\ \A b \in 1 .. a - 1 : p.rejections[b].at < p.rejections[a].at
                          /\ Blames(p.rejections[a], rows[p.rejections[a].at])
    BY <1>3 DEF Rejected
  <1>6. \A k \in 1 .. n :
           \E i \in 1 .. Parser!Taken(q) : /\ From(q, k, i)
                                           /\ Restates(q.records[k], rows[i])
                                           /\ q.records[k].collected = at
    <2> TAKE k \in 1 .. n
    <2>1. q.records[k] = p.records[k] /\ k \in 1 .. Len(p.records)
      BY <1>2
    <2>2. Parser!Taken(q) = Parser!Taken(p) + 1
      BY <1>2, <1>3
    <2>3. \/ q.rejections = p.rejections
          \/ \E x \in Parser!ParseRejection :
                /\ x.at = Parser!Taken(p) + 1
                /\ q.rejections = Append(p.rejections, x)
      BY Zenon
    <2> HIDE DEF n, m
    <2> QED
      BY <2>1, <2>2, <2>3, OldAccounts
  <1>7. Len(q.rejections) = m
    OBVIOUS
  <1> HIDE DEF n, m
  <1>8. Rejected(q, rows)
    <2>1. \A a \in 1 .. m : /\ q.rejections[a].at \in 1 .. n + m + 1
                            /\ \A b \in 1 .. a - 1 : q.rejections[b].at < q.rejections[a].at
                            /\ Blames(q.rejections[a], rows[q.rejections[a].at])
      BY <1>2, <1>4, <1>5
    <2> QED
      BY <1>3, <1>7, <2>1 DEF Rejected
  <1>9. From(q, n + 1, n + m + 1)
    <2>1. (n + m + 1) - (n + 1) = m
      BY <1>2
    <2>2. m > 0 => q.rejections[m].at < n + m + 1
      BY <1>2, <1>4, <1>5
    <2>3. From(q, n + 1, n + m + 1) <=>
             /\ m \in 0 .. m
             /\ m > 0 => q.rejections[m].at < n + m + 1
             /\ m < m => n + m + 1 < q.rejections[m + 1].at
      BY <2>1, <1>7, Zenon DEF From
    <2> QED
      BY <1>2, <2>2, <2>3
  <1>10. ASSUME NEW k \in 1 .. Len(q.records)
         PROVE  \E i \in 1 .. Parser!Taken(q) : /\ From(q, k, i)
                                                 /\ Restates(q.records[k], rows[i])
                                                 /\ q.records[k].collected = at
    <2>1. k \in 1 .. n \/ k = n + 1
      BY <1>2
    <2>2. n + m + 1 \in 1 .. Parser!Taken(q)
      BY <1>2, <1>3
    <2>3. CASE k = n + 1
      BY <1>2, <1>3, <1>9, <2>2, <2>3, Zenon
    <2> QED
      BY <1>6, <2>1, <2>3
  <1>11. Parser!Taken(q) = Parser!Taken(p) + 1
    BY <1>2, <1>3
  <1> QED
    BY <1>8, <1>10, <1>11 DEF Restated

\* One more rejection at the end: the records are of the rows they were of.
LEMMA RejectionAccounts ==
    ASSUME NEW p \in Parses, NEW q \in Parses, NEW rows, NEW at,
           NEW x \in Parser!ParseRejection,
           Rejected(p, rows), Restated(p, rows, at),
           x.at = Parser!Taken(p) + 1, Blames(x, rows[x.at]),
           q.records = p.records, q.rejections = Append(p.rejections, x)
    PROVE  /\ Parser!Taken(q) = Parser!Taken(p) + 1
           /\ Rejected(q, rows) /\ Restated(q, rows, at)
  <1> DEFINE n == Len(p.records)
             m == Len(p.rejections)
  <1>1. p.records \in Seq(Records) /\ p.rejections \in Seq(Parser!ParseRejection)
    BY DEF Parses
  <1>2. /\ n \in Nat /\ m \in Nat /\ Len(q.rejections) = m + 1 /\ q.rejections[m + 1] = x
        /\ \A a \in 1 .. m : q.rejections[a] = p.rejections[a]
    BY <1>1
  <1>3. Parser!Taken(p) = n + m /\ Parser!Taken(q) = n + m + 1
    BY <1>1, <1>2 DEF Parser!Taken, Parses
  <1>4. \A a \in 1 .. m : p.rejections[a].at \in Nat
    <2> TAKE a \in 1 .. m
    <2>1. p.rejections[a] \in Parser!ParseRejection
      BY <1>1
    <2> QED
      BY <2>1 DEF Parser!ParseRejection
  <1>5. \A a \in 1 .. m : /\ p.rejections[a].at \in 1 .. n + m
                          /\ \A b \in 1 .. a - 1 : p.rejections[b].at < p.rejections[a].at
                          /\ Blames(p.rejections[a], rows[p.rejections[a].at])
    BY <1>3 DEF Rejected
  <1>6. \A k \in 1 .. n :
           \E i \in 1 .. Parser!Taken(q) : /\ From(q, k, i)
                                           /\ Restates(q.records[k], rows[i])
                                           /\ q.records[k].collected = at
    <2> TAKE k \in 1 .. n
    <2>1. q.records[k] = p.records[k] /\ k \in 1 .. Len(p.records)
      OBVIOUS
    <2>2. Parser!Taken(q) = Parser!Taken(p) + 1
      BY <1>2, <1>3
    <2>3. \/ q.rejections = p.rejections
          \/ \E y \in Parser!ParseRejection :
                /\ y.at = Parser!Taken(p) + 1
                /\ q.rejections = Append(p.rejections, y)
      BY Zenon
    <2> HIDE DEF n, m
    <2> QED
      BY <2>1, <2>2, <2>3, OldAccounts
  <1> HIDE DEF n, m
  <1>7. Rejected(q, rows)
    <2>1. \A a \in 1 .. m : /\ q.rejections[a].at \in 1 .. n + m + 1
                            /\ \A b \in 1 .. a - 1 : q.rejections[b].at < q.rejections[a].at
                            /\ Blames(q.rejections[a], rows[q.rejections[a].at])
      BY <1>2, <1>4, <1>5
    <2>2. q.rejections[m + 1] = x /\ x.at = n + m + 1 /\ n + m + 1 \in 1 .. n + m + 1
      BY <1>2, <1>3
    <2>3. \A b \in 1 .. m : q.rejections[b].at < n + m + 1
      BY <1>2, <1>4, <1>5
    <2>4. \A a \in 1 .. m + 1 : a \in 1 .. m \/ a = m + 1
      BY <1>2
    <2>5. (m + 1) - 1 = m
      BY <1>2
    <2> QED
      BY <1>2, <1>3, <2>1, <2>2, <2>3, <2>4, <2>5 DEF Rejected
  <1>8. Parser!Taken(q) = Parser!Taken(p) + 1
    BY <1>2, <1>3
  <1> QED
    BY <1>6, <1>7, <1>8 DEF Restated, n

LEMMA ParseRowAccounts ==
    ASSUME TypeInv, Accounted, ParseRow
    PROVE  Accounted'
  <1> DEFINE n == Parser!Taken(parsed) + 1
  <1>1. snapshot \in Snapshots /\ n \in DOMAIN snapshot.rows /\ n \in Nat /\ parsed \in Parses
    BY DEF ParseRow, TypeInv, Snapshots, Parser!Taken, Parses
  <1>2. snapshot.rows[n] \in Rows /\ snapshot.at \in Int
    <2> HIDE DEF n
    <2> QED
      BY <1>1 DEF Snapshots
  <1>3. /\ origin # Null /\ origin.state = "object"
        /\ origin.rows = snapshot.rows /\ origin.at = snapshot.at
        /\ Restated(parsed, snapshot.rows, snapshot.at) /\ Rejected(parsed, snapshot.rows)
    BY DEF ParseRow, Accounted
  <1>4. ASSUME NEW q, q = Parser!ParseTransactionRow(parsed, snapshot.rows[n], snapshot.at)
        PROVE  /\ Parser!Taken(q) = n
               /\ Restated(q, snapshot.rows, snapshot.at) /\ Rejected(q, snapshot.rows)
    <2> DEFINE refusal == Parser!Refusal(snapshot.rows[n], Parser!TransactionFields, n)
    <2>1. /\ q \in Parses
          /\ \/ /\ refusal = Null
                /\ q.records = Append(parsed.records,
                                      Parser!RecordOf(snapshot.rows[n], snapshot.at))
                /\ q.rejections = parsed.rejections
             \/ /\ refusal \in Parser!ParseRejection /\ refusal.at = n
                /\ q.records = parsed.records
                /\ q.rejections = Append(parsed.rejections, refusal)
      BY <1>1, <1>2, <1>4, StepTyped DEF Parses
    <2>2. CASE refusal = Null
      <3>1. /\ Restates(Parser!RecordOf(snapshot.rows[n], snapshot.at), snapshot.rows[n])
            /\ Parser!RecordOf(snapshot.rows[n], snapshot.at).collected = snapshot.at
        BY <1>1, <1>2, <2>2, RecordRestates DEF Parser!RecordOf
      <3>2. /\ q.records = Append(parsed.records,
                                  Parser!RecordOf(snapshot.rows[n], snapshot.at))
            /\ q.rejections = parsed.rejections
        BY <2>1, <2>2, NullIsNoRejection
      <3> QED
        BY <1>1, <1>2, <1>3, <2>1, <2>2, <3>1, <3>2, ParsedTyped, RecordAccounts
    <2>3. CASE refusal # Null
      <3>1. Blames(refusal, snapshot.rows[n])
        <4> HIDE DEF n
        <4> QED
          BY <1>1, <1>2, <2>3, RefusalBlames
      <3> HIDE DEF refusal
      <3> QED
        BY <1>1, <1>3, <2>1, <2>3, <3>1, RejectionAccounts
    <2> QED
      BY <2>2, <2>3
  <1>5. /\ parsed' = Parser!ParseTransactionRow(parsed, snapshot.rows[n], snapshot.at)
        /\ UNCHANGED <<snapshot, origin>>
    BY DEF ParseRow
  <1>6. n <= Len(snapshot.rows)
    BY <1>1 DEF Snapshots
  <1> HIDE DEF n
  <1> QED
    BY <1>3, <1>4, <1>5, <1>6 DEF Accounted

\* Whatever the file holds and however often it is read: every row that was
\* taken is one record or one rejection that names it, in order, a rejection has
\* something against its row, and a record says, in every field, what its row
\* says: the last entry under the first alias, in the unit it names.
THEOREM RowsAccounted == Spec => []RowsAreAccountedFor
  <1>1. Init => Accounted
    BY DEF Init, Accounted
  <1>2. TypeInv /\ Accounted /\ [Next]_life => Accounted'
    <2> SUFFICES ASSUME TypeInv, Accounted, [Next]_life
                 PROVE  Accounted'
      OBVIOUS
    <2>1. CASE Fetch
      <3>1. /\ parsed'.records = <<>> /\ parsed'.rejections = <<>>
        BY <2>1 DEF Fetch, Parser!NothingParsed
      <3>2. snapshot' # Null =>
               /\ origin' = file /\ file \in Parser!File /\ file.state = "object"
               /\ origin'.rows = snapshot'.rows /\ origin'.at = snapshot'.at
        BY <2>1 DEF Fetch, TypeInv, Parser!LoadTransactionSnapshot, Parser!IsDocument
      <3> QED
        <4>1. snapshot' # Null => snapshot'.rows \in Seq(Rows) /\ Parser!Taken(parsed') = 0
          BY <2>1, <3>1, LoadedTyped DEF Fetch, TypeInv, Snapshots, Parser!Taken
        <4> QED
          BY <3>1, <3>2, <4>1, NullIsNoFile DEF Accounted, Restated, Rejected
    <2>2. CASE ParseRow
      BY <2>2, ParseRowAccounts
    <2>3. CASE UNCHANGED <<snapshot, parsed, origin>>
      BY <2>3 DEF Accounted
    <2>4. ASSUME ~ Fetch, ~ ParseRow
          PROVE  UNCHANGED <<snapshot, parsed, origin>>
      BY <2>4 DEF Next, Start, Capture, Examine, Ask, Refresh, source, life
    <2> QED
      BY <2>1, <2>2, <2>3, <2>4
  <1>3. Accounted => RowsAreAccountedFor
    BY DEF Accounted, RowsAreAccountedFor
  <1> QED
    BY <1>1, <1>2, <1>3, TypeInvHolds, PTL DEF Spec

-----------------------------------------------------------------------------
(* The gates *)

\* SCHEMA_INVALID is reported for the year of construction only: the gates
\* before it leave the Transaction schema nothing else to refuse.
THEOREM SchemaLast == Spec => []SchemaIsLastResort
  <1>1. TypeInv => SchemaIsLastResort
    <2> SUFFICES ASSUME TypeInv, record # Null, Verdict(record, window) = "schema_invalid"
                 PROVE  /\ record.built_year # Null
                        /\ record.built_year < 1800 \/ 2200 < record.built_year
      BY DEF SchemaIsLastResort
    <2>1. /\ ~ NotPositive(record.area) /\ ~ NotPositive(record.deal_price)
          /\ ~ (record.listing_price # Null /\ record.listing_price <= 0)
          /\ ~ (record.days_on_market # Null /\ record.days_on_market < 0)
          /\ ~ (record.unit_price # Null /\ record.unit_price.num <= 0)
          /\ ~ FitsSchema(TransactionOf(record))
      BY DEF Verdict, Accepted
    <2>2. /\ record.area \in Int /\ record.area > 0
          /\ record.deal_price \in Int /\ record.deal_price > 0
          /\ record.listing_price \in Int \union {Null}
          /\ record.days_on_market \in Int \union {Null}
          /\ record.built_year \in Int \union {Null}
          /\ record.unit_price \in Ratio \union {Null}
      BY <2>1 DEF TypeInv, Records, NotPositive
    <2>3. UnitPrice(record).num > 0
      BY <2>1, <2>2 DEF UnitPrice, Derived, Ratio
    <2> QED
      BY <2>1, <2>2, <2>3 DEF FitsSchema, TransactionOf
  <1> QED
    BY <1>1, TypeInvHolds, PTL

\* A refresh of a stored transaction is accepted and changes nothing stored.
THEOREM RefreshStable == Spec => RefreshIsStable
  <1> DEFINE Step == Refresh => /\ Verdict(record', window) = Accepted
                                /\ TransactionOf(record') = TransactionOf(record)
  <1>1. TypeInv /\ [Next]_life => [Step]_life
    BY RefreshAccepted DEF TypeInv, Refresh, AsPublished
  <1> QED
    BY <1>1, TypeInvHolds, PTL DEF Spec, RefreshIsStable

\* The window takes part in the verdict by its own gate only.
LEMMA WindowIsOneGate ==
    ASSUME NEW r \in Records, NEW w \in Window
    PROVE  Verdict(r, w) = Accepted <=>
               Verdict(r, Unbounded) = Accepted /\ ~ OutOfWindow(r, w)
  <1>1. ~ OutOfWindow(r, Unbounded)
    BY DEF OutOfWindow, Unbounded
  <1> QED
    BY <1>1 DEF Verdict, Accepted

\* Two adjoining windows accept what the window that spans them accepts, and no
\* record twice, whatever the record and wherever the cut.
THEOREM AdjoiningWindows == Spec => []AdjoiningWindowsAddUp
  <1>1. TypeInv => AdjoiningWindowsAddUp
    <2> SUFFICES ASSUME TypeInv, record # Null,
                        NEW cut \in {w.end : w \in Windows} \ {Null},
                        window.start = Null \/ window.start <= cut,
                        window.end = Null \/ cut + 1 <= window.end
                 PROVE  LET before == [window EXCEPT !.end = cut]
                            after  == [window EXCEPT !.start = cut + 1]
                        IN  /\ Verdict(record, window) = Accepted <=>
                                  \/ Verdict(record, before) = Accepted
                                  \/ Verdict(record, after) = Accepted
                            /\ ~ (/\ Verdict(record, before) = Accepted
                                  /\ Verdict(record, after) = Accepted)
      BY DEF AdjoiningWindowsAddUp
    <2> DEFINE before == [window EXCEPT !.end = cut]
               after  == [window EXCEPT !.start = cut + 1]
    <2>1. cut \in Int /\ window \in Window /\ record \in Records
      BY WindowsAreWindows DEF TypeInv, Window
    <2>2. before \in Window /\ after \in Window
      BY <2>1 DEF Window
    <2>3. /\ window.start \in Int \union {Null} /\ window.end \in Int \union {Null}
          /\ before.start = window.start /\ before.end = cut
          /\ after.start = cut + 1 /\ after.end = window.end
      BY <2>1 DEF Window
    <2>4. Verdict(record, Unbounded) = Accepted => record.deal_date \in Int
      BY <2>1 DEF Verdict, Accepted, Records
    <2>5. ASSUME record.deal_date \in Int
          PROVE  /\ ~ OutOfWindow(record, window) <=>
                       ~ OutOfWindow(record, before) \/ ~ OutOfWindow(record, after)
                 /\ OutOfWindow(record, before) \/ OutOfWindow(record, after)
      <3> HIDE DEF before, after
      <3> QED
        BY <2>1, <2>3, <2>5, NullIsNoValue DEF OutOfWindow
    <2>6. \A w \in {window, before, after} :
             Verdict(record, w) = Accepted <=>
                 Verdict(record, Unbounded) = Accepted /\ ~ OutOfWindow(record, w)
      BY <2>1, <2>2, WindowIsOneGate
    <2> HIDE DEF before, after
    <2>7. /\ Verdict(record, window) = Accepted <=>
                \/ Verdict(record, before) = Accepted
                \/ Verdict(record, after) = Accepted
          /\ ~ (/\ Verdict(record, before) = Accepted
                /\ Verdict(record, after) = Accepted)
      BY <2>4, <2>5, <2>6
    <2> QED
      BY <2>7 DEF before, after
  <1> QED
    BY <1>1, TypeInvHolds, PTL

-----------------------------------------------------------------------------
(* Plausibility *)

\* The tolerance on either side, from the tolerance on the distance.
LEMMA WithinTolerance ==
    ASSUME NEW x \in Int, NEW y \in Int, NEW t \in Int, 100 * abs(x - y) <= t * y
    PROVE  (100 - t) * y <= 100 * x /\ 100 * x <= (100 + t) * y
  <1>1. x - y <= abs(x - y) /\ y - x <= abs(x - y) /\ abs(x - y) \in Int
    BY DEF abs
  <1>2. (100 - t) * y = 100 * y - t * y /\ (100 + t) * y = 100 * y + t * y
    OBVIOUS
  <1>3. t * y \in Int
    OBVIOUS
  <1> QED
    BY <1>1, <1>2, <1>3

\* A derived unit price is exact, and so within every tolerance.
LEMMA ExactIsWithin ==
    ASSUME NEW a \in Int, NEW b \in Int, a > 0, b > 0, NEW t \in 0 .. 100
    PROVE  (100 - t) * (a * b) <= 100 * (a * b) /\ 100 * (a * b) <= (100 + t) * (a * b)
  <1>1. a * b \in Nat
    OBVIOUS
  <1>2. \A y \in Nat : (100 - t) * y <= 100 * y /\ 100 * y <= (100 + t) * y
    <2> TAKE y \in Nat
    <2>1. t * y >= 0 /\ t * y \in Int
      OBVIOUS
    <2>2. (100 - t) * y = 100 * y - t * y /\ (100 + t) * y = 100 * y + t * y
      OBVIOUS
    <2> QED
      BY <2>1, <2>2
  <1> QED
    BY <1>1, <1>2

\* What the gates accept is in time, and its unit price times its area is within
\* the tolerance of its deal price on either side, for every tolerance.
THEOREM AcceptedPlausible == Spec => []AcceptedIsPlausible
  <1>1. TypeInv => AcceptedIsPlausible
    <2> SUFFICES ASSUME TypeInv, record # Null, Verdict(record, window) = Accepted
                 PROVE  LET t == TransactionOf(record)
                            scaled == t.unit_price.num * t.area
                            price == t.deal_price * t.unit_price.den
                        IN  /\ window.start # Null => window.start <= t.deal_date
                            /\ window.end # Null => t.deal_date <= window.end
                            /\ t.deal_date - t.collected <= FutureDealDateGrace
                            /\ (100 - Tolerance) * price <= 100 * scaled
                            /\ 100 * scaled <= (100 + Tolerance) * price
      BY DEF AcceptedIsPlausible
    <2> DEFINE u == UnitPrice(record)
    <2>1. /\ record.deal_date \in Int /\ record.collected \in Int
          /\ record.deal_date <= record.collected + 1
          /\ record.area \in Int /\ record.area > 0
          /\ record.deal_price \in Int /\ record.deal_price > 0
          /\ record.unit_price # Null =>
                /\ record.unit_price \in Ratio
                /\ ~ Inconsistent(record.unit_price, record.area, record.deal_price)
      BY DEF Verdict, Accepted, TypeInv, Records, TooLate, NotPositive, FutureDealDateGrace
    <2>2. /\ (100 - Tolerance) * (record.deal_price * u.den) <= 100 * (u.num * record.area)
          /\ 100 * (u.num * record.area) <= (100 + Tolerance) * (record.deal_price * u.den)
      <3>1. CASE record.unit_price = Null
        <4>1. u.num = record.deal_price /\ u.den = record.area
          BY <3>1 DEF UnitPrice, Derived
        <4> HIDE DEF u
        <4> QED
          BY <2>1, <4>1, ExactIsWithin, ToleranceIsSound
      <3>2. CASE record.unit_price # Null
        <4>1. u \in Ratio /\ u = record.unit_price
          BY <2>1, <3>2 DEF UnitPrice
        <4>2. u.num \in Int /\ u.den \in Int /\ Tolerance \in Int
          BY <4>1, ToleranceIsSound DEF Ratio
        <4> HIDE DEF u
        <4>3. /\ u.num * record.area \in Int /\ record.deal_price * u.den \in Int
              /\ Tolerance * record.deal_price * u.den
                    = Tolerance * (record.deal_price * u.den)
          BY <2>1, <4>2
        <4>4. abs(u.num * record.area - record.deal_price * u.den) \in Int
          BY <4>3 DEF abs
        <4>5. 100 * abs(u.num * record.area - record.deal_price * u.den)
                 <= Tolerance * (record.deal_price * u.den)
          <5>1. ~ (100 * abs(u.num * record.area - record.deal_price * u.den)
                      > Tolerance * record.deal_price * u.den)
            BY <2>1, <3>2, <4>1 DEF Inconsistent
          <5> QED
            BY <4>2, <4>3, <4>4, <5>1
        <4> QED
          BY <4>2, <4>3, <4>5, WithinTolerance
      <3> QED
        BY <3>1, <3>2
    <2>4. /\ window.start # Null => window.start <= record.deal_date
          /\ window.end # Null => record.deal_date <= window.end
      <3>1. ~ OutOfWindow(record, window)
        BY DEF Verdict, Accepted
      <3>2. /\ window.start # Null => window.start \in Int
            /\ window.end # Null => window.end \in Int
        BY DEF TypeInv, Window
      <3> QED
        BY <2>1, <3>1, <3>2 DEF OutOfWindow
    <2>3. /\ TransactionOf(record).unit_price = u
          /\ TransactionOf(record).area = record.area
          /\ TransactionOf(record).deal_price = record.deal_price
          /\ TransactionOf(record).deal_date = record.deal_date
          /\ TransactionOf(record).collected = record.collected
      BY DEF TransactionOf
    <2> HIDE DEF u
    <2> QED
      BY <2>1, <2>2, <2>3, <2>4 DEF FutureDealDateGrace
  <1> QED
    BY <1>1, TypeInvHolds, PTL

-----------------------------------------------------------------------------
(* The city profile *)

\* What a section or the root may hold.
Entries == UNION {[D -> STRING] : D \in SUBSET STRING}
Roots   == UNION {[D -> [scalar : STRING \union {Null}, entries : Entries]] : D \in SUBSET STRING}

Reading == [root : Roots, section : STRING \union {Null}, indent : Nat \union {Null},
            failed : BOOLEAN]

\* Line m of the first k stands in the section headed by line i.
Inside(lines, i, k, m) ==
    m \in i + 1 .. k /\ Within(lines, i, m) /\ lines[m].shape = "entry"

\* The scalar under x was read from a line of the first k.
ScalarRead(lines, k, s, x) ==
    \E i \in 1 .. k : /\ lines[i].indent = 0
                      /\ Entry(lines, i, x, s.root[x].scalar)

\* Line i of the first k heads the section x, which is open as long as every
\* entry after it is indented; its entries are those of the lines inside it, and
\* no two of these have one key.
Heads(lines, k, s, x, i) ==
    /\ lines[i].indent = 0 /\ Entry(lines, i, x, Null)
    /\ s.section = x <=> \A m \in i + 1 .. k : lines[m].shape = "entry" => lines[m].indent > 0
    /\ \A y \in DOMAIN s.root[x].entries :
          \E j \in i + 1 .. k : /\ Inside(lines, i, k, j)
                                /\ Entry(lines, j, y, s.root[x].entries[y])
    /\ \A m \in i + 1 .. k : Inside(lines, i, k, m) => lines[m].key \in DOMAIN s.root[x].entries
    /\ \A j, m \in i + 1 .. k : Inside(lines, i, k, j) /\ Inside(lines, i, k, m)
                                   /\ lines[j].key = lines[m].key => j = m

SectionRead(lines, k, s, x) ==
    /\ s.root[x].scalar = Null
    /\ \E i \in 1 .. k : Heads(lines, k, s, x, i)

\* The reader after k lines: everything the root holds is what they say.
ReadSoFar(lines, k, s) ==
    /\ s \in Reading
    /\ ~ s.failed =>
          /\ \A x \in DOMAIN s.root :
                \/ s.root[x].scalar # Null /\ s.root[x].entries = Configuration!NoEntries
                   /\ ScalarRead(lines, k, s, x)
                \/ SectionRead(lines, k, s, x)
          /\ s.section # Null => s.section \in DOMAIN s.root /\ s.root[s.section].scalar = Null

\* The recursion of ReadLines has a solution.
LEMMA ReadSteps ==
    ASSUME NEW lines, Len(lines) \in Nat
    PROVE  \E f : /\ Configuration!ReadLines(lines) = f[Len(lines)]
                  /\ f[0] = Configuration!Opening
                  /\ \A k \in 1 .. Len(lines) :
                        f[k] = Configuration!ReadLine(f[k - 1], lines[k])
  <1> DEFINE n == Len(lines)
             Following(g, k) == IF k = 0 THEN Configuration!Opening
                                ELSE Configuration!ReadLine(g[k - 1], lines[k])
             Runs(g, m) == g = [k \in 0 .. m |-> Following(g, k)]
             stuck == {m \in 0 .. n : ~ \E g : Runs(g, m)}
  <1> HIDE DEF n
  <1>1. n \in Nat
    BY DEF n
  <1>2. stuck = {}
    <2> SUFFICES ASSUME stuck # {}
                 PROVE  FALSE
      OBVIOUS
    <2>1. stuck \in SUBSET Nat
      BY <1>1
    <2>2. PICK m \in stuck : \A j \in stuck : m <= j
      <3> HIDE DEF stuck
      <3> QED
        BY <2>1, LeastNatural
    <2>3. m \in 0 .. n /\ ~ \E g : Runs(g, m)
      OBVIOUS
    <2>4. CASE m = 0
      <3>1. Runs([k \in 0 .. 0 |-> Configuration!Opening], 0)
        BY SMT
      <3> QED
        BY <2>3, <2>4, <3>1
    <2>5. CASE m # 0
      <3>1. m - 1 \in 0 .. n /\ m - 1 \notin stuck
        <4>1. m - 1 \in 0 .. n /\ ~ (m <= m - 1)
          BY <1>1, <2>3, <2>5
        <4> HIDE DEF stuck
        <4> QED
          BY <2>2, <4>1
      <3>2. PICK g : Runs(g, m - 1)
        BY <3>1
      <3> DEFINE last == Configuration!ReadLine(g[m - 1], lines[m])
                 f == [k \in 0 .. m |-> IF k = m THEN last ELSE g[k]]
      <3>3. \A k \in 0 .. m - 1 : f[k] = g[k]
        BY <2>3, <2>5, <1>1
      <3>4. \A k \in 0 .. m - 1 : g[k] = Following(g, k)
        BY <3>2, Zenon
      <3>5. ASSUME NEW k \in 0 .. m
            PROVE  f[k] = Following(f, k)
        <4>1. CASE k = m
          <5>1. f[m] = last /\ f[m - 1] = g[m - 1]
            BY <2>3, <2>5, <3>3, <1>1
          <5> HIDE DEF f
          <5> QED
            BY <2>5, <4>1, <5>1
        <4>2. CASE k # m
          <5>1. k \in 0 .. m - 1
            BY <1>1, <2>3, <4>2
          <5>2. k # 0 => f[k - 1] = g[k - 1]
            BY <1>1, <2>3, <5>1, <3>3
          <5>3. f[k] = Following(g, k)
            BY <3>3, <3>4, <5>1
          <5> HIDE DEF f
          <5> QED
            BY <5>2, <5>3
        <4> QED
          BY <4>1, <4>2
      <3>6. f = [k \in 0 .. m |-> f[k]]
        OBVIOUS
      <3>7. Runs(f, m)
        <4> HIDE DEF f
        <4> QED
          BY <3>5, <3>6, Zenon
      <3> QED
        BY <2>3, <3>7, Zenon
    <2> QED
      BY <2>4, <2>5
  <1>3. \E g : Runs(g, n)
    <2>1. n \in 0 .. n
      BY <1>1
    <2> QED
      BY <1>2, <2>1, Zenon
  <1> DEFINE f == CHOOSE g : Runs(g, n)
  <1>4. f = [k \in 0 .. n |-> Following(f, k)]
    BY <1>3, Zenon
  <1>5. Configuration!ReadLines(lines) = f[n]
    BY Zenon DEF Configuration!ReadLines, n
  <1> HIDE DEF f
  <1>6. \A k \in 0 .. n : f[k] = Following(f, k)
    BY <1>4, Zenon
  <1>7. f[0] = Configuration!Opening
    BY <1>1, <1>6
  <1>8. \A k \in 1 .. n : f[k] = Configuration!ReadLine(f[k - 1], lines[k])
    <2> TAKE k \in 1 .. n
    <2>1. k \in 0 .. n /\ k # 0
      BY <1>1
    <2> QED
      BY <1>6, <2>1, Zenon
  <1> QED
    BY <1>5, <1>7, <1>8 DEF n

\* An empty section.
LEMMA NoEntriesIs == Configuration!NoEntries \in Entries /\ DOMAIN Configuration!NoEntries = {}
  <1>1. Configuration!NoEntries \in [{} -> STRING]
    BY DEF Configuration!NoEntries
  <1>2. {} \in SUBSET STRING
    OBVIOUS
  <1> QED
    BY <1>1, <1>2 DEF Entries

\* Adding or replacing one entry gives entries, and likewise for the root.
LEMMA PutEntries ==
    ASSUME NEW f \in Entries, NEW x \in STRING, NEW v \in STRING
    PROVE  Configuration!Put(f, x, v) \in Entries
  <1>1. PICK D \in SUBSET STRING : f \in [D -> STRING]
    BY DEF Entries
  <1>2. Configuration!Put(f, x, v) \in [D \union {x} -> STRING]
    BY <1>1 DEF Configuration!Put
  <1>3. D \union {x} \in SUBSET STRING
    OBVIOUS
  <1> QED
    BY <1>2, <1>3 DEF Entries

LEMMA PutRoots ==
    ASSUME NEW f \in Roots, NEW x \in STRING,
           NEW v \in [scalar : STRING \union {Null}, entries : Entries]
    PROVE  Configuration!Put(f, x, v) \in Roots
  <1> DEFINE Items == [scalar : STRING \union {Null}, entries : Entries]
  <1> HIDE DEF Items
  <1>1. PICK D \in SUBSET STRING : f \in [D -> Items]
    BY DEF Roots, Items
  <1>2. v \in Items
    BY DEF Items
  <1>3. Configuration!Put(f, x, v) \in [D \union {x} -> Items]
    BY <1>1, <1>2 DEF Configuration!Put
  <1>4. D \union {x} \in SUBSET STRING
    OBVIOUS
  <1> QED
    BY <1>3, <1>4 DEF Roots, Items

\* The lines inside a section after one more line.
LEMMA InsideGrows ==
    ASSUME NEW lines, NEW k \in Nat, NEW i \in 1 .. k - 1, NEW m \in Int
    PROVE  Inside(lines, i, k, m) <=>
              \/ Inside(lines, i, k - 1, m)
              \/ m = k /\ Inside(lines, i, k, k)
  <1>1. m \in i + 1 .. k <=> m \in i + 1 .. k - 1 \/ m = k
    OBVIOUS
  <1> QED
    BY <1>1 DEF Inside

\* A section that the next line neither extends nor closes is as it was.
LEMMA HeadsStay ==
    ASSUME NEW lines \in Seq(Configuration!Line), NEW k \in 1 .. Len(lines),
           NEW s, NEW t, NEW x, NEW i \in 1 .. k - 1,
           Heads(lines, k - 1, s, x, i), t.root[x] = s.root[x],
           \/ lines[k].shape # "entry" /\ (t.section = x <=> s.section = x)
           \/ /\ lines[k].shape = "entry" /\ t.section # x
              /\ s.section # x \/ lines[k].indent = 0
    PROVE  Heads(lines, k, t, x, i)
  <1>1. k \in Nat /\ i \in Nat /\ k \in i + 1 .. k
    OBVIOUS
  <1>2. \A m \in i + 1 .. k : m \in Int /\ (m \in i + 1 .. k - 1 \/ m = k)
    OBVIOUS
  <1>3. i + 1 .. k - 1 \subseteq i + 1 .. k
    OBVIOUS
  <1>4. ~ Inside(lines, i, k, k)
    <2>1. CASE lines[k].shape # "entry"
      BY <2>1 DEF Inside
    <2>2. CASE lines[k].shape = "entry" /\ lines[k].indent = 0
      BY <2>2 DEF Inside, Within
    <2>3. CASE s.section # x
      <3>1. PICK m \in i + 1 .. k - 1 : lines[m].shape = "entry" /\ ~ (lines[m].indent > 0)
        BY <2>3 DEF Heads
      <3> QED
        BY <1>3, <3>1 DEF Inside, Within
    <2> QED
      BY <2>1, <2>2, <2>3
  <1>5. \A m \in i + 1 .. k : Inside(lines, i, k, m) <=> Inside(lines, i, k - 1, m)
    BY <1>1, <1>2, <1>4, InsideGrows
  <1>6. \A m \in i + 1 .. k : Inside(lines, i, k, m) => m \in i + 1 .. k - 1
    BY <1>5 DEF Inside
  <1>7. t.section = x <=> \A m \in i + 1 .. k : lines[m].shape = "entry" => lines[m].indent > 0
    <2>1. CASE lines[k].shape # "entry" /\ (t.section = x <=> s.section = x)
      <3>1. s.section = x <=> \A m \in i + 1 .. k - 1 : lines[m].shape = "entry" => lines[m].indent > 0
        BY DEF Heads
      <3> QED
        BY <1>2, <1>3, <2>1, <3>1
    <2>2. CASE lines[k].shape = "entry" /\ t.section # x /\ lines[k].indent = 0
      BY <1>1, <2>2
    <2>3. CASE t.section # x /\ s.section # x
      <3>1. PICK m \in i + 1 .. k - 1 : lines[m].shape = "entry" /\ ~ (lines[m].indent > 0)
        BY <2>3 DEF Heads
      <3> QED
        BY <1>3, <2>3, <3>1
    <2> QED
      BY <2>1, <2>2, <2>3
  <1>8. /\ lines[i].indent = 0 /\ Entry(lines, i, x, Null)
        /\ \A y \in DOMAIN s.root[x].entries :
              \E j \in i + 1 .. k - 1 : /\ Inside(lines, i, k - 1, j)
                                        /\ Entry(lines, j, y, s.root[x].entries[y])
        /\ \A m \in i + 1 .. k - 1 : Inside(lines, i, k - 1, m) => lines[m].key \in DOMAIN s.root[x].entries
        /\ \A j, m \in i + 1 .. k - 1 : Inside(lines, i, k - 1, j) /\ Inside(lines, i, k - 1, m)
                                       /\ lines[j].key = lines[m].key => j = m
    BY DEF Heads
  <1>9. \A y \in DOMAIN t.root[x].entries :
           \E j \in i + 1 .. k : Inside(lines, i, k, j) /\ Entry(lines, j, y, t.root[x].entries[y])
    BY <1>3, <1>5, <1>8
  <1>10. \A m \in i + 1 .. k : Inside(lines, i, k, m) => lines[m].key \in DOMAIN t.root[x].entries
    BY <1>5, <1>6, <1>8
  <1>11. \A j, m \in i + 1 .. k : Inside(lines, i, k, j) /\ Inside(lines, i, k, m)
                                    /\ lines[j].key = lines[m].key => j = m
    BY <1>5, <1>6, <1>8, Zenon
  <1> QED
    BY <1>7, <1>8, <1>9, <1>10, <1>11, Zenon DEF Heads

\* The open section takes in an indented entry under a new key.
LEMMA HeadsGrow ==
    ASSUME NEW lines \in Seq(Configuration!Line), NEW k \in 1 .. Len(lines),
           NEW s, NEW t, NEW x, NEW i \in 1 .. k - 1,
           Heads(lines, k - 1, s, x, i), s.section = x, t.section = x,
           lines[k].shape = "entry", lines[k].indent > 0,
           lines[k].key \notin DOMAIN s.root[x].entries,
           t.root[x].entries = Configuration!Put(s.root[x].entries, lines[k].key, lines[k].value)
    PROVE  Heads(lines, k, t, x, i)
  <1>1. k \in Nat /\ i \in Nat /\ k \in i + 1 .. k
    OBVIOUS
  <1>2. \A m \in i + 1 .. k : m \in Int /\ (m \in i + 1 .. k - 1 \/ m = k)
    OBVIOUS
  <1>3. i + 1 .. k - 1 \subseteq i + 1 .. k
    OBVIOUS
  <1>4. \A m \in i + 1 .. k : lines[m].shape = "entry" => lines[m].indent > 0
    BY <1>2 DEF Heads
  <1>5. Inside(lines, i, k, k)
    BY <1>1, <1>4 DEF Inside, Within
  <1>6. \A m \in i + 1 .. k : Inside(lines, i, k, m) <=> Inside(lines, i, k - 1, m) \/ m = k
    BY <1>1, <1>2, <1>5, InsideGrows
  <1>7. PICK e : e = s.root[x].entries
    OBVIOUS
  <1>8. PICK g : g = t.root[x].entries
    OBVIOUS
  <1>9. /\ DOMAIN g = DOMAIN e \union {lines[k].key}
        /\ g[lines[k].key] = lines[k].value
        /\ \A y \in DOMAIN e : y # lines[k].key /\ g[y] = e[y]
    BY <1>7, <1>8 DEF Configuration!Put
  <1>10. /\ lines[i].indent = 0 /\ Entry(lines, i, x, Null)
         /\ \A y \in DOMAIN e :
               \E j \in i + 1 .. k - 1 : Inside(lines, i, k - 1, j) /\ Entry(lines, j, y, e[y])
         /\ \A m \in i + 1 .. k - 1 : Inside(lines, i, k - 1, m) => lines[m].key \in DOMAIN e
         /\ \A j, m \in i + 1 .. k - 1 : Inside(lines, i, k - 1, j) /\ Inside(lines, i, k - 1, m)
                                        /\ lines[j].key = lines[m].key => j = m
    BY <1>7 DEF Heads
  <1>11. \A y \in DOMAIN g :
            \E j \in i + 1 .. k : Inside(lines, i, k, j) /\ Entry(lines, j, y, g[y])
    <2> TAKE y \in DOMAIN g
    <2>1. CASE y = lines[k].key
      BY <1>1, <1>5, <1>9, <2>1 DEF Entry
    <2>2. CASE y # lines[k].key
      BY <1>3, <1>6, <1>9, <1>10, <2>2
    <2> QED
      BY <2>1, <2>2
  <1>12. \A m \in i + 1 .. k : Inside(lines, i, k, m) => lines[m].key \in DOMAIN g
    BY <1>2, <1>6, <1>9, <1>10
  <1>13. \A m \in i + 1 .. k - 1 : Inside(lines, i, k, m) => Inside(lines, i, k - 1, m) /\ lines[m].key # lines[k].key
    <2>1. \A m \in i + 1 .. k - 1 : m # k
      OBVIOUS
    <2> QED
      BY <1>3, <1>6, <1>7, <1>10, <2>1
  <1>14. \A j, m \in i + 1 .. k : Inside(lines, i, k, j) /\ Inside(lines, i, k, m)
                                    /\ lines[j].key = lines[m].key => j = m
    BY <1>2, <1>10, <1>13, Zenon
  <1> QED
    BY <1>4, <1>8, <1>10, <1>11, <1>12, <1>14, Zenon DEF Heads

\* One line more keeps the root restating the lines.
LEMMA LineRestates ==
    ASSUME NEW lines \in Seq(Configuration!Line), NEW k \in 1 .. Len(lines),
           NEW s, ReadSoFar(lines, k - 1, s)
    PROVE  ReadSoFar(lines, k, Configuration!ReadLine(s, lines[k]))
  <1>1. PICK line : line = lines[k]
    OBVIOUS
  <1>2. /\ line \in Configuration!Line
        /\ line.shape \in {"blank", "unsupported", "entry"} /\ line.indent \in Nat
        /\ line.key \in STRING /\ line.value \in STRING \union {Null}
    <2>1. line \in Configuration!Line
      BY <1>1
    <2> QED
      BY <2>1 DEF Configuration!Line
  <1>3. /\ s \in Reading /\ s.root \in Roots /\ s.section \in STRING \union {Null}
        /\ s.indent \in Nat \union {Null} /\ s.failed \in BOOLEAN
    BY DEF ReadSoFar, Reading
  <1>4. PICK t : t = Configuration!ReadLine(s, line)
    OBVIOUS
  <1>5. 1 .. k - 1 \subseteq 1 .. k /\ k \in 1 .. k
    OBVIOUS
  <1>6. ReadSoFar(lines, k, Configuration!Failed(s))
    BY <1>3 DEF Configuration!Failed, ReadSoFar, Reading
  <1>7. CASE s.failed
    BY <1>3, <1>4, <1>7 DEF Configuration!ReadLine, ReadSoFar
  <1>8. CASE t = Configuration!Failed(s)
    BY <1>1, <1>4, <1>6, <1>8
  <1>9. CASE ~ s.failed /\ t # Configuration!Failed(s)
    <2>1. /\ \A x \in DOMAIN s.root :
                \/ s.root[x].scalar # Null /\ s.root[x].entries = Configuration!NoEntries
                   /\ ScalarRead(lines, k - 1, s, x)
                \/ SectionRead(lines, k - 1, s, x)
          /\ s.section # Null => s.section \in DOMAIN s.root /\ s.root[s.section].scalar = Null
      BY <1>9 DEF ReadSoFar
    <2>2. ASSUME NEW x \in DOMAIN s.root, t.root[x] = s.root[x],
                 \/ line.shape # "entry" /\ (t.section = x <=> s.section = x)
                 \/ /\ line.shape = "entry" /\ t.section # x
                    /\ s.section # x \/ line.indent = 0
          PROVE  \/ t.root[x].scalar # Null /\ t.root[x].entries = Configuration!NoEntries
                    /\ ScalarRead(lines, k, t, x)
                 \/ SectionRead(lines, k, t, x)
      <3>1. CASE s.root[x].scalar # Null /\ s.root[x].entries = Configuration!NoEntries
                 /\ ScalarRead(lines, k - 1, s, x)
        BY <1>5, <2>2, <3>1 DEF ScalarRead
      <3>2. CASE SectionRead(lines, k - 1, s, x)
        <4>1. PICK i \in 1 .. k - 1 : Heads(lines, k - 1, s, x, i)
          BY <3>2 DEF SectionRead
        <4>2. Heads(lines, k, t, x, i)
          BY <1>1, <2>2, <4>1, HeadsStay
        <4> QED
          BY <1>5, <2>2, <3>2, <4>2 DEF SectionRead
      <3> QED
        BY <2>1, <3>1, <3>2
    <2>3. CASE line.shape = "blank"
      <3>1. t = s
        BY <1>4, <2>3 DEF Configuration!ReadLine
      <3> QED
        BY <1>1, <1>3, <1>4, <2>1, <2>2, <2>3, <3>1 DEF ReadSoFar
    <2>4. CASE line.shape = "entry" /\ line.indent = 0
      <3>1. t = Configuration!ReadTopLevel(s, line)
        BY <1>4, <1>9, <2>4 DEF Configuration!ReadLine
      <3>2. line.key \notin DOMAIN s.root
        BY <1>9, <3>1 DEF Configuration!ReadTopLevel
      <3>3. CASE line.value = Null
        <4>1. PICK v : v = Configuration!Section(Configuration!NoEntries)
          OBVIOUS
        <4>2. t = [s EXCEPT !.root = Configuration!Put(@, line.key, v),
                            !.section = line.key, !.indent = Null]
          BY <3>1, <3>2, <3>3, <4>1 DEF Configuration!ReadTopLevel
        <4>3. PICK r : r = Configuration!Put(s.root, line.key, v)
          OBVIOUS
        <4>4. /\ t.root = r /\ t.section = line.key /\ t.indent = Null /\ t.failed = s.failed
              /\ t = [root |-> r, section |-> line.key, indent |-> Null, failed |-> s.failed]
          BY <1>3, <4>2, <4>3 DEF Reading
        <4>5. /\ DOMAIN r = DOMAIN s.root \union {line.key} /\ r[line.key] = v
              /\ \A x \in DOMAIN s.root : r[x] = s.root[x] /\ x # line.key
          BY <3>2, <4>3 DEF Configuration!Put
        <4>6. v.scalar = Null /\ v.entries = Configuration!NoEntries
          BY <4>1 DEF Configuration!Section
        <4>7. Configuration!NoEntries \in Entries /\ DOMAIN Configuration!NoEntries = {}
          BY NoEntriesIs
        <4>8. v \in [scalar : STRING \union {Null}, entries : Entries]
          BY <4>1, <4>7 DEF Configuration!Section
        <4>9. r \in Roots
          BY <1>2, <1>3, <4>3, <4>8, PutRoots
        <4>10. t \in Reading
          BY <1>2, <1>3, <4>4, <4>9 DEF Reading
        <4>11. Heads(lines, k, t, line.key, k)
          <5>1. k + 1 .. k = {}
            OBVIOUS
          <5> QED
            BY <1>1, <2>4, <3>3, <4>4, <4>5, <4>6, <4>7, <5>1 DEF Heads, Entry
        <4>12. SectionRead(lines, k, t, line.key)
          BY <1>5, <4>4, <4>5, <4>6, <4>11 DEF SectionRead
        <4>13. \A x \in DOMAIN t.root :
                 \/ t.root[x].scalar # Null /\ t.root[x].entries = Configuration!NoEntries
                    /\ ScalarRead(lines, k, t, x)
                 \/ SectionRead(lines, k, t, x)
          BY <2>2, <2>4, <4>4, <4>5, <4>12
        <4>14. t.section \in DOMAIN t.root /\ t.root[t.section].scalar = Null
          BY <4>4, <4>5, <4>6
        <4> QED
          BY <1>1, <1>4, <4>10, <4>13, <4>14 DEF ReadSoFar
      <3>4. CASE line.value # Null
        <4>1. PICK v : v = Configuration!Scalar(line.value)
          OBVIOUS
        <4>2. t = [s EXCEPT !.root = Configuration!Put(@, line.key, v),
                            !.section = Null, !.indent = Null]
          BY <3>1, <3>2, <3>4, <4>1 DEF Configuration!ReadTopLevel
        <4>3. PICK r : r = Configuration!Put(s.root, line.key, v)
          OBVIOUS
        <4>4. /\ t.root = r /\ t.section = Null /\ t.indent = Null /\ t.failed = s.failed
              /\ t = [root |-> r, section |-> Null, indent |-> Null, failed |-> s.failed]
          BY <1>3, <4>2, <4>3 DEF Reading
        <4>5. /\ DOMAIN r = DOMAIN s.root \union {line.key} /\ r[line.key] = v
              /\ \A x \in DOMAIN s.root : r[x] = s.root[x] /\ x # line.key
          BY <3>2, <4>3 DEF Configuration!Put
        <4>6. v.scalar = line.value /\ v.entries = Configuration!NoEntries
          BY <4>1 DEF Configuration!Scalar
        <4>7. Configuration!NoEntries \in Entries
          BY NoEntriesIs
        <4>8. v \in [scalar : STRING \union {Null}, entries : Entries]
          BY <1>2, <4>1, <4>7 DEF Configuration!Scalar
        <4>9. r \in Roots
          BY <1>2, <1>3, <4>3, <4>8, PutRoots
        <4>10. t \in Reading
          BY <1>3, <4>4, <4>9 DEF Reading
        <4>11. ScalarRead(lines, k, t, line.key)
          BY <1>1, <1>5, <2>4, <4>4, <4>5, <4>6 DEF ScalarRead, Entry
        <4>12. \A x \in DOMAIN s.root : x # Null
          <5>1. DOMAIN s.root \subseteq STRING
            BY <1>3 DEF Roots
          <5> QED
            BY <5>1, NamesAreStrings
        <4>13. \A x \in DOMAIN t.root :
                 \/ t.root[x].scalar # Null /\ t.root[x].entries = Configuration!NoEntries
                    /\ ScalarRead(lines, k, t, x)
                 \/ SectionRead(lines, k, t, x)
          BY <2>2, <2>4, <3>4, <4>4, <4>5, <4>6, <4>11, <4>12
        <4> QED
          BY <1>1, <1>4, <4>4, <4>10, <4>13 DEF ReadSoFar
      <3> QED
        BY <3>3, <3>4
    <2>5. CASE line.shape = "entry" /\ line.indent # 0
      <3>1. t = Configuration!ReadSectionEntry(s, line)
        BY <1>4, <1>9, <2>5 DEF Configuration!ReadLine
      <3>2. PICK section : section = s.section
        OBVIOUS
      <3>3. PICK e : e = s.root[section].entries
        OBVIOUS
      <3>4. section # Null /\ line.value # Null /\ line.key \notin DOMAIN e
        BY <1>9, <3>1, <3>2, <3>3 DEF Configuration!ReadSectionEntry
      <3>5. /\ section \in DOMAIN s.root /\ s.root[section].scalar = Null
            /\ section \in STRING /\ line.value \in STRING
        BY <1>2, <1>3, <2>1, <3>2, <3>4
      <3>6. PICK g : g = Configuration!Put(e, line.key, line.value)
        OBVIOUS
      <3>7. PICK v : v = Configuration!Section(g)
        OBVIOUS
      <3>8. t = [s EXCEPT !.indent = line.indent, !.root = Configuration!Put(@, s.section, v)]
        BY <1>9, <3>1, <3>2, <3>3, <3>6, <3>7 DEF Configuration!ReadSectionEntry
      <3>9. PICK r : r = Configuration!Put(s.root, section, v)
        OBVIOUS
      <3>10. /\ t.root = r /\ t.section = section /\ t.indent = line.indent /\ t.failed = s.failed
             /\ t = [root |-> r, section |-> section, indent |-> line.indent, failed |-> s.failed]
        BY <1>3, <3>2, <3>8, <3>9 DEF Reading
      <3>11. /\ DOMAIN r = DOMAIN s.root /\ r[section] = v
             /\ \A x \in DOMAIN s.root \ {section} : r[x] = s.root[x]
        BY <3>5, <3>9 DEF Configuration!Put
      <3>12. v.scalar = Null /\ v.entries = g
        BY <3>7 DEF Configuration!Section
      <3>13. e \in Entries
        BY <1>3, <3>3, <3>5 DEF Roots
      <3>14. g \in Entries
        BY <1>2, <3>5, <3>6, <3>13, PutEntries
      <3>15. v \in [scalar : STRING \union {Null}, entries : Entries]
        BY <3>7, <3>14 DEF Configuration!Section
      <3>16. r \in Roots
        BY <1>3, <3>5, <3>9, <3>15, PutRoots
      <3>17. t \in Reading
        BY <1>2, <1>3, <3>2, <3>10, <3>16 DEF Reading
      <3>18. PICK i \in 1 .. k - 1 : Heads(lines, k - 1, s, section, i)
        BY <2>1, <3>5 DEF SectionRead
      <3>19. Heads(lines, k, t, section, i)
        <4>1. line.indent > 0
          BY <1>2, <2>5
        <4>2. t.root[section].entries = Configuration!Put(s.root[section].entries, lines[k].key, lines[k].value)
          BY <1>1, <3>3, <3>6, <3>10, <3>11, <3>12
        <4> QED
          BY <1>1, <2>5, <3>2, <3>3, <3>4, <3>10, <3>18, <4>1, <4>2, HeadsGrow
      <3>20. SectionRead(lines, k, t, section)
        BY <1>5, <3>10, <3>11, <3>12, <3>19 DEF SectionRead
      <3>21. \A x \in DOMAIN t.root :
               \/ t.root[x].scalar # Null /\ t.root[x].entries = Configuration!NoEntries
                  /\ ScalarRead(lines, k, t, x)
               \/ SectionRead(lines, k, t, x)
        BY <2>2, <2>5, <3>2, <3>10, <3>11, <3>20
      <3> QED
        BY <1>1, <1>4, <3>5, <3>10, <3>11, <3>12, <3>17, <3>21 DEF ReadSoFar
    <2>6. line.shape # "unsupported"
      BY <1>4, <1>9 DEF Configuration!ReadLine
    <2> QED
      BY <1>2, <2>3, <2>4, <2>5, <2>6
  <1> QED
    BY <1>7, <1>8, <1>9

\* What the reader holds after the last line restates the text.
LEMMA TextRestates ==
    ASSUME NEW lines \in Seq(Configuration!Line)
    PROVE  ReadSoFar(lines, Len(lines), Configuration!ReadLines(lines))
  <1>1. PICK n \in Nat : n = Len(lines)
    OBVIOUS
  <1>2. PICK f : /\ Configuration!ReadLines(lines) = f[n]
                 /\ f[0] = Configuration!Opening
                 /\ \A k \in 1 .. n : f[k] = Configuration!ReadLine(f[k - 1], lines[k])
    BY <1>1, ReadSteps
  <1> DEFINE bad == {k \in 0 .. n : ~ ReadSoFar(lines, k, f[k])}
  <1>3. ReadSoFar(lines, 0, f[0])
    <2>1. DOMAIN Configuration!NoEntries = {} /\ Configuration!NoEntries \in Roots
      <3>1. Configuration!NoEntries \in [{} -> [scalar : STRING \union {Null}, entries : Entries]]
        BY DEF Configuration!NoEntries
      <3>2. {} \in SUBSET STRING
        OBVIOUS
      <3> QED
        BY <3>1, <3>2, NoEntriesIs DEF Roots
    <2>2. Configuration!Opening = [root |-> Configuration!NoEntries, section |-> Null,
                                   indent |-> Null, failed |-> FALSE]
      BY DEF Configuration!Opening
    <2> QED
      BY <1>2, <2>1, <2>2 DEF ReadSoFar, Reading
  <1>4. bad = {}
    <2> SUFFICES ASSUME bad # {}
                 PROVE  FALSE
      OBVIOUS
    <2>1. bad \in SUBSET Nat
      OBVIOUS
    <2>2. PICK m \in bad : \A j \in bad : m <= j
      <3> HIDE DEF bad
      <3> QED
        BY <2>1, LeastNatural
    <2>3. m \in 0 .. n /\ ~ ReadSoFar(lines, m, f[m])
      BY <2>2, Zenon
    <2>4. m # 0
      BY <1>3, <2>3
    <2>5. m \in 1 .. n /\ m - 1 \in 0 .. n /\ ~ (m <= m - 1)
      BY <2>3, <2>4
    <2>6. m - 1 \notin bad
      <3> HIDE DEF bad
      <3> QED
        BY <2>2, <2>5
    <2>7. ReadSoFar(lines, m - 1, f[m - 1])
      BY <2>5, <2>6, Zenon
    <2>8. ReadSoFar(lines, m, Configuration!ReadLine(f[m - 1], lines[m]))
      BY <1>1, <2>5, <2>7, LineRestates
    <2> QED
      BY <1>2, <2>3, <2>5, <2>8
  <1>5. n \in 0 .. n
    OBVIOUS
  <1> QED
    BY <1>1, <1>2, <1>4, <1>5, Zenon

\* A text from which a provider is built says so.
LEMMA ProviderIsNamed ==
    ASSUME NEW lines \in Profiles, NEW profile,
           profile = Configuration!LoadCityProfile(lines, City), profile # Null,
           profile.transactions = LianjiaName
    PROVE  /\ lines # Null
           /\ \E k \in DOMAIN lines :
                 lines[k].indent = 0 /\ Entry(lines, k, "city_code", City)
           /\ \E i, j \in DOMAIN lines :
                 /\ lines[i].indent = 0 /\ Entry(lines, i, "providers", Null)
                 /\ Within(lines, i, j) /\ Entry(lines, j, "transactions", LianjiaName)
                 /\ \A k \in DOMAIN lines \ {j} :
                       Within(lines, i, k) /\ lines[k].shape = "entry" =>
                           lines[k].key # "transactions"
  <1>1. PICK root : root = IF lines = Null THEN Null ELSE Configuration!ParseYamlMapping(lines)
    OBVIOUS
  <1>2. profile = IF root = Null THEN Null
                  ELSE IF ~ Configuration!ValidProfile(root) THEN Null
                  ELSE IF root["city_code"].scalar # City THEN Null
                  ELSE [city_code |-> City, transactions |-> Configuration!TransactionsName(root)]
    BY <1>1, Zenon DEF Configuration!LoadCityProfile
  <1>3. /\ root # Null /\ Configuration!ValidProfile(root) /\ root["city_code"].scalar = City
        /\ Configuration!TransactionsName(root) = LianjiaName
    BY <1>2
  <1>4. lines # Null /\ root = Configuration!ParseYamlMapping(lines)
    BY <1>1, <1>3
  <1>5. lines \in Seq(Configuration!Line)
    BY <1>4, ProfilesAreTexts
  <1>6. PICK s : s = Configuration!ReadLines(lines)
    OBVIOUS
  <1>7. ~ s.failed /\ root = s.root
    BY <1>3, <1>4, <1>6 DEF Configuration!ParseYamlMapping
  <1>8. PICK n \in Nat : n = Len(lines) /\ DOMAIN lines = 1 .. n
    BY <1>5
  <1>9. \A x \in DOMAIN root :
            \/ root[x].scalar # Null /\ root[x].entries = Configuration!NoEntries
               /\ ScalarRead(lines, n, s, x)
            \/ SectionRead(lines, n, s, x)
    BY <1>5, <1>6, <1>7, <1>8, TextRestates DEF ReadSoFar
  <1>10. \E k \in DOMAIN lines : lines[k].indent = 0 /\ Entry(lines, k, "city_code", City)
    <2>1. "city_code" \in DOMAIN root /\ root["city_code"].scalar # Null
      BY <1>3 DEF Configuration!ValidProfile, Configuration!IsText
    <2>2. ScalarRead(lines, n, s, "city_code")
      BY <1>7, <1>9, <2>1 DEF SectionRead
    <2> QED
      BY <1>3, <1>7, <1>8, <2>2 DEF ScalarRead
  <1>11. /\ "providers" \in DOMAIN root
         /\ "transactions" \in DOMAIN root["providers"].entries
         /\ root["providers"].entries["transactions"] = LianjiaName
    BY <1>3, NamesAreStrings DEF Configuration!TransactionsName
  <1>12. PICK i \in 1 .. n : Heads(lines, n, s, "providers", i)
    <2>1. root["providers"].entries # Configuration!NoEntries
      BY <1>11, NoEntriesIs
    <2> QED
      BY <1>9, <1>11, <2>1 DEF SectionRead
  <1>13. PICK j \in i + 1 .. n : /\ Inside(lines, i, n, j)
                                 /\ Entry(lines, j, "transactions", LianjiaName)
    BY <1>7, <1>11, <1>12 DEF Heads
  <1>14. j \in DOMAIN lines /\ i \in DOMAIN lines
    BY <1>8
  <1>15. ASSUME NEW k \in DOMAIN lines \ {j}, Within(lines, i, k), lines[k].shape = "entry",
                lines[k].key = "transactions"
         PROVE  FALSE
    <2>1. k \in i + 1 .. n
      BY <1>8, <1>15 DEF Within
    <2>2. Inside(lines, i, n, k)
      BY <1>15, <2>1 DEF Inside
    <2>3. lines[j].key = lines[k].key
      BY <1>13, <1>15 DEF Entry
    <2> QED
      BY <1>12, <1>13, <1>15, <2>1, <2>2, <2>3 DEF Heads
  <1>16. lines[i].indent = 0 /\ Entry(lines, i, "providers", Null)
    BY <1>12 DEF Heads
  <1>17. Within(lines, i, j)
    BY <1>13 DEF Inside
  <1> QED
    BY <1>4, <1>10, <1>13, <1>14, <1>15, <1>16, <1>17, Zenon

\* A provider is built only for a city whose own profile names it once, in its
\* one section of providers, and with a file to replay.
THEOREM ProviderBuilt == Spec => BuiltAsConfigured
  <1>1. ASSUME provider' # provider, provider' = "recorded",
               NEW lines \in Profiles, NEW isPath \in BOOLEAN, Start(lines, isPath)
        PROVE  /\ lines # Null /\ isPath /\ file.state # "missing"
               /\ \E k \in DOMAIN lines :
                     lines[k].indent = 0 /\ Entry(lines, k, "city_code", City)
               /\ \E i, j \in DOMAIN lines :
                     /\ lines[i].indent = 0 /\ Entry(lines, i, "providers", Null)
                     /\ Within(lines, i, j) /\ Entry(lines, j, "transactions", LianjiaName)
                     /\ \A k \in DOMAIN lines \ {j} :
                           Within(lines, i, k) /\ lines[k].shape = "entry" =>
                               lines[k].key # "transactions"
    <2>1. PICK profile : profile = Configuration!LoadCityProfile(lines, City)
      OBVIOUS
    <2>2. provider' = IF /\ profile # Null
                         /\ Configuration!BuildTransactionProvider(profile, isPath, IsFile(file))
                      THEN "recorded" ELSE "refused"
      BY <1>1, <2>1 DEF Start
    <2>3. /\ profile # Null
          /\ Configuration!BuildTransactionProvider(profile, isPath, IsFile(file))
      BY <1>1, <2>2
    <2>4. profile.transactions = LianjiaName /\ isPath /\ file.state # "missing"
      BY <2>3 DEF Configuration!BuildTransactionProvider, IsFile
    <2> QED
      BY <2>1, <2>3, <2>4, ProviderIsNamed
  <1>2. provider' # provider /\ provider' = "recorded" =>
        \A lines \in Profiles, isPath \in BOOLEAN : Start(lines, isPath) =>
              /\ lines # Null /\ isPath /\ file.state # "missing"
              /\ \E k \in DOMAIN lines :
                    lines[k].indent = 0 /\ Entry(lines, k, "city_code", City)
              /\ \E i, j \in DOMAIN lines :
                    /\ lines[i].indent = 0 /\ Entry(lines, i, "providers", Null)
                    /\ Within(lines, i, j) /\ Entry(lines, j, "transactions", LianjiaName)
                    /\ \A k \in DOMAIN lines \ {j} :
                          Within(lines, i, k) /\ lines[k].shape = "entry" =>
                              lines[k].key # "transactions"
    BY <1>1
  <1> QED
    BY <1>2, PTL DEF BuiltAsConfigured
=============================================================================
