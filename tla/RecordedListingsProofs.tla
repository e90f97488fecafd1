----------------------- MODULE RecordedListingsProofs -----------------------
(***************************************************************************)
(* The recorded listing pipeline implements ListingIngestion, whatever the *)
(* snapshot files hold, so that what ListingIngestionProofs proves of the  *)
(* tables holds of them here; and three facts that only the pipeline has:  *)
(* its ids never clash, no broken file passes for an empty market, and     *)
(* what the tables hold is what rows of the files say.                     *)
(*                                                                         *)
(* The invariant types every observation the parser emits, its id as that  *)
(* of its native identity, and relates a call's frame to the file it read. *)
(***************************************************************************)
EXTENDS RecordedListings, WellFoundedInduction, TLAPS

\* A row whose texts state instants of the model, as FilesStateInstants assumes.
Rows == {row \in Seq(Entry) :
            \A i \in DOMAIN row :
                row[i].cell \in Text => row[i].cell.instant \in Instants \union {Null}}
        \union {Null}

Documents == [community : Communities, at : Instants, rows : Seq(Rows)]

\* What the parser emits.
Recorded ==
    {o \in [listing : ListingIds, native : Names, community : Communities,
            first : Instants, last : Instants, at : Instants,
            price : CnyAmounts, status : Statuses] :
        /\ o.first = o.at /\ o.last = o.at
        /\ o.listing = BuildListingId(o.native)}

Parses == [records : Seq(Recorded), rejections : Seq(ParseRejection)]

Frames == [pc : {"idle"} \union Service!Live \union Service!Ended,
           community : Communities \union {Null},
           batch : Seq(Recorded), persisted : Nat]

StoredRow == [community : Communities, native : Names,
              first : Instants, last : Instants, status : Statuses]

TypeInv ==
    /\ file \in Files
    /\ document \in [Calls -> Documents \union {Null}]
    /\ parsed \in [Calls -> Parses]
    /\ origin \in [Calls -> Files \union {Null}]
    /\ ingest \in [Calls -> Frames]
    /\ listing \in [ListingIds -> StoredRow \union {Null}]

\* A stored row stands under the id of its native identity.
Keyed == \A l \in ListingIds : listing[l] # Null => BuildListingId(listing[l].native) = l

\* A call past its reading holds the rows of the file it read, all of them
\* parsed once it has an answer, and counts what it has stored of them.
ReadOf(c) ==
    LET f == ingest[c] IN
    /\ f.pc = "idle" => document[c] = Null
    /\ document[c] = Null => f.pc \notin {"identity", "snapshot", "done"}
    /\ document[c] # Null =>
          /\ origin[c] # Null /\ origin[c].state = "object"
          /\ origin[c].community = f.community
          /\ origin[c].rows = document[c].rows /\ document[c].community = f.community
    /\ f.pc \in {"identity", "snapshot", "done"} =>
          Taken(parsed[c]) = Len(document[c].rows)
    /\ f.pc \in {"identity", "snapshot"} =>
          f.batch = parsed[c].records /\ f.persisted < Len(f.batch)
    /\ f.pc \in {"idle", "fetching"} => f.persisted = 0
    /\ f.pc = "done" => f.persisted = Len(parsed[c].records)

IInv == TypeInv /\ Keyed /\ \A c \in Calls : ReadOf(c)

-----------------------------------------------------------------------------
(* The row parser *)

LEMMA LeastNatural ==
    ASSUME NEW S \in SUBSET Nat, S # {}
    PROVE  \E m \in S : \A n \in S : m <= n
  <1> DEFINE less == {p \in Nat \X Nat : p[1] < p[2]}
  <1>1. IsWellFoundedOn(less, Nat)
    BY NatLessThanWellFounded, Zenon DEF OpToRel
  <1> HIDE DEF less
  <1>2. PICK m \in S : \A n \in S : ~ (<<n, m>> \in less)
    BY <1>1, WFMin, Zenon
  <1>3. \A n \in S : ~ (n < m)
    BY <1>2 DEF less
  <1> QED
    BY <1>3

\* A malformed field is one of those the parser converts.
LEMMA MalformedNamed ==
    ASSUME NEW row, MalformedAt(row, ListingFields) # {}
    PROVE  LET bad == MalformedAt(row, ListingFields)
           IN  ListingFields[CHOOSE i \in bad : \A j \in bad : i <= j] \in Fields
  <1> DEFINE bad == MalformedAt(row, ListingFields)
             first == CHOOSE i \in bad : \A j \in bad : i <= j
  <1>1. bad \in SUBSET (1 .. 11)
    BY DEF MalformedAt, ListingFields
  <1>2. first \in bad
    <2> HIDE DEF bad
    <2>1. bad \in SUBSET Nat /\ bad # {}
      BY <1>1 DEF bad
    <2> QED
      BY <2>1, LeastNatural
  <1> HIDE DEF bad, first
  <1>3. first \in 1 .. 11
    BY <1>1, <1>2
  <1>4. \A i \in 1 .. 11 : ListingFields[i] \in Fields
    BY DEF ListingFields, Fields
  <1>5. ListingFields[first] \in Fields
    BY <1>3, <1>4
  <1> QED
    BY <1>5 DEF first, bad

\* A row is refused with a rejection that numbers it, or it has an identity, a
\* positive price and nothing malformed.
LEMMA RefusalKinds ==
    ASSUME NEW row, NEW at \in Nat
    PROVE  \/ /\ ListingRefusal(row, at) \in ParseRejection
              /\ ListingRefusal(row, at) # Null
           \/ /\ ListingRefusal(row, at) = Null
              /\ row # Null /\ MalformedAt(row, ListingFields) = {}
              /\ Value(row, "id") \notin {Null, Malformed}
              /\ Value(row, "list_price") # Null /\ Value(row, "list_price") > 0
  <1> DEFINE bad     == MalformedAt(row, ListingFields)
             first   == ListingFields[CHOOSE i \in bad : \A j \in bad : i <= j]
             refusal == Refusal(row, ListingFields, at)
  <1>1. ASSUME NEW reason \in ParseRejectionReason, NEW field \in Fields \union {Null}
        PROVE  /\ Reject(at, reason, field) \in ParseRejection
               /\ Reject(at, reason, field) # Null
    BY NullIsNoRejection DEF Reject, ParseRejection
  <1>2. bad # {} => first \in Fields
    BY MalformedNamed
  <1>3. refusal = IF row = Null THEN Reject(at, "malformed_row", Null)
                  ELSE IF Value(row, "id") = Malformed
                       THEN Reject(at, "malformed_field", "id")
                  ELSE IF Value(row, "id") = Null
                       THEN Reject(at, "missing_source_identity", "id")
                  ELSE IF bad # {} THEN Reject(at, "malformed_field", first)
                  ELSE Null
    BY DEF Refusal
  <1>4. /\ "malformed_row" \in ParseRejectionReason
        /\ "malformed_field" \in ParseRejectionReason
        /\ "missing_source_identity" \in ParseRejectionReason
        /\ "schema_invalid" \in ParseRejectionReason
        /\ "id" \in Fields /\ "list_price" \in Fields
    BY DEF ParseRejectionReason, Fields
  <1>5. ListingRefusal(row, at) =
            IF refusal # Null THEN refusal
            ELSE IF Value(row, "list_price") = Null
                 THEN Reject(at, "schema_invalid", "list_price")
            ELSE IF ~ FitsListingSchema(row) THEN Reject(at, "schema_invalid", Null)
            ELSE Null
    BY DEF ListingRefusal
  <1> HIDE DEF bad, first, refusal
  <1>6. \/ refusal \in ParseRejection /\ refusal # Null
        \/ /\ refusal = Null /\ row # Null /\ bad = {}
           /\ Value(row, "id") \notin {Null, Malformed}
    BY <1>1, <1>2, <1>3, <1>4
  <1>7. FitsListingSchema(row) => Value(row, "list_price") > 0
    BY DEF FitsListingSchema
  <1> QED
    BY <1>1, <1>4, <1>5, <1>6, <1>7 DEF bad

\* The text of a field is that of one of its entries.
LEMMA TextTyped ==
    ASSUME NEW row \in Rows, row # Null, NEW field
    PROVE  \/ TextOf(row, field) \in {Null, Malformed}
           \/ /\ TextOf(row, field) \in Text
              /\ TextOf(row, field).instant \in Instants \union {Null}
  <1>1. CASE \E i \in DOMAIN row : Decides(row, field, i)
    <2>1. PICK i \in DOMAIN row : RawValue(row, field) = row[i].cell
      BY <1>1 DEF RawValue
    <2>2. row[i] \in Entry
      BY DEF Rows
    <2>3. row[i].cell \in Cell
      BY <2>2 DEF Entry
    <2>4. row[i].cell \in Text => row[i].cell.instant \in Instants \union {Null}
      BY DEF Rows
    <2> QED
      BY <2>1, <2>3, <2>4 DEF TextOf, Normalized, Cell
  <1>2. CASE ~ \E i \in DOMAIN row : Decides(row, field, i)
    BY <1>2 DEF RawValue, TextOf, Normalized
  <1> QED
    BY <1>1, <1>2

LEMMA ValueTyped ==
    ASSUME NEW row \in Rows, row # Null
    PROVE  /\ Value(row, "id") \in Names \union {Null, Malformed}
           /\ Value(row, "list_price") \in Int \union {Null, Malformed}
           /\ Value(row, "snapshot_at") \in Instants \union {Null, Malformed}
           /\ Value(row, "status") \in Statuses \union {Null, Malformed}
  <1>1. ASSUME NEW f
        PROVE  \/ Value(row, f) \in {Null, Malformed}
               \/ /\ TextOf(row, f) \in Text
                  /\ TextOf(row, f).instant \in Instants \union {Null}
                  /\ Value(row, f) = Converted(TextOf(row, f), f)
    BY TextTyped DEF Value
  <1>2. ASSUME NEW t \in Text, t.instant \in Instants \union {Null}
        PROVE  /\ Converted(t, "id") \in Names
               /\ Converted(t, "list_price") \in Int \union {Malformed}
               /\ Converted(t, "snapshot_at") \in Instants \union {Malformed}
               /\ Converted(t, "status") \in Statuses
    <2>1. Converted(t, "id") = t.name /\ t.name \in Names
      BY DEF Converted, Amounts, Text
    <2>2. Converted(t, "list_price") = WanToCny(t)
      BY DEF Converted, Amounts
    <2>3. t.numbers \in Seq(Int)
      BY DEF Text
    <2>4. Number(t, WanUnits) \in Int \union {Malformed}
      BY <2>3 DEF Number
    <2>5. WanToCny(t) \in Int \union {Malformed}
      BY <2>4 DEF WanToCny, CnyPerWan
    <2>6. Converted(t, "snapshot_at") = Dated(t.instant)
      BY DEF Converted, Amounts
    <2>7. Converted(t, "status") = OnlyOne(t.statuses)
      BY DEF Converted, Amounts
    <2>8. OnlyOne(t.statuses) \in Statuses
      BY UnknownIsKnown DEF OnlyOne, Text
    <2> QED
      BY <1>2, <2>1, <2>2, <2>5, <2>6, <2>7, <2>8 DEF Dated
  <1> QED
    BY <1>1, <1>2

\* A row that is not refused becomes an observation under the id of its identity.
LEMMA ObservationTyped ==
    ASSUME NEW row \in Rows, NEW d \in Documents, NEW at \in Nat,
           ListingRefusal(row, at) = Null
    PROVE  ObservationOfRow(row, d) \in Recorded
  <1>1. /\ row # Null /\ MalformedAt(row, ListingFields) = {}
        /\ Value(row, "id") \notin {Null, Malformed}
        /\ Value(row, "list_price") # Null /\ Value(row, "list_price") > 0
    BY RefusalKinds
  <1>2. \A i \in 1 .. 11 : ListingFields[i] # "title" => Value(row, ListingFields[i]) # Malformed
    BY <1>1 DEF MalformedAt, Reads, ListingFields
  <1>3. /\ ListingFields[1] = "snapshot_at" /\ ListingFields[2] = "list_price"
        /\ ListingFields[11] = "status"
    BY DEF ListingFields
  <1>4. /\ Value(row, "snapshot_at") # Malformed /\ Value(row, "list_price") # Malformed
        /\ Value(row, "status") # Malformed
    BY <1>2, <1>3
  <1>5. /\ Value(row, "id") \in Names /\ Value(row, "list_price") \in CnyAmounts
        /\ Value(row, "snapshot_at") \in Instants \union {Null}
        /\ Value(row, "status") \in Statuses \union {Null}
    BY <1>1, <1>4, ValueTyped DEF CnyAmounts
  <1>6. d.community \in Communities /\ d.at \in Instants
    BY DEF Documents
  <1>7. ObservedAt(row, d.at) \in Instants /\ StatusOf(row) \in Statuses
    BY <1>5, <1>6, UnknownIsKnown DEF ObservedAt, StatusOf
  <1>8. BuildListingId(Value(row, "id")) \in ListingIds
    BY <1>5, IdsAreDerived DEF BuildListingId
  <1> HIDE DEF BuildListingId
  <1> QED
    BY <1>5, <1>6, <1>7, <1>8 DEF ObservationOfRow, Recorded

LEMMA StepTyped ==
    ASSUME NEW p \in Parses, NEW row \in Rows, NEW d \in Documents
    PROVE  ParseListingRow(p, row, d) \in Parses
  <1>1. Taken(p) + 1 \in Nat
    BY DEF Taken, Parses
  <1>2. CASE ListingRefusal(row, Taken(p) + 1) = Null
    <2>1. ObservationOfRow(row, d) \in Recorded
      BY <1>1, <1>2, ObservationTyped
    <2>2. ParseListingRow(p, row, d) = WithRecord(p, ObservationOfRow(row, d))
      BY <1>2 DEF ParseListingRow
    <2>3. ASSUME NEW o \in Recorded
          PROVE  WithRecord(p, o) \in Parses
      <3>1. Append(p.records, o) \in Seq(Recorded)
        BY DEF Parses
      <3> QED
        BY <3>1 DEF WithRecord, Parses
    <2> QED
      BY <2>1, <2>2, <2>3
  <1>3. CASE ListingRefusal(row, Taken(p) + 1) # Null
    <2>1. ListingRefusal(row, Taken(p) + 1) \in ParseRejection
      BY <1>1, <1>3, RefusalKinds
    <2>2. ParseListingRow(p, row, d) =
             WithRejection(p, ListingRefusal(row, Taken(p) + 1))
      BY <1>3 DEF ParseListingRow
    <2>3. \A x \in ParseRejection : WithRejection(p, x) \in Parses
      BY DEF WithRejection, Parses
    <2> QED
      BY <2>1, <2>2, <2>3
  <1> QED
    BY <1>2, <1>3

\* A file that answers for a community is a document of that community.
LEMMA DocumentTyped ==
    ASSUME NEW f \in Files, NEW community, Answers(LoadListingSnapshot(f), community)
    PROVE  LET d == LoadListingSnapshot(f)
           IN  /\ d \in Documents
               /\ f.state = "object" /\ d.community = f.community
               /\ d.rows = f.rows /\ d.community = community
  <1>1. /\ f \in File /\ f.state = "object"
        /\ f.community \in Communities /\ f.at \in Instants /\ f.rows # Null
        /\ LoadListingSnapshot(f) = [community |-> f.community, at |-> f.at, rows |-> f.rows]
        /\ LoadListingSnapshot(f).community = community
    BY FilesAreFiles, FilesStateInstants DEF LoadListingSnapshot, Answers, IsDocument
  <1>2. f.rows \in Seq(Seq(Entry) \union {Null})
    BY <1>1 DEF File
  <1>3. \A k \in DOMAIN f.rows : f.rows[k] \in Rows
    <2> TAKE k \in DOMAIN f.rows
    <2>1. f.rows[k] \in Seq(Entry) \union {Null}
      BY <1>2
    <2>2. f.rows[k] # Null =>
             \A i \in DOMAIN f.rows[k] :
                f.rows[k][i].cell \in Text => f.rows[k][i].cell.instant \in Instants \union {Null}
      BY <1>1, FilesStateInstants
    <2> QED
      BY <2>1, <2>2 DEF Rows
  <1>4. f.rows \in Seq(Rows)
    BY <1>2, <1>3
  <1> QED
    BY <1>1, <1>4 DEF Documents

-----------------------------------------------------------------------------
(* The invariant *)

LEMMA TakenCounts ==
    ASSUME NEW p \in Parses
    PROVE  /\ Len(p.records) \in Nat /\ Len(p.rejections) \in Nat
           /\ Taken(p) = Len(p.records) + Len(p.rejections)
  BY DEF Parses, Taken

LEMMA InitHolds == Init => IInv
  <1> SUFFICES ASSUME Init
               PROVE  IInv
    OBVIOUS
  <1>1. NothingParsed \in Parses /\ NothingParsed.records = <<>>
    BY DEF NothingParsed, Parses
  <1>2. /\ ingest = [c \in Calls |-> [pc |-> "idle", community |-> Null,
                                      batch |-> <<>>, persisted |-> 0]]
        /\ listing = [l \in ListingIds |-> Null]
    BY DEF Init, Service!Init, Service!EmptyListings
  <1>3. ingest \in [Calls -> Frames]
    BY <1>2 DEF Frames
  <1>4. TypeInv
    BY <1>1, <1>2, <1>3 DEF Init, TypeInv
  <1> QED
    BY <1>2, <1>4 DEF Init, IInv, Keyed, ReadOf

\* Only what a call and its frame hold matters to it.
LEMMA OthersKept ==
    ASSUME NEW c \in Calls, ReadOf(c),
           ingest'[c] = ingest[c], document'[c] = document[c],
           parsed'[c] = parsed[c], origin'[c] = origin[c]
    PROVE  ReadOf(c)'
  BY DEF ReadOf

LEMMA CallHolds ==
    ASSUME IInv, NEW c \in Calls, NEW community \in Communities, Call(c, community)
    PROVE  IInv'
  <1>1. /\ ingest[c].pc = "idle"
        /\ ingest' = [ingest EXCEPT ![c].pc = "fetching", ![c].community = community]
        /\ UNCHANGED <<listing, file, document, parsed, origin>>
    BY DEF Call, Service!Call, fetched
  <1>2. /\ ingest \in [Calls -> Frames] /\ ingest[c] \in Frames
        /\ ReadOf(c)
    BY DEF IInv, TypeInv
  <1>3. ingest' \in [Calls -> Frames]
    BY <1>1, <1>2 DEF Frames, Service!Live
  <1>4. /\ ingest'[c].pc = "fetching" /\ ingest'[c].persisted = ingest[c].persisted
        /\ \A x \in Calls \ {c} : ingest'[x] = ingest[x]
    BY <1>1, <1>2 DEF Frames
  <1>5. ReadOf(c)'
    BY <1>1, <1>2, <1>4 DEF ReadOf
  <1>6. \A x \in Calls \ {c} : ReadOf(x)'
    BY <1>1, <1>4, OthersKept DEF IInv
  <1> QED
    BY <1>1, <1>3, <1>5, <1>6 DEF IInv, TypeInv, Keyed

LEMMA ReadFailsHolds ==
    ASSUME IInv, NEW c \in Calls, ReadFails(c)
    PROVE  IInv'
  <1>1. /\ ingest[c].pc = "fetching" /\ document[c] = Null
        /\ ingest' = [ingest EXCEPT ![c].pc = "fetch_error"]
        /\ UNCHANGED <<listing, file, document, parsed, origin>>
    BY DEF ReadFails, Fetching, Service!FetchFails, Service!End, fetched
  <1>2. /\ ingest \in [Calls -> Frames] /\ ingest[c] \in Frames
        /\ ReadOf(c)
    BY DEF IInv, TypeInv
  <1>3. ingest' \in [Calls -> Frames]
    BY <1>1, <1>2 DEF Frames, Service!Ended
  <1>4. /\ ingest'[c].pc = "fetch_error"
        /\ \A x \in Calls \ {c} : ingest'[x] = ingest[x]
    BY <1>1, <1>2 DEF Frames
  <1>5. ReadOf(c)'
    BY <1>1, <1>2, <1>4 DEF ReadOf
  <1>6. \A x \in Calls \ {c} : ReadOf(x)'
    BY <1>1, <1>4, OthersKept DEF IInv
  <1> QED
    BY <1>1, <1>3, <1>5, <1>6 DEF IInv, TypeInv, Keyed

LEMMA ReadHolds ==
    ASSUME IInv, NEW c \in Calls, Read(c)
    PROVE  IInv'
  <1> DEFINE d == LoadListingSnapshot(file)
  <1>1. /\ ingest[c].pc = "fetching" /\ document[c] = Null
        /\ Answers(d, ingest[c].community)
        /\ document' = [document EXCEPT ![c] = d]
        /\ origin' = [origin EXCEPT ![c] = file]
        /\ UNCHANGED <<listing, ingest, file, parsed>>
    BY DEF Read, Fetching, service
  <1>2. /\ document \in [Calls -> Documents \union {Null}] /\ file \in Files
        /\ origin \in [Calls -> Files \union {Null}] /\ ReadOf(c)
    BY DEF IInv, TypeInv
  <1>3. /\ d \in Documents /\ file.state = "object" /\ d.community = file.community
        /\ d.rows = file.rows /\ d.community = ingest[c].community
    BY <1>1, <1>2, DocumentTyped
  <1>4. file # Null
    BY <1>2, FilesAreFiles, NullIsNoFile
  <1> HIDE DEF d
  <1>5. /\ document' \in [Calls -> Documents \union {Null}]
        /\ origin' \in [Calls -> Files \union {Null}]
        /\ document'[c] = d /\ origin'[c] = file
        /\ \A x \in Calls \ {c} : document'[x] = document[x] /\ origin'[x] = origin[x]
    BY <1>1, <1>2, <1>3
  <1>6. ReadOf(c)'
    BY <1>1, <1>2, <1>3, <1>4, <1>5 DEF ReadOf
  <1>7. \A x \in Calls \ {c} : ReadOf(x)'
    BY <1>1, <1>5, OthersKept DEF IInv
  <1> QED
    BY <1>1, <1>5, <1>6, <1>7 DEF IInv, TypeInv, Keyed

LEMMA ParseRowHolds ==
    ASSUME IInv, NEW c \in Calls, ParseRow(c)
    PROVE  IInv'
  <1>1. /\ ingest[c].pc = "fetching" /\ document[c] # Null
        /\ Taken(parsed[c]) < Len(document[c].rows)
        /\ parsed' = [parsed EXCEPT ![c] =
              ParseListingRow(@, document[c].rows[Taken(parsed[c]) + 1], document[c])]
        /\ UNCHANGED <<listing, ingest, file, document, origin>>
    BY DEF ParseRow, Holds, service
  <1>2. /\ parsed \in [Calls -> Parses] /\ parsed[c] \in Parses
        /\ document[c] \in Documents /\ ReadOf(c)
    BY <1>1 DEF IInv, TypeInv
  <1>3. document[c].rows[Taken(parsed[c]) + 1] \in Rows
    <2>1. Taken(parsed[c]) + 1 \in 1 .. Len(document[c].rows)
      <3>1. document[c].rows \in Seq(Rows)
        BY <1>2 DEF Documents
      <3>2. Len(document[c].rows) \in Nat
        BY <3>1
      <3>3. Taken(parsed[c]) \in Nat
        BY <1>2 DEF Taken, Parses
      <3> QED
        BY <1>1, <3>2, <3>3
    <2> QED
      BY <1>2, <2>1 DEF Documents
  <1>4. parsed' \in [Calls -> Parses]
    BY <1>1, <1>2, <1>3, StepTyped
  <1>5. \A x \in Calls \ {c} : parsed'[x] = parsed[x]
    BY <1>1, <1>2
  <1>6. ReadOf(c)'
    BY <1>1, <1>2 DEF ReadOf
  <1>7. \A x \in Calls \ {c} : ReadOf(x)'
    BY <1>1, <1>5, OthersKept DEF IInv
  <1> QED
    BY <1>1, <1>4, <1>6, <1>7 DEF IInv, TypeInv, Keyed

LEMMA AnswerHolds ==
    ASSUME IInv, NEW c \in Calls, Answer(c)
    PROVE  IInv'
  <1>1. /\ ingest[c].pc = "fetching" /\ document[c] # Null
        /\ Taken(parsed[c]) = Len(document[c].rows)
        /\ \/ /\ parsed[c].records = <<>>
              /\ ingest' = [ingest EXCEPT ![c].pc = "done"]
           \/ /\ parsed[c].records # <<>>
              /\ ingest' = [ingest EXCEPT ![c].pc = "identity",
                                          ![c].batch = parsed[c].records]
        /\ UNCHANGED <<listing, file, document, parsed, origin>>
    BY DEF Answer, Holds, Service!FetchAnswersEmpty, Service!FetchAnswers, Service!End, fetched
  <1>2. /\ ingest \in [Calls -> Frames] /\ ingest[c] \in Frames
        /\ parsed[c] \in Parses /\ ReadOf(c)
    BY DEF IInv, TypeInv
  <1>3. parsed[c].records \in Seq(Recorded)
    BY <1>2 DEF Parses
  <1>4. \A x \in Calls \ {c} : ingest'[x] = ingest[x]
    BY <1>1, <1>2
  <1>5. CASE parsed[c].records = <<>> /\ ingest' = [ingest EXCEPT ![c].pc = "done"]
    <2>1. ingest' \in [Calls -> Frames]
      BY <1>2, <1>5 DEF Frames, Service!Ended
    <2>2. /\ ingest'[c].pc = "done" /\ ingest'[c].persisted = ingest[c].persisted
          /\ ingest'[c].community = ingest[c].community
      BY <1>2, <1>5 DEF Frames
    <2>3. ReadOf(c)'
      BY <1>1, <1>2, <1>5, <2>2 DEF ReadOf
    <2> QED
      BY <1>1, <1>4, <2>1, <2>3, OthersKept DEF IInv, TypeInv, Keyed
  <1>6. CASE /\ parsed[c].records # <<>>
             /\ ingest' = [ingest EXCEPT ![c].pc = "identity",
                                         ![c].batch = parsed[c].records]
    <2>1. ingest' \in [Calls -> Frames]
      BY <1>2, <1>3, <1>6 DEF Frames, Service!Live
    <2>2. /\ ingest'[c].pc = "identity" /\ ingest'[c].persisted = ingest[c].persisted
          /\ ingest'[c].batch = parsed[c].records
          /\ ingest'[c].community = ingest[c].community
      BY <1>2, <1>6 DEF Frames
    <2>3. Len(parsed[c].records) > 0
      BY <1>3, <1>6
    <2>4. ReadOf(c)'
      BY <1>1, <1>2, <2>2, <2>3 DEF ReadOf
    <2> QED
      BY <1>1, <1>4, <2>1, <2>4, OthersKept DEF IInv, TypeInv, Keyed
  <1> QED
    BY <1>1, <1>5, <1>6

\* An observation that is stored stands under its own id.
LEMMA MergedTyped ==
    ASSUME NEW row \in StoredRow \union {Null}, NEW o \in Recorded
    PROVE  /\ Service!MergedRow(row, o) \in StoredRow
           /\ Service!MergedRow(row, o).native = o.native
  <1>1. /\ o.native \in Names /\ o.community \in Communities /\ o.status \in Statuses
        /\ o.first \in Instants /\ o.last \in Instants
    BY DEF Recorded
  <1>2. Service!RowOf(o) \in StoredRow /\ Service!RowOf(o).native = o.native
    BY <1>1 DEF Service!RowOf, StoredRow
  <1>3. ASSUME row # Null
        PROVE  /\ Service!least(row.first, o.first) \in Instants
               /\ Service!greatest(row.last, o.last) \in Instants
    BY <1>1, <1>3 DEF Service!least, Service!greatest, StoredRow
  <1>4. ASSUME NEW r \in StoredRow, NEW a \in Instants, NEW b \in Instants
        PROVE  /\ [r EXCEPT !.first = a, !.last = b] \in StoredRow
               /\ [r EXCEPT !.first = a, !.last = b].native = r.native
    BY DEF StoredRow
  <1> QED
    BY <1>2, <1>3, <1>4 DEF Service!MergedRow

LEMMA WriteIdentityHolds ==
    ASSUME IInv, NEW c \in Calls, Service!WriteIdentity(c),
           UNCHANGED <<file, document, parsed, origin>>
    PROVE  IInv'
  <1> DEFINE o == Service!Current(c)
  <1>1. /\ ingest[c].pc = "identity"
        /\ listing' = [listing EXCEPT ![o.listing] = Service!MergedRow(@, o)]
        /\ ingest' = [ingest EXCEPT ![c].pc = "snapshot"]
    BY DEF Service!WriteIdentity, Service!UpsertListing
  <1>2. /\ ingest \in [Calls -> Frames] /\ ingest[c] \in Frames /\ ReadOf(c)
        /\ listing \in [ListingIds -> StoredRow \union {Null}]
    BY DEF IInv, TypeInv
  <1>3. o \in Recorded
    <2>1. /\ ingest[c].batch \in Seq(Recorded)
          /\ ingest[c].persisted + 1 \in 1 .. Len(ingest[c].batch)
      BY <1>1, <1>2 DEF Frames, ReadOf
    <2> QED
      BY <2>1 DEF Service!Current
  <1>4. o.listing \in ListingIds /\ BuildListingId(o.native) = o.listing
    BY <1>3 DEF Recorded
  <1> HIDE DEF o
  <1>5. /\ listing' \in [ListingIds -> StoredRow \union {Null}]
        /\ \A l \in ListingIds \ {o.listing} : listing'[l] = listing[l]
        /\ listing'[o.listing].native = o.native
    BY <1>1, <1>2, <1>3, <1>4, MergedTyped
  <1>6. Keyed'
    BY <1>4, <1>5 DEF IInv, Keyed
  <1>7. ingest' \in [Calls -> Frames]
    BY <1>1, <1>2 DEF Frames, Service!Live
  <1>8. /\ ingest'[c].pc = "snapshot" /\ ingest'[c].persisted = ingest[c].persisted
        /\ ingest'[c].batch = ingest[c].batch
        /\ ingest'[c].community = ingest[c].community
        /\ \A x \in Calls \ {c} : ingest'[x] = ingest[x]
    BY <1>1, <1>2 DEF Frames
  <1>9. ReadOf(c)'
    BY <1>1, <1>2, <1>8 DEF ReadOf
  <1>10. \A x \in Calls \ {c} : ReadOf(x)'
    BY <1>8, OthersKept DEF IInv
  <1> QED
    BY <1>5, <1>6, <1>7, <1>9, <1>10 DEF IInv, TypeInv

LEMMA WriteSnapshotHolds ==
    ASSUME IInv, NEW c \in Calls, Service!WriteSnapshot(c),
           UNCHANGED <<file, document, parsed, origin>>
    PROVE  IInv'
  <1> DEFINE n == ingest[c].persisted + 1
             last == n = Len(ingest[c].batch)
  <1>1. /\ ingest[c].pc = "snapshot" /\ UNCHANGED listing
        /\ ingest' = [ingest EXCEPT ![c].pc = IF last THEN "done" ELSE "identity",
                                    ![c].persisted = n]
    BY DEF Service!WriteSnapshot, Service!Advance
  <1>2. /\ ingest \in [Calls -> Frames] /\ ingest[c] \in Frames /\ ReadOf(c)
    BY DEF IInv, TypeInv
  <1>3. /\ n \in Nat /\ n <= Len(ingest[c].batch) /\ Len(ingest[c].batch) \in Nat
        /\ ingest[c].batch = parsed[c].records
    BY <1>1, <1>2 DEF Frames, ReadOf
  <1> HIDE DEF n
  <1>4. ingest' \in [Calls -> Frames]
    BY <1>1, <1>2, <1>3 DEF Frames, Service!Live, Service!Ended
  <1>5. /\ ingest'[c].pc = IF last THEN "done" ELSE "identity"
        /\ ingest'[c].persisted = n
        /\ ingest'[c].batch = ingest[c].batch
        /\ ingest'[c].community = ingest[c].community
        /\ \A x \in Calls \ {c} : ingest'[x] = ingest[x]
    BY <1>1, <1>2 DEF Frames
  <1>6. ReadOf(c)'
    BY <1>1, <1>2, <1>3, <1>5 DEF ReadOf
  <1>7. \A x \in Calls \ {c} : ReadOf(x)'
    BY <1>5, OthersKept DEF IInv
  <1> QED
    BY <1>1, <1>4, <1>6, <1>7 DEF IInv, TypeInv, Keyed

LEMMA StatementRaisesHolds ==
    ASSUME IInv, NEW c \in Calls, Service!StatementRaises(c),
           UNCHANGED <<file, document, parsed, origin>>
    PROVE  IInv'
  <1>1. /\ ingest[c].pc \in {"identity", "snapshot"} /\ UNCHANGED listing
        /\ ingest' = [ingest EXCEPT ![c].pc = "storage_error"]
    BY DEF Service!StatementRaises, Service!End, Service!Writing
  <1>2. /\ ingest \in [Calls -> Frames] /\ ingest[c] \in Frames /\ ReadOf(c)
    BY DEF IInv, TypeInv
  <1>3. ingest' \in [Calls -> Frames]
    BY <1>1, <1>2 DEF Frames, Service!Ended
  <1>4. /\ ingest'[c].pc = "storage_error"
        /\ ingest'[c].community = ingest[c].community
        /\ \A x \in Calls \ {c} : ingest'[x] = ingest[x]
    BY <1>1, <1>2 DEF Frames
  <1>5. ReadOf(c)'
    BY <1>1, <1>2, <1>4 DEF ReadOf
  <1>6. \A x \in Calls \ {c} : ReadOf(x)'
    BY <1>4, OthersKept DEF IInv
  <1> QED
    BY <1>1, <1>3, <1>5, <1>6 DEF IInv, TypeInv, Keyed

LEMMA CrashHolds ==
    ASSUME IInv, Crash
    PROVE  IInv'
  <1>1. /\ ingest' = [c \in Calls |-> IF ingest[c].pc \in Service!Live
                                      THEN [ingest[c] EXCEPT !.pc = "lost"]
                                      ELSE ingest[c]]
        /\ UNCHANGED <<listing, file, document, parsed, origin>>
    BY DEF Crash, Service!Crash, fetched
  <1>2. ASSUME NEW c \in Calls
        PROVE  ingest'[c] \in Frames /\ ReadOf(c)'
    <2>1. ingest[c] \in Frames /\ ReadOf(c)
      BY DEF IInv, TypeInv
    <2>2. CASE ingest[c].pc \in Service!Live
      <3>1. ingest'[c] = [ingest[c] EXCEPT !.pc = "lost"]
        BY <1>1, <2>2
      <3>2. /\ ingest'[c] \in Frames /\ ingest'[c].pc = "lost"
            /\ ingest'[c].community = ingest[c].community
        BY <2>1, <3>1 DEF Frames, Service!Ended
      <3>3. ReadOf(c)'
        BY <1>1, <2>1, <3>2 DEF ReadOf
      <3> QED
        BY <3>2, <3>3
    <2>3. CASE ingest[c].pc \notin Service!Live
      BY <1>1, <2>1, <2>3, OthersKept
    <2> QED
      BY <2>2, <2>3
  <1>3. ingest' \in [Calls -> Frames]
    BY <1>1, <1>2
  <1> QED
    BY <1>1, <1>2, <1>3 DEF IInv, TypeInv, Keyed

LEMMA IInvHolds == Spec => []IInv
  <1>1. IInv /\ [Next]_vars => IInv'
    <2> SUFFICES ASSUME IInv, [Next]_vars
                 PROVE  IInv'
      OBVIOUS
    <2>1. ASSUME NEW f \in Files, Capture(f)
          PROVE  IInv'
      <3>1. /\ file' \in Files
            /\ UNCHANGED <<listing, ingest, document, parsed, origin>>
        BY <2>1 DEF Capture, service, fetched
      <3> QED
        BY <3>1, OthersKept DEF IInv, TypeInv, Keyed
    <2>2. ASSUME NEW c \in Calls, NEW community \in Communities, Call(c, community)
          PROVE  IInv'
      BY <2>2, CallHolds
    <2>3. ASSUME NEW c \in Calls, Proceed(c)
          PROVE  IInv'
      <3>1. CASE ReadFails(c)
        BY <3>1, ReadFailsHolds
      <3>2. CASE Read(c)
        BY <3>2, ReadHolds
      <3>3. CASE ParseRow(c)
        BY <3>3, ParseRowHolds
      <3>4. CASE Answer(c)
        BY <3>4, AnswerHolds
      <3>5. CASE Persist(c)
        BY <3>5, WriteIdentityHolds, WriteSnapshotHolds, StatementRaisesHolds
           DEF Persist, Service!Persist, fetched
      <3> QED
        BY <2>3, <3>1, <3>2, <3>3, <3>4, <3>5 DEF Proceed
    <2>4. CASE Crash
      BY <2>4, CrashHolds
    <2>5. CASE UNCHANGED vars
      <3>1. UNCHANGED <<listing, ingest, file, document, parsed, origin>>
        BY <2>5 DEF vars, service, fetched
      <3> QED
        BY <3>1, OthersKept DEF IInv, TypeInv, Keyed
    <2> QED
      BY <2>1, <2>2, <2>3, <2>4, <2>5 DEF Next
  <1> QED
    BY <1>1, InitHolds, PTL DEF Spec

-----------------------------------------------------------------------------
(* Theorems *)

\* The unhandled UNIQUE constraint never fires for what the parser emits: the id
\* of an observation is that of its native identity, and a row of the table
\* stands under the id of its own.
THEOREM RecordedNoClash == Spec => []RecordedNeverClashes
  <1>1. IInv => RecordedNeverClashes
    <2> SUFFICES ASSUME IInv, NEW c \in Calls, ingest[c].pc = "identity",
                        Service!NativeTaken(listing, Service!Current(c))
                 PROVE  FALSE
      BY DEF RecordedNeverClashes
    <2> DEFINE o == Service!Current(c)
    <2>1. o \in Recorded
      <3>1. /\ ingest[c].batch \in Seq(Recorded)
            /\ ingest[c].persisted + 1 \in 1 .. Len(ingest[c].batch)
        BY DEF IInv, TypeInv, Frames, ReadOf
      <3> QED
        BY <3>1 DEF Service!Current
    <2>2. o.listing = BuildListingId(o.native)
      BY <2>1 DEF Recorded
    <2>3. PICK l \in ListingIds \ {o.listing} : listing[l] # Null /\ listing[l].native = o.native
      BY DEF Service!NativeTaken
    <2> QED
      BY <2>2, <2>3 DEF IInv, Keyed
  <1> QED
    BY <1>1, IInvHolds, PTL

\* A call that ends well has read a whole document of its community, and each of
\* its rows was stored or is reported as a rejection.
THEOREM EmptyMarket == Spec => []EmptyMarketIsRecorded
  <1>1. IInv => EmptyMarketIsRecorded
    <2> SUFFICES ASSUME IInv, NEW c \in Calls, ingest[c].pc = "done"
                 PROVE  /\ origin[c] # Null
                        /\ origin[c].state = "object"
                        /\ origin[c].community = ingest[c].community
                        /\ origin[c].rows # Null
                        /\ Len(origin[c].rows) = ingest[c].persisted + Len(parsed[c].rejections)
      BY DEF EmptyMarketIsRecorded
    <2>1. /\ origin[c] # Null /\ origin[c].state = "object"
          /\ origin[c].community = ingest[c].community
          /\ origin[c].rows = document[c].rows /\ document[c] # Null
          /\ Taken(parsed[c]) = Len(origin[c].rows)
          /\ ingest[c].persisted = Len(parsed[c].records)
      BY DEF IInv, ReadOf
    <2>2. parsed[c] \in Parses /\ document[c] \in Documents
      BY <2>1 DEF IInv, TypeInv
    <2>3. origin[c].rows # Null
      <3>1. document[c].rows \in Seq(Seq(Entry) \union {Null})
        BY <2>2 DEF Documents, Rows
      <3> QED
        BY <2>1, <3>1, NullIsNoFile
    <2> QED
      BY <2>1, <2>2, <2>3, TakenCounts
  <1> QED
    BY <1>1, IInvHolds, PTL

\* Each step of the pipeline is a step of ListingIngestion or leaves it where it
\* is, so every property of the service over any provider holds over this one.
THEOREM PipelineImplementsService == Spec => Service!Spec
  <1>1. Init => Service!Init
    BY DEF Init
  <1>2. IInv /\ [Next]_vars => [Service!Next]_(Service!vars)
    <2> SUFFICES ASSUME IInv, [Next]_vars
                 PROVE  Service!Next \/ UNCHANGED Service!vars
      OBVIOUS
    <2>1. ASSUME NEW f \in Files, Capture(f)
          PROVE  UNCHANGED Service!vars
      BY <2>1 DEF Capture, service, Service!vars
    <2>2. ASSUME NEW c \in Calls, NEW community \in Communities, Call(c, community)
          PROVE  Service!Next
      BY <2>2 DEF Call, Service!Next
    <2>3. ASSUME NEW c \in Calls, Proceed(c)
          PROVE  Service!Next \/ UNCHANGED Service!vars
      <3>1. CASE ReadFails(c)
        BY <3>1 DEF ReadFails, Service!Next, Service!Answer
      <3>2. CASE Read(c) \/ ParseRow(c)
        BY <3>2 DEF Read, ParseRow, service, Service!vars
      <3>3. CASE Answer(c)
        <4>1. parsed[c].records \in Batches
          <5>1. parsed[c].records \in Seq(Recorded)
            BY DEF IInv, TypeInv, Parses
          <5> DEFINE b == parsed[c].records
                     R == [listing : ListingIds, native : Names, community : Communities,
                           first : Instants, last : Instants, at : Instants,
                           price : CnyAmounts, status : Statuses]
          <5>2. \A k \in 1 .. Len(b) :
                   /\ b[k] \in R /\ b[k].first = b[k].at /\ b[k].last = b[k].at
                   /\ b[k].listing = BuildListingId(b[k].native)
            <6> TAKE k \in 1 .. Len(b)
            <6>1. b[k] \in Recorded
              BY <5>1
            <6> QED
              BY <6>1 DEF Recorded
          <5> HIDE DEF b, R
          <5>3. b \in Seq(R)
            BY <5>1, <5>2 DEF b
          <5> QED
            BY <5>1, <5>2, <5>3 DEF Batches, b, R
        <4> QED
          BY <3>3, <4>1 DEF Answer, Service!Next, Service!Answer
      <3>4. CASE Persist(c)
        BY <3>4 DEF Persist, Service!Next
      <3> QED
        BY <2>3, <3>1, <3>2, <3>3, <3>4 DEF Proceed
    <2>4. CASE Crash
      BY <2>4 DEF Crash, Service!Next
    <2>5. CASE UNCHANGED vars
      BY <2>5 DEF vars, service, Service!vars
    <2> QED
      BY <2>1, <2>2, <2>3, <2>4, <2>5 DEF Next
  <1> QED
    BY <1>1, <1>2, IInvHolds, PTL DEF Spec, Service!Spec

-----------------------------------------------------------------------------
(* Provenance *)

\* The file that call c read says what the observation o says.
Restates(c, o) ==
    /\ origin[c].community = o.community
    /\ \E k \in DOMAIN origin[c].rows :
          Lists(origin[c], k, o.native) /\ States(origin[c], k, o.at, Service!PointOf(o))

SnapshotTable == [ListingIds -> [Instants -> [price : CnyAmounts, status : Statuses]
                                             \union {Null}]]

\* What a call parsed restates its file; each table only holds what was parsed.
ListingFrom(l) ==
    listing[l] # Null =>
        \E f \in Sources : /\ f.community = listing[l].community
                           /\ \E k \in DOMAIN f.rows : Lists(f, k, listing[l].native)

PointFrom(l, i) ==
    snapshot[l][i] # Null =>
        \E f \in Sources, n \in Names :
            /\ BuildListingId(n) = l
            /\ \E k \in DOMAIN f.rows : Lists(f, k, n) /\ States(f, k, i, snapshot[l][i])

ParsedFrom(c) ==
    /\ document[c] = Null => origin[c] = Null /\ parsed[c].records = <<>>
    /\ document[c] # Null => origin[c].at = document[c].at
    /\ \A k \in 1 .. Len(parsed[c].records) : Restates(c, parsed[c].records[k])

ProvenanceInv ==
    /\ snapshot \in SnapshotTable
    /\ \A c \in Calls : ParsedFrom(c)
    /\ \A l \in ListingIds : ListingFrom(l)
    /\ \A l \in ListingIds, i \in Instants : PointFrom(l, i)

\* A field that a row has is decided by one entry: the first of its aliases that
\* is present, and the last entry under it.
LEMMA SomeEntryDecides ==
    ASSUME NEW row \in Seq(Entry), NEW field,
           \E i \in DOMAIN row : row[i].field = field
    PROVE  \E i \in DOMAIN row : Decides(row, field, i)
  <1> DEFINE of(a) == {i \in DOMAIN row : row[i].field = field /\ row[i].alias = a}
             aliases == {row[i].alias : i \in {j \in DOMAIN row : row[j].field = field}}
  <1>1. \A i \in DOMAIN row : row[i].alias \in Nat /\ Len(row) - i \in Nat
    <2> TAKE i \in DOMAIN row
    <2>1. row[i] \in Entry
      OBVIOUS
    <2> QED
      BY <2>1 DEF Entry
  <1>2. aliases \in SUBSET Nat /\ aliases # {}
    BY <1>1
  <1>3. PICK a \in aliases : \A b \in aliases : a <= b
    <2> HIDE DEF aliases
    <2> QED
      BY <1>2, LeastNatural
  <1> DEFINE distances == {Len(row) - i : i \in of(a)}
  <1>4. distances \in SUBSET Nat /\ distances # {}
    BY <1>1
  <1>5. PICK d \in distances : \A e \in distances : d <= e
    <2> HIDE DEF distances
    <2> QED
      BY <1>4, LeastNatural
  <1>6. PICK i \in of(a) : d = Len(row) - i
    OBVIOUS
  <1>7. ASSUME NEW j \in DOMAIN row, row[j].field = field
        PROVE  \/ row[i].alias < row[j].alias
               \/ row[i].alias = row[j].alias /\ j <= i
    <2>1. row[i].alias = a /\ i \in DOMAIN row
      BY <1>6
    <2>2. a <= row[j].alias /\ a \in Nat /\ row[j].alias \in Nat
      BY <1>1, <1>2, <1>3, <1>7
    <2>3. CASE row[j].alias = a
      <3>1. Len(row) - i <= Len(row) - j
        BY <1>5, <1>6, <1>7, <2>3
      <3> QED
        BY <2>1, <2>3, <3>1
    <2> QED
      BY <2>1, <2>2, <2>3
  <1> QED
    BY <1>6, <1>7 DEF Decides

\* The entry that decides a field is the one that has the row's say on it.
LEMMA DeciderHasSay ==
    ASSUME NEW row \in Seq(Entry), NEW field, NEW i \in DOMAIN row,
           Decides(row, field, i)
    PROVE  HasSay(row, field, i)
  <1>1. \A j \in DOMAIN row : row[j].alias \in Nat
    <2> TAKE j \in DOMAIN row
    <2>1. row[j] \in Entry
      OBVIOUS
    <2> QED
      BY <2>1 DEF Entry
  <1>2. \A j \in DOMAIN row : row[j].field = field =>
           \/ row[i].alias < row[j].alias
           \/ row[i].alias = row[j].alias /\ j <= i
    BY DEF Decides
  <1>3. i \in 1 .. Len(row) /\ row[i].field = field
    BY DEF Decides
  <1>4. \A j \in i + 1 .. Len(row) : j \in DOMAIN row /\ ~ (j <= i)
    BY <1>3
  <1>5. \A j \in i + 1 .. Len(row) : row[j].field = field => row[j].alias # row[i].alias
    BY <1>1, <1>2, <1>4
  <1>6. \A j \in DOMAIN row : row[j].field = field => row[i].alias <= row[j].alias
    BY <1>1, <1>2
  <1> QED
    BY <1>3, <1>5, <1>6 DEF HasSay

\* The text of a field is that of the entry with the say, or the row has none.
LEMMA TextIsAnEntry ==
    ASSUME NEW row \in Seq(Entry), NEW field
    PROVE  \/ /\ ~ \E i \in DOMAIN row : row[i].field = field
              /\ TextOf(row, field) = Null
           \/ \E i \in DOMAIN row :
                /\ HasSay(row, field, i) /\ row[i].cell \in Cell
                /\ TextOf(row, field) = Normalized(row[i].cell)
  <1>1. CASE \E i \in DOMAIN row : row[i].field = field
    <2>1. PICK i \in DOMAIN row : /\ Decides(row, field, i)
                                  /\ RawValue(row, field) = row[i].cell
      BY <1>1, SomeEntryDecides DEF RawValue
    <2>2. row[i] \in Entry
      OBVIOUS
    <2>3. row[i].cell \in Cell
      BY <2>2 DEF Entry
    <2> QED
      BY <2>1, <2>3, DeciderHasSay DEF TextOf
  <1>2. CASE ~ \E i \in DOMAIN row : row[i].field = field
    BY <1>2, SentinelsDiffer
       DEF RawValue, Decides, TextOf, Normalized
  <1> QED
    BY <1>1, <1>2

\* The fields whose values an observation keeps.
Kept == {"id", "list_price", "snapshot_at", "status"}

\* One wording, if there is a single one, and otherwise Unknown.
LEMMA OnlyOneIsSaid ==
    ASSUME NEW found
    PROVE  OnlySaid(found, OnlyOne(found))
  BY DEF OnlySaid, OnlyOne

\* What a converter returns of a text is what the text says, in its own unit.
LEMMA ConvertedIsMeant ==
    ASSUME NEW t \in Text, NEW field \in Kept, Converted(t, field) # Malformed
    PROVE  Means(t, field, Converted(t, field)) /\ Converted(t, field) # Null
  <1>1. /\ t.numbers \in Seq(Int) /\ t.name \in Names
        /\ t.instant \in Int \union {Null} /\ t.statuses \subseteq Statuses
        /\ Len(t.numbers) = 1 => t.numbers[1] \in Int
    BY DEF Text
  <1>2. CASE field = "id"
    BY <1>1, <1>2, SentinelsAreNoValues DEF Converted, Means, Amounts
  <1>3. CASE field = "snapshot_at"
    BY <1>1, <1>3 DEF Converted, Means, Amounts, Dated
  <1>4. CASE field = "list_price"
    <2>1. Converted(t, field) = WanToCny(t)
      BY <1>4 DEF Converted, Amounts
    <2>2. /\ Len(t.numbers) = 1 /\ t.tokens \subseteq {"wan"}
          /\ WanToCny(t) = t.numbers[1] * 10000
      BY <2>1 DEF WanToCny, Number, WanUnits, CnyPerWan
    <2>3. AmountSaid(t) = t.numbers[1] * 10000
      BY <2>2 DEF AmountSaid, CnyPerWan
    <2>4. Means(t, field, AmountSaid(t))
      BY <1>4 DEF Means, Amounts
    <2> QED
      BY <1>1, <2>1, <2>2, <2>3, <2>4, SentinelsAreNoValues
  <1>5. CASE field = "status"
    <2>1. Converted(t, field) = OnlyOne(t.statuses)
      BY <1>5 DEF Converted, Amounts
    <2>2. OnlyOne(t.statuses) \in Statuses
      BY <1>1, UnknownIsKnown DEF OnlyOne
    <2>3. \A v : OnlySaid(t.statuses, v) => Means(t, field, v)
      BY <1>5 DEF Means, Amounts
    <2> QED
      BY <2>1, <2>2, <2>3, OnlyOneIsSaid, BucketsAndStatusesParse
  <1> QED
    BY <1>2, <1>3, <1>4, <1>5 DEF Kept

\* What the parser reads of a row is what the row says.
LEMMA ValueIsSaid ==
    ASSUME NEW row \in Seq(Entry), NEW field \in Kept,
           Value(row, field) # Malformed
    PROVE  Says(row, field, Value(row, field))
  <1>1. CASE ~ \E i \in DOMAIN row : row[i].field = field
    <2>1. TextOf(row, field) = Null
      BY <1>1, TextIsAnEntry DEF HasSay
    <2> QED
      BY <1>1, <2>1 DEF Value, Says
  <1>2. ASSUME NEW i \in DOMAIN row, HasSay(row, field, i),
               row[i].cell \in Cell,
               TextOf(row, field) = Normalized(row[i].cell)
        PROVE  Says(row, field, Value(row, field))
    <2>1. CASE row[i].cell \in {Null, Marker}
      <3>1. Value(row, field) = Null
        BY <1>2, <2>1, SentinelsDiffer DEF Value, Normalized
      <3>2. Unpublished(row[i].cell)
        BY <2>1 DEF Unpublished
      <3> QED
        BY <1>2, <3>1, <3>2 DEF Says
    <2>2. row[i].cell # Boolean
      BY <1>2 DEF Value, Normalized
    <2>3. CASE row[i].cell \in Text /\ row[i].cell \notin {Null, Marker}
      <3>1. TextOf(row, field) = row[i].cell
        BY <1>2, <2>2, <2>3 DEF Normalized
      <3>2. row[i].cell \notin {Null, Malformed}
        BY <2>3, SentinelsAreNoValues
      <3>3. Value(row, field) = Converted(row[i].cell, field)
        BY <3>1, <3>2 DEF Value
      <3>4. /\ Means(row[i].cell, field, Value(row, field))
            /\ Value(row, field) # Null
        BY <2>3, <3>3, ConvertedIsMeant
      <3>5. ~ Unpublished(row[i].cell)
        BY <2>3 DEF Unpublished
      <3> QED
        BY <1>2, <2>2, <3>4, <3>5 DEF Says
    <2> QED
      BY <1>2, <2>1, <2>2, <2>3 DEF Cell
  <1> QED
    BY <1>1, <1>2, TextIsAnEntry

\* An observation says what its row says: the instant and the status that the
\* row says, or those of a row that says none.
LEMMA ObservationSaid ==
    ASSUME NEW row \in Rows, NEW d \in Documents, NEW at \in Nat,
           ListingRefusal(row, at) = Null
    PROVE  LET o == ObservationOfRow(row, d)
           IN  /\ row # Null /\ o.community = d.community
               /\ Says(row, "id", o.native) /\ Says(row, "list_price", o.price)
               /\ \/ Says(row, "snapshot_at", o.at)
                  \/ Says(row, "snapshot_at", Null) /\ o.at = d.at
               /\ \/ Says(row, "status", o.status)
                  \/ Says(row, "status", Null) /\ o.status = Unknown
  <1>1. /\ row # Null /\ MalformedAt(row, ListingFields) = {}
        /\ Value(row, "id") \notin {Null, Malformed}
    BY RefusalKinds
  <1>2. \A i \in 1 .. 11 : ListingFields[i] # "title" => Value(row, ListingFields[i]) # Malformed
    BY <1>1 DEF MalformedAt, Reads, ListingFields
  <1>3. /\ ListingFields[1] = "snapshot_at" /\ ListingFields[2] = "list_price"
        /\ ListingFields[11] = "status"
    BY DEF ListingFields
  <1>4. \A field \in Kept : Value(row, field) # Malformed
    BY <1>1, <1>2, <1>3 DEF Kept
  <1>5. row \in Seq(Entry)
    BY <1>1 DEF Rows
  <1>6. /\ Says(row, "id", Value(row, "id"))
        /\ Says(row, "list_price", Value(row, "list_price"))
        /\ Says(row, "snapshot_at", Value(row, "snapshot_at"))
        /\ Says(row, "status", Value(row, "status"))
    BY <1>4, <1>5, ValueIsSaid DEF Kept
  <1> DEFINE o == ObservationOfRow(row, d)
  <1>7. /\ o.native = Value(row, "id") /\ o.price = Value(row, "list_price")
        /\ o.at = ObservedAt(row, d.at) /\ o.status = StatusOf(row)
        /\ o.community = d.community
    BY DEF ObservationOfRow
  <1> HIDE DEF o
  <1>8. \/ Says(row, "snapshot_at", o.at)
        \/ Says(row, "snapshot_at", Null) /\ o.at = d.at
    BY <1>6, <1>7 DEF ObservedAt
  <1>9. \/ Says(row, "status", o.status)
        \/ Says(row, "status", Null) /\ o.status = Unknown
    BY <1>6, <1>7 DEF StatusOf
  <1> QED
    BY <1>1, <1>6, <1>7, <1>8, <1>9 DEF o

\* The row k of a file with this document says what its observation says.
LEMMA RowRestated ==
    ASSUME NEW f, NEW d \in Documents, f.rows = d.rows, f.at = d.at,
           NEW k \in DOMAIN d.rows, NEW at \in Nat, ListingRefusal(d.rows[k], at) = Null
    PROVE  LET o == ObservationOfRow(d.rows[k], d)
           IN  Lists(f, k, o.native) /\ States(f, k, o.at, Service!PointOf(o))
  <1> DEFINE row == d.rows[k]
             o == ObservationOfRow(row, d)
  <1>1. row \in Rows
    BY DEF Documents
  <1>2. /\ row # Null
        /\ Says(row, "id", o.native) /\ Says(row, "list_price", o.price)
        /\ \/ Says(row, "snapshot_at", o.at)
           \/ Says(row, "snapshot_at", Null) /\ o.at = d.at
        /\ \/ Says(row, "status", o.status)
           \/ Says(row, "status", Null) /\ o.status = Unknown
    BY <1>1, ObservationSaid
  <1>3. /\ Service!PointOf(o).price = o.price /\ Service!PointOf(o).status = o.status
    BY DEF Service!PointOf
  <1> HIDE DEF o
  <1>4. f.rows[k] = row
    OBVIOUS
  <1> HIDE DEF row
  <1> QED
    BY <1>2, <1>3, <1>4 DEF Lists, States, o, row

\* What is not written keeps its file; a file once read stays read.
LEMMA ProvenanceKept ==
    ASSUME ProvenanceInv, UNCHANGED <<listing, snapshot, document, parsed, origin>>
    PROVE  ProvenanceInv'
  BY DEF ProvenanceInv, ParsedFrom, Restates, ListingFrom, PointFrom, Sources

LEMMA TablesKept ==
    ASSUME ProvenanceInv, UNCHANGED <<listing, snapshot>>, Sources \subseteq Sources'
    PROVE  /\ (snapshot \in SnapshotTable)'
           /\ \A l \in ListingIds : ListingFrom(l)'
           /\ \A l \in ListingIds, i \in Instants : PointFrom(l, i)'
  <1>1. ASSUME NEW l \in ListingIds PROVE ListingFrom(l)'
    BY DEF ProvenanceInv, ListingFrom
  <1>2. ASSUME NEW l \in ListingIds, NEW i \in Instants PROVE PointFrom(l, i)'
    BY DEF ProvenanceInv, PointFrom
  <1> QED
    BY <1>1, <1>2 DEF ProvenanceInv, SnapshotTable

LEMMA ReadKeepsProvenance ==
    ASSUME IInv, ProvenanceInv, NEW c \in Calls, Read(c)
    PROVE  ProvenanceInv'
  <1> DEFINE d == LoadListingSnapshot(file)
  <1>1. /\ document[c] = Null /\ Answers(d, ingest[c].community)
        /\ document' = [document EXCEPT ![c] = d]
        /\ origin' = [origin EXCEPT ![c] = file]
        /\ UNCHANGED <<listing, snapshot, parsed>>
    BY DEF Read, Fetching, service
  <1>2. /\ origin \in [Calls -> Files \union {Null}]
        /\ document \in [Calls -> Documents \union {Null}]
        /\ file \in Files /\ ParsedFrom(c)
    BY DEF IInv, TypeInv, ProvenanceInv
  <1>3. d # Null /\ d.at = file.at
    BY <1>1 DEF LoadListingSnapshot, Answers
  <1> HIDE DEF d
  <1>4. /\ document'[c] = d /\ origin'[c] = file /\ origin[c] = Null
        /\ \A x \in Calls \ {c} : document'[x] = document[x] /\ origin'[x] = origin[x]
    BY <1>1, <1>2 DEF ParsedFrom
  <1>5. Sources \subseteq Sources'
    BY <1>4 DEF Sources
  <1>6. ParsedFrom(c)'
    <2>1. parsed'[c].records = <<>>
      BY <1>1, <1>2 DEF ParsedFrom
    <2> QED
      BY <1>3, <1>4, <2>1 DEF ParsedFrom
  <1>7. ASSUME NEW x \in Calls \ {c} PROVE ParsedFrom(x)'
    BY <1>1, <1>4 DEF ProvenanceInv, ParsedFrom, Restates
  <1> QED
    BY <1>1, <1>5, <1>6, <1>7, TablesKept DEF ProvenanceInv

LEMMA ParseRowKeepsProvenance ==
    ASSUME IInv, ProvenanceInv, NEW c \in Calls, ParseRow(c)
    PROVE  ProvenanceInv'
  <1> DEFINE d   == document[c]
             k   == Taken(parsed[c]) + 1
             row == d.rows[k]
             o   == ObservationOfRow(row, d)
  <1>1. /\ d # Null /\ Taken(parsed[c]) < Len(d.rows)
        /\ parsed' = [parsed EXCEPT ![c] = ParseListingRow(@, row, d)]
        /\ UNCHANGED <<listing, snapshot, document, origin>>
    BY DEF ParseRow, Holds, service
  <1>2. /\ parsed \in [Calls -> Parses] /\ parsed[c] \in Parses /\ d \in Documents
        /\ ReadOf(c) /\ ParsedFrom(c)
    BY <1>1 DEF IInv, TypeInv, ProvenanceInv
  <1>3. /\ k \in Nat /\ k \in 1 .. Len(d.rows) /\ d.rows \in Seq(Rows)
    <2>1. d.rows \in Seq(Rows)
      BY <1>2 DEF Documents
    <2>2. Len(d.rows) \in Nat /\ Taken(parsed[c]) \in Nat
      BY <1>2, <2>1 DEF Taken, Parses
    <2> QED
      BY <1>1, <2>1, <2>2
  <1>4. /\ origin[c].community = d.community /\ origin[c].rows = d.rows
        /\ origin[c].at = d.at
    BY <1>1, <1>2 DEF ReadOf, ParsedFrom
  <1>5. parsed'[c] = ParseListingRow(parsed[c], row, d)
        /\ \A x \in Calls \ {c} : parsed'[x] = parsed[x]
    BY <1>1, <1>2
  <1>6. ASSUME ListingRefusal(row, k) = Null PROVE Restates(c, o)
    <2>1. Lists(origin[c], k, o.native) /\ States(origin[c], k, o.at, Service!PointOf(o))
      BY <1>2, <1>3, <1>4, <1>6, RowRestated
    <2>2. o.community = d.community
      BY DEF ObservationOfRow
    <2> HIDE DEF o, k
    <2> QED
      BY <1>3, <1>4, <2>1, <2>2 DEF Restates
  <1>7. \A r \in 1 .. Len(parsed'[c].records) : Restates(c, parsed'[c].records[r])
    <2>1. CASE ListingRefusal(row, k) = Null
      <3>1. parsed'[c].records = Append(parsed[c].records, o)
        BY <1>2, <1>5, <2>1 DEF ParseListingRow, WithRecord, Parses
      <3>2. Restates(c, o) /\ parsed[c].records \in Seq(Recorded)
        BY <1>2, <1>6, <2>1 DEF Parses
      <3>3. \A r \in 1 .. Len(parsed[c].records) : Restates(c, parsed[c].records[r])
        BY <1>2 DEF ParsedFrom
      <3> HIDE DEF o, row, k
      <3> QED
        BY <3>1, <3>2, <3>3
    <2>2. CASE ListingRefusal(row, k) # Null
      <3>1. parsed'[c].records = parsed[c].records
        BY <1>2, <1>5, <2>2 DEF ParseListingRow, WithRejection, Parses
      <3> QED
        BY <1>2, <3>1 DEF ParsedFrom
    <2> QED
      BY <2>1, <2>2
  <1>8. ParsedFrom(c)'
    BY <1>1, <1>2, <1>7 DEF ParsedFrom, Restates
  <1>9. ASSUME NEW x \in Calls \ {c} PROVE ParsedFrom(x)'
    BY <1>1, <1>5 DEF ProvenanceInv, ParsedFrom, Restates
  <1>10. Sources \subseteq Sources'
    BY <1>1 DEF Sources
  <1> QED
    BY <1>1, <1>8, <1>9, <1>10, TablesKept DEF ProvenanceInv

\* The observation a call is storing is one it parsed.
LEMMA CurrentRestates ==
    ASSUME IInv, ProvenanceInv, NEW c \in Calls, ingest[c].pc \in {"identity", "snapshot"}
    PROVE  /\ Service!Current(c) \in Recorded
           /\ origin[c] \in Sources
           /\ Restates(c, Service!Current(c))
  <1>1. /\ ingest[c] \in Frames /\ parsed[c] \in Parses /\ ReadOf(c) /\ ParsedFrom(c)
    BY DEF IInv, TypeInv, ProvenanceInv
  <1>2. /\ ingest[c].batch = parsed[c].records /\ ingest[c].batch \in Seq(Recorded)
        /\ ingest[c].persisted + 1 \in 1 .. Len(ingest[c].batch)
    BY <1>1 DEF Frames, ReadOf
  <1>3. Service!Current(c) = parsed[c].records[ingest[c].persisted + 1]
    BY <1>2 DEF Service!Current
  <1>4. origin[c] # Null
    BY <1>1 DEF ReadOf
  <1> QED
    BY <1>1, <1>2, <1>3, <1>4 DEF ParsedFrom, Sources

LEMMA WriteIdentityKeepsProvenance ==
    ASSUME IInv, ProvenanceInv, NEW c \in Calls, Service!WriteIdentity(c),
           UNCHANGED <<file, document, parsed, origin>>
    PROVE  ProvenanceInv'
  <1> DEFINE o == Service!Current(c)
  <1>1. /\ ingest[c].pc = "identity" /\ UNCHANGED snapshot
        /\ listing' = [listing EXCEPT ![o.listing] = Service!MergedRow(@, o)]
    BY DEF Service!WriteIdentity, Service!UpsertListing
  <1>2. o \in Recorded /\ origin[c] \in Sources /\ Restates(c, o)
    BY <1>1, CurrentRestates
  <1>3. listing \in [ListingIds -> StoredRow \union {Null}]
    BY DEF IInv, TypeInv
  <1> HIDE DEF o
  <1>4. o.listing \in ListingIds
    BY <1>2 DEF Recorded
  <1>5. /\ listing'[o.listing].native = o.native
        /\ listing'[o.listing].community = o.community
        /\ \A l \in ListingIds \ {o.listing} : listing'[l] = listing[l]
    <2>1. Service!MergedRow(listing[o.listing], o).native = o.native
      BY <1>2, <1>3, <1>4, MergedTyped
    <2>2. Service!MergedRow(listing[o.listing], o).community = o.community
      BY DEF Service!MergedRow, Service!RowOf
    <2> QED
      BY <1>1, <1>3, <1>4, <2>1, <2>2
  <1>6. Sources' = Sources
    BY DEF Sources
  <1>7. ASSUME NEW l \in ListingIds PROVE ListingFrom(l)'
    <2>1. CASE l = o.listing
      BY <1>2, <1>5, <1>6, <2>1 DEF ListingFrom, Restates
    <2>2. CASE l # o.listing
      BY <1>5, <1>6, <2>2 DEF ListingFrom, ProvenanceInv
    <2> QED
      BY <2>1, <2>2
  <1>8. ASSUME NEW l \in ListingIds, NEW i \in Instants PROVE PointFrom(l, i)'
    BY <1>1, <1>6 DEF PointFrom, ProvenanceInv
  <1>9. ASSUME NEW x \in Calls PROVE ParsedFrom(x)'
    BY DEF ProvenanceInv, ParsedFrom, Restates
  <1> QED
    BY <1>1, <1>7, <1>8, <1>9 DEF ProvenanceInv

LEMMA WriteSnapshotKeepsProvenance ==
    ASSUME IInv, ProvenanceInv, NEW c \in Calls, Service!WriteSnapshot(c),
           UNCHANGED <<file, document, parsed, origin>>
    PROVE  ProvenanceInv'
  <1> DEFINE o == Service!Current(c)
  <1>1. /\ ingest[c].pc = "snapshot" /\ UNCHANGED listing
        /\ snapshot' = [snapshot EXCEPT ![o.listing] =
                            [@ EXCEPT ![o.at] = Service!PointOf(o)]]
    BY DEF Service!WriteSnapshot, Service!AppendSnapshot
  <1>2. o \in Recorded /\ origin[c] \in Sources /\ Restates(c, o)
    BY <1>1, CurrentRestates
  <1>3. snapshot \in SnapshotTable
    BY DEF ProvenanceInv
  <1> HIDE DEF o
  <1>4. /\ o.listing \in ListingIds /\ o.at \in Instants /\ o.native \in Names
        /\ BuildListingId(o.native) = o.listing
        /\ Service!PointOf(o) \in [price : CnyAmounts, status : Statuses]
    BY <1>2 DEF Recorded, Service!PointOf
  <1>5. /\ snapshot' \in SnapshotTable
        /\ snapshot'[o.listing][o.at] = Service!PointOf(o)
        /\ \A l \in ListingIds, i \in Instants :
              l # o.listing \/ i # o.at => snapshot'[l][i] = snapshot[l][i]
    BY <1>1, <1>3, <1>4 DEF SnapshotTable
  <1>6. Sources' = Sources
    BY DEF Sources
  <1>7. ASSUME NEW l \in ListingIds PROVE ListingFrom(l)'
    BY <1>1, <1>6 DEF ListingFrom, ProvenanceInv
  <1>8. ASSUME NEW l \in ListingIds, NEW i \in Instants PROVE PointFrom(l, i)'
    <2>1. CASE l = o.listing /\ i = o.at
      <3>1. PICK k \in DOMAIN origin[c].rows :
               Lists(origin[c], k, o.native) /\ States(origin[c], k, o.at, Service!PointOf(o))
        BY <1>2 DEF Restates
      <3> QED
        BY <1>2, <1>4, <1>5, <1>6, <2>1, <3>1 DEF PointFrom
    <2>2. CASE ~ (l = o.listing /\ i = o.at)
      BY <1>5, <1>6, <2>2 DEF PointFrom, ProvenanceInv
    <2> QED
      BY <2>1, <2>2
  <1>9. ASSUME NEW x \in Calls PROVE ParsedFrom(x)'
    BY DEF ProvenanceInv, ParsedFrom, Restates
  <1> QED
    BY <1>5, <1>7, <1>8, <1>9 DEF ProvenanceInv, SnapshotTable

LEMMA NextKeepsProvenance == IInv /\ ProvenanceInv /\ [Next]_vars => ProvenanceInv'
  <1> SUFFICES ASSUME IInv, ProvenanceInv, [Next]_vars
               PROVE  ProvenanceInv'
    OBVIOUS
  <1>1. ASSUME NEW f \in Files, Capture(f)
        PROVE  ProvenanceInv'
    BY <1>1, ProvenanceKept DEF Capture, service, fetched
  <1>2. ASSUME NEW c \in Calls, NEW community \in Communities, Call(c, community)
        PROVE  ProvenanceInv'
    BY <1>2, ProvenanceKept DEF Call, Service!Call, fetched
  <1>3. ASSUME NEW c \in Calls, Proceed(c)
        PROVE  ProvenanceInv'
    <2>1. CASE ReadFails(c)
      BY <2>1, ProvenanceKept DEF ReadFails, Service!FetchFails, fetched
    <2>2. CASE Answer(c)
      BY <2>2, ProvenanceKept
         DEF Answer, Service!FetchAnswersEmpty, Service!FetchAnswers, fetched
    <2>3. CASE Persist(c)
      <3>1. CASE Service!StatementRaises(c)
        BY <2>3, <3>1, ProvenanceKept DEF Persist, Service!StatementRaises, fetched
      <3> QED
        BY <2>3, <3>1, WriteIdentityKeepsProvenance, WriteSnapshotKeepsProvenance
           DEF Persist, Service!Persist, fetched
    <2> QED
      BY <1>3, <2>1, <2>2, <2>3, ReadKeepsProvenance, ParseRowKeepsProvenance DEF Proceed
  <1>4. CASE Crash
    BY <1>4, ProvenanceKept DEF Crash, Service!Crash, fetched
  <1>5. CASE UNCHANGED vars
    BY <1>5, ProvenanceKept DEF vars, service, fetched
  <1> QED
    BY <1>1, <1>2, <1>3, <1>4, <1>5 DEF Next

\* From the file to the tables: a stored listing, and every stored point, is one
\* that a row of a file read for it states, in the unit the row names.
THEOREM StoredIsRecorded == Spec => []StoredWasRecorded
  <1>1. Init => ProvenanceInv
    <2> SUFFICES ASSUME Init PROVE ProvenanceInv
      OBVIOUS
    <2>1. /\ listing = [l \in ListingIds |-> Null]
          /\ snapshot = [l \in ListingIds |-> [i \in Instants |-> Null]]
      BY DEF Init, Service!Init, Service!EmptyListings, Service!EmptySnapshots
    <2>2. ASSUME NEW c \in Calls PROVE ParsedFrom(c)
      BY DEF Init, ParsedFrom, NothingParsed
    <2> QED
      BY <2>1, <2>2 DEF ProvenanceInv, SnapshotTable, ListingFrom, PointFrom
  <1>2. IInv /\ ProvenanceInv => StoredWasRecorded
    <2> SUFFICES ASSUME IInv, ProvenanceInv, NEW l \in ListingIds, listing[l] # Null
                 PROVE  /\ BuildListingId(listing[l].native) = l
                        /\ \E f \in Sources :
                              /\ f.community = listing[l].community
                              /\ \E k \in DOMAIN f.rows : Lists(f, k, listing[l].native)
                        /\ \A i \in Service!HistoryOf(snapshot, l) :
                              \E f \in Sources : \E k \in DOMAIN f.rows :
                                  /\ Lists(f, k, listing[l].native)
                                  /\ States(f, k, i, snapshot[l][i])
      BY DEF StoredWasRecorded
    <2>1. /\ BuildListingId(listing[l].native) = l
          /\ listing[l].native \in Names /\ ListingFrom(l)
      BY DEF IInv, TypeInv, Keyed, StoredRow, ProvenanceInv
    <2>2. ASSUME NEW i \in Service!HistoryOf(snapshot, l)
          PROVE  \E f \in Sources : \E k \in DOMAIN f.rows :
                    Lists(f, k, listing[l].native) /\ States(f, k, i, snapshot[l][i])
      <3>1. i \in Instants /\ snapshot[l][i] # Null /\ PointFrom(l, i)
        BY DEF Service!HistoryOf, ProvenanceInv
      <3>2. PICK f \in Sources, n \in Names :
               /\ BuildListingId(n) = l
               /\ \E k \in DOMAIN f.rows : Lists(f, k, n) /\ States(f, k, i, snapshot[l][i])
        BY <3>1 DEF PointFrom
      <3>3. n = listing[l].native
        BY <2>1, <3>2, IdsDiffer DEF BuildListingId
      <3> QED
        BY <3>2, <3>3
    <2> QED
      BY <2>1, <2>2 DEF ListingFrom
  <1> QED
    BY <1>1, <1>2, IInvHolds, NextKeepsProvenance, PTL DEF Spec
=============================================================================
