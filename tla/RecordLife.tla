----------------------------- MODULE RecordLife -----------------------------
(***************************************************************************)
(* A transaction record from its source to the gates.  A city profile      *)
(* names the provider; RecordedLianjiaTransactionProvider reads the        *)
(* snapshot file and parses it row by row; one of its records, or one that *)
(* another source publishes, goes through normalize_transaction for one    *)
(* window after another; and a source that refreshes publishes again what  *)
(* was stored of it.                                                       *)
(*                                                                         *)
(* What belongs to the source stands still once a record is at the gates,  *)
(* which are pure.                                                         *)
(***************************************************************************)
EXTENDS TransactionNormalization, Sequences

CONSTANTS
    Cases,      \* the records another source may publish
    Windows,    \* the windows a caller may ask for
    Profiles,   \* the texts of a city profile, Null for none
    City,       \* the city a profile is loaded for
    LianjiaName, Statuses, Boolean, Marker, Malformed,
    Files       \* what the capturing program may leave in the snapshot file

Parser == INSTANCE LianjiaTransactions WITH Names <- Sources
Configuration == INSTANCE CityConfiguration

ASSUME CasesAreRecords == Cases \subseteq Records
ASSUME WindowsAreWindows == Windows \subseteq Window
ASSUME ProfilesAreTexts == Profiles \subseteq Seq(Configuration!Line) \union {Null}
ASSUME NamesAreStrings == {City, LianjiaName} \subseteq STRING /\ Null \notin STRING
ASSUME FilesAreFiles == Files \subseteq Parser!File
\* floor_bucket: str | None
ASSUME NoneIsAText == Null \in Texts
ASSUME SentinelsAreNoValues ==
    \A s \in {Null, Boolean, Marker, Malformed} :
        s \notin Int /\ s \notin Sources /\ s \notin FloorBuckets /\ s \notin Parser!Text
ASSUME NullIsNoRejection == Null \notin Parser!ParseRejection
ASSUME NullIsNoFile == Null \notin Parser!File
ASSUME SentinelsDiffer == Null # Malformed /\ Boolean \notin {Null, Marker}

VARIABLES
    provider,   \* "unset", "refused", or "recorded" once it is built
    file,       \* the snapshot file
    snapshot,   \* LianjiaTransactionSnapshot of the last fetch, or Null
    parsed,     \* its ParseResult as far as the parser got
    origin,     \* auxiliary: the file as the last fetch read it, or Null
    record,     \* the record at the gates, or Null
    window      \* the window it is asked for

source == <<provider, file, snapshot, parsed, origin>>
life == <<source, record, window>>

Unbounded == [start |-> Null, end |-> Null]

NoFile == [state |-> "missing", community |-> Null, at |-> Null, rows |-> Null]

\* Nothing has happened yet, or a source of another kind has published a record.
Init ==
    /\ provider = "unset"
    /\ file = NoFile
    /\ snapshot = Null
    /\ parsed = Parser!NothingParsed
    /\ origin = Null
    /\ record \in Cases \union {Null}
    /\ window = Unbounded

-----------------------------------------------------------------------------
(* The source *)

IsFile(f) == f.state # "missing"

\* load_city_profile and build_transaction_provider, at start-up.
Start(lines, isPath) ==
    LET profile == Configuration!LoadCityProfile(lines, City)
    IN  /\ provider = "unset" /\ record = Null
        /\ provider' =
              IF /\ profile # Null
                 /\ Configuration!BuildTransactionProvider(profile, isPath, IsFile(file))
              THEN "recorded" ELSE "refused"
        /\ UNCHANGED <<file, snapshot, parsed, origin, record, window>>

\* The capturing program writes the file.
Capture(f) ==
    /\ provider # "refused" /\ record = Null
    /\ file' = f
    /\ UNCHANGED <<provider, snapshot, parsed, origin, record, window>>

\* fetch_transactions reads the file anew; it raises where it cannot.
Fetch ==
    /\ provider = "recorded" /\ record = Null
    /\ snapshot' = Parser!LoadTransactionSnapshot(file)
    /\ parsed' = Parser!NothingParsed
    /\ origin' = IF snapshot' = Null THEN Null ELSE file
    /\ UNCHANGED <<provider, file, record, window>>

Done == snapshot # Null /\ Parser!Taken(parsed) = Len(snapshot.rows)

\* The next row of the batch goes through the parser.
ParseRow ==
    /\ snapshot # Null /\ record = Null
    /\ Parser!Taken(parsed) < Len(snapshot.rows)
    /\ parsed' = Parser!ParseTransactionRow(parsed,
                    snapshot.rows[Parser!Taken(parsed) + 1], snapshot.at)
    /\ UNCHANGED <<provider, file, snapshot, origin, record, window>>

-----------------------------------------------------------------------------
(* The gates *)

\* The caller takes up the i-th record of a fetch.
Examine(i) ==
    /\ Done /\ record = Null
    /\ record' = parsed.records[i]
    /\ UNCHANGED <<source, window>>

\* A request for another window.
Ask(w) ==
    /\ record # Null
    /\ window' = w
    /\ UNCHANGED <<source, record>>

\* The record a source would publish for a stored transaction.
AsPublished(t) == t

Refresh ==
    /\ record # Null
    /\ Verdict(record, window) = Accepted
    /\ record' = AsPublished(TransactionOf(record))
    /\ UNCHANGED <<source, window>>

Next ==
    \/ \E lines \in Profiles, isPath \in BOOLEAN : Start(lines, isPath)
    \/ \E f \in Files : Capture(f)
    \/ Fetch
    \/ ParseRow
    \/ \E i \in DOMAIN parsed.records : Examine(i)
    \/ \E w \in Windows : Ask(w)
    \/ Refresh

Spec == Init /\ [][Next]_life

-----------------------------------------------------------------------------
(* Properties of the source *)

\* Line j stands in the section whose header is line i.
Within(lines, i, j) ==
    /\ i < j /\ lines[j].indent > 0
    /\ \A k \in i + 1 .. j : lines[k].shape = "entry" => lines[k].indent > 0

Entry(lines, k, key, value) ==
    lines[k].shape = "entry" /\ lines[k].key = key /\ lines[k].value = value

\* A provider is built from nothing but what the profile says: a section headed
\* "providers" names it, by an entry that stands in that section and is its only
\* one for transactions; a top-level entry gives the city; and there are a path
\* and a file to replay.
BuiltAsConfigured ==
    [][provider' # provider /\ provider' = "recorded" =>
       \A lines \in Profiles, isPath \in BOOLEAN : Start(lines, isPath) =>
              /\ lines # Null /\ isPath /\ file.state # "missing"
              /\ \E k \in DOMAIN lines :
                    lines[k].indent = 0 /\ Entry(lines, k, "city_code", City)
              /\ \E i, j \in DOMAIN lines :
                    /\ lines[i].indent = 0 /\ Entry(lines, i, "providers", Null)
                    /\ Within(lines, i, j) /\ Entry(lines, j, "transactions", LianjiaName)
                    /\ \A k \in DOMAIN lines \ {j} :
                          Within(lines, i, k) /\ lines[k].shape = "entry" =>
                              lines[k].key # "transactions"]_life

\* Record k was parsed from row i: the rows before i are the k - 1 records before
\* it and the rejections that name a row before i.
From(p, k, i) ==
    LET before == i - k
    IN  /\ before \in 0 .. Len(p.rejections)
        /\ before > 0 => p.rejections[before].at < i
        /\ before < Len(p.rejections) => i < p.rejections[before + 1].at

\* Every value of the record is the one its own row says, in the unit it says.
Restates(r, row) ==
    /\ row # Null
    /\ r.native # Null
    /\ Parser!Says(row, "id", r.native)
    /\ Parser!Says(row, "deal_date", r.deal_date)
    /\ Parser!Says(row, "area", r.area)
    /\ Parser!Says(row, "floor", r.floor_bucket)
    /\ Parser!Says(row, "built_year", r.built_year)
    /\ Parser!Says(row, "listing_price", r.listing_price)
    /\ Parser!Says(row, "deal_price", r.deal_price)
    /\ Parser!Says(row, "unit_price", IF r.unit_price = Null THEN Null ELSE r.unit_price.num)
    /\ Parser!Says(row, "days_on_market", r.days_on_market)

\* Each record is of a row that was taken, in order, with its collection time.
Restated(p, rows, at) ==
    \A k \in 1 .. Len(p.records) :
        \E i \in 1 .. Parser!Taken(p) : /\ From(p, k, i)
                                        /\ Restates(p.records[k], rows[i])
                                        /\ p.records[k].collected = at

\* What a rejection holds against its row: it is none, it has no identity, or it
\* publishes something under the field the rejection gives.
Blames(x, row) ==
    \/ row = Null /\ x.reason = "malformed_row"
    \/ /\ row # Null /\ x.reason = "missing_source_identity"
       /\ Parser!Says(row, "id", Null)
    \/ /\ row # Null /\ x.reason = "malformed_field"
       /\ \E i \in DOMAIN row : /\ Parser!HasSay(row, x.field, i)
                               /\ ~ Parser!Unpublished(row[i].cell)

\* Each rejection names a row that was taken, later than the ones before it and
\* one that it has something against.
Rejected(p, rows) ==
    \A a \in 1 .. Len(p.rejections) :
        /\ p.rejections[a].at \in 1 .. Parser!Taken(p)
        /\ \A b \in 1 .. a - 1 : p.rejections[b].at < p.rejections[a].at
        /\ Blames(p.rejections[a], rows[p.rejections[a].at])

\* One row that cannot be read costs nothing but itself: each row of the file
\* that was taken has become one rejection that names it and fits it, or one
\* record, in the file's order, and a record says what its row says.  As many
\* rows were taken as there are records and rejections, so the records are of
\* exactly the rows that no rejection names.
RowsAreAccountedFor ==
    snapshot # Null =>
        /\ origin # Null /\ origin.state = "object" /\ origin.rows = snapshot.rows
        /\ Parser!Taken(parsed) <= Len(origin.rows)
        /\ Restated(parsed, origin.rows, origin.at)
        /\ Rejected(parsed, origin.rows)

-----------------------------------------------------------------------------
(* Properties of the gates *)

\* What the gates let through is what they promise: dealt within the requested
\* window, both of its days included, and not beyond the collection day's grace,
\* and a unit price that, times the area, is within the tolerance of the deal
\* price on either side.
AcceptedIsPlausible ==
    record # Null /\ Verdict(record, window) = Accepted =>
        LET t == TransactionOf(record)
            scaled == t.unit_price.num * t.area
            price == t.deal_price * t.unit_price.den
        IN  /\ window.start # Null => window.start <= t.deal_date
            /\ window.end # Null => t.deal_date <= window.end
            /\ t.deal_date - t.collected <= FutureDealDateGrace
            /\ (100 - Tolerance) * price <= 100 * scaled
            /\ 100 * scaled <= (100 + Tolerance) * price

\* SCHEMA_INVALID is the last resort: every measurement the Transaction schema
\* constrains has a gate of its own before it, but for built_year.
SchemaIsLastResort ==
    record # Null /\ Verdict(record, window) = "schema_invalid" =>
        /\ record.built_year # Null
        /\ record.built_year < 1800 \/ 2200 < record.built_year

\* A refresh of a stored transaction, its derived unit price and its coerced
\* floor filled in, is accepted again and changes nothing that is stored.
RefreshIsStable ==
    [][Refresh => /\ Verdict(record', window) = Accepted
                  /\ TransactionOf(record') = TransactionOf(record)]_life

\* Asking for two adjoining windows one after the other accepts exactly the
\* records that the one window spanning both accepts, and none of them twice.
AdjoiningWindowsAddUp ==
    record # Null =>
    \A cut \in {w.end : w \in Windows} \ {Null} :
        LET before == [window EXCEPT !.end = cut]
            after  == [window EXCEPT !.start = cut + 1]
        IN  /\ window.start = Null \/ window.start <= cut
            /\ window.end = Null \/ cut + 1 <= window.end
            => /\ Verdict(record, window) = Accepted <=>
                      \/ Verdict(record, before) = Accepted
                      \/ Verdict(record, after) = Accepted
               /\ ~ (/\ Verdict(record, before) = Accepted
                     /\ Verdict(record, after) = Accepted)
=============================================================================
