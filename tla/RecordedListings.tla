-------------------------- MODULE RecordedListings --------------------------
(***************************************************************************)
(* The listing pipeline as the repository can run it: ingest() of          *)
(* ListingIngestion over RecordedLianjiaListingProvider                    *)
(* (providers/lianjia/recorded_listings.py), from the file to the tables.  *)
(*                                                                         *)
(* The recorded provider awaits nothing, so a call that has begun keeps    *)
(* the event loop until it ends, the reading and the parsing included.     *)
(* The file belongs to another program, which may write it at any moment;  *)
(* the provider reads it anew, and at once, at every call.                 *)
(***************************************************************************)
EXTENDS LianjiaListings

CONSTANTS
    Communities,    \* resolved community ids
    Instants,       \* snapshot instants
    Files,          \* what the capturing program may leave in the file
    Calls,          \* ingest() calls
    MaxCrashes      \* bound on process deaths

ASSUME FilesAreFiles == Files \subseteq File
ASSUME InstantsAreInstants == Instants \subseteq Int
\* The instants that the files state are among those of the model.
ASSUME FilesStateInstants ==
    \A f \in Files :
        /\ f.at \in Instants \union {Null}
        /\ f.community \in Communities \union {Null}
        /\ f.rows # Null => \A k \in DOMAIN f.rows : f.rows[k] # Null =>
              \A i \in DOMAIN f.rows[k] :
                  f.rows[k][i].cell \in Text => f.rows[k][i].cell.instant \in Instants \union {Null}
ASSUME NullIsNoCommunity == Null \notin Communities
ASSUME NullIsNoFile == Null \notin File /\ Null \notin Seq(Seq(Entry) \union {Null})

VARIABLES
    listing, snapshot, ingest, crashes, base,   \* as in ListingIngestion
    file,       \* the snapshot file
    document,   \* document[c] : LianjiaListingSnapshot that call c holds, or Null
    parsed,     \* parsed[c] : ListingParseResult of call c as far as it got
    origin      \* auxiliary: origin[c] is the file as call c read it, or Null

service == <<listing, snapshot, ingest, crashes, base>>
fetched == <<document, parsed, origin>>
vars == <<service, file, fetched>>

CnyAmounts == {n \in Int : n > 0}

\* A batch of the parser: its ids are those of the native identities.
Batches ==
    {b \in Seq([listing : ListingIds, native : Names, community : Communities,
                first : Instants, last : Instants, at : Instants,
                price : CnyAmounts, status : Statuses]) :
        \A k \in DOMAIN b : /\ b[k].first = b[k].at /\ b[k].last = b[k].at
                            /\ b[k].listing = BuildListingId(b[k].native)}

Service == INSTANCE ListingIngestion WITH Natives <- Names, Prices <- CnyAmounts

Init ==
    /\ Service!Init
    /\ file \in Files
    /\ document = [c \in Calls |-> Null]
    /\ parsed = [c \in Calls |-> NothingParsed]
    /\ origin = [c \in Calls |-> Null]

\* The capturing program writes the file; the process knows nothing of it.
Capture(f) ==
    /\ file' = f
    /\ UNCHANGED <<service, fetched>>

Busy == \E c \in Calls : ingest[c].pc \in Service!Live

Call(c, community) ==
    /\ ~ Busy
    /\ Service!Call(c, community)
    /\ UNCHANGED <<file, fetched>>

Fetching(c) == ingest[c].pc = "fetching" /\ document[c] = Null

\* The file is no batch, or one of another community: LianjiaSnapshotError.
ReadFails(c) ==
    /\ Fetching(c)
    /\ ~ Answers(LoadListingSnapshot(file), ingest[c].community)
    /\ Service!FetchFails(c)
    /\ UNCHANGED <<file, fetched>>

Read(c) ==
    /\ Fetching(c)
    /\ Answers(LoadListingSnapshot(file), ingest[c].community)
    /\ document' = [document EXCEPT ![c] = LoadListingSnapshot(file)]
    /\ origin' = [origin EXCEPT ![c] = file]
    /\ UNCHANGED <<service, file, parsed>>

Holds(c) == ingest[c].pc = "fetching" /\ document[c] # Null

\* The next row of the batch goes through the parser.
ParseRow(c) ==
    /\ Holds(c)
    /\ Taken(parsed[c]) < Len(document[c].rows)
    /\ \E row \in {document[c].rows[Taken(parsed[c]) + 1]} :
          parsed' = [parsed EXCEPT ![c] = ParseListingRow(@, row, document[c])]
    /\ UNCHANGED <<service, file, document, origin>>

\* The fetch result reaches the service.  Every observation carries the community
\* of the document, so the service's own check of it cannot fail here.
Answer(c) ==
    /\ Holds(c)
    /\ Taken(parsed[c]) = Len(document[c].rows)
    /\ IF parsed[c].records = <<>>
       THEN Service!FetchAnswersEmpty(c)
       ELSE Service!FetchAnswers(c, parsed[c].records)
    /\ UNCHANGED <<file, fetched>>

Persist(c) == Service!Persist(c) /\ UNCHANGED <<file, fetched>>

Crash == Service!Crash /\ UNCHANGED <<file, fetched>>

Proceed(c) == ReadFails(c) \/ Read(c) \/ ParseRow(c) \/ Answer(c) \/ Persist(c)

Next ==
    \/ \E f \in Files : Capture(f)
    \/ \E c \in Calls, community \in Communities : Call(c, community)
    \/ \E c \in Calls : Proceed(c)
    \/ Crash

Spec == Init /\ [][Next]_vars

\* A call never waits for anything outside of the process: it runs on.
FairSpec == Spec /\ \A c \in Calls : WF_vars(Proceed(c))

-----------------------------------------------------------------------------
(* Properties *)

\* Row k of the file f says that native is listed.
Lists(f, k, native) == f.rows[k] # Null /\ Says(f.rows[k], "id", native)

\* Row k of the file f says that the listing stood at point p at instant i: a
\* row that says no instant was seen at the file's, and one that says no status
\* has an unknown one.
States(f, k, i, p) ==
    /\ Says(f.rows[k], "list_price", p.price)
    /\ \/ Says(f.rows[k], "snapshot_at", i)
       \/ Says(f.rows[k], "snapshot_at", Null) /\ f.at = i
    /\ \/ Says(f.rows[k], "status", p.status)
       \/ Says(f.rows[k], "status", Null) /\ p.status = Unknown

Sources == {origin[c] : c \in Calls} \ {Null}

\* From the file to the tables: a stored listing is listed in a file that was
\* read for its community, and every stored point is a point that one row of
\* one file states for that listing, its price in the unit the row names,
\* whichever files came and went and whichever calls stopped half way.
StoredWasRecorded ==
    \A l \in ListingIds : listing[l] # Null =>
        /\ BuildListingId(listing[l].native) = l
        /\ \E f \in Sources : /\ f.community = listing[l].community
                              /\ \E k \in DOMAIN f.rows : Lists(f, k, listing[l].native)
        /\ \A i \in Service!HistoryOf(snapshot, l) :
              \E f \in Sources : \E k \in DOMAIN f.rows :
                  Lists(f, k, listing[l].native) /\ States(f, k, i, snapshot[l][i])

\* UNIQUE(source, source_listing_id), the constraint upsert_listing does not
\* handle, never fires for what the parser emits: the id follows the native
\* identity, whichever community, instant or price it was recorded with.
RecordedNeverClashes ==
    \A c \in Calls : ingest[c].pc = "identity" =>
        ~ Service!NativeTaken(listing, Service!Current(c))

\* A broken or foreign file never passes for an empty market: a call that ends
\* well read a whole batch of its community, and every row of the file is an
\* observation that was stored or a rejection that is reported.
EmptyMarketIsRecorded ==
    \A c \in Calls : ingest[c].pc = "done" =>
        /\ origin[c] # Null
        /\ origin[c].state = "object"
        /\ origin[c].community = ingest[c].community
        /\ origin[c].rows # Null
        /\ Len(origin[c].rows) = ingest[c].persisted + Len(parsed[c].rejections)

\* Every call that was made ends, with a result or an error, whatever the
\* capturing program does to the file meanwhile.
CallsEnd == \A c \in Calls : ingest[c].pc # "idle" ~> ingest[c].pc \in Service!Ended
=============================================================================
