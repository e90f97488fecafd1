-------------------------- MODULE ListingIngestion --------------------------
(***************************************************************************)
(* ListingIngestionService.ingest (services/listing_ingestion.py) against  *)
(* the tables of ListingStore.                                             *)
(*                                                                         *)
(* Several calls of ingest share one asyncio event loop.  The only await   *)
(* of a call is the provider fetch, so calls interleave there, complete in *)
(* any order, and from the answer on a call keeps the loop until it ends.  *)
(* Its statements are autocommitted one by one, with no transaction around *)
(* the batch, so an exception or the death of the process leaves a prefix. *)
(*                                                                         *)
(* The provider is the environment: it answers with any batch of Batches,  *)
(* raises, or the awaiting task is cancelled.                              *)
(***************************************************************************)
EXTENDS ListingStore

CONSTANTS
    Calls,          \* ingest() calls
    Batches,        \* answers a provider may give
    MaxCrashes      \* bound on process deaths

ASSUME BatchesAreObservations == Batches \subseteq Seq(Observation)
ASSUME CrashesAreBounded == MaxCrashes \in Nat
ASSUME NullIsNoCommunity == Null \notin Communities
\* A listing id is stable_id of the native identity (build_listing_id of the
\* listing parser), so two observations of one id carry one native identity.
ASSUME IdNamesOneNative ==
    \A b \in Batches : \A i, j \in 1 .. Len(b) :
        b[i].listing = b[j].listing => b[i].native = b[j].native
ASSUME NullIsNoBase ==
    Null \notin [listing : ListingTable, snapshot : SnapshotTable]

VARIABLES
    listing,        \* table listing
    snapshot,       \* table listing_snapshot
    ingest,         \* ingest[c] : the frame of call c
    crashes,        \* process deaths so far
    base            \* auxiliary: the tables when the loop was taken, or Null

tables == <<listing, snapshot>>
vars == <<listing, snapshot, ingest, crashes, base>>

Live  == {"fetching", "identity", "snapshot"}
Ended == {"done", "fetch_error", "contract_error", "storage_error",
          "cancelled", "lost"}

Frame == [pc : {"idle"} \union Live \union Ended,
          community : Communities \union {Null},
          batch : Batches \union {<<>>},
          persisted : Nat]

Init ==
    /\ listing = EmptyListings
    /\ snapshot = EmptySnapshots
    /\ ingest = [c \in Calls |-> [pc |-> "idle", community |-> Null,
                                  batch |-> <<>>, persisted |-> 0]]
    /\ crashes = 0
    /\ base = Null

-----------------------------------------------------------------------------
(* The event loop *)

Writing(c) == ingest[c].pc \in {"identity", "snapshot"}

\* Mistake of a build that awaits between two statements.
LoopIsFreeAlways == TRUE

LoopIsFree == \A c \in Calls : ~ Writing(c)

\* Call c raises: its frame is gone, the loop runs the next ready task.
End(c, outcome) ==
    /\ ingest' = [ingest EXCEPT ![c].pc = outcome]
    /\ base' = Null

-----------------------------------------------------------------------------
(* The handler *)

\* ingest(community) runs up to the await of fetch_current_listings.
Call(c, community) ==
    /\ LoopIsFree
    /\ ingest[c].pc = "idle"
    /\ ingest' = [ingest EXCEPT ![c].pc = "fetching",
                                ![c].community = community]
    /\ UNCHANGED <<listing, snapshot, crashes, base>>

\* The provider raised: ProviderFetchError.
FetchFails(c) ==
    /\ LoopIsFree
    /\ ingest[c].pc = "fetching"
    /\ End(c, "fetch_error")
    /\ UNCHANGED <<listing, snapshot, crashes>>

\* The awaiting task is cancelled; CancelledError is no Exception, so it
\* passes the except clause by.
Cancel(c) ==
    /\ LoopIsFree
    /\ ingest[c].pc = "fetching"
    /\ End(c, "cancelled")
    /\ UNCHANGED <<listing, snapshot, crashes>>

\* A check of the first observation only.
HeadBelongsTo(b, community) == b = <<>> \/ b[1].community = community

\* _require_requested_community: the whole batch, before the first write.
BelongsTo(b, community) == \A i \in 1 .. Len(b) : b[i].community = community

FetchAnswersForeign(c, b) ==
    /\ LoopIsFree
    /\ ingest[c].pc = "fetching"
    /\ ~ BelongsTo(b, ingest[c].community)
    /\ End(c, "contract_error")
    /\ UNCHANGED <<listing, snapshot, crashes>>

FetchAnswersEmpty(c) ==
    /\ LoopIsFree
    /\ ingest[c].pc = "fetching"
    /\ <<>> \in Batches
    /\ End(c, "done")
    /\ UNCHANGED <<listing, snapshot, crashes>>

FetchAnswers(c, b) ==
    /\ LoopIsFree
    /\ ingest[c].pc = "fetching"
    /\ b # <<>>
    /\ BelongsTo(b, ingest[c].community)
    /\ ingest' = [ingest EXCEPT ![c].pc = "identity", ![c].batch = b]
    /\ base' = [listing |-> listing, snapshot |-> snapshot]
    /\ UNCHANGED <<listing, snapshot, crashes>>

\* The observation the loop of ingest is at.
Current(c) == ingest[c].batch[ingest[c].persisted + 1]

WriteIdentity(c) ==
    /\ ingest[c].pc = "identity"
    /\ ~ NativeTaken(listing, Current(c))
    /\ listing' = UpsertListing(listing, Current(c))
    /\ ingest' = [ingest EXCEPT ![c].pc = "snapshot"]
    /\ UNCHANGED <<snapshot, crashes, base>>

\* Slip of the loop: it stays at the same observation.
NoAdvance(n) == n
Advance(n) == n + 1

WriteSnapshot(c) ==
    LET persisted == Advance(ingest[c].persisted)
        last == persisted = Len(ingest[c].batch)
    IN  /\ ingest[c].pc = "snapshot"
        /\ snapshot' = AppendSnapshot(snapshot, Current(c))
        /\ ingest' = [ingest EXCEPT ![c].pc = IF last THEN "done" ELSE "identity",
                                    ![c].persisted = persisted]
        /\ base' = IF last THEN Null ELSE base
        /\ UNCHANGED <<listing, crashes>>

\* Slip: the exception is swallowed, and the loop goes on to the snapshot.
StatementSwallowed(c) ==
    /\ Writing(c)
    /\ ingest' = [ingest EXCEPT ![c].pc = "snapshot"]
    /\ UNCHANGED <<listing, snapshot, crashes, base>>

\* A statement raises: the UNIQUE constraint, or a failure of the database.
StatementRaises(c) ==
    /\ Writing(c)
    /\ End(c, "storage_error")
    /\ UNCHANGED <<listing, snapshot, crashes>>

\* The process dies: every live frame is lost, the database file keeps what
\* was committed, and the next process opens it (initialize is idempotent).
Crash ==
    /\ crashes < MaxCrashes
    /\ \E c \in Calls : ingest[c].pc \in Live
    /\ crashes' = crashes + 1
    /\ ingest' = [c \in Calls |->
                    IF ingest[c].pc \in Live
                    THEN [ingest[c] EXCEPT !.pc = "lost"]
                    ELSE ingest[c]]
    /\ base' = Null
    /\ UNCHANGED <<listing, snapshot>>

Persist(c) == WriteIdentity(c) \/ WriteSnapshot(c) \/ StatementRaises(c)

Answer(c) ==
    \/ FetchFails(c)
    \/ FetchAnswersEmpty(c)
    \/ \E b \in Batches : FetchAnswersForeign(c, b) \/ FetchAnswers(c, b)

Next ==
    \/ \E c \in Calls :
          \/ \E community \in Communities : Call(c, community)
          \/ Answer(c)
          \/ Cancel(c)
          \/ Persist(c)
    \/ Crash

Spec == Init /\ [][Next]_vars

-----------------------------------------------------------------------------
(* Properties *)

\* Every table and every frame holds a value of its type: the positional VALUES
\* list of upsert_listing puts each column in its place.
TypeOK ==
    /\ listing \in ListingTable
    /\ snapshot \in SnapshotTable
    /\ ingest \in [Calls -> Frame]
    /\ crashes \in 0 .. MaxCrashes
    /\ base \in {Null} \union [listing : ListingTable, snapshot : SnapshotTable]

\* "The history row references a listing that exists": the schema declares no
\* foreign key, so only the order of the two statements in ingest gives it, and
\* it must survive a raise, a cancellation or a crash between the two.
SnapshotsHaveIdentity ==
    \A l \in ListingIds : HistoryOf(snapshot, l) # {} => listing[l] # Null

\* The seen range upsert_listing folds with least and greatest spans every
\* stored snapshot of the listing, in whatever order the snapshots of several
\* calls arrived and whichever of the calls stopped half way.
SeenRangeSpansHistory ==
    \A l \in ListingIds : \A i \in HistoryOf(snapshot, l) :
        listing[l] # Null => listing[l].first <= i /\ i <= listing[l].last

\* Replaying a batch repairs what its own interrupted run left: from any
\* reachable tables, a whole run after a partial run of the same batch ends in
\* the tables that one whole run gives.
RetryConverges ==
    \A b \in Batches :
        LET n == StatementCount(b)
            run == Persisted(listing, snapshot, b)
        IN  ~ run[n].raised =>
                \A k \in 0 .. n :
                    Persisted(run[k].listing, run[k].snapshot, b)[n] = run[n]

\* A step writes only about the community its call asked for: the row written
\* belongs to it, and so does the listing whose history is written.
WritesOnlySubject ==
    [][\A l \in ListingIds :
          listing'[l] # listing[l] \/ snapshot'[l] # snapshot[l] =>
              \E c \in Calls : /\ Writing(c)
                               /\ listing'[l].community = ingest[c].community]_vars

\* Seen from the event loop a call stores its whole batch at once or fails:
\* while a call holds the loop the abstract tables are those it started from.
Abstract == INSTANCE BatchIngestion WITH
    listing  <- IF base = Null THEN listing ELSE base.listing,
    snapshot <- IF base = Null THEN snapshot ELSE base.snapshot,
    subject  <- [c \in Calls |-> ingest[c].community],
    outcome  <- [c \in Calls |->
                    CASE ingest[c].pc = "done" -> "stored"
                      [] ingest[c].pc \in Ended \ {"done"} -> "failed"
                      [] OTHER -> "pending"]

StoresWholeBatches == Abstract!Spec

-----------------------------------------------------------------------------
(* What the repository says and the code does not do *)

\* "A later snapshot replaces what the current view reports for that listing"
\* (services/listing_query.py:58): with no batch half applied and no two
\* observations of one instant, the status of the row is the one of the latest
\* snapshot.
CurrentViewIsLatest ==
    (\A c \in Calls : ingest[c].pc \in {"idle", "fetching", "done"}) =>
        \A l \in ListingIds : HistoryOf(snapshot, l) # {} =>
            listing[l].status = snapshot[l][LatestInstant(snapshot, l)].status
=============================================================================
