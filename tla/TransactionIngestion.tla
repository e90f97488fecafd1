------------------------ MODULE TransactionIngestion ------------------------
(***************************************************************************)
(* TransactionIngestionService.ingest (services/transaction_ingestion.py)  *)
(* and TransactionRepository.upsert_many.                                  *)
(*                                                                         *)
(* A call awaits the provider, puts every record through                   *)
(* normalize_transaction, keeps the first accepted record of each identity *)
(* and then upserts what it kept, one autocommitted statement per row.  It *)
(* keeps the event loop from the answer on.  The passes over the batch are *)
(* single steps per record, so that a crash finds the frame between them.  *)
(*                                                                         *)
(* transaction_id is a function of the source's own id, so the table is    *)
(* keyed by the latter.  A fetch result carries the parsed records, the    *)
(* number of parse rejections and the number of rows observed.             *)
(***************************************************************************)
EXTENDS TransactionNormalization, Sequences, FiniteSets

CONSTANTS
    Calls,          \* ingest() calls
    Communities,    \* resolved community ids
    Windows,        \* start_date / end_date of a request
    Fetches,        \* fetch results a provider may give
    MaxCrashes      \* bound on process deaths

\* TransactionIngestionRequest.validate_range
ASSUME WindowsAreRanges ==
    Windows \subseteq
        {w \in Window : w.start # Null /\ w.end # Null => w.start <= w.end}

\* _FetchResult._validate_source_row_count
FetchResult ==
    {f \in [records : Seq(Records), parse_rejections : Nat, rows : Nat] :
        Len(f.records) + f.parse_rejections <= f.rows}

ASSUME FetchesAreValid == Fetches \subseteq FetchResult
ASSUME CrashesAreBounded == MaxCrashes \in Nat

VARIABLES
    deals,      \* table property_transaction
    ingest,     \* ingest[c] : the frame of call c
    crashes     \* process deaths so far

vars == <<deals, ingest, crashes>>

NoFetch == [records |-> <<>>, parse_rejections |-> 0, rows |-> 0]
NoWindow == [start |-> Null, end |-> Null]

Live  == {"fetching", "normalizing", "upserting"}
Ended == {"done", "fetch_error", "storage_error", "cancelled", "lost"}

Row == [community : Communities, transaction : Transaction]

Rejection == [at : Nat, reason : Reasons]

Frame == [pc : {"idle"} \union Live \union Ended,
          community : Communities \union {Null}, window : Windows \union {NoWindow},
          fetched : Fetches \union {NoFetch},
          examined : Nat,               \* records normalized so far
          accepted : Seq(Nat \ {0}),    \* positions of the records kept
          rejections : Seq(Rejection),  \* quality_rejections
          upserted : Nat]

ASSUME NullIsNoRow == Null \notin Row

Init ==
    /\ deals = [s \in Sources |-> Null]
    /\ ingest = [c \in Calls |->
                   [pc |-> "idle", community |-> Null, window |-> NoWindow,
                    fetched |-> NoFetch, examined |-> 0, accepted |-> <<>>,
                    rejections |-> <<>>, upserted |-> 0]]
    /\ crashes = 0

-----------------------------------------------------------------------------
(* The fetch *)

Holding(c) == ingest[c].pc \in {"normalizing", "upserting"}

\* Mistake of a build that awaits between two records.
LoopIsFreeAlways == TRUE

LoopIsFree == \A c \in Calls : ~ Holding(c)

Call(c, community, w) ==
    /\ LoopIsFree
    /\ ingest[c].pc = "idle"
    /\ ingest' = [ingest EXCEPT ![c].pc = "fetching",
                                ![c].community = community, ![c].window = w]
    /\ UNCHANGED <<deals, crashes>>

\* ProviderFetchError, or the awaiting task is cancelled.
FetchEnds(c) ==
    /\ LoopIsFree
    /\ ingest[c].pc = "fetching"
    /\ \E outcome \in {"fetch_error", "cancelled"} :
          ingest' = [ingest EXCEPT ![c].pc = outcome]
    /\ UNCHANGED <<deals, crashes>>

FetchAnswers(c, f) ==
    /\ LoopIsFree
    /\ ingest[c].pc = "fetching"
    /\ ingest' = [ingest EXCEPT ![c].pc = "normalizing", ![c].fetched = f]
    /\ UNCHANGED <<deals, crashes>>

-----------------------------------------------------------------------------
(* The pass over the records *)

RecordAt(c, i) == ingest[c].fetched.records[i]
KeptAt(c, k) == RecordAt(c, ingest[c].accepted[k])

\* Slip of _accept: the look-up uses the record before, not all kept ones.
AlreadyAcceptedLast(c, r) ==
    /\ ingest[c].accepted # <<>>
    /\ KeptAt(c, Len(ingest[c].accepted)).native = r.native

\* transaction_id in accepted
AlreadyAccepted(c, r) ==
    \E k \in 1 .. Len(ingest[c].accepted) : KeptAt(c, k).native = r.native

\* normalize_transaction, then _accept.
Outcome(c, i) ==
    LET verdict == Verdict(RecordAt(c, i), ingest[c].window) IN
    IF verdict = Accepted /\ AlreadyAccepted(c, RecordAt(c, i))
    THEN "duplicate_in_batch"
    ELSE verdict

\* Slip: a rejected record is dropped without a trace.
RejectSilently(rejections, i, reason) ==
    IF reason = "duplicate_in_batch" THEN rejections
    ELSE Append(rejections, [at |-> i, reason |-> reason])

Reject(rejections, i, reason) == Append(rejections, [at |-> i, reason |-> reason])

Examine(c) ==
    LET i == ingest[c].examined + 1
        outcome == Outcome(c, i)
    IN  /\ ingest[c].pc = "normalizing"
        /\ i <= Len(ingest[c].fetched.records)
        /\ ingest' = [ingest EXCEPT
              ![c].examined = i,
              ![c].accepted = IF outcome = Accepted THEN Append(@, i) ELSE @,
              ![c].rejections = IF outcome = Accepted THEN @
                                ELSE Reject(@, i, outcome)]
        /\ UNCHANGED <<deals, crashes>>

\* The loop is over: upsert_many takes over with the accepted transactions.
Examined(c) ==
    /\ ingest[c].pc = "normalizing"
    /\ ingest[c].examined = Len(ingest[c].fetched.records)
    /\ ingest' = [ingest EXCEPT ![c].pc = "upserting"]
    /\ UNCHANGED <<deals, crashes>>

-----------------------------------------------------------------------------
(* upsert_many *)

\* Slip: the stored listing price survives where the new transaction has none.
RowForBlended(c, k) ==
    LET new == TransactionOf(KeptAt(c, k))
        old == deals[new.native]
    IN  [community |-> ingest[c].community,
         transaction |-> IF old # Null /\ new.listing_price = Null
                         THEN [new EXCEPT !.listing_price = old.transaction.listing_price]
                         ELSE new]

\* ON CONFLICT(transaction_id): every column comes from the new transaction.
RowFor(c, k) ==
    [community |-> ingest[c].community, transaction |-> TransactionOf(KeptAt(c, k))]

Upsert(c) ==
    LET k == ingest[c].upserted + 1
        row == RowFor(c, k)
    IN  /\ ingest[c].pc = "upserting"
        /\ k <= Len(ingest[c].accepted)
        /\ deals' = [deals EXCEPT ![row.transaction.native] = row]
        /\ ingest' = [ingest EXCEPT ![c].upserted = k]
        /\ UNCHANGED crashes

\* Slips of the loop: the last transaction is left out; one more is expected.
AllUpsertedButOne(c) == ingest[c].upserted + 1 >= Len(ingest[c].accepted)
AllUpsertedAndOne(c) == ingest[c].upserted = Len(ingest[c].accepted) + 1

AllUpserted(c) == ingest[c].upserted = Len(ingest[c].accepted)

\* The result is returned: counts and tuples of the frame.
Return(c) ==
    /\ ingest[c].pc = "upserting"
    /\ AllUpserted(c)
    /\ ingest' = [ingest EXCEPT ![c].pc = "done"]
    /\ UNCHANGED <<deals, crashes>>

\* A statement raises; the rows before it stay.
StatementRaises(c) ==
    /\ ingest[c].pc = "upserting"
    /\ ingest[c].upserted < Len(ingest[c].accepted)
    /\ ingest' = [ingest EXCEPT ![c].pc = "storage_error"]
    /\ UNCHANGED <<deals, crashes>>

\* The process dies: live frames are lost, committed rows stay.
Crash ==
    /\ crashes < MaxCrashes
    /\ \E c \in Calls : ingest[c].pc \in Live
    /\ crashes' = crashes + 1
    /\ ingest' = [c \in Calls |->
                    IF ingest[c].pc \in Live
                    THEN [ingest[c] EXCEPT !.pc = "lost"]
                    ELSE ingest[c]]
    /\ UNCHANGED deals

Run(c) ==
    \/ Examine(c)
    \/ Examined(c)
    \/ Upsert(c)
    \/ Return(c)
    \/ StatementRaises(c)

Answer(c) == FetchEnds(c) \/ \E f \in Fetches : FetchAnswers(c, f)

Next ==
    \/ \E c \in Calls :
          \/ \E community \in Communities, w \in Windows : Call(c, community, w)
          \/ Answer(c)
          \/ Run(c)
    \/ Crash

Spec == Init /\ [][Next]_vars

\* The loop runs a task that is ready; a recorded provider reads one local
\* file, so every fetch is answered or raises.
Fairness == \A c \in Calls : WF_vars(Run(c)) /\ WF_vars(Answer(c))

FairSpec == Spec /\ Fairness

-----------------------------------------------------------------------------
(* Properties *)

\* The table and every frame hold values of their types, and a stored
\* transaction fits the canonical schema.
TypeOK ==
    /\ deals \in [Sources -> Row \union {Null}]
    /\ \A s \in Sources : deals[s] # Null =>
           /\ deals[s].transaction.native = s
           /\ FitsSchema(deals[s].transaction)
    /\ ingest \in [Calls -> Frame]
    /\ crashes \in 0 .. MaxCrashes

Kept(c) == {ingest[c].accepted[k] : k \in 1 .. Len(ingest[c].accepted)}
RejectedAt(c, i) ==
    {k \in 1 .. Len(ingest[c].rejections) : ingest[c].rejections[k].at = i}

\* "parsed_count == upserted_count + quality_rejection_count": a call that
\* returns has put every parsed record in exactly one of the two tuples of its
\* result, once, and with the parse rejections they do not exceed the rows.
RecordsAccounted ==
    \A c \in Calls : ingest[c].pc = "done" =>
        LET f == ingest[c].fetched IN
        /\ \A i \in 1 .. Len(f.records) :
              Cardinality(RejectedAt(c, i)) = IF i \in Kept(c) THEN 0 ELSE 1
        /\ Len(f.records) = ingest[c].upserted + Len(ingest[c].rejections)
        /\ ingest[c].upserted + Len(ingest[c].rejections) + f.parse_rejections <= f.rows

\* Of the records of one identity the first acceptable one is kept: an earlier
\* record that failed a gate does not shadow it, and none replaces it.
FirstAcceptableKept ==
    \A c \in Calls :
        LET accepts(i) == Verdict(RecordAt(c, i), ingest[c].window) = Accepted IN
        Kept(c) = {i \in 1 .. ingest[c].examined :
                      /\ accepts(i)
                      /\ \A j \in 1 .. i - 1 :
                            accepts(j) => RecordAt(c, j).native # RecordAt(c, i).native}

\* A row is never a blend: it is one record that passed the gates in the window
\* of the call that wrote it, under the community that call asked about.
StoredDealWasAccepted ==
    \A s \in Sources : deals[s] # Null =>
        \E c \in Calls : \E i \in Kept(c) :
            /\ Verdict(RecordAt(c, i), ingest[c].window) = Accepted
            /\ deals[s] = [community |-> ingest[c].community,
                           transaction |-> TransactionOf(RecordAt(c, i))]

\* What a result names is stored: from the moment a call returns, whatever runs
\* afterwards, each of its transaction_ids has a row.
ReportedIsStored ==
    \A c \in Calls : ingest[c].pc = "done" =>
        \A k \in 1 .. Len(ingest[c].accepted) : deals[KeptAt(c, k).native] # Null

\* At its return the table holds what a call kept and not what another one,
\* overlapping with it, stored under the same identities.
ReturnDescribesTable ==
    [][\A c \in Calls : Return(c) =>
          \A k \in 1 .. Len(ingest[c].accepted) :
              deals[KeptAt(c, k).native] = RowFor(c, k)]_vars

\* Every call that was made ends, with a result or an error.
CallsEnd == \A c \in Calls : ingest[c].pc # "idle" ~> ingest[c].pc \in Ended
=============================================================================
