--------------------- MODULE MarketObservationIngestion ---------------------
(***************************************************************************)
(* MarketObservationIngestionService.ingest over table market_observation  *)
(* (services/market_observation_ingestion.py, storage/repositories.py:353) *)
(* and the read of MarketObservationQueryService.                          *)
(*                                                                         *)
(* Calls overlap at their only await, the fetch; from the answer on a call *)
(* keeps the event loop, one autocommitted statement per observation.      *)
(* Of the filters, which all read alike, geography_code stands for the     *)
(* three over names; a value stands for the columns no decision reads.     *)
(***************************************************************************)
EXTENDS Integers, Sequences

CONSTANTS
    ObservationIds, \* observation ids, stable across publications
    Cities,         \* city codes
    Codes,          \* geography codes
    Days,           \* dates
    Values,         \* published values
    Calls,          \* ingest() calls
    Batches,        \* answers a provider may give
    MaxCrashes,     \* bound on process deaths
    Null            \* an absent field, no row

ASSUME DaysAreOrdered == Days \subseteq Int

\* A MarketObservation; validate_period orders its period.
Observation ==
    {o \in [id : ObservationIds, city : Cities, code : Codes \union {Null},
            start : Days, end : Days, value : Values] : o.start <= o.end}

ASSUME BatchesAreObservations == Batches \subseteq Seq(Observation)
ASSUME CrashesAreBounded == MaxCrashes \in Nat
ASSUME NullIsNothing == Null \notin Observation /\ Null \notin Codes

VARIABLES
    observation,    \* table market_observation: the row of each id, or Null
    ingest,         \* ingest[c] : the frame of call c
    crashes         \* process deaths so far

vars == <<observation, ingest, crashes>>

Live  == {"fetching", "writing"}
Ended == {"done", "fetch_error", "contract_error", "storage_error",
          "cancelled", "lost"}

Frame == [pc : {"idle"} \union Live \union Ended,
          city : Cities \union {Null},
          batch : Batches \union {<<>>},
          persisted : Nat,
          ids : Seq(ObservationIds)]

Init ==
    /\ observation = [id \in ObservationIds |-> Null]
    /\ ingest = [c \in Calls |-> [pc |-> "idle", city |-> Null, batch |-> <<>>,
                                  persisted |-> 0, ids |-> <<>>]]
    /\ crashes = 0

-----------------------------------------------------------------------------
(* ingest *)

Writing(c) == ingest[c].pc = "writing"

LoopIsFree == \A c \in Calls : ~ Writing(c)

End(c, outcome) == ingest' = [ingest EXCEPT ![c].pc = outcome]

\* ingest(request) runs up to the await of fetch_market_observations.
Call(c, city) ==
    /\ LoopIsFree
    /\ ingest[c].pc = "idle"
    /\ ingest' = [ingest EXCEPT ![c].pc = "fetching", ![c].city = city]
    /\ UNCHANGED <<observation, crashes>>

\* The provider raised, or the awaiting task is cancelled: CancelledError is
\* no Exception and passes the except clause by.
FetchEnds(c, outcome) ==
    /\ LoopIsFree
    /\ ingest[c].pc = "fetching"
    /\ outcome \in {"fetch_error", "cancelled"}
    /\ End(c, outcome)
    /\ UNCHANGED <<observation, crashes>>

\* Slip: only the first observation is looked at.
HeadBelongsTo(b, city) == \A k \in 1 .. Len(b) : k = 1 => b[k].city = city

\* _require_requested_city: the whole batch, before the first write.
BelongsTo(b, city) == \A k \in 1 .. Len(b) : b[k].city = city

FetchAnswersForeign(c, b) ==
    /\ LoopIsFree
    /\ ingest[c].pc = "fetching"
    /\ ~ BelongsTo(b, ingest[c].city)
    /\ End(c, "contract_error")
    /\ UNCHANGED <<observation, crashes>>

\* The batch is accepted; an empty one is a result at once.
FetchAnswers(c, b) ==
    /\ LoopIsFree
    /\ ingest[c].pc = "fetching"
    /\ BelongsTo(b, ingest[c].city)
    /\ ingest' = [ingest EXCEPT ![c].pc = IF b = <<>> THEN "done" ELSE "writing",
                                ![c].batch = b]
    /\ UNCHANGED <<observation, crashes>>

\* Slip: a NULL of the new publication does not replace what is stored.
RowForBlended(o, row) ==
    IF row # Null /\ o.code = Null THEN [o EXCEPT !.code = row.code] ELSE o

\* Slip: ON CONFLICT DO NOTHING.
RowForFirst(o, row) == IF row # Null THEN row ELSE o

\* upsert: ON CONFLICT(observation_id) every column is replaced.
RowFor(o, row) == o

\* observation_ids takes an id the first time it comes.
Mentioned(ids, id) ==
    IF \E k \in 1 .. Len(ids) : ids[k] = id THEN ids ELSE Append(ids, id)

\* One turn of the loop; after the last observation ingest returns.
WriteObservation(c) ==
    LET frame == ingest[c]
        o     == frame.batch[frame.persisted + 1]
        count == frame.persisted + 1
    IN  /\ Writing(c)
        /\ observation' = [observation EXCEPT ![o.id] = RowFor(o, @)]
        /\ ingest' = [ingest EXCEPT
               ![c].pc = IF count = Len(frame.batch) THEN "done" ELSE "writing",
               ![c].persisted = count,
               ![c].ids = Mentioned(@, o.id)]
        /\ UNCHANGED crashes

StatementRaises(c) ==
    /\ Writing(c)
    /\ End(c, "storage_error")
    /\ UNCHANGED <<observation, crashes>>

\* The process dies and the next one opens the file it left.
Crash ==
    /\ crashes < MaxCrashes
    /\ \E c \in Calls : ingest[c].pc \in Live
    /\ crashes' = crashes + 1
    /\ ingest' = [c \in Calls |-> IF ingest[c].pc \in Live
                                  THEN [ingest[c] EXCEPT !.pc = "lost"]
                                  ELSE ingest[c]]
    /\ UNCHANGED observation

Answer(c) ==
    \/ FetchEnds(c, "fetch_error")
    \/ \E b \in Batches : FetchAnswersForeign(c, b) \/ FetchAnswers(c, b)

Next ==
    \/ \E c \in Calls :
          \/ \E city \in Cities : Call(c, city)
          \/ Answer(c)
          \/ FetchEnds(c, "cancelled")
          \/ WriteObservation(c)
          \/ StatementRaises(c)
    \/ Crash

Spec == Init /\ [][Next]_vars

-----------------------------------------------------------------------------
(* MarketObservationQuery *)

\* A query: an omitted filter does not filter, bounds that cross are refused.
Query ==
    {q \in [city : Cities, code : Codes \union {Null},
            start : Days \union {Null}, end : Days \union {Null}] :
        q.start # Null /\ q.end # Null => q.start <= q.end}

\* Slip: the end of the window bounds the start of the period.
WithinByStart(o, q) ==
    /\ q.start = Null \/ o.start >= q.start
    /\ q.end = Null \/ o.start <= q.end

Within(o, q) ==
    /\ q.start = Null \/ o.start >= q.start
    /\ q.end = Null \/ o.end <= q.end

\* list_for_city; the order in which it lists them is left out.
ListForCity(q) ==
    {o \in {observation[id] : id \in ObservationIds} \ {Null} :
        /\ o.city = q.city
        /\ q.code = Null \/ o.code = q.code
        /\ Within(o, q)}

-----------------------------------------------------------------------------
(* Properties *)

\* Rows are valid observations under their own ids; frames are frames.
TypeOK ==
    /\ observation \in [ObservationIds -> Observation \union {Null}]
    /\ \A id \in ObservationIds : observation[id] # Null => observation[id].id = id
    /\ ingest \in [Calls -> Frame]
    /\ crashes \in 0 .. MaxCrashes

\* Every row is one observation as it was published, whole, to a call that asked
\* for its city: a correction leaves nothing of what it corrects, whatever
\* overlapped, raised or crashed.
StoredAsPublished ==
    \A id \in ObservationIds : observation[id] # Null =>
        \E c \in Calls : /\ ingest[c].city = observation[id].city
                         /\ \E k \in 1 .. ingest[c].persisted :
                                ingest[c].batch[k] = observation[id]

\* A step changes a row only into an observation of the city that the writing
\* call asked for.
OnlyOwnCityGains ==
    [][\A id \in ObservationIds :
          observation'[id] # observation[id] =>
              \E c \in Calls : /\ Writing(c)
                               /\ observation'[id].city = ingest[c].city]_vars

\* After n observations of b: the last one of each id is the stored one.
LastStands(t, b, n) ==
    \A k \in 1 .. n :
        (\A j \in k + 1 .. n : b[j].id # b[k].id) => t[b[k].id] = b[k]

\* ids names what the first n observations of b are about, each once, in the
\* order of their first mention.
NamesInOrder(ids, b, n) ==
    /\ \A k \in 1 .. n : \E i \in 1 .. Len(ids) : ids[i] = b[k].id
    /\ \A i \in 1 .. Len(ids) : \E k \in 1 .. n :
          /\ b[k].id = ids[i]
          /\ \A j \in 1 .. k : \A later \in i + 1 .. Len(ids) : b[j].id # ids[later]

\* When a call returns, the table holds the last publication of every id of its
\* batch, and the result names exactly those ids and counts every observation,
\* duplicates included, whatever other calls did since it asked.
ReturnDescribesSeries ==
    [][\A c \in Calls :
          Writing(c) /\ ingest'[c].pc = "done" =>
              LET frame == ingest'[c]
                  n     == Len(frame.batch)
              IN  /\ frame.persisted = n
                  /\ LastStands(observation', frame.batch, n)
                  /\ NamesInOrder(frame.ids, frame.batch, n)]_vars

\* Figures read through two windows that share no day describe no day twice: a
\* month is never mixed with the quarter that straddles the edge.
WindowsNeverOverlap ==
    \A p, q \in Query :
        p.end # Null /\ q.start # Null /\ p.end < q.start =>
            \A o \in ListForCity(p), s \in ListForCity(q) : o.end < s.start
=============================================================================
