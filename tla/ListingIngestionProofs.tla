----------------------- MODULE ListingIngestionProofs -----------------------
(***************************************************************************)
(* Safety of ListingIngestion for every set of calls, batches, listings    *)
(* and instants.                                                           *)
(*                                                                         *)
(* The safety invariants are not inductive: between the two statements of  *)
(* one observation the frame of the call, and no table, knows that the     *)
(* history row about to be written has an identity that spans it.  IInv    *)
(* adds what a frame knows about the tables.  For the refinement of        *)
(* BatchIngestion, RInv adds which statements of its batch a call has      *)
(* executed, and from which tables.                                        *)
(*                                                                         *)
(* Persisted is recursive, so what a run of a batch does is proved by      *)
(* induction on the number of its statements (IntervalInduction, from the  *)
(* well-foundedness of the naturals): a replay is followed statement by    *)
(* statement next to the run it repeats.                                   *)
(***************************************************************************)
EXTENDS ListingIngestion, TLAPS, WellFoundedInduction

\* Row t[o.listing] exists and its seen range spans the instant of o.
Spans(t, l, i) ==
    /\ t[l] # Null
    /\ t[l].first <= i
    /\ i <= t[l].last

\* What a call that holds the loop knows.
FrameInv(c) ==
    /\ Writing(c) =>
           /\ ingest[c].batch \in Seq(Observation)
           /\ ingest[c].persisted < Len(ingest[c].batch)
           /\ ingest[c].community \in Communities
           /\ BelongsTo(ingest[c].batch, ingest[c].community)
    /\ ingest[c].pc = "snapshot" =>
           /\ Spans(listing, Current(c).listing, Current(c).at)
           /\ listing[Current(c).listing].community = ingest[c].community
    /\ ingest[c].pc = "fetching" =>
           /\ ingest[c].persisted = 0
           /\ ingest[c].community \in Communities
    /\ ingest[c].pc = "idle" => ingest[c].persisted = 0

\* The loop is taken by one call, which is what base records.
LoopInv ==
    /\ \A c, d \in Calls : Writing(c) /\ Writing(d) => c = d
    /\ base = Null <=> LoopIsFree

HistoryInv ==
    \A l \in ListingIds : \A i \in HistoryOf(snapshot, l) : Spans(listing, l, i)

IInv == TypeOK /\ LoopInv /\ HistoryInv /\ \A c \in Calls : FrameInv(c)

-----------------------------------------------------------------------------
(* The operators of ListingStore *)

\* What a write reads of an observation.
LEMMA ObservationFields ==
    ASSUME NEW o \in Observation
    PROVE  /\ o.listing \in ListingIds /\ o.native \in Natives
           /\ o.community \in Communities /\ o.price \in Prices
           /\ o.status \in Statuses
           /\ o.first \in Instants /\ o.last \in Instants /\ o.at \in Instants
           /\ o.first <= o.at /\ o.at <= o.last
  BY DEF Observation

\* The row an upsert leaves is a row, belongs to the community of the
\* observation and spans its instant, whatever row was there before.
LEMMA MergedRowSpans ==
    ASSUME NEW o \in Observation, NEW row \in ListingRow \union {Null}
    PROVE  /\ MergedRow(row, o) \in ListingRow
           /\ MergedRow(row, o).community = o.community
           /\ MergedRow(row, o).first <= o.at
           /\ o.at <= MergedRow(row, o).last
  <1>1. /\ o.first \in Int /\ o.last \in Int /\ o.at \in Int
    BY ObservationFields, InstantsAreOrdered
  <1>2. RowOf(o) \in ListingRow
    BY ObservationFields DEF RowOf, ListingRow
  <1>3. CASE row = Null
    BY <1>1, <1>2, <1>3, ObservationFields DEF MergedRow, RowOf
  <1>4. CASE row # Null
    <2>1. row \in ListingRow /\ row.first \in Int /\ row.last \in Int
      BY <1>4, InstantsAreOrdered DEF ListingRow
    <2>2. /\ least(row.first, o.first) \in Instants
          /\ greatest(row.last, o.last) \in Instants
      BY <2>1, ObservationFields DEF least, greatest, ListingRow
    <2>3. /\ least(row.first, o.first) <= o.at
          /\ o.at <= greatest(row.last, o.last)
      BY <1>1, <2>1, ObservationFields DEF least, greatest
    <2>4. MergedRow(row, o) =
            [community |-> o.community, native |-> o.native,
             first |-> least(row.first, o.first),
             last |-> greatest(row.last, o.last), status |-> o.status]
      BY <1>4 DEF MergedRow, RowOf
    <2> QED
      BY <2>2, <2>3, <2>4, ObservationFields DEF ListingRow
  <1> QED
    BY <1>3, <1>4

\* An upsert never narrows the seen range of a stored row.
LEMMA MergedRowWidens ==
    ASSUME NEW o \in Observation, NEW row \in ListingRow \union {Null}, row # Null
    PROVE  /\ MergedRow(row, o).first <= row.first
           /\ row.last <= MergedRow(row, o).last
  <1>1. /\ row.first \in Int /\ row.last \in Int
        /\ o.first \in Int /\ o.last \in Int
    BY ObservationFields, InstantsAreOrdered DEF ListingRow
  <1>2. /\ MergedRow(row, o).first = least(row.first, o.first)
        /\ MergedRow(row, o).last = greatest(row.last, o.last)
    BY DEF MergedRow, RowOf
  <1> QED
    BY <1>1, <1>2 DEF least, greatest

\* A row is never Null.
LEMMA RowIsNotNull ==
    ASSUME NEW row \in ListingRow
    PROVE  row # Null
  BY NullIsNoRow

\* upsert_listing: one row changes, and every instant a row spanned it spans
\* afterwards.
LEMMA UpsertKeepsSpans ==
    ASSUME NEW t \in ListingTable, NEW o \in Observation
    PROVE  /\ UpsertListing(t, o) \in ListingTable
           /\ UpsertListing(t, o)[o.listing].community = o.community
           /\ Spans(UpsertListing(t, o), o.listing, o.at)
           /\ \A l \in ListingIds : l # o.listing =>
                  UpsertListing(t, o)[l] = t[l]
           /\ \A l \in ListingIds, i \in Instants :
                  Spans(t, l, i) => Spans(UpsertListing(t, o), l, i)
  <1> DEFINE u == UpsertListing(t, o)
  <1>1. o.listing \in ListingIds
    BY ObservationFields
  <1>2. t[o.listing] \in ListingRow \union {Null}
    BY <1>1 DEF ListingTable
  <1>3. u[o.listing] = MergedRow(t[o.listing], o)
    BY <1>1 DEF UpsertListing, ListingTable
  <1>4. u[o.listing] \in ListingRow /\ u[o.listing] # Null
    BY <1>2, <1>3, MergedRowSpans, RowIsNotNull
  <1>5. u \in ListingTable
    BY <1>3, <1>4 DEF UpsertListing, ListingTable
  <1>6. \A l \in ListingIds : l # o.listing => u[l] = t[l]
    BY DEF UpsertListing, ListingTable
  <1>7. Spans(u, o.listing, o.at) /\ u[o.listing].community = o.community
    BY <1>2, <1>3, <1>4, MergedRowSpans DEF Spans
  <1>8. ASSUME NEW l \in ListingIds, NEW i \in Instants, Spans(t, l, i)
        PROVE  Spans(u, l, i)
    <2>1. CASE l # o.listing
      BY <1>6, <1>8, <2>1 DEF Spans
    <2>2. CASE l = o.listing
      <3>1. /\ t[l].first \in Int /\ t[l].last \in Int
            /\ u[l].first \in Int /\ u[l].last \in Int /\ i \in Int
        BY <1>2, <1>4, <1>8, <2>2, InstantsAreOrdered DEF Spans, ListingRow
      <3>2. u[l].first <= t[l].first /\ t[l].last <= u[l].last
        BY <1>2, <1>3, <1>8, <2>2, MergedRowWidens DEF Spans
      <3> QED
        BY <1>4, <1>8, <2>2, <3>1, <3>2 DEF Spans
    <2> QED
      BY <2>1, <2>2
  <1> QED
    BY <1>5, <1>6, <1>7, <1>8

\* append_snapshot: one point of one listing is written.
LEMMA AppendAddsOnePoint ==
    ASSUME NEW h \in SnapshotTable, NEW o \in Observation
    PROVE  /\ AppendSnapshot(h, o) \in SnapshotTable
           /\ \A l \in ListingIds : l # o.listing =>
                  AppendSnapshot(h, o)[l] = h[l]
           /\ \A l \in ListingIds : \A i \in HistoryOf(AppendSnapshot(h, o), l) :
                  i \in HistoryOf(h, l) \/ (l = o.listing /\ i = o.at)
  <1>1. o.listing \in ListingIds /\ o.at \in Instants
    BY ObservationFields
  <1>2. PointOf(o) \in SnapshotPoint
    BY ObservationFields DEF PointOf, SnapshotPoint
  <1>3. h[o.listing] \in [Instants -> SnapshotPoint \union {Null}]
    BY <1>1 DEF SnapshotTable
  <1>4. [h[o.listing] EXCEPT ![o.at] = PointOf(o)]
            \in [Instants -> SnapshotPoint \union {Null}]
    BY <1>2, <1>3
  <1> QED
    BY <1>1, <1>3, <1>4 DEF AppendSnapshot, SnapshotTable, HistoryOf

-----------------------------------------------------------------------------
(* The inductive invariant *)

\* The observation a call that holds the loop is at.
LEMMA CurrentObservation ==
    ASSUME TypeOK, NEW c \in Calls, FrameInv(c), Writing(c)
    PROVE  /\ Current(c) \in Observation
           /\ Current(c).community = ingest[c].community
  <1>1. /\ ingest[c].batch \in Seq(Observation)
        /\ ingest[c].persisted \in Nat
        /\ ingest[c].persisted < Len(ingest[c].batch)
        /\ BelongsTo(ingest[c].batch, ingest[c].community)
    BY DEF TypeOK, Frame, FrameInv
  <1>2. ingest[c].persisted + 1 \in 1 .. Len(ingest[c].batch)
    BY <1>1
  <1> QED
    BY <1>1, <1>2 DEF Current, BelongsTo

LEMMA InitIInv == Init => IInv
  <1> SUFFICES ASSUME Init
               PROVE  IInv
    OBVIOUS
  <1>1. \A c \in Calls : ingest[c] = [pc |-> "idle", community |-> Null,
                                      batch |-> <<>>, persisted |-> 0]
    BY DEF Init
  <1>2. TypeOK
    <2>1. listing \in ListingTable /\ snapshot \in SnapshotTable
      BY DEF Init, EmptyListings, EmptySnapshots, ListingTable, SnapshotTable
    <2>2. [pc |-> "idle", community |-> Null, batch |-> <<>>, persisted |-> 0] \in Frame
      BY DEF Frame
    <2>3. ingest \in [Calls -> Frame]
      BY <2>2 DEF Init
    <2> QED
      BY <2>1, <2>3, CrashesAreBounded DEF Init, TypeOK
  <1>3. \A c \in Calls : ~ Writing(c)
    BY <1>1 DEF Writing
  <1>4. LoopInv
    BY <1>3 DEF LoopInv, LoopIsFree, Init
  <1>5. HistoryInv
    BY DEF Init, HistoryInv, HistoryOf, EmptySnapshots
  <1>6. \A c \in Calls : FrameInv(c)
    BY <1>1 DEF FrameInv, Writing
  <1> QED
    BY <1>2, <1>4, <1>5, <1>6 DEF IInv

\* A frame that a step leaves alone still holds what it knew, if the step left
\* the listing table alone or the frame does not hold the loop.
LEMMA FrameUnchanged ==
    ASSUME NEW c \in Calls, FrameInv(c), ingest'[c] = ingest[c],
           listing' = listing \/ ~ Writing(c)
    PROVE  FrameInv(c)'
  <1>1. CASE listing' = listing
    BY <1>1 DEF FrameInv, Writing, Current, Spans, BelongsTo
  <1>2. CASE ~ Writing(c)
    BY <1>2 DEF FrameInv, Writing, Current, Spans, BelongsTo
  <1> QED
    BY <1>1, <1>2

\* A call that ends knows nothing any more.
LEMMA FrameEnded ==
    ASSUME NEW c \in Calls, ingest'[c].pc \in Ended
    PROVE  FrameInv(c)'
  BY DEF FrameInv, Writing, Ended

\* A step that ends call c, and frees the loop if c held it, keeps IInv.
LEMMA EndKeepsIInv ==
    ASSUME IInv, NEW c \in Calls, NEW outcome \in Ended,
           LoopIsFree \/ Writing(c), End(c, outcome),
           UNCHANGED <<listing, snapshot, crashes>>
    PROVE  IInv'
  <1>1. /\ \A d \in Calls : d # c => ingest'[d] = ingest[d]
        /\ ingest'[c] = [ingest[c] EXCEPT !.pc = outcome]
        /\ ingest'[c].pc = outcome
        /\ ingest' \in [Calls -> Frame]
    BY DEF End, IInv, TypeOK, Frame
  <1>2. TypeOK'
    BY <1>1 DEF End, IInv, TypeOK
  <1>3. LoopInv'
    <2>1. \A d \in Calls : ~ Writing(d)'
      BY <1>1 DEF IInv, LoopInv, LoopIsFree, Writing, Ended
    <2> QED
      BY <2>1 DEF End, LoopInv, LoopIsFree
  <1>4. HistoryInv'
    BY DEF IInv, HistoryInv, HistoryOf, Spans
  <1>5. \A d \in Calls : FrameInv(d)'
    BY <1>1, FrameUnchanged, FrameEnded DEF IInv
  <1> QED
    BY <1>2, <1>3, <1>4, <1>5 DEF IInv

LEMMA CallKeepsIInv ==
    ASSUME IInv, NEW c \in Calls, NEW community \in Communities, Call(c, community)
    PROVE  IInv'
  <1>1. /\ \A d \in Calls : d # c => ingest'[d] = ingest[d]
        /\ ingest'[c] = [ingest[c] EXCEPT !.pc = "fetching", !.community = community]
        /\ ingest' \in [Calls -> Frame]
    BY DEF Call, IInv, TypeOK, Frame, Live
  <1>2. ingest'[c].pc = "fetching" /\ ingest'[c].community = community
    BY <1>1 DEF IInv, TypeOK, Frame
  <1>3. ingest'[c].persisted = 0
    BY <1>1 DEF Call, IInv, TypeOK, Frame, FrameInv
  <1>4. TypeOK'
    BY <1>1 DEF Call, IInv, TypeOK
  <1>5. \A d \in Calls : Writing(d)' <=> Writing(d)
    BY <1>1, <1>2 DEF Call, Writing
  <1>6. LoopInv'
    BY <1>5 DEF Call, IInv, LoopInv, LoopIsFree
  <1>7. HistoryInv'
    BY DEF Call, IInv, HistoryInv, HistoryOf, Spans
  <1>8. FrameInv(c)'
    BY <1>2, <1>3 DEF FrameInv, Writing
  <1>9. \A d \in Calls : d # c => FrameInv(d)'
    BY <1>1, FrameUnchanged DEF Call, IInv
  <1> QED
    BY <1>4, <1>6, <1>7, <1>8, <1>9 DEF IInv

LEMMA FetchAnswersKeepsIInv ==
    ASSUME IInv, NEW c \in Calls, NEW b \in Batches, FetchAnswers(c, b)
    PROVE  IInv'
  <1>1. /\ \A d \in Calls : d # c => ingest'[d] = ingest[d]
        /\ ingest'[c] = [ingest[c] EXCEPT !.pc = "identity", !.batch = b]
        /\ ingest' \in [Calls -> Frame]
    BY DEF FetchAnswers, IInv, TypeOK, Frame, Live
  <1>2. /\ ingest'[c].pc = "identity"
        /\ ingest'[c].batch = b
        /\ ingest'[c].community = ingest[c].community
        /\ ingest'[c].persisted = 0
        /\ ingest[c].community \in Communities
    BY <1>1 DEF FetchAnswers, IInv, TypeOK, Frame, FrameInv
  <1>3. b \in Seq(Observation) /\ 0 < Len(b)
    BY BatchesAreObservations DEF FetchAnswers
  <1>4. [listing |-> listing, snapshot |-> snapshot]
            \in [listing : ListingTable, snapshot : SnapshotTable]
    BY DEF IInv, TypeOK
  <1>5. TypeOK'
    BY <1>1, <1>4 DEF FetchAnswers, IInv, TypeOK
  <1>6. Writing(c)' /\ \A d \in Calls : d # c => ~ Writing(d)'
    BY <1>1, <1>2 DEF FetchAnswers, LoopIsFree, Writing
  <1>7. base' # Null
    BY <1>4, NullIsNoBase DEF FetchAnswers
  <1>8. LoopInv'
    BY <1>6, <1>7 DEF LoopInv, LoopIsFree
  <1>9. HistoryInv'
    BY DEF FetchAnswers, IInv, HistoryInv, HistoryOf, Spans
  <1>10. FrameInv(c)'
    BY <1>2, <1>3 DEF FetchAnswers, FrameInv, Writing, BelongsTo
  <1>11. \A d \in Calls : d # c => FrameInv(d)'
    BY <1>1, FrameUnchanged DEF FetchAnswers, IInv
  <1> QED
    BY <1>5, <1>8, <1>9, <1>10, <1>11 DEF IInv

LEMMA WriteIdentityKeepsIInv ==
    ASSUME IInv, NEW c \in Calls, WriteIdentity(c)
    PROVE  IInv'
  <1> DEFINE o == Current(c)
  <1>1. /\ \A d \in Calls : d # c => ingest'[d] = ingest[d]
        /\ ingest'[c] = [ingest[c] EXCEPT !.pc = "snapshot"]
        /\ ingest' \in [Calls -> Frame]
    BY DEF WriteIdentity, IInv, TypeOK, Frame, Live
  <1>2. /\ ingest'[c].pc = "snapshot"
        /\ ingest'[c].batch = ingest[c].batch
        /\ ingest'[c].community = ingest[c].community
        /\ ingest'[c].persisted = ingest[c].persisted
    BY <1>1 DEF IInv, TypeOK, Frame
  <1>3. Writing(c)
    BY DEF WriteIdentity, Writing
  <1>4. o \in Observation /\ o.community = ingest[c].community /\ o' = o
    BY <1>2, <1>3, CurrentObservation DEF IInv, Current
  <1>5. listing' = UpsertListing(listing, o) /\ listing \in ListingTable
    BY DEF WriteIdentity, IInv, TypeOK
  <1>6. /\ listing' \in ListingTable
        /\ listing'[o.listing].community = o.community
        /\ Spans(listing', o.listing, o.at)
        /\ \A l \in ListingIds, i \in Instants :
               Spans(listing, l, i) => Spans(listing', l, i)
    BY <1>4, <1>5, UpsertKeepsSpans
  <1>7. TypeOK'
    BY <1>1, <1>6 DEF WriteIdentity, IInv, TypeOK
  <1>8. \A d \in Calls : Writing(d)' <=> Writing(d)
    BY <1>1, <1>2, <1>3 DEF Writing
  <1>9. LoopInv'
    BY <1>8 DEF WriteIdentity, IInv, LoopInv, LoopIsFree
  <1>10. HistoryInv'
    BY <1>6 DEF WriteIdentity, IInv, HistoryInv, HistoryOf
  <1>11. FrameInv(c)'
    BY <1>2, <1>3, <1>4, <1>6 DEF IInv, FrameInv, Writing, BelongsTo, Spans
  <1>12. \A d \in Calls : d # c => ~ Writing(d)
    BY <1>3 DEF IInv, LoopInv
  <1>13. \A d \in Calls : d # c => FrameInv(d)'
    BY <1>1, <1>12, FrameUnchanged DEF IInv
  <1> QED
    BY <1>7, <1>9, <1>10, <1>11, <1>13 DEF IInv

LEMMA WriteSnapshotKeepsIInv ==
    ASSUME IInv, NEW c \in Calls, WriteSnapshot(c)
    PROVE  IInv'
  <1> DEFINE o == Current(c)
             persisted == ingest[c].persisted + 1
             last == persisted = Len(ingest[c].batch)
  <1>1. /\ \A d \in Calls : d # c => ingest'[d] = ingest[d]
        /\ ingest'[c] = [ingest[c] EXCEPT !.pc = IF last THEN "done" ELSE "identity",
                                          !.persisted = persisted]
        /\ ingest' \in [Calls -> Frame]
    BY DEF WriteSnapshot, IInv, TypeOK, Frame, Live, Ended, Advance
  <1>2. /\ ingest'[c].pc = IF last THEN "done" ELSE "identity"
        /\ ingest'[c].batch = ingest[c].batch
        /\ ingest'[c].community = ingest[c].community
        /\ ingest'[c].persisted = persisted
    BY <1>1 DEF IInv, TypeOK, Frame
  <1>3. Writing(c) /\ ingest[c].pc = "snapshot"
    BY DEF WriteSnapshot, Writing
  <1>4. o \in Observation
    BY <1>3, CurrentObservation DEF IInv
  <1>5. snapshot' = AppendSnapshot(snapshot, o) /\ snapshot \in SnapshotTable
    BY DEF WriteSnapshot, IInv, TypeOK
  <1>6. /\ snapshot' \in SnapshotTable
        /\ \A l \in ListingIds : \A i \in HistoryOf(snapshot', l) :
               i \in HistoryOf(snapshot, l) \/ (l = o.listing /\ i = o.at)
    BY <1>4, <1>5, AppendAddsOnePoint
  <1>7. TypeOK'
    BY <1>1, <1>6 DEF WriteSnapshot, IInv, TypeOK
  <1>8. \A d \in Calls : d # c => ~ Writing(d) /\ ~ Writing(d)'
    BY <1>1, <1>3 DEF IInv, LoopInv, Writing
  <1>9. Writing(c)' <=> ~ last
    BY <1>2 DEF Writing
  <1>10. LoopInv'
    BY <1>3, <1>8, <1>9 DEF WriteSnapshot, Advance, IInv, LoopInv, LoopIsFree
  <1>11. Spans(listing, o.listing, o.at)
    BY <1>3 DEF IInv, FrameInv
  <1>12. HistoryInv'
    BY <1>6, <1>11 DEF WriteSnapshot, IInv, HistoryInv, Spans, HistoryOf
  <1>13. FrameInv(c)'
    <2>1. CASE last
      BY <1>2, <2>1, FrameEnded DEF Ended
    <2>2. CASE ~ last
      <3>1. /\ ingest[c].batch \in Seq(Observation)
            /\ ingest[c].persisted \in Nat
            /\ ingest[c].persisted < Len(ingest[c].batch)
            /\ ingest[c].community \in Communities
            /\ BelongsTo(ingest[c].batch, ingest[c].community)
        BY <1>3 DEF IInv, TypeOK, Frame, FrameInv
      <3>2. persisted < Len(ingest[c].batch)
        BY <2>2, <3>1
      <3> QED
        BY <1>2, <2>2, <3>1, <3>2 DEF FrameInv, BelongsTo
    <2> QED
      BY <2>1, <2>2
  <1>14. \A d \in Calls : d # c => FrameInv(d)'
    BY <1>1, FrameUnchanged DEF WriteSnapshot, IInv
  <1> QED
    BY <1>7, <1>10, <1>12, <1>13, <1>14 DEF IInv

LEMMA CrashKeepsIInv ==
    ASSUME IInv, Crash
    PROVE  IInv'
  <1>1. \A c \in Calls : ingest'[c] = IF ingest[c].pc \in Live
                                       THEN [ingest[c] EXCEPT !.pc = "lost"]
                                       ELSE ingest[c]
    BY DEF Crash
  <1>2. ingest' \in [Calls -> Frame]
    <2>1. ASSUME NEW c \in Calls
          PROVE  ingest'[c] \in Frame
      <3>1. ingest[c] \in Frame
        BY DEF IInv, TypeOK
      <3>2. [ingest[c] EXCEPT !.pc = "lost"] \in Frame
        BY <3>1 DEF Frame, Ended
      <3> QED
        BY <1>1, <3>1, <3>2
    <2>2. DOMAIN ingest' = Calls /\ ingest' = [c \in Calls |-> ingest'[c]]
      BY DEF Crash
    <2> QED
      BY <2>1, <2>2
  <1>3. \A c \in Calls : ingest[c].pc \in Live => ingest'[c].pc = "lost"
    BY <1>1 DEF IInv, TypeOK, Frame
  <1>4. TypeOK'
    BY <1>2, CrashesAreBounded DEF Crash, IInv, TypeOK
  <1>5. \A c \in Calls : ~ Writing(c)'
    BY <1>1, <1>3 DEF Writing, Live
  <1>6. LoopInv'
    BY <1>5 DEF Crash, LoopInv, LoopIsFree
  <1>7. HistoryInv'
    BY DEF Crash, IInv, HistoryInv, HistoryOf, Spans
  <1>8. \A c \in Calls : FrameInv(c)'
    <2> SUFFICES ASSUME NEW c \in Calls
                 PROVE  FrameInv(c)'
      OBVIOUS
    <2>1. CASE ingest[c].pc \in Live
      BY <1>3, <2>1, FrameEnded DEF Ended
    <2>2. CASE ingest[c].pc \notin Live
      BY <1>1, <2>2, FrameUnchanged DEF Crash, IInv
    <2> QED
      BY <2>1, <2>2
  <1> QED
    BY <1>4, <1>6, <1>7, <1>8 DEF IInv

LEMMA NextKeepsIInv == IInv /\ [Next]_vars => IInv'
  <1> SUFFICES ASSUME IInv, [Next]_vars
               PROVE  IInv'
    OBVIOUS
  <1>1. ASSUME NEW c \in Calls, NEW community \in Communities, Call(c, community)
        PROVE  IInv'
    BY <1>1, CallKeepsIInv
  <1>2. ASSUME NEW c \in Calls, FetchFails(c)
        PROVE  IInv'
    BY <1>2, EndKeepsIInv DEF FetchFails, Ended
  <1>3. ASSUME NEW c \in Calls, FetchAnswersEmpty(c)
        PROVE  IInv'
    BY <1>3, EndKeepsIInv DEF FetchAnswersEmpty, Ended
  <1>4. ASSUME NEW c \in Calls, NEW b \in Batches, FetchAnswersForeign(c, b)
        PROVE  IInv'
    BY <1>4, EndKeepsIInv DEF FetchAnswersForeign, Ended
  <1>5. ASSUME NEW c \in Calls, NEW b \in Batches, FetchAnswers(c, b)
        PROVE  IInv'
    BY <1>5, FetchAnswersKeepsIInv
  <1>6. ASSUME NEW c \in Calls, Cancel(c)
        PROVE  IInv'
    BY <1>6, EndKeepsIInv DEF Cancel, Ended
  <1>7. ASSUME NEW c \in Calls, WriteIdentity(c)
        PROVE  IInv'
    BY <1>7, WriteIdentityKeepsIInv
  <1>8. ASSUME NEW c \in Calls, WriteSnapshot(c)
        PROVE  IInv'
    BY <1>8, WriteSnapshotKeepsIInv
  <1>9. ASSUME NEW c \in Calls, StatementRaises(c)
        PROVE  IInv'
    BY <1>9, EndKeepsIInv DEF StatementRaises, Ended
  <1>10. CASE Crash
    BY <1>10, CrashKeepsIInv
  <1>11. CASE UNCHANGED vars
    BY <1>11 DEF vars, IInv, TypeOK, LoopInv, LoopIsFree, HistoryInv, HistoryOf,
                 FrameInv, Writing, Current, Spans, BelongsTo
  <1> QED
    BY <1>1, <1>2, <1>3, <1>4, <1>5, <1>6, <1>7, <1>8, <1>9, <1>10, <1>11
       DEF Next, Answer, Persist

LEMMA IInvHolds == Spec => []IInv
  BY InitIInv, NextKeepsIInv, PTL DEF Spec

-----------------------------------------------------------------------------
(* The theorems *)

\* Both tables and every frame hold values of their types in every reachable
\* state: no sequence of calls, raises and crashes gets a column out of place.
THEOREM TypeCorrect == Spec => []TypeOK
  <1>1. IInv => TypeOK
    BY DEF IInv
  <1> QED
    BY <1>1, IInvHolds, PTL

\* No history row without its identity, although the schema has no foreign key
\* and the two statements of ingest are committed separately.
THEOREM HistoryHasIdentity == Spec => []SnapshotsHaveIdentity
  <1>1. IInv => SnapshotsHaveIdentity
    BY DEF IInv, HistoryInv, Spans, SnapshotsHaveIdentity
  <1> QED
    BY <1>1, IInvHolds, PTL

\* The folded seen range of upsert_listing spans every stored snapshot.
THEOREM SeenRangeSpans == Spec => []SeenRangeSpansHistory
  <1>1. IInv => SeenRangeSpansHistory
    BY DEF IInv, HistoryInv, Spans, SeenRangeSpansHistory
  <1> QED
    BY <1>1, IInvHolds, PTL

\* _require_requested_community covers the batch: no step of a call touches a
\* row or a history that it does not leave with the community it asked for.
THEOREM WritesStayInSubject == Spec => WritesOnlySubject
  <1> DEFINE Step ==
          \A l \in ListingIds :
              listing'[l] # listing[l] \/ snapshot'[l] # snapshot[l] =>
                  \E c \in Calls : /\ Writing(c)
                                   /\ listing'[l].community = ingest[c].community
  <1>1. IInv /\ [Next]_vars => [Step]_vars
    <2> SUFFICES ASSUME IInv, Next
                 PROVE  Step
      BY DEF vars
    <2>1. ASSUME NEW c \in Calls, WriteIdentity(c)
          PROVE  Step
      <3>1. Writing(c)
        BY <2>1 DEF WriteIdentity, Writing
      <3>2. Current(c) \in Observation /\ Current(c).community = ingest[c].community
        BY <3>1, CurrentObservation DEF IInv
      <3>3. listing' = UpsertListing(listing, Current(c)) /\ UNCHANGED snapshot
        BY <2>1 DEF WriteIdentity
      <3>4. /\ listing'[Current(c).listing].community = Current(c).community
            /\ \A l \in ListingIds : l # Current(c).listing => listing'[l] = listing[l]
        BY <3>2, <3>3, UpsertKeepsSpans DEF IInv, TypeOK
      <3> QED
        BY <3>1, <3>2, <3>3, <3>4
    <2>2. ASSUME NEW c \in Calls, WriteSnapshot(c)
          PROVE  Step
      <3>1. Writing(c) /\ ingest[c].pc = "snapshot"
        BY <2>2 DEF WriteSnapshot, Writing
      <3>2. Current(c) \in Observation
        BY <3>1, CurrentObservation DEF IInv
      <3>3. snapshot' = AppendSnapshot(snapshot, Current(c)) /\ UNCHANGED listing
        BY <2>2 DEF WriteSnapshot
      <3>4. \A l \in ListingIds : l # Current(c).listing => snapshot'[l] = snapshot[l]
        BY <3>2, <3>3, AppendAddsOnePoint DEF IInv, TypeOK
      <3>5. listing[Current(c).listing].community = ingest[c].community
        BY <3>1 DEF IInv, FrameInv
      <3> QED
        BY <3>1, <3>3, <3>4, <3>5
    <2>3. CASE UNCHANGED tables
      BY <2>3 DEF tables
    <2> QED
      BY <2>1, <2>2, <2>3
         DEF Next, Answer, Persist, Call, FetchFails, FetchAnswersEmpty, tables,
             FetchAnswersForeign, FetchAnswers, Cancel, StatementRaises, Crash
  <1> QED
    BY <1>1, IInvHolds, PTL DEF Spec, WritesOnlySubject

-----------------------------------------------------------------------------
(* Runs of a batch, statement by statement *)

\* Every set of numbers that is not empty has a least member.
LEMMA LeastNatural ==
    ASSUME NEW S \in SUBSET Nat, S # {}
    PROVE  \E m \in S : \A n \in S : m <= n
  <1> DEFINE less == {p \in Nat \X Nat : p[1] < p[2]}
  <1>1. IsWellFoundedOn(less, Nat)
    BY NatLessThanWellFounded, Zenon DEF OpToRel
  <1> HIDE DEF less
  <1>2. PICK m \in S : \A n \in S : ~ (<<n, m>> \in less)
    BY <1>1, WFMin, Zenon
  <1>3. \A n \in S : ~ (n < m)
    BY <1>2 DEF less
  <1> QED
    BY <1>3

\* The tables of Persisted follow one another by Execute: the recursion of its
\* definition has a solution.
LEMMA PersistedSteps ==
    ASSUME NEW t, NEW h, NEW b, StatementCount(b) \in Nat
    PROVE  /\ Persisted(t, h, b)[0] = [listing |-> t, snapshot |-> h, raised |-> FALSE]
           /\ \A k \in 1 .. StatementCount(b) :
                 Persisted(t, h, b)[k] = Execute(Persisted(t, h, b)[k - 1], b, k)
  <1> DEFINE n == StatementCount(b)
             start == [listing |-> t, snapshot |-> h, raised |-> FALSE]
             After(g, k) == IF k = 0 THEN start ELSE Execute(g[k - 1], b, k)
             Runs(g, m) == g = [k \in 0 .. m |-> After(g, k)]
             stuck == {m \in 0 .. n : ~ \E g : Runs(g, m)}
  <1> HIDE DEF start, n
  <1>1. n \in Nat
    BY DEF n
  <1>2. stuck = {}
    <2> SUFFICES ASSUME stuck # {}
                 PROVE  FALSE
      OBVIOUS
    <2>1. stuck \in SUBSET Nat
      BY <1>1
    <2>2. PICK m \in stuck : \A j \in stuck : m <= j
      <3> HIDE DEF stuck
      <3> QED
        BY <2>1, LeastNatural
    <2>3. m \in 0 .. n /\ ~ \E g : Runs(g, m)
      OBVIOUS
    <2>4. CASE m = 0
      <3>1. Runs([k \in 0 .. 0 |-> start], 0)
        BY SMT
      <3> QED
        BY <2>3, <2>4, <3>1
    <2>5. CASE m # 0
      <3>1. m - 1 \in 0 .. n /\ m - 1 \notin stuck
        <4>1. m - 1 \in 0 .. n /\ ~ (m <= m - 1)
          BY <1>1, <2>3, <2>5
        <4> HIDE DEF stuck
        <4> QED
          BY <2>2, <4>1
      <3>2. PICK g : Runs(g, m - 1)
        BY <3>1
      <3> DEFINE f == [k \in 0 .. m |-> IF k = m THEN Execute(g[m - 1], b, m) ELSE g[k]]
      <3>3. \A k \in 0 .. m - 1 : f[k] = g[k]
        BY <2>3, <2>5, <1>1
      <3>4. \A k \in 0 .. m - 1 : g[k] = After(g, k)
        BY <3>2, Zenon
      <3>5. ASSUME NEW k \in 0 .. m
            PROVE  f[k] = After(f, k)
        <4>1. CASE k = m
          <5>1. f[m] = Execute(g[m - 1], b, m) /\ f[m - 1] = g[m - 1]
            BY <2>3, <2>5, <3>3, <1>1
          <5> QED
            BY <2>5, <4>1, <5>1
        <4>2. CASE k # m
          <5>1. k \in 0 .. m - 1
            BY <1>1, <2>3, <4>2
          <5>2. k # 0 => f[k - 1] = g[k - 1]
            BY <1>1, <2>3, <5>1, <3>3
          <5>3. f[k] = After(g, k)
            BY <3>3, <3>4, <5>1
          <5> HIDE DEF f
          <5> QED
            BY <5>2, <5>3
        <4> QED
          BY <4>1, <4>2
      <3>6. f = [k \in 0 .. m |-> f[k]]
        OBVIOUS
      <3>7. Runs(f, m)
        <4> HIDE DEF f
        <4> QED
          BY <3>5, <3>6, Zenon
      <3> QED
        BY <2>3, <3>7
    <2> QED
      BY <2>4, <2>5
  <1>3. \E g : Runs(g, n)
    BY <1>1, <1>2
  <1>4. Runs(Persisted(t, h, b), n)
    <2>1. Persisted(t, h, b) = CHOOSE g : Runs(g, n)
      BY Zenon DEF Persisted, n, start
    <2> QED
      BY <1>3, <2>1, Zenon
  <1>5. \A k \in 0 .. n : Persisted(t, h, b)[k] = After(Persisted(t, h, b), k)
    BY <1>4, Zenon
  <1>6. 0 \in 0 .. n /\ \A k \in 1 .. n : k \in 0 .. n /\ k # 0
    BY <1>1
  <1>7. Persisted(t, h, b)[0] = start
    BY <1>5, <1>6, Zenon
  <1>8. \A k \in 1 .. n : Persisted(t, h, b)[k] = Execute(Persisted(t, h, b)[k - 1], b, k)
    BY <1>5, <1>6, Zenon
  <1> QED
    BY <1>7, <1>8, Zenon DEF start, n

\* The same, as a formula whose instances the provers find.
LEMMA PersistedStep ==
    \A t, h, b : StatementCount(b) \in Nat =>
        \A k \in 1 .. StatementCount(b) :
            Persisted(t, h, b)[k] = Execute(Persisted(t, h, b)[k - 1], b, k)
  BY PersistedSteps

\* The two statements of the observation a loop is at.
LEMMA StatementsOfObservation ==
    ASSUME NEW b \in Seq(Observation), NEW p \in Nat, p < Len(b)
    PROVE  /\ StatementCount(b) \in Nat
           /\ 2 * p + 1 \in 1 .. StatementCount(b)
           /\ 2 * p + 2 \in 1 .. StatementCount(b)
           /\ ObservationOf(b, 2 * p + 1) = b[p + 1]
           /\ ObservationOf(b, 2 * p + 2) = b[p + 1]
           /\ IsIdentityStatement(2 * p + 1)
           /\ ~ IsIdentityStatement(2 * p + 2)
  <1>1. Len(b) \in Nat
    OBVIOUS
  <1>2. (2 * p + 1 + 1) \div 2 = p + 1 /\ (2 * p + 2 + 1) \div 2 = p + 1
    OBVIOUS
  <1>3. (2 * p + 1) % 2 = 1 /\ (2 * p + 2) % 2 = 0
    OBVIOUS
  <1> QED
    BY <1>1, <1>2, <1>3 DEF StatementCount, ObservationOf, IsIdentityStatement

\* Induction over an interval that starts at 0.
LEMMA IntervalInduction ==
    ASSUME NEW n \in Nat, NEW S, 0 \in S,
           \A k \in 1 .. n : k - 1 \in S => k \in S
    PROVE  \A k \in 0 .. n : k \in S
  <1> DEFINE out == {k \in 0 .. n : k \notin S}
  <1> SUFFICES ASSUME out # {}
               PROVE  FALSE
    OBVIOUS
  <1>1. out \in SUBSET Nat
    OBVIOUS
  <1>2. PICK m \in out : \A j \in out : m <= j
    <2> HIDE DEF out
    <2> QED
      BY <1>1, LeastNatural
  <1>3. m \in 1 .. n /\ m - 1 \in 0 .. n /\ ~ (m <= m - 1)
    OBVIOUS
  <1>4. m - 1 \notin out
    <2> HIDE DEF out
    <2> QED
      BY <1>2, <1>3
  <1> QED
    BY <1>3, <1>4

-----------------------------------------------------------------------------
(* The refinement of BatchIngestion *)

\* Every call that was made asks for one community.
SubjectInv ==
    \A c \in Calls : IF ingest[c].pc = "idle" THEN ingest[c].community = Null
                     ELSE ingest[c].community \in Communities

\* The statements a call that holds the loop has executed.
Executed(c) ==
    2 * ingest[c].persisted + IF ingest[c].pc = "snapshot" THEN 1 ELSE 0

\* The tables are those its batch leaves after that many statements, from the
\* tables the loop was taken with.
Prefix(c) ==
    /\ base \in [listing : ListingTable, snapshot : SnapshotTable]
    /\ ingest[c].batch \in Batches
    /\ Persisted(base.listing, base.snapshot, ingest[c].batch)[Executed(c)]
           = [listing |-> listing, snapshot |-> snapshot, raised |-> FALSE]

PrefixInv == \A c \in Calls : Writing(c) => Prefix(c)

RInv == IInv /\ SubjectInv /\ PrefixInv

\* Nobody has the loop yet, and nobody has asked for a community.
LEMMA InitRInv == Init => RInv
  <1> SUFFICES ASSUME Init
               PROVE  RInv
    OBVIOUS
  <1>1. \A c \in Calls : ingest[c] = [pc |-> "idle", community |-> Null,
                                      batch |-> <<>>, persisted |-> 0]
    BY DEF Init
  <1>2. SubjectInv /\ PrefixInv
    BY <1>1 DEF SubjectInv, PrefixInv, Writing
  <1> QED
    BY <1>2, InitIInv DEF RInv

\* No call holds the loop, before or after: what an answer that fails, a
\* cancellation, a raise and a crash leave behind.
LEMMA FreeLoopKeepsPrefix ==
    ASSUME \A c \in Calls : ~ Writing(c)'
    PROVE  PrefixInv'
  BY DEF PrefixInv

\* A step that ends call c.
LEMMA EndKeepsRInv ==
    ASSUME RInv, IInv', NEW c \in Calls, NEW outcome \in Ended,
           LoopIsFree \/ Writing(c), ingest[c].pc # "idle", End(c, outcome)
    PROVE  RInv'
  <1>1. /\ \A d \in Calls : d # c => ingest'[d] = ingest[d]
        /\ ingest'[c].pc = outcome /\ ingest'[c].community = ingest[c].community
    BY DEF End, RInv, IInv, TypeOK, Frame
  <1>2. SubjectInv'
    BY <1>1 DEF RInv, SubjectInv, Ended
  <1>3. \A d \in Calls : ~ Writing(d)'
    BY <1>1 DEF RInv, IInv, LoopInv, LoopIsFree, Writing, Ended
  <1> QED
    BY <1>2, <1>3, FreeLoopKeepsPrefix DEF RInv

\* A step of one frame that takes or keeps the loop.
LEMMA CallKeepsRInv ==
    ASSUME RInv, IInv', NEW c \in Calls, NEW community \in Communities,
           Call(c, community)
    PROVE  RInv'
  <1>1. /\ \A d \in Calls : d # c => ingest'[d] = ingest[d]
        /\ ingest'[c].pc = "fetching" /\ ingest'[c].community = community
    BY DEF Call, RInv, IInv, TypeOK, Frame
  <1>2. SubjectInv'
    BY <1>1 DEF RInv, SubjectInv
  <1>3. \A d \in Calls : ~ Writing(d)'
    BY <1>1 DEF Call, LoopIsFree, Writing
  <1> QED
    BY <1>2, <1>3, FreeLoopKeepsPrefix DEF RInv

\* The loop is taken with the tables as they are: no statement yet.
LEMMA FetchAnswersKeepsRInv ==
    ASSUME RInv, IInv', NEW c \in Calls, NEW b \in Batches, FetchAnswers(c, b)
    PROVE  RInv'
  <1>1. /\ \A d \in Calls : d # c => ingest'[d] = ingest[d]
        /\ ingest'[c].pc = "identity" /\ ingest'[c].batch = b
        /\ ingest'[c].community = ingest[c].community
        /\ ingest'[c].persisted = 0
    BY DEF FetchAnswers, RInv, IInv, TypeOK, Frame, FrameInv
  <1>2. SubjectInv'
    BY <1>1 DEF FetchAnswers, RInv, SubjectInv
  <1>3. \A d \in Calls : d # c => ~ Writing(d)'
    BY <1>1 DEF FetchAnswers, LoopIsFree, Writing
  <1>4. Executed(c)' = 0
    BY <1>1 DEF Executed
  <1>5. StatementCount(b) \in Nat
    BY BatchesAreObservations DEF StatementCount
  <1>6. /\ base'.listing = listing /\ base'.snapshot = snapshot
        /\ listing' = listing /\ snapshot' = snapshot
        /\ base' \in [listing : ListingTable, snapshot : SnapshotTable]
    BY DEF FetchAnswers, RInv, IInv, TypeOK
  <1>7. Persisted(listing, snapshot, b)[0]
            = [listing |-> listing, snapshot |-> snapshot, raised |-> FALSE]
    BY <1>5, PersistedSteps
  <1>8. Prefix(c)'
    BY <1>1, <1>4, <1>6, <1>7 DEF Prefix
  <1> QED
    BY <1>2, <1>3, <1>8 DEF RInv, PrefixInv

\* The next statement of a call that holds the loop, and where it leads.
LEMMA NextStatement ==
    ASSUME RInv, NEW c \in Calls, Writing(c)
    PROVE  LET b == ingest[c].batch
               k == Executed(c) + 1
               s == [listing |-> listing, snapshot |-> snapshot, raised |-> FALSE]
           IN  /\ b \in Batches /\ b \in Seq(Observation)
               /\ StatementCount(b) \in Nat
               /\ k \in 1 .. StatementCount(b)
               /\ ObservationOf(b, k) = Current(c)
               /\ IsIdentityStatement(k) <=> ingest[c].pc = "identity"
               /\ Persisted(base.listing, base.snapshot, b)[k - 1] = s
               /\ Persisted(base.listing, base.snapshot, b)[k] = Execute(s, b, k)
  <1> DEFINE b == ingest[c].batch
             p == ingest[c].persisted
             k == Executed(c) + 1
  <1>1. b \in Batches /\ b \in Seq(Observation) /\ p \in Nat /\ p < Len(b)
    BY DEF RInv, PrefixInv, Prefix, IInv, TypeOK, Frame, FrameInv
  <1>2. k = IF ingest[c].pc = "snapshot" THEN 2 * p + 2 ELSE 2 * p + 1
    BY <1>1 DEF Executed
  <1>3. /\ StatementCount(b) \in Nat
        /\ k \in 1 .. StatementCount(b)
        /\ ObservationOf(b, k) = Current(c)
        /\ IsIdentityStatement(k) <=> ingest[c].pc = "identity"
    BY <1>1, <1>2, StatementsOfObservation DEF Writing, Current
  <1>4. Persisted(base.listing, base.snapshot, b)[Executed(c)]
            = [listing |-> listing, snapshot |-> snapshot, raised |-> FALSE]
    BY DEF RInv, PrefixInv, Prefix
  <1>5. Executed(c) = k - 1
    BY <1>1 DEF Executed
  <1>6. Persisted(base.listing, base.snapshot, b)[k]
            = Execute(Persisted(base.listing, base.snapshot, b)[k - 1], b, k)
    <2>1. StatementCount(b) \in Nat /\ k \in 1 .. StatementCount(b)
      BY <1>3
    <2> HIDE DEF k
    <2> QED
      BY ONLY <2>1, PersistedStep
  <1> QED
    BY <1>1, <1>3, <1>4, <1>5, <1>6

\* The identity of the current observation is the next statement.
LEMMA WriteIdentityKeepsRInv ==
    ASSUME RInv, IInv', NEW c \in Calls, WriteIdentity(c)
    PROVE  RInv'
  <1> DEFINE b == ingest[c].batch
             k == Executed(c) + 1
             s == [listing |-> listing, snapshot |-> snapshot, raised |-> FALSE]
  <1>1. /\ \A d \in Calls : d # c => ingest'[d] = ingest[d]
        /\ ingest'[c].pc = "snapshot" /\ ingest'[c].batch = b
        /\ ingest'[c].community = ingest[c].community
        /\ ingest'[c].persisted = ingest[c].persisted
        /\ ingest[c].persisted \in Nat
    BY DEF WriteIdentity, RInv, IInv, TypeOK, Frame
  <1>2. SubjectInv'
    BY <1>1 DEF WriteIdentity, RInv, SubjectInv
  <1>3. Writing(c) /\ ingest[c].pc = "identity"
    BY DEF WriteIdentity, Writing
  <1>4. \A d \in Calls : d # c => ~ Writing(d)'
    BY <1>1, <1>3 DEF RInv, IInv, LoopInv, Writing
  <1>5. Executed(c)' = k
    BY <1>1, <1>3 DEF Executed
  <1>6. /\ Persisted(base.listing, base.snapshot, b)[k] = Execute(s, b, k)
        /\ ObservationOf(b, k) = Current(c) /\ IsIdentityStatement(k)
        /\ b \in Batches
    BY <1>3, NextStatement
  <1>7. Execute(s, b, k)
            = [listing |-> listing', snapshot |-> snapshot', raised |-> FALSE]
    BY <1>6 DEF Execute, WriteIdentity
  <1>8. base' = base /\ base \in [listing : ListingTable, snapshot : SnapshotTable]
    BY <1>3 DEF WriteIdentity, RInv, PrefixInv, Prefix
  <1>9. Prefix(c)'
    BY <1>1, <1>5, <1>6, <1>7, <1>8 DEF Prefix
  <1> QED
    BY <1>2, <1>4, <1>9 DEF RInv, PrefixInv

\* Where the snapshot of the current observation leads.
LEMMA SnapshotStatement ==
    ASSUME RInv, NEW c \in Calls, WriteSnapshot(c)
    PROVE  /\ Persisted(base.listing, base.snapshot, ingest[c].batch)[Executed(c) + 1]
                  = [listing |-> listing', snapshot |-> snapshot', raised |-> FALSE]
           /\ Executed(c) + 1 = 2 * (ingest[c].persisted + 1)
           /\ ingest[c].persisted + 1 \in 1 .. Len(ingest[c].batch)
  <1>1. Writing(c) /\ ingest[c].pc = "snapshot"
    BY DEF WriteSnapshot, Writing
  <1>2. /\ ingest[c].persisted \in Nat
        /\ ingest[c].persisted < Len(ingest[c].batch)
        /\ ingest[c].batch \in Seq(Observation)
    BY <1>1 DEF RInv, IInv, TypeOK, Frame, FrameInv
  <1>3. ~ IsIdentityStatement(Executed(c) + 1)
    BY <1>1, NextStatement
  <1>4. ObservationOf(ingest[c].batch, Executed(c) + 1) = Current(c)
    BY <1>1, NextStatement
  <1>5. Execute([listing |-> listing, snapshot |-> snapshot, raised |-> FALSE],
                ingest[c].batch, Executed(c) + 1)
            = [listing |-> listing', snapshot |-> snapshot', raised |-> FALSE]
    BY <1>3, <1>4 DEF Execute, WriteSnapshot
  <1>6. Persisted(base.listing, base.snapshot, ingest[c].batch)[Executed(c) + 1]
            = Execute([listing |-> listing, snapshot |-> snapshot, raised |-> FALSE],
                      ingest[c].batch, Executed(c) + 1)
    BY <1>1, NextStatement, Zenon
  <1>7. /\ Executed(c) + 1 = 2 * (ingest[c].persisted + 1)
        /\ ingest[c].persisted + 1 \in 1 .. Len(ingest[c].batch)
    BY <1>1, <1>2 DEF Executed
  <1> QED
    BY <1>5, <1>6, <1>7, Zenon

\* Its snapshot is the one after; after the last, the loop is free.
LEMMA WriteSnapshotKeepsRInv ==
    ASSUME RInv, IInv', NEW c \in Calls, WriteSnapshot(c)
    PROVE  RInv'
  <1> DEFINE b == ingest[c].batch
             persisted == ingest[c].persisted + 1
             last == persisted = Len(b)
  <1>1. /\ \A d \in Calls : d # c => ingest'[d] = ingest[d]
        /\ ingest'[c].pc = IF last THEN "done" ELSE "identity"
        /\ ingest'[c].batch = b
        /\ ingest'[c].community = ingest[c].community
        /\ ingest'[c].persisted = persisted
        /\ ingest[c].persisted \in Nat
        /\ base' = IF last THEN Null ELSE base
    BY DEF WriteSnapshot, Advance, RInv, IInv, TypeOK, Frame
  <1>2. SubjectInv'
    <2>1. ingest[c].pc = "snapshot" /\ ingest'[c].pc # "idle"
      BY <1>1 DEF WriteSnapshot
    <2> HIDE DEF last, persisted
    <2> QED
      BY <1>1, <2>1 DEF RInv, SubjectInv
  <1>3. Writing(c) /\ ingest[c].pc = "snapshot"
    BY DEF WriteSnapshot, Writing
  <1>4. \A d \in Calls : d # c => ~ Writing(d)'
    BY <1>1, <1>3 DEF RInv, IInv, LoopInv, Writing
  <1>5. ~ last => Executed(c)' = Executed(c) + 1
    BY <1>1, <1>3 DEF Executed
  <1>6. base \in [listing : ListingTable, snapshot : SnapshotTable] /\ b \in Batches
    BY <1>3 DEF RInv, PrefixInv, Prefix
  <1>7. ~ last => Prefix(c)'
    BY <1>1, <1>5, <1>6, SnapshotStatement DEF Prefix
  <1>8. last => ~ Writing(c)'
    BY <1>1 DEF Writing
  <1> QED
    BY <1>2, <1>4, <1>7, <1>8 DEF RInv, PrefixInv

\* A crash leaves no call that holds the loop.
LEMMA CrashKeepsRInv ==
    ASSUME RInv, IInv', Crash
    PROVE  RInv'
  <1>1. \A c \in Calls : ingest'[c] = IF ingest[c].pc \in Live
                                       THEN [ingest[c] EXCEPT !.pc = "lost"]
                                       ELSE ingest[c]
    BY DEF Crash
  <1>2. \A c \in Calls : /\ ingest'[c].community = ingest[c].community
                        /\ ingest'[c].pc = IF ingest[c].pc \in Live THEN "lost"
                                           ELSE ingest[c].pc
    BY <1>1 DEF RInv, IInv, TypeOK, Frame
  <1>3. SubjectInv'
    BY <1>2 DEF RInv, SubjectInv, Live
  <1>4. \A c \in Calls : ~ Writing(c)'
    BY <1>2 DEF Writing, Live
  <1> QED
    BY <1>3, <1>4, FreeLoopKeepsPrefix DEF RInv

LEMMA NextKeepsRInv == RInv /\ [Next]_vars => RInv'
  <1> SUFFICES ASSUME RInv, [Next]_vars
               PROVE  RInv'
    OBVIOUS
  <1>1. IInv'
    BY NextKeepsIInv DEF RInv
  <1>2. ASSUME NEW c \in Calls, NEW community \in Communities, Call(c, community)
        PROVE  RInv'
    BY <1>1, <1>2, CallKeepsRInv
  <1>3. ASSUME NEW c \in Calls, FetchFails(c)
        PROVE  RInv'
    BY <1>1, <1>3, EndKeepsRInv DEF FetchFails, Ended
  <1>4. ASSUME NEW c \in Calls, FetchAnswersEmpty(c)
        PROVE  RInv'
    BY <1>1, <1>4, EndKeepsRInv DEF FetchAnswersEmpty, Ended
  <1>5. ASSUME NEW c \in Calls, NEW b \in Batches, FetchAnswersForeign(c, b)
        PROVE  RInv'
    BY <1>1, <1>5, EndKeepsRInv DEF FetchAnswersForeign, Ended
  <1>6. ASSUME NEW c \in Calls, NEW b \in Batches, FetchAnswers(c, b)
        PROVE  RInv'
    BY <1>1, <1>6, FetchAnswersKeepsRInv
  <1>7. ASSUME NEW c \in Calls, Cancel(c)
        PROVE  RInv'
    BY <1>1, <1>7, EndKeepsRInv DEF Cancel, Ended
  <1>8. ASSUME NEW c \in Calls, WriteIdentity(c)
        PROVE  RInv'
    BY <1>1, <1>8, WriteIdentityKeepsRInv
  <1>9. ASSUME NEW c \in Calls, WriteSnapshot(c)
        PROVE  RInv'
    BY <1>1, <1>9, WriteSnapshotKeepsRInv
  <1>10. ASSUME NEW c \in Calls, StatementRaises(c)
         PROVE  RInv'
    BY <1>1, <1>10, EndKeepsRInv DEF StatementRaises, Writing, Ended
  <1>11. CASE Crash
    BY <1>1, <1>11, CrashKeepsRInv
  <1>12. CASE UNCHANGED vars
    BY <1>1, <1>12 DEF vars, RInv, SubjectInv, PrefixInv, Prefix, Writing, Executed
  <1> QED
    BY <1>2, <1>3, <1>4, <1>5, <1>6, <1>7, <1>8, <1>9, <1>10, <1>11, <1>12
       DEF Next, Answer, Persist

LEMMA RInvHolds == Spec => []RInv
  BY InitRInv, NextKeepsRInv, PTL DEF Spec

-----------------------------------------------------------------------------

\* The statements of the abstract specification are those of this one.
LEMMA AbstractPersisted ==
    ASSUME NEW t, NEW h, NEW b
    PROVE  /\ Abstract!Persisted(t, h, b) = Persisted(t, h, b)
           /\ Abstract!StatementCount(b) = StatementCount(b)
  BY DEF Abstract!Persisted, Persisted, Abstract!StatementCount, StatementCount,
         Abstract!Execute, Execute, Abstract!ObservationOf, ObservationOf,
         Abstract!IsIdentityStatement, IsIdentityStatement,
         Abstract!NativeTaken, NativeTaken, Abstract!UpsertListing, UpsertListing,
         Abstract!AppendSnapshot, AppendSnapshot, Abstract!MergedRow, MergedRow,
         Abstract!RowOf, RowOf, Abstract!PointOf, PointOf,
         Abstract!least, least, Abstract!greatest, greatest

\* The mapping of StoresWholeBatches.
AbsListing  == IF base = Null THEN listing ELSE base.listing
AbsSnapshot == IF base = Null THEN snapshot ELSE base.snapshot
AbsSubject  == [c \in Calls |-> ingest[c].community]
AbsOutcome  == [c \in Calls |->
                   CASE ingest[c].pc = "done" -> "stored"
                     [] ingest[c].pc \in Ended \ {"done"} -> "failed"
                     [] OTHER -> "pending"]

\* The abstract outcome of a call, by where its frame is.
LEMMA OutcomeOfPc ==
    /\ \A c \in Calls :
          AbsOutcome[c] = IF ingest[c].pc = "done" THEN "stored"
                          ELSE IF ingest[c].pc \in Ended THEN "failed"
                          ELSE "pending"
    /\ \A c \in Calls :
          AbsOutcome'[c] = IF ingest'[c].pc = "done" THEN "stored"
                           ELSE IF ingest'[c].pc \in Ended THEN "failed"
                           ELSE "pending"
    /\ AbsOutcome = [c \in Calls |-> AbsOutcome[c]]
    /\ AbsOutcome' = [c \in Calls |-> AbsOutcome'[c]]
  BY DEF AbsOutcome, Ended

\* While nobody holds the loop the abstract tables are the tables.
LEMMA FreeLoopMaps ==
    ASSUME RInv
    PROVE  LoopIsFree => base = Null /\ AbsListing = listing /\ AbsSnapshot = snapshot
  BY DEF RInv, IInv, LoopInv, AbsListing, AbsSnapshot

\* While a call holds the loop they are those it was taken with.
LEMMA HeldLoopMaps ==
    ASSUME RInv, NEW c \in Calls, Writing(c)
    PROVE  /\ base # Null /\ AbsListing = base.listing /\ AbsSnapshot = base.snapshot
           /\ \A d \in Calls : Writing(d) => d = c
  BY DEF RInv, IInv, LoopInv, LoopIsFree, AbsListing, AbsSnapshot

\* A call fails whose fetch brought nothing to store.
LEMMA FetchEndMapsToFail ==
    ASSUME RInv, RInv', NEW c \in Calls, NEW outcome \in Ended \ {"done"},
           LoopIsFree, ingest[c].pc = "fetching", End(c, outcome),
           UNCHANGED <<listing, snapshot>>
    PROVE  Abstract!Fail({c})
  <1>1. /\ \A d \in Calls : d # c => ingest'[d] = ingest[d]
        /\ ingest'[c].pc = outcome /\ ingest'[c].community = ingest[c].community
    BY DEF End, RInv, IInv, TypeOK, Frame
  <1>2. AbsOutcome[c] = "pending" /\ AbsSubject[c] # Null
    BY OutcomeOfPc, NullIsNoCommunity DEF Ended, AbsSubject, RInv, SubjectInv
  <1>3. AbsOutcome' = [d \in Calls |-> IF d \in {c} THEN "failed" ELSE AbsOutcome[d]]
    BY <1>1, OutcomeOfPc
  <1>4. AbsListing' = AbsListing /\ AbsSnapshot' = AbsSnapshot /\ AbsSubject' = AbsSubject
    BY <1>1, FreeLoopMaps DEF End, AbsListing, AbsSnapshot, AbsSubject
  <1> QED
    BY <1>2, <1>3, <1>4
       DEF Abstract!Fail, AbsListing, AbsSnapshot, AbsSubject, AbsOutcome

\* A call that is made asks.
LEMMA CallMapsToAsk ==
    ASSUME RInv, RInv', NEW c \in Calls, NEW community \in Communities,
           Call(c, community)
    PROVE  Abstract!Ask(c, community)
  <1>1. /\ \A d \in Calls : d # c => ingest'[d] = ingest[d]
        /\ ingest[c].pc = "idle"
        /\ ingest'[c].pc = "fetching" /\ ingest'[c].community = community
    BY DEF Call, RInv, IInv, TypeOK, Frame
  <1>2. AbsSubject[c] = Null
    BY <1>1 DEF AbsSubject, RInv, SubjectInv
  <1>3. AbsSubject' = [AbsSubject EXCEPT ![c] = community]
    BY <1>1 DEF AbsSubject
  <1>4. AbsOutcome' = AbsOutcome
    BY <1>1, OutcomeOfPc DEF Ended
  <1>5. AbsListing' = AbsListing /\ AbsSnapshot' = AbsSnapshot
    BY DEF Call, AbsListing, AbsSnapshot
  <1> QED
    BY <1>2, <1>3, <1>4, <1>5
       DEF Abstract!Ask, AbsListing, AbsSnapshot, AbsSubject, AbsOutcome

\* Nothing listed is a whole batch, stored at once.
LEMMA EmptyMapsToStore ==
    ASSUME RInv, RInv', NEW c \in Calls, FetchAnswersEmpty(c)
    PROVE  Abstract!Store(c, <<>>)
  <1>1. /\ \A d \in Calls : d # c => ingest'[d] = ingest[d]
        /\ ingest[c].pc = "fetching"
        /\ ingest'[c].pc = "done" /\ ingest'[c].community = ingest[c].community
    BY DEF FetchAnswersEmpty, End, RInv, IInv, TypeOK, Frame
  <1>2. AbsOutcome[c] = "pending" /\ AbsSubject[c] # Null
    BY <1>1, OutcomeOfPc, NullIsNoCommunity DEF Ended, AbsSubject, RInv, SubjectInv
  <1>3. AbsOutcome' = [AbsOutcome EXCEPT ![c] = "stored"]
    BY <1>1, OutcomeOfPc
  <1>4. /\ AbsListing' = AbsListing /\ AbsSnapshot' = AbsSnapshot
        /\ AbsSubject' = AbsSubject
    BY <1>1, FreeLoopMaps
       DEF FetchAnswersEmpty, End, AbsListing, AbsSnapshot, AbsSubject
  <1>5. StatementCount(<<>>) = 0 /\ Len(<<>>) = 0
    BY DEF StatementCount
  <1>6. Persisted(AbsListing, AbsSnapshot, <<>>)[0]
            = [listing |-> AbsListing, snapshot |-> AbsSnapshot, raised |-> FALSE]
    BY <1>5, PersistedSteps
  <1>7. Abstract!Persisted(AbsListing, AbsSnapshot, <<>>)[Abstract!StatementCount(<<>>)]
            = [listing |-> AbsListing, snapshot |-> AbsSnapshot, raised |-> FALSE]
    BY <1>5, <1>6, AbstractPersisted
  <1>8. Abstract!Speaks(<<>>, AbsSubject[c])
    BY <1>5 DEF Abstract!Speaks
  <1> QED
    BY <1>2, <1>3, <1>4, <1>7, <1>8
       DEF Abstract!Store, AbsListing, AbsSnapshot, AbsSubject, AbsOutcome

\* Taking the loop and executing a statement that is not the last are steps
\* nobody sees.
LEMMA TakingTheLoopStutters ==
    ASSUME RInv, RInv', NEW c \in Calls, NEW b \in Batches, FetchAnswers(c, b)
    PROVE  UNCHANGED <<AbsListing, AbsSnapshot, AbsSubject, AbsOutcome>>
  <1>1. /\ \A d \in Calls : d # c => ingest'[d] = ingest[d]
        /\ ingest[c].pc = "fetching" /\ ingest'[c].pc = "identity"
        /\ ingest'[c].community = ingest[c].community
    BY DEF FetchAnswers, RInv, IInv, TypeOK, Frame
  <1>2. AbsSubject' = AbsSubject
    BY <1>1 DEF AbsSubject
  <1>3. AbsOutcome' = AbsOutcome
    BY <1>1, OutcomeOfPc DEF Ended
  <1>4. base' # Null
    BY NullIsNoBase DEF FetchAnswers, RInv, IInv, TypeOK
  <1>5. AbsListing' = AbsListing /\ AbsSnapshot' = AbsSnapshot
    BY <1>4, FreeLoopMaps DEF FetchAnswers, AbsListing, AbsSnapshot
  <1> QED
    BY <1>2, <1>3, <1>5

\* The identity is committed, and nobody else can see it yet.
LEMMA IdentityStutters ==
    ASSUME RInv, RInv', NEW c \in Calls, WriteIdentity(c)
    PROVE  UNCHANGED <<AbsListing, AbsSnapshot, AbsSubject, AbsOutcome>>
  <1>1. /\ \A d \in Calls : d # c => ingest'[d] = ingest[d]
        /\ ingest[c].pc = "identity" /\ ingest'[c].pc = "snapshot"
        /\ ingest'[c].community = ingest[c].community
    BY DEF WriteIdentity, RInv, IInv, TypeOK, Frame
  <1>2. AbsSubject' = AbsSubject
    BY <1>1 DEF AbsSubject
  <1>3. AbsOutcome' = AbsOutcome
    BY <1>1, OutcomeOfPc DEF Ended
  <1>4. AbsListing' = AbsListing /\ AbsSnapshot' = AbsSnapshot
    BY <1>1, HeldLoopMaps DEF WriteIdentity, Writing, AbsListing, AbsSnapshot
  <1> QED
    BY <1>2, <1>3, <1>4

\* The last snapshot of a batch stores the batch; the others are not seen.
LEMMA SnapshotMapsToStore ==
    ASSUME RInv, RInv', NEW c \in Calls, WriteSnapshot(c)
    PROVE  \/ UNCHANGED <<AbsListing, AbsSnapshot, AbsSubject, AbsOutcome>>
           \/ \E b \in Batches : Abstract!Store(c, b)
  <1>0. PICK b : b = ingest[c].batch
    OBVIOUS
  <1> DEFINE persisted == ingest[c].persisted + 1
             last == persisted = Len(b)
  <1>1. /\ \A d \in Calls : d # c => ingest'[d] = ingest[d]
        /\ ingest[c].pc = "snapshot"
        /\ ingest'[c].pc = IF last THEN "done" ELSE "identity"
        /\ ingest'[c].community = ingest[c].community
        /\ base' = IF last THEN Null ELSE base
    BY <1>0 DEF WriteSnapshot, Advance, RInv, IInv, TypeOK, Frame
  <1>2. AbsSubject' = AbsSubject
    BY <1>1 DEF AbsSubject
  <1>3. Writing(c)
    BY <1>1 DEF Writing
  <1>4. base # Null /\ AbsListing = base.listing /\ AbsSnapshot = base.snapshot
    BY <1>3, HeldLoopMaps
  <1>5. CASE ~ last
    <2>1. base' = base /\ ingest'[c].pc = "identity"
      BY <1>1, <1>5
    <2>2. AbsOutcome' = AbsOutcome
      BY <1>1, <2>1, OutcomeOfPc DEF Ended
    <2>3. AbsListing' = AbsListing /\ AbsSnapshot' = AbsSnapshot
      BY <1>4, <2>1 DEF AbsListing, AbsSnapshot
    <2> QED
      BY <1>2, <2>2, <2>3
  <1>6. CASE last
    <2>1. base' = Null /\ ingest'[c].pc = "done"
      BY <1>1, <1>6
    <2>2. AbsListing' = listing' /\ AbsSnapshot' = snapshot'
      BY <2>1 DEF AbsListing, AbsSnapshot
    <2>3. AbsOutcome' = [AbsOutcome EXCEPT ![c] = "stored"]
      BY <1>1, <2>1, OutcomeOfPc
    <2>4. AbsOutcome[c] = "pending" /\ AbsSubject[c] # Null
      BY <1>1, OutcomeOfPc, NullIsNoCommunity DEF Ended, AbsSubject, RInv, SubjectInv
    <2>5. Abstract!Speaks(b, AbsSubject[c])
      BY <1>0, <1>3 DEF Abstract!Speaks, RInv, IInv, FrameInv, BelongsTo, AbsSubject
    <2>6. Executed(c) + 1 = StatementCount(b)
      BY <1>0, <1>6, SnapshotStatement DEF StatementCount
    <2>7. Persisted(AbsListing, AbsSnapshot, b)[StatementCount(b)]
              = [listing |-> listing', snapshot |-> snapshot', raised |-> FALSE]
      <3>1. Persisted(base.listing, base.snapshot, b)[Executed(c) + 1]
              = [listing |-> listing', snapshot |-> snapshot', raised |-> FALSE]
        BY <1>0, SnapshotStatement
      <3> QED
        BY <1>4, <2>6, <3>1, Zenon
    <2>8. Abstract!Persisted(AbsListing, AbsSnapshot, b)[Abstract!StatementCount(b)]
              = [listing |-> AbsListing', snapshot |-> AbsSnapshot', raised |-> FALSE]
      BY <2>2, <2>7, AbstractPersisted
    <2>9. Abstract!Store(c, b)
      BY <1>2, <2>3, <2>4, <2>5, <2>8
         DEF Abstract!Store, AbsListing, AbsSnapshot, AbsSubject, AbsOutcome
    <2> QED
      BY <1>0, <1>3, <2>9 DEF RInv, PrefixInv, Prefix
  <1> QED
    BY <1>5, <1>6

\* The tables a call that holds the loop leaves when it goes no further.
LEMMA PrefixLeft ==
    ASSUME RInv, NEW c \in Calls, Writing(c)
    PROVE  /\ ingest[c].batch \in Batches
           /\ Abstract!Speaks(ingest[c].batch, AbsSubject[c])
           /\ Executed(c) \in 0 .. Abstract!StatementCount(ingest[c].batch)
           /\ Abstract!Persisted(AbsListing, AbsSnapshot, ingest[c].batch)[Executed(c)]
                  = [listing |-> listing, snapshot |-> snapshot, raised |-> FALSE]
  <1>1. Abstract!Speaks(ingest[c].batch, AbsSubject[c])
    BY DEF Abstract!Speaks, RInv, IInv, FrameInv, BelongsTo, AbsSubject
  <1>2. /\ ingest[c].batch \in Batches
        /\ StatementCount(ingest[c].batch) \in Nat
        /\ Executed(c) + 1 \in 1 .. StatementCount(ingest[c].batch)
    BY NextStatement
  <1>3. Executed(c) \in Nat
    BY DEF Executed, RInv, IInv, TypeOK, Frame
  <1>4. Executed(c) \in 0 .. StatementCount(ingest[c].batch)
    BY <1>2, <1>3
  <1>5. Persisted(base.listing, base.snapshot, ingest[c].batch)[Executed(c)]
            = [listing |-> listing, snapshot |-> snapshot, raised |-> FALSE]
    BY DEF RInv, PrefixInv, Prefix
  <1>6. AbsListing = base.listing /\ AbsSnapshot = base.snapshot
    BY HeldLoopMaps
  <1> QED
    BY <1>1, <1>2, <1>4, <1>5, <1>6, AbstractPersisted

\* A statement that raises leaves the statements before it.
LEMMA RaiseMapsToFail ==
    ASSUME RInv, RInv', NEW c \in Calls, StatementRaises(c)
    PROVE  Abstract!Fail({c})
  <1>1. /\ \A d \in Calls : d # c => ingest'[d] = ingest[d]
        /\ ingest[c].pc \in {"identity", "snapshot"}
        /\ ingest'[c].pc = "storage_error"
        /\ ingest'[c].community = ingest[c].community
        /\ base' = Null
    BY DEF StatementRaises, Writing, End, RInv, IInv, TypeOK, Frame
  <1>2. AbsOutcome[c] = "pending" /\ AbsSubject[c] # Null
    BY <1>1, OutcomeOfPc, NullIsNoCommunity DEF Ended, AbsSubject, RInv, SubjectInv
  <1>3. AbsOutcome' = [d \in Calls |-> IF d \in {c} THEN "failed" ELSE AbsOutcome[d]]
    BY <1>1, OutcomeOfPc DEF Ended
  <1>4. AbsListing' = listing /\ AbsSnapshot' = snapshot /\ AbsSubject' = AbsSubject
    BY <1>1 DEF StatementRaises, AbsListing, AbsSnapshot, AbsSubject
  <1>5. \E b \in Batches :
            /\ Abstract!Speaks(b, AbsSubject[c])
            /\ \E k \in 0 .. Abstract!StatementCount(b) :
                  /\ AbsListing' = Abstract!Persisted(AbsListing, AbsSnapshot, b)[k].listing
                  /\ AbsSnapshot' = Abstract!Persisted(AbsListing, AbsSnapshot, b)[k].snapshot
    BY <1>4, PrefixLeft DEF StatementRaises
  <1> QED
    BY <1>2, <1>3, <1>4, <1>5
       DEF Abstract!Fail, AbsListing, AbsSnapshot, AbsSubject, AbsOutcome

\* The death of the process ends every live call; the one that held the loop
\* leaves its prefix.
LEMMA CrashMapsToFail ==
    ASSUME RInv, RInv', Crash
    PROVE  \E C \in (SUBSET Calls) \ {{}} : Abstract!Fail(C)
  <1>0. PICK live : live = {c \in Calls : ingest[c].pc \in Live}
    OBVIOUS
  <1>1. \A c \in Calls : ingest'[c] = IF ingest[c].pc \in Live
                                       THEN [ingest[c] EXCEPT !.pc = "lost"]
                                       ELSE ingest[c]
    BY DEF Crash
  <1>2. \A c \in Calls : /\ ingest'[c].community = ingest[c].community
                        /\ ingest'[c].pc = IF ingest[c].pc \in Live THEN "lost"
                                           ELSE ingest[c].pc
    BY <1>1 DEF RInv, IInv, TypeOK, Frame
  <1>3. live \in (SUBSET Calls) \ {{}}
    BY <1>0 DEF Crash
  <1>4. \A c \in live : AbsOutcome[c] = "pending" /\ AbsSubject[c] # Null
    BY <1>0, OutcomeOfPc, NullIsNoCommunity DEF Live, Ended, AbsSubject, RInv, SubjectInv
  <1>5. AbsOutcome' = [c \in Calls |-> IF c \in live THEN "failed" ELSE AbsOutcome[c]]
    BY <1>0, <1>2, OutcomeOfPc DEF Live, Ended
  <1>6. AbsListing' = listing /\ AbsSnapshot' = snapshot /\ AbsSubject' = AbsSubject
    BY <1>2 DEF Crash, AbsListing, AbsSnapshot, AbsSubject
  <1>7. \/ AbsListing' = AbsListing /\ AbsSnapshot' = AbsSnapshot
        \/ \E c \in live, b \in Batches :
              /\ Abstract!Speaks(b, AbsSubject[c])
              /\ \E k \in 0 .. Abstract!StatementCount(b) :
                    /\ AbsListing' =
                          Abstract!Persisted(AbsListing, AbsSnapshot, b)[k].listing
                    /\ AbsSnapshot' =
                          Abstract!Persisted(AbsListing, AbsSnapshot, b)[k].snapshot
    <2>1. CASE LoopIsFree
      BY <1>6, <2>1, FreeLoopMaps
    <2>2. CASE ~ LoopIsFree
      <3>1. PICK c \in Calls : Writing(c)
        BY <2>2 DEF LoopIsFree
      <3>2. c \in live
        BY <1>0, <3>1 DEF Writing, Live
      <3> QED
        BY <1>6, <3>1, <3>2, PrefixLeft
    <2> QED
      BY <2>1, <2>2
  <1>8. Abstract!Fail(live)
    BY <1>4, <1>5, <1>6, <1>7
       DEF Abstract!Fail, AbsListing, AbsSnapshot, AbsSubject, AbsOutcome
  <1> QED
    BY <1>3, <1>8

\* Every step is a step of the abstract specification or not seen by it.
LEMMA NextMaps ==
    ASSUME RInv, RInv', [Next]_vars
    PROVE  [Abstract!Next]_(Abstract!absVars)
  <1> DEFINE Unseen == UNCHANGED <<AbsListing, AbsSnapshot, AbsSubject, AbsOutcome>>
  <1>1. Unseen => UNCHANGED Abstract!absVars
    BY DEF Abstract!absVars, AbsListing, AbsSnapshot, AbsSubject, AbsOutcome
  <1>2. ASSUME NEW C \in (SUBSET Calls) \ {{}}, Abstract!Fail(C)
        PROVE  Abstract!Next
    BY <1>2 DEF Abstract!Next
  <1>3. ASSUME NEW c \in Calls, Abstract!Fail({c})
        PROVE  Abstract!Next
    BY <1>2, <1>3
  <1>4. ASSUME NEW c \in Calls, NEW b \in Batches, Abstract!Store(c, b)
        PROVE  Abstract!Next
    BY <1>4 DEF Abstract!Next
  <1>5. ASSUME NEW c \in Calls, NEW community \in Communities, Call(c, community)
        PROVE  Abstract!Next
    BY <1>5, CallMapsToAsk DEF Abstract!Next
  <1>6. ASSUME NEW c \in Calls, FetchFails(c)
        PROVE  Abstract!Next
    BY <1>3, <1>6, FetchEndMapsToFail DEF FetchFails, Ended
  <1>7. ASSUME NEW c \in Calls, Cancel(c)
        PROVE  Abstract!Next
    BY <1>3, <1>7, FetchEndMapsToFail DEF Cancel, Ended
  <1>8. ASSUME NEW c \in Calls, NEW b \in Batches, FetchAnswersForeign(c, b)
        PROVE  Abstract!Next
    BY <1>3, <1>8, FetchEndMapsToFail DEF FetchAnswersForeign, Ended
  <1>9. ASSUME NEW c \in Calls, FetchAnswersEmpty(c)
        PROVE  Abstract!Next
    BY <1>4, <1>9, EmptyMapsToStore DEF FetchAnswersEmpty
  <1>10. ASSUME NEW c \in Calls, NEW b \in Batches, FetchAnswers(c, b)
         PROVE  Unseen
    BY <1>10, TakingTheLoopStutters
  <1>11. ASSUME NEW c \in Calls, WriteIdentity(c)
         PROVE  Unseen
    BY <1>11, IdentityStutters
  <1>12. ASSUME NEW c \in Calls, WriteSnapshot(c)
         PROVE  Unseen \/ Abstract!Next
    BY <1>4, <1>12, SnapshotMapsToStore
  <1>13. ASSUME NEW c \in Calls, StatementRaises(c)
         PROVE  Abstract!Next
    BY <1>3, <1>13, RaiseMapsToFail
  <1>14. CASE Crash
    BY <1>2, <1>14, CrashMapsToFail
  <1>15. CASE UNCHANGED vars
    BY <1>1, <1>15 DEF vars, AbsListing, AbsSnapshot, AbsSubject, AbsOutcome
  <1> HIDE DEF Unseen
  <1> QED
    BY <1>1, <1>5, <1>6, <1>7, <1>8, <1>9, <1>10, <1>11, <1>12, <1>13, <1>14, <1>15
       DEF Next, Answer, Persist

\* The empty tables are those of the abstract specification.
LEMMA InitMaps == Init => Abstract!Init
  BY DEF Init, Abstract!Init, Ended, EmptyListings, EmptySnapshots,
         Abstract!EmptyListings, Abstract!EmptySnapshots

\* ingest stores whole batches or fails: seen by whoever waits for the loop, the
\* statements of a call happen at once, and what an exception or the death of the
\* process leaves is a prefix of one batch that speaks of one asked community.
THEOREM BatchesStoredWhole == Spec => StoresWholeBatches
  <1>1. RInv /\ RInv' /\ [Next]_vars => [Abstract!Next]_(Abstract!absVars)
    BY NextMaps
  <1> QED
    BY <1>1, InitMaps, RInvHolds, PTL DEF Spec, StoresWholeBatches, Abstract!Spec

-----------------------------------------------------------------------------
(* Rows *)

\* Every instant that row spans, wider spans.
Wider(row, wider) ==
    row # Null => /\ wider # Null
                  /\ wider.first <= row.first
                  /\ row.last <= wider.last

\* A row whose seen range also spans that of old.
Joined(row, old) ==
    IF old = Null THEN row
    ELSE [row EXCEPT !.first = least(old.first, row.first),
                     !.last  = greatest(old.last, row.last)]

\* A stored row is a record whose ends are numbers.
LEMMA RowNumbers ==
    ASSUME NEW row \in ListingRow
    PROVE  /\ row.first \in Int /\ row.last \in Int /\ row # Null
           /\ row = [community |-> row.community, native |-> row.native,
                     first |-> row.first, last |-> row.last, status |-> row.status]
  BY InstantsAreOrdered, RowIsNotNull DEF ListingRow

\* The row an upsert leaves, column by column.
LEMMA MergedRowFields ==
    ASSUME NEW o \in Observation, NEW row
    PROVE  MergedRow(row, o) =
             [community |-> o.community, native |-> o.native,
              first |-> IF row = Null THEN o.first ELSE least(row.first, o.first),
              last  |-> IF row = Null THEN o.last ELSE greatest(row.last, o.last),
              status |-> o.status]
  BY DEF MergedRow, RowOf

\* An upsert writes the native identity of its observation.
LEMMA MergedRowNative ==
    ASSUME NEW o \in Observation, NEW row
    PROVE  MergedRow(row, o).native = o.native
  BY MergedRowFields

\* A joined row, column by column.
LEMMA JoinedFields ==
    ASSUME NEW row \in ListingRow, NEW old
    PROVE  Joined(row, old) =
             [community |-> row.community, native |-> row.native,
              first |-> IF old = Null THEN row.first ELSE least(old.first, row.first),
              last  |-> IF old = Null THEN row.last ELSE greatest(old.last, row.last),
              status |-> row.status]
  BY DEF Joined, ListingRow

\* The first write of a replay joins the row of the first run with what it
\* found.
LEMMA JoinFirst ==
    ASSUME NEW o \in Observation, NEW row \in ListingRow \union {Null},
           NEW old \in ListingRow \union {Null}, Wider(row, old)
    PROVE  MergedRow(old, o) = Joined(MergedRow(row, o), old)
  <1>1. MergedRow(row, o) \in ListingRow
    BY MergedRowSpans
  <1>2. o.first \in Int /\ o.last \in Int
    BY ObservationFields, InstantsAreOrdered
  <1>3. CASE old = Null
    <2>1. row = Null
      BY <1>3 DEF Wider
    <2> QED
      BY <1>3, <2>1 DEF Joined
  <1>4. CASE old # Null
    <2> DEFINE new == MergedRow(row, o)
    <2>1. old.first \in Int /\ old.last \in Int
      BY <1>4, RowNumbers
    <2>2. row # Null => /\ row.first \in Int /\ row.last \in Int
                        /\ old.first <= row.first /\ row.last <= old.last
      BY RowNumbers DEF Wider
    <2>3. /\ new.first = IF row = Null THEN o.first ELSE least(row.first, o.first)
          /\ new.last = IF row = Null THEN o.last ELSE greatest(row.last, o.last)
          /\ new.community = o.community /\ new.native = o.native
          /\ new.status = o.status
      BY MergedRowFields
    <2>4. /\ least(old.first, o.first) = least(old.first, new.first)
          /\ greatest(old.last, o.last) = greatest(old.last, new.last)
      <3> HIDE DEF new
      <3> QED
        BY <1>2, <2>1, <2>2, <2>3 DEF least, greatest
    <2>5. Joined(new, old) =
            [community |-> new.community, native |-> new.native,
             first |-> least(old.first, new.first),
             last |-> greatest(old.last, new.last), status |-> new.status]
      BY <1>1, <1>4, JoinedFields
    <2>6. MergedRow(old, o) =
            [community |-> o.community, native |-> o.native,
             first |-> least(old.first, o.first),
             last |-> greatest(old.last, o.last), status |-> o.status]
      BY <1>4, MergedRowFields
    <2> HIDE DEF new
    <2>7. MergedRow(old, o) = Joined(new, old)
      BY <2>3, <2>4, <2>5, <2>6
    <2> QED
      BY <2>7 DEF new
  <1> QED
    BY <1>3, <1>4

\* Every later write keeps them joined.
LEMMA JoinNext ==
    ASSUME NEW o \in Observation, NEW row \in ListingRow,
           NEW old \in ListingRow \union {Null}
    PROVE  MergedRow(Joined(row, old), o) = Joined(MergedRow(row, o), old)
  <1>1. MergedRow(row, o) \in ListingRow
    BY MergedRowSpans
  <1>2. /\ o.first \in Int /\ o.last \in Int
        /\ row.first \in Int /\ row.last \in Int /\ row # Null
    BY ObservationFields, InstantsAreOrdered, RowNumbers
  <1>3. CASE old = Null
    BY <1>3 DEF Joined
  <1>4. CASE old # Null
    <2> DEFINE new == MergedRow(row, o)
               joined == Joined(row, old)
    <2>1. old.first \in Int /\ old.last \in Int /\ old \in ListingRow
      BY <1>4, RowNumbers
    <2>2. joined =
            [community |-> row.community, native |-> row.native,
             first |-> least(old.first, row.first),
             last |-> greatest(old.last, row.last), status |-> row.status]
      BY <1>4, JoinedFields
    <2>3. joined \in ListingRow
      BY <1>2, <2>1, <2>2 DEF ListingRow, least, greatest
    <2>4. /\ joined # Null
          /\ joined.first = least(old.first, row.first)
          /\ joined.last = greatest(old.last, row.last)
      BY <2>2, <2>3, RowIsNotNull
    <2>5. /\ new.first = least(row.first, o.first)
          /\ new.last = greatest(row.last, o.last)
          /\ new.community = o.community /\ new.native = o.native
          /\ new.status = o.status
      BY <1>2, MergedRowFields
    <2>6. Joined(new, old) =
            [community |-> new.community, native |-> new.native,
             first |-> least(old.first, new.first),
             last |-> greatest(old.last, new.last), status |-> new.status]
      BY <1>1, <1>4, JoinedFields
    <2>7. MergedRow(joined, o) =
            [community |-> o.community, native |-> o.native,
             first |-> least(joined.first, o.first),
             last |-> greatest(joined.last, o.last), status |-> o.status]
      BY <2>4, MergedRowFields
    <2> HIDE DEF new, joined
    <2>8. /\ least(joined.first, o.first) = least(old.first, new.first)
          /\ greatest(joined.last, o.last) = greatest(old.last, new.last)
      BY <1>2, <2>1, <2>4, <2>5 DEF least, greatest
    <2>9. MergedRow(joined, o) = Joined(new, old)
      BY <2>5, <2>6, <2>7, <2>8
    <2> QED
      BY <2>9 DEF new, joined
  <1> QED
    BY <1>3, <1>4

\* A row that already spans what was found is left as it is.
LEMMA JoinLast ==
    ASSUME NEW row \in ListingRow, NEW old \in ListingRow \union {Null},
           Wider(old, row)
    PROVE  Joined(row, old) = row
  <1>1. CASE old = Null
    BY <1>1 DEF Joined
  <1>2. CASE old # Null
    <2>1. /\ old.first \in Int /\ old.last \in Int
          /\ row.first \in Int /\ row.last \in Int
          /\ row.first <= old.first /\ old.last <= row.last
      BY <1>2, RowNumbers DEF Wider
    <2>2. /\ least(old.first, row.first) = row.first
          /\ greatest(old.last, row.last) = row.last
      BY <2>1 DEF least, greatest
    <2> QED
      BY <1>2, <2>2, JoinedFields, RowNumbers
  <1> QED
    BY <1>1, <1>2

-----------------------------------------------------------------------------
(* Runs of a batch *)

RunState == [listing : ListingTable, snapshot : SnapshotTable, raised : BOOLEAN]

\* The ids and the points the first k statements of b write.
Identified(b, k) == {b[x].listing : x \in 1 .. ((k + 1) \div 2)}
Pointed(b, k)    == {<<b[x].listing, b[x].at>> : x \in 1 .. (k \div 2)}

\* Each statement is one of the two of an observation.
LEMMA StatementIsOfObservation ==
    ASSUME NEW b \in Seq(Observation), NEW k \in 1 .. StatementCount(b)
    PROVE  \E p \in Nat : p < Len(b) /\ (k = 2 * p + 1 \/ k = 2 * p + 2)
  <1>1. Len(b) \in Nat /\ k \in Nat /\ 1 <= k /\ k <= 2 * Len(b)
    BY DEF StatementCount
  <1>2. (k - 1) \div 2 \in Nat /\ (k - 1) \div 2 < Len(b)
    BY <1>1
  <1>3. k - 1 = 2 * ((k - 1) \div 2) \/ k - 1 = 2 * ((k - 1) \div 2) + 1
    BY <1>1
  <1>4. k = 2 * ((k - 1) \div 2) + 1 \/ k = 2 * ((k - 1) \div 2) + 2
    BY <1>1, <1>2, <1>3
  <1> QED
    BY <1>2, <1>4

\* What statement k adds to the ids and to the points written.
LEMMA StatementObserves ==
    ASSUME NEW b \in Seq(Observation), NEW k \in 1 .. StatementCount(b)
    PROVE  /\ StatementCount(b) \in Nat
           /\ ObservationOf(b, k) \in Observation
           /\ Identified(b, 0) = {} /\ Pointed(b, 0) = {}
           /\ IsIdentityStatement(k) =>
                  /\ Identified(b, k) =
                        Identified(b, k - 1) \union {ObservationOf(b, k).listing}
                  /\ Pointed(b, k) = Pointed(b, k - 1)
           /\ ~ IsIdentityStatement(k) =>
                  /\ Identified(b, k) = Identified(b, k - 1)
                  /\ Pointed(b, k) = Pointed(b, k - 1) \union
                        {<<ObservationOf(b, k).listing, ObservationOf(b, k).at>>}
  <1>1. PICK p \in Nat : p < Len(b) /\ (k = 2 * p + 1 \/ k = 2 * p + 2)
    BY StatementIsOfObservation
  <1>2. StatementCount(b) \in Nat
    BY DEF StatementCount
  <1>3. b[p + 1] \in Observation
    BY <1>1
  <1>4. ObservationOf(b, k) = b[p + 1]
    BY <1>1, StatementsOfObservation
  <1>5. Identified(b, 0) = {} /\ Pointed(b, 0) = {}
    <2>1. (0 + 1) \div 2 = 0 /\ 0 \div 2 = 0
      OBVIOUS
    <2> QED
      BY <2>1 DEF Identified, Pointed
  <1>6. 1 .. (p + 1) = (1 .. p) \union {p + 1}
    BY <1>1
  <1>7. CASE k = 2 * p + 1
    <2>1. (k + 1) \div 2 = p + 1 /\ (k - 1 + 1) \div 2 = p
          /\ k \div 2 = p /\ (k - 1) \div 2 = p
      BY <1>1, <1>7
    <2>2. IsIdentityStatement(k)
      BY <1>1, <1>7, StatementsOfObservation
    <2>3. Identified(b, k) = Identified(b, k - 1) \union {b[p + 1].listing}
      BY <1>6, <2>1 DEF Identified
    <2>4. Pointed(b, k) = Pointed(b, k - 1)
      BY <2>1 DEF Pointed
    <2> QED
      BY <1>2, <1>3, <1>4, <1>5, <2>2, <2>3, <2>4
  <1>8. CASE k = 2 * p + 2
    <2>1. (k + 1) \div 2 = p + 1 /\ (k - 1 + 1) \div 2 = p + 1
          /\ k \div 2 = p + 1 /\ (k - 1) \div 2 = p
      BY <1>1, <1>8
    <2>2. ~ IsIdentityStatement(k)
      BY <1>1, <1>8, StatementsOfObservation
    <2>3. Identified(b, k) = Identified(b, k - 1)
      BY <2>1 DEF Identified
    <2>4. Pointed(b, k) = Pointed(b, k - 1) \union {<<b[p + 1].listing, b[p + 1].at>>}
      BY <1>6, <2>1 DEF Pointed
    <2> QED
      BY <1>2, <1>3, <1>4, <1>5, <2>2, <2>3, <2>4
  <1> QED
    BY <1>1, <1>7, <1>8

\* One statement, by what it finds.
LEMMA ExecuteOutcome ==
    ASSUME NEW b \in Seq(Observation), NEW k \in 1 .. StatementCount(b),
           NEW s \in RunState
    PROVE  LET o == ObservationOf(b, k)
               e == Execute(s, b, k)
           IN  /\ e \in RunState
               /\ s.raised => e.raised
               /\ ~ s.raised /\ IsIdentityStatement(k) /\ NativeTaken(s.listing, o)
                      => e.raised
               /\ ~ s.raised /\ IsIdentityStatement(k) /\ ~ NativeTaken(s.listing, o)
                      => /\ ~ e.raised
                         /\ e.listing = UpsertListing(s.listing, o)
                         /\ e.snapshot = s.snapshot
               /\ ~ s.raised /\ ~ IsIdentityStatement(k)
                      => /\ ~ e.raised
                         /\ e.listing = s.listing
                         /\ e.snapshot = AppendSnapshot(s.snapshot, o)
  <1> DEFINE o == ObservationOf(b, k)
             e == Execute(s, b, k)
  <1>1. o \in Observation
    BY StatementObserves
  <1>2. s.listing \in ListingTable /\ s.snapshot \in SnapshotTable
    BY DEF RunState
  <1>3. /\ UpsertListing(s.listing, o) \in ListingTable
        /\ AppendSnapshot(s.snapshot, o) \in SnapshotTable
    BY <1>1, <1>2, UpsertKeepsSpans, AppendAddsOnePoint
  <1>4. e = IF s.raised THEN s
            ELSE IF IsIdentityStatement(k)
                 THEN IF NativeTaken(s.listing, o)
                      THEN [s EXCEPT !.raised = TRUE]
                      ELSE [s EXCEPT !.listing = UpsertListing(s.listing, o)]
                 ELSE [s EXCEPT !.snapshot = AppendSnapshot(s.snapshot, o)]
    BY Zenon DEF Execute
  <1> HIDE DEF o, e
  <1>5. CASE s.raised
    <2>1. e = s
      BY <1>4, <1>5
    <2> QED
      BY <1>5, <2>1 DEF o, e
  <1>6. CASE ~ s.raised /\ IsIdentityStatement(k) /\ NativeTaken(s.listing, o)
    <2>1. e = [s EXCEPT !.raised = TRUE]
      BY <1>4, <1>6
    <2>2. e \in RunState /\ e.raised
      BY <2>1 DEF RunState
    <2> QED
      BY <1>6, <2>2 DEF o, e
  <1>7. CASE ~ s.raised /\ IsIdentityStatement(k) /\ ~ NativeTaken(s.listing, o)
    <2>1. e = [s EXCEPT !.listing = UpsertListing(s.listing, o)]
      BY <1>4, <1>7
    <2>2. /\ e \in RunState /\ e.raised = s.raised
          /\ e.listing = UpsertListing(s.listing, o) /\ e.snapshot = s.snapshot
      BY <1>3, <2>1 DEF RunState
    <2> QED
      BY <1>7, <2>2 DEF o, e
  <1>8. CASE ~ s.raised /\ ~ IsIdentityStatement(k)
    <2>1. e = [s EXCEPT !.snapshot = AppendSnapshot(s.snapshot, o)]
      BY <1>4, <1>8
    <2>2. /\ e \in RunState /\ e.raised = s.raised
          /\ e.listing = s.listing /\ e.snapshot = AppendSnapshot(s.snapshot, o)
      BY <1>3, <2>1 DEF RunState
    <2> QED
      BY <1>8, <2>2 DEF o, e
  <1> QED
    BY <1>5, <1>6, <1>7, <1>8 DEF o, e

\* Every number of statements leaves tables of their types.
LEMMA RunTables ==
    ASSUME NEW b \in Seq(Observation), NEW t \in ListingTable, NEW h \in SnapshotTable
    PROVE  \A k \in 0 .. StatementCount(b) : Persisted(t, h, b)[k] \in RunState
  <1> DEFINE n == StatementCount(b)
             S == {k \in 0 .. n : Persisted(t, h, b)[k] \in RunState}
  <1>1. n \in Nat
    BY DEF StatementCount
  <1>2. 0 \in S
    <2>1. Persisted(t, h, b)[0] = [listing |-> t, snapshot |-> h, raised |-> FALSE]
      BY <1>1, PersistedSteps
    <2>2. [listing |-> t, snapshot |-> h, raised |-> FALSE] \in RunState
      BY DEF RunState
    <2> QED
      BY <1>1, <2>1, <2>2
  <1>3. ASSUME NEW k \in 1 .. n, k - 1 \in S
        PROVE  k \in S
    <2>1. Persisted(t, h, b)[k - 1] \in RunState
      BY <1>3
    <2>2. Persisted(t, h, b)[k] = Execute(Persisted(t, h, b)[k - 1], b, k)
      BY <1>1, PersistedSteps
    <2>3. Execute(Persisted(t, h, b)[k - 1], b, k) \in RunState
      BY <2>1, ExecuteOutcome
    <2> QED
      BY <1>1, <2>2, <2>3
  <1>4. \A k \in 0 .. n : k \in S
    <2> HIDE DEF S, n
    <2> QED
      BY <1>1, <1>2, <1>3, IntervalInduction
  <1> QED
    BY <1>4

\* The run of a batch none of whose statements raises.
Whole(t, h, b) == ~ Persisted(t, h, b)[StatementCount(b)].raised

\* A raise is final, so a run that ends without one never had one.
LEMMA WholeNeverRaised ==
    ASSUME NEW b \in Seq(Observation), NEW t \in ListingTable, NEW h \in SnapshotTable,
           Whole(t, h, b)
    PROVE  \A k \in 0 .. StatementCount(b) : ~ Persisted(t, h, b)[k].raised
  <1> DEFINE n == StatementCount(b)
  <1> SUFFICES ASSUME NEW m \in 0 .. n, Persisted(t, h, b)[m].raised
               PROVE  FALSE
    OBVIOUS
  <1> DEFINE S == {k \in 0 .. n : k >= m => Persisted(t, h, b)[k].raised}
  <1>1. n \in Nat
    BY DEF StatementCount
  <1>2. 0 \in S
    BY <1>1
  <1>3. ASSUME NEW k \in 1 .. n, k - 1 \in S
        PROVE  k \in S
    <2>1. k = m \/ k < m \/ k - 1 >= m
      BY <1>1
    <2>2. CASE k - 1 >= m
      <3>1. Persisted(t, h, b)[k - 1].raised
        BY <1>3, <2>2
      <3>2. Persisted(t, h, b)[k - 1] \in RunState
        BY <1>1, RunTables
      <3>3. Persisted(t, h, b)[k] = Execute(Persisted(t, h, b)[k - 1], b, k)
        BY <1>1, PersistedSteps
      <3>4. Persisted(t, h, b)[k].raised
        BY <3>1, <3>2, <3>3, ExecuteOutcome
      <3> QED
        BY <1>1, <3>4
    <2> QED
      BY <1>1, <2>1, <2>2
  <1>4. \A k \in 0 .. n : k \in S
    <2> HIDE DEF S, n
    <2> QED
      BY <1>1, <1>2, <1>3, IntervalInduction
  <1> QED
    BY <1>1, <1>4 DEF Whole

\* Statement k of such a run.
LEMMA WholeStep ==
    ASSUME NEW b \in Seq(Observation), NEW t \in ListingTable, NEW h \in SnapshotTable,
           Whole(t, h, b), NEW k \in 1 .. StatementCount(b)
    PROVE  LET o == ObservationOf(b, k)
               s == Persisted(t, h, b)[k - 1]
               e == Persisted(t, h, b)[k]
           IN  /\ s \in RunState /\ e \in RunState
               /\ IsIdentityStatement(k) => /\ ~ NativeTaken(s.listing, o)
                                            /\ e.listing = UpsertListing(s.listing, o)
                                            /\ e.snapshot = s.snapshot
               /\ ~ IsIdentityStatement(k) =>
                                            /\ e.listing = s.listing
                                            /\ e.snapshot = AppendSnapshot(s.snapshot, o)
  <1>1. StatementCount(b) \in Nat
    BY DEF StatementCount
  <1>2. k \in 0 .. StatementCount(b) /\ k - 1 \in 0 .. StatementCount(b)
    BY <1>1
  <1>3. Persisted(t, h, b)[k - 1] \in RunState /\ Persisted(t, h, b)[k] \in RunState
    BY <1>2, RunTables
  <1>4. ~ Persisted(t, h, b)[k - 1].raised /\ ~ Persisted(t, h, b)[k].raised
    BY <1>2, WholeNeverRaised
  <1>5. Persisted(t, h, b)[k] = Execute(Persisted(t, h, b)[k - 1], b, k)
    BY <1>1, PersistedSteps
  <1> QED
    BY <1>3, <1>4, <1>5, ExecuteOutcome

\* Before its first statement a run has the tables it started from.
LEMMA PersistedStart ==
    ASSUME NEW b \in Seq(Observation), NEW t, NEW h
    PROVE  /\ Persisted(t, h, b)[0].listing = t
           /\ Persisted(t, h, b)[0].snapshot = h
           /\ ~ Persisted(t, h, b)[0].raised
  <1>1. StatementCount(b) \in Nat
    BY DEF StatementCount
  <1>2. Persisted(t, h, b)[0] = [listing |-> t, snapshot |-> h, raised |-> FALSE]
    BY <1>1, PersistedSteps
  <1> QED
    BY <1>2

\* An upsert changes one row.
LEMMA UpsertedRow ==
    ASSUME NEW t \in ListingTable, NEW o \in Observation, NEW l \in ListingIds
    PROVE  UpsertListing(t, o)[l] = IF l = o.listing THEN MergedRow(t[l], o) ELSE t[l]
  BY DEF UpsertListing, ListingTable

\* An append changes one point.
LEMMA AppendedPoint ==
    ASSUME NEW h \in SnapshotTable, NEW o \in Observation,
           NEW l \in ListingIds, NEW i \in Instants
    PROVE  AppendSnapshot(h, o)[l][i] =
               IF l = o.listing /\ i = o.at THEN PointOf(o) ELSE h[l][i]
  <1>1. h[l] \in [Instants -> SnapshotPoint \union {Null}]
    BY DEF SnapshotTable
  <1>2. AppendSnapshot(h, o)[l] =
            IF l = o.listing THEN [h[l] EXCEPT ![o.at] = PointOf(o)] ELSE h[l]
    BY DEF AppendSnapshot, SnapshotTable
  <1> QED
    BY <1>1, <1>2

\* What the batch writes of one id names one native identity.
NamesOneNative(b) ==
    \A x, y \in 1 .. Len(b) : b[x].listing = b[y].listing => b[x].native = b[y].native

\* The row an id has after k statements.
RowAfter(b, row, first, k, l) ==
    /\ l \notin Identified(b, k) => row = first
    /\ l \in Identified(b, k) =>
          /\ row \in ListingRow
          /\ \A x \in 1 .. Len(b) : b[x].listing = l => row.native = b[x].native

\* Every statement is about an observation of the batch.
LEMMA ObservationIsIn ==
    ASSUME NEW b \in Seq(Observation), NEW k \in 1 .. StatementCount(b)
    PROVE  \E x \in 1 .. Len(b) : ObservationOf(b, k) = b[x]
  <1>1. PICK p \in Nat : p < Len(b) /\ (k = 2 * p + 1 \/ k = 2 * p + 2)
    BY StatementIsOfObservation
  <1>2. ObservationOf(b, k) = b[p + 1]
    BY <1>1, StatementsOfObservation
  <1>3. p + 1 \in 1 .. Len(b)
    BY <1>1
  <1> QED
    BY <1>2, <1>3

\* Rows of ids the run has not written are those it started from; the others
\* carry the native identity the batch names for the id.
LEMMA RunRows ==
    ASSUME NEW b \in Seq(Observation), NEW t \in ListingTable, NEW h \in SnapshotTable,
           Whole(t, h, b), NamesOneNative(b), NEW l \in ListingIds
    PROVE  \A k \in 0 .. StatementCount(b) :
               RowAfter(b, Persisted(t, h, b)[k].listing[l], t[l], k, l)
  <1> DEFINE n == StatementCount(b)
             row(k) == Persisted(t, h, b)[k].listing[l]
             S == {k \in 0 .. n : RowAfter(b, row(k), t[l], k, l)}
  <1>1. n \in Nat
    BY DEF StatementCount
  <1>2. 0 \in S
    <2>1. row(0) = t[l]
      BY PersistedStart
    <2>2. Identified(b, 0) = {}
      <3>1. (0 + 1) \div 2 = 0
        OBVIOUS
      <3> QED
        BY <3>1 DEF Identified
    <2> QED
      BY <1>1, <2>1, <2>2 DEF RowAfter
  <1>3. ASSUME NEW k \in 1 .. n, k - 1 \in S
        PROVE  k \in S
    <2> DEFINE o == ObservationOf(b, k)
               s == Persisted(t, h, b)[k - 1]
               e == Persisted(t, h, b)[k]
    <2>1. /\ o \in Observation /\ s \in RunState
          /\ IsIdentityStatement(k) => e.listing = UpsertListing(s.listing, o)
          /\ ~ IsIdentityStatement(k) => e.listing = s.listing
      BY StatementObserves, WholeStep
    <2>2. /\ IsIdentityStatement(k) =>
                 Identified(b, k) = Identified(b, k - 1) \union {o.listing}
          /\ ~ IsIdentityStatement(k) => Identified(b, k) = Identified(b, k - 1)
      BY StatementObserves
    <2>3. RowAfter(b, s.listing[l], t[l], k - 1, l)
      BY <1>3
    <2>4. PICK y \in 1 .. Len(b) : o = b[y]
      BY ObservationIsIn
    <2>5. s.listing \in ListingTable /\ s.listing[l] \in ListingRow \union {Null}
      BY <2>1 DEF RunState, ListingTable
    <2> HIDE DEF o, s, e
    <2>6. CASE IsIdentityStatement(k) /\ l = o.listing
      <3>1. e.listing[l] = MergedRow(s.listing[l], o)
        BY <2>1, <2>5, <2>6, UpsertedRow
      <3>2. e.listing[l] \in ListingRow
        BY <2>1, <2>5, <3>1, MergedRowSpans
      <3>3. e.listing[l].native = o.native
        BY <2>1, <3>1, MergedRowNative
      <3>4. \A x \in 1 .. Len(b) : b[x].listing = l => e.listing[l].native = b[x].native
        <4> SUFFICES ASSUME NEW x \in 1 .. Len(b), b[x].listing = l
                     PROVE  e.listing[l].native = b[x].native
          OBVIOUS
        <4>1. b[y].listing = b[x].listing
          BY <2>4, <2>6
        <4>2. b[y].native = b[x].native
          BY <4>1, Zenon DEF NamesOneNative
        <4> QED
          BY <2>4, <3>3, <4>2
      <3>5. RowAfter(b, e.listing[l], t[l], k, l)
        BY <2>2, <2>6, <3>2, <3>4 DEF RowAfter
      <3> QED
        BY <1>1, <3>5 DEF e
    <2>7. CASE ~ (IsIdentityStatement(k) /\ l = o.listing)
      <3>1. e.listing[l] = s.listing[l]
        BY <2>1, <2>5, <2>7, UpsertedRow
      <3>2. l \in Identified(b, k) <=> l \in Identified(b, k - 1)
        BY <2>2, <2>7
      <3>3. RowAfter(b, e.listing[l], t[l], k, l)
        BY <2>3, <3>1, <3>2 DEF RowAfter
      <3> QED
        BY <1>1, <3>3 DEF e
    <2> QED
      BY <2>6, <2>7
  <1>4. \A k \in 0 .. n : k \in S
    <2> HIDE DEF S, n
    <2> QED
      BY <1>1, <1>2, <1>3, IntervalInduction
  <1> QED
    BY <1>4

\* Points the run has not written are those it started from.
LEMMA RunPoints ==
    ASSUME NEW b \in Seq(Observation), NEW t \in ListingTable, NEW h \in SnapshotTable,
           Whole(t, h, b), NEW l \in ListingIds, NEW i \in Instants
    PROVE  \A k \in 0 .. StatementCount(b) :
               <<l, i>> \notin Pointed(b, k) =>
                   Persisted(t, h, b)[k].snapshot[l][i] = h[l][i]
  <1> DEFINE n == StatementCount(b)
             S == {k \in 0 .. n : <<l, i>> \notin Pointed(b, k) =>
                                      Persisted(t, h, b)[k].snapshot[l][i] = h[l][i]}
  <1>1. n \in Nat
    BY DEF StatementCount
  <1>2. 0 \in S
    <2>1. Persisted(t, h, b)[0].snapshot = h
      BY PersistedStart
    <2> QED
      BY <1>1, <2>1
  <1>3. ASSUME NEW k \in 1 .. n, k - 1 \in S
        PROVE  k \in S
    <2> DEFINE o == ObservationOf(b, k)
               s == Persisted(t, h, b)[k - 1]
               e == Persisted(t, h, b)[k]
    <2>1. /\ o \in Observation /\ s \in RunState
          /\ IsIdentityStatement(k) => e.snapshot = s.snapshot
          /\ ~ IsIdentityStatement(k) => e.snapshot = AppendSnapshot(s.snapshot, o)
      BY StatementObserves, WholeStep
    <2>2. /\ IsIdentityStatement(k) => Pointed(b, k) = Pointed(b, k - 1)
          /\ ~ IsIdentityStatement(k) =>
                 Pointed(b, k) = Pointed(b, k - 1) \union {<<o.listing, o.at>>}
      BY StatementObserves
    <2>3. <<l, i>> \notin Pointed(b, k - 1) => s.snapshot[l][i] = h[l][i]
      BY <1>3
    <2>4. s.snapshot \in SnapshotTable
      BY <2>1 DEF RunState
    <2> HIDE DEF o, s, e
    <2>5. <<l, i>> \notin Pointed(b, k) => e.snapshot[l][i] = h[l][i]
      <3>1. CASE IsIdentityStatement(k)
        BY <2>1, <2>2, <2>3, <3>1
      <3>2. CASE ~ IsIdentityStatement(k)
        <4>1. e.snapshot[l][i] = IF l = o.listing /\ i = o.at THEN PointOf(o)
                                 ELSE s.snapshot[l][i]
          BY <2>1, <2>4, <3>2, AppendedPoint
        <4> QED
          BY <2>2, <2>3, <3>2, <4>1
      <3> QED
        BY <3>1, <3>2
    <2> QED
      BY <1>1, <2>5 DEF e
  <1>4. \A k \in 0 .. n : k \in S
    <2> HIDE DEF S, n
    <2> QED
      BY <1>1, <1>2, <1>3, IntervalInduction
  <1> QED
    BY <1>4

\* No statement narrows a row.
LEMMA RunWidens ==
    ASSUME NEW b \in Seq(Observation), NEW t \in ListingTable, NEW h \in SnapshotTable,
           Whole(t, h, b), NEW l \in ListingIds, NEW j \in 0 .. StatementCount(b)
    PROVE  \A k \in 0 .. StatementCount(b) : j <= k =>
               Wider(Persisted(t, h, b)[j].listing[l], Persisted(t, h, b)[k].listing[l])
  <1> DEFINE n == StatementCount(b)
             row(k) == Persisted(t, h, b)[k].listing[l]
             S == {k \in 0 .. n : j <= k => Wider(row(j), row(k))}
  <1>1. n \in Nat
    BY DEF StatementCount
  <1>2. \A k \in 0 .. n : row(k) \in ListingRow \union {Null}
    BY RunTables DEF RunState, ListingTable
  <1>3. Wider(row(j), row(j))
    BY <1>2, RowNumbers DEF Wider
  <1>4. 0 \in S
    <2>1. j <= 0 => j = 0
      BY <1>1
    <2> QED
      BY <1>1, <1>3, <2>1
  <1>5. ASSUME NEW k \in 1 .. n, k - 1 \in S
        PROVE  k \in S
    <2> DEFINE o == ObservationOf(b, k)
               s == Persisted(t, h, b)[k - 1]
               e == Persisted(t, h, b)[k]
    <2>1. /\ o \in Observation /\ s \in RunState
          /\ IsIdentityStatement(k) => e.listing = UpsertListing(s.listing, o)
          /\ ~ IsIdentityStatement(k) => e.listing = s.listing
      BY StatementObserves, WholeStep
    <2>2. s.listing \in ListingTable /\ s.listing[l] \in ListingRow \union {Null}
      BY <2>1 DEF RunState, ListingTable
    <2>3. e.listing[l] = s.listing[l] \/ e.listing[l] = MergedRow(s.listing[l], o)
      <3> HIDE DEF o, s, e
      <3> QED
        BY <2>1, <2>2, UpsertedRow
    <2>4. Wider(s.listing[l], e.listing[l])
      <3> HIDE DEF o, s, e
      <3>1. s.listing[l] # Null =>
                /\ MergedRow(s.listing[l], o).first <= s.listing[l].first
                /\ s.listing[l].last <= MergedRow(s.listing[l], o).last
        BY <2>1, <2>2, MergedRowWidens
      <3>2. MergedRow(s.listing[l], o) # Null
        BY <2>1, <2>2, MergedRowSpans, RowIsNotNull
      <3>3. s.listing[l] # Null =>
                s.listing[l].first \in Int /\ s.listing[l].last \in Int
        BY <2>2, RowNumbers
      <3> QED
        BY <2>3, <3>1, <3>2, <3>3 DEF Wider
    <2>5. j <= k - 1 => Wider(row(j), row(k))
      <3> SUFFICES ASSUME j <= k - 1
                   PROVE  Wider(row(j), row(k))
        OBVIOUS
      <3>1. Wider(row(j), row(k - 1)) /\ Wider(row(k - 1), row(k))
        BY <1>5, <2>4
      <3>2. /\ row(j) \in ListingRow \union {Null}
            /\ row(k - 1) \in ListingRow \union {Null}
            /\ row(k) \in ListingRow \union {Null}
        BY <1>1, <1>2
      <3> HIDE DEF row
      <3> QED
        BY <3>1, <3>2, RowNumbers DEF Wider
    <2>6. j <= k => j = k \/ j <= k - 1
      BY <1>1
    <2> QED
      BY <1>1, <1>3, <2>5, <2>6
  <1>6. \A k \in 0 .. n : k \in S
    <2> HIDE DEF S, n
    <2> QED
      BY <1>1, <1>4, <1>5, IntervalInduction
  <1> QED
    BY <1>6

-----------------------------------------------------------------------------
(* Replays *)

\* A replay meets no native identity that its own interrupted run has put in
\* its way: the row that clashes would have stopped the first run.
LEMMA ReplayFindsNoClash ==
    ASSUME NEW b \in Seq(Observation), NEW t \in ListingTable, NEW h \in SnapshotTable,
           Whole(t, h, b), NamesOneNative(b),
           NEW m \in 0 .. StatementCount(b), NEW k \in 1 .. StatementCount(b),
           IsIdentityStatement(k), NEW l \in ListingIds,
           l # ObservationOf(b, k).listing, l \notin Identified(b, k - 1),
           Persisted(t, h, b)[m].listing[l] # Null
    PROVE  Persisted(t, h, b)[m].listing[l].native # ObservationOf(b, k).native
  <1> DEFINE n == StatementCount(b)
             o == ObservationOf(b, k)
             found == Persisted(t, h, b)[m].listing[l]
  <1>1. n \in Nat /\ m \in Nat /\ m <= n
    BY DEF StatementCount
  <1>2. PICK p \in Nat : p < Len(b) /\ k = 2 * p + 1
    BY StatementIsOfObservation, StatementsOfObservation
  <1>3. o = b[p + 1] /\ o \in Observation /\ Len(b) \in Nat /\ o.listing \in ListingIds
    BY <1>2, StatementsOfObservation, StatementObserves, ObservationFields
  <1>4. RowAfter(b, found, t[l], m, l)
    BY RunRows
  <1>5. CASE l \notin Identified(b, m)
    <2>1. found = t[l]
      BY <1>4, <1>5 DEF RowAfter
    <2>2. Persisted(t, h, b)[k - 1].listing[l] = t[l]
      <3>1. k - 1 \in 0 .. n
        BY <1>1
      <3>2. RowAfter(b, Persisted(t, h, b)[k - 1].listing[l], t[l], k - 1, l)
        BY <3>1, RunRows
      <3> QED
        BY <3>2 DEF RowAfter
    <2>3. ~ NativeTaken(Persisted(t, h, b)[k - 1].listing, o)
      BY WholeStep
    <2> QED
      BY <2>1, <2>2, <2>3 DEF NativeTaken
  <1>6. CASE l \in Identified(b, m)
    <2>1. PICK x \in 1 .. ((m + 1) \div 2) : b[x].listing = l
      BY <1>6 DEF Identified
    <2>2. x \in Nat /\ 1 <= x /\ 2 * x - 1 <= m
      BY <1>1, <2>1
    <2>3. /\ x \in 1 .. Len(b) /\ x - 1 \in Nat /\ x - 1 < Len(b)
          /\ 2 * (x - 1) + 1 \in 1 .. n /\ 2 * (x - 1) \in 0 .. n
      BY <1>1, <2>2 DEF StatementCount
    <2>4. x > p + 1
      <3>1. (k - 1 + 1) \div 2 = p
        BY <1>2
      <3>2. x \notin 1 .. p
        BY <2>1, <3>1 DEF Identified
      <3>3. x # p + 1
        BY <1>3, <2>1
      <3> QED
        BY <1>2, <2>2, <3>2, <3>3
    \* the statement of the run that wrote l met the row of o
    <2> DEFINE j == 2 * (x - 1)
    <2>5. j \in 0 .. n /\ j + 1 \in 1 .. n
      BY <2>3
    <2>6. /\ ObservationOf(b, j + 1) = b[x] /\ IsIdentityStatement(j + 1)
          /\ j + 1 - 1 = j
      BY <2>3, StatementsOfObservation
    <2>7. o.listing \in Identified(b, j)
      <3>1. (j + 1) \div 2 = x - 1
        BY <2>2
      <3>2. p + 1 \in 1 .. (x - 1)
        BY <1>2, <2>2, <2>4
      <3> QED
        BY <1>3, <3>1, <3>2 DEF Identified
    <2>8. /\ Persisted(t, h, b)[j].listing[o.listing] # Null
          /\ Persisted(t, h, b)[j].listing[o.listing].native = o.native
      <3>1. RowAfter(b, Persisted(t, h, b)[j].listing[o.listing], t[o.listing],
                     j, o.listing)
        BY <1>3, <2>5, RunRows
      <3>2. p + 1 \in 1 .. Len(b)
        BY <1>2, <1>3
      <3> QED
        BY <1>3, <2>7, <3>1, <3>2, RowIsNotNull DEF RowAfter
    <2>9. ~ NativeTaken(Persisted(t, h, b)[j].listing, b[x])
      <3>1. ~ NativeTaken(Persisted(t, h, b)[j + 1 - 1].listing,
                          ObservationOf(b, j + 1))
        BY <2>5, <2>6, WholeStep
      <3> QED
        BY <2>6, <3>1
    <2>10. b[x].native # o.native
      BY <1>3, <2>1, <2>8, <2>9 DEF NativeTaken
    <2>11. found.native = b[x].native
      BY <1>4, <1>6, <2>1, <2>3 DEF RowAfter
    <2> QED
      BY <2>10, <2>11
  <1> QED
    BY <1>5, <1>6

\* The tables a replay has after k statements, from those its first run had
\* after k and those it found.
Replayed(b, now, run, found, k) ==
    /\ ~ now.raised
    /\ \A l \in ListingIds :
          now.listing[l] = IF l \in Identified(b, k)
                           THEN Joined(run.listing[l], found.listing[l])
                           ELSE found.listing[l]
    /\ \A l \in ListingIds, i \in Instants :
          now.snapshot[l][i] = IF <<l, i>> \in Pointed(b, k)
                               THEN run.snapshot[l][i]
                               ELSE found.snapshot[l][i]

\* Each statement of a replay keeps it next to its first run.
LEMMA ReplayStep ==
    ASSUME NEW b \in Seq(Observation), NEW t \in ListingTable, NEW h \in SnapshotTable,
           Whole(t, h, b), NamesOneNative(b),
           NEW m \in 0 .. StatementCount(b), NEW k \in 1 .. StatementCount(b),
           NEW now \in RunState,
           Replayed(b, now, Persisted(t, h, b)[k - 1], Persisted(t, h, b)[m], k - 1)
    PROVE  Replayed(b, Execute(now, b, k), Persisted(t, h, b)[k],
                    Persisted(t, h, b)[m], k)
  <1>0. PICK o, s, e, found, next :
            /\ o = ObservationOf(b, k)
            /\ s = Persisted(t, h, b)[k - 1]
            /\ e = Persisted(t, h, b)[k]
            /\ found = Persisted(t, h, b)[m]
            /\ next = Execute(now, b, k)
    OBVIOUS
  <1>1. /\ o \in Observation /\ s \in RunState /\ e \in RunState /\ found \in RunState
        /\ IsIdentityStatement(k) => /\ ~ NativeTaken(s.listing, o)
                                     /\ e.listing = UpsertListing(s.listing, o)
                                     /\ e.snapshot = s.snapshot
        /\ ~ IsIdentityStatement(k) => /\ e.listing = s.listing
                                       /\ e.snapshot = AppendSnapshot(s.snapshot, o)
    BY <1>0, StatementObserves, WholeStep, RunTables
  <1>2. /\ IsIdentityStatement(k) =>
               /\ Identified(b, k) = Identified(b, k - 1) \union {o.listing}
               /\ Pointed(b, k) = Pointed(b, k - 1)
        /\ ~ IsIdentityStatement(k) =>
               /\ Identified(b, k) = Identified(b, k - 1)
               /\ Pointed(b, k) = Pointed(b, k - 1) \union {<<o.listing, o.at>>}
    BY <1>0, StatementObserves
  <1>3. Replayed(b, now, s, found, k - 1)
    BY <1>0
  <1>4. /\ o.listing \in ListingIds /\ o.at \in Instants
        /\ now.listing \in ListingTable /\ now.snapshot \in SnapshotTable
        /\ s.listing \in ListingTable /\ s.snapshot \in SnapshotTable
        /\ found.listing \in ListingTable /\ found.snapshot \in SnapshotTable
    BY <1>1, ObservationFields DEF RunState
  <1>5. \A l \in ListingIds : /\ s.listing[l] \in ListingRow \union {Null}
                              /\ found.listing[l] \in ListingRow \union {Null}
    BY <1>4 DEF ListingTable
  <1>6. \A l \in ListingIds : RowAfter(b, s.listing[l], t[l], k - 1, l)
    <2>1. k - 1 \in 0 .. StatementCount(b)
      BY DEF StatementCount
    <2> QED
      BY <1>0, <2>1, RunRows
  <1>7. \A l \in ListingIds : l \in Identified(b, k - 1) => s.listing[l] \in ListingRow
    BY <1>6 DEF RowAfter
  <1>8. CASE IsIdentityStatement(k)
    <2>1. ~ NativeTaken(now.listing, o)
      <3> SUFFICES ASSUME NEW l \in ListingIds \ {o.listing},
                          now.listing[l] # Null, now.listing[l].native = o.native
                   PROVE  FALSE
        BY DEF NativeTaken
      <3>1. CASE l \in Identified(b, k - 1)
        <4>1. s.listing[l] \in ListingRow
          BY <1>7, <3>1
        <4>2. now.listing[l] = Joined(s.listing[l], found.listing[l])
          BY <1>3, <3>1 DEF Replayed
        <4>3. now.listing[l].native = s.listing[l].native
          BY <4>1, <4>2, JoinedFields
        <4>4. s.listing[l] # Null /\ s.listing[l].native = o.native
          BY <4>1, <4>3, RowIsNotNull
        <4> QED
          BY <1>1, <1>8, <4>4 DEF NativeTaken
      <3>2. CASE l \notin Identified(b, k - 1)
        <4>1. now.listing[l] = found.listing[l]
          BY <1>3, <3>2 DEF Replayed
        <4> QED
          BY <1>0, <1>8, <3>2, <4>1, ReplayFindsNoClash
      <3> QED
        BY <3>1, <3>2
    <2>2. /\ ~ next.raised /\ next.listing = UpsertListing(now.listing, o)
          /\ next.snapshot = now.snapshot
      <3>1. ~ now.raised
        BY <1>3 DEF Replayed
      <3> QED
        BY <1>0, <1>8, <2>1, <3>1, ExecuteOutcome
    <2>3. ASSUME NEW l \in ListingIds
          PROVE  next.listing[l] = IF l \in Identified(b, k)
                                   THEN Joined(e.listing[l], found.listing[l])
                                   ELSE found.listing[l]
      <3>1. CASE l # o.listing
        <4>1. next.listing[l] = now.listing[l] /\ e.listing[l] = s.listing[l]
          BY <1>1, <1>4, <1>8, <2>2, <3>1, UpsertedRow
        <4>2. l \in Identified(b, k) <=> l \in Identified(b, k - 1)
          BY <1>2, <1>8, <3>1
        <4> QED
          BY <1>3, <4>1, <4>2 DEF Replayed
      <3>2. CASE l = o.listing
        <4>1. /\ next.listing[l] = MergedRow(now.listing[l], o)
              /\ e.listing[l] = MergedRow(s.listing[l], o)
          BY <1>1, <1>4, <1>8, <2>2, <3>2, UpsertedRow
        <4>2. l \in Identified(b, k)
          BY <1>2, <1>8, <3>2
        <4>3. CASE l \in Identified(b, k - 1)
          <5>1. now.listing[l] = Joined(s.listing[l], found.listing[l])
            BY <1>3, <4>3 DEF Replayed
          <5>2. s.listing[l] \in ListingRow
            BY <1>7, <4>3
          <5> QED
            BY <1>1, <1>5, <4>1, <4>2, <5>1, <5>2, JoinNext
        <4>4. CASE l \notin Identified(b, k - 1)
          <5>1. now.listing[l] = found.listing[l]
            BY <1>3, <4>4 DEF Replayed
          <5>2. s.listing[l] = t[l]
            BY <1>6, <4>4 DEF RowAfter
          <5>3. Wider(t[l], found.listing[l])
            <6>1. 0 \in 0 .. StatementCount(b) /\ 0 <= m
              BY DEF StatementCount
            <6>2. Wider(Persisted(t, h, b)[0].listing[l], Persisted(t, h, b)[m].listing[l])
              BY <6>1, RunWidens
            <6> QED
              BY <1>0, <6>2, PersistedStart
          <5> QED
            BY <1>1, <1>5, <4>1, <4>2, <5>1, <5>2, <5>3, JoinFirst
        <4> QED
          BY <4>3, <4>4
      <3> QED
        BY <3>1, <3>2
    <2>4. \A l \in ListingIds, i \in Instants :
              next.snapshot[l][i] = IF <<l, i>> \in Pointed(b, k)
                                    THEN e.snapshot[l][i]
                                    ELSE found.snapshot[l][i]
      <3>1. /\ Pointed(b, k) = Pointed(b, k - 1)
            /\ e.snapshot = s.snapshot /\ next.snapshot = now.snapshot
        BY <1>1, <1>2, <1>8, <2>2
      <3> QED
        BY <1>3, <3>1 DEF Replayed
    <2> QED
      BY <1>0, <2>2, <2>3, <2>4 DEF Replayed
  <1>9. CASE ~ IsIdentityStatement(k)
    <2>1. /\ ~ next.raised /\ next.listing = now.listing
          /\ next.snapshot = AppendSnapshot(now.snapshot, o)
      <3>1. ~ now.raised
        BY <1>3 DEF Replayed
      <3> QED
        BY <1>0, <1>9, <3>1, ExecuteOutcome
    <2>2. \A l \in ListingIds :
              next.listing[l] = IF l \in Identified(b, k)
                                THEN Joined(e.listing[l], found.listing[l])
                                ELSE found.listing[l]
      BY <1>1, <1>2, <1>3, <1>9, <2>1 DEF Replayed
    <2>3. ASSUME NEW l \in ListingIds, NEW i \in Instants
          PROVE  next.snapshot[l][i] = IF <<l, i>> \in Pointed(b, k)
                                       THEN e.snapshot[l][i]
                                       ELSE found.snapshot[l][i]
      <3>1. /\ next.snapshot[l][i] = IF l = o.listing /\ i = o.at THEN PointOf(o)
                                     ELSE now.snapshot[l][i]
            /\ e.snapshot[l][i] = IF l = o.listing /\ i = o.at THEN PointOf(o)
                                  ELSE s.snapshot[l][i]
        BY <1>1, <1>4, <1>9, <2>1, AppendedPoint
      <3>2. now.snapshot[l][i] = IF <<l, i>> \in Pointed(b, k - 1)
                                 THEN s.snapshot[l][i]
                                 ELSE found.snapshot[l][i]
        BY <1>3 DEF Replayed
      <3>3. <<l, i>> \in Pointed(b, k) <=>
                <<l, i>> \in Pointed(b, k - 1) \/ (l = o.listing /\ i = o.at)
        BY <1>2, <1>9
      <3> QED
        BY <3>1, <3>2, <3>3
    <2> QED
      BY <1>0, <2>1, <2>2, <2>3 DEF Replayed
  <1> QED
    BY <1>8, <1>9

\* A replay is next to its first run after every number of statements.
LEMMA ReplayFollows ==
    ASSUME NEW b \in Seq(Observation), NEW t \in ListingTable, NEW h \in SnapshotTable,
           Whole(t, h, b), NamesOneNative(b), NEW m \in 0 .. StatementCount(b)
    PROVE  LET found == Persisted(t, h, b)[m]
           IN  \A k \in 0 .. StatementCount(b) :
                   Replayed(b, Persisted(found.listing, found.snapshot, b)[k],
                            Persisted(t, h, b)[k], found, k)
  <1>0. PICK n, found : n = StatementCount(b) /\ found = Persisted(t, h, b)[m]
    OBVIOUS
  <1>1. PICK tt, hh : tt = found.listing /\ hh = found.snapshot
    OBVIOUS
  <1>2. /\ n \in Nat /\ found \in RunState
        /\ tt \in ListingTable /\ hh \in SnapshotTable
    BY <1>0, <1>1, RunTables DEF StatementCount, RunState
  <1> DEFINE good(k) == Replayed(b, Persisted(tt, hh, b)[k], Persisted(t, h, b)[k], found, k)
             S == {k \in 0 .. n : good(k)}
  <1>3. 0 \in S
    <2>1. Identified(b, 0) = {} /\ Pointed(b, 0) = {}
      <3>1. (0 + 1) \div 2 = 0 /\ 0 \div 2 = 0
        OBVIOUS
      <3> QED
        BY <3>1 DEF Identified, Pointed
    <2>2. /\ Persisted(tt, hh, b)[0].listing = tt /\ Persisted(tt, hh, b)[0].snapshot = hh
          /\ ~ Persisted(tt, hh, b)[0].raised
      BY PersistedStart
    <2>3. good(0)
      BY <1>1, <2>1, <2>2 DEF Replayed
    <2> QED
      BY <1>2, <2>3
  <1>4. ASSUME NEW k \in 1 .. n, k - 1 \in S
        PROVE  k \in S
    <2>1. Persisted(tt, hh, b)[k - 1] \in RunState
      <3>1. k - 1 \in 0 .. StatementCount(b)
        BY <1>0, <1>2
      <3> QED
        BY <1>2, <3>1, RunTables
    <2>2. good(k - 1)
      BY <1>4
    <2>3. Persisted(tt, hh, b)[k] = Execute(Persisted(tt, hh, b)[k - 1], b, k)
      BY <1>0, <1>2, PersistedSteps
    <2>4. good(k)
      <3>1. k \in 1 .. StatementCount(b)
        BY <1>0
      <3>2. Replayed(b, Persisted(tt, hh, b)[k - 1], Persisted(t, h, b)[k - 1],
                     Persisted(t, h, b)[m], k - 1)
        BY <1>0, <2>2
      <3>3. Replayed(b, Execute(Persisted(tt, hh, b)[k - 1], b, k),
                     Persisted(t, h, b)[k], Persisted(t, h, b)[m], k)
        BY <2>1, <3>1, <3>2, ReplayStep
      <3> QED
        BY <1>0, <2>3, <3>3
    <2> QED
      BY <1>2, <2>4
  <1>5. \A k \in 0 .. n : k \in S
    <2> HIDE DEF S
    <2> QED
      BY <1>2, <1>3, <1>4, IntervalInduction
  <1> QED
    BY <1>0, <1>1, <1>5

\* A whole run after any part of one ends in the tables of one whole run.
LEMMA ReplayConverges ==
    ASSUME NEW b \in Seq(Observation), NEW t \in ListingTable, NEW h \in SnapshotTable,
           Whole(t, h, b), NamesOneNative(b), NEW m \in 0 .. StatementCount(b)
    PROVE  Persisted(Persisted(t, h, b)[m].listing, Persisted(t, h, b)[m].snapshot, b)
                    [StatementCount(b)]
               = Persisted(t, h, b)[StatementCount(b)]
  <1>0. PICK n, found, run, now :
            /\ n = StatementCount(b)
            /\ found = Persisted(t, h, b)[m]
            /\ run = Persisted(t, h, b)[n]
            /\ now = Persisted(found.listing, found.snapshot, b)[n]
    OBVIOUS
  <1>1. n \in Nat /\ n \in 0 .. StatementCount(b) /\ m <= n
    BY <1>0 DEF StatementCount
  <1>2. found \in RunState /\ run \in RunState /\ now \in RunState
    <2>1. found \in RunState /\ run \in RunState
      BY <1>0, <1>1, RunTables
    <2>2. found.listing \in ListingTable /\ found.snapshot \in SnapshotTable
      BY <2>1 DEF RunState
    <2> QED
      BY <1>0, <1>1, <2>1, <2>2, RunTables
  <1>3. /\ found.listing \in ListingTable /\ found.snapshot \in SnapshotTable
        /\ run.listing \in ListingTable /\ run.snapshot \in SnapshotTable
        /\ now.listing \in ListingTable /\ now.snapshot \in SnapshotTable
    BY <1>2 DEF RunState
  <1>4. Replayed(b, now, run, found, n)
    BY <1>0, <1>1, ReplayFollows
  <1>5. \A x : x \in 1 .. ((m + 1) \div 2) => x \in 1 .. ((n + 1) \div 2)
    BY <1>1
  <1>6. \A x : x \in 1 .. (m \div 2) => x \in 1 .. (n \div 2)
    BY <1>1
  <1>7. \A l : l \in Identified(b, m) => l \in Identified(b, n)
    BY <1>5 DEF Identified
  <1>8. \A p : p \in Pointed(b, m) => p \in Pointed(b, n)
    BY <1>6 DEF Pointed
  <1>9. ASSUME NEW l \in ListingIds
        PROVE  now.listing[l] = run.listing[l]
    <2>1. RowAfter(b, run.listing[l], t[l], n, l) /\ RowAfter(b, found.listing[l], t[l], m, l)
      BY <1>0, <1>1, RunRows
    <2>2. CASE l \in Identified(b, n)
      <3>1. run.listing[l] \in ListingRow
        BY <2>1, <2>2 DEF RowAfter
      <3>2. found.listing[l] \in ListingRow \union {Null}
        BY <1>3 DEF ListingTable
      <3>3. Wider(found.listing[l], run.listing[l])
        BY <1>0, <1>1, RunWidens
      <3>4. now.listing[l] = Joined(run.listing[l], found.listing[l])
        BY <1>4, <2>2 DEF Replayed
      <3> QED
        BY <3>1, <3>2, <3>3, <3>4, JoinLast
    <2>3. CASE l \notin Identified(b, n)
      BY <1>4, <1>7, <2>1, <2>3 DEF RowAfter, Replayed
    <2> QED
      BY <2>2, <2>3
  <1>10. ASSUME NEW l \in ListingIds, NEW i \in Instants
         PROVE  now.snapshot[l][i] = run.snapshot[l][i]
    <2>1. <<l, i>> \notin Pointed(b, n) => run.snapshot[l][i] = h[l][i]
      BY <1>0, <1>1, RunPoints
    <2>2. <<l, i>> \notin Pointed(b, m) => found.snapshot[l][i] = h[l][i]
      BY <1>0, RunPoints
    <2> QED
      BY <1>4, <1>8, <2>1, <2>2 DEF Replayed
  <1>11. now.listing = run.listing
    BY <1>3, <1>9 DEF ListingTable
  <1>12. now.snapshot = run.snapshot
    <2>1. ASSUME NEW l \in ListingIds
          PROVE  now.snapshot[l] = run.snapshot[l]
      <3>1. /\ now.snapshot[l] \in [Instants -> SnapshotPoint \union {Null}]
            /\ run.snapshot[l] \in [Instants -> SnapshotPoint \union {Null}]
        BY <1>3 DEF SnapshotTable
      <3> QED
        BY <1>10, <3>1
    <2> QED
      BY <1>3, <2>1 DEF SnapshotTable
  <1>13. ~ now.raised /\ ~ run.raised
    BY <1>0, <1>4 DEF Replayed, Whole
  <1>14. now = run
    BY <1>2, <1>11, <1>12, <1>13 DEF RunState
  <1> QED
    BY <1>0, <1>14

\* A batch that an exception or the death of the process interrupted is repaired
\* by ingesting it again: from every reachable tables, whatever part of it was
\* stored, the whole batch then leaves the tables one whole run leaves.
THEOREM RetryRepairs == Spec => []RetryConverges
  <1>1. TypeOK => RetryConverges
    <2> SUFFICES ASSUME TypeOK, NEW b \in Batches, Whole(listing, snapshot, b),
                        NEW k \in 0 .. StatementCount(b)
                 PROVE  Persisted(Persisted(listing, snapshot, b)[k].listing,
                                  Persisted(listing, snapshot, b)[k].snapshot, b)
                                 [StatementCount(b)]
                            = Persisted(listing, snapshot, b)[StatementCount(b)]
      BY Zenon DEF RetryConverges, Whole
    <2>1. b \in Seq(Observation) /\ NamesOneNative(b)
      BY BatchesAreObservations, IdNamesOneNative DEF NamesOneNative
    <2>2. listing \in ListingTable /\ snapshot \in SnapshotTable
      BY DEF TypeOK
    <2> QED
      BY <2>1, <2>2, ReplayConverges
  <1> QED
    BY <1>1, TypeCorrect, PTL
=============================================================================
