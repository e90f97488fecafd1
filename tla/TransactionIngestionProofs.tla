--------------------- MODULE TransactionIngestionProofs ---------------------
(***************************************************************************)
(* What TransactionIngestion guarantees for every fetch result, window and *)
(* number of calls.                                                        *)
(*                                                                         *)
(* That the first acceptable record of an identity is kept follows from    *)
(* three facts about the positions kept so far, which are what IInv says:  *)
(* they are increasing, no two share an identity, and every record that    *)
(* passed so far has a kept one of its identity at or before it.           *)
(***************************************************************************)
EXTENDS TransactionIngestion, TLAPS, FiniteSetTheorems

Accepts(c, i) == Verdict(RecordAt(c, i), ingest[c].window) = Accepted

KeptInv(c) ==
    /\ ingest[c].examined <= Len(ingest[c].fetched.records)
    /\ \A k \in 1 .. Len(ingest[c].accepted) :
          /\ ingest[c].accepted[k] \in 1 .. ingest[c].examined
          /\ Accepts(c, ingest[c].accepted[k])
    /\ \A k, m \in 1 .. Len(ingest[c].accepted) :
          /\ k < m => ingest[c].accepted[k] < ingest[c].accepted[m]
          /\ KeptAt(c, k).native = KeptAt(c, m).native => k = m
    /\ \A i \in 1 .. ingest[c].examined : Accepts(c, i) =>
          \E k \in 1 .. Len(ingest[c].accepted) :
              /\ ingest[c].accepted[k] <= i
              /\ KeptAt(c, k).native = RecordAt(c, i).native

\* Where a call stands, and what it has stored.
ProgressInv(c) ==
    /\ ingest[c].pc \in {"idle", "fetching"} =>
           ingest[c].examined = 0 /\ ingest[c].accepted = <<>>
    /\ ingest[c].pc # "idle" =>
           ingest[c].community \in Communities /\ ingest[c].window \in Windows
    /\ ingest[c].pc \in {"idle", "fetching", "normalizing"} =>
           ingest[c].upserted = 0
    /\ ingest[c].upserted <= Len(ingest[c].accepted)
    /\ ingest[c].pc = "done" => ingest[c].upserted = Len(ingest[c].accepted)
    /\ \A k \in 1 .. ingest[c].upserted :
          /\ deals[KeptAt(c, k).native] # Null
          /\ ingest[c].pc = "upserting" =>
                 deals[KeptAt(c, k).native] = RowFor(c, k)

LoopInv == \A c, d \in Calls : Holding(c) /\ Holding(d) => c = d

IInv ==
    /\ TypeOK
    /\ LoopInv
    /\ StoredDealWasAccepted
    /\ \A c \in Calls : KeptInv(c) /\ ProgressInv(c)


-----------------------------------------------------------------------------
(* The gates *)

\* A ratio of integers over a positive area.
LEMMA DerivedIsRatio ==
    ASSUME NEW num \in Int, NEW den \in Int, den > 0
    PROVE  [num |-> num, den |-> den] \in Ratio
  BY DEF Ratio

\* What normalize_transaction accepts is a canonical transaction.
LEMMA AcceptedFits ==
    ASSUME NEW r \in Records, NEW w \in Window, Verdict(r, w) = Accepted
    PROVE  /\ TransactionOf(r) \in Transaction
           /\ FitsSchema(TransactionOf(r))
           /\ TransactionOf(r).native = r.native
           /\ r.native \in Sources
  <1>1. /\ r.native # Null /\ r.deal_date # Null
        /\ ~ NotPositive(r.area) /\ ~ NotPositive(r.deal_price)
        /\ FitsSchema(TransactionOf(r))
    BY DEF Verdict, Accepted
  <1>2. /\ r.native \in Sources /\ r.deal_date \in Int /\ r.collected \in Int
        /\ r.area \in Int /\ r.area > 0 /\ r.deal_price \in Int
        /\ r.listing_price \in Int \union {Null}
        /\ r.days_on_market \in Int \union {Null}
        /\ r.unit_price \in Ratio \union {Null}
        /\ r.built_year \in Int \union {Null}
    BY <1>1 DEF Records, NotPositive
  <1>3. UnitPrice(r) \in Ratio
    BY <1>2, DerivedIsRatio DEF UnitPrice, Derived
  <1>4. CoerceFloorBucket(r.floor_bucket) \in FloorBuckets
    BY UnknownIsABucket DEF CoerceFloorBucket
  <1> QED
    BY <1>1, <1>2, <1>3, <1>4 DEF TransactionOf, Transaction

-----------------------------------------------------------------------------
(* Frames *)

\* The records of a frame are records, and its window is one.
LEMMA FrameRecords ==
    ASSUME NEW f \in Frame
    PROVE  /\ f.fetched.records \in Seq(Records)
           /\ \A i \in 1 .. Len(f.fetched.records) : f.fetched.records[i] \in Records
           /\ f.window \in Window
           /\ f.examined \in Nat
           /\ f.upserted \in Nat
           /\ f.accepted \in Seq(Nat \ {0})
           /\ f.rejections \in Seq(Rejection)
  <1>1. f.fetched \in FetchResult \/ f.fetched = NoFetch
    BY FetchesAreValid DEF Frame
  <1>2. f.fetched.records \in Seq(Records)
    <2>1. CASE f.fetched \in FetchResult
      BY <2>1 DEF FetchResult
    <2>2. CASE f.fetched = NoFetch
      <3>1. f.fetched.records = << >>
        BY <2>2 DEF NoFetch
      <3> QED
        BY <3>1
    <2> QED
      BY <1>1, <2>1, <2>2
  <1>3. f.window \in Window
    BY WindowsAreRanges DEF Frame, Window, NoWindow
  <1> QED
    BY <1>2, <1>3 DEF Frame

\* A frame that only moves stays a frame.
LEMMA FrameMoves ==
    ASSUME NEW f \in Frame, NEW p \in {"idle"} \union Live \union Ended
    PROVE  /\ [f EXCEPT !.pc = p] \in Frame
           /\ [f EXCEPT !.pc = p].pc = p
           /\ [f EXCEPT !.pc = p].community = f.community
           /\ [f EXCEPT !.pc = p].window = f.window
           /\ [f EXCEPT !.pc = p].fetched = f.fetched
           /\ [f EXCEPT !.pc = p].examined = f.examined
           /\ [f EXCEPT !.pc = p].accepted = f.accepted
           /\ [f EXCEPT !.pc = p].rejections = f.rejections
           /\ [f EXCEPT !.pc = p].upserted = f.upserted
  BY DEF Frame

\* A frame whose pass over the records is where it was keeps KeptInv.
LEMMA KeptUnchanged ==
    ASSUME NEW c \in Calls, KeptInv(c),
           ingest'[c].fetched = ingest[c].fetched,
           ingest'[c].window = ingest[c].window,
           ingest'[c].examined = ingest[c].examined,
           ingest'[c].accepted = ingest[c].accepted
    PROVE  KeptInv(c)'
  <1>1. (ingest[c].examined <= Len(ingest[c].fetched.records))'
    BY DEF KeptInv
  <1>2. (\A k \in 1 .. Len(ingest[c].accepted) :
           /\ ingest[c].accepted[k] \in 1 .. ingest[c].examined
           /\ Accepts(c, ingest[c].accepted[k]))'
    BY DEF KeptInv, Accepts, RecordAt
  <1>3. (\A k, m \in 1 .. Len(ingest[c].accepted) :
           /\ k < m => ingest[c].accepted[k] < ingest[c].accepted[m]
           /\ KeptAt(c, k).native = KeptAt(c, m).native => k = m)'
    BY DEF KeptInv, KeptAt, RecordAt
  <1>4. (\A i \in 1 .. ingest[c].examined : Accepts(c, i) =>
           \E k \in 1 .. Len(ingest[c].accepted) :
               /\ ingest[c].accepted[k] <= i
               /\ KeptAt(c, k).native = RecordAt(c, i).native)'
    BY DEF KeptInv, Accepts, KeptAt, RecordAt
  <1> QED
    BY <1>1, <1>2, <1>3, <1>4 DEF KeptInv

\* A frame that has kept nothing yet.
LEMMA KeptNothing ==
    ASSUME NEW c \in Calls, ingest'[c].examined = 0, ingest'[c].accepted = <<>>,
           ingest'[c].fetched.records \in Seq(Records)
    PROVE  KeptInv(c)'
  <1>1. Len(ingest'[c].fetched.records) \in Nat
    OBVIOUS
  <1> QED
    BY <1>1 DEF KeptInv

\* Rows stay explained while no frame forgets what it kept.
LEMMA StoredPersists ==
    ASSUME StoredDealWasAccepted, deals' = deals,
           \A c \in Calls : Kept(c) # {} =>
               /\ Kept(c) \subseteq Kept(c)'
               /\ ingest'[c].fetched = ingest[c].fetched
               /\ ingest'[c].window = ingest[c].window
               /\ ingest'[c].community = ingest[c].community
    PROVE  StoredDealWasAccepted'
  <1> SUFFICES ASSUME NEW s \in Sources, deals'[s] # Null
               PROVE  \E c \in Calls : \E i \in Kept(c)' :
                        /\ Verdict(RecordAt(c, i), ingest[c].window)' = Accepted
                        /\ deals'[s] = [community |-> ingest'[c].community,
                               transaction |-> TransactionOf(RecordAt(c, i)')]
    BY DEF StoredDealWasAccepted
  <1>1. PICK c \in Calls : \E i \in Kept(c) :
            /\ Verdict(RecordAt(c, i), ingest[c].window) = Accepted
            /\ deals[s] = [community |-> ingest[c].community,
                           transaction |-> TransactionOf(RecordAt(c, i))]
    BY DEF StoredDealWasAccepted
  <1>2. PICK i \in Kept(c) :
            /\ Verdict(RecordAt(c, i), ingest[c].window) = Accepted
            /\ deals[s] = [community |-> ingest[c].community,
                           transaction |-> TransactionOf(RecordAt(c, i))]
    BY <1>1
  <1>3. /\ i \in Kept(c)'
        /\ RecordAt(c, i)' = RecordAt(c, i)
        /\ ingest'[c].window = ingest[c].window
        /\ ingest'[c].community = ingest[c].community
    BY <1>2 DEF RecordAt
  <1> QED
    BY <1>2, <1>3

\* A step that only moves the calls of D to the step p they are ready for.
LEMMA MoveKeepsIInv ==
    ASSUME IInv, NEW D \in SUBSET Calls, NEW p \in {"upserting"} \union Ended,
           deals' = deals, crashes' \in 0 .. MaxCrashes,
           ingest' = [c \in Calls |->
                        IF c \in D THEN [ingest[c] EXCEPT !.pc = p] ELSE ingest[c]],
           \A c \in D : /\ ingest[c].pc \in Live
                        /\ p = "upserting" => ingest[c].pc = "normalizing"
                        /\ p = "done" => ingest[c].upserted = Len(ingest[c].accepted)
    PROVE  IInv'
  <1>1. \A c \in Calls :
          /\ ingest[c] \in Frame /\ ingest'[c] \in Frame
          /\ ingest'[c].pc = IF c \in D THEN p ELSE ingest[c].pc
          /\ ingest'[c].community = ingest[c].community
          /\ ingest'[c].window = ingest[c].window
          /\ ingest'[c].fetched = ingest[c].fetched
          /\ ingest'[c].examined = ingest[c].examined
          /\ ingest'[c].accepted = ingest[c].accepted
          /\ ingest'[c].upserted = ingest[c].upserted
    <2> SUFFICES ASSUME NEW c \in Calls
                 PROVE  /\ ingest[c] \in Frame /\ ingest'[c] \in Frame
                        /\ ingest'[c].pc = IF c \in D THEN p ELSE ingest[c].pc
                        /\ ingest'[c].community = ingest[c].community
                        /\ ingest'[c].window = ingest[c].window
                        /\ ingest'[c].fetched = ingest[c].fetched
                        /\ ingest'[c].examined = ingest[c].examined
                        /\ ingest'[c].accepted = ingest[c].accepted
                        /\ ingest'[c].upserted = ingest[c].upserted
      OBVIOUS
    <2>1. ingest[c] \in Frame
      BY DEF IInv, TypeOK
    <2>2. CASE c \notin D
      BY <2>1, <2>2
    <2>3. CASE c \in D
      <3>1. ingest'[c] = [ingest[c] EXCEPT !.pc = p]
        BY <2>3
      <3>2. p \in {"idle"} \union Live \union Ended
        BY DEF Live
      <3>3. ingest'[c] \in Frame
        BY <2>1, <3>1, <3>2, FrameMoves
      <3>4. ingest'[c].pc = p
        BY <2>1, <3>1 DEF Frame
      <3>5. /\ ingest'[c].community = ingest[c].community
            /\ ingest'[c].window = ingest[c].window
            /\ ingest'[c].fetched = ingest[c].fetched
        BY <2>1, <3>1, <3>2, FrameMoves
      <3>6. /\ ingest'[c].examined = ingest[c].examined
            /\ ingest'[c].accepted = ingest[c].accepted
            /\ ingest'[c].upserted = ingest[c].upserted
        BY <2>1, <3>1, <3>2, FrameMoves
      <3> QED
        BY <2>1, <2>3, <3>3, <3>4, <3>5, <3>6
    <2> QED
      BY <2>2, <2>3
  <1>2. TypeOK'
    BY <1>1 DEF IInv, TypeOK
  <1>3. \A c \in Calls : Holding(c)' => Holding(c)
    BY <1>1 DEF Holding, Ended
  <1>4. LoopInv'
    BY <1>3 DEF IInv, LoopInv
  <1>5. StoredDealWasAccepted'
    BY <1>1, StoredPersists DEF IInv, Kept
  <1>6. \A c \in Calls : KeptInv(c)'
    BY <1>1, KeptUnchanged DEF IInv
  <1>7. ASSUME NEW c \in Calls
        PROVE  ProgressInv(c)'
    <2>1. ProgressInv(c)
      BY DEF IInv
    <2>2. CASE c \notin D
      BY <1>1, <2>1, <2>2 DEF ProgressInv, KeptAt, RecordAt, RowFor
    <2>3. CASE c \in D
      <3>1. /\ ingest'[c].pc = p
            /\ ingest[c].pc # "idle"
            /\ p = "upserting" => ingest[c].upserted = 0
            /\ p = "done" => ingest[c].upserted = Len(ingest[c].accepted)
        BY <1>1, <2>1, <2>3 DEF ProgressInv, Live
      <3>2. p \notin {"idle", "fetching", "normalizing"}
        BY DEF Ended
      <3>3. \A k : KeptAt(c, k)' = KeptAt(c, k)
        BY <1>1 DEF KeptAt, RecordAt
      <3> QED
        BY <1>1, <2>1, <3>1, <3>2, <3>3 DEF ProgressInv
    <2> QED
      BY <2>2, <2>3
  <1> QED
    BY <1>2, <1>4, <1>5, <1>6, <1>7 DEF IInv

\* A call whose frame a step leaves alone, while the table is left alone too.
LEMMA OthersKeep ==
    ASSUME IInv, NEW d \in Calls, ingest'[d] = ingest[d], deals' = deals
    PROVE  KeptInv(d)' /\ ProgressInv(d)'
  <1>1. KeptInv(d) /\ ProgressInv(d)
    BY DEF IInv
  <1>2. KeptInv(d)'
    BY <1>1, KeptUnchanged
  <1>3. \A k : KeptAt(d, k)' = KeptAt(d, k) /\ RowFor(d, k)' = RowFor(d, k)
    BY DEF KeptAt, RecordAt, RowFor
  <1>4. ProgressInv(d)'
    BY <1>1, <1>3 DEF ProgressInv
  <1> QED
    BY <1>2, <1>4

-----------------------------------------------------------------------------
(* The steps *)

\* The first frames have kept and stored nothing.
LEMMA InitIInv == Init => IInv
  <1> SUFFICES ASSUME Init PROVE IInv
    OBVIOUS
  <1>1. TypeOK
    <2>1. << >> \in Seq(Nat \ {0}) /\ << >> \in Seq(Rejection)
      OBVIOUS
    <2>2. \A c \in Calls : ingest[c] \in Frame
      BY <2>1 DEF Init, Frame
    <2> QED
      BY <2>2, CrashesAreBounded DEF Init, TypeOK
  <1>2. \A c \in Calls : ingest[c].pc = "idle" /\ ingest[c].examined = 0
            /\ ingest[c].accepted = << >> /\ ingest[c].upserted = 0
            /\ ingest[c].fetched.records = << >>
    BY DEF Init, NoFetch
  <1>3. LoopInv
    BY <1>2 DEF LoopInv, Holding
  <1>4. StoredDealWasAccepted
    BY DEF Init, StoredDealWasAccepted
  <1>5. \A c \in Calls : KeptInv(c) /\ ProgressInv(c)
    BY <1>2 DEF KeptInv, ProgressInv
  <1> QED
    BY <1>1, <1>3, <1>4, <1>5 DEF IInv

\* Until its answer is there, a call has kept nothing, and it gets no nearer to
\* the table by being made or answered while the loop is free.
LEMMA FreshKeepsIInv ==
    ASSUME IInv, NEW c \in Calls, LoopIsFree, deals' = deals, crashes' = crashes,
           ingest[c].pc \in {"idle", "fetching"},
           ingest'[c].pc \in {"fetching", "normalizing"},
           ingest'[c].community \in Communities, ingest'[c].window \in Windows,
           ingest'[c].examined = ingest[c].examined,
           ingest'[c].accepted = ingest[c].accepted,
           ingest'[c].upserted = ingest[c].upserted,
           ingest' \in [Calls -> Frame],
           \A d \in Calls \ {c} : ingest'[d] = ingest[d]
    PROVE  IInv'
  <1>1. TypeOK'
    BY DEF IInv, TypeOK
  <1>2. LoopInv'
    <2>1. \A d \in Calls : ~ Holding(d)
      BY DEF LoopIsFree
    <2>2. \A d \in Calls \ {c} : ~ Holding(d)'
      BY <2>1 DEF Holding
    <2> QED
      BY <2>2 DEF LoopInv
  <1>3. ingest'[c].examined = 0 /\ ingest'[c].accepted = << >> /\ ingest'[c].upserted = 0
    BY DEF IInv, ProgressInv
  <1>4. KeptInv(c)'
    <2>1. ingest'[c].fetched.records \in Seq(Records)
      BY FrameRecords
    <2> QED
      BY <2>1, <1>3, KeptNothing
  <1>5. ProgressInv(c)'
    <2>1. Len(ingest'[c].accepted) = 0
      BY <1>3
    <2> QED
      BY <1>3, <2>1 DEF ProgressInv
  <1>6. \A d \in Calls \ {c} : KeptInv(d)' /\ ProgressInv(d)'
    BY OthersKeep
  <1>7. StoredDealWasAccepted'
    <2>1. Kept(c) = {}
      BY DEF IInv, ProgressInv, Kept
    <2>2. \A d \in Calls \ {c} : Kept(d)' = Kept(d)
      BY DEF Kept
    <2> QED
      BY <2>1, <2>2, StoredPersists DEF IInv
  <1> QED
    BY <1>1, <1>2, <1>4, <1>5, <1>6, <1>7 DEF IInv

LEMMA CallKeepsIInv ==
    ASSUME IInv, NEW c \in Calls, NEW community \in Communities, NEW w \in Windows,
           Call(c, community, w)
    PROVE  IInv'
  <1>1. ingest[c] \in Frame
    BY DEF IInv, TypeOK
  <1> DEFINE g == [ingest[c] EXCEPT !.pc = "fetching", !.community = community, !.window = w]
  <1>2. g \in Frame
    BY <1>1 DEF Frame, Live
  <1>3. /\ g.pc = "fetching" /\ g.community = community /\ g.window = w
        /\ g.examined = ingest[c].examined /\ g.accepted = ingest[c].accepted
        /\ g.upserted = ingest[c].upserted
    BY <1>1 DEF Frame
  <1>4. ingest' = [ingest EXCEPT ![c] = g]
    BY DEF Call, IInv, TypeOK
  <1>5. /\ ingest'[c] = g
        /\ ingest' \in [Calls -> Frame]
        /\ \A d \in Calls \ {c} : ingest'[d] = ingest[d]
    BY <1>2, <1>4 DEF IInv, TypeOK
  <1> QED
    BY <1>3, <1>5, FreshKeepsIInv DEF Call

LEMMA FetchAnswersKeepsIInv ==
    ASSUME IInv, NEW c \in Calls, NEW f \in Fetches, FetchAnswers(c, f)
    PROVE  IInv'
  <1>1. ingest[c] \in Frame
    BY DEF IInv, TypeOK
  <1> DEFINE g == [ingest[c] EXCEPT !.pc = "normalizing", !.fetched = f]
  <1>2. g \in Frame
    BY <1>1 DEF Frame, Live
  <1>3. /\ g.pc = "normalizing" /\ g.community = ingest[c].community
        /\ g.window = ingest[c].window
        /\ g.examined = ingest[c].examined /\ g.accepted = ingest[c].accepted
        /\ g.upserted = ingest[c].upserted
    BY <1>1 DEF Frame
  <1>4. ingest' = [ingest EXCEPT ![c] = g]
    BY DEF FetchAnswers, IInv, TypeOK
  <1>5. /\ ingest'[c] = g
        /\ ingest' \in [Calls -> Frame]
        /\ \A d \in Calls \ {c} : ingest'[d] = ingest[d]
    BY <1>2, <1>4 DEF IInv, TypeOK
  <1>6. ingest[c].community \in Communities /\ ingest[c].window \in Windows
    BY DEF FetchAnswers, IInv, ProgressInv
  <1> QED
    BY <1>3, <1>5, <1>6, FreshKeepsIInv DEF FetchAnswers

\* Steps that only move calls on.
LEMMA MovesKeepIInv ==
    ASSUME IInv, NEW c \in Calls,
           FetchEnds(c) \/ Examined(c) \/ Return(c) \/ StatementRaises(c)
    PROVE  IInv'
  <1>1. ASSUME NEW p \in {"upserting"} \union Ended,
               ingest' = [ingest EXCEPT ![c].pc = p], deals' = deals, crashes' = crashes,
               ingest[c].pc \in Live,
               p = "upserting" => ingest[c].pc = "normalizing",
               p = "done" => ingest[c].upserted = Len(ingest[c].accepted)
        PROVE  IInv'
    <2>1. ingest' = [d \in Calls |-> IF d \in {c} THEN [ingest[d] EXCEPT !.pc = p]
                                     ELSE ingest[d]]
      BY <1>1 DEF IInv, TypeOK
    <2>2. crashes' \in 0 .. MaxCrashes
      BY <1>1 DEF IInv, TypeOK
    <2>3. {c} \in SUBSET Calls
      OBVIOUS
    <2>4. \A d \in {c} : /\ ingest[d].pc \in Live
                         /\ p = "upserting" => ingest[d].pc = "normalizing"
                         /\ p = "done" => ingest[d].upserted = Len(ingest[d].accepted)
      BY <1>1
    <2>5. p \in {"upserting"} \union Ended /\ deals' = deals
      BY <1>1
    <2> QED
      BY <2>1, <2>2, <2>3, <2>4, <2>5, MoveKeepsIInv
  <1>2. CASE FetchEnds(c)
    <2>1. PICK p \in {"fetch_error", "cancelled"} : ingest' = [ingest EXCEPT ![c].pc = p]
      BY <1>2 DEF FetchEnds
    <2>2. /\ p \in {"upserting"} \union Ended
          /\ p # "upserting"
          /\ p # "done"
      <3>1. CASE p = "fetch_error"
        BY <3>1 DEF Ended
      <3>2. CASE p = "cancelled"
        BY <3>2 DEF Ended
      <3> QED
        BY <2>1, <3>1, <3>2
    <2>3. deals' = deals /\ crashes' = crashes /\ ingest[c].pc \in Live
      BY <1>2 DEF FetchEnds, Live
    <2> QED
      BY <1>1, <2>1, <2>2, <2>3
  <1>3. CASE Examined(c)
    BY <1>1, <1>3 DEF Examined, Live, Ended
  <1>4. CASE Return(c)
    BY <1>1, <1>4 DEF Return, AllUpserted, Live, Ended
  <1>5. CASE StatementRaises(c)
    BY <1>1, <1>5 DEF StatementRaises, Live, Ended
  <1> QED
    BY <1>2, <1>3, <1>4, <1>5

LEMMA CrashKeepsIInv ==
    ASSUME IInv, Crash
    PROVE  IInv'
  <1> DEFINE D == {c \in Calls : ingest[c].pc \in Live}
  <1>1. D \in SUBSET Calls
    OBVIOUS
  <1>2. ingest' = [c \in Calls |-> IF c \in D THEN [ingest[c] EXCEPT !.pc = "lost"]
                                   ELSE ingest[c]]
    BY DEF Crash
  <1>3. crashes' \in 0 .. MaxCrashes /\ deals' = deals
    BY CrashesAreBounded DEF Crash, IInv, TypeOK
  <1>4. "lost" \in {"upserting"} \union Ended
    BY DEF Ended
  <1>5. \A c \in D : ingest[c].pc \in Live
    OBVIOUS
  <1> HIDE DEF D
  <1> QED
    BY <1>1, <1>2, <1>3, <1>4, <1>5, MoveKeepsIInv

\* The row of a kept record is a row, under the identity of that record.
LEMMA RowForIsRow ==
    ASSUME IInv, NEW c \in Calls, NEW k \in 1 .. Len(ingest[c].accepted),
           ingest[c].pc # "idle"
    PROVE  /\ RowFor(c, k) \in Row
           /\ RowFor(c, k).transaction.native = KeptAt(c, k).native
           /\ FitsSchema(RowFor(c, k).transaction)
           /\ KeptAt(c, k).native \in Sources
           /\ ingest[c].accepted[k] \in Kept(c)
           /\ Accepts(c, ingest[c].accepted[k])
  <1>1. ingest[c] \in Frame
    BY DEF IInv, TypeOK
  <1>2. /\ ingest[c].accepted[k] \in 1 .. ingest[c].examined
        /\ ingest[c].examined <= Len(ingest[c].fetched.records)
        /\ Accepts(c, ingest[c].accepted[k])
    BY DEF IInv, KeptInv
  <1>3. KeptAt(c, k) \in Records
    <2>1. ingest[c].accepted[k] \in 1 .. Len(ingest[c].fetched.records)
      BY <1>1, <1>2, FrameRecords
    <2> QED
      BY <1>1, <2>1, FrameRecords DEF KeptAt, RecordAt
  <1>4. Verdict(KeptAt(c, k), ingest[c].window) = Accepted
    BY <1>2 DEF Accepts, KeptAt
  <1>5. /\ TransactionOf(KeptAt(c, k)) \in Transaction
        /\ FitsSchema(TransactionOf(KeptAt(c, k)))
        /\ TransactionOf(KeptAt(c, k)).native = KeptAt(c, k).native
        /\ KeptAt(c, k).native \in Sources
    BY <1>1, <1>3, <1>4, AcceptedFits, FrameRecords
  <1>6. ingest[c].community \in Communities
    BY DEF IInv, ProgressInv
  <1> QED
    BY <1>2, <1>5, <1>6 DEF RowFor, Row, Kept

LEMMA UpsertKeepsIInv ==
    ASSUME IInv, NEW c \in Calls, Upsert(c)
    PROVE  IInv'
  <1> DEFINE k == ingest[c].upserted + 1
             row == RowFor(c, k)
             s == KeptAt(c, k).native
             g == [ingest[c] EXCEPT !.upserted = k]
  <1>1. ingest[c] \in Frame
    BY DEF IInv, TypeOK
  <1>2. k \in 1 .. Len(ingest[c].accepted) /\ ingest[c].pc = "upserting"
    BY <1>1, FrameRecords DEF Upsert
  <1>3. /\ row \in Row /\ row.transaction.native = s /\ FitsSchema(row.transaction)
        /\ s \in Sources /\ ingest[c].accepted[k] \in Kept(c)
        /\ Accepts(c, ingest[c].accepted[k])
    BY <1>2, RowForIsRow
  <1>4. deals' = [deals EXCEPT ![s] = row]
    BY <1>3 DEF Upsert
  <1>5. /\ g \in Frame
        /\ g.pc = ingest[c].pc /\ g.community = ingest[c].community
        /\ g.window = ingest[c].window /\ g.fetched = ingest[c].fetched
        /\ g.examined = ingest[c].examined /\ g.accepted = ingest[c].accepted
        /\ g.upserted = k
    <2>1. k \in Nat
      BY <1>1, FrameRecords
    <2> QED
      BY <1>1, <2>1 DEF Frame
  <1>6. /\ ingest' = [ingest EXCEPT ![c] = g]
        /\ ingest \in [Calls -> Frame]
    BY DEF Upsert, IInv, TypeOK
  <1>7. /\ ingest' \in [Calls -> Frame]
        /\ ingest'[c] = g
        /\ \A d \in Calls \ {c} : ingest'[d] = ingest[d]
    BY <1>5, <1>6
  <1>8. \A d \in Calls : /\ ingest'[d].pc = ingest[d].pc
                         /\ ingest'[d].community = ingest[d].community
                         /\ ingest'[d].window = ingest[d].window
                         /\ ingest'[d].fetched = ingest[d].fetched
                         /\ ingest'[d].examined = ingest[d].examined
                         /\ ingest'[d].accepted = ingest[d].accepted
    BY <1>5, <1>7
  <1>9. /\ deals \in [Sources -> Row \union {Null}]
        /\ deals' \in [Sources -> Row \union {Null}]
        /\ deals'[s] = row /\ row # Null
        /\ \A t \in Sources \ {s} : deals'[t] = deals[t]
    BY <1>3, <1>4, NullIsNoRow DEF IInv, TypeOK
  <1> HIDE DEF k, row, s, g
  <1>10. TypeOK'
    BY <1>3, <1>7, <1>9 DEF IInv, TypeOK, Upsert
  <1>11. LoopInv'
    BY <1>8 DEF IInv, LoopInv, Holding
  <1>12. StoredDealWasAccepted'
    <2> SUFFICES ASSUME NEW t \in Sources, deals'[t] # Null
                 PROVE  \E d \in Calls : \E i \in Kept(d)' :
                          /\ Verdict(RecordAt(d, i), ingest[d].window)' = Accepted
                          /\ deals'[t] = [community |-> ingest'[d].community,
                                 transaction |-> TransactionOf(RecordAt(d, i)')]
      BY DEF StoredDealWasAccepted
    <2>1. \A d \in Calls : Kept(d)' = Kept(d) /\ \A i : RecordAt(d, i)' = RecordAt(d, i)
      BY <1>8 DEF Kept, RecordAt
    <2>2. CASE t = s
      <3>1. deals'[t] = [community |-> ingest[c].community,
                transaction |-> TransactionOf(RecordAt(c, ingest[c].accepted[k]))]
        BY <1>9, <2>2 DEF row, RowFor, KeptAt
      <3>2. Verdict(RecordAt(c, ingest[c].accepted[k]), ingest[c].window) = Accepted
        BY <1>3 DEF Accepts
      <3> QED
        BY <1>3, <1>8, <2>1, <3>1, <3>2
    <2>3. CASE t # s
      <3>1. deals'[t] = deals[t]
        BY <1>9, <2>3
      <3>2. PICK d \in Calls : \E i \in Kept(d) :
                /\ Verdict(RecordAt(d, i), ingest[d].window) = Accepted
                /\ deals[t] = [community |-> ingest[d].community,
                               transaction |-> TransactionOf(RecordAt(d, i))]
        BY <3>1 DEF IInv, StoredDealWasAccepted
      <3>3. PICK i \in Kept(d) :
                /\ Verdict(RecordAt(d, i), ingest[d].window) = Accepted
                /\ deals[t] = [community |-> ingest[d].community,
                               transaction |-> TransactionOf(RecordAt(d, i))]
        BY <3>2
      <3>4. /\ i \in Kept(d)' /\ RecordAt(d, i)' = RecordAt(d, i)
            /\ ingest'[d].window = ingest[d].window
            /\ ingest'[d].community = ingest[d].community
        BY <1>8, <2>1
      <3> QED
        BY <3>1, <3>3, <3>4
    <2> QED
      BY <2>2, <2>3
  <1>13. \A d \in Calls : KeptInv(d)'
    BY <1>8, KeptUnchanged DEF IInv
  <1>14. ASSUME NEW d \in Calls
         PROVE  ProgressInv(d)'
    <2>1. ProgressInv(d) /\ KeptInv(d)
      BY DEF IInv
    <2>2. \A m : KeptAt(d, m)' = KeptAt(d, m) /\ RowFor(d, m)' = RowFor(d, m)
      BY <1>8 DEF KeptAt, RecordAt, RowFor
    <2>3. CASE d = c
      <3>1. ingest'[c].upserted = k /\ k <= Len(ingest[c].accepted)
        BY <1>2, <1>5, <1>7
      <3>2. ASSUME NEW m \in 1 .. k
            PROVE  deals'[KeptAt(c, m).native] = RowFor(c, m)
                   /\ deals'[KeptAt(c, m).native] # Null
        <4>1. CASE m = k
          BY <1>9, <4>1 DEF row, s
        <4>2. CASE m # k
          <5>1. m \in 1 .. ingest[c].upserted /\ m \in 1 .. Len(ingest[c].accepted)
            BY <1>1, <1>2, <3>2, <4>2, FrameRecords DEF k
          <5>2. deals[KeptAt(c, m).native] = RowFor(c, m)
                /\ deals[KeptAt(c, m).native] # Null
            BY <1>2, <2>1, <2>3, <5>1 DEF ProgressInv
          <5>3. KeptAt(c, m).native # s
            BY <1>2, <2>1, <2>3, <4>2, <5>1 DEF KeptInv, s
          <5>4. KeptAt(c, m).native \in Sources
            BY <1>2, <5>1, RowForIsRow
          <5> QED
            BY <1>9, <5>2, <5>3, <5>4
        <4> QED
          BY <4>1, <4>2
      <3> QED
        BY <1>2, <1>8, <2>1, <2>2, <2>3, <3>1, <3>2 DEF ProgressInv
    <2>4. CASE d # c
      <3>1. ingest'[d].upserted = ingest[d].upserted
        BY <1>7, <2>4
      <3>2. ingest[d].pc # "upserting"
        BY <1>2, <2>4 DEF IInv, LoopInv, Holding
      <3>3. \A t \in Sources : deals[t] # Null => deals'[t] # Null
        BY <1>9
      <3>4. \A m \in 1 .. ingest[d].upserted : deals'[KeptAt(d, m).native] # Null
        <4> SUFFICES ASSUME NEW m \in 1 .. ingest[d].upserted
                     PROVE  deals'[KeptAt(d, m).native] # Null
          OBVIOUS
        <4>1. ingest[d] \in Frame
          BY DEF IInv, TypeOK
        <4>2. m \in 1 .. Len(ingest[d].accepted) /\ ingest[d].pc # "idle"
          BY <2>1, <4>1, FrameRecords DEF ProgressInv
        <4>3. KeptAt(d, m).native \in Sources
          BY <4>2, RowForIsRow
        <4> QED
          BY <2>1, <3>3, <4>3 DEF ProgressInv
      <3> QED
        BY <1>8, <2>1, <2>2, <3>1, <3>2, <3>4 DEF ProgressInv
    <2> QED
      BY <2>3, <2>4
  <1> QED
    BY <1>10, <1>11, <1>12, <1>13, <1>14 DEF IInv

\* What normalize_transaction answers is a reason unless it accepts.
LEMMA OutcomeIsReason ==
    ASSUME NEW c \in Calls, NEW i, Outcome(c, i) # Accepted
    PROVE  Outcome(c, i) \in Reasons
  <1>1. ASSUME NEW r, NEW w, Verdict(r, w) # Accepted
        PROVE  Verdict(r, w) \in Reasons
    BY <1>1 DEF Verdict, Reasons
  <1>2. "duplicate_in_batch" \in Reasons
    BY DEF Reasons
  <1> QED
    BY <1>1, <1>2 DEF Outcome

LEMMA ExamineKeepsIInv ==
    ASSUME IInv, NEW c \in Calls, Examine(c)
    PROVE  IInv'
  <1> DEFINE i == ingest[c].examined + 1
             out == Outcome(c, i)
             kept == ingest[c].accepted
             keeps == IF out = Accepted THEN Append(kept, i) ELSE kept
             rejects == IF out = Accepted THEN ingest[c].rejections
                        ELSE Reject(ingest[c].rejections, i, out)
             g == [ingest[c] EXCEPT !.examined = i, !.accepted = keeps,
                                    !.rejections = rejects]
  <1>1. ingest[c] \in Frame
    BY DEF IInv, TypeOK
  <1>2. /\ i \in Nat \ {0} /\ i - 1 = ingest[c].examined
        /\ kept \in Seq(Nat \ {0})
        /\ ingest[c].rejections \in Seq(Rejection)
        /\ i <= Len(ingest[c].fetched.records)
        /\ ingest[c].pc = "normalizing"
    <2>1. ingest[c].examined \in Nat /\ kept \in Seq(Nat \ {0})
          /\ ingest[c].rejections \in Seq(Rejection)
      BY <1>1, FrameRecords
    <2>2. i <= Len(ingest[c].fetched.records) /\ ingest[c].pc = "normalizing"
      BY DEF Examine
    <2>3. i \in Nat \ {0} /\ i - 1 = ingest[c].examined
      BY <2>1
    <2> HIDE DEF i
    <2> QED
      BY <2>1, <2>2, <2>3
  <1>3. keeps \in Seq(Nat \ {0})
    BY <1>2
  <1>4. rejects \in Seq(Rejection)
    <2>1. CASE out = Accepted
      BY <1>2, <2>1
    <2>2. CASE out # Accepted
      <3>1. [at |-> i, reason |-> out] \in Rejection
        BY <1>2, <2>2, OutcomeIsReason DEF Rejection
      <3> QED
        BY <1>2, <2>2, <3>1 DEF Reject
    <2> QED
      BY <2>1, <2>2
  <1>5. ingest' = [ingest EXCEPT ![c] = g] /\ deals' = deals /\ crashes' = crashes
    BY DEF Examine, IInv, TypeOK
  <1> HIDE DEF out, keeps, rejects
  <1>6. /\ g \in Frame
        /\ g.pc = ingest[c].pc /\ g.community = ingest[c].community
        /\ g.window = ingest[c].window /\ g.fetched = ingest[c].fetched
        /\ g.upserted = ingest[c].upserted
        /\ g.examined = i /\ g.accepted = keeps
    BY <1>1, <1>2, <1>3, <1>4 DEF Frame
  <1> HIDE DEF g
  <1>7. /\ ingest' \in [Calls -> Frame]
        /\ ingest'[c] = g
        /\ \A d \in Calls \ {c} : ingest'[d] = ingest[d]
    BY <1>5, <1>6 DEF IInv, TypeOK
  <1> HIDE DEF i
  <1>8. TypeOK'
    BY <1>5, <1>7 DEF IInv, TypeOK
  <1>9. LoopInv'
    <2>1. \A d \in Calls : ingest'[d].pc = ingest[d].pc
      BY <1>6, <1>7
    <2> QED
      BY <2>1 DEF IInv, LoopInv, Holding
  <1>10. /\ \A k \in 1 .. Len(kept) : /\ k \in 1 .. Len(keeps)
                                       /\ keeps[k] = kept[k]
         /\ out = Accepted => Len(keeps) = Len(kept) + 1 /\ keeps[Len(keeps)] = i
         /\ out # Accepted => keeps = kept
         /\ Len(kept) \in Nat /\ Len(keeps) \in Nat
    BY <1>2 DEF keeps
  <1>11. \A j : /\ RecordAt(c, j)' = RecordAt(c, j)
                /\ Accepts(c, j)' <=> Accepts(c, j)
    BY <1>6, <1>7 DEF RecordAt, Accepts
  <1>12. \A k : KeptAt(c, k) = RecordAt(c, kept[k]) /\ KeptAt(c, k)' = RecordAt(c, keeps[k])
    BY <1>6, <1>7 DEF KeptAt, RecordAt
  <1>13. StoredDealWasAccepted'
    <2>1. Kept(c) \subseteq Kept(c)'
      BY <1>6, <1>7, <1>10 DEF Kept
    <2>2. \A d \in Calls \ {c} : Kept(d)' = Kept(d)
      BY <1>7 DEF Kept
    <2>3. \A d \in Calls : /\ ingest'[d].fetched = ingest[d].fetched
                           /\ ingest'[d].window = ingest[d].window
                           /\ ingest'[d].community = ingest[d].community
      BY <1>6, <1>7
    <2> QED
      BY <1>5, <2>1, <2>2, <2>3, StoredPersists DEF IInv
  <1>14. KeptInv(c)'
    <2> USE DEF Accepts
    <2>1. out = Accepted => Accepts(c, i) /\ ~ AlreadyAccepted(c, RecordAt(c, i))
      BY DEF out, Outcome, Accepted
    <2>2. out # Accepted /\ Accepts(c, i) => AlreadyAccepted(c, RecordAt(c, i))
      BY DEF out, Outcome
    <2> HIDE DEF Accepts
    <2>3. KeptInv(c)
      BY DEF IInv
    <2>4. \A k \in 1 .. Len(kept) : kept[k] \in 1 .. i - 1 /\ Accepts(c, kept[k])
      BY <1>2, <2>3 DEF KeptInv
    <2>5. ASSUME NEW k \in 1 .. Len(keeps)
          PROVE  keeps[k] \in 1 .. i /\ Accepts(c, keeps[k])
      <3>1. CASE k \in 1 .. Len(kept)
        <4>1. keeps[k] = kept[k]
          BY <1>10, <3>1
        <4>2. kept[k] \in 1 .. i - 1 /\ Accepts(c, kept[k])
          BY <2>4, <3>1
        <4> QED
          BY <1>2, <4>1, <4>2
      <3>2. CASE k \notin 1 .. Len(kept)
        <4>1. out = Accepted /\ k = Len(keeps)
          BY <1>10, <3>2
        <4> QED
          BY <1>2, <1>10, <2>1, <4>1
      <3> QED
        BY <3>1, <3>2
    <2>6. ASSUME NEW k \in 1 .. Len(keeps), NEW m \in 1 .. Len(keeps)
          PROVE  /\ k < m => keeps[k] < keeps[m]
                 /\ KeptAt(c, k)'.native = KeptAt(c, m)'.native => k = m
      <3>1. CASE k \in 1 .. Len(kept) /\ m \in 1 .. Len(kept)
        <4>1. /\ k < m => kept[k] < kept[m]
              /\ KeptAt(c, k).native = KeptAt(c, m).native => k = m
          BY <2>3, <3>1 DEF KeptInv
        <4>2. keeps[k] = kept[k] /\ keeps[m] = kept[m]
          BY <1>10, <3>1
        <4>3. KeptAt(c, k)' = KeptAt(c, k) /\ KeptAt(c, m)' = KeptAt(c, m)
          BY <1>12, <4>2
        <4> QED
          BY <4>1, <4>2, <4>3
      <3>2. CASE k \in 1 .. Len(kept) /\ m \notin 1 .. Len(kept)
        <4>1. out = Accepted /\ m = Len(keeps) /\ keeps[m] = i
          BY <1>10, <3>2
        <4>2. keeps[k] = kept[k] /\ kept[k] \in 1 .. i - 1
          BY <1>10, <2>4, <3>2
        <4>3. RecordAt(c, kept[k]).native # RecordAt(c, i).native
          BY <1>12, <2>1, <3>2, <4>1 DEF AlreadyAccepted
        <4> QED
          BY <1>2, <1>12, <4>1, <4>2, <4>3
      <3>3. CASE k \notin 1 .. Len(kept) /\ m \in 1 .. Len(kept)
        <4>1. out = Accepted /\ k = Len(keeps) /\ keeps[k] = i /\ ~ k < m
          BY <1>10, <3>3
        <4>2. keeps[m] = kept[m]
          BY <1>10, <3>3
        <4>3. RecordAt(c, kept[m]).native # RecordAt(c, i).native
          BY <1>12, <2>1, <3>3, <4>1 DEF AlreadyAccepted
        <4> QED
          BY <1>12, <4>1, <4>2, <4>3
      <3>4. CASE k \notin 1 .. Len(kept) /\ m \notin 1 .. Len(kept)
        <4>1. k = Len(keeps) /\ m = Len(keeps)
          BY <1>10, <3>4
        <4> QED
          BY <1>10, <4>1
      <3> QED
        BY <3>1, <3>2, <3>3, <3>4
    <2>7. ASSUME NEW j \in 1 .. i, Accepts(c, j)
          PROVE  \E k \in 1 .. Len(keeps) :
                    keeps[k] <= j /\ KeptAt(c, k)'.native = RecordAt(c, j).native
      <3>1. CASE j # i
        <4>1. PICK k \in 1 .. Len(kept) : /\ kept[k] <= j
                                         /\ KeptAt(c, k).native = RecordAt(c, j).native
          <5>1. j \in 1 .. ingest[c].examined
            BY <1>2, <3>1
          <5> QED
            BY <2>3, <2>7, <5>1 DEF KeptInv
        <4>2. k \in 1 .. Len(keeps) /\ keeps[k] = kept[k]
          BY <1>10
        <4> QED
          BY <1>12, <4>1, <4>2
      <3>2. CASE j = i /\ out = Accepted
        <4>1. Len(keeps) \in 1 .. Len(keeps) /\ keeps[Len(keeps)] = i
          BY <1>10, <3>2
        <4> QED
          BY <1>2, <1>12, <3>2, <4>1
      <3>3. CASE j = i /\ out # Accepted
        <4>1. PICK k \in 1 .. Len(kept) : KeptAt(c, k).native = RecordAt(c, i).native
          BY <2>2, <2>7, <3>3 DEF AlreadyAccepted
        <4>2. kept[k] <= j
          BY <1>2, <2>4, <3>3
        <4> QED
          BY <1>10, <1>12, <3>3, <4>1, <4>2
      <3> QED
        BY <3>1, <3>2, <3>3
    <2>8. /\ ingest'[c].examined = i /\ ingest'[c].accepted = keeps
          /\ ingest'[c].fetched = ingest[c].fetched
      BY <1>6, <1>7
    <2>9. (\A k \in 1 .. Len(ingest[c].accepted) :
            /\ ingest[c].accepted[k] \in 1 .. ingest[c].examined
            /\ Accepts(c, ingest[c].accepted[k]))'
      BY <1>11, <2>5, <2>8
    <2>10. (\A k, m \in 1 .. Len(ingest[c].accepted) :
              /\ k < m => ingest[c].accepted[k] < ingest[c].accepted[m]
              /\ KeptAt(c, k).native = KeptAt(c, m).native => k = m)'
      BY <2>6, <2>8
    <2>11. (\A j \in 1 .. ingest[c].examined : Accepts(c, j) =>
              \E k \in 1 .. Len(ingest[c].accepted) :
                  /\ ingest[c].accepted[k] <= j
                  /\ KeptAt(c, k).native = RecordAt(c, j).native)'
      BY <1>11, <2>7, <2>8
    <2> QED
      BY <1>2, <2>8, <2>9, <2>10, <2>11 DEF KeptInv
  <1>15. ProgressInv(c)'
    <2>1. ProgressInv(c)
      BY DEF IInv
    <2>2. ingest'[c].upserted = 0 /\ ingest'[c].pc = "normalizing"
          /\ ingest'[c].accepted = keeps
      BY <1>2, <1>6, <1>7, <2>1 DEF ProgressInv
    <2>3. ingest'[c].community \in Communities /\ ingest'[c].window \in Windows
      BY <1>2, <1>6, <1>7, <2>1 DEF ProgressInv
    <2> QED
      BY <1>10, <2>2, <2>3 DEF ProgressInv
  <1>16. \A d \in Calls \ {c} : KeptInv(d)' /\ ProgressInv(d)'
    BY <1>5, <1>7, OthersKeep
  <1> QED
    BY <1>8, <1>9, <1>13, <1>14, <1>15, <1>16 DEF IInv

\* Every step of the specification keeps the invariant.
LEMMA NextKeepsIInv == IInv /\ [Next]_vars => IInv'
  <1> SUFFICES ASSUME IInv, [Next]_vars PROVE IInv'
    OBVIOUS
  <1>1. ASSUME NEW c \in Calls, NEW community \in Communities, NEW w \in Windows,
               Call(c, community, w)
        PROVE  IInv'
    BY <1>1, CallKeepsIInv
  <1>2. ASSUME NEW c \in Calls, Answer(c)
        PROVE  IInv'
    <2>1. CASE FetchEnds(c)
      BY <2>1, MovesKeepIInv
    <2>2. ASSUME NEW f \in Fetches, FetchAnswers(c, f)
          PROVE  IInv'
      BY <2>2, FetchAnswersKeepsIInv
    <2> QED
      BY <1>2, <2>1, <2>2 DEF Answer
  <1>3. ASSUME NEW c \in Calls, Run(c)
        PROVE  IInv'
    <2>1. CASE Examine(c)
      BY <2>1, ExamineKeepsIInv
    <2>2. CASE Upsert(c)
      BY <2>2, UpsertKeepsIInv
    <2>3. CASE Examined(c) \/ Return(c) \/ StatementRaises(c)
      BY <2>3, MovesKeepIInv
    <2> QED
      BY <1>3, <2>1, <2>2, <2>3 DEF Run
  <1>4. CASE Crash
    BY <1>4, CrashKeepsIInv
  <1>5. CASE UNCHANGED vars
    <2>1. deals' = deals /\ ingest' = ingest /\ crashes' = crashes
      BY <1>5 DEF vars
    <2>2. TypeOK' /\ LoopInv'
      BY <2>1 DEF IInv, TypeOK, LoopInv, Holding
    <2>3. StoredDealWasAccepted'
      BY <2>1, StoredPersists DEF IInv, Kept
    <2>4. \A c \in Calls : KeptInv(c)' /\ ProgressInv(c)'
      BY <2>1, OthersKeep
    <2> QED
      BY <2>2, <2>3, <2>4 DEF IInv
  <1> QED
    BY <1>1, <1>2, <1>3, <1>4, <1>5 DEF Next

LEMMA IInvHolds == Spec => []IInv
  BY InitIInv, NextKeepsIInv, PTL DEF Spec

-----------------------------------------------------------------------------
(* What follows *)

\* The table and the frames hold values of their types; what is stored fits the
\* canonical schema.
THEOREM TypeCorrect == Spec => []TypeOK
  <1>1. IInv => TypeOK
    BY DEF IInv
  <1> QED
    BY <1>1, IInvHolds, PTL

\* Every stored row is one accepted record of one call, whole, under the
\* community that call asked about.
THEOREM StoredIsAccepted == Spec => []StoredDealWasAccepted
  <1>1. IInv => StoredDealWasAccepted
    BY DEF IInv
  <1> QED
    BY <1>1, IInvHolds, PTL

\* _accept keeps exactly the first acceptable record of each identity, in
\* whatever order good, bad and duplicate records arrive.
THEOREM FirstIsKept == Spec => []FirstAcceptableKept
  <1>1. ASSUME IInv, NEW c \in Calls
        PROVE  Kept(c) = {i \in 1 .. ingest[c].examined :
                  /\ Accepts(c, i)
                  /\ \A j \in 1 .. i - 1 :
                        Accepts(c, j) => RecordAt(c, j).native # RecordAt(c, i).native}
    <2>1. KeptInv(c) /\ ingest[c] \in Frame
      BY <1>1 DEF IInv, TypeOK
    <2>2. /\ ingest[c].examined \in Nat /\ ingest[c].accepted \in Seq(Nat \ {0})
          /\ Len(ingest[c].accepted) \in Nat
      BY <2>1, FrameRecords
    <2>3. \A k : KeptAt(c, k) = RecordAt(c, ingest[c].accepted[k])
      BY DEF KeptAt
    <2>4. ASSUME NEW k \in 1 .. Len(ingest[c].accepted),
                 NEW j \in 1 .. ingest[c].accepted[k] - 1, Accepts(c, j)
          PROVE  RecordAt(c, j).native # RecordAt(c, ingest[c].accepted[k]).native
      <3>1. ingest[c].accepted[k] \in 1 .. ingest[c].examined
        BY <2>1 DEF KeptInv
      <3>2. j \in 1 .. ingest[c].examined
        BY <2>2, <3>1
      <3>3. PICK m \in 1 .. Len(ingest[c].accepted) :
                /\ ingest[c].accepted[m] <= j
                /\ KeptAt(c, m).native = RecordAt(c, j).native
        BY <2>1, <2>4, <3>2 DEF KeptInv
      <3>4. ingest[c].accepted[m] # ingest[c].accepted[k]
        BY <2>2, <3>1, <3>3
      <3>5. KeptAt(c, m).native # KeptAt(c, k).native
        BY <2>1, <3>4 DEF KeptInv
      <3> QED
        BY <2>3, <3>3, <3>5
    <2>5. ASSUME NEW i \in Kept(c)
          PROVE  /\ i \in 1 .. ingest[c].examined /\ Accepts(c, i)
                 /\ \A j \in 1 .. i - 1 :
                       Accepts(c, j) => RecordAt(c, j).native # RecordAt(c, i).native
      <3>1. PICK k \in 1 .. Len(ingest[c].accepted) : i = ingest[c].accepted[k]
        BY DEF Kept
      <3>2. i \in 1 .. ingest[c].examined /\ Accepts(c, i)
        BY <2>1, <3>1 DEF KeptInv
      <3> QED
        BY <2>4, <3>1, <3>2
    <2>6. ASSUME NEW i \in 1 .. ingest[c].examined, Accepts(c, i),
                 \A j \in 1 .. i - 1 :
                     Accepts(c, j) => RecordAt(c, j).native # RecordAt(c, i).native
          PROVE  i \in Kept(c)
      <3>1. PICK k \in 1 .. Len(ingest[c].accepted) :
                /\ ingest[c].accepted[k] <= i
                /\ KeptAt(c, k).native = RecordAt(c, i).native
        BY <2>1, <2>6 DEF KeptInv
      <3>2. ingest[c].accepted[k] \in 1 .. ingest[c].examined
            /\ Accepts(c, ingest[c].accepted[k])
        BY <2>1 DEF KeptInv
      <3>3. ~ (ingest[c].accepted[k] \in 1 .. i - 1)
        BY <2>3, <2>6, <3>1, <3>2
      <3>4. ingest[c].accepted[k] = i
        BY <2>2, <3>1, <3>2, <3>3
      <3> QED
        BY <3>4 DEF Kept
    <2> QED
      BY <2>5, <2>6
  <1>2. IInv => FirstAcceptableKept
    BY <1>1 DEF FirstAcceptableKept, Accepts
  <1> QED
    BY <1>2, IInvHolds, PTL

\* What a returned result names has a row from then on.
THEOREM ReportedStays == Spec => []ReportedIsStored
  <1>1. ASSUME IInv, NEW c \in Calls, ingest[c].pc = "done",
               NEW k \in 1 .. Len(ingest[c].accepted)
        PROVE  deals[KeptAt(c, k).native] # Null
    BY <1>1 DEF IInv, ProgressInv
  <1>2. IInv => ReportedIsStored
    BY <1>1 DEF ReportedIsStored
  <1> QED
    BY <1>2, IInvHolds, PTL

\* At the moment a call returns, the table holds exactly its rows.
THEOREM ReturnsWhatIsThere == Spec => ReturnDescribesTable
  <1>1. ASSUME IInv, NEW c \in Calls, Return(c),
               NEW k \in 1 .. Len(ingest[c].accepted)
        PROVE  deals[KeptAt(c, k).native] = RowFor(c, k)
    BY <1>1 DEF IInv, ProgressInv, Return, AllUpserted
  <1>2. IInv => [\A c \in Calls : Return(c) =>
                   \A k \in 1 .. Len(ingest[c].accepted) :
                       deals[KeptAt(c, k).native] = RowFor(c, k)]_vars
    BY <1>1
  <1> QED
    BY <1>2, IInvHolds, PTL DEF ReturnDescribesTable

-----------------------------------------------------------------------------
(* Accounting *)

\* Each record examined so far is at one place of one of the two tuples.
Accounted(f) ==
    /\ f.pc \in {"idle", "fetching"} => f.examined = 0 /\ f.rejections = <<>>
    /\ f.pc \in {"upserting", "done"} => f.examined = Len(f.fetched.records)
    /\ Len(f.accepted) + Len(f.rejections) = f.examined
    /\ \A k \in 1 .. Len(f.accepted) : f.accepted[k] \in 1 .. f.examined
    /\ \A k \in 1 .. Len(f.rejections) :
          /\ f.rejections[k].at \in 1 .. f.examined
          /\ \A m \in 1 .. Len(f.accepted) : f.rejections[k].at # f.accepted[m]
          /\ \A m \in 1 .. Len(f.rejections) : f.rejections[k].at = f.rejections[m].at => k = m
    /\ \A i \in 1 .. f.examined :
          \/ \E k \in 1 .. Len(f.accepted) : f.accepted[k] = i
          \/ \E k \in 1 .. Len(f.rejections) : f.rejections[k].at = i

AccountInv == \A c \in Calls : Accounted(ingest[c])

\* The frame of a call that did not examine a record, and did not take up one.
LEMMA AccountKept ==
    ASSUME NEW f, NEW g, Accounted(f),
           g.fetched = f.fetched, g.examined = f.examined, g.accepted = f.accepted,
           g.rejections = f.rejections,
           g.pc \in {"idle", "fetching"} => f.pc \in {"idle", "fetching"},
           g.pc \in {"upserting", "done"} => g.examined = Len(g.fetched.records)
    PROVE  Accounted(g)
  <1>1. /\ g.pc \in {"idle", "fetching"} => g.examined = 0 /\ g.rejections = <<>>
        /\ g.pc \in {"upserting", "done"} => g.examined = Len(g.fetched.records)
        /\ Len(g.accepted) + Len(g.rejections) = g.examined
    BY DEF Accounted
  <1>2. \A k \in 1 .. Len(g.accepted) : g.accepted[k] \in 1 .. g.examined
    BY DEF Accounted
  <1>3. \A k \in 1 .. Len(g.rejections) :
           /\ g.rejections[k].at \in 1 .. g.examined
           /\ \A m \in 1 .. Len(g.accepted) : g.rejections[k].at # g.accepted[m]
           /\ \A m \in 1 .. Len(g.rejections) : g.rejections[k].at = g.rejections[m].at => k = m
    BY DEF Accounted
  <1>4. \A i \in 1 .. g.examined :
           \/ \E k \in 1 .. Len(g.accepted) : g.accepted[k] = i
           \/ \E k \in 1 .. Len(g.rejections) : g.rejections[k].at = i
    BY DEF Accounted
  <1> QED
    BY <1>1, <1>2, <1>3, <1>4 DEF Accounted

\* The next record goes to the end of one tuple.
LEMMA AccountGrows ==
    ASSUME NEW f \in Frame, NEW g \in Frame, Accounted(f), f.pc = "normalizing", g.pc = f.pc,
           g.examined = f.examined + 1,
           \/ /\ g.accepted = Append(f.accepted, f.examined + 1)
              /\ g.rejections = f.rejections
           \/ /\ g.accepted = f.accepted
              /\ \E reason : g.rejections =
                     Append(f.rejections, [at |-> f.examined + 1, reason |-> reason])
    PROVE  Accounted(g)
  <1>1. /\ f.accepted \in Seq(Nat \ {0}) /\ f.rejections \in Seq(Rejection)
        /\ f.examined \in Nat
        /\ Len(f.accepted) + Len(f.rejections) = f.examined
        /\ \A k \in 1 .. Len(f.accepted) : f.accepted[k] \in 1 .. f.examined
        /\ \A k \in 1 .. Len(f.rejections) :
              /\ f.rejections[k].at \in 1 .. f.examined
              /\ \A m \in 1 .. Len(f.accepted) : f.rejections[k].at # f.accepted[m]
              /\ \A m \in 1 .. Len(f.rejections) : f.rejections[k].at = f.rejections[m].at => k = m
        /\ \A i \in 1 .. f.examined :
              \/ \E k \in 1 .. Len(f.accepted) : f.accepted[k] = i
              \/ \E k \in 1 .. Len(f.rejections) : f.rejections[k].at = i
    BY FrameRecords DEF Accounted
  <1> DEFINE i == f.examined + 1
  <1>2. i \in Nat /\ i \notin 1 .. f.examined /\ 1 .. i = (1 .. f.examined) \union {i}
    BY <1>1
  <1>3. CASE g.accepted = Append(f.accepted, i) /\ g.rejections = f.rejections
    <2>1. /\ Len(g.accepted) = Len(f.accepted) + 1
          /\ g.accepted[Len(f.accepted) + 1] = i
          /\ \A k \in 1 .. Len(f.accepted) : g.accepted[k] = f.accepted[k]
          /\ Len(f.accepted) \in Nat /\ Len(f.rejections) \in Nat
      BY <1>1, <1>2, <1>3
    <2>2. /\ Len(g.accepted) + Len(g.rejections) = g.examined
          /\ \A k \in 1 .. Len(g.accepted) : g.accepted[k] \in 1 .. g.examined
      <3>1. Len(g.accepted) + Len(g.rejections) = g.examined
        <4>1. Len(g.rejections) = Len(f.rejections)
          BY <1>3
        <4>2. Len(g.accepted) = Len(f.accepted) + 1
          BY <2>1
        <4>3. Len(f.accepted) + Len(f.rejections) = f.examined
          BY <1>1
        <4>4. /\ Len(f.accepted) \in Nat /\ Len(f.rejections) \in Nat
              /\ f.examined \in Nat /\ g.examined = f.examined + 1
          BY <1>1, <2>1
        <4> DEFINE a == Len(f.accepted)
                   b == Len(f.rejections)
                   n == f.examined
                   a2 == Len(g.accepted)
                   b2 == Len(g.rejections)
                   n2 == g.examined
        <4>5. /\ a \in Nat /\ b \in Nat /\ n \in Nat /\ a + b = n /\ n2 = n + 1
              /\ (a2 = a + 1 /\ b2 = b) \/ (a2 = a /\ b2 = b + 1)
          BY <4>1, <4>2, <4>3, <4>4
        <4> HIDE DEF a, b, n, a2, b2, n2
        <4>6. a2 + b2 = n2
          BY <4>5
        <4> QED
          BY <4>6 DEF a2, b2, n2
      <3>2. ASSUME NEW k \in 1 .. Len(g.accepted) PROVE g.accepted[k] \in 1 .. i
        <4>1. CASE k = Len(f.accepted) + 1
          BY <1>2, <2>1, <4>1
        <4>2. CASE k \in 1 .. Len(f.accepted)
          BY <1>1, <1>2, <2>1, <4>2
        <4> QED
          BY <2>1, <4>1, <4>2
      <3> QED
        BY <3>1, <3>2
    <2>3. \A k \in 1 .. Len(g.rejections) :
             /\ g.rejections[k].at \in 1 .. g.examined
             /\ \A m \in 1 .. Len(g.accepted) : g.rejections[k].at # g.accepted[m]
             /\ \A m \in 1 .. Len(g.rejections) : g.rejections[k].at = g.rejections[m].at => k = m
      BY <1>1, <1>2, <1>3, <2>1
    <2>4. ASSUME NEW j \in 1 .. g.examined
          PROVE  \/ \E k \in 1 .. Len(g.accepted) : g.accepted[k] = j
                 \/ \E k \in 1 .. Len(g.rejections) : g.rejections[k].at = j
      <3>1. CASE j = i
        <4>1. Len(f.accepted) + 1 \in 1 .. Len(g.accepted)
          BY <2>1
        <4> QED
          BY <2>1, <3>1, <4>1
      <3>2. CASE \E k \in 1 .. Len(f.accepted) : f.accepted[k] = j
        <4>1. PICK k \in 1 .. Len(f.accepted) : f.accepted[k] = j
          BY <3>2
        <4>2. k \in 1 .. Len(g.accepted)
          BY <2>1
        <4> QED
          BY <2>1, <4>1, <4>2
      <3>3. CASE \E k \in 1 .. Len(f.rejections) : f.rejections[k].at = j
        BY <1>3, <3>3
      <3>4. j \in 1 .. f.examined \/ j = i
        BY <1>2
      <3> QED
        BY <1>1, <3>1, <3>2, <3>3, <3>4
    <2> QED
      BY <2>2, <2>3, <2>4 DEF Accounted
  <1>4. ASSUME NEW reason, g.accepted = f.accepted,
               g.rejections = Append(f.rejections, [at |-> i, reason |-> reason])
        PROVE  Accounted(g)
    <2>1. /\ Len(g.rejections) = Len(f.rejections) + 1
          /\ g.rejections[Len(f.rejections) + 1].at = i
          /\ \A k \in 1 .. Len(f.rejections) : g.rejections[k] = f.rejections[k]
          /\ Len(f.accepted) \in Nat /\ Len(f.rejections) \in Nat
      BY <1>1, <1>2, <1>4
    <2>2. /\ Len(g.accepted) + Len(g.rejections) = g.examined
          /\ \A k \in 1 .. Len(g.accepted) : g.accepted[k] \in 1 .. g.examined
      <3>1. Len(g.accepted) + Len(g.rejections) = g.examined
        <4>1. Len(g.accepted) = Len(f.accepted)
          BY <1>4
        <4>2. Len(g.rejections) = Len(f.rejections) + 1
          BY <2>1
        <4>3. Len(f.accepted) + Len(f.rejections) = f.examined
          BY <1>1
        <4>4. /\ Len(f.accepted) \in Nat /\ Len(f.rejections) \in Nat
              /\ f.examined \in Nat /\ g.examined = f.examined + 1
          BY <1>1, <2>1
        <4> DEFINE a == Len(f.accepted)
                   b == Len(f.rejections)
                   n == f.examined
                   a2 == Len(g.accepted)
                   b2 == Len(g.rejections)
                   n2 == g.examined
        <4>5. /\ a \in Nat /\ b \in Nat /\ n \in Nat /\ a + b = n /\ n2 = n + 1
              /\ (a2 = a + 1 /\ b2 = b) \/ (a2 = a /\ b2 = b + 1)
          BY <4>1, <4>2, <4>3, <4>4
        <4> HIDE DEF a, b, n, a2, b2, n2
        <4>6. a2 + b2 = n2
          BY <4>5
        <4> QED
          BY <4>6 DEF a2, b2, n2
      <3>2. ASSUME NEW k \in 1 .. Len(g.accepted) PROVE g.accepted[k] \in 1 .. i
        <4>1. f.accepted[k] \in 1 .. f.examined
          BY <1>1, <1>4
        <4> QED
          BY <1>2, <1>4, <4>1
      <3> QED
        BY <3>1, <3>2
    <2>3. \A k \in 1 .. Len(g.rejections) :
             /\ g.rejections[k].at \in 1 .. g.examined
             /\ \A m \in 1 .. Len(g.accepted) : g.rejections[k].at # g.accepted[m]
             /\ \A m \in 1 .. Len(g.rejections) : g.rejections[k].at = g.rejections[m].at => k = m
      BY <1>1, <1>2, <1>4, <2>1
    <2>4. ASSUME NEW j \in 1 .. g.examined
          PROVE  \/ \E k \in 1 .. Len(g.accepted) : g.accepted[k] = j
                 \/ \E k \in 1 .. Len(g.rejections) : g.rejections[k].at = j
      <3>1. CASE j = i
        <4>1. Len(f.rejections) + 1 \in 1 .. Len(g.rejections)
          BY <2>1
        <4> QED
          BY <2>1, <3>1, <4>1
      <3>2. CASE \E k \in 1 .. Len(f.rejections) : f.rejections[k].at = j
        <4>1. PICK k \in 1 .. Len(f.rejections) : f.rejections[k].at = j
          BY <3>2
        <4>2. k \in 1 .. Len(g.rejections)
          BY <2>1
        <4> QED
          BY <2>1, <4>1, <4>2
      <3>3. CASE \E k \in 1 .. Len(f.accepted) : f.accepted[k] = j
        BY <1>4, <3>3
      <3>4. j \in 1 .. f.examined \/ j = i
        BY <1>2
      <3> QED
        BY <1>1, <3>1, <3>2, <3>3, <3>4
    <2> QED
      BY <2>2, <2>3, <2>4 DEF Accounted
  <1> QED
    BY <1>3, <1>4

LEMMA NextKeepsAccount == IInv /\ AccountInv /\ [Next]_vars => AccountInv'
  <1> SUFFICES ASSUME IInv, IInv', AccountInv, [Next]_vars, NEW c \in Calls
               PROVE  Accounted(ingest'[c])
    BY NextKeepsIInv DEF AccountInv
  <1>1. /\ ingest[c] \in Frame /\ ingest'[c] \in Frame
        /\ ingest \in [Calls -> Frame]
        /\ Accounted(ingest[c])
        /\ KeptInv(c) /\ ProgressInv(c) /\ ProgressInv(c)'
    BY DEF IInv, TypeOK, AccountInv
  <1>2. ASSUME ingest'[c] = ingest[c] PROVE Accounted(ingest'[c])
    BY <1>1, <1>2
  <1>3. ASSUME NEW p \in {"idle"} \union Live \union Ended,
               ingest'[c] = [ingest[c] EXCEPT !.pc = p],
               p # "idle",
               p = "fetching" => ingest[c].pc = "idle",
               p \in {"upserting", "done"} =>
                   ingest[c].examined = Len(ingest[c].fetched.records)
        PROVE  Accounted(ingest'[c])
    <2>1. /\ ingest'[c].pc = p /\ ingest'[c].fetched = ingest[c].fetched
          /\ ingest'[c].examined = ingest[c].examined
          /\ ingest'[c].accepted = ingest[c].accepted
          /\ ingest'[c].rejections = ingest[c].rejections
      BY <1>1, <1>3 DEF Frame
    <2> DEFINE f == ingest[c]
               g == ingest'[c]
    <2>2. /\ Accounted(f)
          /\ g.fetched = f.fetched /\ g.examined = f.examined
          /\ g.accepted = f.accepted /\ g.rejections = f.rejections
          /\ g.pc \in {"idle", "fetching"} => f.pc \in {"idle", "fetching"}
          /\ g.pc \in {"upserting", "done"} => g.examined = Len(g.fetched.records)
      BY <1>1, <1>3, <2>1
    <2> HIDE DEF f, g
    <2>3. Accounted(g)
      BY <2>2, AccountKept
    <2> QED
      BY <2>3 DEF g
  <1>4. ASSUME NEW d \in Calls, NEW community \in Communities, NEW w \in Windows,
               Call(d, community, w)
        PROVE  Accounted(ingest'[c])
    <2>1. CASE c = d
      BY <1>1, <1>4, <2>1, AccountKept DEF Call, Frame
    <2> QED
      BY <1>1, <1>2, <1>4, <2>1 DEF Call
  <1>5. ASSUME NEW d \in Calls, FetchEnds(d)
        PROVE  Accounted(ingest'[c])
    <2>1. CASE c = d
      BY <1>1, <1>3, <1>5, <2>1 DEF FetchEnds, Live, Ended
    <2> QED
      BY <1>1, <1>2, <1>5, <2>1 DEF FetchEnds
  <1>6. ASSUME NEW d \in Calls, NEW f \in Fetches, FetchAnswers(d, f)
        PROVE  Accounted(ingest'[c])
    <2>1. CASE c = d
      <3>1. /\ ingest[c].pc = "fetching"
            /\ ingest'[c] = [ingest[c] EXCEPT !.pc = "normalizing", !.fetched = f]
        BY <1>1, <1>6, <2>1 DEF FetchAnswers
      <3>2. /\ ingest'[c].pc = "normalizing" /\ ingest'[c].examined = ingest[c].examined
            /\ ingest'[c].accepted = ingest[c].accepted
            /\ ingest'[c].rejections = ingest[c].rejections
        BY <1>1, <3>1 DEF Frame
      <3> DEFINE g == ingest'[c]
      <3>3. ingest[c].examined = 0 /\ ingest[c].rejections = <<>> /\ ingest[c].accepted = <<>>
        <4>1. ingest[c].examined = 0 /\ ingest[c].rejections = <<>>
          BY <1>1, <3>1 DEF Accounted
        <4>2. Len(ingest[c].accepted) + Len(ingest[c].rejections) = ingest[c].examined
          BY <1>1 DEF Accounted
        <4>3. ingest[c].accepted \in Seq(Nat \ {0})
          BY <1>1, FrameRecords
        <4> QED
          BY <4>1, <4>2, <4>3
      <3>4. /\ g.pc = "normalizing" /\ g.examined = 0
            /\ g.rejections = <<>> /\ g.accepted = <<>>
        BY <3>2, <3>3
      <3> HIDE DEF g
      <3>5. Accounted(g)
        BY <3>4 DEF Accounted
      <3> QED
        BY <3>5 DEF g
    <2> QED
      BY <1>1, <1>2, <1>6, <2>1 DEF FetchAnswers
  <1>7. ASSUME NEW d \in Calls, Examine(d)
        PROVE  Accounted(ingest'[c])
    <2>1. CASE c = d
      <3> DEFINE i == ingest[c].examined + 1
      <3>1. /\ ingest[c].pc = "normalizing" /\ ingest'[c].pc = ingest[c].pc
            /\ ingest'[c].examined = i
            /\ ingest'[c].accepted = IF Outcome(c, i) = Accepted
                                     THEN Append(ingest[c].accepted, i) ELSE ingest[c].accepted
            /\ ingest'[c].rejections = IF Outcome(c, i) = Accepted THEN ingest[c].rejections
                                       ELSE Reject(ingest[c].rejections, i, Outcome(c, i))
        BY <1>1, <1>7, <2>1 DEF Examine, Frame
      <3> QED
        BY <1>1, <3>1, AccountGrows DEF Reject
    <2> QED
      BY <1>1, <1>2, <1>7, <2>1 DEF Examine
  <1>8. ASSUME NEW d \in Calls, Examined(d)
        PROVE  Accounted(ingest'[c])
    <2>1. CASE c = d
      BY <1>1, <1>3, <1>8, <2>1 DEF Examined, Live
    <2> QED
      BY <1>1, <1>2, <1>8, <2>1 DEF Examined
  <1>9. ASSUME NEW d \in Calls, Upsert(d)
        PROVE  Accounted(ingest'[c])
    <2>1. CASE c = d
      <3>1. /\ ingest'[c].pc = ingest[c].pc /\ ingest'[c].fetched = ingest[c].fetched
            /\ ingest'[c].examined = ingest[c].examined
            /\ ingest'[c].accepted = ingest[c].accepted
            /\ ingest'[c].rejections = ingest[c].rejections
        BY <1>1, <1>9, <2>1 DEF Upsert, Frame
      <3> DEFINE f == ingest[c]
                 g == ingest'[c]
      <3>2. /\ Accounted(f)
            /\ g.fetched = f.fetched /\ g.examined = f.examined
            /\ g.accepted = f.accepted /\ g.rejections = f.rejections
            /\ g.pc \in {"idle", "fetching"} => f.pc \in {"idle", "fetching"}
        BY <1>1, <3>1
      <3>3. g.pc \in {"upserting", "done"} => g.examined = Len(g.fetched.records)
        BY <1>1, <3>1 DEF Accounted
      <3> HIDE DEF f, g
      <3>4. Accounted(g)
        BY <3>2, <3>3, AccountKept
      <3> QED
        BY <3>4 DEF g
    <2> QED
      BY <1>1, <1>2, <1>9, <2>1 DEF Upsert
  <1>10. ASSUME NEW d \in Calls, Return(d)
         PROVE  Accounted(ingest'[c])
    <2>1. CASE c = d
      <3>1. ingest[c].examined = Len(ingest[c].fetched.records)
        BY <1>1, <1>10, <2>1 DEF Return, Accounted
      <3> QED
        BY <1>1, <1>3, <1>10, <2>1, <3>1 DEF Return, Ended
    <2> QED
      BY <1>1, <1>2, <1>10, <2>1 DEF Return
  <1>11. ASSUME NEW d \in Calls, StatementRaises(d)
         PROVE  Accounted(ingest'[c])
    <2>1. CASE c = d
      BY <1>1, <1>3, <1>11, <2>1 DEF StatementRaises, Ended
    <2> QED
      BY <1>1, <1>2, <1>11, <2>1 DEF StatementRaises
  <1>12. CASE Crash
    <2>1. CASE ingest[c].pc \in Live
      BY <1>3, <1>12, <2>1 DEF Crash, Ended
    <2> QED
      BY <1>2, <1>12, <2>1 DEF Crash
  <1>13. CASE UNCHANGED vars
    BY <1>2, <1>13 DEF vars
  <1> QED
    BY <1>4, <1>5, <1>6, <1>7, <1>8, <1>9, <1>10, <1>11, <1>12, <1>13
       DEF Next, Answer, Run

\* A call that returns has put every parsed record in exactly one of the two
\* tuples of its result, once, and its counts add up to no more than the rows.
THEOREM RecordsAddUp == Spec => []RecordsAccounted
  <1>1. Init => AccountInv
    BY DEF Init, AccountInv, Accounted
  <1>2. ASSUME IInv, AccountInv, NEW c \in Calls, ingest[c].pc = "done"
        PROVE  LET f == ingest[c].fetched IN
               /\ \A i \in 1 .. Len(f.records) :
                     Cardinality(RejectedAt(c, i)) = IF i \in Kept(c) THEN 0 ELSE 1
               /\ Len(f.records) = ingest[c].upserted + Len(ingest[c].rejections)
               /\ ingest[c].upserted + Len(ingest[c].rejections) + f.parse_rejections <= f.rows
    <2>1. ingest[c] \in Frame /\ Accounted(ingest[c]) /\ ProgressInv(c)
      BY <1>2 DEF IInv, TypeOK, AccountInv
    <2>2. /\ ingest[c].examined = Len(ingest[c].fetched.records)
          /\ ingest[c].upserted = Len(ingest[c].accepted)
          /\ Len(ingest[c].accepted) + Len(ingest[c].rejections) = ingest[c].examined
      BY <1>2, <2>1 DEF Accounted, ProgressInv
    <2>3. ASSUME NEW i \in 1 .. Len(ingest[c].fetched.records)
          PROVE  Cardinality(RejectedAt(c, i)) = IF i \in Kept(c) THEN 0 ELSE 1
      <3>1. CASE i \in Kept(c)
        <4>1. RejectedAt(c, i) = {}
          BY <2>1, <3>1 DEF RejectedAt, Kept, Accounted
        <4> QED
          BY <3>1, <4>1, FS_EmptySet
      <3>2. CASE i \notin Kept(c)
        <4>1. PICK k \in 1 .. Len(ingest[c].rejections) : ingest[c].rejections[k].at = i
          BY <2>1, <2>2, <3>2 DEF Kept, Accounted
        <4>2. RejectedAt(c, i) = {k}
          BY <2>1, <4>1 DEF RejectedAt, Accounted
        <4> QED
          BY <3>2, <4>2, FS_Singleton
      <3> QED
        BY <3>1, <3>2
    <2>4. ingest[c].fetched \in FetchResult \/ ingest[c].fetched = NoFetch
      BY <2>1, FetchesAreValid DEF Frame
    <2>5. Len(ingest[c].fetched.records) + ingest[c].fetched.parse_rejections
              <= ingest[c].fetched.rows
      BY <2>4 DEF FetchResult, NoFetch
    <2> QED
      BY <2>2, <2>3, <2>5
  <1>3. IInv /\ AccountInv => RecordsAccounted
    BY <1>2 DEF RecordsAccounted
  <1> QED
    BY <1>1, <1>3, InitIInv, NextKeepsIInv, NextKeepsAccount, PTL DEF Spec
=============================================================================
