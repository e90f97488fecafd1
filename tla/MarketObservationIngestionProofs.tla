------------------ MODULE MarketObservationIngestionProofs ------------------
(***************************************************************************)
(* Theorems about MarketObservationIngestion.  The inductive invariant     *)
(* says that at most one call writes, that a writing call has checked its  *)
(* batch, and that table and result already agree with the part of the     *)
(* batch that is written.                                                  *)
(***************************************************************************)
EXTENDS MarketObservationIngestion, TLAPS

OneWriter == \A c, d \in Calls : Writing(c) /\ Writing(d) => c = d

\* What holds of every call's frame, and of a writing call's frame.
FrameSound(c) ==
    /\ BelongsTo(ingest[c].batch, ingest[c].city)
    /\ ingest[c].pc \in {"idle", "fetching"} =>
          ingest[c].batch = <<>> /\ ingest[c].persisted = 0 /\ ingest[c].ids = <<>>
    /\ Writing(c) =>
          /\ ingest[c].persisted < Len(ingest[c].batch)
          /\ LastStands(observation, ingest[c].batch, ingest[c].persisted)
          /\ NamesInOrder(ingest[c].ids, ingest[c].batch, ingest[c].persisted)

FramesSound == \A c \in Calls : FrameSound(c)

IInv == TypeOK /\ OneWriter /\ FramesSound /\ StoredAsPublished

-----------------------------------------------------------------------------
(* One turn of the loop *)

LEMMA BatchTypes ==
    ASSUME NEW b \in Batches \union {<<>>}
    PROVE  /\ b \in Seq(Observation)
           /\ Len(b) \in Nat
           /\ \A k \in 1 .. Len(b) : b[k] \in Observation
<1>1. b \in Seq(Observation)
  <2>1. CASE b = <<>>
    BY <2>1
  <2>2. CASE b \in Batches
    BY <2>2, BatchesAreObservations
  <2> QED
    BY <2>1, <2>2
<1> QED
  BY <1>1

\* The last of each id still stands after the next one is written.
LEMMA LastStandsGrows ==
    ASSUME NEW b \in Seq(Observation), NEW n \in Nat, n < Len(b),
           NEW t \in [ObservationIds -> Observation \union {Null}],
           LastStands(t, b, n)
    PROVE  LastStands([t EXCEPT ![b[n + 1].id] = b[n + 1]], b, n + 1)
<1> DEFINE u == [t EXCEPT ![b[n + 1].id] = b[n + 1]]
<1>1. \A k \in 1 .. n + 1 : b[k].id \in ObservationIds
  BY DEF Observation
<1> SUFFICES ASSUME NEW k \in 1 .. n + 1,
                    \A j \in k + 1 .. n + 1 : b[j].id # b[k].id
             PROVE  u[b[k].id] = b[k]
  BY DEF LastStands
<1>2. CASE k = n + 1
  BY <1>1, <1>2
<1>3. CASE k # n + 1
  <2>1. k \in 1 .. n /\ n + 1 \in k + 1 .. n + 1
    BY <1>3
  <2>2. b[n + 1].id # b[k].id
    BY <2>1
  <2>3. t[b[k].id] = b[k]
    BY <2>1 DEF LastStands
  <2> QED
    BY <1>1, <2>2, <2>3
<1> QED
  BY <1>2, <1>3

\* The ids stay those mentioned, in the order of their first mention.
LEMMA NamesGrow ==
    ASSUME NEW b \in Seq(Observation), NEW n \in Nat, n < Len(b),
           NEW ids \in Seq(ObservationIds),
           NamesInOrder(ids, b, n)
    PROVE  NamesInOrder(Mentioned(ids, b[n + 1].id), b, n + 1)
<1> DEFINE id == b[n + 1].id
           more == Append(ids, id)
<1>0. id \in ObservationIds
  BY DEF Observation
<1>1. CASE \E k \in 1 .. Len(ids) : ids[k] = id
  <2>1. Mentioned(ids, id) = ids
    BY <1>1 DEF Mentioned
  <2>2. \A k \in 1 .. n + 1 : \E i \in 1 .. Len(ids) : ids[i] = b[k].id
    BY <1>1 DEF NamesInOrder
  <2> QED
    BY <2>1, <2>2 DEF NamesInOrder
<1>2. CASE ~ \E k \in 1 .. Len(ids) : ids[k] = id
  <2>1. /\ Mentioned(ids, id) = more
        /\ Len(more) = Len(ids) + 1 /\ Len(ids) \in Nat
        /\ \A i \in 1 .. Len(ids) : more[i] = ids[i]
        /\ more[Len(ids) + 1] = id
    BY <1>0, <1>2 DEF Mentioned
  <2> HIDE DEF more, id
  <2>2. \A k \in 1 .. n : \E i \in 1 .. Len(ids) : more[i] = b[k].id
    BY <2>1 DEF NamesInOrder
  <2>3. \A k \in 1 .. n + 1 : \E i \in 1 .. Len(more) : more[i] = b[k].id
    <3> SUFFICES ASSUME NEW k \in 1 .. n + 1
                 PROVE  \E i \in 1 .. Len(more) : more[i] = b[k].id
      OBVIOUS
    <3>1. CASE k = n + 1
      BY <2>1, <3>1 DEF id
    <3>2. CASE k # n + 1
      <4>1. k \in 1 .. n
        BY <3>2
      <4> QED
        BY <2>1, <2>2, <4>1
    <3> QED
      BY <3>1, <3>2
  <2>4. \A i \in 1 .. Len(more) : \E k \in 1 .. n + 1 :
           /\ b[k].id = more[i]
           /\ \A j \in 1 .. k : \A later \in i + 1 .. Len(more) : b[j].id # more[later]
    <3> SUFFICES ASSUME NEW i \in 1 .. Len(more)
                 PROVE  \E k \in 1 .. n + 1 :
                          /\ b[k].id = more[i]
                          /\ \A j \in 1 .. k : \A later \in i + 1 .. Len(more) :
                                b[j].id # more[later]
      OBVIOUS
    <3>1. CASE i = Len(ids) + 1
      <4>1. i + 1 .. Len(more) = {}
        BY <2>1, <3>1
      <4> QED
        BY <2>1, <3>1, <4>1 DEF id
    <3>2. CASE i # Len(ids) + 1
      <4>1. i \in 1 .. Len(ids)
        BY <2>1, <3>2
      <4>2. PICK k \in 1 .. n :
               /\ b[k].id = ids[i]
               /\ \A j \in 1 .. k : \A later \in i + 1 .. Len(ids) : b[j].id # ids[later]
        BY <4>1 DEF NamesInOrder
      <4>3. ASSUME NEW j \in 1 .. k, NEW later \in i + 1 .. Len(more)
            PROVE  b[j].id # more[later]
        <5>1. CASE later = Len(ids) + 1
          <6>1. j \in 1 .. n
            BY <4>2
          <6>2. \E m \in 1 .. Len(ids) : ids[m] = b[j].id
            BY <6>1 DEF NamesInOrder
          <6> QED
            BY <1>2, <2>1, <5>1, <6>2
        <5>2. CASE later # Len(ids) + 1
          <6>1. later \in i + 1 .. Len(ids) /\ later \in 1 .. Len(ids)
            BY <2>1, <4>1, <5>2
          <6> QED
            BY <2>1, <4>2, <6>1
        <5> QED
          BY <5>1, <5>2
      <4>4. k \in 1 .. n + 1 /\ b[k].id = more[i]
        BY <2>1, <4>1, <4>2
      <4> QED
        BY <4>3, <4>4
    <3> QED
      BY <3>1, <3>2
  <2> QED
    BY <2>1, <2>3, <2>4 DEF NamesInOrder, id
<1> QED
  BY <1>1, <1>2

-----------------------------------------------------------------------------
(* Types *)

LEMMA InitTypes == Init => TypeOK
  BY CrashesAreBounded DEF Init, TypeOK, Frame, Live, Ended

\* A frame that is changed in some fields is still a frame.
LEMMA OutcomeIsFrame ==
    ASSUME NEW f \in Frame, NEW outcome \in Ended
    PROVE  [f EXCEPT !.pc = outcome] \in Frame
  BY DEF Frame

LEMMA WriteKeepsTypes ==
    ASSUME TypeOK, FramesSound, NEW c \in Calls, WriteObservation(c)
    PROVE  TypeOK'
<1> DEFINE frame == ingest[c]
           o == frame.batch[frame.persisted + 1]
<1>1. frame \in Frame /\ frame.persisted \in Nat /\ frame.persisted < Len(frame.batch)
  BY DEF TypeOK, FramesSound, FrameSound, WriteObservation, Frame
<1>2. frame.batch \in Seq(Observation) /\ o \in Observation
  BY <1>1, BatchTypes DEF Frame
<1>3. o.id \in ObservationIds
  BY <1>2 DEF Observation
<1>4. Mentioned(frame.ids, o.id) \in Seq(ObservationIds)
  BY <1>1, <1>3 DEF Mentioned, Frame
<1> HIDE DEF o
<1>5. /\ observation' \in [ObservationIds -> Observation \union {Null}]
      /\ \A id \in ObservationIds : observation'[id] # Null => observation'[id].id = id
  BY <1>2, <1>3 DEF WriteObservation, RowFor, TypeOK, o
<1>6. ingest' \in [Calls -> Frame]
  <2>1. \A pc \in {"done", "writing"} :
           [frame EXCEPT !.pc = pc, !.persisted = frame.persisted + 1,
                         !.ids = Mentioned(frame.ids, o.id)] \in Frame
    <3> HIDE DEF frame
    <3>1. \A n \in Nat, ids \in Seq(ObservationIds), pc \in {"done", "writing"} :
             [frame EXCEPT !.pc = pc, !.persisted = n, !.ids = ids] \in Frame
      BY <1>1 DEF Frame, Live, Ended
    <3>2. frame.persisted + 1 \in Nat
      BY <1>1
    <3> QED
      BY <1>4, <3>1, <3>2, Zenon
  <2>2. \E pc \in {"done", "writing"} :
           ingest' = [ingest EXCEPT ![c] =
              [frame EXCEPT !.pc = pc, !.persisted = frame.persisted + 1,
                            !.ids = Mentioned(frame.ids, o.id)]]
    BY DEF WriteObservation, o
  <2> QED
    BY <2>1, <2>2 DEF TypeOK
<1> QED
  BY <1>5, <1>6 DEF WriteObservation, TypeOK

LEMMA NextKeepsTypes == TypeOK /\ FramesSound /\ [Next]_vars => TypeOK'
<1> SUFFICES ASSUME TypeOK, FramesSound, [Next]_vars PROVE TypeOK'
  OBVIOUS
<1>1. ASSUME NEW c \in Calls, NEW city \in Cities, Call(c, city)
      PROVE  TypeOK'
  <2>1. [ingest[c] EXCEPT !.pc = "fetching", !.city = city] \in Frame
    BY DEF TypeOK, Frame, Live
  <2> QED
    BY <1>1, <2>1 DEF Call, TypeOK
<1>2. ASSUME NEW c \in Calls, NEW outcome \in Ended, End(c, outcome),
             UNCHANGED <<observation, crashes>>
      PROVE  TypeOK'
  <2>1. [ingest[c] EXCEPT !.pc = outcome] \in Frame
    BY OutcomeIsFrame DEF TypeOK
  <2> QED
    BY <1>2, <2>1 DEF End, TypeOK
<1>3. ASSUME NEW c \in Calls, NEW outcome, FetchEnds(c, outcome)
      PROVE  TypeOK'
  BY <1>2, <1>3 DEF FetchEnds, Ended
<1>4. ASSUME NEW c \in Calls, NEW b \in Batches, FetchAnswersForeign(c, b)
      PROVE  TypeOK'
  BY <1>2, <1>4 DEF FetchAnswersForeign, Ended
<1>5. ASSUME NEW c \in Calls, NEW b \in Batches, FetchAnswers(c, b)
      PROVE  TypeOK'
  <2>1. \A pc \in {"done", "writing"} :
           [ingest[c] EXCEPT !.pc = pc, !.batch = b] \in Frame
    BY DEF TypeOK, Frame, Live, Ended
  <2>2. \E pc \in {"done", "writing"} :
           ingest' = [ingest EXCEPT ![c] = [ingest[c] EXCEPT !.pc = pc, !.batch = b]]
    BY <1>5 DEF FetchAnswers
  <2> QED
    BY <1>5, <2>1, <2>2 DEF FetchAnswers, TypeOK
<1>6. ASSUME NEW c \in Calls, StatementRaises(c)
      PROVE  TypeOK'
  BY <1>2, <1>6 DEF StatementRaises, Ended
<1>7. CASE Crash
  <2>1. \A c \in Calls : ingest'[c] \in Frame
    <3>1. \A c \in Calls : [ingest[c] EXCEPT !.pc = "lost"] \in Frame
      BY OutcomeIsFrame DEF TypeOK, Ended
    <3> QED
      BY <1>7, <3>1 DEF Crash, TypeOK
  <2>2. ingest' \in [Calls -> Frame]
    BY <1>7, <2>1 DEF Crash
  <2> QED
    BY <1>7, <2>2, CrashesAreBounded DEF Crash, TypeOK
<1>8. CASE UNCHANGED vars
  BY <1>8 DEF TypeOK, vars
<1> QED
  BY <1>1, <1>3, <1>4, <1>5, <1>6, <1>7, <1>8, WriteKeepsTypes DEF Next, Answer

-----------------------------------------------------------------------------
(* The inductive invariant *)

\* A step by which a call other than a writing one changes its frame, while the
\* table stays, keeps the invariant if the frame is sound.
LEMMA QuietStep ==
    ASSUME IInv, TypeOK', NEW c \in Calls, NEW f \in Frame,
           ingest' = [ingest EXCEPT ![c] = f], UNCHANGED observation,
           BelongsTo(f.batch, f.city),
           f.pc # "idle",
           f.pc = "fetching" => f.batch = <<>> /\ f.persisted = 0 /\ f.ids = <<>>,
           f.pc = "writing" =>
              /\ LoopIsFree
              /\ f.persisted = 0 /\ f.ids = <<>> /\ f.batch # <<>>,
           /\ f.city = ingest[c].city /\ f.batch = ingest[c].batch
              /\ f.persisted = ingest[c].persisted
           \/ ingest[c].persisted = 0
    PROVE  IInv'
<1>1. /\ ingest'[c] = f
      /\ \A d \in Calls \ {c} : ingest'[d] = ingest[d]
  BY DEF IInv, TypeOK
<1>2. OneWriter'
  BY <1>1 DEF IInv, OneWriter, Writing, LoopIsFree
<1>3. FramesSound'
  <2> SUFFICES ASSUME NEW d \in Calls PROVE FrameSound(d)'
    BY DEF FramesSound
  <2>1. CASE d = c
    <3>1. ASSUME f.pc = "writing"
          PROVE  /\ f.persisted < Len(f.batch)
                 /\ LastStands(observation', f.batch, f.persisted)
                 /\ NamesInOrder(f.ids, f.batch, f.persisted)
      <4>1. f.batch \in Seq(Observation) /\ Len(f.batch) \in Nat \ {0}
        BY <3>1, BatchTypes DEF Frame
      <4>2. f.persisted = 0 /\ f.ids = <<>> /\ 1 .. 0 = {} /\ Len(<<>>) = 0
        BY <3>1
      <4> QED
        BY <4>1, <4>2 DEF LastStands, NamesInOrder
    <3> QED
      BY <1>1, <2>1, <3>1 DEF FrameSound, Writing
  <2>2. CASE d # c
    BY <1>1, <2>2 DEF IInv, FramesSound, FrameSound, Writing
  <2> QED
    BY <2>1, <2>2
<1>4. StoredAsPublished'
  <2> SUFFICES ASSUME NEW id \in ObservationIds, observation'[id] # Null
               PROVE  \E d \in Calls :
                        /\ ingest'[d].city = observation'[id].city
                        /\ \E k \in 1 .. ingest'[d].persisted :
                              ingest'[d].batch[k] = observation'[id]
    BY DEF StoredAsPublished
  <2>1. PICK d \in Calls : /\ ingest[d].city = observation[id].city
                           /\ \E k \in 1 .. ingest[d].persisted :
                                 ingest[d].batch[k] = observation[id]
    BY DEF IInv, StoredAsPublished
  <2>2. d = c => ingest[c].persisted # 0
    BY <2>1
  <2>3. /\ ingest'[d].city = ingest[d].city
        /\ ingest'[d].batch = ingest[d].batch
        /\ ingest'[d].persisted = ingest[d].persisted
    BY <1>1, <2>2
  <2> QED
    BY <2>1, <2>3
<1> QED
  BY <1>2, <1>3, <1>4 DEF IInv

LEMMA InitIsSound == Init => IInv
<1> SUFFICES ASSUME Init PROVE IInv
  OBVIOUS
<1>1. \A c \in Calls : /\ ingest[c].pc = "idle" /\ ingest[c].batch = <<>>
                       /\ ingest[c].persisted = 0 /\ ingest[c].ids = <<>>
  BY DEF Init
<1>2. OneWriter /\ FramesSound
  BY <1>1 DEF OneWriter, FramesSound, FrameSound, BelongsTo, Writing
<1>3. StoredAsPublished
  BY DEF Init, StoredAsPublished
<1> QED
  BY <1>2, <1>3, InitTypes DEF IInv

\* What one turn of the loop leaves: the batch written one observation further.
LEMMA WriteGrows ==
    ASSUME IInv, NEW c \in Calls, WriteObservation(c)
    PROVE  LET f == ingest[c]
               g == ingest'[c]
           IN  /\ g.city = f.city /\ g.batch = f.batch
               /\ g.persisted = f.persisted + 1
               /\ g.persisted \in 1 .. Len(g.batch)
               /\ g.pc = IF g.persisted = Len(g.batch) THEN "done" ELSE "writing"
               /\ \A d \in Calls \ {c} : ingest'[d] = ingest[d]
               /\ g.batch[g.persisted] \in Observation
               /\ g.batch[g.persisted].city = g.city
               /\ observation' = [observation EXCEPT
                      ![g.batch[g.persisted].id] = g.batch[g.persisted]]
               /\ LastStands(observation', g.batch, g.persisted)
               /\ NamesInOrder(g.ids, g.batch, g.persisted)
<1> DEFINE f == ingest[c]
           g == ingest'[c]
           n == f.persisted
           o == f.batch[n + 1]
<1>1. f \in Frame /\ FrameSound(c) /\ Writing(c)
  BY DEF IInv, TypeOK, FramesSound, WriteObservation
<1>2. /\ n \in Nat /\ n < Len(f.batch) /\ f.ids \in Seq(ObservationIds)
      /\ f.batch \in Seq(Observation) /\ Len(f.batch) \in Nat
  BY <1>1, BatchTypes DEF FrameSound, Frame
<1>3. g = [f EXCEPT !.pc = IF n + 1 = Len(f.batch) THEN "done" ELSE "writing",
                    !.persisted = n + 1, !.ids = Mentioned(f.ids, o.id)]
  BY DEF WriteObservation, IInv, TypeOK
<1>4. /\ g.city = f.city /\ g.batch = f.batch /\ g.persisted = n + 1
      /\ g.pc = IF n + 1 = Len(f.batch) THEN "done" ELSE "writing"
      /\ g.ids = Mentioned(f.ids, o.id)
  BY <1>1, <1>3 DEF Frame
<1>5. \A d \in Calls \ {c} : ingest'[d] = ingest[d]
  BY DEF WriteObservation, IInv, TypeOK
<1>6. observation' = [observation EXCEPT ![o.id] = o]
  BY DEF WriteObservation, RowFor
<1>7. /\ LastStands(observation, f.batch, n)
      /\ NamesInOrder(f.ids, f.batch, n)
      /\ BelongsTo(f.batch, f.city)
  BY <1>1 DEF FrameSound
<1>8. observation \in [ObservationIds -> Observation \union {Null}]
  BY DEF IInv, TypeOK
<1>9. n + 1 \in 1 .. Len(f.batch)
  BY <1>2
<1>10. o \in Observation /\ o.city = f.city
  BY <1>2, <1>7, <1>9 DEF BelongsTo
<1> HIDE DEF f, g, n
<1>11. LastStands(observation', f.batch, n + 1)
  BY <1>2, <1>6, <1>7, <1>8, LastStandsGrows
<1>12. NamesInOrder(g.ids, f.batch, n + 1)
  BY <1>2, <1>4, <1>7, NamesGrow
<1> HIDE DEF o
<1>13. g.batch[g.persisted] = o
  BY <1>4 DEF o
<1> QED
  BY <1>4, <1>5, <1>6, <1>9, <1>10, <1>11, <1>12, <1>13 DEF f, g, n

LEMMA WriteIsSound ==
    ASSUME IInv, NEW c \in Calls, WriteObservation(c)
    PROVE  IInv'
<1> DEFINE f == ingest[c]
           g == ingest'[c]
           o == g.batch[g.persisted]
<1>1. /\ g.city = f.city /\ g.batch = f.batch
      /\ g.persisted = f.persisted + 1
      /\ g.persisted \in 1 .. Len(g.batch)
      /\ g.pc = IF g.persisted = Len(g.batch) THEN "done" ELSE "writing"
      /\ \A d \in Calls \ {c} : ingest'[d] = ingest[d]
      /\ o \in Observation
      /\ o.city = g.city
      /\ observation' = [observation EXCEPT ![o.id] = o]
      /\ LastStands(observation', g.batch, g.persisted)
      /\ NamesInOrder(g.ids, g.batch, g.persisted)
  BY WriteGrows
<1>2. TypeOK'
  BY WriteKeepsTypes DEF IInv
<1>3. \A d \in Calls \ {c} : ~ Writing(d)
  BY DEF IInv, OneWriter, WriteObservation
<1> HIDE DEF o, g, f
<1>4. OneWriter'
  BY <1>1, <1>3 DEF OneWriter, Writing
<1>5. FramesSound'
  <2> SUFFICES ASSUME NEW d \in Calls PROVE FrameSound(d)'
    BY DEF FramesSound
  <2>1. CASE d = c
    <3>1. BelongsTo(g.batch, g.city)
      BY <1>1 DEF IInv, FramesSound, FrameSound, f
    <3>2. g.pc = "writing" => g.persisted < Len(g.batch)
      <4>1. g.batch \in Seq(Observation) /\ Len(g.batch) \in Nat
        BY <1>2, BatchTypes DEF TypeOK, Frame, g
      <4> QED
        BY <1>1, <4>1
    <3> QED
      BY <1>1, <2>1, <3>1, <3>2 DEF FrameSound, Writing, g
  <2>2. CASE d # c
    BY <1>1, <1>3, <2>2 DEF IInv, FramesSound, FrameSound, Writing
  <2> QED
    BY <2>1, <2>2
<1>6. StoredAsPublished'
  <2> SUFFICES ASSUME NEW id \in ObservationIds, observation'[id] # Null
               PROVE  \E d \in Calls :
                        /\ ingest'[d].city = observation'[id].city
                        /\ \E k \in 1 .. ingest'[d].persisted :
                              ingest'[d].batch[k] = observation'[id]
    BY DEF StoredAsPublished
  <2>0. observation \in [ObservationIds -> Observation \union {Null}]
    BY DEF IInv, TypeOK
  <2>1. CASE id = o.id
    <3>1. observation'[id] = o
      BY <1>1, <2>0, <2>1
    <3>2. g.persisted \in 1 .. g.persisted /\ g.batch[g.persisted] = o
      BY <1>1 DEF o
    <3> QED
      BY <1>1, <3>1, <3>2 DEF g
  <2>2. CASE id # o.id
    <3>1. observation'[id] = observation[id]
      BY <1>1, <2>0, <2>2
    <3>2. PICK d \in Calls : /\ ingest[d].city = observation[id].city
                             /\ \E k \in 1 .. ingest[d].persisted :
                                   ingest[d].batch[k] = observation[id]
      BY <3>1 DEF IInv, StoredAsPublished
    <3>3. ingest[d].persisted \in Nat
      BY DEF IInv, TypeOK, Frame
    <3>4. /\ ingest'[d].city = ingest[d].city
          /\ ingest'[d].batch = ingest[d].batch
          /\ \A k \in 1 .. ingest[d].persisted : k \in 1 .. ingest'[d].persisted
      BY <1>1, <3>3 DEF f, g
    <3> QED
      BY <3>1, <3>2, <3>4
  <2> QED
    BY <2>1, <2>2
<1> QED
  BY <1>2, <1>4, <1>5, <1>6 DEF IInv

LEMMA StepIsSound == IInv /\ [Next]_vars => IInv'
<1> SUFFICES ASSUME IInv, [Next]_vars PROVE IInv'
  OBVIOUS
<1>0. TypeOK'
  BY NextKeepsTypes DEF IInv
<1>1. ASSUME NEW c \in Calls, NEW city \in Cities, Call(c, city)
      PROVE  IInv'
  <2> DEFINE f == [ingest[c] EXCEPT !.pc = "fetching", !.city = city]
  <2>1. ingest[c] \in Frame /\ FrameSound(c) /\ ingest[c].pc = "idle"
    BY <1>1 DEF IInv, TypeOK, FramesSound, Call
  <2>2. ingest' = [ingest EXCEPT ![c] = f]
    BY <1>1 DEF Call
  <2>3. ingest'[c] = f /\ ingest'[c] \in Frame
    BY <1>0, <2>2 DEF IInv, TypeOK
  <2>4. /\ f.pc = "fetching" /\ f.batch = ingest[c].batch /\ f.city = city
        /\ f.persisted = 0 /\ f.ids = <<>> /\ ingest[c].persisted = 0
    BY <2>1 DEF Frame, FrameSound
  <2>5. f.batch = <<>>
    BY <2>1, <2>4 DEF FrameSound
  <2>6. BelongsTo(f.batch, f.city)
    BY <2>5 DEF BelongsTo
  <2> HIDE DEF f
  <2> QED
    BY <1>0, <1>1, <2>2, <2>3, <2>4, <2>5, <2>6, QuietStep DEF Call
<1>2. ASSUME NEW c \in Calls, NEW outcome \in Ended, End(c, outcome),
             UNCHANGED observation
      PROVE  IInv'
  <2> DEFINE f == [ingest[c] EXCEPT !.pc = outcome]
  <2>1. ingest[c] \in Frame /\ FrameSound(c)
    BY DEF IInv, TypeOK, FramesSound
  <2>2. ingest' = [ingest EXCEPT ![c] = f] /\ f \in Frame
    BY <1>2, <2>1, OutcomeIsFrame DEF End
  <2>3. /\ f.pc = outcome /\ f.batch = ingest[c].batch /\ f.city = ingest[c].city
        /\ f.persisted = ingest[c].persisted
    BY <2>1 DEF Frame
  <2>4. BelongsTo(f.batch, f.city)
    BY <2>1, <2>3 DEF FrameSound
  <2>5. f.pc \notin {"idle", "fetching", "writing"}
    BY <2>3 DEF Ended
  <2> HIDE DEF f
  <2> QED
    BY <1>0, <1>2, <2>2, <2>3, <2>4, <2>5, QuietStep
<1>3. ASSUME NEW c \in Calls, NEW outcome, FetchEnds(c, outcome)
      PROVE  IInv'
  BY <1>2, <1>3 DEF FetchEnds, Ended
<1>4. ASSUME NEW c \in Calls, NEW b \in Batches, FetchAnswersForeign(c, b)
      PROVE  IInv'
  BY <1>2, <1>4 DEF FetchAnswersForeign, Ended
<1>5. ASSUME NEW c \in Calls, NEW b \in Batches, FetchAnswers(c, b)
      PROVE  IInv'
  <2> DEFINE pc == IF b = <<>> THEN "done" ELSE "writing"
             f == [ingest[c] EXCEPT !.pc = pc, !.batch = b]
  <2>1. ingest[c] \in Frame /\ FrameSound(c) /\ ingest[c].pc = "fetching"
    BY <1>5 DEF IInv, TypeOK, FramesSound, FetchAnswers
  <2>2. ingest' = [ingest EXCEPT ![c] = f]
    BY <1>5 DEF FetchAnswers
  <2>3. ingest'[c] = f /\ ingest'[c] \in Frame
    BY <1>0, <2>2 DEF IInv, TypeOK
  <2>4. /\ f.pc = pc /\ f.batch = b /\ f.city = ingest[c].city
        /\ f.persisted = 0 /\ f.ids = <<>> /\ ingest[c].persisted = 0
    BY <2>1 DEF Frame, FrameSound
  <2>5. BelongsTo(f.batch, f.city)
    BY <1>5, <2>4 DEF FetchAnswers
  <2>6. f.pc \in {"done", "writing"} /\ (f.pc = "writing" => f.batch # <<>>)
    BY <2>4
  <2> HIDE DEF f
  <2> QED
    BY <1>0, <1>5, <2>2, <2>3, <2>4, <2>5, <2>6, QuietStep DEF FetchAnswers
<1>6. ASSUME NEW c \in Calls, StatementRaises(c)
      PROVE  IInv'
  BY <1>2, <1>6 DEF StatementRaises, Ended
<1>7. CASE Crash
  <2>1. \A c \in Calls :
           /\ ingest'[c].city = ingest[c].city
           /\ ingest'[c].batch = ingest[c].batch
           /\ ingest'[c].persisted = ingest[c].persisted
           /\ ingest'[c].ids = ingest[c].ids
           /\ ingest'[c].pc \notin {"fetching", "writing"}
           /\ ingest'[c].pc = "idle" => ingest[c].pc = "idle"
    <3> SUFFICES ASSUME NEW c \in Calls
                 PROVE  /\ ingest'[c].city = ingest[c].city
                        /\ ingest'[c].batch = ingest[c].batch
                        /\ ingest'[c].persisted = ingest[c].persisted
                        /\ ingest'[c].ids = ingest[c].ids
                        /\ ingest'[c].pc \notin {"fetching", "writing"}
                        /\ ingest'[c].pc = "idle" => ingest[c].pc = "idle"
      OBVIOUS
    <3>1. ingest[c] \in Frame
      BY DEF IInv, TypeOK
    <3>2. ingest'[c] = IF ingest[c].pc \in Live
                       THEN [ingest[c] EXCEPT !.pc = "lost"] ELSE ingest[c]
      BY <1>7 DEF Crash
    <3>3. CASE ingest[c].pc \in Live
      BY <3>1, <3>2, <3>3 DEF Frame
    <3>4. CASE ingest[c].pc \notin Live
      BY <3>2, <3>4 DEF Live
    <3> QED
      BY <3>3, <3>4
  <2>2. OneWriter'
    BY <2>1 DEF OneWriter, Writing
  <2>3. FramesSound'
    BY <2>1 DEF IInv, FramesSound, FrameSound, Writing
  <2>4. StoredAsPublished'
    BY <1>7, <2>1 DEF IInv, StoredAsPublished, Crash
  <2> QED
    BY <1>0, <2>2, <2>3, <2>4 DEF IInv
<1>8. CASE UNCHANGED vars
  <2>1. OneWriter' /\ StoredAsPublished'
    BY <1>8 DEF IInv, vars, OneWriter, StoredAsPublished, Writing
  <2>2. FramesSound'
    BY <1>8 DEF IInv, vars, FramesSound, FrameSound, Writing
  <2> QED
    BY <1>0, <2>1, <2>2 DEF IInv
<1> QED
  BY <1>1, <1>3, <1>4, <1>5, <1>6, <1>7, <1>8, WriteIsSound DEF Next, Answer

LEMMA AlwaysSound == Spec => []IInv
  BY InitIsSound, StepIsSound, PTL DEF Spec

-----------------------------------------------------------------------------
(* Theorems *)

\* Table and frames keep their types: every row is a valid observation stored
\* under its own id.
THEOREM TypeCorrect == Spec => []TypeOK
<1>1. IInv => TypeOK
  BY DEF IInv
<1> QED
  BY <1>1, AlwaysSound, PTL

\* Every row is one published observation, whole, of a city that was asked for.
THEOREM RowsArePublications == Spec => []StoredAsPublished
<1>1. IInv => StoredAsPublished
  BY DEF IInv
<1> QED
  BY <1>1, AlwaysSound, PTL

\* No step turns a row into an observation of a city its call did not ask for.
THEOREM OwnCityGains == Spec => OnlyOwnCityGains
<1> DEFINE Gains == \A id \in ObservationIds :
              observation'[id] # observation[id] =>
                  \E c \in Calls : /\ Writing(c)
                                   /\ observation'[id].city = ingest[c].city
<1>1. IInv /\ [Next]_vars => [Gains]_vars
  <2> SUFFICES ASSUME IInv, Next PROVE Gains
    BY DEF vars
  <2>1. ASSUME NEW c \in Calls, WriteObservation(c) PROVE Gains
    <3> DEFINE o == ingest'[c].batch[ingest'[c].persisted]
    <3>1. /\ observation' = [observation EXCEPT ![o.id] = o]
          /\ o.city = ingest[c].city
      BY <2>1, WriteGrows
    <3>2. Writing(c)
      BY <2>1 DEF WriteObservation
    <3> HIDE DEF o
    <3> QED
      BY <3>1, <3>2 DEF IInv, TypeOK
  <2>2. ASSUME UNCHANGED observation PROVE Gains
    BY <2>2
  <2> QED
    BY <2>1, <2>2 DEF Next, Answer, Call, FetchEnds, FetchAnswers,
          FetchAnswersForeign, StatementRaises, Crash
<1> QED
  BY <1>1, AlwaysSound, PTL DEF Spec, OnlyOwnCityGains

\* What a call returns describes the table at that moment and the whole batch,
\* for batches of any length with any duplicates.
THEOREM ReturnsDescribe == Spec => ReturnDescribesSeries
<1> DEFINE Describes == \A c \in Calls :
              Writing(c) /\ ingest'[c].pc = "done" =>
                  LET frame == ingest'[c]
                      n     == Len(frame.batch)
                  IN  /\ frame.persisted = n
                      /\ LastStands(observation', frame.batch, n)
                      /\ NamesInOrder(frame.ids, frame.batch, n)
<1>1. IInv /\ [Next]_vars => [Describes]_vars
  <2> SUFFICES ASSUME IInv, Next, NEW c \in Calls, Writing(c), ingest'[c].pc = "done"
               PROVE  LET frame == ingest'[c]
                          n     == Len(frame.batch)
                      IN  /\ frame.persisted = n
                          /\ LastStands(observation', frame.batch, n)
                          /\ NamesInOrder(frame.ids, frame.batch, n)
    BY DEF vars
  <2>1. ASSUME WriteObservation(c)
        PROVE  LET frame == ingest'[c]
                   n     == Len(frame.batch)
               IN  /\ frame.persisted = n
                   /\ LastStands(observation', frame.batch, n)
                   /\ NamesInOrder(frame.ids, frame.batch, n)
    <3>1. ingest'[c].persisted = Len(ingest'[c].batch)
      BY <2>1, WriteGrows
    <3> QED
      BY <2>1, <3>1, WriteGrows
  <2>2. ingest \in [Calls -> Frame]
    BY DEF IInv, TypeOK
  <2>3. ~ LoopIsFree
    BY DEF LoopIsFree
  <2>4. ASSUME NEW d \in Calls, WriteObservation(d), d # c PROVE FALSE
    BY <2>4 DEF IInv, OneWriter, WriteObservation
  <2>5. ASSUME NEW d \in Calls, StatementRaises(d) PROVE FALSE
    <3>1. d = c
      BY <2>5 DEF IInv, OneWriter, StatementRaises
    <3> QED
      BY <2>2, <2>5, <3>1 DEF StatementRaises, End, Frame
  <2>6. ~ Crash
    <3> SUFFICES ASSUME Crash PROVE FALSE
      OBVIOUS
    <3>1. ingest'[c] = [ingest[c] EXCEPT !.pc = "lost"]
      BY DEF Crash, Writing, Live
    <3> QED
      BY <2>2, <3>1 DEF Frame
  <2> QED
    BY <2>1, <2>3, <2>4, <2>5, <2>6 DEF Next, Answer, Call, FetchEnds,
          FetchAnswers, FetchAnswersForeign
<1> QED
  BY <1>1, AlwaysSound, PTL DEF Spec, ReturnDescribesSeries

\* Windows that share no day never describe one day twice.
THEOREM WindowsApart == Spec => []WindowsNeverOverlap
<1>1. TypeOK => WindowsNeverOverlap
  <2> SUFFICES ASSUME TypeOK, NEW p \in Query, NEW q \in Query,
                      p.end # Null, q.start # Null, p.end < q.start,
                      NEW o \in ListForCity(p), NEW s \in ListForCity(q)
               PROVE  o.end < s.start
    BY DEF WindowsNeverOverlap
  <2>1. o \in Observation /\ s \in Observation
    BY DEF TypeOK, ListForCity
  <2>2. o.end \in Int /\ s.start \in Int /\ p.end \in Int /\ q.start \in Int
    BY <2>1, DaysAreOrdered DEF Observation, Query
  <2>3. o.end <= p.end /\ s.start >= q.start
    BY DEF ListForCity, Within
  <2> QED
    BY <2>2, <2>3
<1> QED
  BY <1>1, TypeCorrect, PTL
=============================================================================
