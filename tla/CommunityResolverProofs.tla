----------------------- MODULE CommunityResolverProofs -----------------------
(***************************************************************************)
(* Theorems about CommunityResolver.  The two upserts leave the tables     *)
(* well typed (TypeOK is inductive); everything else is arithmetic over    *)
(* one fact about ByName: a winner among rivals has at least 0.9 and leads *)
(* every one of them by 0.15.  A confidence is at most 1, so no rival can  *)
(* lead a community of 0.9 by that much, and a community whose district or *)
(* coordinates contradict the request stops at 0.88.                       *)
(***************************************************************************)
EXTENDS CommunityResolver, WellFoundedInduction, TLAPS

USE DEF Optional

\* Every non-empty set of natural numbers has a least element.
LEMMA LeastNatural ==
    ASSUME NEW S \in SUBSET Nat, S # {}
    PROVE  \E m \in S : \A n \in S : m <= n
<1> DEFINE less == {p \in Nat \X Nat : p[1] < p[2]}
<1>1. IsWellFoundedOn(less, Nat)
  BY NatLessThanWellFounded, Zenon DEF OpToRel
<1> HIDE DEF less
<1>2. PICK m \in S : \A n \in S : ~ (<<n, m>> \in less)
  BY <1>1, WFMin, Zenon
<1>3. \A n \in S : ~ (n < m)
  BY <1>2 DEF less
<1> QED
  BY <1>3

\* Among finitely or infinitely many scored communities one comes first: the
\* scores are bounded and the ids are ordered.
LEMMA FirstComesFirst ==
    ASSUME NEW S \in SUBSET CommunityIds, S # {},
           NEW score, \A i \in S : score[i] \in 0 .. 100
    PROVE  /\ First(score, S) \in S
           /\ \A j \in S \ {First(score, S)} : score[First(score, S)] >= score[j]
<1> DEFINE shortfalls == {100 - score[i] : i \in S}
<1>1. shortfalls \in SUBSET Nat /\ shortfalls # {}
  OBVIOUS
<1>2. PICK least \in shortfalls : \A n \in shortfalls : least <= n
  BY <1>1, LeastNatural
<1> DEFINE highest == {i \in S : 100 - score[i] = least}
<1>3. highest \in SUBSET Nat /\ highest # {}
  BY <1>2, IdsAreOrdered
<1>4. PICK b \in highest : \A n \in highest : b <= n
  BY <1>3, LeastNatural
<1>5. \A j \in S \ {b} : Precedes(score, b, j)
  <2> SUFFICES ASSUME NEW j \in S \ {b} PROVE Precedes(score, b, j)
    OBVIOUS
  <2>1. least <= 100 - score[j] /\ 100 - score[b] = least
    BY <1>2, <1>4
  <2>2. score[j] \in Int /\ score[b] \in Int /\ b \in Nat /\ j \in Nat
    BY <1>4, IdsAreOrdered
  <2>3. CASE score[j] = score[b]
    BY <2>1, <2>2, <2>3, <1>4 DEF Precedes
  <2>4. CASE score[j] # score[b]
    BY <2>1, <2>2, <2>4 DEF Precedes
  <2> QED
    BY <2>3, <2>4
<1>6. First(score, S) \in S /\ \A j \in S \ {First(score, S)} : Precedes(score, First(score, S), j)
  BY <1>4, <1>5 DEF First
<1> QED
  BY <1>6 DEF Precedes

-----------------------------------------------------------------------------
(* Confidences *)

\* A confidence is between nothing and certainty.
LEMMA ConfidenceRange ==
    ASSUME NEW c, NEW r
    PROVE  Confidence(c, r) \in 0 .. 100
<1> DEFINE d == DistrictWeight(TextEvidence(r.district, c.district))
           s == SubdistrictWeight(TextEvidence(r.subdistrict, c.subdistrict))
           a == AddressWeight(TextEvidence(r.address, c.address))
           p == PlaceWeight(PlaceEvidence(r.place, c.place))
<1>1. d \in Int
  BY DEF DistrictWeight
<1>2. s \in Int
  BY DEF SubdistrictWeight
<1>3. a \in Int
  BY DEF AddressWeight
<1>4. p \in Int
  BY DEF PlaceWeight
<1> HIDE DEF d, s, a, p
<1>5. Clamped(NameWeight + d + s + a + p) \in 0 .. 100
  BY <1>1, <1>2, <1>3, <1>4 DEF Clamped, NameWeight
<1> QED
  BY <1>5 DEF Confidence, d, s, a, p

\* A community whose district or coordinates contradict the request never
\* reaches 0.9.
LEMMA ContradictedIsWeak ==
    ASSUME NEW c, NEW r,
           \/ TextEvidence(r.district, c.district) = "mismatch"
           \/ PlaceEvidence(r.place, c.place) = "mismatch"
    PROVE  Confidence(c, r) <= 88
<1> DEFINE d == DistrictWeight(TextEvidence(r.district, c.district))
           s == SubdistrictWeight(TextEvidence(r.subdistrict, c.subdistrict))
           a == AddressWeight(TextEvidence(r.address, c.address))
           p == PlaceWeight(PlaceEvidence(r.place, c.place))
<1>1. d \in {-20, 0, 20}
  BY DEF DistrictWeight
<1>2. s \in {-10, 0, 8}
  BY DEF SubdistrictWeight
<1>3. a \in {0, 15}
  BY DEF AddressWeight
<1>4. p \in {-25, 0, 15}
  BY DEF PlaceWeight
<1>5. d = -20 \/ p = -25
  BY DEF DistrictWeight, PlaceWeight
<1> HIDE DEF d, s, a, p
<1>6. Clamped(NameWeight + d + s + a + p) <= 88
  BY <1>1, <1>2, <1>3, <1>4, <1>5 DEF Clamped, NameWeight
<1> QED
  BY <1>6 DEF Confidence, d, s, a, p

\* A confirming request asks for the same name in the same city.
LEMMA ConfirmingAsks ==
    ASSUME NEW c \in Community, NEW r \in Request, NEW s \in Confirming(r, c)
    PROVE  /\ s \in Request /\ s.native = r.native
           /\ s.city = r.city /\ s.query = r.query
<1>1. CASE \E t \in {c.district} \ {Null} : s = [r EXCEPT !.district = t]
  BY <1>1 DEF Request, Community
<1>2. CASE \E t \in {c.subdistrict} \ {Null} : s = [r EXCEPT !.subdistrict = t]
  BY <1>2 DEF Request, Community
<1>3. CASE \E t \in {c.address} \ {Null} : s = [r EXCEPT !.address = t]
  BY <1>3 DEF Request, Community
<1>4. CASE \E p \in {q \in Places : <<q, c.place>> \in Near} : s = [r EXCEPT !.place = p]
  BY <1>4 DEF Request
<1> QED
  BY <1>1, <1>2, <1>3, <1>4 DEF Confirming

\* A field of the request that agrees with a community never lowers its
\* confidence.
LEMMA ConfirmingRaises ==
    ASSUME NEW c \in Community, NEW r \in Request, NEW s \in Confirming(r, c)
    PROVE  Confidence(c, s) >= Confidence(c, r)
<1> DEFINE d(q) == DistrictWeight(TextEvidence(q.district, c.district))
           b(q) == SubdistrictWeight(TextEvidence(q.subdistrict, c.subdistrict))
           a(q) == AddressWeight(TextEvidence(q.address, c.address))
           p(q) == PlaceWeight(PlaceEvidence(q.place, c.place))
           sum(q) == NameWeight + d(q) + b(q) + a(q) + p(q)
<1>1. \A q : /\ d(q) \in {-20, 0, 20}
             /\ b(q) \in {-10, 0, 8}
             /\ a(q) \in {0, 15}
             /\ p(q) \in {-25, 0, 15}
  BY DEF DistrictWeight, SubdistrictWeight, AddressWeight, PlaceWeight
<1>2. /\ d(s) = d(r) \/ d(s) = 20
      /\ b(s) = b(r) \/ b(s) = 8
      /\ a(s) = a(r) \/ a(s) = 15
      /\ p(s) = p(r) \/ p(s) = 15
  <2>1. CASE \E t \in {c.district} \ {Null} : s = [r EXCEPT !.district = t]
    <3>1. /\ s.subdistrict = r.subdistrict /\ s.address = r.address
          /\ s.place = r.place /\ s.district = c.district /\ c.district # Null
      BY <2>1 DEF Request
    <3> QED
      BY <3>1 DEF TextEvidence, DistrictWeight
  <2>2. CASE \E t \in {c.subdistrict} \ {Null} : s = [r EXCEPT !.subdistrict = t]
    <3>1. /\ s.district = r.district /\ s.address = r.address
          /\ s.place = r.place /\ s.subdistrict = c.subdistrict /\ c.subdistrict # Null
      BY <2>2 DEF Request
    <3> QED
      BY <3>1 DEF TextEvidence, SubdistrictWeight
  <2>3. CASE \E t \in {c.address} \ {Null} : s = [r EXCEPT !.address = t]
    <3>1. /\ s.district = r.district /\ s.subdistrict = r.subdistrict
          /\ s.place = r.place /\ s.address = c.address /\ c.address # Null
      BY <2>3 DEF Request
    <3> QED
      BY <3>1 DEF TextEvidence, AddressWeight
  <2>4. CASE \E q \in {q \in Places : <<q, c.place>> \in Near} : s = [r EXCEPT !.place = q]
    <3>1. /\ s.district = r.district /\ s.subdistrict = r.subdistrict
          /\ s.address = r.address /\ s.place # Null
          /\ <<s.place, c.place>> \in Near
      BY <2>4, NullIsNothing DEF Request
    <3>2. PlaceEvidence(s.place, c.place) \in {"match", "unknown"}
      BY <3>1 DEF PlaceEvidence
    <3>3. c.place = Null => p(s) = p(r)
      BY DEF PlaceEvidence
    <3>4. c.place # Null => p(s) = 15
      BY <3>1 DEF PlaceEvidence, PlaceWeight
    <3> QED
      BY <3>1, <3>3, <3>4
  <2> QED
    BY <2>1, <2>2, <2>3, <2>4 DEF Confirming
<1> HIDE DEF d, b, a, p
<1>3. sum(s) >= sum(r) /\ sum(s) \in Int /\ sum(r) \in Int
  BY <1>1, <1>2 DEF NameWeight
<1> HIDE DEF sum
<1>4. Clamped(sum(s)) >= Clamped(sum(r))
  BY <1>3 DEF Clamped
<1> QED
  BY <1>4 DEF Confidence, sum, d, b, a, p

-----------------------------------------------------------------------------
(* Answers by name *)

\* What an answer by name says of the candidates it was chosen from.
Justified(r) ==
    LET answer == ByName(r)
        S      == Candidates(r)
        Of(i)  == Confidence(community[i].of, r)
    IN  /\ S = {} => answer = NotFound
        /\ S # {} => answer.status \in {"resolved", "ambiguous"}
        /\ answer.candidates = S
        /\ answer.status = "resolved" =>
              /\ answer.community \in S
              /\ answer.confidence = Of(answer.community)
              /\ S # {answer.community} =>
                    /\ Of(answer.community) >= 90
                    /\ \A j \in S \ {answer.community} :
                          Of(answer.community) - Of(j) >= 15

LEMMA ByNameIsJustified ==
    ASSUME NEW r
    PROVE  Justified(r)
<1> DEFINE S == Candidates(r)
           Of(i) == Confidence(community[i].of, r)
           score == [i \in S |-> Of(i)]
           best == First(score, S)
           rest == S \ {best}
           second == First(score, rest)
<1>0. S \in SUBSET CommunityIds
  BY DEF Candidates
<1>1. CASE S = {}
  BY <1>1 DEF Justified, ByName, NotFound
<1>2. CASE S # {}
  <2>1. \A i \in S : score[i] = Of(i) /\ score[i] \in 0 .. 100
    BY ConfidenceRange
  <2> HIDE DEF S, score, Of
  <2>2. best \in S
    BY <1>0, <1>2, <2>1, FirstComesFirst
  <2>3. rest # {} => /\ second \in rest
                     /\ \A j \in rest \ {second} : score[second] >= score[j]
    BY <1>0, <2>1, FirstComesFirst
  <2>4. ByName(r) = IF S = {best} \/ Convincing(score[best], score[second])
                    THEN Resolved(best, score[best], S)
                    ELSE [status |-> "ambiguous", community |-> Null,
                          confidence |-> score[best], candidates |-> S]
    BY <1>2 DEF ByName, S, score, Of
  <2>5. /\ ByName(r).status \in {"resolved", "ambiguous"}
        /\ ByName(r).candidates = S
    BY <2>4 DEF Resolved
  <2>6. ASSUME ByName(r).status = "resolved"
        PROVE  /\ ByName(r).community = best
               /\ ByName(r).confidence = score[best]
               /\ S = {best} \/ Convincing(score[best], score[second])
    BY <2>4, <2>6 DEF Resolved
  <2>7. ASSUME S # {best}, Convincing(score[best], score[second])
        PROVE  score[best] >= 90 /\ \A j \in rest : score[best] - score[j] >= 15
    <3>1. rest # {}
      BY <2>2, <2>7
    <3> SUFFICES ASSUME NEW j \in rest
                 PROVE  score[best] >= 90 /\ score[best] - score[j] >= 15
      BY <3>1
    <3>2. score[best] \in Int /\ score[second] \in Int /\ score[j] \in Int
      BY <2>1, <2>2, <2>3, <3>1
    <3>3. score[second] >= score[j]
      BY <2>3, <3>1, <3>2
    <3> HIDE DEF best, second
    <3> QED
      BY <2>7, <3>2, <3>3 DEF Convincing
  <2>8. \A j \in rest : j \in S
    OBVIOUS
  <2> HIDE DEF best, second
  <2>9. Justified(r)
    BY <1>2, <2>1, <2>2, <2>5, <2>6, <2>7, <2>8 DEF Justified, S, Of
  <2> QED
    BY <2>9
<1> QED
  BY <1>1, <1>2

-----------------------------------------------------------------------------
(* Theorems *)

LEMMA NextKeepsTypes == TypeOK /\ [Next]_vars => TypeOK'
<1> SUFFICES ASSUME TypeOK, [Next]_vars PROVE TypeOK'
  OBVIOUS
<1>1. ASSUME NEW i \in CommunityIds, NEW c \in Registered, Upsert(i, c)
      PROVE  TypeOK'
  <2>1. [of |-> c, normalized |-> Normal[c.name]] \in Row
    BY RegisteredAreCommunities, NormalFolds DEF Row, Community
  <2> QED
    BY <1>1, <2>1 DEF TypeOK, Upsert
<1>2. ASSUME NEW i \in CommunityIds, NEW n \in Natives, UpsertAlias(n, i)
      PROVE  TypeOK'
  BY <1>2 DEF TypeOK, UpsertAlias
<1>3. CASE UNCHANGED vars
  BY <1>3 DEF TypeOK, vars
<1> QED
  BY <1>1, <1>2, <1>3 DEF Next

\* The tables keep their types: an alias may name a community that is not
\* there, but never anything else.
THEOREM TypeCorrect == Spec => []TypeOK
<1>1. Init => TypeOK
  BY DEF Init, TypeOK
<1> QED
  BY <1>1, NextKeepsTypes, PTL DEF Spec

\* No registration, rename, move or alias ever makes the resolver answer with a
\* community of another city.
THEOREM StaysInCity == Spec => []ResolvedWithinCity
<1>1. TypeOK => ResolvedWithinCity
  <2> SUFFICES ASSUME TypeOK, NEW r \in Requests, Resolution(r).status = "resolved"
               PROVE  community[Resolution(r).community].of.city = r.city
    BY DEF ResolvedWithinCity
  <2>1. CASE Aliased(r) = Null
    <3>1. Resolution(r) = ByName(r)
      BY <2>1 DEF Resolution
    <3>2. ByName(r).community \in Candidates(r)
      BY <3>1, ByNameIsJustified DEF Justified
    <3> QED
      BY <3>1, <3>2 DEF Candidates
  <2>2. CASE Aliased(r) # Null
    BY <2>2 DEF Resolution, Resolved, NotFound
  <2> QED
    BY <2>1, <2>2
<1> QED
  BY <1>1, TypeCorrect, PTL

\* Among rivals, no sum of agreeing fields ever outweighs a district or
\* coordinates that contradict the request.
THEOREM WinnerNotContradicted == Spec => []NoContradictedWinner
<1>1. TypeOK => NoContradictedWinner
  <2> DEFINE answer(r) == Resolution(r)
             winner(r) == community[answer(r).community].of
  <2> SUFFICES ASSUME NEW r \in Requests,
                      answer(r).status = "resolved",
                      answer(r).candidates # {answer(r).community}
               PROVE  /\ TextEvidence(r.district, winner(r).district) # "mismatch"
                      /\ PlaceEvidence(r.place, winner(r).place) # "mismatch"
    BY DEF NoContradictedWinner
  <2>1. answer(r) = ByName(r)
    BY DEF Resolution, Resolved, NotFound
  <2>2. Confidence(winner(r), r) >= 90
    BY <2>1, ByNameIsJustified DEF Justified
  <2>3. Confidence(winner(r), r) \in Int
    BY ConfidenceRange
  <2> HIDE DEF winner
  <2> QED
    BY <2>2, <2>3, ContradictedIsWeak
<1> QED
  BY <1>1, TypeCorrect, PTL

\* The stored normalized name is that of the stored name.
NamesAgree ==
    \A i \in CommunityIds : community[i] # Null =>
        community[i].normalized = Normal[community[i].of.name]

LEMMA NextKeepsNames == TypeOK /\ NamesAgree /\ [Next]_vars => NamesAgree'
<1> SUFFICES ASSUME TypeOK, NamesAgree, [Next]_vars PROVE NamesAgree'
  OBVIOUS
<1>1. ASSUME NEW i \in CommunityIds, NEW c \in Registered, Upsert(i, c) PROVE NamesAgree'
  BY <1>1 DEF TypeOK, NamesAgree, Upsert
<1>2. ASSUME NEW i \in CommunityIds, NEW n \in Natives, UpsertAlias(n, i) PROVE NamesAgree'
  BY <1>2 DEF NamesAgree, UpsertAlias
<1>3. CASE UNCHANGED vars
  BY <1>3 DEF NamesAgree, vars
<1> QED
  BY <1>1, <1>2, <1>3 DEF Next

\* Candidates of a name are exactly the communities of the city that bear it now,
\* in any spelling, after every sequence of registrations and renamings.
THEOREM PresentNamesFind == Spec => []FoundByPresentName
<1>1. Init => TypeOK /\ NamesAgree
  BY NullIsNothing DEF Init, TypeOK, NamesAgree
<1>2. NamesAgree => FoundByPresentName
  <2> SUFFICES ASSUME NamesAgree, NEW r \in Requests, r.native = Null
               PROVE  Resolution(r).candidates = {i \in CommunityIds :
                          /\ community[i] # Null
                          /\ community[i].of.city = r.city
                          /\ Normal[community[i].of.name] = Normal[r.query]}
    BY DEF FoundByPresentName
  <2>1. Resolution(r) = ByName(r)
    BY DEF Resolution, Aliased
  <2>2. ByName(r).candidates = Candidates(r)
    BY DEF ByName, NotFound, Resolved
  <2> QED
    BY <2>1, <2>2 DEF Candidates, NamesAgree
<1> QED
  BY <1>1, <1>2, NextKeepsTypes, NextKeepsNames, PTL DEF Spec

\* A community with a confidence of 0.9 for a request is its answer by name, or
\* the answer is ambiguous: no rival can lead it by 0.15.
Unbeaten ==
    \A r \in Request : \A w \in Candidates(r) :
        Confidence(community[w].of, r) >= 90 =>
            ByName(r).status = "ambiguous" \/ ByName(r).community = w

LEMMA ConfidentIsUnbeaten == Unbeaten
<1> SUFFICES ASSUME NEW r \in Request, NEW w \in Candidates(r),
                    Confidence(community[w].of, r) >= 90
             PROVE  ByName(r).status = "ambiguous" \/ ByName(r).community = w
  BY DEF Unbeaten
<1> DEFINE Of(i) == Confidence(community[i].of, r)
           answer == ByName(r)
<1>1. answer.status \in {"resolved", "ambiguous"}
  BY ByNameIsJustified DEF Justified
<1>2. ASSUME answer.status = "resolved", answer.community # w PROVE FALSE
  <2>1. Of(answer.community) - Of(w) >= 15
    BY <1>2, ByNameIsJustified DEF Justified
  <2>2. Of(answer.community) \in 0 .. 100 /\ Of(w) \in 0 .. 100 /\ Of(w) >= 90
    BY ConfidenceRange
  <2> HIDE DEF Of, answer
  <2> QED
    BY <2>1, <2>2
<1> QED
  BY <1>1, <1>2

\* A confident answer is never exchanged for another community by what happens
\* to other communities.
THEOREM ConfirmedStays == Spec => ConfirmedNeverSwitches
<1> DEFINE Stays(r) ==
        /\ r.native = Null
        /\ Resolution(r).status = "resolved" /\ Resolution(r).confidence >= 90
        /\ community'[Resolution(r).community] = community[Resolution(r).community]
        => \/ Resolution(r)'.status = "ambiguous"
           \/ Resolution(r)'.community = Resolution(r).community
<1>0. Unbeaten'
  BY ConfidentIsUnbeaten, PTL
<1>1. TypeOK /\ [Next]_vars => [\A r \in Requests : Stays(r)]_vars
  <2> SUFFICES ASSUME NEW r \in Requests,
                      r.native = Null,
                      Resolution(r).status = "resolved",
                      Resolution(r).confidence >= 90,
                      community'[Resolution(r).community] = community[Resolution(r).community]
               PROVE  \/ Resolution(r)'.status = "ambiguous"
                      \/ Resolution(r)'.community = Resolution(r).community
    OBVIOUS
  <2> DEFINE w == Resolution(r).community
  <2>1. Resolution(r) = ByName(r) /\ Resolution(r)' = ByName(r)'
    BY DEF Resolution, Aliased
  <2>2. w \in Candidates(r) /\ Confidence(community[w].of, r) >= 90
    BY <2>1, ByNameIsJustified DEF Justified
  <2>3. w \in Candidates(r)' /\ Confidence(community'[w].of, r) >= 90
    BY <2>2 DEF Candidates
  <2>4. r \in Request
    BY RequestsAreRequests
  <2> HIDE DEF w
  <2>5. ByName(r)'.status = "ambiguous" \/ ByName(r)'.community = w
    BY <1>0, <2>3, <2>4 DEF Unbeaten
  <2> QED
    BY <2>1, <2>5 DEF w
<1> QED
  BY <1>1, TypeCorrect, PTL DEF Spec, ConfirmedNeverSwitches

\* Filling in a field that agrees with a confident answer never leads to
\* another community.
THEOREM AgreementStays == Spec => []AgreementNeverSwitches
<1>1. TypeOK => AgreementNeverSwitches
  <2> SUFFICES ASSUME TypeOK, NEW r \in Requests, r.native = Null,
                      Resolution(r).status = "resolved",
                      Resolution(r).confidence >= 90,
                      NEW s \in Confirming(r, community[Resolution(r).community].of)
               PROVE  \/ Resolution(s).status = "ambiguous"
                      \/ Resolution(s).community = Resolution(r).community
    BY DEF AgreementNeverSwitches
  <2> DEFINE w == Resolution(r).community
             c == community[w].of
  <2>1. Resolution(r) = ByName(r)
    BY DEF Resolution, Aliased
  <2>2. w \in Candidates(r) /\ Confidence(c, r) >= 90
    BY <2>1, ByNameIsJustified DEF Justified
  <2>3. c \in Community
    BY <2>2 DEF Candidates, TypeOK, Row
  <2> HIDE DEF w, c
  <2>4. /\ s \in Request /\ s.native = Null
        /\ s.city = r.city /\ s.query = r.query
    BY <2>3, RequestsAreRequests, ConfirmingAsks DEF c, w
  <2>5. Resolution(s) = ByName(s)
    BY <2>4 DEF Resolution, Aliased
  <2>6. w \in Candidates(s)
    BY <2>2, <2>4 DEF Candidates
  <2>7. Confidence(c, s) >= Confidence(c, r)
    BY <2>3, RequestsAreRequests, ConfirmingRaises DEF c, w
  <2>8. Confidence(c, s) >= 90
    <3>1. Confidence(c, s) \in Int /\ Confidence(c, r) \in Int
      BY ConfidenceRange
    <3> QED
      BY <2>2, <2>7, <3>1
  <2> QED
    BY <2>4, <2>5, <2>6, <2>8, ConfidentIsUnbeaten DEF Unbeaten, c, w
<1> QED
  BY <1>1, TypeCorrect, PTL
=============================================================================
