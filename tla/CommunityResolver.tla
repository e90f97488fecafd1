-------------------------- MODULE CommunityResolver --------------------------
(***************************************************************************)
(* Who a community name means: RepositoryCommunityResolver.resolve over    *)
(* the tables community and entity_alias (services/community_resolver.py,  *)
(* storage/repositories.py:33).                                            *)
(*                                                                         *)
(* resolve only reads, in synchronous statements, so its answer is a       *)
(* function of the two tables; the steps are the two upserts.  A           *)
(* confidence is counted in hundredths: the sums of the code's weights are *)
(* within 1e-15 of these, far inside its epsilon of 1e-9.                  *)
(***************************************************************************)
EXTENDS Integers

CONSTANTS
    CommunityIds,   \* community ids, in the order of their strings
    Cities,         \* city codes
    Texts,          \* names, districts, subdistricts, addresses as written
    Normal,         \* normalize_text
    Places,         \* coordinates
    Near,           \* pairs of coordinates within geo_confirmation_radius_m
    Natives,        \* (provider, provider_entity_id) pairs
    Registered,     \* the communities a caller may upsert
    Requests,       \* the requests a caller may make
    Null            \* an absent field, no row

ASSUME IdsAreOrdered == CommunityIds \subseteq Nat
ASSUME NormalFolds == Normal \in [Texts -> Texts]
ASSUME NullIsNothing ==
    /\ Null \notin CommunityIds
    /\ Null \notin Texts
    /\ Null \notin Places
    /\ Null \notin Natives

Optional(S) == S \union {Null}

\* A Community; its validator admits latitude and longitude only together.
Community == [city : Cities, name : Texts, district : Optional(Texts),
              subdistrict : Optional(Texts), address : Optional(Texts),
              place : Optional(Places)]

\* A CommunityResolutionRequest; coordinates, and a provider with its native
\* id, come only together.
Request == [city : Cities, query : Texts, district : Optional(Texts),
            subdistrict : Optional(Texts), address : Optional(Texts),
            place : Optional(Places), native : Optional(Natives)]

ASSUME RegisteredAreCommunities == Registered \subseteq Community
ASSUME RequestsAreRequests == Requests \subseteq Request
ASSUME NullIsNoCommunity == Null \notin [of : Community, normalized : Texts]

VARIABLES
    community,  \* table community: its row for each id, or Null
    alias       \* table entity_alias: the community id of each native id

vars == <<community, alias>>

Row == [of : Community, normalized : Texts]

Init ==
    /\ community = [i \in CommunityIds |-> Null]
    /\ alias = [n \in Natives |-> Null]

\* Slip of the UPDATE list: normalized_name is not among the columns.
UpsertKeepsName(i, c) ==
    /\ community' = [community EXCEPT ![i] =
                        [of |-> c,
                         normalized |-> IF @ = Null THEN Normal[c.name]
                                                    ELSE @.normalized]]
    /\ UNCHANGED alias

\* CommunityRepository.upsert: every column is replaced.
Upsert(i, c) ==
    /\ community' = [community EXCEPT ![i] =
                        [of |-> c, normalized |-> Normal[c.name]]]
    /\ UNCHANGED alias

\* CommunityRepository.upsert_alias: no foreign key, the community named may
\* not be there yet.
UpsertAlias(n, i) ==
    /\ alias' = [alias EXCEPT ![n] = i]
    /\ UNCHANGED community

Next ==
    \E i \in CommunityIds :
        \/ \E c \in Registered : Upsert(i, c)
        \/ \E n \in Natives : UpsertAlias(n, i)

Spec == Init /\ [][Next]_vars

-----------------------------------------------------------------------------
(* _score *)

\* What one field of the request says about the same field of a community.
Evidence == {"unknown", "match", "mismatch"}

\* Slip: the two branches change places.
TextEvidenceInverted(asked, known) ==
    IF asked = Null \/ known = Null THEN "unknown"
    ELSE IF Normal[asked] # Normal[known] THEN "match" ELSE "mismatch"

TextEvidence(asked, known) ==
    IF asked = Null \/ known = Null THEN "unknown"
    ELSE IF Normal[asked] = Normal[known] THEN "match" ELSE "mismatch"

PlaceEvidence(asked, known) ==
    IF asked = Null \/ known = Null THEN "unknown"
    ELSE IF <<asked, known>> \in Near THEN "match" ELSE "mismatch"

NameWeight == 70

DistrictWeight(e)    == CASE e = "match" -> 20 [] e = "mismatch" -> -20 [] OTHER -> 0
SubdistrictWeight(e) == CASE e = "match" ->  8 [] e = "mismatch" -> -10 [] OTHER -> 0
AddressWeight(e)     == CASE e = "match" -> 15 [] OTHER -> 0

\* Slip: a coordinate mismatch weighs as a match does.
PlaceWeightEven(e)   == CASE e = "match" -> 15 [] e = "mismatch" -> -15 [] OTHER -> 0

PlaceWeight(e)       == CASE e = "match" -> 15 [] e = "mismatch" -> -25 [] OTHER -> 0

Clamped(score) == IF score < 0 THEN 0 ELSE IF score > 100 THEN 100 ELSE score

Confidence(c, r) ==
    Clamped(NameWeight
            + DistrictWeight(TextEvidence(r.district, c.district))
            + SubdistrictWeight(TextEvidence(r.subdistrict, c.subdistrict))
            + AddressWeight(TextEvidence(r.address, c.address))
            + PlaceWeight(PlaceEvidence(r.place, c.place)))

-----------------------------------------------------------------------------
(* resolve *)

\* find_by_alias: the join drops an alias of a community that is not there.
Aliased(r) ==
    IF r.native = Null THEN Null
    ELSE IF alias[r.native] = Null THEN Null
    ELSE IF community[alias[r.native]] = Null THEN Null
    ELSE alias[r.native]

\* find_by_normalized_name.
Candidates(r) ==
    {i \in CommunityIds : /\ community[i] # Null
                          /\ community[i].of.city = r.city
                          /\ community[i].normalized = Normal[r.query]}

\* The sort key (-confidence, community_id) of i is below that of j.
Precedes(score, i, j) ==
    \/ score[i] > score[j]
    \/ score[i] = score[j] /\ i < j

First(score, S) == CHOOSE i \in S : \A j \in S \ {i} : Precedes(score, i, j)

\* Slip: a lead of 0.10 is enough.
ConvincingByLittle(best, second) == best >= 90 /\ best - second >= 10

Convincing(best, second) == best >= 90 /\ best - second >= 15

NotFound == [status |-> "not_found", community |-> Null, confidence |-> 0,
             candidates |-> {}]

Resolved(i, confidence, S) ==
    [status |-> "resolved", community |-> i, confidence |-> confidence,
     candidates |-> S]

ByName(r) ==
    LET S      == Candidates(r)
        score  == [i \in S |-> Confidence(community[i].of, r)]
        best   == First(score, S)
        second == First(score, S \ {best})
    IN  IF S = {} THEN NotFound
        ELSE IF S = {best} \/ Convincing(score[best], score[second])
        THEN Resolved(best, score[best], S)
        ELSE [status |-> "ambiguous", community |-> Null,
              confidence |-> score[best], candidates |-> S]

\* Slip: the alias is followed whatever city it leads to.
ResolutionAnyCity(r) ==
    IF Aliased(r) = Null THEN ByName(r) ELSE Resolved(Aliased(r), 100, {Aliased(r)})

Resolution(r) ==
    IF Aliased(r) = Null THEN ByName(r)
    ELSE IF community[Aliased(r)].of.city # r.city THEN NotFound
    ELSE Resolved(Aliased(r), 100, {Aliased(r)})

-----------------------------------------------------------------------------
(* Properties *)

\* The tables hold rows of communities and ids of communities.
TypeOK ==
    /\ community \in [CommunityIds -> Optional(Row)]
    /\ alias \in [Natives -> Optional(CommunityIds)]

\* Whatever an alias says and however often communities move, a name is never
\* resolved to a community of another city.
ResolvedWithinCity ==
    \A r \in Requests :
        LET answer == Resolution(r) IN
        answer.status = "resolved" =>
            community[answer.community].of.city = r.city

\* A community is a candidate for its present name, in whatever form it is
\* written, and for no name it no longer has.
FoundByPresentName ==
    \A r \in Requests :
        r.native = Null =>
            Resolution(r).candidates = {i \in CommunityIds :
                /\ community[i] # Null
                /\ community[i].of.city = r.city
                /\ Normal[community[i].of.name] = Normal[r.query]}

\* Among rivals of one name the resolver never picks one whose district or
\* whose coordinates contradict the request, however much else agrees: no sum
\* of the other weights makes up for either.
NoContradictedWinner ==
    \A r \in Requests :
        LET answer == Resolution(r)
            winner == community[answer.community].of
        IN  answer.status = "resolved" /\ answer.candidates # {answer.community} =>
                /\ TextEvidence(r.district, winner.district) # "mismatch"
                /\ PlaceEvidence(r.place, winner.place) # "mismatch"

\* A community found by name with a confidence of 0.9 stays the answer, or the
\* answer becomes ambiguous, when other communities are registered, renamed or
\* moved: it is never silently exchanged for another one.
ConfirmedNeverSwitches ==
    [][\A r \in Requests :
          LET answer == Resolution(r)
              after  == Resolution(r)'
          IN  /\ r.native = Null
              /\ answer.status = "resolved" /\ answer.confidence >= 90
              /\ community'[answer.community] = community[answer.community]
              => \/ after.status = "ambiguous"
                 \/ after.community = answer.community]_vars

\* The request with one more field filled in with what is known of community c.
Confirming(r, c) ==
    {[r EXCEPT !.district = t] : t \in {c.district} \ {Null}}
    \union {[r EXCEPT !.subdistrict = t] : t \in {c.subdistrict} \ {Null}}
    \union {[r EXCEPT !.address = t] : t \in {c.address} \ {Null}}
    \union {[r EXCEPT !.place = p] : p \in {q \in Places : <<q, c.place>> \in Near}}

\* Confirming a confident answer with a field that agrees with it never leads to
\* another community, though it may make the answer ambiguous: a confidence
\* stops at 1, so agreement on what rivals share lets them catch up.
AgreementNeverSwitches ==
    \A r \in Requests :
        LET answer == Resolution(r) IN
        r.native = Null /\ answer.status = "resolved" /\ answer.confidence >= 90 =>
            \A s \in Confirming(r, community[answer.community].of) :
                LET again == Resolution(s) IN
                    again.status = "ambiguous" \/ again.community = answer.community
=============================================================================
