---------------------------- MODULE MarketMetrics ----------------------------
(***************************************************************************)
(* The analytics: compute_community_listing_metrics and                    *)
(* compute_community_transaction_metrics with their shared median          *)
(* (analytics/).                                                           *)
(*                                                                         *)
(* Evidence arrives as sequences, as the iterables of the code do, so that *)
(* its order and its repetitions are there to matter.  Of the sampled      *)
(* columns one stands for those treated alike: a price for the unit price. *)
(* Values are exact fractions <<n, d>> in lowest terms, and a median is    *)
(* the pair of values whose midpoint it is.                                *)
(***************************************************************************)
EXTENDS Integers, Sequences, FiniteSets, FiniteSetsExt

CONSTANTS
    Statuses,           \* ListingStatus
    MinimumSampleCount, \* fewest values a median may summarize, at least 1
    Null                \* an absent field or value

-----------------------------------------------------------------------------
(* Medians *)

Fraction(n, d) ==
    LET g == Max({k \in 1 .. d : n % k = 0 /\ d % k = 0})
    IN  <<n \div g, d \div g>>

Less(p, q) == p[1] * q[2] < q[1] * p[2]

\* The members of S in the order of before, a strict total order on S.
Ranked(S, before) ==
    [k \in 1 .. Cardinality(S) |->
        CHOOSE x \in S : Cardinality({y \in S : <<y, x>> \in before}) = k - 1]

\* sorted keeps equal values as they came.
RanksBefore(sample) ==
    {p \in (DOMAIN sample) \X (DOMAIN sample) :
        \/ Less(sample[p[1]], sample[p[2]])
        \/ p[1] < p[2] /\ ~ Less(sample[p[2]], sample[p[1]])}

\* The positions whose values statistics.median averages.
Middle(n) == <<(n + 1) \div 2, n \div 2 + 1>>

\* median_metric of the values sample[k].
Median(sample) ==
    LET n      == Cardinality(DOMAIN sample)
        ranked == Ranked(DOMAIN sample, RanksBefore(sample))
    IN  [usable |-> n,
         value  |-> IF n < MinimumSampleCount THEN Null
                    ELSE <<sample[ranked[Middle(n)[1]]], sample[ranked[Middle(n)[2]]]>>]

-----------------------------------------------------------------------------
(* compute_community_listing_metrics *)

Identities(listings) == {listings[k].id : k \in DOMAIN listings}

SeenAt(snapshots, l) ==
    {snapshots[k].at : k \in {j \in DOMAIN snapshots : snapshots[j].listing = l}}

\* history.setdefault keeps the first snapshot supplied for an instant.
Kept(snapshots, l, i) ==
    snapshots[Min({k \in DOMAIN snapshots :
                      snapshots[k].listing = l /\ snapshots[k].at = i})]

\* The four refusals: a foreign or a repeated listing, a snapshot of an unknown
\* one, two snapshots of one instant that disagree.
ListingsRefused(listings, snapshots, c) ==
    \/ \E k \in DOMAIN listings : listings[k].community # c
    \/ \E j, k \in DOMAIN listings : j # k /\ listings[j].id = listings[k].id
    \/ \E k \in DOMAIN snapshots : snapshots[k].listing \notin Identities(listings)
    \/ \E k \in DOMAIN snapshots :
          snapshots[k] # Kept(snapshots, snapshots[k].listing, snapshots[k].at)

Earliest(snapshots, l) == Kept(snapshots, l, Min(SeenAt(snapshots, l)))

\* Slip: the last one supplied, not the last one in time.
LatestSupplied(snapshots, l) ==
    snapshots[Max({k \in DOMAIN snapshots : snapshots[k].listing = l})]

Latest(snapshots, l) == Kept(snapshots, l, Max(SeenAt(snapshots, l)))

\* _price_change_ratio
PriceChange(snapshots, l) ==
    LET first == Earliest(snapshots, l).price
        last  == Latest(snapshots, l).price
    IN  Fraction(last - first, first)

\* Slip: an unmoved price counts as a cut.
IsCutLoosely(change) == change[1] <= 0

IsCut(change)      == change[1] < 0
IsIncrease(change) == change[1] > 0

ListingMetrics(listings, snapshots, c) ==
    LET ids        == Identities(listings)
        observed   == {l \in ids : SeenAt(snapshots, l) # {}}
        latest     == [l \in observed |-> Latest(snapshots, l)]
        active     == {l \in observed : latest[l].status = "active"}
        observable == {l \in observed : Cardinality(SeenAt(snapshots, l)) > 1}
        change     == [l \in observable |-> PriceChange(snapshots, l)]
        cuts       == Cardinality({l \in observable : IsCut(change[l])})
        increases  == Cardinality({l \in observable : IsIncrease(change[l])})
        moves      == Cardinality(observable)
    IN  [community     |-> c,
         listings      |-> Cardinality(ids),
         snapshots     |-> Cardinality({<<snapshots[k].listing, snapshots[k].at>> :
                                           k \in DOMAIN snapshots}),
         observed      |-> Cardinality(observed),
         identity_only |-> Cardinality(ids) - Cardinality(observed),
         latest_at     |-> IF observed = {} THEN Null
                           ELSE Max({latest[l].at : l \in observed}),
         statuses      |-> [s \in Statuses |->
                               Cardinality({l \in observed : latest[l].status = s})],
         active        |-> Cardinality(active),
         active_price  |-> Median([l \in active |-> <<latest[l].price, 1>>]),
         observable    |-> moves,
         cuts          |-> cuts,
         increases     |-> increases,
         unchanged     |-> moves - cuts - increases,
         cut_share     |-> IF moves = 0 THEN Null ELSE Fraction(cuts, moves),
         price_change  |-> Median(change),
         ids           |-> ids]

-----------------------------------------------------------------------------
(* compute_community_transaction_metrics *)

TransactionsRefused(deals, c) == \E k \in DOMAIN deals : deals[k].community # c

\* _negotiation_discount
Discount(deal) == Fraction(deal.initial - deal.price, deal.initial)

TransactionMetrics(deals, c) ==
    LET asked == {k \in DOMAIN deals : deals[k].initial # Null}
    IN  [community   |-> c,
         deals       |-> Len(deals),
         latest_date |-> IF deals = <<>> THEN Null
                         ELSE Max({deals[k].date : k \in DOMAIN deals}),
         deal_price  |-> Median([k \in DOMAIN deals |-> <<deals[k].price, 1>>]),
         discount    |-> Median([k \in asked |-> Discount(deals[k])]),
         ids         |-> {deals[k].id : k \in DOMAIN deals}]
=============================================================================
