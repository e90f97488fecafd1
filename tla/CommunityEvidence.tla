--------------------------- MODULE CommunityEvidence ---------------------------
(***************************************************************************)
(* CommunityEvidenceService.get_market_evidence                            *)
(* (services/community_evidence.py): what the stores hold about one        *)
(* community, read through the query services and summarized by            *)
(* MarketMetrics, in every state that statements of the two ingestion      *)
(* services can leave.                                                     *)
(*                                                                         *)
(* The three reads are synchronous, so no statement falls between them: an *)
(* evidence is a function of the tables.  The order in which a read returns *)
(* rows is a constant; OrderIsIrrelevant says that none matters.           *)
(***************************************************************************)
EXTENDS ListingStore, FiniteSets, FiniteSetsExt, SequencesExt

CONSTANTS
    Observations,       \* listing observations that ingestion may store
    DealIds,            \* transaction ids
    Days,               \* deal dates
    Deals,              \* transactions that ingestion may store
    MinimumSampleCount, \* MINIMUM_SAMPLE_COUNT
    ListingOrder,       \* the order in which reads return listings,
    SnapshotOrder,      \* snapshots, named by listing and instant,
    DealOrder           \* and transactions

\* A Transaction, as far as the metrics read it.
Deal == [id : DealIds, community : Communities, date : Days,
         price : Nat \ {0}, initial : (Nat \ {0}) \union {Null}]

ASSUME ObservationsAreValid == Observations \subseteq Observation
ASSUME DealsAreValid == Deals \subseteq Deal
ASSUME IdsAreNumbered == ListingIds \subseteq Nat /\ DealIds \subseteq Nat
ASSUME DaysAreOrdered == Days \subseteq Int /\ Null \notin Int
ASSUME StatusesAreListed == IsFiniteSet(Statuses)
\* None is no snapshot.
ASSUME NullIsNoSnapshot == Null \notin [at : Instants, price : Prices, status : Statuses]
\* None is no median either, which is a pair of exact fractions.
Quotients == Int \X (Nat \ {0})

ASSUME NullIsNoMedian == Null \notin Quotients \X Quotients
\* list_price_cny is greater than zero.
ASSUME PricesArePositive == Prices \subseteq Nat \ {0}
\* validate_minimum_sample_count
ASSUME MinimumIsPositive == MinimumSampleCount \in Nat \ {0}

\* A read returns no row twice.
Orders(order, keys) ==
    /\ order \in Seq(keys)
    /\ IsInjective(order)
    /\ Range(order) = keys

ASSUME ReadsAreOrdered ==
    /\ Orders(ListingOrder, ListingIds)
    /\ Orders(SnapshotOrder, ListingIds \X Instants)
    /\ Orders(DealOrder, DealIds)

Metrics == INSTANCE MarketMetrics

VARIABLES
    listing,    \* table listing
    snapshot,   \* table listing_snapshot
    deal,       \* table property_transaction: the row of each id, or Null
    pending     \* the observation whose snapshot statement is next, or Null

vars == <<listing, snapshot, deal, pending>>

Init ==
    /\ listing = EmptyListings
    /\ snapshot = EmptySnapshots
    /\ deal = [t \in DealIds |-> Null]
    /\ pending = Null

-----------------------------------------------------------------------------
(* The statements of the ingestion services *)

\* A raise for a native identity another row holds changes nothing.
WriteIdentity(o) ==
    /\ pending = Null
    /\ ~ NativeTaken(listing, o)
    /\ listing' = UpsertListing(listing, o)
    /\ pending' = o
    /\ UNCHANGED <<snapshot, deal>>

WriteSnapshot ==
    /\ pending # Null
    /\ snapshot' = AppendSnapshot(snapshot, pending)
    /\ pending' = Null
    /\ UNCHANGED <<listing, deal>>

\* The second statement raises, or the process dies before it.
LoseSnapshot ==
    /\ pending # Null
    /\ pending' = Null
    /\ UNCHANGED <<listing, snapshot, deal>>

UpsertDeal(d) ==
    /\ pending = Null
    /\ deal' = [deal EXCEPT ![d.id] = d]
    /\ UNCHANGED <<listing, snapshot, pending>>

Next ==
    \/ \E o \in Observations : WriteIdentity(o)
    \/ WriteSnapshot
    \/ LoseSnapshot
    \/ \E d \in Deals : UpsertDeal(d)

Spec == Init /\ [][Next]_vars

-----------------------------------------------------------------------------
(* The reads *)

\* The members of S as order lists them.
Selection(order, S) ==
    LET kept[k \in 0 .. Len(order)] ==
            IF k = 0 THEN <<>>
            ELSE IF order[k] \in S THEN Append(kept[k - 1], order[k])
                 ELSE kept[k - 1]
    IN  kept[Len(order)]

\* ListingRepository.list_for_community
ListingsOf(t, c) ==
    LET held == Selection(ListingOrder, ListForCommunity(t, c))
    IN  [k \in 1 .. Len(held) |-> [id |-> held[k], community |-> t[held[k]].community]]

SnapshotsAt(h, keys) ==
    [k \in 1 .. Len(keys) |->
        LET l == keys[k][1]
            i == keys[k][2]
        IN  [listing |-> l, at |-> i, price |-> h[l][i].price,
             status |-> h[l][i].status]]

PointsOf(h, ids) == {k \in ids \X Instants : h[k[1]][k[2]] # Null}

\* Slips: without the join; through latest_snapshots_for_community.
SnapshotsOfAll(t, h, c) == SnapshotsAt(h, Selection(SnapshotOrder, PointsOf(h, ListingIds)))
SnapshotsOfLatest(t, h, c) ==
    SnapshotsAt(h, Selection(SnapshotOrder,
        {k \in PointsOf(h, ListForCommunity(t, c)) : k[2] = LatestInstant(h, k[1])}))

\* history_for_community: the history of a listing follows the listing's row.
SnapshotsOf(t, h, c) ==
    SnapshotsAt(h, Selection(SnapshotOrder, PointsOf(h, ListForCommunity(t, c))))

\* latest_snapshots_for_community: a listing without a snapshot is absent.
LatestSnapshots(t, h, c) ==
    [l \in {m \in ListForCommunity(t, c) : HistoryOf(h, m) # {}} |->
        LET i == LatestInstant(h, l)
        IN  [at |-> i, price |-> h[l][i].price, status |-> h[l][i].status]]

\* ORDER BY last_seen_at DESC, listing_id
SeenBefore(t, ids) ==
    {p \in ids \X ids : \/ t[p[1]].last > t[p[2]].last
                        \/ t[p[1]].last = t[p[2]].last /\ p[1] < p[2]}

\* get_current_listings
CurrentListings(t, h, c) ==
    LET latest == LatestSnapshots(t, h, c)
        listed == ListForCommunity(t, c)
        held   == Metrics!Ranked(listed, SeenBefore(t, listed))
    IN  [k \in 1 .. Len(held) |->
            [id |-> held[k],
             latest |-> IF held[k] \in DOMAIN latest THEN latest[held[k]] ELSE Null]]

\* TransactionQuery, validate_range.
Window ==
    {w \in [start : Days \union {Null}, end : Days \union {Null}] :
        w.start # Null /\ w.end # Null => w.start <= w.end}

Unbounded == [start |-> Null, end |-> Null]

InWindow(day, w) ==
    /\ w.start = Null \/ day >= w.start
    /\ w.end = Null \/ day <= w.end

DealsIn(d, c, w) ==
    {k \in DealIds : d[k] # Null /\ d[k].community = c /\ InWindow(d[k].date, w)}

\* TransactionRepository.list_for_community
TransactionsOf(d, c, w) ==
    LET held == Selection(DealOrder, DealsIn(d, c, w))
    IN  [k \in 1 .. Len(held) |-> d[held[k]]]

DealMetrics(d, c, w) == Metrics!TransactionMetrics(TransactionsOf(d, c, w), c)

StockMetrics(t, h, c) == Metrics!ListingMetrics(ListingsOf(t, c), SnapshotsOf(t, h, c), c)

\* get_market_evidence
Evidence(t, h, d, c) ==
    [deals |-> DealMetrics(d, c, Unbounded), stock |-> StockMetrics(t, h, c)]

\* One of the analytics raises ValueError.
Refused(t, h, d, c) ==
    \/ Metrics!TransactionsRefused(TransactionsOf(d, c, Unbounded), c)
    \/ Metrics!ListingsRefused(ListingsOf(t, c), SnapshotsOf(t, h, c), c)

-----------------------------------------------------------------------------
(* Properties *)

\* No state that ingestion can leave, half an observation or a listing that
\* moved between communities included, makes a refusal of the analytics fire:
\* evidence about any community can always be read.
EvidenceIsGiven == \A c \in Communities : ~ Refused(listing, snapshot, deal, c)

\* Every stored listing, snapshot and transaction is evidence about exactly one
\* community, whichever listings moved: no report counts what another counts,
\* and nothing stored is missing from all of them.
EvidencePartitionsTheStore ==
    /\ \A l \in ListingIds : listing[l] # Null =>
          \E c \in Communities : \A other \in Communities :
              l \in StockMetrics(listing, snapshot, other).ids <=> other = c
    /\ \A k \in PointsOf(snapshot, ListingIds) : listing[k[1]] # Null
    /\ \A t \in DealIds : deal[t] # Null =>
          \E c \in Communities : \A other \in Communities :
              t \in DealMetrics(deal, other, Unbounded).ids <=> other = c
    /\ \A c \in Communities :
          LET stock == StockMetrics(listing, snapshot, c)
              sold  == DealMetrics(deal, c, Unbounded)
          IN  /\ \A l \in stock.ids : listing[l] # Null
              /\ stock.snapshots = Cardinality(PointsOf(snapshot, stock.ids))
              /\ \A t \in sold.ids : deal[t] # Null
              /\ sold.deals = Cardinality(sold.ids)

\* The listings of c that were seen at least twice, those that are active now, and
\* the transactions of c.
SeenTwice(c) ==
    {l \in ListForCommunity(listing, c) : Cardinality(HistoryOf(snapshot, l)) > 1}

ActiveNow(c) ==
    {l \in ListForCommunity(listing, c) :
        /\ HistoryOf(snapshot, l) # {}
        /\ snapshot[l][LatestInstant(snapshot, l)].status = "active"}

SoldIn(c) == {t \in DealIds : deal[t] # Null /\ deal[t].community = c}

FirstPrice(l) == snapshot[l][Min(HistoryOf(snapshot, l))].price
LastPrice(l)  == snapshot[l][Max(HistoryOf(snapshot, l))].price

\* What part is of whole, in any terms, and nothing where there is no whole.
IsShareOf(share, part, whole) ==
    IF whole = 0 THEN share = Null
    ELSE share \in Quotients /\ share[1] * whole = part * share[2]

\* The reported counts, some of them found by subtraction, are what the tables
\* say: a listing without a snapshot has no status, one seen at a single
\* instant has no repricing, and cut, raised and unchanged are told apart
\* by the first and the last price only; and the share of cuts is that of the
\* cuts in the listings seen twice.
CountsMatchTheTables ==
    \A c \in Communities :
        LET stock == StockMetrics(listing, snapshot, c)
            held  == ListForCommunity(listing, c)
            cut   == {l \in SeenTwice(c) : LastPrice(l) < FirstPrice(l)}
        IN  /\ DealMetrics(deal, c, Unbounded).deals = Cardinality(SoldIn(c))
            /\ stock.listings = Cardinality(held)
            /\ stock.snapshots = Cardinality(PointsOf(snapshot, held))
            /\ stock.active = Cardinality(ActiveNow(c))
            /\ stock.identity_only =
                    Cardinality({l \in held : HistoryOf(snapshot, l) = {}})
            /\ stock.observed = MapThenSumSet(LAMBDA s : stock.statuses[s], Statuses)
            /\ stock.observable = Cardinality(SeenTwice(c))
            /\ stock.cuts = Cardinality(cut)
            /\ stock.unchanged =
                    Cardinality({l \in SeenTwice(c) : LastPrice(l) = FirstPrice(l)})
            /\ stock.increases + stock.cuts + stock.unchanged = Cardinality(SeenTwice(c))
            /\ IsShareOf(stock.cut_share, Cardinality(cut), Cardinality(SeenTwice(c)))

\* m is the newest of times, or Null where there are none.
IsNewestOf(m, times) ==
    IF times = {} THEN m = Null
    ELSE m \in times /\ \A i \in times : i <= m

\* How fresh the evidence is said to be: the newest snapshot of any listing that
\* is listed in c now, whatever its own status, and the newest deal.
DatesAreNewest ==
    \A c \in Communities :
        /\ IsNewestOf(StockMetrics(listing, snapshot, c).latest_at,
                      UNION {HistoryOf(snapshot, l) : l \in ListForCommunity(listing, c)})
        /\ IsNewestOf(DealMetrics(deal, c, Unbounded).latest_date,
                      {deal[t].date : t \in SoldIn(c)})

\* The metrics depend on the records supplied and on neither their order nor, for
\* snapshots, their repetition.
ListingOrderIsIrrelevant ==
    \A c \in Communities :
        LET snapshots == SnapshotsOf(listing, snapshot, c)
            listings  == ListingsOf(listing, c)
        IN  \A again \in {Reverse(snapshots), Reverse(snapshots) \o snapshots} :
                /\ ~ Metrics!ListingsRefused(Reverse(listings), again, c)
                /\ Metrics!ListingMetrics(Reverse(listings), again, c) = StockMetrics(listing, snapshot, c)

DealOrderIsIrrelevant ==
    \A c \in Communities :
        Metrics!TransactionMetrics(Reverse(TransactionsOf(deal, c, Unbounded)), c)
            = DealMetrics(deal, c, Unbounded)

OrderIsIrrelevant == ListingOrderIsIrrelevant /\ DealOrderIsIrrelevant

AtMost(p, q) == p[1] * q[2] <= q[1] * p[2]

\* m is the metric of the quotients sample[k], in any terms: withheld below the
\* minimum; otherwise at least half of them go up to its lower value, at least
\* half start from its upper one, and fewer than half lie strictly beyond either.
IsMedianOf(m, sample) ==
    LET n           == Cardinality(DOMAIN sample)
        Twice(keys) == 2 * Cardinality(keys)
    IN  /\ m.usable = n
        /\ n < MinimumSampleCount => m.value = Null
        /\ n >= MinimumSampleCount =>
              /\ m.value # Null
              /\ \E lower \in {m.value[1]}, upper \in {m.value[2]} :
                    /\ lower \in Quotients /\ upper \in Quotients
                    /\ Twice({k \in DOMAIN sample : AtMost(sample[k], lower)}) >= n
                    /\ Twice({k \in DOMAIN sample : AtMost(upper, sample[k])}) >= n
                    /\ Twice({k \in DOMAIN sample : ~ AtMost(lower, sample[k])}) < n
                    /\ Twice({k \in DOMAIN sample : ~ AtMost(sample[k], upper)}) < n

\* A reported median is the middle of what the tables hold, and is withheld from
\* thin evidence: of the prices of all deals, of what was taken off the first
\* price of the deals that state one, of the last prices of the listings that are
\* active now, and of the change from the first to the last price of the listings
\* seen twice; the sign of a discount is that of a price that fell, the sign of a
\* change that of one that rose.
MediansAreMiddle ==
    \A c \in Communities :
        LET sold  == DealMetrics(deal, c, Unbounded)
            stock == StockMetrics(listing, snapshot, c)
        IN  /\ IsMedianOf(sold.deal_price,
                          [t \in SoldIn(c) |-> <<deal[t].price, 1>>])
            /\ IsMedianOf(sold.discount,
                          [t \in {u \in SoldIn(c) : deal[u].initial # Null} |->
                              <<deal[t].initial - deal[t].price, deal[t].initial>>])
            /\ IsMedianOf(stock.active_price,
                          [l \in ActiveNow(c) |-> <<LastPrice(l), 1>>])
            /\ IsMedianOf(stock.price_change,
                          [l \in SeenTwice(c) |->
                              <<LastPrice(l) - FirstPrice(l), FirstPrice(l)>>])

\* A window cut between two days reads as its two halves together.
WindowsAddUp ==
    \A c \in Communities, w \in Window, d \in Days :
        LET before == [w EXCEPT !.end = d]
            after  == [w EXCEPT !.start = d + 1]
        IN  before \in Window /\ after \in Window =>
                Len(TransactionsOf(deal, c, w)) =
                    Len(TransactionsOf(deal, c, before)) + Len(TransactionsOf(deal, c, after))

\* The current view of a community and its report, read in different ways, agree
\* on what is listed, what was never observed and what its latest status is; and
\* the view's order by the row's seen range never puts a listing above one whose
\* latest snapshot is newer than all that the first was seen.
CurrentViewAgrees ==
    \A c \in Communities :
        LET view  == CurrentListings(listing, snapshot, c)
            stock == StockMetrics(listing, snapshot, c)
            With(status) == {k \in DOMAIN view :
                                view[k].latest # Null /\ view[k].latest.status = status}
        IN  /\ {view[k].id : k \in DOMAIN view} = stock.ids
            /\ Len(view) = stock.listings
            /\ Cardinality({k \in DOMAIN view : view[k].latest = Null}) = stock.identity_only
            /\ \A s \in Statuses : Cardinality(With(s)) = stock.statuses[s]
            /\ \A j, k \in DOMAIN view : j <= k /\ view[k].latest # Null =>
                  view[k].latest.at <= listing[view[j].id].last

\* Every modelled number of a report can be recomputed from the tables: those
\* counted, those found by subtraction, the share of cuts, the latest instant and
\* date, the four medians with the number of values each rests on and the minimum
\* that withholds it, the deals of a window with those outside it; and the current
\* view tells the same, the listings of each status included.
MetricsMatchTheTables ==
    /\ CountsMatchTheTables
    /\ DatesAreNewest
    /\ MediansAreMiddle
    /\ WindowsAddUp
    /\ CurrentViewAgrees

\* A statement changes the evidence only of a community that the row it writes
\* belongs to before or after it.
EvidenceStaysInSubject ==
    [][\A c \in Communities :
          Evidence(listing, snapshot, deal, c) # Evidence(listing', snapshot', deal', c) =>
              \/ \E l \in ListingIds :
                    /\ listing'[l] # listing[l] \/ snapshot'[l] # snapshot[l]
                    /\ l \in ListForCommunity(listing, c) \union ListForCommunity(listing', c)
              \/ \E t \in DealIds :
                    /\ deal'[t] # deal[t]
                    /\ \E row \in {deal[t], deal'[t]} \ {Null} : row.community = c]_vars
=============================================================================
