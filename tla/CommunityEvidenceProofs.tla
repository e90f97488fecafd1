------------------------ MODULE CommunityEvidenceProofs ------------------------
(***************************************************************************)
(* Evidence for every set of observations and transactions and every order *)
(* of the rows a read returns.                                             *)
(***************************************************************************)
EXTENDS CommunityEvidence, TLAPS, FiniteSetTheorems, WellFoundedInduction

-----------------------------------------------------------------------------
(* What a read returns *)

\* A set of naturals with a member has a least one.
LEMMA LeastNatural ==
    ASSUME NEW S \in SUBSET Nat, S # {}
    PROVE  \E m \in S : \A n \in S : m <= n
  <1> DEFINE less == {p \in Nat \X Nat : p[1] < p[2]}
  <1>1. IsWellFoundedOn(less, Nat)
    BY NatLessThanWellFounded, Zenon DEF OpToRel
  <1> HIDE DEF less
  <1>2. PICK m \in S : \A n \in S : ~ (<<n, m>> \in less)
    BY <1>1, WFMin, Zenon
  <1>3. \A n \in S : ~ (n < m)
    BY <1>2 DEF less
  <1> QED
    BY <1>3

\* One step of Selection: from the members kept of the first k - 1 rows to those
\* kept of the first k.
Keep(kept, order, S, k) ==
    IF order[k] \in S THEN Append(kept, order[k]) ELSE kept

\* The recursion of Selection has a solution.
LEMMA SelectionSteps ==
    ASSUME NEW order, NEW S, Len(order) \in Nat
    PROVE  \E f : /\ Selection(order, S) = f[Len(order)]
                  /\ f[0] = <<>>
                  /\ \A k \in 1 .. Len(order) : f[k] = Keep(f[k - 1], order, S, k)
  <1> DEFINE n == Len(order)
             Following(g, k) == IF k = 0 THEN <<>>
                            ELSE IF order[k] \in S THEN Append(g[k - 1], order[k])
                            ELSE g[k - 1]
             Runs(g, m) == g = [k \in 0 .. m |-> Following(g, k)]
             stuck == {m \in 0 .. n : ~ \E g : Runs(g, m)}
  <1> HIDE DEF n
  <1>1. n \in Nat
    BY DEF n
  <1>2. stuck = {}
    <2> SUFFICES ASSUME stuck # {}
                 PROVE  FALSE
      OBVIOUS
    <2>1. stuck \in SUBSET Nat
      BY <1>1
    <2>2. PICK m \in stuck : \A j \in stuck : m <= j
      <3> HIDE DEF stuck
      <3> QED
        BY <2>1, LeastNatural
    <2>3. m \in 0 .. n /\ ~ \E g : Runs(g, m)
      OBVIOUS
    <2>4. CASE m = 0
      <3>1. Runs([k \in 0 .. 0 |-> <<>>], 0)
        BY SMT
      <3> QED
        BY <2>3, <2>4, <3>1
    <2>5. CASE m # 0
      <3>1. m - 1 \in 0 .. n /\ m - 1 \notin stuck
        <4>1. m - 1 \in 0 .. n /\ ~ (m <= m - 1)
          BY <1>1, <2>3, <2>5
        <4> HIDE DEF stuck
        <4> QED
          BY <2>2, <4>1
      <3>2. PICK g : Runs(g, m - 1)
        BY <3>1
      <3> DEFINE f == [k \in 0 .. m |-> IF k = m THEN Keep(g[m - 1], order, S, m) ELSE g[k]]
      <3>3. \A k \in 0 .. m - 1 : f[k] = g[k]
        BY <2>3, <2>5, <1>1
      <3>4. \A k \in 0 .. m - 1 : g[k] = Following(g, k)
        BY <3>2, Zenon
      <3>5. ASSUME NEW k \in 0 .. m
            PROVE  f[k] = Following(f, k)
        <4>1. CASE k = m
          <5>1. f[m] = Keep(g[m - 1], order, S, m) /\ f[m - 1] = g[m - 1]
            BY <2>3, <2>5, <3>3, <1>1
          <5> QED
            BY <2>5, <4>1, <5>1 DEF Keep
        <4>2. CASE k # m
          <5>1. k \in 0 .. m - 1
            BY <1>1, <2>3, <4>2
          <5>2. k # 0 => f[k - 1] = g[k - 1]
            BY <1>1, <2>3, <5>1, <3>3
          <5>3. f[k] = Following(g, k)
            BY <3>3, <3>4, <5>1
          <5> HIDE DEF f
          <5> QED
            BY <5>2, <5>3
        <4> QED
          BY <4>1, <4>2
      <3>6. f = [k \in 0 .. m |-> f[k]]
        OBVIOUS
      <3>7. Runs(f, m)
        <4> HIDE DEF f
        <4> QED
          BY <3>5, <3>6, Zenon
      <3> QED
        BY <2>3, <3>7, Zenon
    <2> QED
      BY <2>4, <2>5
  <1>3. \E g : Runs(g, n)
    <2>1. n \in 0 .. n
      BY <1>1
    <2> QED
      BY <1>2, <2>1, Zenon
  <1> DEFINE f == CHOOSE g : Runs(g, n)
  <1>4. f = [k \in 0 .. n |-> Following(f, k)]
    BY <1>3, Zenon
  <1>5. Selection(order, S) = f[n]
    BY Zenon DEF Selection, n
  <1> HIDE DEF f
  <1>6. \A k \in 0 .. n : f[k] = Following(f, k)
    BY <1>4, Zenon
  <1>7. f[0] = <<>>
    BY <1>1, <1>6
  <1>8. \A k \in 1 .. n : f[k] = Keep(f[k - 1], order, S, k)
    <2> TAKE k \in 1 .. n
    <2>1. k \in 0 .. n /\ k # 0
      BY <1>1
    <2> QED
      BY <1>6, <2>1, Zenon DEF Keep
  <1> QED
    BY <1>5, <1>7, <1>8 DEF n

\* A read returns the members of S, each once.
LEMMA SelectionIs ==
    ASSUME NEW order, NEW keys, Orders(order, keys), NEW S, S \subseteq keys
    PROVE  Orders(Selection(order, S), S)
  <1> DEFINE n == Len(order)
  <1>1. /\ n \in Nat /\ DOMAIN order = 1 .. n
        /\ \A k \in 1 .. n : order[k] \in keys
        /\ \A j, k \in 1 .. n : order[j] = order[k] => j = k
        /\ \A x \in keys : \E k \in 1 .. n : order[k] = x
    BY DEF Orders, IsInjective, Range
  <1>2. PICK f : /\ Selection(order, S) = f[n]
                 /\ f[0] = <<>>
                 /\ \A k \in 1 .. n : f[k] = Keep(f[k - 1], order, S, k)
    BY <1>1, SelectionSteps
  <1> DEFINE Good(k) ==
                /\ f[k] \in Seq(S)
                /\ \A i, j \in 1 .. Len(f[k]) : f[k][i] = f[k][j] => i = j
                /\ \A i \in 1 .. Len(f[k]) : \E j \in 1 .. k : order[j] = f[k][i]
                /\ \A j \in 1 .. k : order[j] \in S => \E i \in 1 .. Len(f[k]) : f[k][i] = order[j]
             bad == {k \in 0 .. n : ~ Good(k)}
  <1> HIDE DEF n
  <1>3. Good(0)
    BY <1>2
  <1>4. ASSUME NEW k \in 1 .. n, Good(k - 1)
        PROVE  Good(k)
    <2>1. f[k] = Keep(f[k - 1], order, S, k)
      BY <1>2
    <2>2. PICK s : s = f[k - 1]
      OBVIOUS
    <2>3. /\ s \in Seq(S)
          /\ \A i, j \in 1 .. Len(s) : s[i] = s[j] => i = j
          /\ \A i \in 1 .. Len(s) : \E j \in 1 .. k - 1 : order[j] = s[i]
          /\ \A j \in 1 .. k - 1 : order[j] \in S => \E i \in 1 .. Len(s) : s[i] = order[j]
      BY <1>4, <2>2, Zenon
    <2>4. k \in Nat /\ k >= 1 /\ k <= n
      BY <1>1
    <2>5. CASE order[k] \notin S
      <3>1. f[k] = s
        BY <2>1, <2>2, <2>5 DEF Keep
      <3>2. \A j \in 1 .. k : j = k \/ j \in 1 .. k - 1
        BY <2>4
      <3>3. 1 .. k - 1 \subseteq 1 .. k
        BY <2>4
      <3> QED
        BY <2>3, <2>5, <3>1, <3>2, <3>3, Zenon
    <2>6. CASE order[k] \in S
      <3>1. PICK x : x = order[k]
        OBVIOUS
      <3>2. PICK r : r = Append(s, x)
        OBVIOUS
      <3>3. f[k] = r
        BY <2>1, <2>2, <2>6, <3>1, <3>2 DEF Keep
      <3>4. /\ r \in Seq(S) /\ Len(s) \in Nat /\ Len(r) = Len(s) + 1
            /\ r[Len(s) + 1] = x
            /\ \A i \in 1 .. Len(s) : r[i] = s[i]
        BY <2>3, <2>6, <3>1, <3>2
      <3>5. \A i \in 1 .. Len(r) : i = Len(s) + 1 \/ i \in 1 .. Len(s)
        BY <3>4
      <3>6. \A i \in 1 .. Len(s) : r[i] # x
        <4> TAKE i \in 1 .. Len(s)
        <4>1. PICK j \in 1 .. k - 1 : order[j] = s[i]
          BY <2>3
        <4>2. j \in 1 .. n /\ j # k
          BY <2>4, <1>1
        <4>3. order[j] # order[k]
          BY <1>1, <4>2
        <4> QED
          BY <3>1, <3>4, <4>1, <4>3
      <3>7. \A i, j \in 1 .. Len(r) : r[i] = r[j] => i = j
        BY <2>3, <3>4, <3>5, <3>6, Zenon
      <3>8. k \in 1 .. k /\ 1 .. k - 1 \subseteq 1 .. k
        BY <2>4
      <3>9. \A i \in 1 .. Len(r) : \E j \in 1 .. k : order[j] = r[i]
        BY <2>3, <3>1, <3>4, <3>5, <3>8, Zenon
      <3>10. 1 .. Len(s) \subseteq 1 .. Len(r) /\ Len(s) + 1 \in 1 .. Len(r)
        BY <3>4
      <3>11. \A j \in 1 .. k : j = k \/ j \in 1 .. k - 1
        BY <2>4
      <3>12. \A j \in 1 .. k : order[j] \in S => \E i \in 1 .. Len(r) : r[i] = order[j]
        BY <2>3, <3>1, <3>4, <3>10, <3>11, Zenon
      <3> QED
        BY <3>3, <3>4, <3>7, <3>9, <3>12, Zenon
    <2> QED
      BY <2>5, <2>6
  <1>5. bad = {}
    <2> SUFFICES ASSUME bad # {}
                 PROVE  FALSE
      OBVIOUS
    <2>1. bad \in SUBSET Nat
      BY <1>1
    <2>2. PICK m \in bad : \A j \in bad : m <= j
      <3> HIDE DEF bad
      <3> QED
        BY <2>1, LeastNatural
    <2>3. m \in 0 .. n /\ ~ Good(m)
      BY <2>2, Zenon
    <2> HIDE DEF Good
    <2>4. m # 0
      BY <1>3, <2>3
    <2>5. m \in 1 .. n /\ m - 1 \in 0 .. n /\ ~ (m <= m - 1)
      BY <1>1, <2>3, <2>4
    <2>6. m - 1 \notin bad
      <3> HIDE DEF bad
      <3> QED
        BY <2>2, <2>5
    <2>7. Good(m - 1)
      BY <2>5, <2>6, Zenon
    <2> QED
      BY <1>4, <2>3, <2>5, <2>7, Zenon
  <1>6. Good(n)
    <2>1. n \in 0 .. n
      BY <1>1
    <2> HIDE DEF Good
    <2> QED
      BY <1>5, <2>1, Zenon
  <1>7. PICK s : s = Selection(order, S)
    OBVIOUS
  <1>8. /\ s \in Seq(S)
        /\ \A i, j \in 1 .. Len(s) : s[i] = s[j] => i = j
        /\ \A j \in 1 .. n : order[j] \in S => \E i \in 1 .. Len(s) : s[i] = order[j]
    BY <1>2, <1>6, <1>7, Zenon
  <1>9. DOMAIN s = 1 .. Len(s) /\ \A i \in 1 .. Len(s) : s[i] \in S
    BY <1>8
  <1>10. IsInjective(s)
    BY <1>8, <1>9, Zenon DEF IsInjective
  <1>11. ASSUME NEW x \in S
         PROVE  x \in Range(s)
    <2>1. PICK j \in 1 .. n : order[j] = x
      BY <1>1, <1>11
    <2>2. PICK i \in 1 .. Len(s) : s[i] = order[j]
      BY <1>8, <1>11, <2>1, Zenon
    <2> QED
      BY <1>9, <2>1, <2>2, Zenon DEF Range
  <1>12. Range(s) = S
    BY <1>9, <1>11 DEF Range
  <1> QED
    BY <1>7, <1>8, <1>10, <1>12, Zenon DEF Orders

\* The listings read are those of the community, each once.
LEMMA ReadListings ==
    ASSUME NEW t, NEW c
    PROVE  LET read == ListingsOf(t, c)
           IN  /\ DOMAIN read \subseteq Nat
               /\ \A k \in DOMAIN read : read[k].community = c
               /\ \A j, k \in DOMAIN read : read[j].id = read[k].id => j = k
               /\ Metrics!Identities(read) = ListForCommunity(t, c)
  <1> DEFINE S == ListForCommunity(t, c)
             held == Selection(ListingOrder, S)
             read == ListingsOf(t, c)
  <1>1. S \subseteq ListingIds /\ \A l \in S : t[l].community = c
    BY DEF ListForCommunity
  <1> HIDE DEF S
  <1>2. Orders(held, S)
    BY <1>1, ReadsAreOrdered, SelectionIs
  <1>3. read = [k \in 1 .. Len(held) |-> [id |-> held[k], community |-> t[held[k]].community]]
    BY DEF ListingsOf, S
  <1> HIDE DEF held, read
  <1>4. /\ DOMAIN held = 1 .. Len(held) /\ Len(held) \in Nat
        /\ \A k \in 1 .. Len(held) : held[k] \in S
        /\ \A j, k \in 1 .. Len(held) : held[j] = held[k] => j = k
        /\ \A l \in S : \E k \in 1 .. Len(held) : held[k] = l
    BY <1>2 DEF Orders, IsInjective, Range
  <1>5. /\ DOMAIN read = 1 .. Len(held)
        /\ \A k \in 1 .. Len(held) : read[k].id = held[k] /\ read[k].community = c
    BY <1>1, <1>3, <1>4
  <1>6. Metrics!Identities(read) = S
    <2>1. Metrics!Identities(read) = {held[k] : k \in 1 .. Len(held)}
      BY <1>5 DEF Metrics!Identities
    <2> QED
      BY <1>4, <2>1
  <1>7. /\ DOMAIN read \subseteq Nat
        /\ \A k \in DOMAIN read : read[k].community = c
        /\ \A j, k \in DOMAIN read : read[j].id = read[k].id => j = k
    BY <1>4, <1>5
  <1> QED
    BY <1>6, <1>7 DEF S, read

\* A snapshot as a read returns it.
SnapshotAt(h, p) ==
    [listing |-> p[1], at |-> p[2], price |-> h[p[1]][p[2]].price,
     status |-> h[p[1]][p[2]].status]

\* The snapshots read are the points of the community's listings, each once.
LEMMA ReadSnapshots ==
    ASSUME NEW t, NEW h, NEW c
    PROVE  LET read   == SnapshotsOf(t, h, c)
               points == PointsOf(h, ListForCommunity(t, c))
           IN  /\ \E n \in Nat : DOMAIN read = 1 .. n
               /\ \A k \in DOMAIN read : \E p \in points : read[k] = SnapshotAt(h, p)
               /\ \A p \in points : \E k \in DOMAIN read : read[k] = SnapshotAt(h, p)
  <1> DEFINE points == PointsOf(h, ListForCommunity(t, c))
             keys == Selection(SnapshotOrder, points)
             read == SnapshotsOf(t, h, c)
  <1>1. points \subseteq ListingIds \X Instants
    BY DEF PointsOf, ListForCommunity
  <1> HIDE DEF points
  <1>2. Orders(keys, points)
    BY <1>1, ReadsAreOrdered, SelectionIs
  <1>3. read = SnapshotsAt(h, keys)
    BY DEF SnapshotsOf, points
  <1> HIDE DEF keys, read
  <1>4. /\ DOMAIN keys = 1 .. Len(keys) /\ Len(keys) \in Nat
        /\ \A k \in 1 .. Len(keys) : keys[k] \in points
        /\ \A p \in points : \E k \in 1 .. Len(keys) : keys[k] = p
    BY <1>2 DEF Orders, Range
  <1>5. /\ DOMAIN read = 1 .. Len(keys)
        /\ \A k \in 1 .. Len(keys) : read[k] = SnapshotAt(h, keys[k])
    BY <1>3 DEF SnapshotsAt, SnapshotAt
  <1> QED
    BY <1>4, <1>5 DEF points, read

\* The transactions read are those of the community in the window, each once.
LEMMA ReadDeals ==
    ASSUME NEW d, NEW c, NEW w
    PROVE  \E held : /\ Orders(held, DealsIn(d, c, w))
                     /\ DOMAIN TransactionsOf(d, c, w) = 1 .. Len(held)
                     /\ Len(TransactionsOf(d, c, w)) = Len(held)
                     /\ \A k \in 1 .. Len(held) : TransactionsOf(d, c, w)[k] = d[held[k]]
  <1> DEFINE S == DealsIn(d, c, w)
             held == Selection(DealOrder, S)
  <1>1. S \subseteq DealIds
    BY DEF DealsIn
  <1> HIDE DEF S
  <1>2. Orders(held, S)
    BY <1>1, ReadsAreOrdered, SelectionIs
  <1>3. TransactionsOf(d, c, w) = [k \in 1 .. Len(held) |-> d[held[k]]]
    BY DEF TransactionsOf, S
  <1> HIDE DEF held
  <1>4. Len(held) \in Nat
    BY <1>2 DEF Orders
  <1> QED
    BY <1>2, <1>3, <1>4 DEF S

-----------------------------------------------------------------------------
(* Snapshots that do not contradict each other *)

\* No two snapshots of one listing and instant differ.
Unambiguous(s) ==
    /\ \E n \in Nat : DOMAIN s = 1 .. n
    /\ \A j, k \in DOMAIN s :
          s[j].listing = s[k].listing /\ s[j].at = s[k].at => s[j] = s[k]

\* setdefault then keeps what any of them says.
LEMMA KeptIsSupplied ==
    ASSUME NEW s, Unambiguous(s), NEW k \in DOMAIN s
    PROVE  Metrics!Kept(s, s[k].listing, s[k].at) = s[k]
  <1> DEFINE S == {j \in DOMAIN s : s[j].listing = s[k].listing /\ s[j].at = s[k].at}
  <1>1. S \in SUBSET Nat /\ k \in S
    BY DEF Unambiguous
  <1>2. \E m \in S : \A n \in S : m <= n
    <2> HIDE DEF S
    <2> QED
      BY <1>1, LeastNatural
  <1>3. Metrics!Min(S) \in S
    <2> HIDE DEF S
    <2> QED
      BY <1>2, Zenon DEF Metrics!Min
  <1>4. Metrics!Kept(s, s[k].listing, s[k].at) = s[Metrics!Min(S)]
    BY DEF Metrics!Kept
  <1>5. PICK m \in S : m = Metrics!Min(S)
    BY <1>3
  <1> QED
    BY <1>4, <1>5 DEF Unambiguous

\* Two keys of what a read returns are two points.
LEMMA ReadsAreUnambiguous ==
    ASSUME NEW t, NEW h, NEW c
    PROVE  Unambiguous(SnapshotsOf(t, h, c))
  <1>1. PICK read : read = SnapshotsOf(t, h, c)
    OBVIOUS
  <1>2. PICK points : points = PointsOf(h, ListForCommunity(t, c))
    OBVIOUS
  <1>3. /\ \E n \in Nat : DOMAIN read = 1 .. n
        /\ \A k \in DOMAIN read : \E p \in points : read[k] = SnapshotAt(h, p)
    BY <1>1, <1>2, ReadSnapshots
  <1>4. points \subseteq ListingIds \X Instants
    BY <1>2 DEF PointsOf, ListForCommunity
  <1>5. \A p, q \in points :
            SnapshotAt(h, p).listing = SnapshotAt(h, q).listing
            /\ SnapshotAt(h, p).at = SnapshotAt(h, q).at => p = q
    BY <1>4 DEF SnapshotAt
  <1> QED
    BY <1>1, <1>3, <1>5 DEF Unambiguous

-----------------------------------------------------------------------------
(* The properties *)

\* The joins of the reads hand the analytics nothing that they refuse.
LEMMA NeverRefused ==
    ASSUME NEW t, NEW h, NEW d, NEW c
    PROVE  ~ Refused(t, h, d, c)
  <1>1. PICK listings : listings = ListingsOf(t, c)
    OBVIOUS
  <1>2. PICK snapshots : snapshots = SnapshotsOf(t, h, c)
    OBVIOUS
  <1>3. /\ \A k \in DOMAIN listings : listings[k].community = c
        /\ \A j, k \in DOMAIN listings : listings[j].id = listings[k].id => j = k
        /\ Metrics!Identities(listings) = ListForCommunity(t, c)
    BY <1>1, ReadListings
  <1>4. \A k \in DOMAIN snapshots :
            \E p \in PointsOf(h, ListForCommunity(t, c)) : snapshots[k] = SnapshotAt(h, p)
    BY <1>2, ReadSnapshots
  <1>5. \A k \in DOMAIN snapshots : snapshots[k].listing \in Metrics!Identities(listings)
    BY <1>3, <1>4 DEF PointsOf, SnapshotAt
  <1>6. \A k \in DOMAIN snapshots :
            snapshots[k] = Metrics!Kept(snapshots, snapshots[k].listing, snapshots[k].at)
    BY <1>2, KeptIsSupplied, ReadsAreUnambiguous
  <1>7. ~ Metrics!ListingsRefused(listings, snapshots, c)
    BY <1>3, <1>5, <1>6, Zenon DEF Metrics!ListingsRefused
  <1>8. ~ Metrics!TransactionsRefused(TransactionsOf(d, c, Unbounded), c)
    <2>1. PICK deals : deals = TransactionsOf(d, c, Unbounded)
      OBVIOUS
    <2>2. PICK held : /\ Orders(held, DealsIn(d, c, Unbounded))
                      /\ DOMAIN deals = 1 .. Len(held)
                      /\ \A k \in 1 .. Len(held) : deals[k] = d[held[k]]
      BY <2>1, ReadDeals
    <2>3. \A k \in 1 .. Len(held) : held[k] \in DealsIn(d, c, Unbounded)
      BY <2>2 DEF Orders
    <2>4. \A k \in DOMAIN deals : deals[k].community = c
      BY <2>2, <2>3 DEF DealsIn
    <2> QED
      BY <2>1, <2>4, Zenon DEF Metrics!TransactionsRefused
  <1> QED
    BY <1>1, <1>2, <1>7, <1>8 DEF Refused

\* No state that ingestion can leave makes the analytics refuse a community.
THEOREM EvidenceGiven == Spec => []EvidenceIsGiven
  <1>1. EvidenceIsGiven
    BY NeverRefused DEF EvidenceIsGiven
  <1> QED
    BY <1>1, PTL

\* Reads of the same rows give the same evidence.
LEMMA SameRowsSameEvidence ==
    ASSUME NEW t, NEW h, NEW d, NEW t2, NEW h2, NEW d2, NEW c,
           ListForCommunity(t, c) = ListForCommunity(t2, c),
           \A l \in ListForCommunity(t, c) : t2[l] = t[l] /\ h2[l] = h[l],
           DealsIn(d, c, Unbounded) = DealsIn(d2, c, Unbounded),
           \A k \in DealsIn(d, c, Unbounded) : d2[k] = d[k]
    PROVE  Evidence(t, h, d, c) = Evidence(t2, h2, d2, c)
  <1> DEFINE S == ListForCommunity(t, c)
             P == PointsOf(h, S)
             D == DealsIn(d, c, Unbounded)
  <1>1. ListingsOf(t, c) = ListingsOf(t2, c)
    <2>1. PICK held : held = Selection(ListingOrder, S)
      OBVIOUS
    <2>2. S \subseteq ListingIds
      BY DEF ListForCommunity
    <2>3. Orders(held, S)
      BY <2>1, <2>2, ReadsAreOrdered, SelectionIs
    <2>4. \A k \in 1 .. Len(held) : held[k] \in S
      BY <2>3 DEF Orders
    <2>5. \A k \in 1 .. Len(held) : t[held[k]] = t2[held[k]]
      BY <2>4
    <2>6. /\ ListingsOf(t, c) = [k \in 1 .. Len(held) |->
                                   [id |-> held[k], community |-> t[held[k]].community]]
          /\ ListingsOf(t2, c) = [k \in 1 .. Len(held) |->
                                    [id |-> held[k], community |-> t2[held[k]].community]]
      BY <2>1 DEF ListingsOf
    <2> HIDE DEF S
    <2> QED
      BY <2>5, <2>6
  <1>2. P = PointsOf(h2, S)
    BY DEF PointsOf
  <1>3. SnapshotsOf(t, h, c) = SnapshotsOf(t2, h2, c)
    <2>1. PICK keys : keys = Selection(SnapshotOrder, P)
      OBVIOUS
    <2>2. P \subseteq ListingIds \X Instants
      BY DEF PointsOf, ListForCommunity
    <2>3. Orders(keys, P)
      <3> HIDE DEF P
      <3> QED
        BY <2>1, <2>2, ReadsAreOrdered, SelectionIs
    <2>4. \A k \in 1 .. Len(keys) : keys[k] \in P
      BY <2>3 DEF Orders
    <2>5. \A k \in 1 .. Len(keys) : h[keys[k][1]] = h2[keys[k][1]]
      BY <2>4 DEF PointsOf
    <2>6. SnapshotsOf(t, h, c) = SnapshotsAt(h, keys)
      BY <2>1 DEF SnapshotsOf
    <2>7. SnapshotsOf(t2, h2, c) = SnapshotsAt(h2, keys)
      BY <2>1, <1>2 DEF SnapshotsOf
    <2> HIDE DEF S, P
    <2>8. SnapshotsAt(h, keys) = SnapshotsAt(h2, keys)
      BY <2>5 DEF SnapshotsAt
    <2> QED
      BY <2>6, <2>7, <2>8
  <1>4. TransactionsOf(d, c, Unbounded) = TransactionsOf(d2, c, Unbounded)
    <2>1. PICK held : held = Selection(DealOrder, D)
      OBVIOUS
    <2>2. D \subseteq DealIds
      BY DEF DealsIn
    <2> HIDE DEF D
    <2>3. Orders(held, D)
      BY <2>1, <2>2, ReadsAreOrdered, SelectionIs
    <2>4. \A k \in 1 .. Len(held) : held[k] \in D
      BY <2>3 DEF Orders
    <2>5. \A k \in 1 .. Len(held) : d[held[k]] = d2[held[k]]
      BY <2>4 DEF D
    <2>6. /\ TransactionsOf(d, c, Unbounded) = [k \in 1 .. Len(held) |-> d[held[k]]]
          /\ TransactionsOf(d2, c, Unbounded) = [k \in 1 .. Len(held) |-> d2[held[k]]]
      BY <2>1 DEF TransactionsOf, D
    <2> QED
      BY <2>5, <2>6
  <1> QED
    BY <1>1, <1>3, <1>4, Zenon DEF Evidence, DealMetrics, StockMetrics

\* A statement changes the evidence only of a community its row belongs to
\* before or after.
THEOREM StaysInSubject == Spec => EvidenceStaysInSubject
  <1> DEFINE Touched(c) ==
                \/ \E l \in ListingIds :
                      /\ listing'[l] # listing[l] \/ snapshot'[l] # snapshot[l]
                      /\ l \in ListForCommunity(listing, c) \union ListForCommunity(listing', c)
                \/ \E t \in DealIds :
                      /\ deal'[t] # deal[t]
                      /\ \E row \in {deal[t], deal'[t]} \ {Null} : row.community = c
             Step == \A c \in Communities :
                Evidence(listing, snapshot, deal, c) # Evidence(listing', snapshot', deal', c)
                    => Touched(c)
  <1>1. ASSUME NEW c \in Communities, ~ Touched(c)
        PROVE  Evidence(listing, snapshot, deal, c) = Evidence(listing', snapshot', deal', c)
    <2>1. PICK t : t = listing
      OBVIOUS
    <2>2. PICK h : h = snapshot
      OBVIOUS
    <2>3. PICK d : d = deal
      OBVIOUS
    <2>4. PICK t2 : t2 = listing'
      OBVIOUS
    <2>5. PICK h2 : h2 = snapshot'
      OBVIOUS
    <2>6. PICK d2 : d2 = deal'
      OBVIOUS
    <2>7. \A l \in ListForCommunity(t, c) \union ListForCommunity(t2, c) :
             t2[l] = t[l] /\ h2[l] = h[l]
      BY <1>1, <2>1, <2>2, <2>4, <2>5 DEF ListForCommunity
    <2>8. ListForCommunity(t, c) = ListForCommunity(t2, c)
      BY <2>7 DEF ListForCommunity
    <2>9. \A k \in DealIds : d2[k] # d[k] =>
             /\ ~ (d[k] # Null /\ d[k].community = c)
             /\ ~ (d2[k] # Null /\ d2[k].community = c)
      BY <1>1, <2>3, <2>6
    <2>10. \A k \in DealsIn(d, c, Unbounded) \union DealsIn(d2, c, Unbounded) : d2[k] = d[k]
      BY <2>9 DEF DealsIn
    <2>11. DealsIn(d, c, Unbounded) = DealsIn(d2, c, Unbounded)
      BY <2>10 DEF DealsIn
    <2>12. Evidence(t, h, d, c) = Evidence(t2, h2, d2, c)
      BY <2>7, <2>8, <2>10, <2>11, SameRowsSameEvidence
    <2> QED
      BY <2>1, <2>2, <2>3, <2>4, <2>5, <2>6, <2>12
  <1> HIDE DEF Touched
  <1>2. Step
    BY <1>1, Zenon
  <1>3. [][Step]_vars
    BY <1>2, PTL
  <1> QED
    BY <1>3 DEF EvidenceStaysInSubject, Touched

-----------------------------------------------------------------------------
(* What every reachable store satisfies *)

TypeInv ==
    /\ listing \in ListingTable
    /\ snapshot \in SnapshotTable
    /\ deal \in [DealIds -> Deal \union {Null}]
    /\ pending \in Observations \union {Null}

\* A snapshot, stored or about to be, is of a listing with an identity row.
IdentityFirst ==
    /\ \A l \in ListingIds : (\E i \in Instants : snapshot[l][i] # Null) => listing[l] # Null
    /\ pending # Null => listing[pending.listing] # Null

\* A transaction is stored under its own id.
DealUnderItsId == \A t \in DealIds : deal[t] # Null => deal[t].id = t

StoreInv == TypeInv /\ IdentityFirst /\ DealUnderItsId

\* Merging an observation into a row gives a row.
LEMMA MergedIsRow ==
    ASSUME NEW row \in ListingRow \union {Null}, NEW o \in Observation
    PROVE  MergedRow(row, o) \in ListingRow
  <1>1. RowOf(o) \in ListingRow
    BY DEF RowOf, Observation, ListingRow
  <1>2. CASE row = Null
    BY <1>1, <1>2 DEF MergedRow
  <1>3. CASE row # Null
    <2>1. row.first \in Instants /\ row.last \in Instants
      BY <1>3 DEF ListingRow
    <2>2. o.first \in Instants /\ o.last \in Instants
      BY DEF Observation
    <2>3. least(row.first, o.first) \in Instants /\ greatest(row.last, o.last) \in Instants
      BY <2>1, <2>2 DEF least, greatest
    <2>4. MergedRow(row, o) = [RowOf(o) EXCEPT !.first = least(row.first, o.first),
                                               !.last  = greatest(row.last, o.last)]
      BY <1>3 DEF MergedRow
    <2> QED
      BY <1>1, <2>3, <2>4 DEF ListingRow
  <1> QED
    BY <1>2, <1>3

\* StoreInv holds of the empty store.
LEMMA StoreInvInit == Init => StoreInv
  BY DEF Init, StoreInv, TypeInv, IdentityFirst, DealUnderItsId, EmptyListings,
         EmptySnapshots, ListingTable, SnapshotTable

\* A statement preserves StoreInv.
LEMMA StoreInvNext == StoreInv /\ [Next]_vars => StoreInv'
  <1> SUFFICES ASSUME StoreInv, [Next]_vars
               PROVE  StoreInv'
    OBVIOUS
  <1>0. /\ listing \in ListingTable /\ snapshot \in SnapshotTable
        /\ deal \in [DealIds -> Deal \union {Null}]
        /\ pending \in Observations \union {Null}
        /\ \A l \in ListingIds : (\E i \in Instants : snapshot[l][i] # Null) => listing[l] # Null
        /\ pending # Null => listing[pending.listing] # Null
        /\ DealUnderItsId
    BY DEF StoreInv, TypeInv, IdentityFirst
  <1>1. ASSUME NEW o \in Observations, WriteIdentity(o)
        PROVE  StoreInv'
    <2>1. PICK row : row = MergedRow(listing[o.listing], o)
      OBVIOUS
    <2>2. o \in Observation /\ o.listing \in ListingIds
      BY ObservationsAreValid DEF Observation
    <2>3. row \in ListingRow
      <3>1. listing[o.listing] \in ListingRow \union {Null}
        BY <1>0, <2>2 DEF ListingTable
      <3> QED
        BY <2>1, <2>2, <3>1, MergedIsRow
    <2>4. listing' = [listing EXCEPT ![o.listing] = row]
      BY <1>1, <2>1 DEF WriteIdentity, UpsertListing
    <2>5. pending' = o /\ snapshot' = snapshot /\ deal' = deal
      BY <1>1 DEF WriteIdentity
    <2>6. row # Null
      BY <2>3, NullIsNoRow
    <2>7. listing' \in ListingTable
      BY <1>0, <2>3, <2>4 DEF ListingTable
    <2>8. \A l \in ListingIds : listing[l] # Null => listing'[l] # Null
      BY <1>0, <2>4, <2>6 DEF ListingTable
    <2>9. listing'[o.listing] # Null
      BY <1>0, <2>2, <2>4, <2>6 DEF ListingTable
    <2> QED
      BY <1>0, <2>5, <2>7, <2>8, <2>9 DEF StoreInv, TypeInv, IdentityFirst, DealUnderItsId
  <1>2. ASSUME WriteSnapshot
        PROVE  StoreInv'
    <2>1. PICK o \in Observations : o = pending
      BY <1>0, <1>2 DEF WriteSnapshot
    <2>2. o \in Observation /\ o.listing \in ListingIds /\ o.at \in Instants
      BY ObservationsAreValid DEF Observation
    <2>3. /\ snapshot' = [snapshot EXCEPT ![o.listing] =
                             [snapshot[o.listing] EXCEPT ![o.at] = PointOf(o)]]
          /\ listing' = listing /\ deal' = deal /\ pending' = Null
      BY <1>2, <2>1 DEF WriteSnapshot, AppendSnapshot
    <2>4. PointOf(o) \in SnapshotPoint
      BY <2>2 DEF PointOf, Observation, SnapshotPoint
    <2>5. snapshot' \in SnapshotTable
      BY <1>0, <2>2, <2>3, <2>4 DEF SnapshotTable
    <2>6. listing[o.listing] # Null
      BY <1>0, <1>2, <2>1 DEF WriteSnapshot
    <2>7. \A l \in ListingIds \ {o.listing} : snapshot'[l] = snapshot[l]
      BY <1>0, <2>3 DEF SnapshotTable
    <2>8. \A l \in ListingIds :
              (\E i \in Instants : snapshot'[l][i] # Null) => listing[l] # Null
      BY <1>0, <2>6, <2>7
    <2> QED
      BY <1>0, <2>3, <2>5, <2>8 DEF StoreInv, TypeInv, IdentityFirst, DealUnderItsId
  <1>3. ASSUME LoseSnapshot
        PROVE  StoreInv'
    BY <1>0, <1>3 DEF LoseSnapshot, StoreInv, TypeInv, IdentityFirst, DealUnderItsId
  <1>4. ASSUME NEW d \in Deals, UpsertDeal(d)
        PROVE  StoreInv'
    <2>1. d \in Deal /\ d.id \in DealIds
      BY DealsAreValid DEF Deal
    <2>2. /\ deal' = [deal EXCEPT ![d.id] = d]
          /\ listing' = listing /\ snapshot' = snapshot /\ pending' = pending
      BY <1>4 DEF UpsertDeal
    <2>3. deal' \in [DealIds -> Deal \union {Null}]
      BY <1>0, <2>1, <2>2
    <2>4. DealUnderItsId'
      BY <1>0, <2>1, <2>2 DEF DealUnderItsId
    <2> QED
      BY <1>0, <2>2, <2>3, <2>4 DEF StoreInv, TypeInv, IdentityFirst
  <1>5. CASE UNCHANGED vars
    BY <1>0, <1>5 DEF vars, StoreInv, TypeInv, IdentityFirst, DealUnderItsId
  <1> QED
    BY <1>1, <1>2, <1>3, <1>4, <1>5 DEF Next

\* The stored rows, half observations included, keep their types, their keys and
\* the identity every snapshot belongs to.
THEOREM StoreStaysSound == Spec => []StoreInv
  BY StoreInvInit, StoreInvNext, PTL DEF Spec

\* The rows an injective sequence lists are as many as it is long.
LEMMA OrderCounts ==
    ASSUME NEW order, NEW S, Orders(order, S)
    PROVE  Cardinality(S) = Len(order)
  <1>1. /\ Len(order) \in Nat /\ DOMAIN order = 1 .. Len(order)
        /\ order \in [1 .. Len(order) -> S]
    BY DEF Orders
  <1>2. order \in Bijection(1 .. Len(order), S)
    BY <1>1, Zenon DEF Orders, Bijection, Injection, Surjection, IsInjective, Range
  <1>3. IsFiniteSet(1 .. Len(order)) /\ Cardinality(1 .. Len(order)) = Len(order)
    BY <1>1, FS_Interval
  <1> QED
    BY <1>2, <1>3, FS_Bijection DEF ExistsBijection

\* MarketMetrics counts as this module does.
LEMMA SameCardinality ==
    ASSUME NEW S
    PROVE  Metrics!Cardinality(S) = Cardinality(S)
  BY DEF Metrics!Cardinality, Cardinality

\* The listings and the snapshots a report counts are the community's.
LEMMA StockIs ==
    ASSUME NEW t, NEW h, NEW c
    PROVE  /\ StockMetrics(t, h, c).ids = ListForCommunity(t, c)
           /\ StockMetrics(t, h, c).snapshots = Cardinality(PointsOf(h, ListForCommunity(t, c)))
  <1>1. PICK listings : listings = ListingsOf(t, c)
    OBVIOUS
  <1>2. PICK read : read = SnapshotsOf(t, h, c)
    OBVIOUS
  <1>3. PICK points : points = PointsOf(h, ListForCommunity(t, c))
    OBVIOUS
  <1>4. Metrics!Identities(listings) = ListForCommunity(t, c)
    BY <1>1, ReadListings
  <1>5. /\ \A k \in DOMAIN read : \E p \in points : read[k] = SnapshotAt(h, p)
        /\ \A p \in points : \E k \in DOMAIN read : read[k] = SnapshotAt(h, p)
    BY <1>2, <1>3, ReadSnapshots
  <1>6. points \subseteq ListingIds \X Instants
    BY <1>3 DEF PointsOf, ListForCommunity
  <1>7. \A p \in points : <<SnapshotAt(h, p).listing, SnapshotAt(h, p).at>> = p
    BY <1>6 DEF SnapshotAt
  <1>8. {<<read[k].listing, read[k].at>> : k \in DOMAIN read} = points
    BY <1>5, <1>7
  <1>9. StockMetrics(t, h, c) = Metrics!ListingMetrics(listings, read, c)
    BY <1>1, <1>2 DEF StockMetrics
  <1>10. Metrics!ListingMetrics(listings, read, c).ids = Metrics!Identities(listings)
    BY DEF Metrics!ListingMetrics
  <1>11. Metrics!ListingMetrics(listings, read, c).snapshots =
            Metrics!Cardinality({<<read[k].listing, read[k].at>> : k \in DOMAIN read})
    BY DEF Metrics!ListingMetrics
  <1> QED
    BY <1>3, <1>4, <1>8, <1>9, <1>10, <1>11, SameCardinality

\* The deals a report counts are the community's, each once.
LEMMA SoldIs ==
    ASSUME NEW d, NEW c, \A t \in DealIds : d[t] # Null => d[t].id = t
    PROVE  /\ DealMetrics(d, c, Unbounded).ids = DealsIn(d, c, Unbounded)
           /\ DealMetrics(d, c, Unbounded).deals = Cardinality(DealsIn(d, c, Unbounded))
  <1>1. PICK deals : deals = TransactionsOf(d, c, Unbounded)
    OBVIOUS
  <1>2. PICK S : S = DealsIn(d, c, Unbounded)
    OBVIOUS
  <1>3. PICK held : /\ Orders(held, S)
                    /\ DOMAIN deals = 1 .. Len(held)
                    /\ Len(deals) = Len(held)
                    /\ \A k \in 1 .. Len(held) : deals[k] = d[held[k]]
    BY <1>1, <1>2, ReadDeals
  <1>4. /\ \A k \in 1 .. Len(held) : held[k] \in S
        /\ \A x \in S : \E k \in 1 .. Len(held) : held[k] = x
    BY <1>3 DEF Orders, Range
  <1>5. \A x \in S : d[x].id = x
    BY <1>2 DEF DealsIn
  <1>6. {deals[k].id : k \in DOMAIN deals} = S
    BY <1>3, <1>4, <1>5
  <1>7. Len(deals) = Cardinality(S)
    BY <1>3, OrderCounts
  <1>8. DealMetrics(d, c, Unbounded) = Metrics!TransactionMetrics(deals, c)
    BY <1>1 DEF DealMetrics
  <1>9. Metrics!TransactionMetrics(deals, c).ids = {deals[k].id : k \in DOMAIN deals}
    BY DEF Metrics!TransactionMetrics
  <1>10. Metrics!TransactionMetrics(deals, c).deals = Len(deals)
    BY DEF Metrics!TransactionMetrics
  <1> QED
    BY <1>2, <1>6, <1>7, <1>8, <1>9, <1>10

\* Every stored listing, snapshot and deal is evidence about one community.
THEOREM EvidencePartitioned == Spec => []EvidencePartitionsTheStore
  <1>1. StoreInv => EvidencePartitionsTheStore
    <2> SUFFICES ASSUME StoreInv
                 PROVE  EvidencePartitionsTheStore
      OBVIOUS
    <2>0. /\ listing \in ListingTable
          /\ deal \in [DealIds -> Deal \union {Null}]
          /\ \A l \in ListingIds : (\E i \in Instants : snapshot[l][i] # Null) => listing[l] # Null
          /\ \A t \in DealIds : deal[t] # Null => deal[t].id = t
      BY DEF StoreInv, TypeInv, IdentityFirst, DealUnderItsId
    <2>1. \A c : /\ StockMetrics(listing, snapshot, c).ids = ListForCommunity(listing, c)
                 /\ StockMetrics(listing, snapshot, c).snapshots
                       = Cardinality(PointsOf(snapshot, ListForCommunity(listing, c)))
      BY StockIs
    <2>2. \A c : /\ DealMetrics(deal, c, Unbounded).ids = DealsIn(deal, c, Unbounded)
                 /\ DealMetrics(deal, c, Unbounded).deals
                       = Cardinality(DealsIn(deal, c, Unbounded))
      BY <2>0, SoldIs
    <2>3. \A l \in ListingIds : listing[l] # Null =>
             \E c \in Communities : \A other \in Communities :
                 l \in StockMetrics(listing, snapshot, other).ids <=> other = c
      <3> TAKE l \in ListingIds
      <3> HAVE listing[l] # Null
      <3>1. listing[l].community \in Communities
        BY <2>0 DEF ListingTable, ListingRow
      <3>2. PICK c \in Communities : c = listing[l].community
        BY <3>1
      <3>3. \A other : l \in ListForCommunity(listing, other) <=> other = c
        BY <3>2 DEF ListForCommunity
      <3>4. \A other : l \in StockMetrics(listing, snapshot, other).ids <=> other = c
        BY <2>1, <3>3
      <3> QED
        BY <3>4
    <2>4. \A t \in DealIds : deal[t] # Null =>
             \E c \in Communities : \A other \in Communities :
                 t \in DealMetrics(deal, other, Unbounded).ids <=> other = c
      <3> TAKE t \in DealIds
      <3> HAVE deal[t] # Null
      <3>1. deal[t].community \in Communities
        BY <2>0 DEF Deal
      <3>2. PICK c \in Communities : c = deal[t].community
        BY <3>1
      <3>3. \A other : t \in DealsIn(deal, other, Unbounded) <=> other = c
        BY <3>2 DEF DealsIn, InWindow, Unbounded
      <3>4. \A other : t \in DealMetrics(deal, other, Unbounded).ids <=> other = c
        BY <2>2, <3>3
      <3> QED
        BY <3>4
    <2>5. \A k \in PointsOf(snapshot, ListingIds) : listing[k[1]] # Null
      BY <2>0 DEF PointsOf
    <2>6. /\ \A c, l : l \in ListForCommunity(listing, c) => listing[l] # Null
          /\ \A c, t : t \in DealsIn(deal, c, Unbounded) => deal[t] # Null
      BY DEF ListForCommunity, DealsIn
    <2> QED
      BY <2>1, <2>2, <2>3, <2>4, <2>5, <2>6, Zenon DEF EvidencePartitionsTheStore
  <1> QED
    BY <1>1, StoreStaysSound, PTL

-----------------------------------------------------------------------------
(* The metrics read a set of snapshots *)

\* A finite set of integers with a member has a greatest one.
LEMMA GreatestExists ==
    ASSUME NEW S \in SUBSET Int, IsFiniteSet(S), S # {}
    PROVE  \E m \in S : \A n \in S : n <= m
  <1> DEFINE Above(i) == {j \in S : j > i}
             counts == {Cardinality(Above(i)) : i \in S}
  <1>1. \A i \in S : IsFiniteSet(Above(i)) /\ Cardinality(Above(i)) \in Nat
    BY FS_Subset, FS_CardinalityType
  <1>2. counts \in SUBSET Nat /\ counts # {}
    BY <1>1
  <1>3. PICK fewest \in counts : \A n \in counts : fewest <= n
    <2> HIDE DEF counts
    <2> QED
      BY <1>2, LeastNatural
  <1>4. PICK m \in S : fewest = Cardinality(Above(m))
    OBVIOUS
  <1>5. ASSUME NEW n \in S, ~ (n <= m)
        PROVE  FALSE
    <2>1. PICK A : A = Above(m)
      OBVIOUS
    <2>2. PICK B : B = Above(n)
      OBVIOUS
    <2>3. B \in SUBSET A /\ B # A
      <3>1. n \in Int /\ m \in Int /\ n > m
        BY <1>5
      <3>2. \A j \in S : j > n => j > m
        BY <3>1
      <3>3. \A j : j \in B <=> j \in S /\ j > n
        BY <2>2
      <3>4. \A j : j \in A <=> j \in S /\ j > m
        BY <2>1
      <3>5. ~ (n > n)
        BY <3>1
      <3> HIDE DEF Above, counts
      <3> QED
        BY <1>5, <3>1, <3>2, <3>3, <3>4, <3>5
    <2>4. IsFiniteSet(A) /\ Cardinality(A) \in Nat /\ Cardinality(B) \in Nat
      BY <1>1, <2>1, <2>2
    <2>5. Cardinality(A) = fewest /\ Cardinality(B) \in counts
      BY <1>4, <2>1, <2>2
    <2> HIDE DEF Above, counts
    <2>6. Cardinality(B) <= Cardinality(A) /\ Cardinality(B) # Cardinality(A)
      BY <2>3, <2>4, FS_Subset
    <2>7. fewest <= Cardinality(B)
      BY <1>3, <2>5
    <2> QED
      BY <2>4, <2>5, <2>6, <2>7
  <1> QED
    BY <1>5

\* And a least one.
LEMMA LeastExists ==
    ASSUME NEW S \in SUBSET Int, IsFiniteSet(S), S # {}
    PROVE  \E m \in S : \A n \in S : m <= n
  <1> DEFINE T == {-i : i \in S}
             f == [i \in S |-> -i]
  <1>1. f \in Bijection(S, T)
    BY DEF Bijection, Injection, Surjection, IsInjective
  <1>2. IsFiniteSet(T)
    <2> HIDE DEF f, T
    <2> QED
      BY <1>1, FS_Bijection DEF ExistsBijection
  <1>3. T \in SUBSET Int /\ T # {}
    <2>1. \A i \in S : -i \in Int
      OBVIOUS
    <2>2. T \subseteq Int
      BY <2>1
    <2>3. T # {}
      OBVIOUS
    <2> QED
      BY <2>2, <2>3
  <1>4. PICK m \in T : \A n \in T : n <= m
    <2> HIDE DEF T
    <2> QED
      BY <1>2, <1>3, GreatestExists
  <1>5. PICK i \in S : m = -i
    OBVIOUS
  <1>6. \A n \in S : -n <= m
    BY <1>4
  <1> QED
    BY <1>5, <1>6

\* Snapshots as the domain types them.
Dated(s) == \A k \in DOMAIN s : s[k].at \in Int

\* The first and the last instant at which a listing was seen are instants at
\* which it was seen.
LEMMA EndsAreSeen ==
    ASSUME NEW s, Unambiguous(s), Dated(s), NEW l, Metrics!SeenAt(s, l) # {}
    PROVE  /\ Metrics!Min(Metrics!SeenAt(s, l)) \in Metrics!SeenAt(s, l)
           /\ Metrics!Max(Metrics!SeenAt(s, l)) \in Metrics!SeenAt(s, l)
  <1> DEFINE A == {j \in DOMAIN s : s[j].listing = l}
             f == [k \in A |-> s[k].at]
  <1>1. PICK S : S = Metrics!SeenAt(s, l)
    OBVIOUS
  <1>2. S = {s[k].at : k \in A}
    BY <1>1 DEF Metrics!SeenAt
  <1>3. S \in SUBSET Int
    BY <1>2 DEF Dated
  <1>4. IsFiniteSet(A)
    <2>1. PICK n \in Nat : DOMAIN s = 1 .. n
      BY DEF Unambiguous
    <2>2. IsFiniteSet(1 .. n)
      BY FS_Interval
    <2>3. A \in SUBSET (1 .. n)
      BY <2>1
    <2> HIDE DEF A
    <2> QED
      BY <2>2, <2>3, FS_Subset
  <1>5. f \in Surjection(A, S)
    BY <1>2 DEF Surjection
  <1>6. IsFiniteSet(S)
    <2> HIDE DEF A, f
    <2> QED
      BY <1>4, <1>5, FS_Surjection
  <1>7. Metrics!Min(S) \in S
    <2>1. \E m \in S : \A n \in S : m <= n
      BY <1>1, <1>3, <1>6, LeastExists
    <2> QED
      BY <2>1, Zenon DEF Metrics!Min
  <1>8. Metrics!Max(S) \in S
    <2>1. \E m \in S : \A n \in S : n <= m
      BY <1>1, <1>3, <1>6, GreatestExists
    <2>2. \E m \in S : \A n \in S : m >= n
      BY <1>3, <2>1
    <2> QED
      BY <2>2, Zenon DEF Metrics!Max
  <1> QED
    BY <1>1, <1>7, <1>8

\* Sequences of the same snapshots, whatever their order and repetitions.
SameSnapshots(s, r) ==
    /\ \A j \in DOMAIN s : \E k \in DOMAIN r : r[k] = s[j]
    /\ \A k \in DOMAIN r : \E j \in DOMAIN s : s[j] = r[k]

\* setdefault keeps the same one of each instant.
LEMMA KeptAlike ==
    ASSUME NEW s, NEW r, Unambiguous(s), Unambiguous(r), SameSnapshots(s, r),
           NEW l, NEW i \in Metrics!SeenAt(s, l)
    PROVE  Metrics!Kept(s, l, i) = Metrics!Kept(r, l, i)
  <1>1. PICK j \in DOMAIN s : s[j].listing = l /\ s[j].at = i
    BY DEF Metrics!SeenAt
  <1>2. PICK k \in DOMAIN r : r[k] = s[j]
    BY DEF SameSnapshots
  <1>3. Metrics!Kept(s, l, i) = s[j]
    BY <1>1, KeptIsSupplied
  <1>4. Metrics!Kept(r, l, i) = r[k]
    BY <1>1, <1>2, KeptIsSupplied
  <1> QED
    BY <1>2, <1>3, <1>4

\* The report on a community's listings depends on which listings and which
\* snapshots it is given and on nothing else about the iterables.
THEOREM ReportReadsASet ==
    ASSUME NEW listings, NEW others, NEW s, NEW r, NEW c,
           Metrics!Identities(listings) = Metrics!Identities(others),
           Unambiguous(s), Unambiguous(r), Dated(s), SameSnapshots(s, r)
    PROVE  Metrics!ListingMetrics(listings, s, c) = Metrics!ListingMetrics(others, r, c)
  <1> DEFINE ids == Metrics!Identities(listings)
             Observed(q) == {l \in ids : Metrics!SeenAt(q, l) # {}}
             Observable(q) == {l \in Observed(q) : Metrics!Cardinality(Metrics!SeenAt(q, l)) > 1}
             Latests(q) == [l \in Observed(q) |-> Metrics!Latest(q, l)]
             Changes(q) == [l \in Observable(q) |-> Metrics!PriceChange(q, l)]
             Keys(q) == {<<q[k].listing, q[k].at>> : k \in DOMAIN q}
             Report(observed, latest, observable, change, keys) ==
                LET active    == {l \in observed : latest[l].status = "active"}
                    cuts      == Metrics!Cardinality({l \in observable : Metrics!IsCut(change[l])})
                    increases == Metrics!Cardinality({l \in observable : Metrics!IsIncrease(change[l])})
                    moves     == Metrics!Cardinality(observable)
                IN  [community     |-> c,
                     listings      |-> Metrics!Cardinality(ids),
                     snapshots     |-> Metrics!Cardinality(keys),
                     observed      |-> Metrics!Cardinality(observed),
                     identity_only |-> Metrics!Cardinality(ids) - Metrics!Cardinality(observed),
                     latest_at     |-> IF observed = {} THEN Null
                                       ELSE Metrics!Max({latest[l].at : l \in observed}),
                     statuses      |-> [x \in Statuses |->
                                           Metrics!Cardinality({l \in observed : latest[l].status = x})],
                     active        |-> Metrics!Cardinality(active),
                     active_price  |-> Metrics!Median([l \in active |-> <<latest[l].price, 1>>]),
                     observable    |-> moves,
                     cuts          |-> cuts,
                     increases     |-> increases,
                     unchanged     |-> moves - cuts - increases,
                     cut_share     |-> IF moves = 0 THEN Null ELSE Metrics!Fraction(cuts, moves),
                     price_change  |-> Metrics!Median(change),
                     ids           |-> ids]
  <1>1. \A l : Metrics!SeenAt(s, l) = Metrics!SeenAt(r, l)
    BY DEF SameSnapshots, Metrics!SeenAt
  <1>2. Observed(s) = Observed(r) /\ Observable(s) = Observable(r)
    BY <1>1
  <1>3. ASSUME NEW l \in Observed(s)
        PROVE  /\ Metrics!Latest(s, l) = Metrics!Latest(r, l)
               /\ Metrics!Earliest(s, l) = Metrics!Earliest(r, l)
    <2>1. /\ Metrics!Min(Metrics!SeenAt(s, l)) \in Metrics!SeenAt(s, l)
          /\ Metrics!Max(Metrics!SeenAt(s, l)) \in Metrics!SeenAt(s, l)
      BY <1>3, EndsAreSeen
    <2>2. PICK first \in Metrics!SeenAt(s, l) : first = Metrics!Min(Metrics!SeenAt(s, l))
      BY <2>1
    <2>3. PICK last \in Metrics!SeenAt(s, l) : last = Metrics!Max(Metrics!SeenAt(s, l))
      BY <2>1
    <2>4. /\ Metrics!Kept(s, l, first) = Metrics!Kept(r, l, first)
          /\ Metrics!Kept(s, l, last) = Metrics!Kept(r, l, last)
      BY KeptAlike
    <2> QED
      BY <1>1, <2>2, <2>3, <2>4, Zenon DEF Metrics!Latest, Metrics!Earliest
  <1>4. Latests(s) = Latests(r)
    BY <1>2, <1>3
  <1>5. Changes(s) = Changes(r)
    <2>1. \A l \in Observable(s) : Metrics!PriceChange(s, l) = Metrics!PriceChange(r, l)
      BY <1>3, Zenon DEF Metrics!PriceChange
    <2> QED
      BY <1>2, <2>1
  <1>6. Keys(s) = Keys(r)
    BY DEF SameSnapshots
  <1>7. Metrics!ListingMetrics(listings, s, c)
           = Report(Observed(s), Latests(s), Observable(s), Changes(s), Keys(s))
    BY Zenon DEF Metrics!ListingMetrics
  <1>8. Metrics!ListingMetrics(others, r, c)
           = Report(Observed(r), Latests(r), Observable(r), Changes(r), Keys(r))
    BY Zenon DEF Metrics!ListingMetrics
  <1> HIDE DEF Observed, Observable, Latests, Changes, Keys, Report, ids
  <1> QED
    BY <1>2, <1>4, <1>5, <1>6, <1>7, <1>8, Zenon

\* A sequence, its reverse, and the reverse followed by it.
LEMMA AgainIsSame ==
    ASSUME NEW s, Unambiguous(s), NEW T, s \in Seq(T),
           NEW r \in {Reverse(s), Reverse(s) \o s}
    PROVE  SameSnapshots(s, r) /\ Unambiguous(r)
  <1>1. PICK n \in Nat : n = Len(s) /\ DOMAIN s = 1 .. n
    OBVIOUS
  <1>2. PICK b : b = Reverse(s)
    OBVIOUS
  <1>3. b \in Seq(T) /\ Len(b) = n /\ \A k \in 1 .. n : b[k] = s[n - k + 1]
    BY <1>1, <1>2 DEF Reverse
  <1>4. \A k \in 1 .. n : n - k + 1 \in 1 .. n /\ n - (n - k + 1) + 1 = k
    OBVIOUS
  <1>5. \A j \in 1 .. n : b[n - j + 1] = s[j]
    BY <1>3, <1>4
  <1>6. DOMAIN b = 1 .. n
    BY <1>3
  <1>7. \A k \in DOMAIN b : \E j \in DOMAIN s : s[j] = b[k]
    BY <1>1, <1>3, <1>4, <1>6
  <1>8. \A j \in DOMAIN s : \E k \in DOMAIN b : b[k] = s[j]
    BY <1>1, <1>4, <1>5, <1>6
  <1>9. SameSnapshots(s, r) /\ \E m \in Nat : DOMAIN r = 1 .. m
    <2>1. CASE r = b
      BY <1>6, <1>7, <1>8, <2>1 DEF SameSnapshots
    <2>2. CASE r = b \o s
      <3>1. /\ DOMAIN r = 1 .. (n + n)
            /\ \A k \in 1 .. n : r[k] = b[k]
            /\ \A k \in 1 .. n : r[n + k] = s[k]
        <4>1. r \in Seq(T) /\ Len(r) = n + n
          <5>1. b \in Seq(T) /\ s \in Seq(T)
            BY <1>3
          <5>2. r \in Seq(T) /\ Len(r) = Len(b) + Len(s)
            BY <2>2, <5>1
          <5> QED
            BY <1>1, <1>3, <5>2
        <4>2. \A k \in 1 .. Len(b) + Len(s) :
                 r[k] = IF k <= Len(b) THEN b[k] ELSE s[k - Len(b)]
          BY <1>3, <2>2
        <4>3. \A k \in 1 .. n + n : r[k] = IF k <= n THEN b[k] ELSE s[k - n]
          BY <1>1, <1>3, <4>2
        <4>4. \A k \in 1 .. n : /\ k \in 1 .. n + n /\ n + k \in 1 .. n + n
                                /\ k <= n /\ ~ (n + k <= n) /\ (n + k) - n = k
          OBVIOUS
        <4> QED
          BY <4>1, <4>3, <4>4
      <3>2. ASSUME NEW k \in DOMAIN r
            PROVE  \E j \in DOMAIN s : s[j] = r[k]
        <4>1. CASE k \in 1 .. n
          BY <1>6, <1>7, <3>1, <4>1
        <4>2. CASE k \notin 1 .. n
          <5>1. k - n \in 1 .. n /\ n + (k - n) = k
            BY <3>1, <4>2
          <5> QED
            BY <1>1, <3>1, <5>1
        <4> QED
          BY <4>1, <4>2
      <3>3. ASSUME NEW j \in DOMAIN s
            PROVE  \E k \in DOMAIN r : r[k] = s[j]
        <4>1. n + j \in DOMAIN r
          BY <1>1, <3>1
        <4> QED
          BY <1>1, <3>1, <4>1
      <3>4. n + n \in Nat
        OBVIOUS
      <3> QED
        BY <3>1, <3>2, <3>3, <3>4 DEF SameSnapshots
    <2> QED
      BY <1>2, <2>1, <2>2
  <1>10. ASSUME NEW j \in DOMAIN r, NEW k \in DOMAIN r,
                r[j].listing = r[k].listing, r[j].at = r[k].at
         PROVE  r[j] = r[k]
    <2>1. PICK i \in DOMAIN s : s[i] = r[j]
      BY <1>9 DEF SameSnapshots
    <2>2. PICK m \in DOMAIN s : s[m] = r[k]
      BY <1>9 DEF SameSnapshots
    <2>3. s[i].listing = s[m].listing /\ s[i].at = s[m].at
      BY <1>10, <2>1, <2>2
    <2>4. s[i] = s[m]
      BY <2>3 DEF Unambiguous
    <2> QED
      BY <2>1, <2>2, <2>4
  <1> QED
    BY <1>9, <1>10, Zenon DEF Unambiguous

\* Whatever the order in which the repositories return listings and snapshots,
\* repeated or not, the report is given and is the same.
THEOREM ListingOrderNeverMatters == Spec => []ListingOrderIsIrrelevant
  <1>1. ASSUME NEW t, NEW h, NEW c,
               NEW again \in {Reverse(SnapshotsOf(t, h, c)),
                              Reverse(SnapshotsOf(t, h, c)) \o SnapshotsOf(t, h, c)}
        PROVE  /\ ~ Metrics!ListingsRefused(Reverse(ListingsOf(t, c)), again, c)
               /\ Metrics!ListingMetrics(Reverse(ListingsOf(t, c)), again, c)
                    = StockMetrics(t, h, c)
    <2>1. PICK s : s = SnapshotsOf(t, h, c)
      OBVIOUS
    <2>2. PICK ls : ls = ListingsOf(t, c)
      OBVIOUS
    <2>3. PICK rs : rs = Reverse(ls)
      OBVIOUS
    <2>4. PICK points : points = PointsOf(h, ListForCommunity(t, c))
      OBVIOUS
    <2>5. /\ \A k \in DOMAIN ls : ls[k].community = c
          /\ \A j, k \in DOMAIN ls : ls[j].id = ls[k].id => j = k
          /\ Metrics!Identities(ls) = ListForCommunity(t, c)
      BY <2>2, ReadListings
    <2>6. \E n \in Nat : DOMAIN ls = 1 .. n /\ Len(ls) = n
      <3>1. PICK held : held = Selection(ListingOrder, ListForCommunity(t, c))
        OBVIOUS
      <3>2. ListForCommunity(t, c) \subseteq ListingIds
        BY DEF ListForCommunity
      <3>3. Len(held) \in Nat
        BY <3>1, <3>2, ReadsAreOrdered, SelectionIs DEF Orders
      <3> QED
        BY <2>2, <3>1, <3>3 DEF ListingsOf
    <2>7. PICK n \in Nat : DOMAIN ls = 1 .. n /\ Len(ls) = n
      BY <2>6
    <2>8. DOMAIN rs = 1 .. n /\ \A k \in 1 .. n : rs[k] = ls[n - k + 1]
      BY <2>3, <2>7 DEF Reverse
    <2>9. \A k \in 1 .. n : n - k + 1 \in 1 .. n /\ n - (n - k + 1) + 1 = k
      OBVIOUS
    <2>10. Metrics!Identities(rs) = Metrics!Identities(ls)
      <3>1. \A k \in 1 .. n : ls[k] = rs[n - k + 1]
        BY <2>8, <2>9
      <3> QED
        BY <2>7, <2>8, <2>9, <3>1 DEF Metrics!Identities
    <2>11. /\ \A k \in DOMAIN rs : rs[k].community = c
           /\ \A j, k \in DOMAIN rs : rs[j].id = rs[k].id => j = k
      <3>1. \A j, k \in 1 .. n : n - j + 1 = n - k + 1 => j = k
        OBVIOUS
      <3> QED
        BY <2>5, <2>7, <2>8, <2>9, <3>1
    <2>12. Unambiguous(s) /\ s \in Seq(Range(s))
      <3>1. \E m \in Nat : DOMAIN s = 1 .. m
        BY <2>1, ReadSnapshots
      <3>2. PICK keys : keys = Selection(SnapshotOrder, points)
        OBVIOUS
      <3>3. s = [k \in 1 .. Len(keys) |-> s[k]]
        BY <2>1, <2>4, <3>2 DEF SnapshotsOf, SnapshotsAt
      <3>4. points \subseteq ListingIds \X Instants
        BY <2>4 DEF PointsOf, ListForCommunity
      <3>5. Len(keys) \in Nat
        BY <3>2, <3>4, ReadsAreOrdered, SelectionIs DEF Orders
      <3>6. Unambiguous(s)
        BY <2>1, ReadsAreUnambiguous
      <3> QED
        BY <3>3, <3>5, <3>6 DEF Range
    <2>13. SameSnapshots(s, again) /\ Unambiguous(again)
      BY <2>1, <2>12, AgainIsSame
    <2>14. \A k \in DOMAIN s : \E p \in points : s[k] = SnapshotAt(h, p)
      BY <2>1, <2>4, ReadSnapshots
    <2>15. points \subseteq ListForCommunity(t, c) \X Instants
      BY <2>4 DEF PointsOf
    <2>16. /\ Dated(s)
           /\ \A k \in DOMAIN s : s[k].listing \in Metrics!Identities(rs)
      <3>1. \A p \in points :
               /\ SnapshotAt(h, p).at \in Int
               /\ SnapshotAt(h, p).listing \in ListForCommunity(t, c)
        BY <2>15, InstantsAreOrdered DEF SnapshotAt
      <3> QED
        BY <2>5, <2>10, <2>14, <3>1 DEF Dated
    <2>17. \A k \in DOMAIN again : again[k].listing \in Metrics!Identities(rs)
      BY <2>13, <2>16 DEF SameSnapshots
    <2>18. \A k \in DOMAIN again :
              again[k] = Metrics!Kept(again, again[k].listing, again[k].at)
      BY <2>13, KeptIsSupplied
    <2>19. ~ Metrics!ListingsRefused(rs, again, c)
      BY <2>11, <2>17, <2>18, Zenon DEF Metrics!ListingsRefused
    <2>20. Metrics!ListingMetrics(ls, s, c) = Metrics!ListingMetrics(rs, again, c)
      BY <2>10, <2>12, <2>13, <2>16, ReportReadsASet
    <2> QED
      BY <2>1, <2>2, <2>3, <2>19, <2>20 DEF StockMetrics
  <1>2. ListingOrderIsIrrelevant
    BY <1>1 DEF ListingOrderIsIrrelevant
  <1> QED
    BY <1>2, PTL

-----------------------------------------------------------------------------
(* Windows of transactions *)

\* As many transactions are read as the window holds.
LEMMA ReadCounts ==
    ASSUME NEW d, NEW c, NEW w
    PROVE  /\ IsFiniteSet(DealsIn(d, c, w))
           /\ Len(TransactionsOf(d, c, w)) = Cardinality(DealsIn(d, c, w))
  <1>1. PICK S : S = DealsIn(d, c, w)
    OBVIOUS
  <1>2. PICK held : Orders(held, S) /\ Len(TransactionsOf(d, c, w)) = Len(held)
    BY <1>1, ReadDeals
  <1>3. /\ Len(held) \in Nat
        /\ held \in Surjection(1 .. Len(held), S)
    BY <1>2 DEF Orders, Surjection, Range
  <1>4. IsFiniteSet(S)
    <2>1. IsFiniteSet(1 .. Len(held))
      BY <1>3, FS_Interval
    <2> QED
      BY <1>3, <2>1, FS_Surjection
  <1> QED
    BY <1>1, <1>2, <1>4, OrderCounts

\* A window cut between two days reads as its two halves together: the bounds
\* are inclusive and no deal falls between them or into both.
THEOREM HalvesAddUp == Spec => []WindowsAddUp
  <1>1. ASSUME NEW d \in [DealIds -> Deal \union {Null}], NEW c,
               NEW w \in Window, NEW day \in Days,
               [w EXCEPT !.end = day] \in Window, [w EXCEPT !.start = day + 1] \in Window
        PROVE  Len(TransactionsOf(d, c, w)) =
                   Len(TransactionsOf(d, c, [w EXCEPT !.end = day]))
                 + Len(TransactionsOf(d, c, [w EXCEPT !.start = day + 1]))
    <2>1. PICK before \in Window : before = [w EXCEPT !.end = day]
      BY <1>1
    <2>2. PICK after \in Window : after = [w EXCEPT !.start = day + 1]
      BY <1>1
    <2>3. /\ w.start \in Days \union {Null} /\ w.end \in Days \union {Null}
          /\ before.start = w.start /\ before.end = day
          /\ after.start = day + 1 /\ after.end = w.end
      BY <2>1, <2>2 DEF Window
    <2>4. /\ day \in Int /\ day # Null /\ day + 1 # Null
          /\ w.start # Null => w.start \in Int /\ w.start <= day
          /\ w.end # Null => w.end \in Int /\ day + 1 <= w.end
      BY <2>1, <2>2, <2>3, DaysAreOrdered DEF Window
    <2>5. PICK A : A = DealsIn(d, c, before)
      OBVIOUS
    <2>6. PICK B : B = DealsIn(d, c, after)
      OBVIOUS
    <2>7. \A x \in Int : /\ InWindow(x, w) <=> InWindow(x, before) \/ InWindow(x, after)
                         /\ ~ (InWindow(x, before) /\ InWindow(x, after))
      BY <2>3, <2>4 DEF InWindow
    <2>8. \A k \in DealIds : d[k] # Null => d[k].date \in Int
      BY DaysAreOrdered DEF Deal
    <2>9. DealsIn(d, c, w) = A \union B
      BY <2>5, <2>6, <2>7, <2>8 DEF DealsIn
    <2>10. A \cap B = {}
      BY <2>5, <2>6, <2>7, <2>8 DEF DealsIn
    <2>11. /\ IsFiniteSet(A) /\ Len(TransactionsOf(d, c, before)) = Cardinality(A)
           /\ IsFiniteSet(B) /\ Len(TransactionsOf(d, c, after)) = Cardinality(B)
           /\ Len(TransactionsOf(d, c, w)) = Cardinality(A \union B)
      BY <2>5, <2>6, <2>9, ReadCounts
    <2>12. /\ Cardinality(A) \in Nat /\ Cardinality(B) \in Nat
           /\ Cardinality(A \union B) = Cardinality(A) + Cardinality(B) - Cardinality(A \cap B)
      BY <2>11, FS_CardinalityType, FS_Union
    <2>13. Cardinality(A \cap B) = 0
      BY <2>10, FS_EmptySet
    <2>14. Len(TransactionsOf(d, c, w)) =
              Len(TransactionsOf(d, c, before)) + Len(TransactionsOf(d, c, after))
      BY <2>11, <2>12, <2>13
    <2> QED
      BY <2>1, <2>2, <2>14, Zenon
  <1>2. StoreInv => WindowsAddUp
    BY <1>1 DEF StoreInv, TypeInv, WindowsAddUp
  <1> QED
    BY <1>2, StoreStaysSound, PTL

-----------------------------------------------------------------------------
(* Ranks *)

\* R is a strict total order on S.
StrictlyOrders(R, S) ==
    /\ \A x \in S : <<x, x>> \notin R
    /\ \A x, y \in S : x # y => <<x, y>> \in R \/ <<y, x>> \in R
    /\ \A x, y, z \in S : <<x, y>> \in R /\ <<y, z>> \in R => <<x, z>> \in R

Below(S, R, x) == {y \in S : <<y, x>> \in R}

\* The ranks of a finite ordered set are 0 to n - 1, each taken once.
LEMMA RanksAreTaken ==
    ASSUME NEW S, IsFiniteSet(S), NEW R, StrictlyOrders(R, S)
    PROVE  /\ Cardinality(S) \in Nat
           /\ \A x \in S : IsFiniteSet(Below(S, R, x)) /\ Cardinality(Below(S, R, x)) \in Nat
           /\ \A x, y \in S : <<x, y>> \in R =>
                  Cardinality(Below(S, R, x)) < Cardinality(Below(S, R, y))
           /\ \A k \in 1 .. Cardinality(S) : \E x \in S : Cardinality(Below(S, R, x)) = k - 1
  <1>1. PICK n \in Nat : n = Cardinality(S)
    BY FS_CardinalityType
  <1>2. ASSUME NEW x \in S
        PROVE  /\ IsFiniteSet(Below(S, R, x))
               /\ Cardinality(Below(S, R, x)) \in Nat
               /\ Cardinality(Below(S, R, x)) < n
    <2>1. PICK B : B = Below(S, R, x)
      OBVIOUS
    <2>2. B \in SUBSET S /\ B # S
      BY <2>1 DEF Below, StrictlyOrders
    <2>3. IsFiniteSet(B) /\ Cardinality(B) <= Cardinality(S) /\ Cardinality(B) # Cardinality(S)
      BY <2>2, FS_Subset
    <2>4. Cardinality(B) \in Nat
      BY <2>3, FS_CardinalityType
    <2> QED
      BY <1>1, <2>1, <2>3, <2>4
  <1>3. ASSUME NEW x \in S, NEW y \in S, <<x, y>> \in R
        PROVE  Cardinality(Below(S, R, x)) < Cardinality(Below(S, R, y))
    <2>1. PICK A : A = Below(S, R, x)
      OBVIOUS
    <2>2. PICK B : B = Below(S, R, y)
      OBVIOUS
    <2>3. x \in B /\ x \notin A
      BY <1>3, <2>1, <2>2 DEF Below, StrictlyOrders
    <2>4. A \in SUBSET B
      BY <1>3, <2>1, <2>2 DEF Below, StrictlyOrders
    <2>5. IsFiniteSet(B) /\ Cardinality(A) \in Nat /\ Cardinality(B) \in Nat
      BY <1>2, <2>1, <2>2
    <2>6. Cardinality(A) <= Cardinality(B) /\ Cardinality(A) # Cardinality(B)
      BY <2>3, <2>4, <2>5, FS_Subset
    <2> QED
      BY <2>1, <2>2, <2>5, <2>6
  <1> DEFINE rank == [x \in S |-> Cardinality(Below(S, R, x))]
  <1>4. \A x \in S : rank[x] \in 0 .. n - 1
    BY <1>1, <1>2
  <1>5. \A x, y \in S : rank[x] = rank[y] => x = y
    <2>1. \A x, y \in S : <<x, y>> \in R => rank[x] < rank[y]
      BY <1>3
    <2>2. \A x \in S : rank[x] \in Nat
      BY <1>2
    <2> HIDE DEF rank
    <2> TAKE x, y \in S
    <2> HAVE rank[x] = rank[y]
    <2>3. ~ (rank[x] < rank[y]) /\ ~ (rank[y] < rank[x])
      BY <2>2
    <2> QED
      BY <2>1, <2>3, Zenon DEF StrictlyOrders
  <1>6. rank \in Injection(S, 0 .. n - 1)
    <2>1. rank \in [S -> 0 .. n - 1]
      BY <1>4
    <2> HIDE DEF rank
    <2> QED
      BY <1>5, <2>1, Zenon DEF Injection, IsInjective
  <1>7. IsFiniteSet(0 .. n - 1) /\ Cardinality(0 .. n - 1) = n
    <2>1. 0 \in Int /\ n - 1 \in Int
      BY <1>1
    <2>2. (IF 0 > n - 1 THEN 0 ELSE n - 1 - 0 + 1) = n
      BY <1>1
    <2> QED
      BY <2>1, <2>2, FS_Interval
  <1>8. rank \in Surjection(S, 0 .. n - 1)
    <2> HIDE DEF rank
    <2> QED
      BY <1>1, <1>6, <1>7, FS_Injection
  <1>9. \A k \in 1 .. n : \E x \in S : Cardinality(Below(S, R, x)) = k - 1
    <2> TAKE k \in 1 .. n
    <2>1. k - 1 \in 0 .. n - 1
      BY <1>1
    <2>2. PICK x \in S : rank[x] = k - 1
      <3> HIDE DEF rank
      <3> QED
        BY <1>8, <2>1 DEF Surjection
    <2> QED
      BY <2>2
  <1> QED
    BY <1>1, <1>2, <1>3, <1>9

\* What Ranked returns: the member of each rank.
LEMMA RankedIs ==
    ASSUME NEW S, IsFiniteSet(S), NEW R, StrictlyOrders(R, S)
    PROVE  /\ Metrics!Ranked(S, R) \in Bijection(1 .. Cardinality(S), S)
           /\ \A k \in 1 .. Cardinality(S) :
                  Cardinality(Below(S, R, Metrics!Ranked(S, R)[k])) = k - 1
  <1>1. PICK n \in Nat : n = Cardinality(S)
    BY FS_CardinalityType
  <1>2. PICK f : f = Metrics!Ranked(S, R)
    OBVIOUS
  <1>3. /\ DOMAIN f = 1 .. n
        /\ \A k \in 1 .. n :
              f[k] = CHOOSE x \in S : Metrics!Cardinality(Below(S, R, x)) = k - 1
    <2>1. f = [k \in 1 .. Metrics!Cardinality(S) |->
                  CHOOSE x \in S : Metrics!Cardinality(Below(S, R, x)) = k - 1]
      BY <1>2, Zenon DEF Metrics!Ranked, Below
    <2>2. Metrics!Cardinality(S) = n
      BY <1>1, SameCardinality
    <2> QED
      BY <2>1, <2>2, Zenon
  <1>4. \A k \in 1 .. n : f[k] \in S /\ Cardinality(Below(S, R, f[k])) = k - 1
    <2> TAKE k \in 1 .. n
    <2>1. PICK x \in S : Cardinality(Below(S, R, x)) = k - 1
      BY <1>1, RanksAreTaken
    <2>2. Metrics!Cardinality(Below(S, R, x)) = k - 1
      BY <2>1, SameCardinality, Zenon
    <2>3. f[k] \in S /\ Metrics!Cardinality(Below(S, R, f[k])) = k - 1
      BY <1>3, <2>2, Zenon
    <2> QED
      BY <2>3, SameCardinality, Zenon
  <1>5. \A j, k \in 1 .. n : f[j] = f[k] => j = k
    <2> TAKE j, k \in 1 .. n
    <2> HAVE f[j] = f[k]
    <2>1. j - 1 = k - 1
      BY <1>4
    <2> QED
      BY <1>1, <2>1
  <1>6. f \in [1 .. n -> S]
    <2>1. f = [k \in 1 .. n |-> f[k]]
      BY <1>2, <1>3, Zenon DEF Metrics!Ranked
    <2> QED
      BY <1>4, <2>1
  <1>7. f \in Injection(1 .. n, S)
    BY <1>5, <1>6, Zenon DEF Injection, IsInjective
  <1>8. Cardinality(1 .. n) = n
    <2>1. 1 \in Int /\ n \in Int /\ (IF 1 > n THEN 0 ELSE n - 1 + 1) = n
      BY <1>1
    <2> QED
      BY <2>1, FS_Interval
  <1>9. f \in Surjection(1 .. n, S)
    BY <1>1, <1>7, <1>8, FS_Injection
  <1> QED
    BY <1>1, <1>2, <1>4, <1>7, <1>9 DEF Bijection

-----------------------------------------------------------------------------
(* Fractions in lowest terms *)

\* Products keep and reflect order.
LEMMA Scaled ==
    ASSUME NEW a \in Int, NEW b \in Int, NEW c \in Nat \ {0}
    PROVE  /\ a * c \in Int
           /\ a <= b <=> a * c <= b * c
           /\ a < b <=> a * c < b * c
           /\ a = b <=> a * c = b * c
  <1>1. a <= b => a * c <= b * c
    OBVIOUS
  <1>2. a < b => a * c < b * c
    OBVIOUS
  <1>3. a * c \in Int /\ b * c \in Int
    OBVIOUS
  <1>4. b < a => b * c < a * c
    OBVIOUS
  <1> HIDE DEF Quotients
  <1> QED
    BY <1>1, <1>2, <1>3, <1>4

\* What of two quotients is less.
LEMMA LessIs ==
    ASSUME NEW p \in Quotients, NEW q \in Quotients
    PROVE  /\ Metrics!Less(p, q) \in BOOLEAN
           /\ Metrics!Less(p, q) <=> p[1] * q[2] < q[1] * p[2]
           /\ ~ Metrics!Less(q, p) <=> p[1] * q[2] <= q[1] * p[2]
  <1>1. p[1] * q[2] \in Int /\ q[1] * p[2] \in Int
    BY DEF Quotients
  <1> QED
    BY <1>1 DEF Metrics!Less

\* Quotients are ordered as numbers are: p <= q <= r gives p <= r.
LEMMA LessIsWeak ==
    ASSUME NEW p \in Quotients, NEW q \in Quotients, NEW r \in Quotients,
           ~ Metrics!Less(q, p), ~ Metrics!Less(r, q)
    PROVE  ~ Metrics!Less(r, p)
  <1>1. PICK a \in Int, b \in Nat \ {0} : a = p[1] /\ b = p[2]
    BY DEF Quotients
  <1>2. PICK c \in Int, d \in Nat \ {0} : c = q[1] /\ d = q[2]
    BY DEF Quotients
  <1>3. PICK e \in Int, f \in Nat \ {0} : e = r[1] /\ f = r[2]
    BY DEF Quotients
  <1>4. a * d <= c * b /\ c * f <= e * d
    BY <1>1, <1>2, <1>3, LessIs
  <1>5. /\ a * d \in Int /\ c * b \in Int /\ c * f \in Int /\ e * d \in Int
        /\ a * f \in Int /\ e * b \in Int
    OBVIOUS
  <1>6. (a * d) * f <= (c * b) * f
    BY <1>4, <1>5, Scaled
  <1>7. (c * f) * b <= (e * d) * b
    BY <1>4, <1>5, Scaled
  <1>8. /\ (a * d) * f = (a * f) * d /\ (c * b) * f = (c * f) * b
        /\ (e * d) * b = (e * b) * d
    OBVIOUS
  <1>9. (a * f) * d \in Int /\ (c * f) * b \in Int /\ (e * b) * d \in Int
    OBVIOUS
  <1>10. (a * f) * d <= (e * b) * d
    BY <1>6, <1>7, <1>8, <1>9
  <1>11. a * f <= e * b
    BY <1>5, <1>10, Scaled
  <1> QED
    BY <1>1, <1>3, <1>11, LessIs

\* Two quotients, neither less than the other.
Alike(p, q) == p[1] * q[2] = q[1] * p[2]

\* In lowest terms: no like quotient has a smaller denominator.
Lowest(p) == p \in Quotients /\ \A q \in Quotients : Alike(p, q) => p[2] <= q[2]

\* Like quotients in lowest terms are the same pair.
LEMMA LowestIsUnique ==
    ASSUME NEW p, NEW q, Lowest(p), Lowest(q), Alike(p, q)
    PROVE  p = q
  <1>1. PICK a \in Int, b \in Nat \ {0} : p = <<a, b>>
    BY DEF Lowest, Quotients
  <1>2. PICK c \in Int, d \in Nat \ {0} : q = <<c, d>>
    BY DEF Lowest, Quotients
  <1>3. Alike(q, p)
    BY DEF Alike
  <1>4. b <= d /\ d <= b
    BY <1>1, <1>2, <1>3 DEF Lowest
  <1>5. b = d
    BY <1>4
  <1>6. a * b = c * b
    BY <1>1, <1>2, <1>5 DEF Alike
  <1>7. a = c
    BY <1>6, Scaled
  <1> QED
    BY <1>1, <1>2, <1>5, <1>7

\* The least denominator divides every other.
LEMMA LeastDenominator ==
    ASSUME NEW n \in Int, NEW d \in Nat \ {0}
    PROVE  \E P \in Int, D \in Nat \ {0}, k \in Nat \ {0} :
              /\ n = k * P /\ d = k * D
              /\ \A q \in Quotients : q[1] * d = n * q[2] => D <= q[2]
  <1> DEFINE W == {q \in Quotients : q[1] * d = n * q[2]}
             T == {q[2] : q \in W}
  <1>1. <<n, d>> \in W
    BY DEF Quotients
  <1>2. T \in SUBSET Nat /\ T # {}
    BY <1>1 DEF Quotients
  <1>3. PICK D \in T : \A j \in T : D <= j
    <2> HIDE DEF T
    <2> QED
      BY <1>2, LeastNatural
  <1>4. PICK w \in W : D = w[2]
    OBVIOUS
  <1>5. PICK P \in Int : P = w[1]
    BY <1>4 DEF Quotients
  <1>6. D \in Nat \ {0} /\ P * d = n * D
    BY <1>4, <1>5 DEF Quotients
  <1>7. \A q \in Quotients : q[1] * d = n * q[2] => D <= q[2]
    BY <1>3
  <1> HIDE DEF W, T
  <1>8. PICK k \in Int, r \in Int : /\ k = d \div D /\ r = d % D
                                    /\ d = D * k + r /\ 0 <= r /\ r < D
    BY <1>6
  <1>9. PICK s \in Int : s = n - k * P
    OBVIOUS
  <1>10. s * d = n * r
    <2>1. s * d = n * d - k * (P * d)
      BY <1>9
    <2>2. n * r = n * d - k * (n * D)
      <3>1. r = d - D * k
        BY <1>8, <1>6
      <3> QED
        BY <3>1, <1>6
    <2> QED
      BY <2>1, <2>2, <1>6
  <1>11. r = 0
    <2> SUFFICES ASSUME r # 0
                 PROVE  FALSE
      OBVIOUS
    <2>1. <<s, r>> \in Quotients
      BY <1>8 DEF Quotients
    <2>2. D <= r
      BY <1>7, <1>10, <2>1
    <2> QED
      BY <1>6, <1>8, <2>2
  <1>12. s = 0
    <2>1. s * d = 0 * d
      BY <1>10, <1>11
    <2> QED
      BY <2>1, Scaled
  <1>13. n = k * P
    BY <1>9, <1>12
  <1>14. d = k * D
    BY <1>6, <1>8, <1>11
  <1>15. k \in Nat \ {0}
    BY <1>6, <1>14
  <1> QED
    BY <1>6, <1>7, <1>13, <1>14, <1>15

\* A remainder of nothing.
LEMMA DividesExactly ==
    ASSUME NEW n \in Int, NEW j \in Nat \ {0}, n % j = 0
    PROVE  \E p \in Int : n = j * p
  <1>1. n \div j \in Int /\ n = j * (n \div j) + (n % j)
    OBVIOUS
  <1>2. n = j * (n \div j)
    BY <1>1
  <1> QED
    BY <1>1, <1>2

\* Fraction gives the quotient of n and d in lowest terms.
LEMMA FractionIsLowest ==
    ASSUME NEW n \in Int, NEW d \in Nat \ {0}
    PROVE  /\ Lowest(Metrics!Fraction(n, d))
           /\ \E k \in Nat \ {0} : /\ n = k * Metrics!Fraction(n, d)[1]
                                   /\ d = k * Metrics!Fraction(n, d)[2]
  <1>1. PICK P \in Int, D \in Nat \ {0}, k \in Nat \ {0} :
              /\ n = k * P /\ d = k * D
              /\ \A q \in Quotients : q[1] * d = n * q[2] => D <= q[2]
    BY LeastDenominator
  <1> DEFINE S == {j \in 1 .. d : n % j = 0 /\ d % j = 0}
  <1>2. k \in S
    <2>1. k <= d
      BY <1>1
    <2>2. (k * P) % k = 0 /\ (k * D) % k = 0
      OBVIOUS
    <2> QED
      BY <1>1, <2>1, <2>2
  <1>3. \A j \in S : j <= k
    <2> TAKE j \in S
    <2>1. j \in Nat \ {0} /\ n % j = 0 /\ d % j = 0
      OBVIOUS
    <2> HIDE DEF S
    <2>2. PICK p \in Int, e \in Int : n = j * p /\ d = j * e
      <3>1. PICK p \in Int : n = j * p
        BY <2>1, DividesExactly
      <3>2. PICK e \in Int : d = j * e
        BY <2>1, DividesExactly
      <3> QED
        BY <3>1, <3>2
    <2>3. e \in Nat \ {0}
      <3>1. CASE e <= 0
        <4>1. e * j <= 0 * j
          BY <2>1, <3>1, Scaled
        <4> QED
          BY <2>1, <2>2, <4>1
      <3> QED
        BY <3>1
    <2>4. p * d = n * e
      <3>1. p * (j * e) = (j * p) * e
        BY <2>1
      <3> QED
        BY <2>2, <3>1
    <2>5. D <= e
      <3>1. <<p, e>> \in Quotients
        BY <2>3 DEF Quotients
      <3>2. <<p, e>>[1] * d = n * <<p, e>>[2]
        BY <2>4
      <3> QED
        BY <1>1, <3>1, <3>2
    <2>6. D * j <= e * j
      BY <2>1, <2>3, <2>5, Scaled
    <2>7. j * D <= k * D
      BY <1>1, <2>1, <2>2, <2>6
    <2> QED
      BY <1>1, <2>1, <2>7, Scaled
  <1>4. Metrics!Max(S) = k
    <2>1. S \subseteq Int
      OBVIOUS
    <2>2. Metrics!Max(S) = CHOOSE x \in S : \A y \in S : x >= y
      BY DEF Metrics!Max
    <2> HIDE DEF S
    <2>3. \A x \in S : (\A y \in S : x >= y) <=> x = k
      BY <1>2, <1>3, <2>1
    <2> QED
      BY <1>2, <2>2, <2>3
  <1>5. Metrics!Fraction(n, d) = <<n \div k, d \div k>>
    BY <1>4 DEF Metrics!Fraction
  <1>6. n \div k = P /\ d \div k = D
    <2>1. (k * P) \div k = P /\ (k * D) \div k = D
      OBVIOUS
    <2> QED
      BY <1>1, <2>1
  <1>7. Lowest(<<P, D>>)
    <2>1. <<P, D>> \in Quotients
      BY DEF Quotients
    <2>2. ASSUME NEW a \in Int, NEW b \in Nat \ {0}, P * b = a * D
          PROVE  D <= b
      <3>1. a * d = n * b
        BY <1>1, <2>2
      <3>2. <<a, b>> \in Quotients
        BY DEF Quotients
      <3> QED
        BY <1>1, <3>1, <3>2
    <2> QED
      BY <2>1, <2>2 DEF Lowest, Alike, Quotients
  <1>8. Metrics!Fraction(n, d) = <<P, D>>
    BY <1>5, <1>6
  <1>9. <<P, D>>[1] = P /\ <<P, D>>[2] = D
    OBVIOUS
  <1> QED
    BY <1>1, <1>7, <1>8, <1>9

-----------------------------------------------------------------------------
(* Medians by rank *)

\* Finitely many quotients, at numbered places.
Sample(s) ==
    /\ IsFiniteSet(DOMAIN s) /\ DOMAIN s \subseteq Int
    /\ \A k \in DOMAIN s : s[k] \in Quotients

\* Equal values rank as they came, so a sample has one order.
LEMMA SampleIsOrdered ==
    ASSUME NEW s, Sample(s)
    PROVE  StrictlyOrders(Metrics!RanksBefore(s), DOMAIN s)
  <1> DEFINE L(j, k) == Metrics!Less(s[j], s[k])
             R(j, k) == L(j, k) \/ (j < k /\ ~ L(k, j))
  <1>1. \A j, k \in DOMAIN s : <<j, k>> \in Metrics!RanksBefore(s) <=> R(j, k)
    BY DEF Metrics!RanksBefore
  <1>2. \A j, k \in DOMAIN s : L(j, k) \in BOOLEAN /\ ~ (L(j, k) /\ L(k, j))
    <2> TAKE j, k \in DOMAIN s
    <2>1. s[j] \in Quotients /\ s[k] \in Quotients
      BY DEF Sample
    <2>2. s[j][1] * s[k][2] \in Int /\ s[k][1] * s[j][2] \in Int
      BY <2>1 DEF Quotients
    <2> QED
      BY <2>1, <2>2, LessIs
  <1>3. \A j, k, l \in DOMAIN s : ~ L(k, j) /\ ~ L(l, k) => ~ L(l, j)
    BY LessIsWeak DEF Sample
  <1>4. \A j \in DOMAIN s : j \in Int
    BY DEF Sample
  <1> HIDE DEF L
  <1>5. \A j \in DOMAIN s : ~ R(j, j)
    BY <1>2, <1>4
  <1>6. \A j, k \in DOMAIN s : j # k => R(j, k) \/ R(k, j)
    BY <1>2, <1>4
  <1>7. ASSUME NEW j \in DOMAIN s, NEW k \in DOMAIN s, NEW l \in DOMAIN s, R(j, k), R(k, l)
        PROVE  R(j, l)
    <2>1. ~ L(k, j) /\ ~ L(l, k) /\ ~ L(l, j)
      BY <1>2, <1>3, <1>7
    <2>2. CASE L(j, k)
      BY <1>3, <2>1, <2>2
    <2>3. CASE L(k, l)
      BY <1>3, <2>1, <2>3
    <2>4. CASE j < k /\ k < l
      <3>1. j < l
        BY <1>4, <2>4
      <3> QED
        BY <2>1, <3>1
    <2> QED
      BY <1>7, <2>2, <2>3, <2>4
  <1> HIDE DEF R
  <1> QED
    BY <1>1, <1>5, <1>6, <1>7, Zenon DEF StrictlyOrders

\* The places of values less than q, and of those not greater.
Under(s, q)  == {k \in DOMAIN s : Metrics!Less(s[k], q)}
UpTo(s, q)   == {k \in DOMAIN s : ~ Metrics!Less(q, s[k])}

\* The value of rank k.
ValueAt(s, k) == s[Metrics!Ranked(DOMAIN s, Metrics!RanksBefore(s))[k]]

\* Fewer than k values are less than the one of rank k, at least k are not
\* greater.
LEMMA CountsAtRank ==
    ASSUME NEW s, Sample(s), NEW k \in 1 .. Cardinality(DOMAIN s)
    PROVE  /\ ValueAt(s, k) \in Quotients
           /\ \E x \in DOMAIN s : ValueAt(s, k) = s[x]
           /\ Cardinality(Under(s, ValueAt(s, k))) < k
           /\ Cardinality(UpTo(s, ValueAt(s, k))) >= k
  <1>1. PICK n \in Nat : n = Cardinality(DOMAIN s)
    BY FS_CardinalityType DEF Sample
  <1>2. PICK R : R = Metrics!RanksBefore(s)
    OBVIOUS
  <1>3. PICK x : x = Metrics!Ranked(DOMAIN s, R)[k]
    OBVIOUS
  <1>4. StrictlyOrders(R, DOMAIN s) /\ IsFiniteSet(DOMAIN s)
    BY <1>2, SampleIsOrdered DEF Sample
  <1>5. Metrics!Ranked(DOMAIN s, R) \in Bijection(1 .. n, DOMAIN s)
    BY <1>1, <1>4, RankedIs
  <1>6. x \in DOMAIN s
    BY <1>1, <1>3, <1>5 DEF Bijection, Injection
  <1>7. PICK B : B = Below(DOMAIN s, R, x)
    OBVIOUS
  <1>8. Cardinality(B) = k - 1 /\ IsFiniteSet(B) /\ B \subseteq DOMAIN s /\ x \notin B
    <2>1. Cardinality(B) = k - 1
      BY <1>3, <1>4, <1>7, RankedIs
    <2>2. IsFiniteSet(B)
      BY <1>4, <1>6, <1>7, RanksAreTaken
    <2>3. B \subseteq DOMAIN s /\ x \notin B
      BY <1>4, <1>6, <1>7 DEF Below, StrictlyOrders
    <2> QED
      BY <2>1, <2>2, <2>3
  <1>9. ValueAt(s, k) = s[x] /\ s[x] \in Quotients
    BY <1>2, <1>3, <1>6 DEF ValueAt, Sample
  <1>10. \A y \in DOMAIN s : y \in B <=> \/ Metrics!Less(s[y], s[x])
                                         \/ y < x /\ ~ Metrics!Less(s[x], s[y])
    BY <1>2, <1>6, <1>7 DEF Below, Metrics!RanksBefore
  <1>11. /\ ~ Metrics!Less(s[x], s[x])
         /\ \A y \in DOMAIN s : Metrics!Less(s[y], s[x]) => ~ Metrics!Less(s[x], s[y])
    <2>1. \A y \in DOMAIN s : /\ s[y] \in Quotients
                              /\ s[y][1] * s[x][2] \in Int /\ s[x][1] * s[y][2] \in Int
      BY <1>6 DEF Sample, Quotients
    <2>2. \A y \in DOMAIN s : ~ (Metrics!Less(s[y], s[x]) /\ Metrics!Less(s[x], s[y]))
      <3> TAKE y \in DOMAIN s
      <3> QED
        BY <1>9, <2>1, LessIs
    <2> QED
      BY <1>6, <2>2
  <1>12. Cardinality(Under(s, s[x])) < k
    <2>1. PICK U : U = Under(s, s[x])
      OBVIOUS
    <2>2. U \in SUBSET B
      BY <1>10, <2>1 DEF Under
    <2>3. IsFiniteSet(U) /\ Cardinality(U) <= Cardinality(B)
      BY <1>8, <2>2, FS_Subset
    <2>4. Cardinality(U) \in Nat
      BY <2>3, FS_CardinalityType
    <2> QED
      BY <1>8, <2>1, <2>3, <2>4
  <1>13. Cardinality(UpTo(s, s[x])) >= k
    <2>1. PICK U : U = UpTo(s, s[x])
      OBVIOUS
    <2>2. PICK C : C = B \union {x}
      OBVIOUS
    <2>3. C \in SUBSET U
      BY <1>6, <1>8, <1>10, <1>11, <2>1, <2>2 DEF UpTo
    <2>4. Cardinality(C) = k
      <3>1. Cardinality(C) = Cardinality(B) + 1
        BY <1>8, <2>2, FS_AddElement
      <3> QED
        BY <1>1, <1>8, <3>1
    <2>5. IsFiniteSet(U)
      <3>1. U \in SUBSET DOMAIN s
        BY <2>1 DEF UpTo
      <3> QED
        BY <1>4, <3>1, FS_Subset
    <2>6. Cardinality(C) <= Cardinality(U) /\ Cardinality(U) \in Nat
      BY <2>3, <2>5, FS_Subset, FS_CardinalityType
    <2> QED
      BY <2>1, <2>4, <2>6
  <1> QED
    BY <1>6, <1>9, <1>12, <1>13

\* r holds the values of s at other places.
Rearranges(r, s) ==
    \E place \in Bijection(DOMAIN r, DOMAIN s) : \A k \in DOMAIN r : r[k] = s[place[k]]

\* As many places hold a member of A as A has members.
LEMMA PlacesOf ==
    ASSUME NEW D, NEW S, IsFiniteSet(S), NEW f \in Bijection(D, S), NEW A \in SUBSET S
    PROVE  Cardinality({k \in D : f[k] \in A}) = Cardinality(A)
  <1>1. PICK B : B = {k \in D : f[k] \in A}
    OBVIOUS
  <1>2. /\ f \in [D -> S]
        /\ \A j, k \in D : f[j] = f[k] => j = k
        /\ \A x \in S : \E k \in D : f[k] = x
    BY Zenon DEF Bijection, Injection, Surjection, IsInjective
  <1> DEFINE g == [k \in B |-> f[k]]
  <1>3. g \in [B -> A]
    BY <1>1, <1>2
  <1>4. \A x \in A : \E k \in B : g[k] = x
    BY <1>1, <1>2
  <1>5. \A j, k \in B : g[j] = g[k] => j = k
    BY <1>1, <1>2
  <1> HIDE DEF g
  <1>6. g \in Surjection(B, A) /\ g \in Injection(B, A)
    BY <1>3, <1>4, <1>5, Zenon DEF Surjection, Injection, IsInjective
  <1>7. IsFiniteSet(A)
    BY FS_Subset
  <1> QED
    BY <1>1, <1>6, <1>7, FS_Injection

\* A rearrangement has as many values on each side of a quotient.
LEMMA RearrangedCounts ==
    ASSUME NEW s, Sample(s), NEW r, Rearranges(r, s), NEW q
    PROVE  /\ Cardinality(Under(r, q)) = Cardinality(Under(s, q))
           /\ Cardinality(UpTo(r, q)) = Cardinality(UpTo(s, q))
  <1>1. PICK place \in Bijection(DOMAIN r, DOMAIN s) : \A k \in DOMAIN r : r[k] = s[place[k]]
    BY DEF Rearranges
  <1>2. \A k \in DOMAIN r : place[k] \in DOMAIN s
    BY DEF Bijection, Injection
  <1>3. /\ Under(r, q) = {k \in DOMAIN r : place[k] \in Under(s, q)}
        /\ UpTo(r, q) = {k \in DOMAIN r : place[k] \in UpTo(s, q)}
    BY <1>1, <1>2 DEF Under, UpTo
  <1>4. Under(s, q) \in SUBSET DOMAIN s /\ UpTo(s, q) \in SUBSET DOMAIN s /\ IsFiniteSet(DOMAIN s)
    BY DEF Under, UpTo, Sample
  <1> QED
    BY <1>3, <1>4, PlacesOf

\* Of two samples with the same counts the values of one rank are alike: that of
\* s is not less than that of r.
LEMMA RankNotLess ==
    ASSUME NEW s, Sample(s), NEW r, Sample(r),
           Cardinality(DOMAIN r) = Cardinality(DOMAIN s),
           \A q \in Quotients : Cardinality(UpTo(r, q)) = Cardinality(UpTo(s, q)),
           NEW k \in 1 .. Cardinality(DOMAIN s)
    PROVE  ~ Metrics!Less(ValueAt(s, k), ValueAt(r, k))
  <1> SUFFICES ASSUME Metrics!Less(ValueAt(s, k), ValueAt(r, k))
               PROVE  FALSE
    OBVIOUS
  <1>1. PICK v \in Quotients : v = ValueAt(s, k)
    BY CountsAtRank
  <1>2. PICK w \in Quotients : w = ValueAt(r, k)
    BY CountsAtRank
  <1>3. PICK A : A = UpTo(r, v)
    OBVIOUS
  <1>4. PICK B : B = Under(r, w)
    OBVIOUS
  <1>5. A \in SUBSET B
    <2> SUFFICES ASSUME NEW y \in DOMAIN r, ~ Metrics!Less(v, r[y]), ~ Metrics!Less(r[y], w)
                 PROVE  FALSE
      BY <1>3, <1>4 DEF UpTo, Under
    <2>1. r[y] \in Quotients
      BY DEF Sample
    <2>2. ~ Metrics!Less(v, w)
      BY <1>1, <1>2, <2>1, LessIsWeak
    <2> QED
      BY <1>1, <1>2, <2>2
  <1>6. IsFiniteSet(B)
    <2>1. B \in SUBSET DOMAIN r
      BY <1>4 DEF Under
    <2> QED
      BY <2>1, FS_Subset DEF Sample
  <1>7. Cardinality(A) <= Cardinality(B) /\ Cardinality(A) \in Nat /\ Cardinality(B) \in Nat
    BY <1>5, <1>6, FS_Subset, FS_CardinalityType
  <1>8. Cardinality(A) >= k
    BY <1>1, <1>3, CountsAtRank
  <1>9. Cardinality(B) < k
    BY <1>2, <1>4, CountsAtRank
  <1> QED
    BY <1>7, <1>8, <1>9

\* The values a sample holds are in lowest terms.
Reduced(s) == \A k \in DOMAIN s : Lowest(s[k])

\* Rearranging a sample changes no value of any rank.
LEMMA RearrangedRanks ==
    ASSUME NEW s, Sample(s), Reduced(s), NEW r, Rearranges(r, s)
    PROVE  /\ Cardinality(DOMAIN r) = Cardinality(DOMAIN s)
           /\ IsFiniteSet(DOMAIN r) /\ DOMAIN r \subseteq Int =>
                \A k \in 1 .. Cardinality(DOMAIN s) : ValueAt(r, k) = ValueAt(s, k)
  <1>1. PICK place \in Bijection(DOMAIN r, DOMAIN s) : \A k \in DOMAIN r : r[k] = s[place[k]]
    BY DEF Rearranges
  <1>2. Cardinality(DOMAIN r) = Cardinality(DOMAIN s)
    <2>1. place \in Injection(DOMAIN r, DOMAIN s) /\ place \in Surjection(DOMAIN r, DOMAIN s)
      BY DEF Bijection
    <2> QED
      BY <2>1, FS_Injection DEF Sample
  <1>3. ASSUME IsFiniteSet(DOMAIN r), DOMAIN r \subseteq Int,
               NEW k \in 1 .. Cardinality(DOMAIN s)
        PROVE  ValueAt(r, k) = ValueAt(s, k)
    <2>1. \A j \in DOMAIN r : place[j] \in DOMAIN s
      BY DEF Bijection, Injection
    <2>2. Sample(r) /\ Reduced(r)
      BY <1>1, <1>3, <2>1 DEF Sample, Reduced
    <2>3. \A q \in Quotients : Cardinality(UpTo(r, q)) = Cardinality(UpTo(s, q))
      BY RearrangedCounts
    <2>4. ~ Metrics!Less(ValueAt(s, k), ValueAt(r, k))
      BY <1>2, <2>2, <2>3, RankNotLess
    <2>5. ~ Metrics!Less(ValueAt(r, k), ValueAt(s, k))
      BY <1>2, <2>2, <2>3, RankNotLess
    <2>6. PICK v : v = ValueAt(s, k)
      OBVIOUS
    <2>7. PICK w : w = ValueAt(r, k)
      OBVIOUS
    <2>8. v \in Quotients /\ Lowest(v)
      BY <2>6, CountsAtRank DEF Reduced
    <2>9. w \in Quotients /\ Lowest(w)
      BY <1>2, <2>2, <2>7, CountsAtRank DEF Reduced
    <2>10. Alike(v, w)
      <3>1. v[1] * w[2] <= w[1] * v[2] /\ w[1] * v[2] <= v[1] * w[2]
        BY <2>4, <2>5, <2>6, <2>7, <2>8, <2>9, LessIs
      <3>2. v[1] * w[2] \in Int /\ w[1] * v[2] \in Int
        BY <2>8, <2>9 DEF Quotients
      <3> QED
        BY <3>1, <3>2 DEF Alike
    <2> QED
      BY <2>6, <2>7, <2>8, <2>9, <2>10, LowestIsUnique
  <1> QED
    BY <1>2, <1>3

\* The places a median averages.
LEMMA MiddleIsPlace ==
    ASSUME NEW n \in Nat \ {0}
    PROVE  /\ Metrics!Middle(n)[1] \in 1 .. n /\ Metrics!Middle(n)[2] \in 1 .. n
           /\ 2 * Metrics!Middle(n)[1] >= n /\ 2 * (Metrics!Middle(n)[1] - 1) < n
           /\ 2 * (n - Metrics!Middle(n)[2]) < n /\ 2 * (n - Metrics!Middle(n)[2] + 1) >= n
  <1>1. PICK a \in Int : a = (n + 1) \div 2
    OBVIOUS
  <1>2. PICK b \in Int : b = n \div 2 + 1
    OBVIOUS
  <1>3. Metrics!Middle(n)[1] = a /\ Metrics!Middle(n)[2] = b
    BY <1>1, <1>2 DEF Metrics!Middle
  <1>4. /\ a \in 1 .. n /\ 2 * a >= n /\ 2 * (a - 1) < n
        /\ b \in 1 .. n /\ 2 * (n - b) < n /\ 2 * (n - b + 1) >= n
    BY <1>1, <1>2
  <1> QED
    BY <1>3, <1>4

\* What a median is, by rank.
LEMMA MedianIs ==
    ASSUME NEW s, IsFiniteSet(DOMAIN s), NEW n, n = Cardinality(DOMAIN s)
    PROVE  Metrics!Median(s) =
              [usable |-> n,
               value  |-> IF n < MinimumSampleCount THEN Null
                          ELSE <<ValueAt(s, Metrics!Middle(n)[1]),
                                 ValueAt(s, Metrics!Middle(n)[2])>>]
  <1>1. Metrics!Cardinality(DOMAIN s) = n
    BY SameCardinality
  <1>2. Metrics!Median(s) =
          [usable |-> Metrics!Cardinality(DOMAIN s),
           value  |-> IF Metrics!Cardinality(DOMAIN s) < MinimumSampleCount THEN Null
                      ELSE <<ValueAt(s, Metrics!Middle(Metrics!Cardinality(DOMAIN s))[1]),
                             ValueAt(s, Metrics!Middle(Metrics!Cardinality(DOMAIN s))[2])>>]
    BY Zenon DEF Metrics!Median, ValueAt
  <1> QED
    BY <1>1, <1>2, Zenon

\* The median of reduced values does not depend on their places.
THEOREM MedianReadsABag ==
    ASSUME NEW s, Sample(s), Reduced(s),
           NEW r, IsFiniteSet(DOMAIN r), DOMAIN r \subseteq Int, Rearranges(r, s)
    PROVE  Metrics!Median(r) = Metrics!Median(s)
  <1>1. PICK n \in Nat : n = Cardinality(DOMAIN s)
    BY FS_CardinalityType DEF Sample
  <1>2. n = Cardinality(DOMAIN r) /\ IsFiniteSet(DOMAIN s)
    BY <1>1, RearrangedRanks DEF Sample
  <1>3. \A k \in 1 .. n : ValueAt(r, k) = ValueAt(s, k)
    BY <1>1, RearrangedRanks
  <1>4. CASE n < MinimumSampleCount
    BY <1>1, <1>2, <1>4, MedianIs
  <1>5. CASE ~ (n < MinimumSampleCount)
    <2>1. n \in Nat \ {0}
      BY <1>5, MinimumIsPositive
    <2>2. PICK a \in 1 .. n : a = Metrics!Middle(n)[1]
      BY <2>1, MiddleIsPlace
    <2>3. PICK b \in 1 .. n : b = Metrics!Middle(n)[2]
      BY <2>1, MiddleIsPlace
    <2>4. ValueAt(r, a) = ValueAt(s, a) /\ ValueAt(r, b) = ValueAt(s, b)
      BY <1>3
    <2>5. Metrics!Median(s) = [usable |-> n, value |-> <<ValueAt(s, a), ValueAt(s, b)>>]
      BY <1>1, <1>2, <1>5, <2>2, <2>3, MedianIs
    <2>6. Metrics!Median(r) = [usable |-> n, value |-> <<ValueAt(r, a), ValueAt(r, b)>>]
      BY <1>1, <1>2, <1>5, <2>2, <2>3, MedianIs
    <2> QED
      BY <2>4, <2>5, <2>6, Zenon
  <1> QED
    BY <1>4, <1>5

-----------------------------------------------------------------------------
(* The order of the deals *)

\* A price and a discount are quotients in lowest terms.
LEMMA DealValuesAreLowest ==
    ASSUME NEW row \in Deal
    PROVE  /\ Lowest(<<row.price, 1>>)
           /\ row.initial # Null => Lowest(Metrics!Discount(row))
  <1>1. PICK p \in Nat \ {0} : p = row.price
    BY DEF Deal
  <1>2. Lowest(<<p, 1>>)
    <2>1. <<p, 1>> \in Quotients /\ \A q \in Quotients : 1 <= q[2]
      BY DEF Quotients
    <2> QED
      BY <2>1 DEF Lowest
  <1>3. ASSUME row.initial # Null
        PROVE  Lowest(Metrics!Discount(row))
    <2>1. PICK i \in Nat \ {0} : i = row.initial
      BY <1>3 DEF Deal
    <2>2. i - p \in Int
      BY <1>1
    <2> QED
      BY <1>1, <2>1, <2>2, FractionIsLowest DEF Metrics!Discount
  <1> QED
    BY <1>1, <1>2, <1>3

\* A column of a rearranged report is rearranged too, at the places that carry it.
LEMMA ColumnRearranged ==
    ASSUME NEW S, NEW T, NEW place \in Bijection(T, S), NEW v, NEW w,
           DOMAIN v \subseteq S, DOMAIN w \subseteq T,
           \A k \in T : k \in DOMAIN w <=> place[k] \in DOMAIN v,
           \A k \in DOMAIN w : w[k] = v[place[k]]
    PROVE  Rearranges(w, v)
  <1>1. /\ place \in [T -> S]
        /\ \A j, k \in T : place[j] = place[k] => j = k
        /\ \A x \in S : \E k \in T : place[k] = x
    BY Zenon DEF Bijection, Injection, Surjection, IsInjective
  <1> DEFINE f == [k \in DOMAIN w |-> place[k]]
  <1>2. f \in [DOMAIN w -> DOMAIN v]
    BY <1>1
  <1>3. \A x \in DOMAIN v : \E k \in DOMAIN w : f[k] = x
    BY <1>1
  <1>4. \A j, k \in DOMAIN w : f[j] = f[k] => j = k
    BY <1>1
  <1>5. \A k \in DOMAIN w : w[k] = v[f[k]]
    OBVIOUS
  <1> HIDE DEF f
  <1>6. f \in Bijection(DOMAIN w, DOMAIN v)
    BY <1>2, <1>3, <1>4, Zenon DEF Bijection, Surjection, Injection, IsInjective
  <1> QED
    BY <1>5, <1>6, Zenon DEF Rearranges

\* The report on transactions depends on which it is given, and how often, and
\* not on their order.
THEOREM DealReportReadsABag ==
    ASSUME NEW s \in Seq(Deal), NEW r \in Seq(Deal), Rearranges(r, s), NEW c
    PROVE  Metrics!TransactionMetrics(r, c) = Metrics!TransactionMetrics(s, c)
  <1>1. PICK place \in Bijection(DOMAIN r, DOMAIN s) : \A k \in DOMAIN r : r[k] = s[place[k]]
    BY DEF Rearranges
  <1>2. /\ place \in [DOMAIN r -> DOMAIN s]
        /\ \A x \in DOMAIN s : \E k \in DOMAIN r : place[k] = x
    BY <1>1 DEF Bijection, Injection, Surjection
  <1>3. PICK m \in Nat : m = Len(s) /\ DOMAIN s = 1 .. m
    OBVIOUS
  <1>4. PICK n \in Nat : n = Len(r) /\ DOMAIN r = 1 .. n
    OBVIOUS
  <1>5. /\ IsFiniteSet(DOMAIN s) /\ Cardinality(DOMAIN s) = m
        /\ IsFiniteSet(DOMAIN r) /\ Cardinality(DOMAIN r) = n
    <2>1. \A i \in Nat : IsFiniteSet(1 .. i) /\ Cardinality(1 .. i) = i
      <3> TAKE i \in Nat
      <3>1. 1 \in Int /\ i \in Int /\ (IF 1 > i THEN 0 ELSE i - 1 + 1) = i
        OBVIOUS
      <3> QED
        BY <3>1, FS_Interval
    <2> QED
      BY <1>3, <1>4, <2>1
  <1>6. Len(r) = Len(s)
    <2>1. place \in Injection(DOMAIN r, DOMAIN s) /\ place \in Surjection(DOMAIN r, DOMAIN s)
      BY <1>1 DEF Bijection
    <2> QED
      BY <1>3, <1>4, <1>5, <2>1, FS_Injection
  <1>7. /\ \A k \in DOMAIN r : \E x \in DOMAIN s : r[k] = s[x]
        /\ \A x \in DOMAIN s : \E k \in DOMAIN r : r[k] = s[x]
    BY <1>1, <1>2
  <1>8. /\ {r[k].date : k \in DOMAIN r} = {s[k].date : k \in DOMAIN s}
        /\ {r[k].id : k \in DOMAIN r} = {s[k].id : k \in DOMAIN s}
    <2>1. /\ \A k \in DOMAIN r : r[k].date \in {s[x].date : x \in DOMAIN s}
          /\ \A k \in DOMAIN r : r[k].id \in {s[x].id : x \in DOMAIN s}
      BY <1>7
    <2>2. /\ \A x \in DOMAIN s : s[x].date \in {r[k].date : k \in DOMAIN r}
          /\ \A x \in DOMAIN s : s[x].id \in {r[k].id : k \in DOMAIN r}
      BY <1>7
    <2> QED
      BY <2>1, <2>2
  <1>9. r = <<>> <=> s = <<>>
    BY <1>6
  <1>10. \A k \in DOMAIN s : s[k] \in Deal
    OBVIOUS
  <1>11. DOMAIN s \subseteq Int /\ DOMAIN r \subseteq Int
    BY <1>3, <1>4
  <1> DEFINE Paid(q) == [k \in DOMAIN q |-> <<q[k].price, 1>>]
             Asked(q) == {k \in DOMAIN q : q[k].initial # Null}
             Discounts(q) == [k \in Asked(q) |-> Metrics!Discount(q[k])]
  <1>12. Metrics!Median(Paid(r)) = Metrics!Median(Paid(s))
    <2>1. PICK v : v = Paid(s)
      OBVIOUS
    <2>2. PICK w : w = Paid(r)
      OBVIOUS
    <2>3. \A k \in DOMAIN s : v[k] = <<s[k].price, 1>> /\ Lowest(v[k])
      BY <1>10, <2>1, DealValuesAreLowest
    <2>4. v \in [DOMAIN s -> Quotients]
      BY <2>1, <2>3 DEF Lowest
    <2>5. \A k \in DOMAIN r : w[k] = v[place[k]]
      BY <1>1, <1>2, <2>1, <2>2
    <2>6. w \in [DOMAIN r -> Quotients]
      BY <1>2, <2>2, <2>4, <2>5
    <2>7. Rearranges(w, v)
      <3>1. /\ DOMAIN v = DOMAIN s /\ DOMAIN w = DOMAIN r
            /\ \A k \in DOMAIN r : k \in DOMAIN w <=> place[k] \in DOMAIN v
        BY <1>2, <2>4, <2>6
      <3>2. \A k \in DOMAIN w : w[k] = v[place[k]]
        BY <2>5, <3>1
      <3> QED
        BY <1>1, <3>1, <3>2, ColumnRearranged
    <2>8. Sample(v) /\ Reduced(v)
      BY <1>5, <1>11, <2>3, <2>4 DEF Sample, Reduced
    <2>9. IsFiniteSet(DOMAIN w) /\ DOMAIN w \subseteq Int
      BY <1>5, <1>11, <2>6
    <2> QED
      BY <2>1, <2>2, <2>7, <2>8, <2>9, MedianReadsABag
  <1>13. Metrics!Median(Discounts(r)) = Metrics!Median(Discounts(s))
    <2>1. PICK v : v = Discounts(s)
      OBVIOUS
    <2>2. PICK w : w = Discounts(r)
      OBVIOUS
    <2>3. DOMAIN v = Asked(s) /\ DOMAIN w = Asked(r)
      BY <2>1, <2>2
    <2>4. \A k \in Asked(s) : v[k] = Metrics!Discount(s[k]) /\ Lowest(v[k])
      BY <1>10, <2>1, DealValuesAreLowest
    <2>5. v \in [Asked(s) -> Quotients]
      BY <2>1, <2>4 DEF Lowest
    <2>6. \A k \in DOMAIN r : k \in Asked(r) <=> place[k] \in Asked(s)
      BY <1>1, <1>2
    <2>7. \A k \in Asked(r) : w[k] = v[place[k]]
      BY <1>1, <2>1, <2>2, <2>6
    <2>8. w \in [Asked(r) -> Quotients]
      BY <2>2, <2>5, <2>6, <2>7
    <2>9. Asked(s) \in SUBSET DOMAIN s /\ Asked(r) \in SUBSET DOMAIN r
      OBVIOUS
    <2>10. Sample(v) /\ Reduced(v)
      <3>1. IsFiniteSet(Asked(s))
        BY <1>5, <2>9, FS_Subset
      <3> QED
        BY <1>11, <2>3, <2>4, <2>5, <2>9, <3>1 DEF Sample, Reduced
    <2>11. IsFiniteSet(DOMAIN w) /\ DOMAIN w \subseteq Int
      <3>1. IsFiniteSet(Asked(r))
        BY <1>5, <2>9, FS_Subset
      <3> QED
        BY <1>11, <2>3, <2>9, <3>1
    <2> HIDE DEF Asked
    <2>12. Rearranges(w, v)
      <3>1. \A k \in DOMAIN r : k \in DOMAIN w <=> place[k] \in DOMAIN v
        BY <2>3, <2>6
      <3>2. \A k \in DOMAIN w : w[k] = v[place[k]]
        BY <2>3, <2>7
      <3>3. DOMAIN v \subseteq DOMAIN s /\ DOMAIN w \subseteq DOMAIN r
        BY <2>3, <2>9
      <3> QED
        BY <1>1, <3>1, <3>2, <3>3, ColumnRearranged
    <2> QED
      BY <2>1, <2>2, <2>10, <2>11, <2>12, MedianReadsABag
  <1> DEFINE Report(q, dates, ids) ==
                [community   |-> c,
                 deals       |-> Len(q),
                 latest_date |-> IF q = <<>> THEN Null ELSE Metrics!Max(dates),
                 deal_price  |-> Metrics!Median(Paid(q)),
                 discount    |-> Metrics!Median(Discounts(q)),
                 ids         |-> ids]
  <1>14. \A q \in {r, s} : Metrics!TransactionMetrics(q, c)
                              = Report(q, {q[k].date : k \in DOMAIN q}, {q[k].id : k \in DOMAIN q})
    BY Zenon DEF Metrics!TransactionMetrics
  <1> HIDE DEF Paid, Asked, Discounts
  <1> QED
    BY <1>6, <1>8, <1>9, <1>12, <1>13, <1>14, Zenon

\* Reversing what is read changes no report.
LEMMA ReversedDeals ==
    ASSUME NEW s \in Seq(Deal)
    PROVE  Reverse(s) \in Seq(Deal) /\ Rearranges(Reverse(s), s)
  <1>1. PICK n \in Nat : n = Len(s) /\ DOMAIN s = 1 .. n
    OBVIOUS
  <1>2. PICK r : r = Reverse(s)
    OBVIOUS
  <1>3. r = [i \in 1 .. n |-> s[n - i + 1]]
    BY <1>1, <1>2 DEF Reverse
  <1> DEFINE f == [i \in 1 .. n |-> n - i + 1]
  <1>4. f \in [1 .. n -> 1 .. n]
    OBVIOUS
  <1>5. \A i, j \in 1 .. n : f[i] = f[j] => i = j
    OBVIOUS
  <1>6. \A x \in 1 .. n : \E i \in 1 .. n : f[i] = x
    <2> TAKE x \in 1 .. n
    <2>1. n - x + 1 \in 1 .. n /\ f[n - x + 1] = x
      OBVIOUS
    <2> HIDE DEF f
    <2> QED
      BY <2>1
  <1>7. \A i \in 1 .. n : r[i] = s[f[i]]
    BY <1>3
  <1>8. r \in [1 .. n -> Deal]
    <2>1. \A i \in 1 .. n : n - i + 1 \in 1 .. n
      OBVIOUS
    <2>2. \A i \in 1 .. n : s[n - i + 1] \in Deal
      BY <1>1, <2>1
    <2> QED
      BY <1>3, <2>2
  <1> HIDE DEF f
  <1>9. f \in Bijection(1 .. n, 1 .. n)
    BY <1>4, <1>5, <1>6, Zenon DEF Bijection, Surjection, Injection, IsInjective
  <1>10. DOMAIN r = 1 .. n
    BY <1>3
  <1>11. Rearranges(r, s)
    BY <1>1, <1>7, <1>9, <1>10, Zenon DEF Rearranges
  <1>12. r \in Seq(Deal)
    BY <1>8
  <1> QED
    BY <1>2, <1>11, <1>12

\* What is read depends on the tables alone: the order in which the rows arrive,
\* and the repetition of snapshots, change neither report.
THEOREM OrderNeverMatters == Spec => []OrderIsIrrelevant
  <1>1. ASSUME NEW d \in [DealIds -> Deal \union {Null}], NEW c
        PROVE  TransactionsOf(d, c, Unbounded) \in Seq(Deal)
    <2>1. PICK s : s = TransactionsOf(d, c, Unbounded)
      OBVIOUS
    <2>2. PICK held : /\ Orders(held, DealsIn(d, c, Unbounded))
                      /\ DOMAIN s = 1 .. Len(held)
                      /\ \A k \in 1 .. Len(held) : s[k] = d[held[k]]
      BY <2>1, ReadDeals
    <2>3. Len(held) \in Nat /\ \A k \in 1 .. Len(held) : held[k] \in DealsIn(d, c, Unbounded)
      BY <2>2 DEF Orders
    <2>4. \A k \in 1 .. Len(held) : s[k] \in Deal
      BY <2>2, <2>3 DEF DealsIn
    <2>5. s = [k \in DOMAIN s |-> s[k]]
      BY <2>1 DEF TransactionsOf
    <2>6. s \in [1 .. Len(held) -> Deal]
      BY <2>2, <2>4, <2>5
    <2> QED
      BY <2>1, <2>3, <2>6
  <1>2. StoreInv => DealOrderIsIrrelevant
    <2> SUFFICES ASSUME StoreInv, NEW c \in Communities
                 PROVE  Metrics!TransactionMetrics(Reverse(TransactionsOf(deal, c, Unbounded)), c)
                            = DealMetrics(deal, c, Unbounded)
      BY DEF DealOrderIsIrrelevant
    <2>1. deal \in [DealIds -> Deal \union {Null}]
      BY DEF StoreInv, TypeInv
    <2>2. PICK s \in Seq(Deal) : s = TransactionsOf(deal, c, Unbounded)
      BY <1>1, <2>1
    <2>3. Metrics!TransactionMetrics(Reverse(s), c) = Metrics!TransactionMetrics(s, c)
      BY ReversedDeals, DealReportReadsABag
    <2> QED
      BY <2>2, <2>3 DEF DealMetrics
  <1> QED
    BY <1>2, StoreStaysSound, ListingOrderNeverMatters, PTL DEF OrderIsIrrelevant

-----------------------------------------------------------------------------
(* The report in terms of the tables *)

\* The keys a read can order are finitely many.
LEMMA KeysAreFinite ==
    /\ IsFiniteSet(ListingIds) /\ IsFiniteSet(DealIds)
    /\ ListingIds # {} => IsFiniteSet(Instants)
  <1>1. ASSUME NEW order, NEW S, Orders(order, S)
        PROVE  IsFiniteSet(S)
    <2>1. Len(order) \in Nat /\ order \in Surjection(1 .. Len(order), S)
      BY <1>1 DEF Orders, Surjection, Range
    <2>2. IsFiniteSet(1 .. Len(order))
      BY <2>1, FS_Interval
    <2> QED
      BY <2>1, <2>2, FS_Surjection
  <1>2. IsFiniteSet(ListingIds) /\ IsFiniteSet(DealIds) /\ IsFiniteSet(ListingIds \X Instants)
    BY <1>1, ReadsAreOrdered
  <1>3. ASSUME NEW l \in ListingIds
        PROVE  IsFiniteSet(Instants)
    <2> DEFINE f == [i \in Instants |-> <<l, i>>]
    <2>1. f \in Injection(Instants, ListingIds \X Instants)
      BY DEF Injection, IsInjective
    <2> HIDE DEF f
    <2> QED
      BY <1>2, <2>1, FS_Injection
  <1> QED
    BY <1>2, <1>3

\* The first and the last instant of a history.
LEMMA HistoryEnds ==
    ASSUME NEW h, NEW l \in ListingIds
    PROVE  /\ HistoryOf(h, l) \subseteq Instants /\ IsFiniteSet(HistoryOf(h, l))
           /\ HistoryOf(h, l) # {} =>
                /\ Min(HistoryOf(h, l)) \in HistoryOf(h, l)
                /\ Max(HistoryOf(h, l)) \in HistoryOf(h, l)
                /\ \A i \in HistoryOf(h, l) : i <= Max(HistoryOf(h, l))
                /\ LatestInstant(h, l) = Max(HistoryOf(h, l))
  <1>1. PICK H : H = HistoryOf(h, l)
    OBVIOUS
  <1>2. H \subseteq Instants /\ H \in SUBSET Int
    BY <1>1, InstantsAreOrdered DEF HistoryOf
  <1>3. IsFiniteSet(H)
    BY <1>2, KeysAreFinite, FS_Subset
  <1>4. ASSUME H # {}
        PROVE  /\ Min(H) \in H /\ Max(H) \in H /\ \A i \in H : i <= Max(H)
               /\ LatestInstant(h, l) = Max(H)
    <2>1. PICK m \in H : \A n \in H : n <= m
      BY <1>2, <1>3, <1>4, GreatestExists
    <2>2. PICK k \in H : \A n \in H : k <= n
      BY <1>2, <1>3, <1>4, LeastExists
    <2>3. Max(H) \in H /\ \A n \in H : Max(H) >= n
      <3>1. \A n \in H : m >= n
        BY <1>2, <2>1
      <3> QED
        BY <3>1, Zenon DEF Max
    <2>4. Min(H) \in H
      BY <2>2, Zenon DEF Min
    <2>5. \A n \in H : n <= Max(H)
      BY <1>2, <2>3
    <2>6. LatestInstant(h, l) \in H /\ \A n \in H : n <= LatestInstant(h, l)
      BY <1>1, <2>1, Zenon DEF LatestInstant
    <2>7. LatestInstant(h, l) = Max(H)
      <3>1. LatestInstant(h, l) <= Max(H) /\ Max(H) <= LatestInstant(h, l)
        BY <2>3, <2>5, <2>6
      <3>2. LatestInstant(h, l) \in Int /\ Max(H) \in Int
        BY <1>2, <2>3, <2>6
      <3> QED
        BY <3>1, <3>2
    <2> QED
      BY <2>3, <2>4, <2>5, <2>7
  <1> QED
    BY <1>1, <1>2, <1>3, <1>4

\* What the metrics find in the snapshots read is what the tables hold.
LEMMA ReadHistories ==
    ASSUME NEW t, NEW h, NEW c, NEW l \in ListForCommunity(t, c)
    PROVE  /\ Metrics!SeenAt(SnapshotsOf(t, h, c), l) = HistoryOf(h, l)
           /\ HistoryOf(h, l) # {} =>
                /\ Metrics!Earliest(SnapshotsOf(t, h, c), l)
                      = SnapshotAt(h, <<l, Min(HistoryOf(h, l))>>)
                /\ Metrics!Latest(SnapshotsOf(t, h, c), l)
                      = SnapshotAt(h, <<l, Max(HistoryOf(h, l))>>)
  <1>1. PICK read : read = SnapshotsOf(t, h, c)
    OBVIOUS
  <1>2. PICK points : points = PointsOf(h, ListForCommunity(t, c))
    OBVIOUS
  <1>3. /\ \A k \in DOMAIN read : \E p \in points : read[k] = SnapshotAt(h, p)
        /\ \A p \in points : \E k \in DOMAIN read : read[k] = SnapshotAt(h, p)
    BY <1>1, <1>2, ReadSnapshots
  <1>4. l \in ListingIds
    BY DEF ListForCommunity
  <1>5. \A p \in points : /\ SnapshotAt(h, p).listing = p[1] /\ SnapshotAt(h, p).at = p[2]
                          /\ p[2] \in Instants /\ h[p[1]][p[2]] # Null /\ p = <<p[1], p[2]>>
    BY <1>2 DEF PointsOf, SnapshotAt
  <1>6. \A i \in HistoryOf(h, l) : <<l, i>> \in points
    BY <1>2, <1>4 DEF PointsOf, HistoryOf
  <1>7. \A i \in HistoryOf(h, l) : \E k \in DOMAIN read : read[k] = SnapshotAt(h, <<l, i>>)
    BY <1>3, <1>6
  <1>8. Metrics!SeenAt(read, l) = HistoryOf(h, l)
    <2>1. \A i : i \in Metrics!SeenAt(read, l)
                    <=> \E k \in DOMAIN read : read[k].listing = l /\ read[k].at = i
      BY DEF Metrics!SeenAt
    <2>2. \A i \in HistoryOf(h, l) : i \in Metrics!SeenAt(read, l)
      <3> TAKE i \in HistoryOf(h, l)
      <3>1. PICK k \in DOMAIN read : read[k] = SnapshotAt(h, <<l, i>>)
        BY <1>7
      <3>2. read[k].listing = l /\ read[k].at = i
        BY <3>1 DEF SnapshotAt
      <3> QED
        BY <2>1, <3>2
    <2>3. ASSUME NEW k \in DOMAIN read, read[k].listing = l
          PROVE  read[k].at \in HistoryOf(h, l)
      <3>1. PICK p \in points : read[k] = SnapshotAt(h, p)
        BY <1>3
      <3>2. p[1] = l /\ read[k].at = p[2] /\ p[2] \in Instants /\ h[l][p[2]] # Null
        BY <1>5, <2>3, <3>1
      <3> QED
        BY <3>2 DEF HistoryOf
    <2> QED
      BY <2>1, <2>2, <2>3
  <1>9. ASSUME NEW i \in HistoryOf(h, l)
        PROVE  Metrics!Kept(read, l, i) = SnapshotAt(h, <<l, i>>)
    <2>1. PICK k \in DOMAIN read : read[k] = SnapshotAt(h, <<l, i>>)
      BY <1>7
    <2>2. read[k].listing = l /\ read[k].at = i
      BY <2>1 DEF SnapshotAt
    <2>3. Unambiguous(read)
      BY <1>1, ReadsAreUnambiguous
    <2> QED
      BY <2>1, <2>2, <2>3, KeptIsSupplied
  <1>10. ASSUME HistoryOf(h, l) # {}
         PROVE  /\ Metrics!Earliest(read, l) = SnapshotAt(h, <<l, Min(HistoryOf(h, l))>>)
                /\ Metrics!Latest(read, l) = SnapshotAt(h, <<l, Max(HistoryOf(h, l))>>)
    <2>1. /\ Metrics!Min(HistoryOf(h, l)) = Min(HistoryOf(h, l))
          /\ Metrics!Max(HistoryOf(h, l)) = Max(HistoryOf(h, l))
      BY DEF Metrics!Min, Min, Metrics!Max, Max
    <2>2. Min(HistoryOf(h, l)) \in HistoryOf(h, l) /\ Max(HistoryOf(h, l)) \in HistoryOf(h, l)
      BY <1>4, <1>10, HistoryEnds
    <2> QED
      BY <1>8, <1>9, <2>1, <2>2 DEF Metrics!Earliest, Metrics!Latest
  <1> QED
    BY <1>1, <1>8, <1>10

\* The listings of c that were seen, those seen more than once, and the point of
\* a listing that is its last.
SeenOf(t, h, c)  == {l \in ListForCommunity(t, c) : HistoryOf(h, l) # {}}
TwiceOf(t, h, c) == {l \in ListForCommunity(t, c) : Cardinality(HistoryOf(h, l)) > 1}
FirstPoint(h, l) == h[l][Min(HistoryOf(h, l))]
LastPoint(h, l)  == h[l][Max(HistoryOf(h, l))]
Moved(h, l) ==
    Metrics!Fraction(LastPoint(h, l).price - FirstPoint(h, l).price, FirstPoint(h, l).price)

\* A report in terms of the tables.
IsStockOf(stock, h, held, seen, twice) ==
    /\ IsFiniteSet(held) /\ seen \in SUBSET held /\ twice \in SUBSET seen
    /\ stock.listings = Cardinality(held)
    /\ stock.observed = Cardinality(seen)
    /\ stock.identity_only = Cardinality(held) - Cardinality(seen)
    /\ stock.statuses =
          [s \in Statuses |-> Cardinality({l \in seen : LastPoint(h, l).status = s})]
    /\ stock.active_price =
          Metrics!Median([l \in {m \in seen : LastPoint(h, m).status = "active"}
                            |-> <<LastPoint(h, l).price, 1>>])
    /\ stock.cuts = Cardinality({l \in twice : Moved(h, l)[1] < 0})
    /\ stock.increases = Cardinality({l \in twice : Moved(h, l)[1] > 0})
    /\ stock.unchanged = Cardinality(twice) - stock.cuts - stock.increases
    /\ stock.snapshots = Cardinality(PointsOf(h, held))
    /\ stock.latest_at = IF seen = {} THEN Null ELSE Max({Max(HistoryOf(h, l)) : l \in seen})
    /\ stock.active = Cardinality({l \in seen : LastPoint(h, l).status = "active"})
    /\ stock.observable = Cardinality(twice)
    /\ stock.cut_share = IF Cardinality(twice) = 0 THEN Null
                         ELSE Metrics!Fraction(stock.cuts, Cardinality(twice))
    /\ stock.price_change = Metrics!Median([l \in twice |-> Moved(h, l)])

LEMMA StockByTables ==
    ASSUME NEW t, NEW h, NEW c
    PROVE  IsStockOf(StockMetrics(t, h, c), h, ListForCommunity(t, c),
                     SeenOf(t, h, c), TwiceOf(t, h, c))
  <1>1. PICK listings : listings = ListingsOf(t, c)
    OBVIOUS
  <1>2. PICK read : read = SnapshotsOf(t, h, c)
    OBVIOUS
  <1>3. PICK held : held = ListForCommunity(t, c)
    OBVIOUS
  <1>4. PICK seen : seen = SeenOf(t, h, c)
    OBVIOUS
  <1>5. PICK twice : twice = TwiceOf(t, h, c)
    OBVIOUS
  <1>6. held \subseteq ListingIds /\ IsFiniteSet(held)
    <2>1. held \in SUBSET ListingIds
      BY <1>3 DEF ListForCommunity
    <2> QED
      BY <2>1, KeysAreFinite, FS_Subset
  <1>7. seen \in SUBSET held /\ twice \in SUBSET seen
    <2>1. \A l \in held : HistoryOf(h, l) = {} => ~ (Cardinality(HistoryOf(h, l)) > 1)
      BY FS_EmptySet
    <2> QED
      BY <1>3, <1>4, <1>5, <2>1 DEF SeenOf, TwiceOf
  <1>8. Metrics!Identities(listings) = held
    BY <1>1, <1>3, ReadListings
  <1>9. \A l \in held : Metrics!SeenAt(read, l) = HistoryOf(h, l)
    BY <1>2, <1>3, ReadHistories
  <1>10. \A l \in seen : /\ Metrics!Latest(read, l) = SnapshotAt(h, <<l, Max(HistoryOf(h, l))>>)
                         /\ Metrics!Earliest(read, l) = SnapshotAt(h, <<l, Min(HistoryOf(h, l))>>)
    BY <1>2, <1>3, <1>4, ReadHistories DEF SeenOf
  <1>11. \A l \in seen : /\ Metrics!Latest(read, l).price = LastPoint(h, l).price
                         /\ Metrics!Latest(read, l).status = LastPoint(h, l).status
                         /\ Metrics!Earliest(read, l).price = FirstPoint(h, l).price
    BY <1>10 DEF SnapshotAt, LastPoint, FirstPoint
  <1> DEFINE observed   == {l \in held : Metrics!SeenAt(read, l) # {}}
             observable == {l \in observed : Metrics!Cardinality(Metrics!SeenAt(read, l)) > 1}
             latest     == [l \in observed |-> Metrics!Latest(read, l)]
             change     == [l \in observable |-> Metrics!PriceChange(read, l)]
             active     == {l \in observed : latest[l].status = "active"}
  <1>12. observed = seen
    BY <1>3, <1>4, <1>9 DEF SeenOf
  <1>13. observable = twice
    <2>1. \A l \in held : Metrics!Cardinality(Metrics!SeenAt(read, l)) = Cardinality(HistoryOf(h, l))
      BY <1>9, SameCardinality
    <2>2. observable = {l \in seen : Cardinality(HistoryOf(h, l)) > 1}
      BY <1>7, <1>12, <2>1
    <2> QED
      BY <1>3, <1>5, <1>7, <2>2 DEF TwiceOf
  <1>14. \A l \in seen : /\ latest[l].status = LastPoint(h, l).status
                         /\ latest[l].price = LastPoint(h, l).price
    BY <1>11, <1>12
  <1>15. \A l \in twice : change[l] = Moved(h, l)
    BY <1>7, <1>11, <1>13 DEF Metrics!PriceChange, Moved
  <1>16. PICK stock : stock = Metrics!ListingMetrics(listings, read, c)
    OBVIOUS
  <1>17. stock = StockMetrics(t, h, c)
    BY <1>1, <1>2, <1>16 DEF StockMetrics
  <1>18. /\ stock.listings = Metrics!Cardinality(held)
         /\ stock.observed = Metrics!Cardinality(observed)
         /\ stock.identity_only = Metrics!Cardinality(held) - Metrics!Cardinality(observed)
         /\ stock.statuses = [s \in Statuses |->
                                 Metrics!Cardinality({l \in observed : latest[l].status = s})]
         /\ stock.active_price = Metrics!Median([l \in active |-> <<latest[l].price, 1>>])
         /\ stock.cuts = Metrics!Cardinality({l \in observable : Metrics!IsCut(change[l])})
         /\ stock.increases = Metrics!Cardinality({l \in observable : Metrics!IsIncrease(change[l])})
         /\ stock.unchanged = Metrics!Cardinality(observable) - stock.cuts - stock.increases
    BY <1>8, <1>16 DEF Metrics!ListingMetrics
  <1>23. /\ stock.latest_at = IF observed = {} THEN Null
                              ELSE Metrics!Max({latest[l].at : l \in observed})
         /\ stock.active = Metrics!Cardinality(active)
         /\ stock.observable = Metrics!Cardinality(observable)
         /\ stock.cut_share = IF Metrics!Cardinality(observable) = 0 THEN Null
                              ELSE Metrics!Fraction(stock.cuts, Metrics!Cardinality(observable))
         /\ stock.price_change = Metrics!Median(change)
    BY <1>8, <1>16 DEF Metrics!ListingMetrics
  <1>24. change = [l \in twice |-> Moved(h, l)]
    BY <1>13, <1>15
  <1>25. active = {m \in seen : LastPoint(h, m).status = "active"}
    BY <1>12, <1>14
  <1>26. {latest[l].at : l \in observed} = {Max(HistoryOf(h, l)) : l \in seen}
    <2>1. \A l \in seen : latest[l].at = Max(HistoryOf(h, l))
      BY <1>10, <1>12 DEF SnapshotAt
    <2> HIDE DEF latest
    <2> QED
      BY <1>12, <2>1
  <1> HIDE DEF observed, observable, latest, change, active
  <1>27. /\ stock.snapshots = Cardinality(PointsOf(h, held))
         /\ stock.latest_at = IF seen = {} THEN Null
                              ELSE Max({Max(HistoryOf(h, l)) : l \in seen})
         /\ stock.active = Cardinality({l \in seen : LastPoint(h, l).status = "active"})
         /\ stock.observable = Cardinality(twice)
         /\ stock.cut_share = IF Cardinality(twice) = 0 THEN Null
                              ELSE Metrics!Fraction(stock.cuts, Cardinality(twice))
         /\ stock.price_change = Metrics!Median([l \in twice |-> Moved(h, l)])
    <2>1. stock.snapshots = Cardinality(PointsOf(h, held))
      BY <1>3, <1>17, StockIs
    <2>2. \A S : Metrics!Max(S) = Max(S)
      BY DEF Metrics!Max, Max
    <2>3. stock.latest_at = IF seen = {} THEN Null
                            ELSE Max({Max(HistoryOf(h, l)) : l \in seen})
      BY <1>12, <1>23, <1>26, <2>2, Zenon
    <2>4. /\ stock.active = Cardinality({l \in seen : LastPoint(h, l).status = "active"})
          /\ stock.observable = Cardinality(twice)
          /\ stock.cut_share = IF Cardinality(twice) = 0 THEN Null
                               ELSE Metrics!Fraction(stock.cuts, Cardinality(twice))
      BY <1>13, <1>23, <1>25, SameCardinality
    <2> QED
      BY <1>23, <1>24, <2>1, <2>3, <2>4
  <1>19. /\ stock.listings = Cardinality(held)
         /\ stock.observed = Cardinality(seen)
         /\ stock.identity_only = Cardinality(held) - Cardinality(seen)
    BY <1>12, <1>18, SameCardinality
  <1>20. stock.statuses =
            [s \in Statuses |-> Cardinality({l \in seen : LastPoint(h, l).status = s})]
    <2>1. \A s : {l \in observed : latest[l].status = s} = {l \in seen : LastPoint(h, l).status = s}
      BY <1>12, <1>14
    <2>2. \A s : Metrics!Cardinality({l \in observed : latest[l].status = s})
                    = Cardinality({l \in seen : LastPoint(h, l).status = s})
      BY <2>1, SameCardinality, Zenon
    <2> QED
      BY <1>18, <2>2
  <1>21. stock.active_price =
            Metrics!Median([l \in {m \in seen : LastPoint(h, m).status = "active"}
                              |-> <<LastPoint(h, l).price, 1>>])
    <2>1. active = {m \in seen : LastPoint(h, m).status = "active"}
      BY <1>25
    <2>2. [l \in active |-> <<latest[l].price, 1>>]
             = [l \in {m \in seen : LastPoint(h, m).status = "active"} |-> <<LastPoint(h, l).price, 1>>]
      BY <1>14, <2>1
    <2> QED
      BY <1>18, <2>2
  <1>22. /\ stock.cuts = Cardinality({l \in twice : Moved(h, l)[1] < 0})
         /\ stock.increases = Cardinality({l \in twice : Moved(h, l)[1] > 0})
         /\ stock.unchanged = Cardinality(twice) - stock.cuts - stock.increases
    <2>1. {l \in observable : Metrics!IsCut(change[l])} = {l \in twice : Moved(h, l)[1] < 0}
      BY <1>13, <1>15 DEF Metrics!IsCut
    <2>2. {l \in observable : Metrics!IsIncrease(change[l])} = {l \in twice : Moved(h, l)[1] > 0}
      BY <1>13, <1>15 DEF Metrics!IsIncrease
    <2> QED
      BY <1>13, <1>18, <2>1, <2>2, SameCardinality
  <1> QED
    BY <1>3, <1>4, <1>5, <1>6, <1>7, <1>17, <1>19, <1>20, <1>21, <1>22, <1>27 DEF IsStockOf

\* A price moved the way its fraction's sign says.
LEMMA SignOfMove ==
    ASSUME NEW h \in SnapshotTable, NEW l \in ListingIds, HistoryOf(h, l) # {}
    PROVE  /\ LastPoint(h, l).price \in Nat \ {0} /\ FirstPoint(h, l).price \in Nat \ {0}
           /\ LastPoint(h, l).status \in Statuses
           /\ Moved(h, l)[1] < 0 <=> LastPoint(h, l).price < FirstPoint(h, l).price
           /\ Moved(h, l)[1] > 0 <=> LastPoint(h, l).price > FirstPoint(h, l).price
  <1>1. /\ Min(HistoryOf(h, l)) \in HistoryOf(h, l)
        /\ Max(HistoryOf(h, l)) \in HistoryOf(h, l)
    BY HistoryEnds
  <1>2. FirstPoint(h, l) \in SnapshotPoint /\ LastPoint(h, l) \in SnapshotPoint
    BY <1>1 DEF HistoryOf, FirstPoint, LastPoint, SnapshotTable
  <1>3. PICK first \in Nat \ {0} : first = FirstPoint(h, l).price
    BY <1>2, PricesArePositive DEF SnapshotPoint
  <1>4. PICK last \in Nat \ {0} : last = LastPoint(h, l).price
    BY <1>2, PricesArePositive DEF SnapshotPoint
  <1>5. LastPoint(h, l).status \in Statuses
    BY <1>2 DEF SnapshotPoint
  <1>6. PICK f : f = Metrics!Fraction(last - first, first)
    OBVIOUS
  <1>7. Moved(h, l) = f
    BY <1>3, <1>4, <1>6 DEF Moved
  <1>8. last - first \in Int
    OBVIOUS
  <1>9. f[1] \in Int /\ \E k \in Nat \ {0} : last - first = k * f[1]
    BY <1>6, <1>8, FractionIsLowest DEF Lowest, Quotients
  <1>10. PICK k \in Nat \ {0} : last - first = k * f[1]
    BY <1>9
  <1>11. /\ f[1] < 0 <=> f[1] * k < 0 * k
         /\ 0 < f[1] <=> 0 * k < f[1] * k
    BY <1>9, Scaled
  <1>12. 0 * k = 0 /\ f[1] * k = last - first
    BY <1>9, <1>10
  <1>13. /\ f[1] < 0 <=> last < first
         /\ f[1] > 0 <=> last > first
    BY <1>9, <1>11, <1>12
  <1> QED
    BY <1>3, <1>4, <1>5, <1>7, <1>13

-----------------------------------------------------------------------------
(* The counts *)

\* class sorts A into classes whose sizes are size.
Classifies(class, size, A, S) ==
    /\ IsFiniteSet(S) /\ IsFiniteSet(A) /\ class \in [A -> S]
    /\ \A x \in S : size[x] = Cardinality({a \in A : class[a] = x})

\* MapThenSumSet of size over S.
SumOver(size, S) ==
    (CHOOSE f : f = [T \in SUBSET S |->
                        IF T = {} THEN 0
                        ELSE size[CHOOSE x \in T : TRUE] + f[T \ {CHOOSE x \in T : TRUE}]])[S]

\* Adding up the sizes of the classes of A, one class after the other in any
\* order, gives the size of A.
LEMMA ClassesAddUp ==
    ASSUME NEW class, NEW size, NEW A, NEW S, Classifies(class, size, A, S)
    PROVE  SumOver(size, S) = Cardinality(A)
  <1>0. /\ IsFiniteSet(S) /\ IsFiniteSet(A) /\ class \in [A -> S]
        /\ \A x \in S : size[x] = Cardinality({a \in A : class[a] = x})
    BY DEF Classifies
  <1> DEFINE Fold(f, T) == IF T = {} THEN 0
                           ELSE size[CHOOSE x \in T : TRUE] + f[T \ {CHOOSE x \in T : TRUE}]
             In(T) == {a \in A : class[a] \in T}
             total == [T \in SUBSET S |-> Cardinality(In(T))]
             sum == CHOOSE f : f = [T \in SUBSET S |-> Fold(f, T)]
             wrong == {T \in SUBSET S : sum[T] # Cardinality(In(T))}
             sizes == {Cardinality(T) : T \in wrong}
  <1>1. \A T \in SUBSET S : IsFiniteSet(T) /\ Cardinality(T) \in Nat
    BY <1>0, FS_Subset, FS_CardinalityType
  <1>2. \A T \in SUBSET S : T # {} => (CHOOSE x \in T : TRUE) \in T
    OBVIOUS
  <1>3. Cardinality(In({})) = 0
    <2>1. In({}) = {}
      OBVIOUS
    <2> QED
      BY <2>1, FS_EmptySet
  <1>4. ASSUME NEW T \in SUBSET S, NEW x \in T
        PROVE  Cardinality(In(T)) = size[x] + Cardinality(In(T \ {x}))
    <2>1. PICK C : C = {a \in A : class[a] = x}
      OBVIOUS
    <2>2. PICK D : D = In(T \ {x})
      OBVIOUS
    <2>3. IsFiniteSet(C) /\ IsFiniteSet(D)
      <3>1. C \in SUBSET A /\ D \in SUBSET A
        BY <2>1, <2>2
      <3> QED
        BY <1>0, <3>1, FS_Subset
    <2>4. In(T) = C \union D /\ C \cap D = {}
      BY <1>0, <2>1, <2>2
    <2>5. Cardinality(C \cap D) = 0
      BY <2>4, FS_EmptySet
    <2>6. /\ Cardinality(C \union D) = Cardinality(C) + Cardinality(D) - Cardinality(C \cap D)
          /\ Cardinality(C) \in Nat /\ Cardinality(D) \in Nat
      BY <2>3, FS_Union, FS_CardinalityType
    <2>7. size[x] = Cardinality(C)
      BY <1>0, <2>1
    <2> HIDE DEF In
    <2> QED
      BY <2>2, <2>4, <2>5, <2>6, <2>7
  <1>5. total = [T \in SUBSET S |-> Fold(total, T)]
    <2>1. ASSUME NEW T \in SUBSET S
          PROVE  total[T] = Fold(total, T)
      <3>1. CASE T = {}
        BY <1>3, <3>1
      <3>2. CASE T # {}
        <4>1. PICK x \in T : x = CHOOSE y \in T : TRUE
          BY <1>2, <3>2
        <4>2. T \ {x} \in SUBSET S
          OBVIOUS
        <4>3. total[T] = size[x] + total[T \ {x}]
          BY <1>4, <4>2
        <4>4. Fold(total, T) = size[x] + total[T \ {x}]
          BY <3>2, <4>1, Zenon
        <4> QED
          BY <4>3, <4>4, Zenon
      <3> QED
        BY <3>1, <3>2
    <2>2. total = [T \in SUBSET S |-> total[T]]
      OBVIOUS
    <2> HIDE DEF total, Fold
    <2> QED
      BY <2>1, <2>2
  <1>6. sum = [T \in SUBSET S |-> Fold(sum, T)]
    <2> HIDE DEF total, Fold
    <2> QED
      BY <1>5, Zenon
  <1> HIDE DEF sum
  <1>7. wrong = {}
    <2> SUFFICES ASSUME wrong # {}
                 PROVE  FALSE
      OBVIOUS
    <2>1. sizes \in SUBSET Nat /\ sizes # {}
      <3>1. wrong \subseteq SUBSET S
        OBVIOUS
      <3> HIDE DEF wrong
      <3> QED
        BY <1>1, <3>1
    <2>2. PICK m \in sizes : \A n \in sizes : m <= n
      <3> HIDE DEF sizes
      <3> QED
        BY <2>1, LeastNatural
    <2>3. PICK T \in wrong : m = Cardinality(T)
      OBVIOUS
    <2>4. T \in SUBSET S /\ sum[T] # Cardinality(In(T))
      OBVIOUS
    <2>5. sum[T] = Fold(sum, T)
      <3> HIDE DEF Fold
      <3> QED
        BY <1>6, <2>4, Zenon
    <2>6. CASE T = {}
      BY <1>3, <2>4, <2>5, <2>6
    <2>7. CASE T # {}
      <3>1. PICK x \in T : x = CHOOSE y \in T : TRUE
        BY <2>7
      <3>2. PICK U : U = T \ {x}
        OBVIOUS
      <3>3. U \in SUBSET S
        BY <2>4, <3>2
      <3>4. sum[T] = size[x] + sum[U]
        BY <2>5, <2>7, <3>1, <3>2, Zenon
      <3>5. U \notin wrong
        <4>1. Cardinality(U) = Cardinality(T) - 1 /\ Cardinality(T) \in Nat
          BY <1>1, <2>4, <3>2, FS_RemoveElement
        <4>2. ~ (m <= Cardinality(U))
          BY <2>3, <4>1
        <4>3. U \in wrong => Cardinality(U) \in sizes
          OBVIOUS
        <4> HIDE DEF wrong, sizes
        <4> QED
          BY <2>2, <4>2, <4>3
      <3>6. sum[U] = Cardinality(In(U))
        BY <3>3, <3>5
      <3>7. Cardinality(In(T)) = size[x] + Cardinality(In(U))
        <4> HIDE DEF In
        <4> QED
          BY <1>4, <2>4, <3>2
      <3> QED
        BY <2>4, <3>4, <3>6, <3>7, Zenon
    <2> QED
      BY <2>6, <2>7
  <1>8. In(S) = A
    BY <1>0
  <1>9. sum[S] = Cardinality(A)
    <2>1. S \in SUBSET S
      OBVIOUS
    <2> QED
      BY <1>7, <1>8, <2>1
  <1> QED
    BY <1>9, Zenon DEF sum, SumOver

\* Every member of the finite set S is in one of A, B and C, and in one only.
Parts(S, A, B, C) ==
    /\ IsFiniteSet(S) /\ S = A \union B \union C
    /\ A \cap B = {} /\ A \cap C = {} /\ B \cap C = {}

\* The sizes of the three parts of a finite set.
LEMMA ThreeParts ==
    ASSUME NEW S, NEW A, NEW B, NEW C, Parts(S, A, B, C)
    PROVE  /\ Cardinality(S) = Cardinality(A) + Cardinality(B) + Cardinality(C)
           /\ Cardinality(A) \in Nat /\ Cardinality(B) \in Nat /\ Cardinality(C) \in Nat
  <1>1. IsFiniteSet(A) /\ IsFiniteSet(B) /\ IsFiniteSet(C)
    <2>1. A \in SUBSET S /\ B \in SUBSET S /\ C \in SUBSET S /\ IsFiniteSet(S)
      BY DEF Parts
    <2> QED
      BY <2>1, FS_Subset
  <1>2. Cardinality(A) \in Nat /\ Cardinality(B) \in Nat /\ Cardinality(C) \in Nat
    BY <1>1, FS_CardinalityType
  <1>3. PICK D : D = A \union B
    OBVIOUS
  <1>4. /\ IsFiniteSet(D)
        /\ Cardinality(D) = Cardinality(A) + Cardinality(B) - Cardinality(A \cap B)
    BY <1>1, <1>3, FS_Union
  <1>5. Cardinality(S) = Cardinality(D) + Cardinality(C) - Cardinality(D \cap C)
    <2>1. S = D \union C
      BY <1>3 DEF Parts
    <2> QED
      BY <1>1, <1>4, <2>1, FS_Union
  <1>6. Cardinality(A \cap B) = 0 /\ Cardinality(D \cap C) = 0
    <2>1. A \cap B = {} /\ D \cap C = {}
      BY <1>3 DEF Parts
    <2> QED
      BY <2>1, FS_EmptySet
  <1>7. Cardinality(D) \in Nat
    BY <1>4, FS_CardinalityType
  <1> QED
    BY <1>2, <1>4, <1>5, <1>6, <1>7

\* The deals of an unbounded window are all that the community sold.
LEMMA SoldAre ==
    ASSUME NEW c
    PROVE  SoldIn(c) = DealsIn(deal, c, Unbounded)
  BY DEF SoldIn, DealsIn, InWindow, Unbounded

\* What is active now is active in its last snapshot.
LEMMA ActiveAre ==
    ASSUME NEW c
    PROVE  ActiveNow(c) = {l \in SeenOf(listing, snapshot, c) :
                              LastPoint(snapshot, l).status = "active"}
  <1>1. \A l \in ListForCommunity(listing, c) :
           HistoryOf(snapshot, l) # {} =>
              LatestInstant(snapshot, l) = Max(HistoryOf(snapshot, l))
    BY HistoryEnds DEF ListForCommunity
  <1> QED
    BY <1>1 DEF ActiveNow, SeenOf, LastPoint

\* A fraction in lowest terms is the quotient it was made from.
LEMMA FractionIsAlike ==
    ASSUME NEW n \in Int, NEW d \in Nat \ {0}
    PROVE  /\ Metrics!Fraction(n, d) \in Quotients /\ Lowest(Metrics!Fraction(n, d))
           /\ <<n, d>> \in Quotients /\ Alike(Metrics!Fraction(n, d), <<n, d>>)
           /\ Metrics!Fraction(n, d)[1] * d = n * Metrics!Fraction(n, d)[2]
  <1>1. PICK f : f = Metrics!Fraction(n, d)
    OBVIOUS
  <1>2. Lowest(f) /\ \E k \in Nat \ {0} : n = k * f[1] /\ d = k * f[2]
    BY <1>1, FractionIsLowest
  <1>3. f \in Quotients
    BY <1>2 DEF Lowest
  <1>4. PICK p \in Int, q \in Nat \ {0} : p = f[1] /\ q = f[2]
    BY <1>3 DEF Quotients
  <1>5. PICK k \in Nat \ {0} : n = k * p /\ d = k * q
    BY <1>2, <1>4
  <1>6. p * d = n * q
    BY <1>5
  <1>7. <<n, d>> \in Quotients /\ <<n, d>>[1] = n /\ <<n, d>>[2] = d
    BY DEF Quotients
  <1> QED
    BY <1>1, <1>2, <1>3, <1>4, <1>6, <1>7 DEF Alike

\* The reported counts, those found by subtraction included, are the tables'.
LEMMA CountsMatch == StoreInv => CountsMatchTheTables
  <1> SUFFICES ASSUME StoreInv, NEW c \in Communities
               PROVE  LET stock == StockMetrics(listing, snapshot, c)
                          held  == ListForCommunity(listing, c)
                          cut   == {l \in SeenTwice(c) : LastPrice(l) < FirstPrice(l)}
                      IN  /\ DealMetrics(deal, c, Unbounded).deals = Cardinality(SoldIn(c))
                          /\ stock.listings = Cardinality(held)
                          /\ stock.snapshots = Cardinality(PointsOf(snapshot, held))
                          /\ stock.active = Cardinality(ActiveNow(c))
                          /\ stock.identity_only =
                                Cardinality({l \in held : HistoryOf(snapshot, l) = {}})
                          /\ stock.observed =
                                MapThenSumSet(LAMBDA s : stock.statuses[s], Statuses)
                          /\ stock.observable = Cardinality(SeenTwice(c))
                          /\ stock.cuts = Cardinality(cut)
                          /\ stock.unchanged =
                                Cardinality({l \in SeenTwice(c) : LastPrice(l) = FirstPrice(l)})
                          /\ stock.increases + stock.cuts + stock.unchanged
                                = Cardinality(SeenTwice(c))
                          /\ IsShareOf(stock.cut_share, Cardinality(cut), Cardinality(SeenTwice(c)))
    BY DEF CountsMatchTheTables
  <1>0. PICK t, h, held, seen, twice, stock :
              /\ t = listing /\ h = snapshot
              /\ held = ListForCommunity(t, c)
              /\ seen = SeenOf(t, h, c) /\ twice = TwiceOf(t, h, c)
              /\ stock = StockMetrics(t, h, c)
    OBVIOUS
  <1>1. /\ IsFiniteSet(held) /\ seen \in SUBSET held /\ twice \in SUBSET seen
        /\ stock.observed = Cardinality(seen)
        /\ stock.identity_only = Cardinality(held) - Cardinality(seen)
        /\ stock.statuses =
              [s \in Statuses |-> Cardinality({l \in seen : LastPoint(h, l).status = s})]
        /\ stock.cuts = Cardinality({l \in twice : Moved(h, l)[1] < 0})
        /\ stock.increases = Cardinality({l \in twice : Moved(h, l)[1] > 0})
        /\ stock.unchanged = Cardinality(twice) - stock.cuts - stock.increases
        /\ stock.listings = Cardinality(held)
        /\ stock.snapshots = Cardinality(PointsOf(h, held))
        /\ stock.active = Cardinality({l \in seen : LastPoint(h, l).status = "active"})
        /\ stock.observable = Cardinality(twice)
        /\ stock.cut_share = IF Cardinality(twice) = 0 THEN Null
                             ELSE Metrics!Fraction(stock.cuts, Cardinality(twice))
    <2>1. IsStockOf(stock, h, held, seen, twice)
      BY <1>0, StockByTables
    <2> QED
      BY <2>1 DEF IsStockOf
  <1>2. h \in SnapshotTable
    BY <1>0 DEF StoreInv, TypeInv
  <1>3. /\ SeenTwice(c) = twice
        /\ \A l : LastPrice(l) = LastPoint(h, l).price
        /\ \A l : FirstPrice(l) = FirstPoint(h, l).price
    BY <1>0 DEF SeenTwice, TwiceOf, LastPrice, LastPoint, FirstPrice, FirstPoint
  <1>4. \A l \in seen : /\ l \in ListingIds /\ HistoryOf(h, l) # {}
    BY <1>0 DEF SeenOf, ListForCommunity
  <1>5. \A l \in seen :
          /\ LastPrice(l) \in Nat /\ FirstPrice(l) \in Nat
          /\ LastPoint(h, l).status \in Statuses
          /\ Moved(h, l)[1] < 0 <=> LastPrice(l) < FirstPrice(l)
          /\ Moved(h, l)[1] > 0 <=> LastPrice(l) > FirstPrice(l)
    BY <1>2, <1>3, <1>4, SignOfMove
  <1>6. IsFiniteSet(seen) /\ IsFiniteSet(twice)
    <2>1. IsFiniteSet(seen)
      BY <1>1, FS_Subset
    <2> QED
      BY <1>1, <2>1, FS_Subset
  <1>7. stock.identity_only = Cardinality({l \in held : HistoryOf(h, l) = {}})
    <2>1. PICK rest : rest = {l \in held : HistoryOf(h, l) = {}}
      OBVIOUS
    <2>2. held = seen \union rest \union {} /\ seen \cap rest = {}
      BY <1>0, <2>1 DEF SeenOf
    <2>3. /\ Cardinality(held) = Cardinality(seen) + Cardinality(rest) + Cardinality({})
          /\ Cardinality(seen) \in Nat /\ Cardinality(rest) \in Nat
      <3>1. seen \cap {} = {} /\ rest \cap {} = {}
        OBVIOUS
      <3>2. IsFiniteSet(held)
        BY <1>1
      <3>3. Parts(held, seen, rest, {})
        BY <2>2, <3>1, <3>2 DEF Parts
      <3> QED
        BY <3>3, ThreeParts
    <2> QED
      BY <1>1, <2>1, <2>3, FS_EmptySet
  <1>8. stock.observed = MapThenSumSet(LAMBDA s : stock.statuses[s], Statuses)
    <2>1. PICK size : size = stock.statuses
      OBVIOUS
    <2> DEFINE class == [l \in seen |-> LastPoint(h, l).status]
    <2>2. class \in [seen -> Statuses]
      BY <1>5
    <2>3. \A s \in Statuses : size[s] = Cardinality({l \in seen : class[l] = s})
      <3> TAKE s \in Statuses
      <3>1. {l \in seen : class[l] = s} = {l \in seen : LastPoint(h, l).status = s}
        OBVIOUS
      <3> HIDE DEF class
      <3> QED
        BY <1>1, <2>1, <3>1
    <2> HIDE DEF class
    <2>4. MapThenSumSet(LAMBDA s : stock.statuses[s], Statuses) = SumOver(size, Statuses)
      BY <2>1, Zenon DEF MapThenSumSet, MapThenFoldSet, SumOver
    <2>5. Classifies(class, size, seen, Statuses)
      BY <1>6, <2>2, <2>3, StatusesAreListed DEF Classifies
    <2>6. SumOver(size, Statuses) = Cardinality(seen)
      BY <2>5, ClassesAddUp
    <2> QED
      BY <1>1, <2>4, <2>6, Zenon
  <1>9. /\ stock.cuts = Cardinality({l \in twice : LastPrice(l) < FirstPrice(l)})
        /\ stock.unchanged = Cardinality({l \in twice : LastPrice(l) = FirstPrice(l)})
        /\ stock.increases + stock.cuts + stock.unchanged = Cardinality(twice)
    <2>1. PICK cut : cut = {l \in twice : LastPrice(l) < FirstPrice(l)}
      OBVIOUS
    <2>2. PICK raised : raised = {l \in twice : LastPrice(l) > FirstPrice(l)}
      OBVIOUS
    <2>3. PICK same : same = {l \in twice : LastPrice(l) = FirstPrice(l)}
      OBVIOUS
    <2>4. \A l \in twice : l \in seen
      BY <1>1
    <2>5. /\ {l \in twice : Moved(h, l)[1] < 0} = cut
          /\ {l \in twice : Moved(h, l)[1] > 0} = raised
      BY <1>5, <2>1, <2>2, <2>4
    <2>6. twice = cut \union raised \union same
      BY <1>5, <2>1, <2>2, <2>3, <2>4
    <2>7. cut \cap raised = {} /\ cut \cap same = {} /\ raised \cap same = {}
      BY <1>5, <2>1, <2>2, <2>3, <2>4
    <2>8. /\ Cardinality(twice) = Cardinality(cut) + Cardinality(raised) + Cardinality(same)
          /\ Cardinality(cut) \in Nat /\ Cardinality(raised) \in Nat /\ Cardinality(same) \in Nat
      <3>1. Parts(twice, cut, raised, same)
        BY <1>6, <2>6, <2>7 DEF Parts
      <3> QED
        BY <3>1, ThreeParts
    <2>9. /\ stock.cuts = Cardinality(cut) /\ stock.increases = Cardinality(raised)
          /\ stock.unchanged = Cardinality(twice) - stock.cuts - stock.increases
      BY <1>1, <2>5
    <2> QED
      BY <2>1, <2>3, <2>8, <2>9
  <1>10. DealMetrics(deal, c, Unbounded).deals = Cardinality(SoldIn(c))
    <2>1. DealMetrics(deal, c, Unbounded).deals = Cardinality(DealsIn(deal, c, Unbounded))
      BY SoldIs DEF StoreInv, DealUnderItsId
    <2> QED
      BY <2>1, SoldAre
  <1>11. stock.active = Cardinality(ActiveNow(c))
    BY <1>0, <1>1, ActiveAre
  <1>12. IsShareOf(stock.cut_share, stock.cuts, Cardinality(twice))
    <2>1. PICK whole \in Nat : whole = Cardinality(twice)
      BY <1>6, FS_CardinalityType
    <2>2. PICK part \in Nat : part = stock.cuts
      <3>1. {l \in twice : Moved(h, l)[1] < 0} \in SUBSET twice
        OBVIOUS
      <3> QED
        BY <1>1, <1>6, <3>1, FS_Subset, FS_CardinalityType
    <2>3. CASE whole = 0
      BY <1>1, <2>1, <2>3 DEF IsShareOf
    <2>4. CASE whole # 0
      <3>1. stock.cut_share = Metrics!Fraction(part, whole)
        BY <1>1, <2>1, <2>2, <2>4
      <3>2. /\ Metrics!Fraction(part, whole) \in Quotients
            /\ Metrics!Fraction(part, whole)[1] * whole = part * Metrics!Fraction(part, whole)[2]
        <4>1. part \in Int /\ whole \in Nat \ {0}
          BY <2>4
        <4> QED
          BY <4>1, FractionIsAlike
      <3> QED
        BY <2>1, <2>2, <2>4, <3>1, <3>2 DEF IsShareOf
    <2> QED
      BY <2>3, <2>4
  <1> QED
    BY <1>0, <1>1, <1>3, <1>7, <1>8, <1>9, <1>10, <1>11, <1>12

-----------------------------------------------------------------------------
(* The latest instant and the latest date *)

\* The greatest member of a finite set of integers is its newest.
LEMMA GreatestIsNewest ==
    ASSUME NEW S \in SUBSET Int, IsFiniteSet(S)
    PROVE  IsNewestOf(IF S = {} THEN Null ELSE Max(S), S)
  <1>1. CASE S = {}
    BY <1>1 DEF IsNewestOf
  <1>2. CASE S # {}
    <2>1. PICK m \in S : \A n \in S : n <= m
      BY <1>2, GreatestExists
    <2>2. \A n \in S : m >= n
      BY <2>1
    <2>3. Max(S) \in S /\ \A n \in S : Max(S) >= n
      BY <2>2, Zenon DEF Max
    <2>4. \A n \in S : n <= Max(S)
      BY <2>3
    <2> QED
      BY <1>2, <2>3, <2>4 DEF IsNewestOf
  <1> QED
    BY <1>1, <1>2

\* The reported dates are the newest that the tables hold.
LEMMA DatesMatch == StoreInv => DatesAreNewest
  <1> SUFFICES ASSUME StoreInv, NEW c \in Communities
               PROVE  /\ IsNewestOf(StockMetrics(listing, snapshot, c).latest_at,
                             UNION {HistoryOf(snapshot, l) : l \in ListForCommunity(listing, c)})
                      /\ IsNewestOf(DealMetrics(deal, c, Unbounded).latest_date,
                             {deal[u].date : u \in SoldIn(c)})
    BY DEF DatesAreNewest
  <1>1. IsNewestOf(StockMetrics(listing, snapshot, c).latest_at,
             UNION {HistoryOf(snapshot, l) : l \in ListForCommunity(listing, c)})
    <2>1. PICK h : h = snapshot
      OBVIOUS
    <2>2. PICK held : held = ListForCommunity(listing, c)
      OBVIOUS
    <2>3. PICK seen : seen = SeenOf(listing, h, c)
      OBVIOUS
    <2>4. PICK ends : ends = {Max(HistoryOf(h, l)) : l \in seen}
      OBVIOUS
    <2>5. PICK all : all = UNION {HistoryOf(h, l) : l \in held}
      OBVIOUS
    <2>6. held \in SUBSET ListingIds /\ IsFiniteSet(held) /\ seen = {l \in held : HistoryOf(h, l) # {}}
      <3>1. held \in SUBSET ListingIds
        BY <2>2 DEF ListForCommunity
      <3> QED
        BY <2>2, <2>3, <3>1, KeysAreFinite, FS_Subset DEF SeenOf
    <2>7. \A l \in held : HistoryOf(h, l) \subseteq Instants
      BY <2>6, HistoryEnds
    <2>8. \A l \in seen : /\ Max(HistoryOf(h, l)) \in HistoryOf(h, l) /\ l \in held
                          /\ \A i \in HistoryOf(h, l) : i <= Max(HistoryOf(h, l))
      BY <2>6, HistoryEnds
    <2>9. ends \in SUBSET Int /\ ends \subseteq all /\ IsFiniteSet(ends)
      <3>1. ends \subseteq all
        BY <2>4, <2>5, <2>8
      <3>2. all \subseteq Instants
        BY <2>5, <2>7
      <3>3. ends \in SUBSET Int
        BY <3>1, <3>2, InstantsAreOrdered
      <3>4. IsFiniteSet(seen)
        BY <2>6, FS_Subset
      <3> DEFINE last == [l \in seen |-> Max(HistoryOf(h, l))]
      <3>5. last \in Surjection(seen, ends)
        BY <2>4 DEF Surjection
      <3> HIDE DEF last
      <3>6. IsFiniteSet(ends)
        BY <3>4, <3>5, FS_Surjection
      <3> QED
        BY <3>1, <3>3, <3>6
    <2>10. ends = {} <=> all = {}
      BY <2>4, <2>5, <2>6, <2>9
    <2>11. seen = {} <=> ends = {}
      BY <2>4
    <2>12. PICK m : m = StockMetrics(listing, h, c).latest_at
      OBVIOUS
    <2>13. m = IF ends = {} THEN Null ELSE Max(ends)
      <3>1. PICK twice : twice = TwiceOf(listing, h, c)
        OBVIOUS
      <3>2. PICK stock : stock = StockMetrics(listing, h, c)
        OBVIOUS
      <3>3. IsStockOf(stock, h, held, seen, twice)
        BY <2>2, <2>3, <3>1, <3>2, StockByTables
      <3> QED
        BY <2>4, <2>11, <2>12, <3>2, <3>3 DEF IsStockOf
    <2>14. IsNewestOf(m, ends)
      BY <2>9, <2>13, GreatestIsNewest
    <2>15. ASSUME ends # {}, NEW i \in all
           PROVE  i <= m
      <3>1. PICK l \in seen : i \in HistoryOf(h, l)
        BY <2>5, <2>6
      <3>2. PICK e \in ends : e = Max(HistoryOf(h, l)) /\ i <= e
        BY <2>4, <2>8, <3>1
      <3>3. e <= m /\ m \in ends
        BY <2>14, <2>15 DEF IsNewestOf
      <3>4. i \in Int /\ e \in Int /\ m \in Int
        BY <2>7, <2>8, <2>9, <3>1, <3>3, InstantsAreOrdered
      <3> QED
        BY <3>2, <3>3, <3>4
    <2>16. IsNewestOf(m, all)
      BY <2>9, <2>10, <2>14, <2>15 DEF IsNewestOf
    <2> QED
      BY <2>1, <2>2, <2>5, <2>12, <2>16
  <1>2. IsNewestOf(DealMetrics(deal, c, Unbounded).latest_date, {deal[u].date : u \in SoldIn(c)})
    <2>1. PICK deals : deals = TransactionsOf(deal, c, Unbounded)
      OBVIOUS
    <2>2. PICK S : S = SoldIn(c) /\ S = DealsIn(deal, c, Unbounded)
      BY SoldAre
    <2>3. PICK held : /\ Orders(held, S)
                      /\ DOMAIN deals = 1 .. Len(held) /\ Len(deals) = Len(held)
                      /\ \A k \in 1 .. Len(held) : deals[k] = deal[held[k]]
      BY <2>1, <2>2, ReadDeals
    <2>4. /\ \A k \in 1 .. Len(held) : held[k] \in S
          /\ \A x \in S : \E k \in 1 .. Len(held) : held[k] = x
          /\ Len(held) \in Nat
      BY <2>3 DEF Orders, Range
    <2>5. PICK dates : dates = {deal[u].date : u \in S}
      OBVIOUS
    <2>6. {deals[k].date : k \in DOMAIN deals} = dates
      BY <2>3, <2>4, <2>5
    <2>7. dates \in SUBSET Int /\ IsFiniteSet(dates)
      <3>1. S \in SUBSET DealIds /\ \A u \in S : deal[u] \in Deal
        BY <2>2 DEF SoldIn, StoreInv, TypeInv
      <3>2. \A u \in S : deal[u].date \in Int
        BY <3>1, DaysAreOrdered DEF Deal
      <3>3. IsFiniteSet(S)
        BY <3>1, KeysAreFinite, FS_Subset
      <3> DEFINE date == [u \in S |-> deal[u].date]
      <3>4. date \in Surjection(S, dates)
        BY <2>5 DEF Surjection
      <3> HIDE DEF date
      <3> QED
        BY <2>5, <3>2, <3>3, <3>4, FS_Surjection
    <2>8. deals = <<>> <=> dates = {}
      <3>1. deals = <<>> <=> Len(held) = 0
        <4>1. deals = [k \in 1 .. Len(held) |-> deals[k]]
          BY <2>1, <2>3 DEF TransactionsOf
        <4> QED
          BY <2>3, <2>4, <4>1
      <3>2. dates = {} <=> S = {}
        BY <2>5
      <3>3. S = {} <=> Len(held) = 0
        BY <2>4
      <3> QED
        BY <3>1, <3>2, <3>3
    <2>9. DealMetrics(deal, c, Unbounded).latest_date = IF dates = {} THEN Null ELSE Max(dates)
      <3>1. DealMetrics(deal, c, Unbounded).latest_date =
               IF deals = <<>> THEN Null ELSE Metrics!Max({deals[k].date : k \in DOMAIN deals})
        BY <2>1 DEF DealMetrics, Metrics!TransactionMetrics
      <3>2. Metrics!Max(dates) = Max(dates)
        BY DEF Metrics!Max, Max
      <3> QED
        BY <2>6, <2>8, <3>1, <3>2
    <2> QED
      BY <2>2, <2>5, <2>7, <2>9, GreatestIsNewest
  <1> QED
    BY <1>1, <1>2

-----------------------------------------------------------------------------
(* The medians *)

\* What is left of a finite set.
LEMMA RestCounts ==
    ASSUME NEW S, IsFiniteSet(S), NEW A \in SUBSET S
    PROVE  /\ Cardinality(S \ A) = Cardinality(S) - Cardinality(A)
           /\ Cardinality(A) \in Nat /\ Cardinality(S) \in Nat
  <1>1. PICK B : B = S \ A
    OBVIOUS
  <1>2. Parts(S, A, B, {})
    BY <1>1 DEF Parts
  <1>3. /\ Cardinality(S) = Cardinality(A) + Cardinality(B) + Cardinality({})
        /\ Cardinality(A) \in Nat /\ Cardinality(B) \in Nat
    BY <1>2, ThreeParts
  <1>4. Cardinality({}) = 0
    BY FS_EmptySet
  <1> QED
    BY <1>1, <1>3, <1>4

\* On one side of a quotient or the other.
LEMMA SidesAre ==
    ASSUME NEW p \in Quotients, NEW q \in Quotients
    PROVE  /\ AtMost(p, q) <=> ~ Metrics!Less(q, p)
           /\ ~ AtMost(p, q) <=> Metrics!Less(q, p)
  <1>1. p[1] * q[2] \in Int /\ q[1] * p[2] \in Int
    BY DEF Quotients
  <1> QED
    BY <1>1, LessIs DEF AtMost

\* The median of a sample has half of it on each side.
LEMMA MedianIsMiddle ==
    ASSUME NEW s, Sample(s)
    PROVE  IsMedianOf(Metrics!Median(s), s)
  <1>1. PICK S : S = DOMAIN s /\ IsFiniteSet(S) /\ \A x \in S : s[x] \in Quotients
    BY DEF Sample
  <1>2. PICK n \in Nat : n = Cardinality(S)
    BY <1>1, FS_CardinalityType
  <1>3. ASSUME NEW q \in Quotients
        PROVE  /\ {x \in S : ~ AtMost(q, s[x])} = Under(s, q)
               /\ {x \in S : AtMost(s[x], q)} = UpTo(s, q)
               /\ {x \in S : AtMost(q, s[x])} = S \ Under(s, q)
               /\ {x \in S : ~ AtMost(s[x], q)} = S \ UpTo(s, q)
    BY <1>1, SidesAre DEF Under, UpTo
  <1>4. \A A \in SUBSET S : Cardinality(A) \in Nat
    BY <1>1, FS_Subset, FS_CardinalityType
  <1>5. ASSUME NEW k \in 1 .. n
        PROVE  \E q \in Quotients :
                  /\ q = ValueAt(s, k)
                  /\ Cardinality({x \in S : ~ AtMost(q, s[x])}) < k
                  /\ Cardinality({x \in S : AtMost(s[x], q)}) >= k
                  /\ Cardinality({x \in S : AtMost(q, s[x])}) >= n - k + 1
                  /\ Cardinality({x \in S : ~ AtMost(s[x], q)}) <= n - k
    <2>1. k \in 1 .. Cardinality(DOMAIN s)
      BY <1>1, <1>2
    <2>2. PICK q \in Quotients : q = ValueAt(s, k)
      BY <2>1, CountsAtRank
    <2>3. PICK A : A = Under(s, q)
      OBVIOUS
    <2>4. PICK B : B = UpTo(s, q)
      OBVIOUS
    <2>5. Cardinality(A) < k /\ Cardinality(B) >= k
      BY <2>1, <2>2, <2>3, <2>4, CountsAtRank
    <2>6. A \in SUBSET S /\ B \in SUBSET S
      BY <1>1, <2>3, <2>4 DEF Under, UpTo
    <2>7. /\ Cardinality(S \ A) = n - Cardinality(A) /\ Cardinality(A) \in Nat
          /\ Cardinality(S \ B) = n - Cardinality(B) /\ Cardinality(B) \in Nat
      BY <1>1, <1>2, <2>6, RestCounts
    <2>8. Cardinality(S \ A) >= n - k + 1 /\ Cardinality(S \ B) <= n - k
      BY <2>5, <2>7
    <2> QED
      BY <1>3, <2>2, <2>3, <2>4, <2>5, <2>8, Zenon
  <1>6. PICK m : m = Metrics!Median(s)
    OBVIOUS
  <1>7. CASE n < MinimumSampleCount
    <2>1. m = [usable |-> n, value |-> Null]
      BY <1>1, <1>2, <1>6, <1>7, MedianIs
    <2>2. ~ (n >= MinimumSampleCount)
      BY <1>7, MinimumIsPositive
    <2> QED
      BY <1>1, <1>2, <1>6, <2>1, <2>2 DEF IsMedianOf
  <1>8. CASE ~ (n < MinimumSampleCount)
    <2>1. n \in Nat \ {0}
      BY <1>8, MinimumIsPositive
    <2>2. PICK i \in 1 .. n : i = Metrics!Middle(n)[1]
      BY <2>1, MiddleIsPlace
    <2>3. PICK j \in 1 .. n : j = Metrics!Middle(n)[2]
      BY <2>1, MiddleIsPlace
    <2>4. 2 * i >= n /\ 2 * (i - 1) < n /\ 2 * (n - j) < n /\ 2 * (n - j + 1) >= n
      BY <2>1, <2>2, <2>3, MiddleIsPlace
    <2>5. m = [usable |-> n, value |-> <<ValueAt(s, i), ValueAt(s, j)>>]
      BY <1>1, <1>2, <1>6, <1>8, <2>2, <2>3, MedianIs
    <2>6. PICK a \in Quotients : /\ a = ValueAt(s, i)
                                 /\ Cardinality({x \in S : ~ AtMost(a, s[x])}) < i
                                 /\ Cardinality({x \in S : AtMost(s[x], a)}) >= i
      BY <1>5
    <2>7. PICK b \in Quotients : /\ b = ValueAt(s, j)
                                 /\ Cardinality({x \in S : AtMost(b, s[x])}) >= n - j + 1
                                 /\ Cardinality({x \in S : ~ AtMost(s[x], b)}) <= n - j
      BY <1>5
    <2>8. PICK below \in SUBSET S : below = {x \in S : ~ AtMost(a, s[x])}
      OBVIOUS
    <2>9. PICK upto \in SUBSET S : upto = {x \in S : AtMost(s[x], a)}
      OBVIOUS
    <2>10. PICK from \in SUBSET S : from = {x \in S : AtMost(b, s[x])}
      OBVIOUS
    <2>11. PICK above \in SUBSET S : above = {x \in S : ~ AtMost(s[x], b)}
      OBVIOUS
    <2>12. /\ Cardinality(below) \in Nat /\ Cardinality(upto) \in Nat
           /\ Cardinality(from) \in Nat /\ Cardinality(above) \in Nat
      BY <1>4
    <2>13. /\ Cardinality(below) < i /\ Cardinality(upto) >= i
           /\ Cardinality(from) >= n - j + 1 /\ Cardinality(above) <= n - j
      BY <2>6, <2>7, <2>8, <2>9, <2>10, <2>11
    <2>14. /\ 2 * Cardinality(upto) >= n /\ 2 * Cardinality(from) >= n
           /\ 2 * Cardinality(below) < n /\ 2 * Cardinality(above) < n
      BY <2>4, <2>12, <2>13
    <2>15. m.usable = n /\ m.value = <<a, b>> /\ m.value[1] = a /\ m.value[2] = b
      BY <2>5, <2>6, <2>7
    <2>16. m.value # Null
      BY <2>15, NullIsNoMedian
    <2> QED
      BY <1>1, <1>2, <1>6, <1>8, <2>8, <2>9, <2>10, <2>11, <2>14, <2>15, <2>16 DEF IsMedianOf
  <1> QED
    BY <1>7, <1>8

\* Like quotients are on the same side of any other.
LEMMA AlikeSides ==
    ASSUME NEW p \in Quotients, NEW q \in Quotients, Alike(p, q), NEW r \in Quotients
    PROVE  (AtMost(p, r) <=> AtMost(q, r)) /\ (AtMost(r, p) <=> AtMost(r, q))
  <1>1. p[1] * q[2] \in Int /\ q[1] * p[2] \in Int
    BY DEF Quotients
  <1>2. ~ Metrics!Less(p, q) /\ ~ Metrics!Less(q, p)
    BY <1>1, LessIs DEF Alike
  <1>3. /\ ~ Metrics!Less(r, p) <=> ~ Metrics!Less(r, q)
        /\ ~ Metrics!Less(p, r) <=> ~ Metrics!Less(q, r)
    BY <1>2, LessIsWeak
  <1> QED
    BY <1>3, SidesAre

\* What is the median of a sample is that of the same quotients in other terms.
LEMMA MedianInAnyTerms ==
    ASSUME NEW m, NEW v, NEW w, DOMAIN w = DOMAIN v, IsMedianOf(m, v),
           \A k \in DOMAIN v : /\ v[k] \in Quotients /\ w[k] \in Quotients
                               /\ Alike(v[k], w[k])
    PROVE  IsMedianOf(m, w)
  <1>1. \A q \in Quotients : \A k \in DOMAIN v :
           /\ AtMost(v[k], q) <=> AtMost(w[k], q)
           /\ AtMost(q, v[k]) <=> AtMost(q, w[k])
    BY AlikeSides
  <1>2. \A q \in Quotients :
           /\ {k \in DOMAIN v : AtMost(v[k], q)} = {k \in DOMAIN w : AtMost(w[k], q)}
           /\ {k \in DOMAIN v : AtMost(q, v[k])} = {k \in DOMAIN w : AtMost(q, w[k])}
           /\ {k \in DOMAIN v : ~ AtMost(v[k], q)} = {k \in DOMAIN w : ~ AtMost(w[k], q)}
           /\ {k \in DOMAIN v : ~ AtMost(q, v[k])} = {k \in DOMAIN w : ~ AtMost(q, w[k])}
    BY <1>1
  <1>3. CASE ~ (Cardinality(DOMAIN v) >= MinimumSampleCount)
    BY <1>3 DEF IsMedianOf
  <1>4. CASE Cardinality(DOMAIN v) >= MinimumSampleCount
    <2>1. PICK lower \in Quotients, upper \in Quotients :
             /\ m.value # Null /\ lower = m.value[1] /\ upper = m.value[2]
             /\ 2 * Cardinality({k \in DOMAIN v : AtMost(v[k], lower)}) >= Cardinality(DOMAIN v)
             /\ 2 * Cardinality({k \in DOMAIN v : AtMost(upper, v[k])}) >= Cardinality(DOMAIN v)
             /\ 2 * Cardinality({k \in DOMAIN v : ~ AtMost(lower, v[k])}) < Cardinality(DOMAIN v)
             /\ 2 * Cardinality({k \in DOMAIN v : ~ AtMost(v[k], upper)}) < Cardinality(DOMAIN v)
      BY <1>4, Zenon DEF IsMedianOf
    <2>2. m.usable = Cardinality(DOMAIN w)
          /\ (Cardinality(DOMAIN w) < MinimumSampleCount => m.value = Null)
      BY DEF IsMedianOf
    <2> QED
      BY <1>2, <2>1, <2>2, Zenon DEF IsMedianOf
  <1> QED
    BY <1>3, <1>4

\* Values in lowest terms under the keys of S, their like in other terms, and the
\* same values as they were read, at the places of T.
IsReadOf(w, T, v, raw, S, place) ==
    /\ IsFiniteSet(S) /\ S \subseteq Int /\ IsFiniteSet(T) /\ T \subseteq Int
    /\ place \in Bijection(T, S)
    /\ DOMAIN v \subseteq S /\ DOMAIN raw = DOMAIN v /\ DOMAIN w \subseteq T
    /\ \A k \in T : k \in DOMAIN w <=> place[k] \in DOMAIN v
    /\ \A k \in DOMAIN w : w[k] = v[place[k]]
    /\ \A x \in DOMAIN v : Lowest(v[x]) /\ raw[x] \in Quotients /\ Alike(v[x], raw[x])

\* The median of what was read is that of what is stored.
LEMMA MedianOfRead ==
    ASSUME NEW w, NEW T, NEW v, NEW raw, NEW S, NEW place, IsReadOf(w, T, v, raw, S, place)
    PROVE  IsMedianOf(Metrics!Median(w), raw)
  <1>1. Sample(v) /\ Reduced(v)
    <2>1. DOMAIN v \in SUBSET S /\ IsFiniteSet(S) /\ S \subseteq Int
      BY DEF IsReadOf
    <2>2. IsFiniteSet(DOMAIN v) /\ DOMAIN v \subseteq Int
      BY <2>1, FS_Subset
    <2> QED
      BY <2>2 DEF Sample, Reduced, IsReadOf, Lowest
  <1>2. IsFiniteSet(DOMAIN w) /\ DOMAIN w \subseteq Int
    <2>1. DOMAIN w \in SUBSET T /\ IsFiniteSet(T) /\ T \subseteq Int
      BY DEF IsReadOf
    <2> QED
      BY <2>1, FS_Subset
  <1>3. Rearranges(w, v)
    BY ColumnRearranged DEF IsReadOf
  <1>4. Metrics!Median(w) = Metrics!Median(v)
    BY <1>1, <1>2, <1>3, MedianReadsABag
  <1>5. IsMedianOf(Metrics!Median(v), v)
    BY <1>1, MedianIsMiddle
  <1> QED
    BY <1>4, <1>5, MedianInAnyTerms DEF IsReadOf, Lowest

\* A whole number is a quotient in lowest terms, and like itself.
LEMMA WholeIsLowest ==
    ASSUME NEW n \in Int
    PROVE  Lowest(<<n, 1>>) /\ <<n, 1>> \in Quotients /\ Alike(<<n, 1>>, <<n, 1>>)
  BY DEF Lowest, Quotients, Alike

\* The deals' medians.
LEMMA DealMediansMatch ==
    ASSUME StoreInv, NEW c \in Communities
    PROVE  /\ IsMedianOf(DealMetrics(deal, c, Unbounded).deal_price,
                         [u \in SoldIn(c) |-> <<deal[u].price, 1>>])
           /\ IsMedianOf(DealMetrics(deal, c, Unbounded).discount,
                         [u \in {x \in SoldIn(c) : deal[x].initial # Null} |->
                             <<deal[u].initial - deal[u].price, deal[u].initial>>])
  <1>1. PICK d : d = deal /\ d \in [DealIds -> Deal \union {Null}]
    BY DEF StoreInv, TypeInv
  <1>2. PICK deals : deals = TransactionsOf(d, c, Unbounded)
    OBVIOUS
  <1>3. PICK S : S = SoldIn(c) /\ S = DealsIn(d, c, Unbounded)
    BY <1>1, SoldAre
  <1>4. PICK held : /\ Orders(held, S)
                    /\ DOMAIN deals = 1 .. Len(held)
                    /\ \A k \in 1 .. Len(held) : deals[k] = d[held[k]]
    BY <1>2, <1>3, ReadDeals
  <1>5. S \in SUBSET DealIds /\ \A u \in S : d[u] \in Deal
    BY <1>1, <1>3 DEF SoldIn
  <1>6. IsFiniteSet(S) /\ S \subseteq Int
    <2>1. IsFiniteSet(S)
      BY <1>5, KeysAreFinite, FS_Subset
    <2> QED
      BY <1>5, <2>1, IdsAreNumbered
  <1>7. Len(held) \in Nat /\ held \in Bijection(1 .. Len(held), S)
    <2>1. held \in Seq(S) /\ IsInjective(held) /\ Range(held) = S
      BY <1>4 DEF Orders
    <2>2. Len(held) \in Nat /\ held \in [1 .. Len(held) -> S] /\ DOMAIN held = 1 .. Len(held)
      BY <2>1
    <2> QED
      BY <2>1, <2>2, Zenon DEF Bijection, Injection, Surjection, Range
  <1>8. PICK T : T = DOMAIN deals /\ IsFiniteSet(T) /\ T \subseteq Int /\ held \in Bijection(T, S)
    BY <1>4, <1>7, FS_Interval
  <1>9. \A k \in T : held[k] \in S /\ deals[k] = d[held[k]]
    BY <1>4, <1>8 DEF Bijection, Injection
  <1>10. IsMedianOf(DealMetrics(d, c, Unbounded).deal_price, [u \in S |-> <<d[u].price, 1>>])
    <2>1. PICK v : v = [u \in S |-> <<d[u].price, 1>>]
      OBVIOUS
    <2>2. PICK w : w = [k \in T |-> <<deals[k].price, 1>>]
      OBVIOUS
    <2>3. \A u \in S : Lowest(v[u]) /\ v[u] \in Quotients /\ Alike(v[u], v[u])
      <3>1. \A u \in S : d[u].price \in Int
        BY <1>5 DEF Deal
      <3> QED
        BY <2>1, <3>1, WholeIsLowest
    <2>4. /\ DOMAIN v = S /\ DOMAIN w = T
          /\ \A k \in T : k \in DOMAIN w <=> held[k] \in DOMAIN v
          /\ \A k \in T : w[k] = v[held[k]]
      BY <1>9, <2>1, <2>2
    <2>5. IsReadOf(w, T, v, v, S, held)
      BY <1>6, <1>8, <2>3, <2>4, Zenon DEF IsReadOf
    <2>6. DealMetrics(d, c, Unbounded).deal_price = Metrics!Median(w)
      BY <1>2, <1>8, <2>2 DEF DealMetrics, Metrics!TransactionMetrics
    <2> QED
      BY <2>1, <2>5, <2>6, MedianOfRead
  <1>11. PICK A : A = {x \in S : d[x].initial # Null}
    OBVIOUS
  <1>12. IsMedianOf(DealMetrics(d, c, Unbounded).discount,
                    [u \in A |-> <<d[u].initial - d[u].price, d[u].initial>>])
    <2>1. PICK v : v = [u \in A |-> Metrics!Discount(d[u])]
      OBVIOUS
    <2>2. PICK raw : raw = [u \in A |-> <<d[u].initial - d[u].price, d[u].initial>>]
      OBVIOUS
    <2>3. PICK asked : asked = {k \in T : deals[k].initial # Null}
      OBVIOUS
    <2>4. PICK w : w = [k \in asked |-> Metrics!Discount(deals[k])]
      OBVIOUS
    <2>5. ASSUME NEW u \in A
          PROVE  Lowest(v[u]) /\ raw[u] \in Quotients /\ Alike(v[u], raw[u])
      <3>1. PICK n \in Int : n = d[u].initial - d[u].price
        BY <1>5, <1>11 DEF Deal
      <3>2. PICK i \in Nat \ {0} : i = d[u].initial
        BY <1>5, <1>11 DEF Deal
      <3>3. v[u] = Metrics!Fraction(n, i) /\ raw[u] = <<n, i>>
        BY <2>1, <2>2, <3>1, <3>2 DEF Metrics!Discount
      <3> QED
        BY <3>3, FractionIsAlike
    <2>6. /\ DOMAIN v = A /\ DOMAIN raw = A /\ A \subseteq S
          /\ DOMAIN w = asked /\ asked \subseteq T
      BY <1>11, <2>1, <2>2, <2>3, <2>4
    <2>7. /\ \A k \in T : k \in DOMAIN w <=> held[k] \in DOMAIN v
          /\ \A k \in DOMAIN w : w[k] = v[held[k]]
      <3>1. \A k \in T : k \in asked <=> held[k] \in A
        BY <1>9, <1>11, <2>3
      <3>2. \A k \in asked : w[k] = v[held[k]]
        BY <1>9, <2>1, <2>3, <2>4, <3>1
      <3> QED
        BY <2>6, <3>1, <3>2
    <2>8. IsReadOf(w, T, v, raw, S, held)
      BY <1>6, <1>8, <2>5, <2>6, <2>7, Zenon DEF IsReadOf
    <2>9. DealMetrics(d, c, Unbounded).discount = Metrics!Median(w)
      BY <1>2, <1>8, <2>3, <2>4 DEF DealMetrics, Metrics!TransactionMetrics
    <2> QED
      BY <2>2, <2>8, <2>9, MedianOfRead
  <1> QED
    BY <1>1, <1>3, <1>10, <1>11, <1>12

\* The listings' medians.
LEMMA StockMediansMatch ==
    ASSUME StoreInv, NEW c \in Communities
    PROVE  /\ IsMedianOf(StockMetrics(listing, snapshot, c).active_price,
                         [l \in ActiveNow(c) |-> <<LastPrice(l), 1>>])
           /\ IsMedianOf(StockMetrics(listing, snapshot, c).price_change,
                         [l \in SeenTwice(c) |->
                             <<LastPrice(l) - FirstPrice(l), FirstPrice(l)>>])
  <1>1. PICK h : h = snapshot /\ h \in SnapshotTable
    BY DEF StoreInv, TypeInv
  <1>2. PICK held : held = ListForCommunity(listing, c)
    OBVIOUS
  <1>3. PICK seen : seen = SeenOf(listing, h, c)
    OBVIOUS
  <1>4. PICK twice : twice = TwiceOf(listing, h, c) /\ twice = SeenTwice(c)
    BY <1>1 DEF TwiceOf, SeenTwice
  <1>5. PICK active : active = {l \in seen : LastPoint(h, l).status = "active"}
                      /\ active = ActiveNow(c)
    BY <1>1, <1>3, ActiveAre
  <1>6. PICK stock : stock = StockMetrics(listing, h, c)
    OBVIOUS
  <1>7. /\ stock.active_price = Metrics!Median([l \in active |-> <<LastPoint(h, l).price, 1>>])
        /\ stock.price_change = Metrics!Median([l \in twice |-> Moved(h, l)])
        /\ twice \subseteq seen
    <2>1. IsStockOf(stock, h, held, seen, twice)
      BY <1>2, <1>3, <1>4, <1>6, StockByTables
    <2> QED
      BY <1>5, <2>1 DEF IsStockOf
  <1>8. /\ seen \in SUBSET ListingIds
        /\ \A l \in seen : /\ LastPoint(h, l).price \in Nat \ {0}
                           /\ FirstPoint(h, l).price \in Nat \ {0}
    <2>1. \A l \in seen : l \in ListingIds /\ HistoryOf(h, l) # {}
      BY <1>3 DEF SeenOf, ListForCommunity
    <2> QED
      BY <1>1, <2>1, SignOfMove
  <1>9. \A A \in SUBSET seen : IsFiniteSet(A) /\ A \subseteq Int
    <2> TAKE A \in SUBSET seen
    <2>1. A \in SUBSET ListingIds
      BY <1>8
    <2>2. IsFiniteSet(A)
      BY <2>1, KeysAreFinite, FS_Subset
    <2> QED
      BY <2>1, <2>2, IdsAreNumbered
  <1>10. \A l : LastPrice(l) = LastPoint(h, l).price /\ FirstPrice(l) = FirstPoint(h, l).price
    BY <1>1 DEF LastPrice, LastPoint, FirstPrice, FirstPoint
  <1>11. IsMedianOf(stock.active_price, [l \in ActiveNow(c) |-> <<LastPrice(l), 1>>])
    <2>1. PICK v : v = [l \in active |-> <<LastPoint(h, l).price, 1>>]
      OBVIOUS
    <2>2. \A l \in active : v[l] = <<LastPoint(h, l).price, 1>> /\ v[l] \in Quotients
      <3>1. \A l \in active : LastPoint(h, l).price \in Int
        BY <1>5, <1>8
      <3> QED
        BY <2>1, <3>1, WholeIsLowest
    <2>3. active \in SUBSET seen
      BY <1>5
    <2>4. Sample(v)
      BY <1>9, <2>1, <2>2, <2>3 DEF Sample
    <2>5. v = [l \in ActiveNow(c) |-> <<LastPrice(l), 1>>]
      BY <1>5, <1>10, <2>1
    <2> QED
      BY <1>7, <2>1, <2>4, <2>5, MedianIsMiddle
  <1>12. IsMedianOf(stock.price_change,
                    [l \in SeenTwice(c) |-> <<LastPrice(l) - FirstPrice(l), FirstPrice(l)>>])
    <2>1. PICK v : v = [l \in twice |-> Moved(h, l)]
      OBVIOUS
    <2>2. PICK raw : raw = [l \in twice |-> <<LastPrice(l) - FirstPrice(l), FirstPrice(l)>>]
      OBVIOUS
    <2>3. ASSUME NEW l \in twice
          PROVE  v[l] \in Quotients /\ raw[l] \in Quotients /\ Alike(v[l], raw[l])
      <3>1. PICK first \in Nat \ {0} : first = FirstPoint(h, l).price
        BY <1>7, <1>8
      <3>2. PICK n \in Int : n = LastPoint(h, l).price - first
        BY <1>7, <1>8
      <3>3. v[l] = Metrics!Fraction(n, first) /\ raw[l] = <<n, first>>
        BY <1>10, <2>1, <2>2, <3>1, <3>2 DEF Moved
      <3> QED
        BY <3>3, FractionIsAlike
    <2>4. DOMAIN v = twice /\ DOMAIN raw = twice
      BY <2>1, <2>2
    <2>5. Sample(v)
      BY <1>7, <1>9, <2>3, <2>4 DEF Sample
    <2>6. IsMedianOf(stock.price_change, v)
      BY <1>7, <2>1, <2>5, MedianIsMiddle
    <2>7. IsMedianOf(stock.price_change, raw)
      BY <2>3, <2>4, <2>6, MedianInAnyTerms
    <2> QED
      BY <1>4, <2>2, <2>7
  <1> QED
    BY <1>1, <1>6, <1>11, <1>12

\* The four reported medians are the middle of what the tables hold.
LEMMA MediansMatch == StoreInv => MediansAreMiddle
  BY DealMediansMatch, StockMediansMatch DEF MediansAreMiddle

-----------------------------------------------------------------------------
(* The current view *)

\* The seen range of a row reaches every instant at which its listing was seen.
RangeReaches ==
    /\ \A l \in ListingIds : \A i \in HistoryOf(snapshot, l) : i <= listing[l].last
    /\ pending # Null => pending.at <= listing[pending.listing].last

ViewInv == StoreInv /\ RangeReaches

\* An observation, however old, does not shorten the range that is stored.
LEMMA MergeReaches ==
    ASSUME NEW row \in ListingRow \union {Null}, NEW o \in Observation
    PROVE  /\ o.at <= MergedRow(row, o).last
           /\ row # Null => \A i \in Instants : i <= row.last => i <= MergedRow(row, o).last
  <1>1. o.at \in Int /\ o.last \in Int /\ o.at <= o.last
    BY InstantsAreOrdered DEF Observation
  <1>2. CASE row = Null
    BY <1>1, <1>2 DEF MergedRow, RowOf
  <1>3. CASE row # Null
    <2>1. row.last \in Int
      BY <1>3, InstantsAreOrdered DEF ListingRow
    <2>2. MergedRow(row, o).last = greatest(row.last, o.last)
      BY <1>3 DEF MergedRow, RowOf
    <2>3. /\ greatest(row.last, o.last) \in Int
          /\ row.last <= greatest(row.last, o.last) /\ o.last <= greatest(row.last, o.last)
      BY <1>1, <2>1 DEF greatest
    <2>4. PICK g \in Int : g = greatest(row.last, o.last)
      BY <2>3
    <2>5. \A i \in Int : i <= row.last => i <= g
      BY <2>1, <2>3, <2>4
    <2> QED
      BY <1>1, <2>2, <2>3, <2>4, <2>5, InstantsAreOrdered
  <1> QED
    BY <1>2, <1>3

\* The empty store reaches; a statement keeps it so.
LEMMA RangeReachesNext ==
    /\ Init => RangeReaches
    /\ ViewInv /\ [Next]_vars => RangeReaches'
  <1>1. Init => RangeReaches
    BY DEF Init, RangeReaches, HistoryOf, EmptySnapshots
  <1>2. ASSUME ViewInv, [Next]_vars
        PROVE  RangeReaches'
    <2>0. /\ listing \in ListingTable /\ snapshot \in SnapshotTable
          /\ pending \in Observations \union {Null}
          /\ \A l \in ListingIds : HistoryOf(snapshot, l) # {} => listing[l] # Null
          /\ \A l \in ListingIds : \A i \in HistoryOf(snapshot, l) : i <= listing[l].last
          /\ pending # Null => pending.at <= listing[pending.listing].last
      BY <1>2 DEF ViewInv, RangeReaches, StoreInv, TypeInv, IdentityFirst, HistoryOf
    <2>1. ASSUME NEW o \in Observations, WriteIdentity(o)
          PROVE  RangeReaches'
      <3>1. o \in Observation /\ o.listing \in ListingIds
        BY ObservationsAreValid DEF Observation
      <3>2. PICK row \in ListingRow \union {Null} : row = listing[o.listing]
        BY <2>0, <3>1 DEF ListingTable
      <3>3. PICK new : new = MergedRow(row, o)
        OBVIOUS
      <3>4. /\ listing' = [listing EXCEPT ![o.listing] = new]
            /\ pending' = o /\ snapshot' = snapshot
        BY <2>1, <3>2, <3>3 DEF WriteIdentity, UpsertListing
      <3>5. /\ o.at <= new.last
            /\ row # Null => \A i \in Instants : i <= row.last => i <= new.last
        BY <3>1, <3>3, MergeReaches
      <3>6. /\ listing'[o.listing] = new
            /\ \A l \in ListingIds \ {o.listing} : listing'[l] = listing[l]
        BY <2>0, <3>1, <3>4 DEF ListingTable
      <3>7. \A l \in ListingIds : \A i \in HistoryOf(snapshot, l) : i <= listing'[l].last
        <4> TAKE l \in ListingIds
        <4> TAKE i \in HistoryOf(snapshot, l)
        <4>1. i \in Instants /\ listing[l] # Null /\ i <= listing[l].last
          BY <2>0 DEF HistoryOf
        <4> QED
          BY <3>2, <3>5, <3>6, <4>1
      <3> QED
        BY <3>4, <3>5, <3>6, <3>7 DEF RangeReaches, HistoryOf
    <2>2. ASSUME WriteSnapshot
          PROVE  RangeReaches'
      <3>1. PICK o \in Observations : o = pending /\ o # Null
        BY <2>0, <2>2 DEF WriteSnapshot
      <3>2. o \in Observation /\ o.listing \in ListingIds /\ o.at \in Instants
        BY ObservationsAreValid DEF Observation
      <3>3. /\ snapshot' = [snapshot EXCEPT ![o.listing] =
                               [snapshot[o.listing] EXCEPT ![o.at] = PointOf(o)]]
            /\ listing' = listing /\ pending' = Null
        BY <2>2, <3>1 DEF WriteSnapshot, AppendSnapshot
      <3>4. /\ \A l \in ListingIds \ {o.listing} : snapshot'[l] = snapshot[l]
            /\ \A i \in Instants \ {o.at} : snapshot'[o.listing][i] = snapshot[o.listing][i]
        BY <2>0, <3>2, <3>3 DEF SnapshotTable
      <3>5. \A l \in ListingIds, i \in Instants :
                snapshot'[l][i] # Null => i \in HistoryOf(snapshot, l) \/ (l = o.listing /\ i = o.at)
        BY <3>4 DEF HistoryOf
      <3>6. \A l \in ListingIds, i \in Instants :
                snapshot'[l][i] # Null => i <= listing[l].last
        BY <2>0, <3>1, <3>5
      <3> QED
        BY <3>3, <3>6 DEF RangeReaches, HistoryOf
    <2>3. CASE LoseSnapshot
      BY <2>0, <2>3 DEF LoseSnapshot, RangeReaches, HistoryOf
    <2>4. ASSUME NEW d \in Deals, UpsertDeal(d)
          PROVE  RangeReaches'
      BY <2>0, <2>4 DEF UpsertDeal, RangeReaches, HistoryOf
    <2>5. CASE UNCHANGED vars
      BY <2>0, <2>5 DEF vars, RangeReaches, HistoryOf
    <2> QED
      BY <1>2, <2>1, <2>2, <2>3, <2>4, <2>5 DEF Next
  <1> QED
    BY <1>1, <1>2

LEMMA ViewStaysSound == Spec => []ViewInv
  <1>1. Init => ViewInv
    BY StoreInvInit, RangeReachesNext DEF ViewInv
  <1>2. ViewInv /\ [Next]_vars => ViewInv'
    BY StoreInvNext, RangeReachesNext DEF ViewInv
  <1> QED
    BY <1>1, <1>2, PTL DEF Spec

\* The rows of a community have one order by their range and id.
LEMMA SeenIsOrdered ==
    ASSUME NEW t \in ListingTable, NEW c
    PROVE  StrictlyOrders(SeenBefore(t, ListForCommunity(t, c)), ListForCommunity(t, c))
  <1>1. PICK S : S = ListForCommunity(t, c)
    OBVIOUS
  <1>2. PICK R : R = SeenBefore(t, S)
    OBVIOUS
  <1>3. \A x \in S : x \in Int /\ t[x].last \in Int
    <2> TAKE x \in S
    <2>1. x \in ListingIds /\ t[x] # Null
      BY <1>1 DEF ListForCommunity
    <2>2. t[x] \in ListingRow
      BY <2>1 DEF ListingTable
    <2>3. t[x].last \in Instants
      BY <2>2 DEF ListingRow
    <2>4. x \in Nat
      BY <2>1, IdsAreNumbered
    <2>5. t[x].last \in Int
      BY <2>3, InstantsAreOrdered
    <2> QED
      BY <2>4, <2>5
  <1> DEFINE B(x, y) == (t[x].last > t[y].last) \/ (t[x].last = t[y].last /\ x < y)
  <1>4. \A x, y \in S : <<x, y>> \in R <=> B(x, y)
    BY <1>2 DEF SeenBefore
  <1>5. \A x \in S : <<x, x>> \notin R
    BY <1>3, <1>4
  <1>6. \A x, y \in S : x # y => <<x, y>> \in R \/ <<y, x>> \in R
    BY <1>3, <1>4
  <1>7. ASSUME NEW x \in S, NEW y \in S, NEW z \in S, <<x, y>> \in R, <<y, z>> \in R
        PROVE  <<x, z>> \in R
    <2>1. B(x, y) /\ B(y, z)
      BY <1>4, <1>7
    <2>2. B(x, z)
      BY <1>3, <2>1
    <2> QED
      BY <1>4, <2>2
  <1> QED
    BY <1>1, <1>2, <1>5, <1>6, <1>7, Zenon DEF StrictlyOrders

\* What a row of the view says of its listing.
LatestOf(h, l) ==
    IF HistoryOf(h, l) = {} THEN Null
    ELSE [at |-> Max(HistoryOf(h, l)), price |-> LastPoint(h, l).price,
          status |-> LastPoint(h, l).status]

\* The view in terms of the tables.
LEMMA ViewByTables ==
    ASSUME NEW t \in ListingTable, NEW h, NEW c
    PROVE  \E n \in Nat : \E held \in Bijection(1 .. n, ListForCommunity(t, c)) :
              /\ n = Cardinality(ListForCommunity(t, c))
              /\ DOMAIN CurrentListings(t, h, c) = 1 .. n
              /\ Len(CurrentListings(t, h, c)) = n
              /\ \A k \in 1 .. n :
                    /\ CurrentListings(t, h, c)[k].id = held[k]
                    /\ CurrentListings(t, h, c)[k].latest = LatestOf(h, held[k])
              /\ \A j, k \in 1 .. n : j <= k => t[held[k]].last <= t[held[j]].last
  <1>1. PICK S : S = ListForCommunity(t, c)
    OBVIOUS
  <1>2. S \subseteq ListingIds /\ IsFiniteSet(S)
    <2>1. S \in SUBSET ListingIds
      BY <1>1 DEF ListForCommunity
    <2> QED
      BY <2>1, KeysAreFinite, FS_Subset
  <1>3. PICK R : R = SeenBefore(t, S)
    OBVIOUS
  <1>4. StrictlyOrders(R, S)
    BY <1>1, <1>3, SeenIsOrdered
  <1>5. PICK n \in Nat : n = Cardinality(S)
    BY <1>2, FS_CardinalityType
  <1>6. PICK held : held = Metrics!Ranked(S, R)
    OBVIOUS
  <1>7. /\ held \in Bijection(1 .. n, S)
        /\ \A k \in 1 .. n : Cardinality(Below(S, R, held[k])) = k - 1
    BY <1>2, <1>4, <1>5, <1>6, RankedIs
  <1>8. \A k \in 1 .. n : held[k] \in S
    BY <1>7 DEF Bijection, Injection
  <1>9. DOMAIN held = 1 .. n /\ Len(held) = n
    BY <1>7 DEF Bijection, Injection
  <1>10. PICK view : view = CurrentListings(t, h, c)
    OBVIOUS
  <1>11. PICK latest : latest = LatestSnapshots(t, h, c)
    OBVIOUS
  <1>12. view = [k \in 1 .. n |->
                   [id |-> held[k],
                    latest |-> IF held[k] \in DOMAIN latest THEN latest[held[k]] ELSE Null]]
    BY <1>1, <1>3, <1>6, <1>9, <1>10, <1>11 DEF CurrentListings
  <1>13. DOMAIN view = 1 .. n /\ Len(view) = n
    BY <1>12
  <1>14. ASSUME NEW k \in 1 .. n
         PROVE  view[k].id = held[k] /\ view[k].latest = LatestOf(h, held[k])
    <2>1. PICK l \in S : l = held[k]
      BY <1>8
    <2>2. /\ view[k].id = l
          /\ view[k].latest = IF l \in DOMAIN latest THEN latest[l] ELSE Null
      BY <1>12, <2>1
    <2>3. l \in DOMAIN latest <=> HistoryOf(h, l) # {}
      BY <1>1, <1>11, <2>1 DEF LatestSnapshots
    <2>4. HistoryOf(h, l) # {} => LatestInstant(h, l) = Max(HistoryOf(h, l))
      BY <1>2, <2>1, HistoryEnds
    <2>5. HistoryOf(h, l) # {} =>
            latest[l] = [at |-> LatestInstant(h, l), price |-> h[l][LatestInstant(h, l)].price,
                         status |-> h[l][LatestInstant(h, l)].status]
      BY <1>1, <1>11, <2>1 DEF LatestSnapshots
    <2> QED
      BY <2>1, <2>2, <2>3, <2>4, <2>5 DEF LatestOf, LastPoint
  <1>15. ASSUME NEW j \in 1 .. n, NEW k \in 1 .. n, j <= k
         PROVE  t[held[k]].last <= t[held[j]].last
    <2>1. PICK x \in S : x = held[j]
      BY <1>8
    <2>2. PICK y \in S : y = held[k]
      BY <1>8
    <2>3. Cardinality(Below(S, R, x)) = j - 1 /\ Cardinality(Below(S, R, y)) = k - 1
      BY <1>7, <2>1, <2>2
    <2>4. ~ (k - 1 < j - 1)
      BY <1>15
    <2>5. <<y, x>> \notin R
      BY <1>2, <1>4, <2>3, <2>4, RanksAreTaken
    <2>6. ~ (t[y].last > t[x].last)
      BY <1>3, <2>5 DEF SeenBefore
    <2>7. t[x].last \in Int /\ t[y].last \in Int
      BY <1>1, InstantsAreOrdered DEF ListForCommunity, ListingTable, ListingRow
    <2> QED
      BY <2>1, <2>2, <2>6, <2>7
  <1> QED
    BY <1>1, <1>5, <1>7, <1>10, <1>13, <1>14, <1>15

\* The view and the report, read in different ways, agree; and the order by the
\* stored range agrees with the instants of the snapshots.
LEMMA ViewMatches == ViewInv => CurrentViewAgrees
  <1> SUFFICES ASSUME ViewInv, NEW c \in Communities
               PROVE  LET view  == CurrentListings(listing, snapshot, c)
                          stock == StockMetrics(listing, snapshot, c)
                          With(status) ==
                              {k \in DOMAIN view :
                                  view[k].latest # Null /\ view[k].latest.status = status}
                      IN  /\ {view[k].id : k \in DOMAIN view} = stock.ids
                          /\ Len(view) = stock.listings
                          /\ Cardinality({k \in DOMAIN view : view[k].latest = Null})
                                = stock.identity_only
                          /\ \A s \in Statuses : Cardinality(With(s)) = stock.statuses[s]
                          /\ \A j, k \in DOMAIN view : j <= k /\ view[k].latest # Null =>
                                view[k].latest.at <= listing[view[j].id].last
    BY DEF CurrentViewAgrees
  <1>1. PICK t \in ListingTable : t = listing
    BY DEF ViewInv, StoreInv, TypeInv
  <1>2. PICK h \in SnapshotTable : h = snapshot
    BY DEF ViewInv, StoreInv, TypeInv
  <1>3. PICK S : S = ListForCommunity(t, c)
    OBVIOUS
  <1>4. PICK seen : seen = SeenOf(t, h, c)
    OBVIOUS
  <1>5. PICK stock : stock = StockMetrics(t, h, c)
    OBVIOUS
  <1>6. /\ IsFiniteSet(S) /\ seen \in SUBSET S
        /\ stock.listings = Cardinality(S)
        /\ stock.identity_only = Cardinality(S) - Cardinality(seen)
        /\ stock.statuses =
              [s \in Statuses |-> Cardinality({l \in seen : LastPoint(h, l).status = s})]
        /\ stock.ids = S
    <2>1. PICK twice : twice = TwiceOf(t, h, c)
      OBVIOUS
    <2>2. IsStockOf(stock, h, S, seen, twice)
      BY <1>3, <1>4, <1>5, <2>1, StockByTables
    <2>3. stock.ids = S
      BY <1>3, <1>5, StockIs
    <2> QED
      BY <2>2, <2>3 DEF IsStockOf
  <1>7. PICK view : view = CurrentListings(t, h, c)
    OBVIOUS
  <1> DEFINE Places(n, held) ==
                /\ n = Cardinality(S)
                /\ DOMAIN view = 1 .. n
                /\ Len(view) = n
                /\ \A k \in 1 .. n : /\ view[k].id = held[k]
                                     /\ view[k].latest = LatestOf(h, held[k])
                /\ \A j, k \in 1 .. n : j <= k => t[held[k]].last <= t[held[j]].last
  <1>7a. PICK n \in Nat : \E held \in Bijection(1 .. n, S) : Places(n, held)
    BY <1>3, <1>7, ViewByTables
  <1>8. PICK held \in Bijection(1 .. n, S) : Places(n, held)
    BY <1>7a
  <1>9. /\ \A k \in 1 .. n : held[k] \in S
        /\ \A l \in S : \E k \in 1 .. n : held[k] = l
    BY DEF Bijection, Injection, Surjection
  <1>10. \A l \in S : /\ l \in ListingIds /\ t[l] # Null
                      /\ l \in seen <=> HistoryOf(h, l) # {}
    BY <1>3, <1>4 DEF ListForCommunity, SeenOf
  <1>11. ASSUME NEW l \in S
         PROVE  /\ LatestOf(h, l) = Null <=> l \notin seen
                /\ l \in seen => /\ LatestOf(h, l).status = LastPoint(h, l).status
                                 /\ LatestOf(h, l).at \in HistoryOf(h, l)
    <2>1. CASE l \notin seen
      BY <1>10, <2>1 DEF LatestOf
    <2>2. CASE l \in seen
      <3>1. l \in ListingIds /\ HistoryOf(h, l) # {}
        BY <1>10, <2>2
      <3>2. PICK i \in HistoryOf(h, l) : i = Max(HistoryOf(h, l))
        BY <3>1, HistoryEnds
      <3>3. i \in Instants
        BY DEF HistoryOf
      <3>4. LastPoint(h, l) \in SnapshotPoint
        BY <3>1, <3>2 DEF HistoryOf, LastPoint, SnapshotTable
      <3>5. LatestOf(h, l) = [at |-> i, price |-> LastPoint(h, l).price,
                              status |-> LastPoint(h, l).status]
        BY <3>1, <3>2 DEF LatestOf
      <3>6. LatestOf(h, l) \in [at : Instants, price : Prices, status : Statuses]
        BY <3>3, <3>4, <3>5 DEF SnapshotPoint
      <3> QED
        BY <2>2, <3>5, <3>6, NullIsNoSnapshot
    <2> QED
      BY <2>1, <2>2
  <1>12. {view[k].id : k \in DOMAIN view} = S
    BY <1>8, <1>9
  <1>13. Cardinality({k \in DOMAIN view : view[k].latest = Null}) = stock.identity_only
    <2>1. {k \in DOMAIN view : view[k].latest = Null} = {k \in 1 .. n : held[k] \in S \ seen}
      BY <1>8, <1>9, <1>11
    <2>2. S \ seen \in SUBSET S
      OBVIOUS
    <2>3. Cardinality({k \in 1 .. n : held[k] \in S \ seen}) = Cardinality(S \ seen)
      BY <1>6, <1>8, <2>2, PlacesOf
    <2>4. Cardinality(S \ seen) = Cardinality(S) - Cardinality(seen)
      BY <1>6, RestCounts
    <2> QED
      BY <1>6, <2>1, <2>3, <2>4
  <1>14. ASSUME NEW s \in Statuses
         PROVE  Cardinality({k \in DOMAIN view :
                               view[k].latest # Null /\ view[k].latest.status = s})
                    = stock.statuses[s]
    <2>1. PICK A : A = {l \in seen : LastPoint(h, l).status = s}
      OBVIOUS
    <2>2. A \in SUBSET S
      BY <1>6, <2>1
    <2>3. {k \in DOMAIN view : view[k].latest # Null /\ view[k].latest.status = s}
             = {k \in 1 .. n : held[k] \in A}
      BY <1>8, <1>9, <1>11, <2>1
    <2>4. Cardinality({k \in 1 .. n : held[k] \in A}) = Cardinality(A)
      BY <1>6, <1>8, <2>2, PlacesOf
    <2> QED
      BY <1>6, <2>1, <2>3, <2>4
  <1>15. ASSUME NEW j \in DOMAIN view, NEW k \in DOMAIN view, j <= k, view[k].latest # Null
         PROVE  view[k].latest.at <= t[view[j].id].last
    <2>1. PICK x \in S : x = held[j] /\ x = view[j].id
      BY <1>8, <1>9
    <2>2. PICK y \in S : y = held[k] /\ view[k].latest = LatestOf(h, y)
      BY <1>8, <1>9
    <2>3. PICK i \in HistoryOf(h, y) : i = view[k].latest.at
      BY <1>11, <1>15, <2>2
    <2>4. i <= t[y].last
      <3>1. \A l \in ListingIds : \A at \in HistoryOf(h, l) : at <= t[l].last
        BY <1>1, <1>2 DEF ViewInv, RangeReaches
      <3> QED
        BY <1>10, <3>1
    <2>5. t[y].last <= t[x].last
      BY <1>8, <1>15, <2>1, <2>2
    <2>6. i \in Int /\ t[x].last \in Int /\ t[y].last \in Int
      <3>1. t[x] \in ListingRow /\ t[y] \in ListingRow
        BY <1>10 DEF ListingTable
      <3>2. t[x].last \in Instants /\ t[y].last \in Instants /\ i \in Instants
        BY <3>1 DEF ListingRow, HistoryOf
      <3> QED
        BY <3>2, InstantsAreOrdered
    <2> QED
      BY <2>1, <2>3, <2>4, <2>5, <2>6
  <1>16. Len(view) = stock.listings
    BY <1>6, <1>8
  <1> QED
    BY <1>1, <1>2, <1>5, <1>6, <1>7, <1>12, <1>13, <1>14, <1>15, <1>16

\* Every modelled number of a report can be recomputed: the counts, the share
\* of cuts, the latest instant and date, the four medians and how many values each
\* rests on; and the current view tells the same.
THEOREM MetricsMatch == Spec => []MetricsMatchTheTables
  <1>1. ViewInv => /\ CountsMatchTheTables /\ DatesAreNewest
                   /\ MediansAreMiddle /\ CurrentViewAgrees
    BY CountsMatch, DatesMatch, MediansMatch, ViewMatches DEF ViewInv
  <1> QED
    BY <1>1, ViewStaysSound, HalvesAddUp, PTL DEF MetricsMatchTheTables
=============================================================================
