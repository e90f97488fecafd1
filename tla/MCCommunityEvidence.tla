-------------------------- MODULE MCCommunityEvidence --------------------------
(***************************************************************************)
(* Evidence for TLC: listings that are cut, raised, unchanged and moved,   *)
(* one that claims another's native identity, and enough of everything for *)
(* a median of two and of three.                                           *)
(***************************************************************************)
EXTENDS CommunityEvidence

CONSTANTS c1, c2

Seen(l, n, i, p) ==
    [listing |-> l, native |-> n, community |-> c1,
     first |-> i, last |-> i, at |-> i, price |-> p, status |-> "active"]

MCObservations == {
    Seen(1, 1, 1, 10),
    Seen(1, 1, 2, 8),                                           \* cut
    [Seen(1, 1, 2, 10) EXCEPT !.community = c2,                 \* unchanged, moved
                              !.status = "withdrawn"],
    Seen(2, 2, 1, 5), Seen(2, 2, 2, 6),                         \* raised
    Seen(3, 3, 1, 10),                                          \* seen once
    [Seen(3, 1, 1, 5) EXCEPT !.community = c2]                  \* claims 1's identity
}

Sold(t, day, price, initial) ==
    [id |-> t, community |-> c1, date |-> day, price |-> price, initial |-> initial]

MCDeals == {
    Sold(1, 1, 9, 10),
    [Sold(1, 2, 9, 10) EXCEPT !.community = c2],                \* the same deal, moved
    Sold(2, 1, 12, 10), Sold(3, 3, 9, Null)
}

MCListingOrder  == <<3, 1, 2>>
MCDealOrder     == <<2, 1, 3>>
MCSnapshotOrder == <<<<1, 1>>, <<1, 2>>, <<2, 1>>, <<2, 2>>, <<3, 1>>, <<3, 2>>>>
=============================================================================
