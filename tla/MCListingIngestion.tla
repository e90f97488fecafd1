------------------------- MODULE MCListingIngestion -------------------------
(***************************************************************************)
(* Batches for TLC, one per hazard of ListingIngestion.                    *)
(***************************************************************************)
EXTENDS ListingIngestion, TLC

CONSTANTS l1, l2, n1, n2, c1, c2, p1, p2

Seen(l, n, c, i, p, s) ==
    [listing |-> l, native |-> n, community |-> c,
     first |-> i, last |-> i, at |-> i, price |-> p, status |-> s]

Early == Seen(l1, n1, c1, 1, p1, "active")
Late  == Seen(l1, n1, c1, 2, p2, "withdrawn")
Other == Seen(l2, n2, c1, 1, p1, "active")

MCBatches == {
    <<>>,                                           \* nothing is listed
    <<Early, Other>>,                               \* two listings
    <<Late, Early>>,                                \* one listing, newest first
    <<Early, [Early EXCEPT !.price = p2]>>,         \* one instant, two prices
    <<[Late EXCEPT !.first = 1]>>,                  \* a range wider than its instant
    <<[Late EXCEPT !.community = c2]>>,             \* l1 in a page of c2
    <<Early, [Other EXCEPT !.community = c2]>>,     \* a stray second row
    <<Early, Seen(l2, n1, c1, 2, p1, "active")>>    \* l2 claims the native id of l1
}

\* Calls differ in nothing but their name.
CallSymmetry == Permutations(Calls)

\* For the run that needs one pattern only.
BackfillBatches == {<<Late>>, <<Early>>}
=============================================================================
