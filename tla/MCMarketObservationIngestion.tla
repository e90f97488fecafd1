-------------------- MODULE MCMarketObservationIngestion --------------------
(***************************************************************************)
(* Publications for TLC: months, a quarter, a correction, an id that two   *)
(* cities share, and batches that mix them.                                *)
(***************************************************************************)
EXTENDS MarketObservationIngestion

CONSTANTS o1, o2, c1, c2, g, v, w

January   == [id |-> o1, city |-> c1, code |-> g, start |-> 1, end |-> 1, value |-> v]
Corrected == [January EXCEPT !.code = Null, !.start = 2, !.end = 2, !.value = w]
Quarter   == [id |-> o2, city |-> c1, code |-> Null, start |-> 1, end |-> 3, value |-> v]
March     == [Quarter EXCEPT !.start = 3]
Elsewhere == [January EXCEPT !.city = c2]

MCBatches == {
    <<>>,                           \* nothing is published
    <<January, Quarter>>,
    <<January, Corrected>>,         \* one id twice
    <<March, Corrected>>,           \* a later publication of both
    <<Elsewhere>>,                  \* an id of c1, published for c2
    <<January, Elsewhere>>          \* a stray second observation
}
=============================================================================
