----------------------- MODULE MCTransactionIngestion -----------------------
(***************************************************************************)
(* Two sources, two days, and fetch results with each kind of trouble.     *)
(***************************************************************************)
EXTENDS TransactionIngestion

CONSTANTS x, y, c1, c2

\* A record that passes every gate on its day.
Good(s, day, price) ==
    [native |-> s, deal_date |-> day, collected |-> 2, area |-> 7,
     deal_price |-> price, listing_price |-> Null, days_on_market |-> Null,
     unit_price |-> Null, built_year |-> Null, floor_bucket |-> "low"]

Fetched(records, lost) ==
    [records |-> records, parse_rejections |-> lost, rows |-> Len(records) + lost]

MCFetches == {
    Fetched(<<>>, 1),
    \* a bad first record of s1, then two good ones around s2
    Fetched(<<[Good("s1", 1, 70) EXCEPT !.area = 0],
              [Good("s1", 1, 70) EXCEPT !.listing_price = 75],
              Good("s2", 2, 50), Good("s1", 2, 80)>>, 0),
    \* the order reversed; no identity; paging artefacts among the rows
    [Fetched(<<Good("s2", 2, 60), Good("s1", 1, 90),
               [Good("s1", 1, 70) EXCEPT !.native = Null]>>, 1) EXCEPT !.rows = 6]
}

MCWindows == {NoWindow, [start |-> 2, end |-> 2]}
=============================================================================
