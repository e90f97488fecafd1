---------------------------- MODULE MCRecordLife ----------------------------
(***************************************************************************)
(* Profiles, snapshot files and a grid of records around the edges of      *)
(* every check, and the windows of a request (TransactionIngestionRequest  *)
(* refuses start > end).                                                   *)
(***************************************************************************)
EXTENDS RecordLife

Days == {1, 2, 3}

\* Times an area of 7 these are 49, 70 and 77: two percent below a price of 50,
\* which is still tolerated, equal to 70, within and beyond two percent of 71.
UnitPrices == {Null} \union [num : {-1, 0, 7, 10, 11}, den : {1}]

MCCases ==
    [native : {"s1", Null}, deal_date : Days \union {4, Null}, collected : {2},
     area : {Null, 0, 7}, deal_price : {Null, 0, 50, 70, 71},
     listing_price : {Null, 0, 80}, days_on_market : {Null, -1, 0},
     unit_price : UnitPrices, built_year : {Null, 1799, 2200},
     floor_bucket : {"low", "basement"}]

MCWindows ==
    {w \in [start : Days \union {Null}, end : Days \union {Null}] :
        w.start # Null /\ w.end # Null => w.start <= w.end}

-----------------------------------------------------------------------------
(* Profiles *)

Line(indent, key, value) ==
    [shape |-> "entry", indent |-> indent, key |-> key, value |-> value]
Other(shape) == [Line(0, "", Null) EXCEPT !.shape = shape]

TheCity      == Line(0, "city_code", "shanghai")
Providers    == Line(0, "providers", Null)
Transactions == Line(2, "transactions", "lianjia")

MCProfiles == {
    Null,
    <<>>,
    <<TheCity, Other("blank"), Providers, Other("blank"), Transactions>>,
    <<Providers, Line(2, "listings", "lianjia"), Transactions, TheCity>>,
    <<TheCity, Providers, Line(2, "transactions", "anjuke")>>,
    <<TheCity, Providers, Line(2, "transactions", "")>>,
    <<TheCity, Providers>>,
    <<TheCity, Line(0, "providers", "lianjia")>>,
    <<TheCity, Line(0, "benchmarks", Null), Transactions>>,
    <<TheCity, Providers, Line(0, "units", Null), Transactions>>,
    <<Providers, TheCity, Transactions>>,                   \* after a scalar
    <<TheCity, Transactions, Providers>>,
    <<TheCity, Providers, Transactions, Line(2, "transactions", "anjuke")>>,
    <<TheCity, Providers, Transactions, Line(4, "listings", "lianjia")>>,
    <<TheCity, Providers, Transactions, Line(2, "listings", Null)>>,
    <<TheCity, Providers, Transactions, Providers, Line(2, "listings", "lianjia")>>,
    <<TheCity, Providers, Other("unsupported"), Transactions>>,
    <<Line(0, "city_code", "beijing"), Providers, Transactions>>,
    <<Line(0, "city_code", Null), Providers, Transactions>>,
    <<TheCity, Line(0, "currency", ""), Providers, Transactions>>
}

-----------------------------------------------------------------------------
(* Snapshot files *)

Plain     == [name |-> "s1", numbers |-> <<>>, tokens |-> {}, buckets |-> {},
              statuses |-> {}, day |-> Null, instant |-> Null]
Num(n, u) == [Plain EXCEPT !.numbers = <<n>>, !.tokens = u]
Day(d)    == [Plain EXCEPT !.day = d]
Floor(b)  == [Plain EXCEPT !.buckets = b]

On(field, alias, cell) == [field |-> field, alias |-> alias, cell |-> cell]

\* 2 square metres for 0.2 万元, that is 1000 元 per square metre: small enough for
\* TLC's integers.
Base == <<On("id", 1, Plain), On("deal_date", 1, Day(2)), On("area", 1, Num(20, {"area"})),
          On("deal_price", 1, Num(2, {"wan"})), On("layout", 1, Plain)>>

With(e) == Append(Base, e)                  \* with a later entry
\* Without the entries of a field, and with others before the rest.
Instead(field, es) == es \o SelectSeq(Base, LAMBDA e : e.field # field)

Batch(rows) == [state |-> "object", community |-> Null, at |-> 2, rows |-> rows]

MCFiles == {
    [Batch(Null) EXCEPT !.state = "missing"],
    [Batch(Null) EXCEPT !.state = "not_json"],
    Batch(Null),
    [Batch(<<Base>>) EXCEPT !.at = Null],
    Batch(<<>>),
    Batch(<<Base, Instead("id", <<>>), Instead("id", <<On("id", 1, Boolean)>>),
            Instead("id", <<On("id", 2, Plain), On("id", 1, Marker)>>), Null, Base>>),
    Batch(<<Instead("deal_price", <<On("deal_price", 1, Num(20000, {"yuan"}))>>),
            Instead("deal_price", <<On("deal_price", 1, Num(2, {"wan", "per", "area"}))>>),
            Instead("deal_price", <<On("deal_price", 2, Num(2, {})), On("deal_price", 1, Marker)>>),
            Instead("deal_price", <<On("deal_price", 2, Num(3, {})), On("deal_price", 3, Num(4, {}))>>),
            With(On("deal_price", 1, Num(0, {"wan"})))>>),
    Batch(<<With(On("deal_date", 1, Plain)), With(On("deal_date", 1, Day(3))),
            With(On("area", 1, [Plain EXCEPT !.numbers = <<20, 20>>])),
            With(On("area", 1, Num(-20, {}))), With(On("area", 1, Boolean))>>),
    Batch(<<With(On("unit_price", 1, Num(10000, {"yuan", "per", "area"}))),
            With(On("unit_price", 1, Num(1, {"wan"}))), With(On("unit_price", 2, Null)),
            With(On("listing_price", 1, Num(4, {}))), With(On("listing_price", 3, Num(0, {"day"})))>>),
    Batch(<<With(On("days_on_market", 1, Num(55, {"day"}))),
            With(On("days_on_market", 1, Num(-30, {"day"}))),
            With(On("built_year", 1, Num(17990, {"year"}))),
            With(On("title", 1, Boolean)),                          \* not asked
            Instead("layout", <<On("title", 1, Boolean)>>)>>),
    Batch(<<With(On("floor", 1, Floor({"low"}))), With(On("floor", 1, Floor({}))),
            With(On("orientation", 1, Boolean)), With(On("floor", 1, Marker))>>)
}
=============================================================================
