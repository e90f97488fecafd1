------------------------- MODULE MCRecordedListings -------------------------
(***************************************************************************)
(* Snapshot files for TLC: readable and not, of either community, with     *)
(* rows at the edges of the row parser.                                    *)
(***************************************************************************)
EXTENDS RecordedListings, TLC

MCIds == ("n1" :> "l1") @@ ("n2" :> "l2")

Plain(name) == [name |-> name, numbers |-> <<>>, tokens |-> {}, buckets |-> {},
                statuses |-> {}, day |-> Null, instant |-> Null]

Num(n, tokens) == [Plain("n2") EXCEPT !.numbers = <<n>>, !.tokens = tokens]
At(i)          == [Plain("n2") EXCEPT !.instant = i]
Wording(s)     == [Plain("n2") EXCEPT !.statuses = s]

On(field, alias, cell) == [field |-> field, alias |-> alias, cell |-> cell]

\* A listing with its price in tenths of 万元.
Row(name, price) ==
    <<On("id", 1, Plain(name)), On("list_price", 1, Num(price, {"wan"})),
      On("status", 1, Wording({"active"}))>>

Rows == [
    first    |-> Row("n1", 30),
    other    |-> SubSeq(Row("n2", 55), 1, 2),               \* of no status
    later    |-> Row("n1", 28) \o <<On("snapshot_at", 1, At(2))>>,
    sold     |-> <<On("id", 2, Plain("n1")), On("list_price", 2, Num(28, {})),
                   On("status", 1, Wording({"active", "withdrawn"}))>>,
    yuan     |-> <<On("id", 1, Plain("n1")), On("list_price", 1, Num(40, {"yuan"}))>>,
    shadowed |-> <<On("id", 1, Plain("n2")), On("list_price", 2, Num(30, {})),
                   On("list_price", 1, Marker)>>,
    free     |-> Row("n1", 0),
    nameless |-> <<On("id", 1, Marker)>> \o Tail(Row("n1", 30))]

Document(community, rows) ==
    [state |-> "object", community |-> community, at |-> 1, rows |-> rows]

MCFiles == {
    [Document(Null, Null) EXCEPT !.state = "not_json", !.at = Null],  \* half written
    Document("c1", Null),                                     \* no rows
    Document("c1", <<>>),                                     \* nothing is listed
    Document("c1", <<Rows.first, Rows.other>>),
    Document("c1", <<Rows.later, Rows.first>>),               \* newest first
    Document("c1", <<Rows.nameless, Rows.yuan>>),             \* all rejected
    Document("c1", <<Rows.shadowed, Rows.sold>>),
    Document("c2", <<Rows.free, Rows.later>>)                 \* n1 listed there, too
}
=============================================================================
