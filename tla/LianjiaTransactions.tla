------------------------ MODULE LianjiaTransactions ------------------------
(***************************************************************************)
(* The Lianjia transaction row parser                                      *)
(* (providers/lianjia/transaction_parser.py) and the document that         *)
(* RecordedLianjiaTransactionProvider replays.  What it makes of a row is  *)
(* a RawTransactionRecord of TransactionNormalization; amounts and areas   *)
(* stay in tenths, which the ratio of a unit price cancels.                *)
(***************************************************************************)
EXTENDS RecordedSnapshot

\* The fields in the order in which parse_transaction_row converts them.
TransactionFields ==
    <<"deal_date", "area", "layout", "title", "floor", "orientation",
      "built_year", "listing_price", "deal_price", "unit_price", "days_on_market">>

UnitPriceRatio(n) == IF n = Null THEN Null ELSE [num |-> n, den |-> 10]

RecordOf(row, collected) ==
    [native |-> Value(row, "id"), deal_date |-> Value(row, "deal_date"),
     collected |-> collected, area |-> Value(row, "area"),
     deal_price |-> Value(row, "deal_price"),
     listing_price |-> Value(row, "listing_price"),
     days_on_market |-> Value(row, "days_on_market"),
     unit_price |-> UnitPriceRatio(Value(row, "unit_price")),
     built_year |-> Value(row, "built_year"),
     floor_bucket |-> Value(row, "floor")]

\* parse_transaction_row, and the outcome's place in the ParseResult.  The DTO
\* is permissive: it refuses nothing that the converters return.
ParseTransactionRow(p, row, collected) ==
    LET refusal == Refusal(row, TransactionFields, Taken(p) + 1)
    IN  IF refusal = Null THEN WithRecord(p, RecordOf(row, collected))
        ELSE WithRejection(p, refusal)

\* load_transaction_snapshot; Null: LianjiaSnapshotError.
LoadTransactionSnapshot(file) ==
    IF IsDocument(file) /\ file.at # Null /\ file.rows # Null
    THEN [at |-> file.at, rows |-> file.rows]
    ELSE Null
=============================================================================
