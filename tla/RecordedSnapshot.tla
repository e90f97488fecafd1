-------------------------- MODULE RecordedSnapshot --------------------------
(***************************************************************************)
(* A recorded snapshot file and load_snapshot_document                     *)
(* (providers/lianjia/recorded.py).  Another program writes the file, so   *)
(* it may be missing, half written or of the wrong shape at any call.      *)
(***************************************************************************)
EXTENDS LianjiaCells

\* The stages of load_snapshot_document at which a file fails, or none.
FileStates == {"missing", "not_utf8", "not_json", "not_object", "object"}

\* The batch fields of the document: Null for one that is absent or invalid.
File == [state : FileStates,
         community : STRING \union {Null},
         at : Int \union {Null},                \* collected_at, snapshot_at
         rows : Seq(Seq(Entry) \union {Null}) \union {Null}]

IsDocument(file) == file.state = "object"
=============================================================================
