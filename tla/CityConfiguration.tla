------------------------- MODULE CityConfiguration -------------------------
(***************************************************************************)
(* From the text of a city profile to a transaction provider:              *)
(* parse_yaml_mapping (config/yaml_mapping.py), load_city_profile          *)
(* (config/city_profile.py) and build_transaction_provider                 *)
(* (config/composition.py).                                                *)
(*                                                                         *)
(* A line is what the reader recognizes in it; white space, comments and   *)
(* the quotes around a value are left out.                                 *)
(***************************************************************************)
EXTENDS Integers, Sequences

CONSTANTS
    Null,       \* None
    LianjiaName \* LIANJIA_SOURCE, the one registered provider

\* "blank" stands for comments, too; "unsupported" for a tab, a sequence, a line
\* without a colon and one without a key.  A section header has the value Null.
Line == [shape : {"blank", "unsupported", "entry"}, indent : Nat,
         key : STRING, value : STRING \union {Null}]

-----------------------------------------------------------------------------
(* parse_yaml_mapping *)

\* f with the value v under the key k.
Put(f, k, v) == [x \in DOMAIN f \union {k} |-> IF x = k THEN v ELSE f[x]]

NoEntries == [x \in {} |-> Null]

\* What the root holds under a key: a scalar, or the entries of a section.
Scalar(v)  == [scalar |-> v, entries |-> NoEntries]
Section(e) == [scalar |-> Null, entries |-> e]

\* The reader between two lines: section is the key of the open one, or Null.
Opening == [root |-> NoEntries, section |-> Null, indent |-> Null, failed |-> FALSE]

Failed(s) == [s EXCEPT !.failed = TRUE]

\* Slip: a scalar at the top level leaves the section before it open.
ReadTopLevelKeepingSection(s, line) ==
    IF line.key \in DOMAIN s.root THEN Failed(s)
    ELSE IF line.value = Null
         THEN [s EXCEPT !.root = Put(@, line.key, Section(NoEntries)),
                        !.section = line.key, !.indent = Null]
         ELSE [s EXCEPT !.root = Put(@, line.key, Scalar(line.value))]

ReadTopLevel(s, line) ==
    IF line.key \in DOMAIN s.root THEN Failed(s)
    ELSE IF line.value = Null
         THEN [s EXCEPT !.root = Put(@, line.key, Section(NoEntries)),
                        !.section = line.key, !.indent = Null]
         ELSE [s EXCEPT !.root = Put(@, line.key, Scalar(line.value)),
                        !.section = Null, !.indent = Null]

\* No open section, another indentation, a deeper level, a duplicate: refused.
ReadSectionEntry(s, line) ==
    IF \/ s.section = Null
       \/ s.indent # Null /\ line.indent # s.indent
       \/ line.value = Null
       \/ line.key \in DOMAIN s.root[s.section].entries
    THEN Failed(s)
    ELSE LET entries == Put(s.root[s.section].entries, line.key, line.value)
         IN  [s EXCEPT !.indent = line.indent, !.root = Put(@, s.section, Section(entries))]

ReadLine(s, line) ==
    IF s.failed \/ line.shape = "blank" THEN s
    ELSE IF line.shape = "unsupported" THEN Failed(s)
    ELSE IF line.indent = 0 THEN ReadTopLevel(s, line)
    ELSE ReadSectionEntry(s, line)

\* The reader after the last line.
ReadLines(lines) ==
    LET after[k \in 0 .. Len(lines)] ==
            IF k = 0 THEN Opening ELSE ReadLine(after[k - 1], lines[k])
    IN  after[Len(lines)]

\* The mapping of a text, or Null where parse_yaml_mapping raises.
ParseYamlMapping(lines) ==
    LET end == ReadLines(lines)
    IN  IF end.failed THEN Null ELSE end.root

-----------------------------------------------------------------------------
(* CityProfile *)

Names == {"transactions", "listings", "geospatial", "market", "planning", "research"}
OptionalFields == {"country_code", "display_name", "timezone", "currency"}

\* A string of at least one character.
IsText(item) == item.scalar \notin {Null, ""}

ValidProviders(root) ==
    "providers" \in DOMAIN root =>
        /\ root["providers"].scalar = Null
        /\ \A n \in Names \intersect DOMAIN root["providers"].entries :
              root["providers"].entries[n] # ""

ValidProfile(root) ==
    /\ "city_code" \in DOMAIN root
    /\ IsText(root["city_code"])
    /\ \A f \in OptionalFields \intersect DOMAIN root : IsText(root[f])
    /\ ValidProviders(root)

\* The name of the transactions provider, or Null.
TransactionsName(root) ==
    IF "providers" \in DOMAIN root /\ "transactions" \in DOMAIN root["providers"].entries
    THEN root["providers"].entries["transactions"] ELSE Null

\* load_city_profile: the profile, or Null where it raises CityProfileError.
\* Null for lines is a file that cannot be read as text.
LoadCityProfile(lines, city) ==
    LET root == IF lines = Null THEN Null ELSE ParseYamlMapping(lines)
    IN  IF root = Null THEN Null
        ELSE IF ~ ValidProfile(root) THEN Null
        ELSE IF root["city_code"].scalar # city THEN Null
        ELSE [city_code |-> city, transactions |-> TransactionsName(root)]

\* build_transaction_provider: a provider is built, or an error is raised.
\* isPath: a snapshot path is set; isFile: it names an existing file.
BuildTransactionProvider(profile, isPath, isFile) ==
    /\ profile.transactions = LianjiaName
    /\ isPath
    /\ isFile
=============================================================================
