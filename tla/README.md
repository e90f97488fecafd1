# A verification of cn-property-agent in TLA+

cn-property-agent collects evidence about residential property: providers
deliver transactions, listings and market figures, ingestion services gate and
store them in a DuckDB file, query services and pure analytics read them back.
A second program in the repository, the Claude task runner, turns a GitHub
issue into a branch and a pull request on a self-hosted machine. Both are
modelled here, the ingestion side first, since everything else reads what it
stores.

Paths below are relative to the repository; `services/` and so on stand for
`src/cn_property_agent/services/` and so on.

## 1. Inventory

| Component | State | Operations | Interacts with |
|---|---|---|---|
| Listing store (`storage/repositories.py:217`, `storage/schema.py:32`) | tables `listing`, `listing_snapshot` | `upsert_listing`, `append_snapshot`, five reads | written by listing ingestion, read by listing queries |
| Listing ingestion (`services/listing_ingestion.py`) | the frame of each `ingest()` call | fetch (await), community guard, identity and snapshot per observation | provider, listing store |
| Transaction normalization (`services/transaction_normalization.py`) | none: pure | eleven gates, derivation, coercion | called once per record by transaction ingestion |
| Transaction ingestion and store (`services/transaction_ingestion.py`, `storage/repositories.py:132`) | frame of each call, table `property_transaction` | fetch (await), normalize, deduplicate, upsert, report | provider, normalization |
| Claude task runner (`scripts/run-claude-task.sh`, `.github/workflows/claude-task.yml`) | working tree, local branch with its upstream, remote branch, pull request | checkout, restore, Claude, checks, strip, commit, push, pull request, recovery | GitHub, git, Claude |
| Market observation ingestion and store (`services/market_observation_ingestion.py`) | frame, table `market_observation` | fetch, city guard, upsert | provider |
| Community store and resolver (`services/community_resolver.py`) | tables `community`, `entity_alias` | upsert, alias, resolve | used before any ingestion |
| Query services (`services/*_query.py`) | none | synchronous reads with windows and freshness | stores |
| Analytics (`analytics/`) | none | transaction metrics, listing metrics | values the queries return |
| Community evidence (`services/community_evidence.py`) | none | assembles metrics and checks that they belong together | analytics |
| Lianjia parsing (`providers/parsing.py`, `providers/lianjia/*_parser.py`, `values.py`) | none: pure | a row becomes a record or a rejection | the recorded providers |
| Recorded providers (`providers/lianjia/recorded*.py`) | none; a file that another program writes | read the document, check it, parse it | answer the ingestion calls |
| Configuration and composition (`config/`) | none after start | YAML text to profile to provider | start-up |
| Agent, API, MCP, jobs | none | placeholders | |

How they interact. One process opens one DuckDB file and runs asyncio. An
`ingest()` coroutine has exactly one `await`, the provider's answer; after it,
every statement is synchronous, so no other coroutine runs until the call
returns or raises. Every statement is autocommitted: no transaction spans two.
So calls overlap while they wait, batches do not interleave, and a raise or the
death of the process leaves a prefix of a batch behind.

Hard behaviours, each a hazard of `PROJECT.json`:

- a raise or a crash between the two statements of an observation, or between
  two rows of a batch, and the replay that has to repair it;
- snapshots that arrive out of order, twice, or contradict one another;
- bad, good and duplicate records of one identity in one batch;
- gates at their inclusive edges, and values derived once and gated later;
- a snapshot file that is replaced, truncated or removed at any moment, and rows
  in it whose fields have several names, no value, or the wrong unit;
- a profile whose sections are easily mistaken for one another;
- communities that are registered, renamed, moved and aliased after an answer
  was given from them;
- reports computed from tables that a half-applied batch left out of step, or
  between whose subjects a listing moved;
- a runner whose every command may fail, succeed without saying so, or be
  killed, and a recovery that infers from three git facts what is safe.

What makes each component correct:

- Listing store and ingestion: identity before history, a seen range that spans
  the history, nothing outside the requested community, batches indivisible for
  the other coroutines, replays that converge.
- Normalization: accepted means plausible, windows compose, a refresh is stable,
  the schema is only the last resort.
- Parsing: every row becomes one record or one rejection that names it and that
  it gives cause for, and a record says what its row says, under the first alias
  and in the unit the row names.
- Recorded providers: a broken or foreign file is an error and never an empty
  market; what is stored was recorded; ids follow native identities.
- Configuration: a provider is built from what the profile says, or not at all.
- Transaction ingestion: each record accounted for once, the first acceptable
  one wins, rows are whole accepted records, reports match the table.
- Runner: protected changes are kept off the branch as far as the strip sees
  them, concluded means durable, attempts build on one another and end.
- Market observations: rows are whole publications of a city that was asked
  for, results describe the table, windows do not mix periods.
- Resolver: within the city, by present names, no contradicted winner, and a
  confirmed answer is never silently exchanged for another.
- Analytics and evidence: given in every state ingestion can leave, recomputable
  from the tables, a partition of them over the communities, independent of
  order and repetition.

## 2. Modules

| Module | Models | Correspondence |
|---|---|---|
| `ListingStore` | two tables, two statements, their keys, a batch as a run of statements | a table is a function from its key to a row or `Null`; `UpsertListing` and `AppendSnapshot` are the statements |
| `BatchIngestion` | what a batch store promises | abstract: a call stores one whole batch in one step, or ends and leaves a prefix |
| `ListingIngestion` | `ListingIngestionService.ingest` | `ingest[c]` is the frame of a call; one action up to the `await`, one per outcome of the answer, one per statement |
| `TransactionNormalization` | `normalize_transaction` | `Verdict` is the chain of gates, `TransactionOf` the value that is built |
| `LianjiaCells` | `values.py`, `parsing.py`, what both row parsers share | pure: `Value` is what a field of a row converts to, `Refusal` the chain of rejections |
| `RecordedSnapshot` | the snapshot file, `recorded.py` | a file is the stage at which it fails, or its batch fields |
| `LianjiaTransactions`, `LianjiaListings` | the two row parsers, snapshot models and providers | `ParseTransactionRow`, `ParseListingRow` take one more row into a parse result |
| `CityConfiguration` | `yaml_mapping.py`, `city_profile.py`, `composition.py` | the reader is a fold of `ReadLine` over lines; the rest are conditions |
| `RecordLife` | a transaction record from the profile and the file to the gates, asked for and refreshed | start-up, fetch and parser as steps, then the pure gates |
| `RecordedListings` | `ingest()` over `RecordedLianjiaListingProvider`, and the program that writes the file | the variables of `ListingIngestion` and the file, the document and the parse result of each call |
| `TransactionIngestion` | `TransactionIngestionService.ingest`, `upsert_many` | the two passes over a batch, one step per record |
| `MarketObservationIngestion` | `MarketObservationIngestionService.ingest`, its table, `MarketObservationQuery` | frames and steps as in `ListingIngestion`, one step per turn of the loop; `ListForCity` is the read |
| `CommunityResolver` | `CommunityRepository`, `RepositoryCommunityResolver` | the two upserts are the steps; `Resolution` is `resolve`, a function of the tables, `Confidence` is `_score` in hundredths |
| `MarketMetrics` | `analytics/` | pure: sequences in, a record of metrics or a refusal out |
| `CommunityEvidence` | `CommunityEvidenceService`, the reads it makes, and the statements that fill the tables | one step per statement; `Evidence` is `get_market_evidence` |
| `ClaudeRunner` | the script and the workflow step around it | `pc` is the command being run; each failing, half-failing and succeeding outcome is a disjunct |
| `MC*` | instances for TLC | batches, grids and windows |
| `*Proofs` | theorems | see section 5 |

`ListingIngestion` and `BatchIngestion` extend `ListingStore`;
`ListingIngestion` instantiates `BatchIngestion` for the refinement.
`RecordLife` and `TransactionIngestion` extend `TransactionNormalization`;
`RecordLife` instantiates `LianjiaTransactions` and `CityConfiguration`.
`RecordedListings` extends `LianjiaListings` and instantiates `ListingIngestion`:
its steps are those of the service with the provider's behaviour in place of an
arbitrary answer, and theorem `PipelineImplementsService` shows that it implements it.
`CommunityEvidence` extends `ListingStore` and instantiates `MarketMetrics`.

Abstractions. A name, price, native id or community is a model value or an
element of a small set. Columns that no decision reads (layout, area of a
listing, provenance) are left out; they are copied exactly as the ones that
stay. Amounts, areas and days are integers and a unit price is a ratio, so the
derived price is exact; NaN, infinity and rounding are left out. A confidence is
counted in hundredths, which the code's sums meet within 1e-15, far inside its
epsilon of 1e-9. The resolver's text normalization and its distance are
parameters: any function that maps spellings to spellings, any set of near
pairs. A median is the pair of values whose midpoint it is. Of the seven
medians of the code four are modelled: two ratios, the negotiation discount and the
price change, and two columns, the deal price and the active asking price; the
medians of both unit prices and of the days on market read a column likewise and
are left out, as is the view `has_sufficient_evidence`. A cell is what the
converters recognize in it: the numbers, the unit tokens next to them, the
wordings, a date; how NFKC and the regular expressions recognize them is left
out. Numbers of cells are in tenths, so that a fraction can be told from a whole
number. A row is a sequence of entries, each naming its field and the number of
its alias, since order and alias decide which entry counts. A read returns rows in some order, which is a
constant of `CommunityEvidence`; sorting is `Ranked`, which puts at place k the
member that k - 1 others come before. In the runner
a tree is the number of contributions in it and the kinds of protected change:
`edited`, of a file the base commit holds; `added`, of a new file that git status
prints; `enclosed`, of a new file in a new directory, of which git status prints
the directory alone. `Stripped` is every outcome of the strip: it removes what
was added, it may leave an edit where `git restore` fails unnoticed (constant
`RestoreMayFail`), and it does not see what is enclosed. A new directory that a
pattern matches as a whole, such as `.claude/`, counts as added.

Actions take in what the code does in one go. `WriteSnapshot` of the last
observation also returns. `FetchAnswersForeign` is the whole of the guard.
Definitions whose comment begins with "Slip", "Slips" or "Mistake" are not part of any
specification: each is a plausible error in the definition that follows, kept to
show that the properties notice it.

## 3. Runs

| Run | Shows | Bounds |
|---|---|---|
| `listing_ingestion_safety` | types, identity before history, spanning range, convergence of replays, the subject of writes, refinement of `BatchIngestion` | three calls, two listings, instants, prices and communities, eight batches, one crash |
| `listing_ingestion_backfill` | violated: the current status is rewound | a late and an early batch |
| `record_life` | profiles, rows accounted for and restated, plausibility, last resort, refresh, adjoining windows | twenty profiles, eleven files with some thirty rows, a grid with values on, within and beyond each gate |
| `recorded_listings` | what is stored was recorded, no empty market from a broken file, no clash of ids, every call ends | two calls, two communities, two listings, eight files, one crash |
| `transaction_ingestion` | accounting, first acceptable kept, whole rows, stored reports, descriptions at return, ends | two calls, two identities, three fetch results, one crash |
| `community_resolver` | city, present names, no contradicted winner, agreement and later registrations never exchange an answer | three communities in eight forms, two cities, one alias, twelve requests |
| `market_observation_ingestion` | whole publications, own city, results, windows | three calls, two ids, two cities, six batches, one crash |
| `community_evidence` | evidence given, partitioned, recomputable, independent of order, changed only by its own rows | three listings at two instants, three deals on three days, two communities |
| `claude_runner` | no added protected file published, durability, building on, ends | three attempts, two contributions, the script's own retry counts, restores that may fail |
| `claude_runner_protected` | violated: an enclosed protected file is published | two attempts, no restore fails |
| `claude_runner_lost_commit` | violated: a committed task is lost under a notice that there was nothing | two attempts |
| `claude_runner_no_changes` | violated: restored work is reported as no changes | two attempts |

Why the bounds are enough. Three calls are needed for two that overlap and a
third that replays after a crash of both; two listings for a native identity
that clashes; two instants for an order. A batch of two observations has every
position a failure can have: before, between and after the statements of one
observation, and between two observations. The eight batches are one per
hazard. In `record_life` the prices are chosen so that a deviation of exactly
the tolerance, on both sides, is in the grid. Three attempts of the runner allow
a checkpoint, a failure on top of it and a final success; two contributions
allow an attempt that adds something and one that adds nothing.

The files of `recorded_listings` are one that is half written, one without rows,
an empty one, one whose rows are all refused, one whose newest row comes first,
one whose fields are under other names, and one that lists the same listing for the other
community; any of them may be there at any step. The files and profiles of
`record_life` have one example of each refusal and of each way to be accepted,
and several in one batch, so that the numbers of rows and of rejections differ.

The resolver's communities agree with the requests in everything, in all but one
kind of evidence, or in nothing known, so that every margin is met exactly,
missed by one step, or made equal by the clamp. `community_evidence` has a
listing of each kind (cut, raised, unchanged, seen once, identity only, moved
away) and up to three deals. Usable samples are of none to three, around a minimum
of two, so that each of the four medians is both withheld and given.

Deadlock is not checked where calls or attempts end: when every call has ended,
no further attempt of the job is started, or a start-up is refused, the system
rightly stops. The
resolver and the evidence run check it.

Fairness. In `TransactionIngestion`, `Answer` and the steps of a running call are
weakly fair per call: a recorded provider reads one local file and returns or
raises, and asyncio runs a ready task. In `RecordedListings` the one fair action
of a call is `Proceed`, the disjunction of its steps. Fairness of `Read` and of
`ReadFails` apart would not do: the file may change between usable and unusable
for ever, so that neither stays enabled, while the call, which reads whatever
is there, goes on. Capturing is not fair. A call need not be made, a cancellation and a crash need not
happen, and a statement may raise but is not forced to. For the runner one weak
fairness over the steps of the script and the recovery is enough: sessions are
bounded by a number of turns, commands by a number of tries, and the job by a
timeout. A re-run needs a human and is not fair. Market observation calls await and loop
in the same way; their end is not checked again.

## 4. Disagreements found

- `upsert_listing` folds the seen range but not the status
  (`storage/repositories.py:236`), so a backfill rewinds what the current view
  reports, against `services/listing_query.py:58-61`.
- The strip compares protected patterns with the paths `git status --porcelain=v1`
  prints (`scripts/run-claude-task.sh:226-238`, `.github/workflows/claude-task.yml:89-100`).
  Of a new directory only the directory is printed, so where there was no
  `.vscode`, a new `.vscode/tasks.json` is not recognized and is committed, against
  `docs/claude-runner.md:36`. An edit whose `git restore` fails, which is ignored,
  is committed as well; the run shows the first of the two.
- A task that was committed but whose push failed for good is taken for one
  without work (`.github/workflows/claude-task.yml:106` and `:131`).
- A resumed attempt that adds nothing to its checkpoint reports no committable
  changes and opens no pull request (`scripts/run-claude-task.sh:247`).

Each has a run that TLC finds violated. More behaviours are visible in the
models without a run of their own: `append_snapshot` replaces the price and status
of a stored point when an observation of the same instant comes again
(`storage/repositories.py:257`), where `services/listing_ingestion.py:8-9` says that
what was asked at an instant is never lost by overwriting; a listing in the snapshots of two communities
belongs to whichever was ingested last, and takes its whole history with it into
that community's evidence; an observation id published for two cities moves its
row between them; a sole candidate of a name is resolved whatever contradicts
it, with a confidence as low as 0.15; a further agreeing field can make a
resolved answer ambiguous, because a confidence stops at 1 while the rival's
still grows; the error trap comments on a failure
"before creating a PR" when only the last comment failed, and a re-run leaves
the draft flag of an existing pull request alone. In the parsers the first alias
that is present decides even when it is empty, so a price under a second name is
then not seen; `providers/parsing.py:19` says that the vocabularies of the parser and
of the gates never overlap, and both have `schema_invalid`; and the recorded
transaction provider ignores the community it is asked for, which its docstring
says.

## 5. Proofs

All theorems hold for every value of the constants, under the named assumptions
of the modules: `Null` and the other sentinels are not values, batches, files and fetch results
are well typed, requested windows are ranges, the tolerance is a percentage, and
ids derived from different native identities differ.

`ListingIngestionProofs` (`TypeOK`, `SnapshotsHaveIdentity`,
`SeenRangeSpansHistory`, `WritesOnlySubject`, `StoresWholeBatches`,
`RetryConverges`). None is inductive alone. The
invariant adds that at most one call is writing, that the observation it is at
lies in its batch and belongs to its community, and that between the two
statements of an observation the row just written already covers the instant
about to be stored.

For the refinement, `StoresWholeBatches`, three more facts are needed: the
community a call asked for (`SubjectInv`), that the tables are those the batch
leaves after the statements executed so far, from the tables the call took the
loop with (`PrefixInv`), and how a run of statements goes on, statement by
statement, from the recursive function that defines it. Then the last statement
of a call, or its end, is the one step of `BatchIngestion`, and every other step
leaves the mapped tables alone.

`RetryConverges` says that a batch of which any part was stored, ingested again,
leaves what one whole run leaves. Its proof runs the batch twice side by side:
after each statement, every row that the second run has written is the first
run's row widened by what the second run found there, and every point it has
written is the first run's. As no statement narrows a row, at the end the
widening adds nothing. A native identity that stops the second run would have
stopped the first. It needs the assumption
`IdNamesOneNative`, which the code justifies (an id is derived from the native
identity) and without which the property is false: of the batch (l1 with n1, l1
with n2, l2 with n1) TLC finds that the first run ends and the second one raises.

`RecordLifeProofs` (`RefreshAccepted`, `SchemaIsLastResort`, `RefreshIsStable`,
`AdjoiningWindowsAddUp`, `AcceptedIsPlausible`, `RowsAreAccountedFor`,
`BuiltAsConfigured`). `RefreshAccepted` holds because the coerced floor is a
fixpoint of the gates, and a derived price deviates by exactly zero. For the
next four it is enough that the record at the gates is a record, whether it came
from the parser or from another source; that the parser's are, for every row,
is most of the work, since each converter must be shown to return a value of its
field or to refuse. The tolerance gate is an inequality of products, which is
split by the sign of the deviation. `RowsAreAccountedFor` needs that rejections
are numbered in increasing order and below the row that is next, so that the
number of a record is found from its place and the rejections around it; that
a field's converted value, `built_year` and `days_on_market` included, is what the
one entry that has the row's say on it says (the last under its first alias),
which rests on there being such an entry of each field that the row has; and that
each refusal leaves the row it names with something it can be blamed for. Rows
taken are as many as records and rejections together, so the records are of
exactly the rows that no rejection names. `BuiltAsConfigured` follows from what the reader knows after
each line (`ReadSoFar`): unless it failed, each section it holds began at some
line and is followed by the lines its entries come from, up to the line that
ended it (`Heads`), so that the entry which names the provider stands in a section
headed "providers". It does not speak of the snapshot's root and its default,
which only choose the path.

`RecordedListingsProofs` (`RecordedNeverClashes`, `EmptyMarketIsRecorded`,
`StoredWasRecorded`, and `PipelineImplementsService`: `Spec => Service!Spec`).
The invariant `IInv` has three parts: types, by which a call that still fetches
has parsed a prefix of its document into a batch the service accepts; `Keyed`, every
stored row stands under the id of its native identity; and `ReadOf`, a call's
document is the one in the file it read, and its counts add up to the rows
taken. `Keyed` makes a clash impossible. Every step is a step of
`ListingIngestion` under the mapping that forgets file, document and parse
result, or leaves its variables alone, so what is proved of
`ListingIngestion`, under its assumptions, holds of the pipeline.
`StoredWasRecorded` needs a second invariant, `ProvenanceInv`: each parsed record
restates a row of the file its call read, by the entries that have that row's say, and each row and point of the tables
comes from such a record. A point keeps its listing's name although rows are
overwritten, since an id belongs to one native identity only. That a set of natural numbers has a least element
is proved in both modules, as their constants differ.

`TransactionIngestionProofs` (types, `FirstAcceptableKept`,
`StoredDealWasAccepted`, `ReportedIsStored`, `ReturnDescribesTable`,
`RecordsAccounted`). That the
first acceptable record is kept follows from three facts about the positions
kept so far: they increase, no two share an identity, and every acceptable
record so far has a kept one of its identity at or before it. That a report
describes the table follows from the rows upserted so far being there, which
holds because identities differ within a batch and no other call holds the loop.
`RecordsAccounted` rests on `AccountInv`: each record examined so far stands at
exactly one place of one of the two tuples, and their lengths add up to the
records examined.

`ClaudeRunnerProofs` (types, `AddedNeverPublished`, `ConcludedIsDurable`,
`PublishedWorkStays`). What is proved of protection is only that no file the strip
sees to be new is published, whether or not restores fail; of edits it is not
proved, as a restore may fail, and of enclosed files it is false, as
`claude_runner_protected` shows. The invariant relates, command by command, the tree, the
commit, the commit the attempt started from, the remote branch and the upstream;
the central clause is that an upstream means the commit is on the remote branch.

`MarketObservationIngestionProofs` (types, `StoredAsPublished`,
`OnlyOwnCityGains`, `ReturnDescribesSeries`, `WindowsNeverOverlap`). The
invariant says that at most one call writes, that its batch was checked, and that
table and result already agree with the part of the batch that is written; one
turn of the loop extends both agreements by one observation, whatever its id.

`CommunityResolverProofs` (types, `ResolvedWithinCity`, `NoContradictedWinner`,
`ConfirmedNeverSwitches`, `AgreementNeverSwitches`, `FoundByPresentName`). That some candidate comes first
follows from bounded confidences and ids that are natural numbers (a best score,
then a least id); a contradicting district or coordinate caps a score below the
threshold; two communities cannot both lead by the margin. A community is found
by its present name because no write leaves the stored normalized name behind.

`CommunityEvidenceProofs` (`EvidenceIsGiven`, `EvidencePartitionsTheStore`,
`OrderIsIrrelevant`, `MetricsMatchTheTables`, `EvidenceStaysInSubject`).

- What a read returns: selecting from an ordering keeps each selected row once
  and no other, by following the recursive function that selects. So a read is
  a listing of a set, in whichever order, and the analytics never refuse it,
  whatever the tables are.
- What the tables are: the invariant `StoreInv` (types, an identity row under
  every snapshot stored or about to be, transactions under their own ids) holds
  between any two statements. `RangeReaches` adds that the seen range reaches the
  instants of the history, which the order of the current view needs.
- Order: the listing report depends on the set of snapshots only
  (`ReportReadsASet`), because of equal keys the first one kept is equal to the
  others. The transaction report depends on the bag of transactions
  (`DealReportReadsABag`): a value's rank is settled by how many values are less
  and how many are not greater, rearranging changes neither count, and two
  fractions in lowest terms that are neither less nor greater are the same.
  That a fraction is in lowest terms is shown from a least denominator, not from
  an algorithm.
- Counts: the sum over the statuses is a fold over a set; adding up the
  classes of a partition, in any order, gives the size of the whole, by a least
  counterexample. Cut, raised and unchanged are three parts of the listings seen
  twice, as the sign of a fraction is the sign of the difference it came from; the
  share of cuts is their number over that of the listings seen twice.
- Dates: the latest date is one of the dates and none is later.
- Medians: of the value at rank k fewer than k are less and at least k are not
  greater, hence the two halves around the middle. This is shown of the four
  modelled medians, over exactly the deals or listings that have the value, with the
  discount and the price change as the fractions they are defined to be, and
  each is withheld below the minimum.
- The view: its order is a strict total order of the community's rows, so
  `Ranked` is a bijection between places and listings, through which counts in
  the view and counts in the report are the same.

`Ranked` is stated by counting rather than with the library's sorted sequences, which
the prover cannot look into, and equals them on a strict total order.

The type invariants of `TransactionIngestion`, `ClaudeRunner`,
`MarketObservationIngestion` and `CommunityResolver` are theorems (`TypeCorrect` of each)
and are part of the inductive invariants; the runs do not repeat them.

Only model-checked: liveness (`CallsEnd` of `TransactionIngestion` and of
`RecordedListings`, `AttemptsEnd`), which is beyond the prover. Every other
property of a passing run is stated by a theorem.

## 6. Not modelled, and the plan

Left out for good: how the converters recognize text (NFKC, regular expressions,
marker lists), floating-point numbers, logging, the placeholders, the environment
checks of `scripts/check-claude-runner.sh`, and the value objects and tables that
no code builds or uses yet. The other providers of `providers/protocols.py` have no
implementation. The row columns that no gate and no modelled table reads
(layout, orientation, building type, provenance) keep their part in refusals only.

Next, in this order:

1. A composition of ingestion and reads in which a report is asked for while
   calls of several services overlap.
2. The recorded transaction provider under `TransactionIngestion`, as
   `RecordedListings` does for listings.

Theorems to come: for that composition, that its invariants are those of its
parts; and that the recorded transaction pipeline implements
`TransactionIngestion`.
