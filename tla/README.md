# A TLA+ verification project for anofox-tabular

anofox-tabular is a DuckDB extension (C++) with a Python package around it. It validates
email and postal addresses, phone numbers, VAT numbers and amounts of money, detects and masks
personal data, checks and compares tables, and finds outliers. Most of it is sequential code
that rewrites SQL or computes a value of a row. What is hard in it is the part that is shared
by the worker threads of a process: a lazily loaded model, caches, settings that change while a
statement runs, downloads, network lookups with deadlines. This project models that part
and, of the sequential code, the algorithms whose result can be held against a definition: checks
and suites, diffs, profiles, and the anomaly detectors.

Contents: [1 Inventory](#1-inventory), [2 Plan](#2-plan), [3 Modules and code](#3-modules-and-code),
[4 Runs](#4-runs), [5 Fairness](#5-fairness), [6 Proofs](#6-proofs),
[7 Findings and further counterexamples](#7-findings-and-further-counterexamples),
[8 Not modelled](#8-not-modelled). Paths are relative to `src/` of the repository's checkout, so
the C++ sources are `src/...` in it.

## 1 Inventory

| Component | State | Operations | Correct when |
|---|---|---|---|
| NER model manager (`src/anofox_ner.cpp`, `src/include/anofox_ner.hpp`) | atomic status, message, name and device under a mutex, unlocked tokenizer and compiled model, files on disk | detect, load lazily, status snapshot, `SET` of model, device, automatic download and requirement | nobody reads half a model; a published model is final; every load ends; an accepted setting takes effect |
| NER result cache (`LRUCache` in `anofox_ner.hpp`) | map, recency list, capacity | Get, Put, Clear, SetCapacity by all workers | map and list agree; bounded; evicts the least recent; answers with the text's own result |
| NER asset download (`anofox_ner.cpp`) | `<dest>.tmp`, `<dest>`, the legacy layout | migrate, download with attempts, rename | only whole files under their final name; both files or none are used |
| Email DNS lookup and cache (`src/anofox_email_dns.cpp`) | two c-ares queries of one resolver; a process-wide map with expiry | resolve, event loop, cancel, judge; lookup, store, evict | definite negatives are true; lookups return; cache bounded and fresh |
| Email SMTP check (`src/anofox_email_smtp.cpp`) | hosts left, stage of the dialogue, deadline | verify, connect, send, read | `valid` is true only when a host took the recipient, `false` only when none can |
| Email functions (`src/anofox_email.cpp`) | settings | syntax, the three modes, SQL functions | a definite verdict is true; every call returns |
| Statement settings (`src/include/anofox_statement_settings.hpp`) | one snapshot per connection and statement | QueryBegin, Get, QueryEnd | a statement uses one configuration, none older than itself |
| PII engine (`src/anofox_pii.cpp`) | matches of one text; settings; the column and row a scan is at | Detect, Mask, recognizers, scan and audit of a table, SQL functions | kept matches are disjoint, nothing is lost without reason, each region is masked once; a scan says what is in the table and what it looked for |
| Postal (`src/anofox_postal.cpp`) | libpostal's three stages, data directory, init lock | parse, expand, load data, status, `SET` | libpostal is used only when set up as a whole; a failure leaves nothing behind |
| Phone, money, VAT (`src/anofox_phonenumber*.cpp`, `anofox_money*.cpp`, `anofox_vat*.cpp`) | tables | parse, validate, format, arithmetic | agree with the numbering plans, scales and checksums |
| Checks and suites (`src/anofox_check.cpp`, `anofox_check_suite.cpp`) | the definitions read for one run | direct checks; `run_checks` over a table of definitions | the result says what the check's documentation says, also for NULL, filters and empty tables; suite and direct function agree |
| Metrics (`src/anofox_metric.cpp`) | none | rewrite to SQL; bind and scan of the anomaly functions | outliers of the exact values are found; sums overflow only when they must |
| Diff (`src/anofox_diff.cpp`) | none | rewrite to one join | applying the diff to the source gives the target; only edits are reported |
| Profile (`src/anofox_profile.cpp`) | none; several queries on a second connection | summary, columns, correlations | a report is about one state of the table |
| Anomaly detection (`src/anofox_isolation_forest.cpp`, `anofox_dbscan.cpp`, `anofox_outlier_tree.cpp`) | trees, clusters, groups | fit, score, explain, interrupt | a clustering is what DBSCAN defines; a score walks the tree it was built from; a finding's conditions describe its group; row ids name their rows |
| SQL and process helpers, registration (`src/anofox_sql_utils.cpp`, `anofox_id_column.cpp`, `anofox_contract.cpp`, `anofox_curl_ca.cpp`, `anofox_trace.cpp`, `anofox_tabular_extension.cpp`) | log level | quoting, tracing, registration | - |
| Python package (`python/src/anofox`) | extension cache in `~/.anofox`, connection | install and load the extension, build SQL, collect rows | a source that works is found; only verified binaries are loaded |

How they interact. DuckDB calls the SQL functions from several worker threads of a statement, and
several connections run statements at once. A PII function takes the settings of its statement
(statement settings), runs the recognizers, and asks the NER model manager for names; the manager
loads its model on the first request (download, tokenizer, compilation) and answers from the
result cache. An email function runs the regular expression, then the DNS lookup through its
cache, then the SMTP check of the hosts found. A postal function sets libpostal up first, from
data it may have to download. `SET` statements call into the managers at any moment. Callbacks
arrive from c-ares inside its event loop. Several processes share the directories of the models.

What is hard: publication of an unlocked model through an atomic; check-then-act on settings
while a load runs; a mutex that is held over downloads; results of two queries in any order, with
a deadline; partial failure of a sequence (six setup calls, two files, several mail hosts);
crashes between the steps of a download; a greedy sweep whose correctness rests on comparing each
match with one other only; SQL that is generated twice and must mean the same, over NULL, NaN,
infinities, sums near the end of a type and no rows at all; several queries of one report between
which others commit. `PROJECT.json` lists each as a hazard at its line, with the properties
that cover it.

## 2 Plan

Done, in this order: `NERModel` (with its abstract specification `ModelOnce`), `LRUCache`,
`AssetDownload`, `DnsLookup`, `DnsCache`, `SmtpVerify`, `StatementSettings`, `PIIMatches`,
`PostalManager`, then `SqlValues`, `Checks`, `Metrics` and `CheckSuite`;
`Dbscan`, `IsolationForest`, `OutlierTree` and `AnomalyFunctions`; `Diff` and `Profile`;
`EmailValidate`, which composes the two network stages; `PyLoader`; and `PIIScan`.

Proofs followed: first of `NERModel`, `LRUCache`, `StatementSettings`, `PIIMatches` and `PostalManager`,
then of `AssetDownload`, `PyLoader`, `DnsCache`, `EmailValidate` (with the lookup and the SMTP check
inside it), `PIIScan`, `Dbscan` and `OutlierTree` (with the bind and the scan of `AnomalyFunctions`
around them), of `IsolationForest`, and last of `Diff`. Next:

1. Lemmas about pure operators: cutting a bound to a scale (`BoundIsExact`), and which sums fit a
   HUGEINT (`WideSumIsExact`), for any base and word.
2. `CheckSuite`: the bookkeeping of a run around its queries (`EveryCheckReports` where it holds).

Then, if they earn it: `NERWindows` (windows over long texts and who reports an entity), and
`Checksums` (VAT, cards and national identifiers) as functions against reference definitions.

## 3 Modules and code

### NERModel, ModelOnce, MCNERModel

One variable per field of `NERModelManager` (`status_`, its message, `init_lock_`, the settings, the
loaded name, tokenizer and compiled model), the files on disk and whether there is a home directory to
hold them, and for each thread its program
counter and locals. One action is one atomic access, one critical section of `state_mutex_`, or
one call that changes a field: `EnsureInitialized` is five actions, `LoadModel` nineteen program
points from copying the name to publishing `LOADED` or a failure, `GetStatusSnapshot` two (it reads
the status and the guarded fields apart from each other), each `SET` handler its check, its store
and the compare-and-swaps of `RequestReload`. Exceptions of the file system outside the `try` of
`LoadModel` are actions when `IoMayThrow`. A status message is the status its text describes. The
four NER types share one lookup, the metadata of a model is always found, and a user may place or
remove model files at any time; for this last action the system never deadlocks in TLC's sense,
so that no thread can be stuck inside the lock is what `LoadEnds` says.

`ModelOnce` is what the manager promises: one whole model, published at most once, serves every
inference. `NERModel` instantiates it with the mapping "published is the compiled model with the
tokenizer in force when the status is `LOADED`".

### LRUCache and DnsCache

`LRUCache` is the cache as a function from texts to results and a sequence of texts, most recent
first, with the batch loop that uses it (`ExtractEntitiesBatch`, `RunSingleInference`): take a text, Get,
infer, Put. Each cache operation is one critical section of its mutex. `newer` is a history
variable: the pairs of texts in order of last use. Only texts with a natural-language word reach
the cache.

`DnsCache` is the map with expiry shared by threads; `Lookup` and `StoreAnswer` are critical sections of
its mutex and the lookup between them is any outcome. Time is a counter.

### AssetDownload, PostalManager and PyLoader, MCDownloads

In `AssetDownload` paths name inodes, so that a second process that truncates `<dest>.tmp` writes to the
file the first has open. A download is a number of chunks, the last of which is written by `fclose`,
which may fail without anybody looking at its result. Actions: the two renames of the migration, the
check for the pair, open, fetch, close, rename, attempt again or give up, and the death of a process.

In `PostalManager` threads parse, load data and `SET`; `EnsureInitialized` with its two checks, `Initialize`
with the status check, the download of three archives with attempts, `tar`, six setup calls,
rollback and publication. The data of each asset in each directory is absent, torn (the file that
`IsPostalDataComplete` looks for is there, others are missing) or whole. libpostal is external: the
first setup call of a stage loads it and needs whole data, the second finds it loaded, either may
fail. One process runs at a time and may crash; a second process over the same directory is left
out. `postal_status` only reads.

`PyLoader` is `AnofoxLoader.load_into`: the sources in order, each next one only after the exceptions
that the code catches; the cached binary and its checksum, which are two files; the request for the
checksum and for the archive, either of which may bring something else; the temporary file, the move,
the checksum written in two steps, any write failing, and `LOAD`, which may refuse what it is given. The
mirror publishes builds under one URL between any two of them. One process looks at a time: the unlink
of a binary that another process has just moved into place, and their shared temporary file, are left
out.

The five of these two sections share nothing, and `MCDownloads` explores all of them: a behaviour is one
of the five.

### DnsLookup, SmtpVerify, EmailValidate

`DnsLookup` is one call of `ResolveUncached`. The zone is chosen at the start; the name servers answer
the MX and the address query in any order, fail, or never answer; a query may also be refused
where it is made, and then c-ares may or may not have called the callback. The event loop looks at
the deadline, polls, and processes; the channel is destroyed, which runs the callbacks of what is
still outstanding; then the answers are judged. Hosts files are left out.

`SmtpVerify` is one call of `Verify`. Hidden variables say whether the mailbox exists; a server answers
RCPT by it, puts off, or replies with a class of its own (3 stands for what is neither 2xx, 4xx nor
5xx). A host is an address literal, `localhost` with its two addresses, or a name that is looked up. The
steps are those of `AttemptHost` and `ReadResponse`, with a response of several lines bounded by the
response budget, and the deadline may pass between any two of them. A host that cannot be connected to
at its first address is given up: the loop over its addresses goes on only after a socket could not be
made. QUIT after success changes nothing and is left out.

`EmailValidate` is a call of `email_validate` or `email_is_valid`: the mode's check, the syntax, the lookup
behind its cache and the SMTP check, each by `INSTANCE` of its module with the variables of this one;
the call starts a stage, the stage runs by itself, and its result is judged as
`ValidateEmailAddress` does. Every address is one of the classes that the stages tell apart, all of
one domain. The cache may lose its answer between any two calls, by expiry or eviction; `DnsCache` has
the rest of it.

### StatementSettings

Connections with workers; `Get` is the lock guard, the test, the snapshot and the copy, in the
code's order, `QueryBegin` and `QueryEnd` reset. A value of the settings is the number of `SET`
statements before it. DuckDB folds constants while it plans a prepared statement, outside of any
`QueryBegin`; that is the external action `FoldConstant`. Calls without a client context take a
snapshot of their own and are left out.

### PIIMatches

Detect and Mask over one text. A text is its length and the positions of its letters; the
recognizers find any set of matches. Four types stand for the roles that the code tells apart: an
email address, a URL (with or without user information), a checksum-validated number, and a name of
the NER model. `Recognise`, then the resolution of overlaps (`Yielding` URLs, the sort order
`Precedes`, the pattern pass and the NER pass with `OverlapsKept`, which looks at one kept match
only), skipping the model (`HasLetterOutside`), the widened names of the model, the second
resolution, and Mask with the position up to which the text is copied.

### PIIScan, MCPII

`pii_scan_table` and `pii_audit_table`. A call is bound, resolves its columns, takes the settings of its
statement, and reads column by column, each with a streaming query of its own: open, fetch a chunk,
fail, end. A value goes through `RequireModel`, the patterns, and one step for each NER recognizer,
which loads the model or goes on without it; the scan counts the matches, and the audit lets Mask
detect a second time before it writes its rows. Between any two steps other connections commit,
SET, begin and end a load of the model, or clear a failed one. The status of the model moves as in
`NERModel`, with a load from disk in one step. A text is what the recognizers find in it; one pattern
type, the names and the organizations stand for all types. An inference may fail for one value
(`InferenceFails`), and then the recognizer goes on without it. A chunk that holds a value a view
cannot compute fails as a whole. What the code does with a failure differs: the scan has a row for it,
the audit writes to the trace and says nothing.

`MCPII` composes `PIIMatches`, `StatementSettings` and `PIIScan`, which share nothing in their
variables: a behaviour is one of the three.

### SqlValues, Checks, Metrics, CheckSuite, MCCheckSuite

These functions generate SQL; a definition is what that SQL answers, not its text. `SqlValues` has the
values DuckDB computes with (exact fractions, NULL, NaN, infinities, dates as day numbers), its
order, its aggregates and the conditions under which an error surfaces. A DOUBLE does not round,
except where centring is about its rounding: there it holds the integers below `Mantissa` and halves
the precision above. HUGEINT has `Word * Word / 2` values on each side of 0, a DECIMAL `MaxDigits` digits in
base `Base`, fewer than a HUGEINT holds, as 10^38 is below 2^127.

`Checks` has one operator for each direct check with its bind conditions and its rows; `Metrics` the
functions of `anofox_metric.cpp` that are SQL. Both are pure, and `CheckSuite` is the state machine around
them: the definitions are scanned in the caller's transaction, or, for a view, read on a second
connection (which refuses a temporary view, and any when the caller has changes it would not see),
while others commit; each definition is validated and becomes a query with its filter, partition,
thresholds and strictness, or an error row; the queries run, one each. The queries of `CheckSuite`
are translated from the suite's own SQL and those of `Checks` from the direct functions', which is
what makes their agreement worth checking.

### Dbscan, IsolationForest, OutlierTree, AnomalyFunctions, MCAnomalyFunctions

`AnomalyFunctions` is one call: the bind checks, the scan that skips NULL rows and keeps the row
numbers, the algorithm, the output, and an interrupt that the algorithm sees where the code looks
for one. The three algorithms are `INSTANCE`d with the scanned rows.

`Dbscan` has the loop over the points, the expansion with its queue (a set, so in any order) and the
summary; a place of the stable sort is the number of points before it. `ClusterByDefinition` is what
DBSCAN defines, told from the points alone: a component is the least set of core points that holds, with
a point, the core points near it. `IsolationForest` has sampling with and without weights, the growth of
a tree by any split the code could draw (numbers, categories, hyperplanes, NULL and infinite values),
the routing and the scores, the threshold and its flags; logarithms are tables of numbers
(`AveragePaths`, `Logarithms`), and the number of a row among the finite ones is how many of these there
are up to it. `OutlierTree` takes each column in turn as a target, splits the rows by conditions on the
others, and flags the values far from their group, with the spread and share limits and the slots that
keep one finding per cell. What the code sorts is defined by counting: the k-th value has fewer than k
below it and k or more up to it.

A random draw is any outcome the code can draw; which of several valid splits gains most is left
out, because any of them may be the only one offered. So nothing is claimed about scores beyond
their order.

### Diff and Profile, MCDiff, MCProfile, MCTableReports

`Diff` starts from a table and migrates it by inserting, deleting and updating rows, renaming and
retyping columns; then a call compares it with what it was: names and keys, the common columns, the form
in which each pair is compared (by its text, exactly, with a precision or a tolerance), the join with
its NULL-safe keys and the guard against repeated keys, and what the join answers. A column of a type
holds what `IsValue` says (a DOUBLE only numbers a cast to DOUBLE leaves alone, a FLOAT those a cast to
FLOAT does, a TIMESTAMP only whole microseconds), and `Castable` are the changes of type a migration may
make. The order of the compared columns is left out.

`Profile` is `profile_summary`, `profile_table` and `profile_correlations`, query by query, with other
connections' commits between any two, and the caller's own uncommitted changes. Samples are any
rows of the size asked for. Lengths, patterns, skewness and kurtosis are left out, a standard
deviation and a correlation are squared.

`MCTableReports` explores these two and `CheckSuite`: a behaviour is a migration and a diff, a profile, or a
run of a suite.

## 4 Runs

Each run is exhaustive for its constants. Type invariants are stated in the modules with a state of
their own, except those whose state is mostly rows of tables (`CheckSuite`, `AnomalyFunctions`,
`Profile`) and `EmailValidate`, whose stages have theirs. No run lists one; those of `NERModel`,
`LRUCache`, `DnsCache`, `StatementSettings` and `AssetDownload` are proved. Deadlock is checked except
in `suite_vanished`, `anomaly_functions`, `dbscan_cores`, `table_reports`, `pii`, `scan_record` and
`pii_masked`, whose behaviours are one call and then over.

| Run | Bounds, and why they are enough | Shows |
|---|---|---|
| `ner_switch` | 2 threads, 2 models (one in the legacy layout), 2 devices, 1 SET, every failure | no data race on the unlocked fields, refinement of `ModelOnce` (one whole model, published once). One thread loads while another does anything else; a third would be in one of the same places |
| `downloads` | Postal: 2 threads, 2 attempts, 1 crash, 1 SET. Assets: 1 process, 2 chunks, 3 attempts, 2 deaths. Loader: 2 builds. Entities: 3 texts, 2 threads, capacities 0 to 2. DNS: 2 threads, 3 domains, 2 entries, expiry 2, time to 3 | a failure at every call, a waiting thread at every step, a restart over every directory; a death in the download and another in its repetition; a mirror that changes between any two requests; three texts exceed every capacity, and the capacity shrinks between Get and Put of either thread; a full cache with a live and an expired entry |
| `asset_shared` | 2 processes, nothing fails | finding 1 |
| `email_validate` | 2 calls, 2 hosts that are names or `localhost`, 2 addresses, 2 lines | all zones, answers and orders of one lookup; a host before and a host after every failure; a second call after every first, from the cache or not |
| `smtp_last_reason` | 2 hosts of 3 kinds, 2 addresses, 2 lines | finding 4 |
| `pii` | Matches: 3 bytes, 3 matches. Settings: 2 connections, 2 workers, 2 SETs. Scan: 3 rows, 2 text columns, chunks of 2, 4 tables, 2 changes | every way two matches and a third overlap (the theorems say the same of any size); a SET before and one during a statement, while the other connection runs too; a commit, a SET or a load between any two steps of a scan with a NULL, a failing value and a column that disappears, in the first chunk and in the second |
| `scan_record` | one column, one change | finding 3 |
| `pii_masked` | one column, one change | finding 5 |
| `suite_vanished` | tables of up to 2 rows | finding 2 |
| `anomaly_functions` | up to 9 rows, samples of 2 to all rows, 2 trees, weights to 6 | two clusters and a border point between them met before, between and after; NULL, NaN and infinite rows among finite ones; ties; every draw; an interrupt anywhere |
| `dbscan_cores` | the calls of `dbscan` among those | finding 6 |
| `table_reports` | Diff: 3 rows, 3 steps of migration. Profile: up to 4 rows, 2 commits, samples of 1 and 2. Suites: tables of up to 2 rows (4 for the integer columns). `Base` 3, `MaxDigits` 4, `Word` 16, `Mantissa` 8 | a row changed, its key retyped and a column renamed at once; a commit in every pair of gaps between queries; sums near and columns at the ends of their type; every check over the values it can tell apart, filtered, partitioned, strict, monitored; sums at and past the ends of a HUGEINT in both orders; outliers whose size exceeds a DOUBLE's precision; checks tables with failing definitions beside good ones. Two rows give every pair of values in a group, and two groups |

The properties of the runs, by module (each is stated in words above its definition):

- `NERModel`: `NoDataRace`, `ImplementsModelOnce`.
- `LRUCache`: `ListIsMap`, `WithinCapacity`, `OwnResult`, `EvictsLeastRecent`. `DnsCache`: `EvictsSoonest`.
- `AssetDownload`: `DestIsFinished` (whatever fails or dies, only a transfer that came to its end is
  moved to its final name, and stays as it is). `PostalManager`: `InUseIsWhole`, `StartsClean`,
  `WholeStaysWhole`. `PyLoader`: `LoadsVerified`.
- `EmailValidate`: `VerdictIsTrue`, `SettledBeforeUse`, `CallReturns`.
- `StatementSettings`: `OneConfiguration`, `CurrentConfiguration`.
- `PIIMatches`: `NothingElseLost`, `SkipIsLossless`, `MaskedOnce`.
- `PIIScan`: `FoundWasChecked` (what a row reports it also lists as checked), `PatternsAreMasked` (what
  a pattern finds is hidden in the masked value beside it), `ReportsOneState` (what is said of a column
  is true of one committed state of the table).
- `CheckSuite`: `SuiteAgrees` (two code paths that build their SQL apart come to the same status and
  value), `WideSumIsExact`, `BoundIsExact` (the minimum, maximum and sum of exact columns violate a
  bound exactly when they are beyond it; a bound of more digits than a DECIMAL has, over a HUGEINT, is
  left to section 7), `CenteringKeepsOutliers`.
- `AnomalyFunctions`: `ClustersFollowDefinition`, `LeavesHoldWhatIsRouted`, `FlagsFollowContamination`,
  `RowIdsNameTheirRows`, `ConditionsDescribeTheGroup`.
- `Diff`: `PatchGivesTarget`, `OnlyEditsReported` (without rounding). `Profile`:
  `StatisticsDescribeRows` (the statistics of all columns are those of rows of one committed state),
  `CorrelationsOfFinitePairs`.

Every one has a mutant in `PROJECT.json`: an operator that changes one definition the way a
plausible bug would, defined just before it, under which the property fails.

Stated beside them, for whoever changes these modules, and in no listed run: the type invariants;
`LoadEnds`, `SettingsTakeEffect` (which the proofs are about), `RequiredNeverFallsBack`,
`DownloadingIsInProgress`, `SnapshotConsistent` (`NERModel`); `Bounded`, `FreshHits` (`DnsCache`);
`PairMatched`, `DownloadEnds`, `InstalledNotDownloaded` (`AssetDownload`, beside `DestIsWhole` of run
`asset_shared`); `LockIsReleased`, `LoadedDataIsWhole` (`PostalManager`); `RaisesForEverySource`
(`PyLoader`); `NoFallbackProbing`, `RefusalIsLast` (`EmailValidate`); `Disjoint` and `PatternsStay`
(`PIIMatches`), `LoadedIsWhole` and `LoadedIsFinal` (`NERModel`), which a listed property covers: a
fault that breaks `Disjoint` also breaks `MaskedOnce`, one that breaks the other two also breaks
`ImplementsModelOnce`; `ResultsAreKeyed`, `OwnChangesSeen`, `EmptyNeverPasses`, `WideBoundIsExact`
(`CheckSuite`); `SampleIsFull`, `ReportedOncePerColumn`, `CallEnds`, `FlaggedOutsideRange`
(`AnomalyFunctions`); `KeysAreDistinct`, `RoundedValuesAgree`, `ReversedDiffMirrors`,
`SchemaTellsCompared` (`Diff`); `SummaryDescribesTable`, `NullRateIsARate`, `SizeIsRowsScanned`
(`Profile`).

## 5 Fairness

- `NERModel` states, for `LoadEnds`, weak fairness of the steps of a thread that holds the init lock.
  Nothing it does waits for another thread; transfers have curl timeouts, and compilation returns.
- `EmailValidate`: weak fairness of the calling thread, because every wait has a timeout of its own
  and the loop that reads a response is bounded by its budget, and of the clock of the lookup. The
  name servers and mail hosts owe nothing: an answer may never come.
- `AnomalyFunctions`: weak fairness of the call, a loop on one thread, and strong fairness of drawing a
  random number above 0, since one that is exactly 0 for ever has probability 0.
- `AssetDownload` and `PostalManager` state the fairness under which `DownloadEnds` and `LockIsReleased`
  hold: attempts are counted and transfers time out. A `std::mutex` is not fair, so nothing is claimed
  about a thread that waits.

No other property needs fairness.

## 6 Proofs

Eight modules hold the proofs. They are for every value of the constants that satisfies the named
assumption of the module they are about, and where a theorem needs more, it says so: `NERModelProofs`;
`CachesProofs` (`LRUCache`, `DnsCache`); `DownloadsProofs` (`AssetDownload`, `PyLoader`,
`PostalManager`); `EmailValidateProofs` (`EmailValidate`, `DnsLookup`, `SmtpVerify`); `StatementProofs`
(`StatementSettings`, `PIIScan`); `PIIMatchesProofs`; `AnomalyProofs` (`Dbscan`, `OutlierTree`,
`IsolationForest`, `AnomalyFunctions`); `DiffProofs`. In each, the invariant is a conjunction of named
parts, one lemma says that an action, or a group of actions, keeps it, and the theorems follow from it.

- `NERModel`: type correctness, `NoDataRace`, `LoadedIsWhole`, `LoadedIsFinal` and the refinement
  `ImplementsModelOnce`. Mutual exclusion of loads is not inductive by itself. The inductive invariant
  adds: whoever is at a program point inside the lock holds it (lock), nobody but the holder is inside a
  load and a load runs only while the status is not `LOADED` (load), what the loader has set
  so far at each point (stage), and that a thread in inference has seen `LOADED` (loaded).
  `SettingsAreLostToLoadsOnly` is about the `SET`s: on any number of threads, with or without a home
  directory and whatever throws, `SettingsTakeEffect` holds as long as no `SET` is at one of its program
  points while a load is at one of its own (`SetsMeetNoLoad`). Its invariant `SettingsInv`: the
  load that left the status was of the model that is set, unless a reload is still to come (current); a
  load loads what is set (argument); a skipped download means automatic download is off, or its retry
  is to come (skipped). The hypothesis is needed: `NERModelConcurrent.cfg` has the counterexample
  for a `SET` that does meet a load, so their overlap is the only way to lose a setting.
- `LRUCache`: type correctness and its four properties. Map and list agreeing is inductive once the
  operation's result is described by lemmas: what is left after removing a text, what an
  eviction keeps is a prefix of the list, how long a list without repetition is. `EvictsLeastRecent`
  rests on "the list is ordered by `newer`".
- `DnsCache`: `EvictsSoonest`, `Bounded` and `FreshHits`, for any number of threads between `Lookup` and
  `StoreAnswer`. `EntriesInv`: an entry is `None` or expires at most `TTL` after now, and there are at most
  `MaxEntries`. That an eviction drops one entry only, and the one that expires first, follows from
  the definition of the victim and the cardinality of what stays.
- `AssetDownload`: type correctness and `PairMatched`, for any number of processes; `DestIsFinished`
  for any number of processes of which no two download one file at one time, whatever fails or dies.
  The hypothesis is needed: the run `asset_shared` is the counterexample. That the file is also whole
  cannot be had, since the last write may fail in `fclose` (section 7). The invariant: nobody has a
  file under its final name open, what a process writes to is what the temporary path names, and it
  comes to the rename only with every chunk written.
- `PyLoader`: `LoadsVerified`, for any builds, deaths, failing writes and loads, and callers with and
  without verification. The invariant: what a verifying caller has in hand at each stage of a download
  is of a build that was published, compared with its checksum before it is written.
- `EmailValidate`: `VerdictIsTrue`, `SettledBeforeUse`, `NoFallbackProbing` and `RefusalIsLast`,
  for any number of calls, hosts, addresses and lines. `LookupInv`: the answers held so far are the
  zone's, and the counter of the event loop is the number of queries not yet called back, or one less
  when the query for MX records was refused where it was made; so the loop's end does not show that
  every callback ran, and that the answers are settled needs the destruction of the channel. For the
  SMTP check: each reason it would end with is supported by the zone or a server, and what the cache
  holds is true of the domain.
- `StatementSettings`: `OneConfiguration` and `CurrentConfiguration`. The invariant: what the workers of a
  statement have copied is the snapshot in force, or there is none yet; and the snapshot is not older
  than the statement.
- `PIIMatches`: all five properties, for texts and sets of matches of any size. The core is `Apart`: in
  the pass, kept matches are disjoint, and among those that start before a position there is a last
  one. Then comparing with the one that starts last before the end of a new match suffices,
  because every earlier one ends before that one starts. `Flow` says what the matches still to visit
  and the kept ones account for; `MaskInv` says the masked prefix consists of copied and masked bytes,
  each once.
- `PIIScan`: `FoundWasChecked` and `PatternsAreMasked`, for any tables, texts, settings, chunks and
  changes by others. `ScanInv`: every match of the value at hand is one of an enabled type that its
  text has, an entity among them means that the model is loaded, and a loaded model stays so; the same
  of the matches of the column; and what a pattern found in Detect is, while Mask detects again, found
  again or still to be looked for. The lemmas before it say that ordering a set,
  joining sequences and cutting them lose and add no element.
- `PostalManager`: `InUseIsWhole` and `StartsClean`. The invariant says: the lock's owner is the one
  thread inside the manager, the stages libpostal holds are those the setup has come to, all from the
  directory of that setup, and the flags are the stages held.
  `WholeStaysWhole` needs `DataInv`: in every directory the parser's data, whose marker the check for
  whole data looks at too, come last, and a thread that downloads or extracts does so where they are
  absent. The same invariant shows that a directory which counts as complete lacks nothing but parts of
  the parser (`OnlyTheParserTears`), which is how far `LoadedDataIsWhole` fails.

- `Dbscan`: `ClustersFollowDefinition`, for any table, any number of columns and any order of the queue.
  First the neighbour searches: distances are the same both ways, a point between two that are
  within eps on a line is within eps of both, and every place of the sort is taken once; so the
  walk outward finds what the search of all pairs finds. Then the components: the least closed set
  of a core point is that of each of its members, because being near is mutual; and numbering them by
  their first core points leaves no gap. `FitInv` says: the neighbours of a visited core are visited
  and not noise, or wait in the queue of its own cluster's expansion; what waits there is near a
  visited core of that cluster; and the visited cores are those of the clusters numbered so far. An
  unvisited point or noise is therefore near no core of an earlier cluster, which is why the
  cluster that reaches a border point first is the first that has a core near it, and why
  the next core the main loop meets is the first of the next component.
- `OutlierTree`: `ConditionsDescribeTheGroup`, for any table and columns, any split that is chosen and any
  order of ties. The property speaks of findings; `TreeFits` adds that the rows of every group still to
  be evaluated are exactly those of the table that meet its conditions. Both branches of a split keep
  that because the condition and the inverted one part the rows that have a finite value in the
  column, and others meet neither (`PartsMeetConditions`). For a number this needs that the split
  point is one: it is the middle of two places of the sort, and every place up to the number of
  finite values holds one (`KthValue`). Adding a finding, or replacing the one in its slot,
  keeps whole findings and never mixes the conditions of one with the size of another.
- `IsolationForest`: `LeavesHoldWhatIsRouted` and `FlagsFollowContamination`, for any table, weights and
  arguments the bind admits, every sample and every split. Building and scoring look at a tree from two
  ends: the builder hands each child the rows of one side of a split, the traversal starts at the root
  for each row. `Routed` joins them: of the tree so far, every row of the sample is led either to a
  finished leaf, which counts exactly the rows led to it, or to a child still to be built, which waits
  with exactly those; children are added behind the nodes there are, so what leads to older nodes stays
  (`PushFits`). A leaf's rows are thus counted by the traversal that scores (`LeafHoldsItsRows`). For
  the threshold: the scores in ascending order are the scores, so those above the cut are at most the
  share, and skipping a tie at the cut only leaves fewer, or those that tie at the top
  (`ThresholdFits`).
- Row numbers: `RowIdsNameTheirRows`, of all three functions. The invariant of the scan: the rows kept
  are the table's rows at the numbers kept with them, the numbers ascend and are those of the rows up to
  here that are not skipped; of the clustering, that a visited point has counted its ball; and of the
  forest, that the k-th finite row is the k-th point (`PointsNumbered`), so merging the scores of the
  finite rows with the infinite ones gives each row its own. What a score is, a sum over trees and a
  walk through each, needs only be a number that is not above that of an infinite row.
- `Diff`: type correctness, `PatchGivesTarget` and `OnlyEditsReported`, for any tables, any
  migration and any calls. Two facts about the forms in which values are compared carry both.
  A form tells the values of its own column apart (`FormStaysApart`: a text, because no two values of a
  type are written alike; a number or an instant, because it is taken as it is), unless a wider number is
  cast to DOUBLE or nanoseconds are cut. `KeysStayApart` rules that out of the key, and then
  a diff without tolerance and rounding is a patch: where the guard over the stored keys finds none twice,
  no two rows of a table have one compared key, a row has at most one partner in the join, and the key
  of a row of the diff tells the pair behind it (`JoinTellsKeysApart`); a key that is not reported belongs
  to a pair whose compared columns are the same. And both forms of a value that was only retyped
  are equal (`RetypedComparesEqual`), so without rounding such a column is no change and such a key
  finds its row; a DOUBLE that became FLOAT only where FLOAT holds it. The condition on the keys is
  needed: without it `DiffWideKeys.cfg` has two rows of a diff with one key (section 7). So is that
  nothing is rounded: `DiffRounding.cfg`.

The assumptions are typing ones (a model value that stands for "none" is no thread, a bound is a natural
number; in `PIIScan`, a text has finitely many matches and a table's values are texts, NULL or fail to
be read; in `AnomalyFunctions`, the arguments of `dbscan` and `outlier_tree` and the values of their
tables are of the registered types, a table is finite, `contamination` has a denominator, and the tables
of logarithms are as long as the longest table of rows; in `Diff`, the tables and the values written
hold what their types do, and the special values are no numbers, texts or instants); TLC evaluates them
in the runs. The type invariants, `LoadedIsWhole`, `LoadedIsFinal`, `Disjoint`, `PatternsStay`,
`Bounded`, `FreshHits`, `PairMatched`, `NoFallbackProbing`, `RefusalIsLast`, `OnlyTheParserTears` and,
under its hypothesis, `SettingsTakeEffect` are proved and in no run.

Only model-checked:

- liveness (`CallReturns`; `LoadEnds` outside of the runs), which the proof system does not cover
  together with `ENABLED`;
- `ReportsOneState` of `PIIScan`, and the properties of `CheckSuite` and `Profile`: each compares a
  result that is folded, counted or selected over rows with its definition, which needs induction
  over the rows.

## 7 Findings and further counterexamples

Six runs show a documented promise broken:

1. `asset_shared`: two processes that download the same model share `<dest>.tmp`. The second truncates
   what the first then renames (`anofox_ner.cpp:912`; "a partially written file can never be mistaken
   for a valid asset", line 905).
2. `suite_vanished`: a partitioned check over an empty table, without a filter and without
   `fail_on_empty`, leaves no row in the result (`anofox_check_suite.cpp:1661`; "Every check produces its
   row", `docs/api/07-data-quality.md:1324`).
3. `scan_record`: while another connection downloads the NER model, `pii_scan_table` goes on without it
   (`anofox_pii.cpp:2897`), and then counts the model as available (`anofox_pii.cpp:70` and 5221): a column
   full of organizations is `no_match`, with `ORGANIZATION` among its `checked_types` and a `ner_model`
   ("without `ORGANIZATION`, `LOCATION` and `MISC` when the NER model could not run",
   `docs/api/06-pii.md:834`). A model that failed during the column and was cleared by a SET before
   its end has the same effect.
4. `smtp_last_reason`: the reason of the last mail host decides. One host puts the recipient off or cannot
   be reached, the next has no address, and `valid` is `false` although the mailbox may exist
   (`anofox_email_smtp.cpp:1042`; "`false` is reserved for definite answers", `docs/api/01-email.md:296`).
   A reply of class 3 to RCPT is taken for a refusal too (935), where line 285 has "permanently (5xx)".
5. `pii_masked`: `pii_audit_table` detects once for what it reports and lets Mask detect once more for
   `masked_value` (`anofox_pii.cpp:4856`, 4864). Where the model is loaded between the two, or its second
   inference fails, a name that is reported stays readable beside it ("The cell value masked",
   `docs/api/06-pii.md:966`).
6. `dbscan_cores`: a point is counted among its own neighbours (`anofox_dbscan.cpp:141`, 215), so one
   with `min_pts - 1` of them is `CORE`, against "at least `min_pts` neighbors within distance `eps`"
   (`docs/api/08-anomaly-detection.md:372`, 404) and the `neighbor_count` reported beside it. The
   comments in the code mean it so, and `ClustersFollowDefinition` follows them.

Further counterexamples, with a configuration for each (`tlc -config X.cfg M`):

| Configuration | Module | Property that fails | What happens |
|---|---|---|---|
| `NERModelConcurrent.cfg` | `MCNERModel` | `SettingsTakeEffect` | a SET during a load: it is accepted and ignored, or the failure of the old model stays, or automatic download is turned on between a load's reading of it and its `NOT_DOWNLOADED`, or a cleared failure is taken for a loaded model where one is required. `DownloadingIsInProgress` (an exception outside the `try` leaves the status for ever) and `SnapshotConsistent` (a status with the message of another) fail with the same constants |
| `DnsLookupNullMx.cfg` | `DnsLookup` | `NullMxRefused` | the MX query fails transiently and the address record is used for a domain with a Null MX (`docs/api/01-email.md:223`) |
| `AnomalyFunctionsWeights.cfg` | `MCAnomalyFunctions` | `InterruptedCallEnds` | a NaN weight: sampling loops until its sample is full, which it never is, and looks for no interrupt (`anofox_isolation_forest.cpp:1205`, `docs/reference/troubleshooting.md:94`) |
| `DiffWideKeys.cfg` | `MCDiff` | `KeysAreDistinct` | keys beyond 2^53 that became DOUBLE are distinct to the guard and equal to the join (`anofox_diff.cpp:425`, the comment at 403). By the proof the one other case, of the types modelled, is a TIMESTAMP_NS key beside a TIMESTAMP WITH TIME ZONE, whose nanoseconds are cut |
| `DiffRounding.cfg` | `MCDiff` | `RoundedValuesAgree` | of a DECIMAL that became DOUBLE only the floating-point side is rounded, so values that agree to that many digits differ (`anofox_diff.cpp:477`, `docs/api/09-diffing.md:542`) |
| `ProfileRates.cfg` | `MCProfile` | `SizeIsRowsScanned` | a commit between the count of rows and the query of the statistics: the size is not that of the rows the statistics are of (`anofox_profile.cpp:717`, `docs/api/10-profiling.md:95`). `NullRateIsARate` fails with the same constants: a rate above 1 |

And by constants:

- `AssetDownload` with the constants of `Downloads.cfg`: `DestIsWhole` fails with one process already.
  The result of `fclose` is not looked at and a cut file is renamed (`anofox_ner.cpp:905-915`).
  `InstalledNotDownloaded` fails when a process dies between the two renames of the migration: the model
  is downloaded again.
- `PostalManager`: `LoadedDataIsWhole` fails. `tar` stops inside the last archive; the next
  `postal_load_data` finds every marker file and returns true (`docs/api/02-postal.md:107`).
- `PyLoader` with the same: `RaisesForEverySource` fails. A `LOAD` that is refused (`_loader.py:114`), a
  checksum that cannot be written (212), or a death between the binary and its checksum raises at once
  and no other source is tried (`python/README.md:329`).
- `MCTableReports` with the constants of `TableReports.cfg`: `WideBoundIsExact` fails. A bound of more
  than 38 digits is taken to be beyond every value (`anofox_check.cpp:440`), although a HUGEINT reaches
  1.7e38.
- `AnomalyFunctions` with `Cases <- WideRange`: `FlaggedOutsideRange` fails. The bind accepts a
  `z_norm` above `z_outlier`, and then a flagged value lies inside the range that is reported for it
  (`docs/api/08-anomaly-detection.md:552`).

Further disagreements met while reading, which no property is about:

- `rolling_values_in_set` takes its default reference date from the unfiltered table
  (`docs/api/07-data-quality.md:1153`). The suite accepts a negative `k` that the direct function rejects.
  `schema_check` counts two spellings of one column twice directly and once in the suite. Two checks
  that share a name yield error rows that nothing tells apart.
- "Cannot overflow" at `anofox_sql_utils.hpp:218` is false for a column with both extremes of HUGEINT: the
  difference of the greatest to the midpoint does not fit, and `profile_table` raises.
  `StatisticsDescribeRows` allows a profile to raise for such a column only.
- NaN passes the bind checks of `max_perc_outliers`, `z_outlier` and `z_norm`.
- In `anofox_profile.cpp` a failed count query is ignored (718), a failed `ComputeTotalNulls` counts 0
  (176), centring a DECIMAL for correlations is unguarded (877), and a column is classified by
  substrings of its type's text, so that a STRUCT with a number in it is a number.
- A mail host named `localhost` is contacted (`anofox_email_smtp.cpp:796`, `docs/api/01-email.md:277`).
- `pii_audit_table` leaves out a column it could not read to its end and only traces it
  (`anofox_pii.cpp:4819`, 4834).
- A match dropped for an earlier one may leave its tail unmasked, and a URL that yields to an email
  address inside it is lost also when that address then loses to a third match.

## 8 Not modelled

- Whole components: the PII recognizers and the VAT, money and phone functions are regular
  expressions, tables and check digits over the characters of one value, without state; a model
  would repeat them character by character, and table tests reach them. The Python client builds
  SQL text for one statement at a time. Process helpers and registration have no state that a
  property is about.
- NER: tokenizer, inference windows, decoding of entities; builds without OpenVINO.
- PII: masking strategies, the scalar SQL functions around Detect and Mask, confidences in a scan. The
  snapshot of the PII settings reads two settings of other components outside its mutex
  (`anofox_pii.cpp:758`); `StatementSettings` takes it as one step.
- Email: the regular expression over characters, IDN rules, address literals under a custom
  pattern, the ranges of numeric options. An older DNS answer may be stored over a newer one;
  `DnsCache` does not give answers an age.
- Anomaly: real arithmetic (gains, path length normalisation, coefficients of hyperplanes), the
  generator and its seed, `coef_type`, `prob_pick_avg_gain`.
- Diff and profile: case folding of names, wording and tracing; text lengths, patterns, skewness,
  kurtosis, prepared statements, changes of a table's columns under a profile.
- Checks: message texts, samples of failing rows beyond their presence, quoting of names.
- Memory exhaustion; telemetry and the start banner, which come from other repositories.
