# Formal models of the market streaming data platform

The platform moves Binance trades through Kafka, Spark Structured Streaming and
Iceberg (Bronze, then Silver) into a ClickHouse table that a BI reader queries.
This directory holds TLA+ models of the parts of it that keep state or run
beside something else, the TLC runs that check them, and TLAPS proofs about every
one of them. Paths below are relative to the repository root.

## 1. Inventory

Data flows left to right; every arrow is a store or a protocol, never a call
from one process into another:

    Binance WebSocket -> producer -> Kafka topic -> streaming job -> Bronze (Iceberg)
    Bronze -> Silver rebuild -> Silver (Iceberg) -> serving rebuild -> ClickHouse -> BI

| Component | State it keeps | Operations | What is hard | What makes it correct |
|---|---|---|---|---|
| Producer runtime (`jobs/producer/binance_producer.py`, `binance_publisher.py`, `binance.py`, `websocket.py`) | one open session, backoff (delay, attempt, awaiting recovery), shutdown request, the unwinding exception | connect, receive, publish, reconnect, handle SIGTERM/SIGINT, final flush | cancellation takes effect only where an await suspends; exceptions replace each other; a retry may duplicate a message | order and completeness within a session, one socket, backoff tied to deliveries, nothing half published at a clean shutdown, shutdown ends |
| Kafka publisher (`publisher.py`, `confluent.py`) | the client's queue, the result of one delivery callback | send, flush, callback | lost answers, late appends, callback never observed | an acknowledged trade is in the topic |
| Streaming job (`jobs/streaming/iceberg_trade_streaming_job.py`, `iceberg_sink.py`, `kafka_source.py`, `s3a_checkpoint.py`) | query and Spark session, shutdown event, primary error; durable: checkpoint, Bronze | start, schema gate, poll, stop query, stop Spark, restore handlers | signals at every point, two cleanup paths, crash between Iceberg commit and checkpoint commit, restart | each offset in Bronze once, no checkpoint before the schema is right, cleanup once and in order, first error kept, shutdown ends |
| Bronze migration (`iceberg_bronze_migration.py`) | the table's schema | inspect, ALTER, inspect again | ambiguous ALTER, racing and repeated migrations, DDL by other tools | only the exact legacy schema is altered, the report is true, a retry is safe |
| Quality classifier (`bronze_quality.py`, `trades.py`) | none (pure) | classify a record | NULLs, two JSON readings that may disagree, text that is no decimal | every record gets one row, and a label that agrees with its fields |
| Silver rebuild (`iceberg_silver.py`) | Silver table | validate schema, transform, createOrReplace, count | decimal rounding and overflow, rows from before the contract, overlapping and repeated rebuilds, lost commit answers | complete, valid-only, servable, one commit, never older |
| Serving schema control (`jobs/serving/clickhouse_schema.py`) | database, target and staging tables | ensure, validate, truncate, count, exchange | ambiguous statements, wrong existing tables | foreign tables are left alone, EXCHANGE once |
| Serving load, gate, rebuild (`clickhouse_staging_loader.py`, `silver_source_validation.py`, `silver_staging_fingerprint.py`, `clickhouse_rebuild.py`) | bound snapshot, staging content, row counts | bind, read, load, count, compare, exchange, verify | JDBC loses/duplicates rows, kill anywhere, Silver rebuilt meanwhile, abandoned inserts, two operators | readers see one whole snapshot, never an older one; a failed command changes nothing visible |
| BI reader provisioning (`clickhouse_bi_reader.py`) | account and grant | create, alter, grant | three statements without a transaction, two operators, a dashboard that is using the account | a reported account works, provisioning again never interrupts it |
| Inspection (`iceberg_inspection.py`) | the snapshot its session has loaded | a dozen queries, totals before listings | commits between any two queries | listings are never shorter than their totals allow |
| Console job, smoke table, one-shot publish, configuration | none that outlives a call | smoke-check calls | - | - |

Components interact only through stores: the producer and the streaming job
through the Kafka topic; the streaming job, the migration and the Silver
rebuild through the Bronze table; the Silver rebuild and serving through the
Iceberg history of Silver; the serving commands with each other and with the
BI reader through the two ClickHouse tables. `PROJECT.json` lists the hazards
line by line, each with the properties that would catch it.

## 2. Plan

Most important behaviour first. All of it is written, checked and proved as far as
section 6 says.

1. `ClickHouseServing` and the abstract `ServingPublication`: publication to readers.
2. `BinanceProducer`: runtime, reconnect, shutdown.
3. `BronzeStream`: streaming job, restarts, checkpoint.
4. `BronzeMigration`, `BIReader`, `IcebergInspection`: the one-shot commands.
5. `BronzeQuality` and `SilverBuild`: classification of a record and transformation
   of a row as operators, and the rebuild command around them.
6. `MarketPipeline`: Bronze, Silver and the abstract publication composed, from Kafka
   record to dashboard row.
7. Proofs: `*_proofs`, one module per component (that of the migration also holds the
   composition `OneShotCommands`), and `Recursion` for what they share.

What could follow: an abstract Kafka log that `BinanceProducer` implements, as the
source of `BronzeStream`'s offsets, and the session around `rebuild_serving`, whose
`spark.stop()` is not guarded as those of the other commands are
(`clickhouse_rebuild.py:89`).

## 3. Modules

### ServingPublication, ClickHouseServing, ClickHouseServing_proofs

`ServingPublication` is what the refresh promises: a history of Silver
snapshots, the index `served` of the published one, and what a query sees;
`Publish` moves readers to a whole snapshot that is not older.

`ClickHouseServing` is `python -m jobs.serving.clickhouse_rebuild rebuild`
statement by statement, with `clickhouse_staging_loader load` (its first part
alone) and `clickhouse_schema ensure`. A table is a multiset of canonical rows,
so duplicates count. The two physical tables `t1`, `t2` keep their identity and
`EXCHANGE` swaps which one is named `silver_trades` (`target`). An INSERT goes to the
table its name meant when it began: `insert[p]` holds the rows of the INSERTs that
command `p` has open, per physical table, and each row is stored there later, also
after another operator's EXCHANGE. TRUNCATE and EXCHANGE take effect at one instant
(the server serialises both on the name), and a SELECT reads one state of a table.
`pc[p]` names the statement
that command `p` executes next:

| Action | Code |
|---|---|
| `Start` | `rebuild_serving` / `resolve_current_snapshot_id`: bind one snapshot |
| `ReadSource` | the loader's NULL check of the bound snapshot |
| `EnsureSchema` | CREATE IF NOT EXISTS for all, then the exact contract |
| `TruncateStaging`, `BeginInsert`, `StoreRow`, `WriteDone` | TRUNCATE and the JDBC append, of any number of open INSERTs; `save()` returns when all have their answer |
| `CountStaging` | transport row count; end of `load` |
| `CompareMetrics`, `CompareFingerprints` | `validate_staging_against_snapshot`, two separate reads of staging |
| `CountTargetBefore`, `CountStagingBefore`, `Exchange`, `CountTargetAfter`, `CountStagingAfter` | `exchange_serving_tables` |
| `Fail*` | an exception, a kill or a lost answer at any statement, with the statement applied or not; `FailWrite` ends the open INSERTs with their client or leaves them to the server (`orphan`) |
| `WriteAnomaly`, `OrphanEnds` | external: the JDBC driver loses, repeats or alters a row; the server finishes an insert whose client is gone |
| `SilverRebuild` | a Silver build commits meanwhile |

The schema contract is one value (`absent`, `exact`, `other`): a database or
table that differs in anything `validate_schema` reads is `other`. SHA-256 is
taken as injective, so fingerprints agree exactly when the multisets do.
`Contents` decides which builds exist; `NullRows` makes one of them refusable.

Two constants separate what the code guarantees from what it relies on.
`Exclusive`: one serving command at a time. The design notes prohibit concurrent
rebuilds operationally (`docs/silver-clickhouse-dashboard-mvp.md:186`); no lock
enforces it. `Orphans`: whether ClickHouse may still apply an insert after its
client gave up. With `Exclusive` and without `Orphans` the full promise holds;
the other two runs say what is left of it with `Orphans`, and with neither assumption.
`intact` and `sound` are history for the last: the commands whose staging nobody emptied
or exchanged since their comparison, and whether the last EXCHANGE was by one of them.

### BinanceProducer

One asyncio task. `pc` is its place: `connect`, `recv`, `publish`, `closing`
(the WebSocket context exit), `sleep`, `finalize` (after the SIGTERM handler is
removed), `exited`. `exc` is the exception that unwinds. A signal is recorded
(`term`, `intr`) and takes effect in `Cancel`, which is possible only where an
await suspends (`Suspended`): in particular `recv()` with buffered frames does
not suspend, and the synchronous publish never does. While a signal is pending
nothing else that needs the event loop happens first (`Calm`), except a close
that returns without suspending.

Trades are pairs (session, place). `queued` is the Kafka client's queue, `wire`
what the broker may still append, `log` the topic, `acked` the messages whose
callback reported success; the broker may append a message again after a lost
answer and after the client reported an error. `Disconnected`, `Wake` and
`OnSuccess` are the backoff state of `run_binance_trade_publisher`; `losses` is
a history variable that counts lost or refused sessions since the last delivered
trade. `FinalFlush` is both branches of the final flush, `ExitOf` the exit status
through `asyncio.run` and `main`.

External assumptions: once a message is acknowledged the broker appends no
further copy of it; `flush()` without a timeout may return with a message still
queued (the code checks for that); the final flush does not itself raise; there
is no second SIGINT and no restart of the process.

### BronzeStream

The main thread of the streaming job and the query it starts. `pc` follows
`run_iceberg_trade_stream`: `check` (schema gate), `creating` (inside
`toTable()`), `started` (query returned, handlers not installed), `poll`,
`wait`, `stopQuery`, `stopSpark`, `leave`. `guarded` says whether the shutdown
handlers are installed, so that a signal sets the event instead of killing or
raising KeyboardInterrupt; `handle` whether the variable `query` is set. The two
cleanup paths of the code (inside and outside the handlers) are the same steps
with `guarded` true or false, and the first error is kept as in the code.

External: Spark keeps per checkpoint directory the initial offset, the end
offset of every planned batch and the number of committed batches (`store`); the
Iceberg sink appends a batch in one commit and skips one it already has. Kafka is
one partition whose topic is neither truncated nor recreated. One job runs at a
time. A checkpoint location is an enumerated name; `Directory` maps the spelling
with a trailing slash to the same directory. The historical checkpoints hold
offset 0 as their progress. `Migrate` is the effect of the migration command on
the gate. A query that ends by itself without an error does not occur (the job
sets no trigger under which it would), so that `return` of the poll loop is not
an action.

### BronzeMigration

`run_migration`, one action per statement, for any number of commands. A schema is a
sequence of columns, the thirteen trade columns counting as one, so that partial,
reordered and extended tables are different schemas. `Inspect` and `Verify` are the
two inspections with their three outcomes; `Alter` adds both columns in one catalog
commit or none, and an applied ALTER may still raise (`altered`). `Stop` is
`spark.stop()`, whose error counts only if there is no other. `Kill` ends a command
anywhere; `EnsureTable` is the helper `ensure_bronze_trade_table`, CREATE IF NOT EXISTS,
which no job calls (the streaming job requires the table); `ForeignDDL` is another tool.
`rerun`, `changed` and `verified` are history: whether the table was migrated when the
attempt began, whether another tool changed it since the command's inspection, and which
reports no other tool has outdated since.

### BIReader

`run_provision`: `Create`, `Alter`, `Grant`, each of which may be applied and still
fail, and `Fail`, a statement that was refused or never arrived. Every attempt brings
the password of its environment, or none. `Drop` is an administrator. The account is
one value (absent, or its password), the grant a Boolean; it names the table, so that
the EXCHANGE of the serving refresh does not move it.

### IcebergInspection

`run_inspection`: `Describe`, `CountRows`, then `Count` and `List` of each section, and
`Stop`. A table is the number of data files of each of its snapshots; `AppendCommit`
and `ReplaceCommit` may happen between any two queries, and `Load` lets a query see the
newest snapshot or an older one that the catalog's cache still holds, but none older
than the query before it. `counted` and `listed` remember the snapshot each number was
read from. The line of text that depends on the partition columns is left out.

### OneShotCommands

The three commands above beside one another: it extends `BronzeMigration`, takes the
other two as instances with what is proved about them, and a step is a step of one of the
three. `OneShotCommands_proofs` holds the proofs about the migration and the theorems
that carry over to the composition.

### BronzeQuality, SilverBuild, MarketPipeline, MarketPipeline_proofs

`BronzeQuality` is the classifier as operators, and `Subsequence`, the elements of a
sequence at chosen positions. A nullable value is a sequence of
length at most one. `Readable` lists what the two `from_json` calls of Spark may return
for one text (external; a map without a record, which permissive mode cannot give, is
assumed away and no property tests that assumption); `Errors` follows `_validation_errors` code by code,
`Classified` is the row. `Complete` says what a valid label promises without
mentioning an error code: the two are written independently and compared.

`SilverBuild` is Bronze as a growing sequence of classified rows, after rows with NULL
labels from before the migration, and `run_silver_rebuild` by any number of processes:
`Inspect` (`_validate_bronze_source`), `Read` (one snapshot of Bronze), `Write`
(`createOrReplace`, one commit or none; a committed one may still raise), `Count`,
`Stop`, `Kill`. Decimals are integers in units of the last digit; `Rounded` is what
Spark does to the product of two DECIMAL(38,18), which keeps six of the eighteen
digits, and `Raises` is the overflow of product or timestamp in ANSI mode, the default
of the PySpark version the project pins. `overlapped` is history: two rebuilds ran
at the same time.

`MarketPipeline` composes this with the serving refresh, for which it uses
`ServingPublication`, the specification `ClickHouseServing` implements, and the loader's
NULL check. Publication is thus one step here; what happens inside it is
`ClickHouseServing`'s subject. What is said of readers (`ServedIsPrefix`,
`ServedNeverOlder`) therefore rests on `Exclusive` and `~Orphans`, under which the serving
refresh implements that step.

### MC modules

They hold values of constants only, with one exception: in `MCCommands` a behaviour runs
one of the three one-shot commands, chosen at the beginning, since they share no state
and their states need not be multiplied.

## 4. Runs

| Run | Module, configuration | Checks |
|---|---|---|
| `serving_serial` | `MCClickHouseServing`, `ServingSerial.cfg` | `TargetIsSnapshot`, the inductive invariant `ServingInv` (with the types), `FailureKeepsTarget`, `PublishedReport`, `CommandEnds`, and `PublicationSpec`: it implements `ServingPublication`, hence readers never go back |
| `serving_orphans` | `ServingOrphans.cfg` | `NoRowMissing`: with abandoned inserts the active table may gain rows, it never misses one |
| `serving_concurrent` | `ServingConcurrent.cfg` | `CompleteUnlessRaced`: two commands at once, whose open or abandoned INSERTs may end in the table readers see, lose no row of the published snapshot unless one emptied or exchanged staging between the other's comparison and its EXCHANGE. That exception is real: in such a race `NoRowMissing` fails, and only the operating rule excludes it |
| `producer` | `MCBinanceProducer`, `Producer.cfg` | `LogInOrder`, `NoGapInSession`, `AckedInLog` (what Kafka holds), `BackoffFollowsLosses`, `NothingHalfPublished`, `SigtermExitDrained`, `FailureIsFinal`, `SigtermEnds` (failure and shutdown), inductive invariant `ProducerInv` |
| `stream` | `MCBronzeStream`, `Stream.cfg` | `AppendedOnce`, `ProgressInTable` (offsets and checkpoint across crashes), `NoStartBeforeSchema`, `QueryStoppedFirst`, `FirstErrorKept`, `ShutdownEnds`, inductive invariant `StreamInv` |
| `commands` | `MCCommands`, `Commands.cfg` | migration: `ReportIsOwn`, `ReportedSchemaStays`, `RerunIsNoop`, `OnlyLegacyMigrates`; BI reader: `ProvisionedCanRead`, `AccessKept`; inspection: `ListingsCoverTotals`; `CommandsInv`, the inductive invariants of the three |
| `pipeline` | `MCMarketPipeline`, `Pipeline.cfg` | `LabelMeansComplete` (the classifier on every record), `SilverPassesGate`, `SilverIsComplete`, `NotionalNearest`, `PoisonStopsBuilds`, `ServedIsPrefix`, `ServedNeverOlder`, `TypeOK` |
| `producer_runtime_failure`, `producer_queued_means_failed`, `stream_signal_sets_shutdown`, `stream_historical_checkpoints`, `silver_notional_exact` | one document statement each | violated: see section 7 |

Bounds and why they are enough:

- Serving: three rows (two trades of one symbol, one of another, which has the
  NULL), four possible builds, two Silver builds, three commands, one JDBC
  anomaly. Two builds of equal size that differ only in which trade is the
  duplicate have equal row counts, equal per-symbol counts and equal distinct
  rows: only the multiset fingerprint tells them apart, and one altered row turns
  one into the other. Three commands give a publication, a failure and another
  publication. Two operators with two commands, two builds and one anomaly give every
  overlap of two: a publication of a race, and a sound one with foreign rows in it.
- Producer: three connection attempts (delay 5, 10, 15 with maximum 15, so the
  cap is reached below twice the last delay), two trades per session and buffer,
  two copies of a message, two SIGTERMs and one SIGINT: a second SIGTERM arrives
  in the close or in the final flush.
- Stream: three starts, three offsets, two signals: a crash after the Iceberg
  commit, the restart that repeats the batch, and a start with a historical
  checkpoint after that.
- Commands: two migration processes with three attempts and one change by another
  tool, from six initial schemas: two that race, one of them with a lost answer, and
  a retry. Two provisioning processes, four attempts, two passwords and one drop.
  One inspection with three commits against listings of two rows: more snapshots than
  a listing shows.
- Pipeline: the classifier gets every combination of missing, blank, zero, good and
  unparsable fields, and every way the JSON readings fail. The topic has a trade with
  an exact product, one that is rounded up, one that overflows, one beyond the
  timestamps and one with an invalid price; two digits with a product that keeps one
  stand for eighteen and six. Three rows, one of them older than the contract, and two
  rebuilds by two processes: an overlap, and a repetition after a failure.

`CHECK_DEADLOCK FALSE` everywhere: operators may stop issuing commands, processes
exit, and the bounds end every behaviour.

## 5. Fairness

Only what a single thread of control does by itself is fair. Serving: weak
fairness of `Step(p)`, the next statement of a command, since every call returns
or raises; not of the driver's anomalies, of failures, or of starting commands.
Producer: weak fairness of `Run`, the task and the calls it makes that end (close
is bounded by its timeout, the final flush by five seconds, a publication by the
client's message timeout); not of frames, of the broker, or of successful
connections. Stream: weak fairness of `Main`, whose polls are timed and whose
`stop()` calls return or raise; not of the query, of starts, or of signals. Commands
and pipeline: none, they have safety properties only; a one-shot command ends because
it is a straight line of calls.

## 6. Proofs

All theorems hold for every value of the constants that satisfies the named
assumptions, and for every bound. Each safety theorem is `Init => Inv`,
`Inv /\ [Next]_vars => Inv'`, `Inv => property`, with one lemma per action or group of
actions; a temporal step combines the three.

**Serving** (`ClickHouseServing_proofs`; `ServingAssumption`).
`TypeCorrect` needs nothing else. `ServingSafe`, `TargetAlwaysSnapshot`,
`NeverRollsBack` (the action property `NoRollback`) and `ImplementsPublication` (the
refinement) assume `Exclusive` and `~Orphans`. `TargetIsSnapshot` alone is not
inductive: an `Exchange` could bring anything into view. `ServingInv` adds that at most
one command is active, that no insert outlives its client and none goes to the target,
that an active command bound a snapshot not older than the published one, and that from the fingerprint to the
EXCHANGE staging holds exactly the bound snapshot. Only `CompareFingerprints` enters the
validated phases, and it tests equality; in those phases the one active command only
reads; `Exchange` then makes staging the target and `served` the bound snapshot at once.
A failed EXCHANGE that was applied is the same step with another `pc`, so an ambiguous
answer changes nothing. On top of it `ReportInv` relates a command's history (`before`,
`swapped`) to the tables: `FailureLeavesTarget`, `PublishedIsBound`.
`CompleteWithoutRace` assumes nothing of the operation: any number of operators, INSERTs
that cross an EXCHANGE or outlive their client. Its invariant `RaceInv` gives up equality
and keeps that staging covers the snapshot of every `intact` command: every step adds rows
(`Grows`), empties staging and leaves nobody intact (`Empties`), or exchanges. From it
`NoRowIsMissing` needs `Exclusive` only: a command that is alone is intact from its
comparison to its EXCHANGE (`AloneInv`).

**Producer** (`BinanceProducer_proofs`; `ProducerAssumption`). `ProducerInv` adds to the
properties which exception unwinds where (`UnwindInv`) and that the current trade is the
only one that can be queued or on the wire, every earlier one of its session being
confirmed (`PublishInv`). From it `LogAlwaysInOrder`, `NoGaps`, `ConfirmedIsInKafka`,
`NothingIsHalfPublished`, `SigtermDrains`, `FailuresAreFinal`. `BackoffIsExact` is about
the recursive function `Backoff`: its values are found by recursion over the losses
(`BackoffValues`), and `BackoffInv` relates the delay kept by the code to the losses
counted by the history variable.

**Stream** (`BronzeStream_proofs`; `StreamAssumption` and `PlainNames`: the historical
checkpoint is not written with a trailing slash; section 7 shows why this is needed).
`StreamInv` says that Bronze is the list of planned batches of the one checkpoint, in
order and without the last one at most (`BatchInv`), which is what the sink's skip of
known batches and the offset log give together, and what is known of query and session
at each place of the main thread (`MainInv`). From it `OffsetsAppendedOnce`,
`ProgressIsInTable`, `NoEarlyStart`, `QueriesStopFirst`, `FirstErrorStays`.

**Migration** (`OneShotCommands_proofs`; `MigrationAssumption`). `MigrationInv` adds what
is known of a command at each statement: `verify` is reached by its own ALTER only, and a
rerun never gets to `alter`, because commands cannot leave the quality schema.
`ReportsAreOwn`, `ReportedSchemaIsFinal`, `RerunsAreNoops`, `MigratesLegacyOnly`. The last
needs that a table at `alter` is legacy or already migrated unless another tool changed it
since the inspection. An ALTER that crosses such a change happens in the model as in the
code; `OnlyLegacyMigrates` confines it to that window.

**BI reader** (`BIReader_proofs`; `ReaderAssumption`). `ReaderInv`: from its ALTER on, a
command knows the account's password if all commands share one. `ReportedAccountWorks`,
`AccessStays`.

**Inspection** (`IcebergInspection_proofs`; `InspectionAssumption`). `InspectionInv`:
what a query saw bounds the next one from below, and a table no rebuild replaced only
grows. `ListingsAreComplete`.

**The three commands together** (`OneShotCommands_proofs`; `CommandsAssumption`).
A behaviour of the three, in any interleaving, is one of each, as they share no variable
(the lemma `CommandsAreIndependent`). Hence `CommandsSafe`, `AccountsWork`, `AccessIsKept`, `ListingsCover`, which state
the properties of the run `commands`.

**Pipeline** (`MarketPipeline_proofs`; `SilverAssumption`). The assumption says of a
record what Spark's `from_json` and `try_cast` guarantee (`Readable`, numeric columns
among it), that the decimal units are positive and the limit is a multiple of the
product's last digit, and that the rows from before the contract have no label. In four
layers:

- Operators. `SubsequenceIsRanked`: `Subsequence(s, I)` has exactly the elements of `s`
  at the positions `I`, each at the rank its position has in `I`; an induction over the
  positions. `LabelIsCompleteness`, `UnreadHasOneError`, `ErrorsExclude`: what the
  classifier makes of any record. `RoundedNearest`, `RoundedReaches`: HALF_UP by integer
  division, for even and odd last digits.
- `PipelineInv`: every Silver snapshot is the transformation of the Bronze prefix it names,
  the reader sees one of them, and without overlap prefixes only grow. It needs the
  sequences to be sequences (`Shape`) and is kept by an append because a build depends on
  its own prefix only (`SameRows`). `PipelineSafe`, `ReadersSeeOneBuild`,
  `ReadersNeverGoBack`.
- `SilverInv`, beside it: every row is from before the contract or is `Classified(m)` of a
  record; what is in a snapshot, and what a command past its commit has read, did not
  raise; a command that was alone between commit and count counts its own snapshot. The
  last part is why `SilverIsComplete` is not inductive alone: `Count` reads the latest
  snapshot, whose writer only the absence of overlap identifies. `SilverSafe`.
- From both: `LabelsAreRight`, `SilverIsServable`, `SnapshotsAreComplete`,
  `NotionalsAreNearest`, `PoisonAlwaysStops`, `DashboardSeesPrefix`, `PipelineTyped`.

**Induction and recursion** (`Recursion`; no assumption). The library's induction
theorems are about an operator `P(_)` and cannot be used. `Induction` is about a set of
natural numbers instead and follows from the library's theorem that these are well
ordered; the lemma `RecursiveFunction` gives the function that a first value and a rule for the next
determine. A recursive definition of the model (`Backoff`, `Subsequence`) is a CHOOSE of a
function that satisfies its equation: the lemma supplies one, and the equation then says
what it computes.

Model-checked only:

- liveness: `CommandEnds`, `SigtermEnds`, `ShutdownEnds` (fairness and ENABLED are out of
  the prover's reach);
- the violated properties of section 7, which are refuted by one behaviour each.

## 7. Where documents and code disagree

- `docs/architecture.md:215`: the runtime exception is said to propagate; a signal
  during the close of the failed session replaces it, and SIGTERM then ends the
  process with status 0. `RuntimeFailurePropagates` is violated.
- `docs/runbooks/binance-kafka-e2e-smoke-check.md:115`: messages left after the
  final flush are said to fail the process; after SIGINT it exits with status 0.
  `QueuedMeansFailed` is violated.
- `README.md:199`: a signal is said to set the shutdown event; between the start of
  the query and the installation of the handlers SIGTERM kills the process.
  `SignalSetsShutdown` is violated.
- `docs/architecture.md:182`: historical checkpoints are said to be rejected; the
  check compares strings, and a trailing slash passes it.
  `HistoricalCheckpointsRejected` is violated.
- `docs/silver-clickhouse-dashboard-mvp.md:77` and `:94`: notional is said to be the
  exact product, never silently reduced in scale; the product of two DECIMAL(38,18) keeps
  six fractional digits and is padded with zeros again. `NotionalExact` is violated;
  `NotionalNearest` says what holds instead.

## 8. Not modelled

- The quality-contract smoke table (`iceberg_quality_contract.py`): one static append for
  smoke checks, read by nothing else.
- The console streaming job (`trade_streaming_job.py`) and its parser in `trades.py`: it
  prints, and has neither checkpoint nor cleanup.
- One-shot synthetic publish (`smoke_publish_one.py`): a single call of the modelled
  `publish_message`; the publisher's `flush=False` path, which nothing uses.
- Configuration, session builders, URL building, logging and printed summaries.
- The session around `rebuild_serving` and the serving CLIs that only read (`inspect`,
  `validate`): the model of serving begins and ends with `rebuild_serving`, `load`
  and `ensure`.
- Kafka retention, topic recreation, several partitions, Iceberg maintenance and
  ClickHouse merges.
