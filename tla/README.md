# Verification of the commerce data platform

TLA+ models of the parts of this repository that coordinate processes or keep
state over many runs: who may change the source database and when, which rows
those changes leave, how a table gets into Bronze exactly once, which facts a build
recomputes, and how the mart warehouse is published and served. TLC checks the models on small
instances; TLAPS proves their safety properties for every instance.

Paths below are relative to the repository root; in `PROJECT.json` they have the
prefix `src/`, the directory that holds the repository.

## The system

Airflow (or a command line) drives a pipeline over four stores:

| store | what it holds |
|---|---|
| source PostgreSQL | the shop's tables, each mutable row with a cursor timestamp; `generator_commits` |
| metadata PostgreSQL | `source_mutation_leases`, `watermarks`, `pipeline_runs`, `bronze_objects`, `quarantine_batches`, `generator_runs`, `mart_publish_runs` |
| object store (SeaweedFS, S3 API) | per batch and table: `data.parquet`, `manifest.json`, quarantine `records.parquet` |
| file system | the published DuckDB file, build files, `failed/`, the serving export |

### Components

| component | state it keeps | operations | modelled in |
|---|---|---|---|
| Source mutation lease (`src/common/lease.py`) | one lease row: owner, version, expiry | acquire, renew, assert, fenced commit, release | SourceLease, SourceMutation |
| Generator run (`src/generator/service.py`, `core/`) | generator_runs, generator_commits, the source rows | `run_generator`: reuse or recover an earlier result, acquire, write, fence, COMMIT, record, release | SourceMutation |
| Order and customer generation (`src/generator/orders`, `customers`) | source rows inside the one transaction of a Generator run | order and subscription life cycles, profiles, membership tiers | OrderRows, SubscriptionRows, SourceRows |
| Table ingestion (`src/ingestion/service.py`) | pipeline_runs, batch artefacts | `ingest_table` | TableIngestion; its source-lease side in SourceMutation |
| Ingestion control metadata (`src/ingestion/control`) | watermark with table lease, catalog rows | lease, heartbeat, `commit_table_run`, failure records, `rewind_watermark` | TableIngestion |
| Extraction, validation, quarantine (`src/ingestion/extraction`, `contract`) | position in the range, keys seen, local files | fixed range of a snapshot, keyset paging, corruption plans, row rules, reject rate | Extraction; as one step in TableIngestion |
| Bronze store (`src/ingestion/bronze`) | objects, manifests | conditional upload, `reconcile_orphan`, `verify_bronze_commit`, `sync_bronze_catalog` | TableIngestion, DbtIncremental, MartPublish |
| Watermark rewind (`src/ingestion/reprocess.py`) | the watermark | `rewind_tables` | TableIngestion |
| Mart publish (`src/warehouse/publish*.py`) | mart_publish_runs, published and build files | prepare, build, publish, heartbeat, recovery | MartPublish, MartVersions |
| dbt build (`src/warehouse/dbt_runner.py`, `dbt/`) | `control.dbt_processed_batch`, the marts | affected keys, version history, facts, batch watermark | DbtIncremental; a step of MartPublish |
| Serving export (`src/serving`) | versioned exports, the file Metabase reads | export, swap, repoint, prune | ServingExport, over MartVersions |
| Airflow DAGs (`airflow/dags`) | task states | ordering, retries, `all_done` release | in SourceMutation, DbtIncremental, MartPublish and ServingExport where they matter |
| Seed loader, run report, common helpers, benchmarks, dashboards | none of their own | I/O, reporting, measurement | not modelled |

### How they interact, and what is hard about it

* **Two databases, one protocol.** A Generator run commits on the source
  database while its right to do so is a row of the metadata database. The bridge
  is `fenced_source_commit`, a share lock on the lease row held across the COMMIT.
  Warehouse runs only check the lease, in short transactions between their steps.
* **Expiry.** The source lease, the table lease and the publish heartbeat expire
  while their owner is alive. Everything an owner does afterwards races whoever
  took over.
* **Stale reads.** `ingest_table` reads its clock and the watermark before it owns
  the table; a Generator run compares cursors long before it commits; a publish run
  copies the published file minutes before it replaces it.
* **Several writes, no common transaction.** Quarantine object, Bronze object,
  manifest and metadata commit; `mark_publishing`, `os.replace`, `mark_published`.
  A process may die after any of them, and a retry or a recovery has to find out.
* **Partial batches.** The tables of one batch fail, are retried, rejected and rewound
  one by one, while the facts built from them join several tables and only look at
  batches above the last one built.
* **Third parties.** Orphan reconciliation and watermark rewind change the
  watermark beside running ingestion; recovery closes the rows and moves the files
  of publish runs it takes for dead; a pruning export deletes the files of others.

The full list, each item at its line and with the properties that would catch it
going wrong, is under `hazards` in `PROJECT.json`.

## The modules

### SourceLease, SourceMutation

`SourceLease` is the lease row as a record and the operations on it as operators
(`CanAcquire`, `Acquired`, `Renewed`, `Released`, `IsCurrentLease`).
`SourceMutation` runs Generator sessions and Warehouse sessions against it.

* A Generator run goes through `GenReuseSuccess` / `GenAcquire`, `GenRecover`,
  `GenStart`, `GenOpen`, `GenWrite`, `GenFence`, `GenCommit`, `GenUnfence`,
  `GenFinish`, `GenRelease`, one action per transaction or per point where another
  session can come in between, with `GenFail` and `GenCrash`. The source is the
  set of cursors its rows carry, and `marker` is `generator_commits`.
* A Warehouse run acquires, runs one task per table, and releases when all tasks
  are finished. A task is the lease side of `ingest_table`: admission, snapshot,
  upload, the check in front of the commit, the commit, and the heartbeat.
  `began` is the `current_time` that `ingest_table` reads once and checks the lease
  against ever after.
* `RowUnlocked` is the lock on the lease row: while a Generator run is inside its
  fence nobody else can write the row.

### OrderRows, SubscriptionRows, SourceRows

The rows themselves, over many Generator runs. SourceMutation shows that runs take
effect one at a time and with growing dates, so here a run is one step:
`GeneratorRun(d, profile)` is the source transaction of `run_generator`, in its
order. It advances the orders, adds new ones, scans the subscriptions, and applies
the profile to what the scan left (`ApplyProfile`). A run that raises is rolled
back, so it is a step that is not enabled; `NoRunAborts` says which runs cannot.

* `OrderRows`: `ProgressPlan` is `plan_order_progress`, `Acceptable` the checks of
  `plan_*_transition` and `persist_*_transition`, `OrderAfter` what they write.
* `SubscriptionRows`: one operator per transition of a contract, and `Scanned`, the
  expiry scan of one contract. `Realigned` is the branch kept for a contract that
  an earlier version of the Generator left behind (architect review 054, 3.4); as
  that review says, no contract of this version gets there, which the lemma
  `NeverPaidBeyond` of SourceRowsProofs shows.
* Dates are numbers; 30, 7 and 2 days are `Period`, `Grace` and `Retry`. The
  outcome of a charge, delays and cancellations come from hashes over the seed and
  the inputs of the run and are free choices. A delay can be 0, because the time
  scale divides it by up to 2^31 - 1.
* No variable holds the date of the last run: `_assert_source_cursor_forward`
  compares with the rows (`CursorForward`), and so does the model.

The profile `subscription-churned` cannot succeed: the contracts it may pick are
those the scan of the same run has just churned (`ScanComplete`), so
`TransitionCandidates` is empty for it and the run always raises
(`ChurnedProfileRaises`), although
`docs/phases/phase-02-deterministic-generator.md:125` describes when it can be run.

### TableIngestion

One table. Concurrent `ingest_table` runs, `rewind_tables` and `reconcile_orphan`
over the watermark row, the object store and the catalog, while the source keeps
changing. A row version is its cursor; a stored or catalogued object is the run it
was written from, because what a run writes is fixed once its snapshot has been
validated. Which rows are rejected is free within the reject rate. The actions
follow `ingest_table` step by step: `Begin`, `LookupNothing` / `LookupCommitted`,
`LeaseTable`, `OpenSnapshot`, `NoData`, `WriteLocal`, `PublishQuarantine`,
`UploadData`, `UploadManifest`, `Recheck`, `CommitTableRun`, `Close`, with
`PrestartFail`, `NoDataFail`, `Fail` and `Crash`. Losing the source lease is one of
the exceptions `Fail` stands for: SourceMutation is about when that happens.

### Extraction

One table run between its watermark and its upload, over a snapshot that does not
change. A row is the pair of its timestamp and its key. `OpenSnapshot` finds the
upper bound; `ReadPage` is one turn of the loop in `_write_local_artifacts`:
a page of the keyset query (`Ahead`, `IsPage`), the corruption plan (`AppliedKey`,
`KeySource`), the rules in their order (`ErrorCodes`), and the two writers.
`PageRaises` is the first exception of such a turn (`Raised`), after which both
files are removed; `TooManyRejects` is `assert_reject_rate`. `Init` ranges over
every small table, every watermark, every set of invalid rows and every plan.

A primary key is its first and its last column, which is what the plans change:
NULL in the first, an `object()` in the last, a parent that does not exist in the
first. `ChildTable` and `UuidColumns` say which kind of table it is.

TableIngestion takes this as one step with a free set of rejected rows: that the
step delivers its range is `RangeDelivered`.

### DbtIncremental

From the source tables to the facts. One fact is followed with the three rows it is
computed from: an order, its payment and its customer's tier, or a subscription
payment, its contract and its customer's tier (`kind`). Facts of different keys do
not touch each other's rows.

* `Generate` is a Generator run, reduced to which of the three rows it writes and
  what their hashed attributes become (`MayWrite`, `MayBecome`); SourceRows is about
  why only these.
* `Ingest(b)` is the table tasks of one batch and `verify_bronze_commit`: each table
  fails, has nothing to do or reuses its batch, or loads or rejects its row
  (`Outcomes`). The batch is verified when none failed. `Rewind` is `rewind_tables`.
* `Build(full)` is `dbt build` with and without `--full-refresh`, and the publish.
  `Staged`, `Current`, `Versions`, `KeyAt` and `Full` are the models; `New`,
  `AxisChanged`, `Affected` and `Rebuilt` what is recomputed; `Advanced` is the new
  `processed_batch_id`. A build whose `TestsPass` is false is not published.
* `Late` tells two orders of batches apart. `FALSE`: warehouse runs take place in the
  order of their dates, as `max_active_runs=1` and the trigger of the simulation DAG
  make them, each retried any number of times before the next. `TRUE`: a batch may
  also be ingested under an earlier date, as the runbook for missed schedules does.

### MartVersions, MartPublish

`MartVersions` is what a reader of the warehouse relies on: one file, replaced as a
whole by the file of a run that was never published before, each replacement
recorded before the next. `MartPublish` is how the code
does it: `prepare_warehouse_build`, `build_warehouse`, `publish_build`, their
failure handling, the heartbeat thread, `recover_incomplete_publishes` with the
reclaim of a retried DAG run, and the `--recover-only` command.

* A file is the run that built it, which is also what the recorded inode and mtime
  identify. A build file is a `copy` or, when `duckdb.connect` found none and
  created it, `scratch`.
* Time only enters through `PUBLISH_LEASE`: `stale[p]` says that the last heartbeat
  is older. `stale_before` is fixed when a recovery begins; a heartbeat after
  that makes `close_stale_run` miss, which `Touch` does by taking the row away
  from a recovery that has read it.
* Heartbeats can be late anywhere, as in the code: the first one of `publish_build`
  comes 30 seconds after it began, so a run that waited five minutes for its task
  can reach `mark_publishing` with a stale row, and nothing is asked between
  `mark_publishing` and `os.replace`. `Overtaken(p)` says that recovery has closed
  the row of a run about to swap, or has read it and may still close it. The
  history variable `overtaken` becomes true when such a run swaps, and stays so;
  no action reads it. The properties of the published file promise nothing beyond
  that step, for the code guarantees nothing there; the others do.

### ServingExport

Exports of DAG runs and of the command line over a warehouse that changes as
`MartVersions` allows: what MartPublish is shown to implement is all that exporting
assumes of it (a swap of an overtaken run, see there, is outside). A file in `exports/` is the export that made it; `claim` is the
publish run its `serving_manifest` names, `content` the one whose marts it holds.

* `Begin`, `Check`, `Copy`, `Write`, `Recheck`, `Link`, `ReplaceServing`, `Return`
  are `export_serving_mart`; `ExportFail` is its `except` block, `ExportCrash` a
  death that skips it. `Skip`, `Get`, `Put`, `Verify` are
  `repoint_metabase_serving`; `List`, `Unlink`, `Finish` are
  `prune_serving_exports`. `RepointFail` is FAILED, an exception or a death in
  either of them; the DAG task is retried (`Retry`), the command is not (`GiveUp`).
* `managed` says whether the three Metabase settings are set. It does not change
  during a behaviour and is the same for DAG and command line. Metabase is external; `pointer` is its
  `details.database_file`.
* `Exclusive` is the operating rule of
  `docs/architect-review/059_serving-refresh-single-path.md` (line 91) that nothing
  is exported by hand during a DAG run; DAG runs themselves do not overlap. `FALSE`
  is what the code alone guarantees.
* `left` remembers what Metabase showed before, for `NeverShowsOlder`.

## Runs

| run | what it asks | instance |
|---|---|---|
| `source_mutation` | do the table runs one Warehouse run commits show one source; does every source COMMIT happen while the row names the committing run; does an input take effect once, is SUCCESS committed, do committed cursors move forward | 2 Generators, 1 Warehouse run with 2 tables, 2 dates, clock 0..1, TTL 1 |
| `source_rows` | do billing periods, retries, contracts, orders and payments stay consistent over any sequence of Generator runs | 1 order with its person, dates 1..9, period 4, grace 4, retry 2, delays 0 and 1 |
| `conflicting_hash` (violation) | does a person's subscription change at most once per date | as `source_rows` |
| `extraction` | do the two local files hold the range of the run exactly once, and are Bronze keys unique | every table of up to 3 rows with 2 timestamps, pages of 2, plans of up to 2 rules, 50 % rejects |
| `uuid_reject` (violation) | does a row error only reject its row | up to 2 rows of a table with UUID columns, no plan |
| `ingestion` | is a row lost or loaded twice; do catalog, store and `pipeline_runs` agree; are rewound rows extracted again by ingestion | 2 runs, 1 rewind, 2 batches, both reconciled, 2 row versions, clock 0..1 |
| `rewind_orphan` (violation) | ... also by reconciliation | 2 runs, 1 rewind, 1 row version |
| `dbt_incremental` | do incremental builds publish what a full refresh would; does a verified batch pass the tests of the facts | dates 1..3, 2 faults, `Late = FALSE` |
| `late_batch` (violation) | ... when a batch comes late under an earlier date | dates 1..3, 1 fault, `Late = TRUE` |
| `publish` | does publishing implement MartVersions; is an update lost; is the predecessor the right one; can a build file created anew be published; are abandoned rows closed and swaps recorded | 2 publish runs, with the same DAG run or none, a recovery command, fair |
| `serving` | does a served file hold what its manifest names; does the file Metabase is pointed at exist; does Metabase go back to an older run | 2 publish runs, 2 DAG and 2 command-line exports, 3 files kept, `Exclusive = TRUE` |
| `pruned_under_repoint` (violation) | is the file Metabase is pointed at ever pruned when exports overlap | 1 publish run, 1 DAG and 3 command-line exports, 3 files kept |

Why the bounds are enough to be interesting: with a time to live of 1 a clock of
0..1 already expires a lease once, and every session can lose it to another. Nine dates hold two completed cycles of a contract, or a
failed charge with a retry and the end of its grace period, or a contract, its
cancellation, its end and a second one; a retry interval of 2 leaves dates on which
a run comes too early, and a grace period of 4 has room for one that must not be
charged. Contracts of different persons do not touch each other's rows, so one
person is enough. Two runs of one table are enough for every
race of ingestion: overtaking, the same batch id, a predecessor's objects. Two row
versions give a run that reads one and is overtaken by one that reads two. Three
rows in pages of two end a page between rows of one timestamp, at the last row and
before it, and two rules put a duplicate behind a row that is itself corrupted. Three
dates write a row, change it and change it back, or skip a batch in between; a fault
is a table that fails, a row that is rejected or a rewind, and two of them leave two
tables of a fact in different batches, or reject a row and rewind it. A
publish run recovers, is recovered and is reclaimed, and the recovery command is a
third party to both; the theorems have any number of runs. Four exports are one more than
are kept, so one is pruned; two publish runs give a file that is replaced during a
copy. The mutants in `PROJECT.json`
show that each property fails on the instance when the code is changed the way a
plausible bug would.

Symmetry is used for published runs, exports of a kind, table runs, batches and sessions, which the
models never order; not in the run with fairness. Deadlock checking is off where
the bounded clock or the finite sets of runs make every behaviour end, and on where
a recovery command goes on for ever.

### Fairness

Only `publish` uses it (`FairSpec`):

* a live process takes the step after its own `os.replace` or hits the exception
  (it is the next statement);
* time passes for the row of a process that has ended;
* recovery is started again and again, as every DAG run starts with it, and does
  not fail at the same point every time: weak fairness on its start and its
  clean-up, strong fairness on its reads and on closing the row, which a new
  heartbeat or a failure can disable in between.

No publisher is assumed to make progress before its swap, to survive, or to clean
up after itself.

## Proofs

TLAPS proves these for every value of the constants that satisfies the assumptions
named in the modules: disjoint sets of actors, null values outside them, positive
times to live, periods, page sizes and retention. None of them uses a bound of the
runs. Hypotheses beyond that (`Exclusive`, `~Late`) are in the statement of the
theorem that needs them. The invariants the proofs rest on were checked with TLC on
the instances of the runs first.

`SourceMutationProofs`: `TypeCorrect`, `FrozenWhileOwned`, `SnapshotsAgree`,
`CursorsForward`, `CommittedOnce`, `SuccessCommitted`. Neither agreement of
snapshots nor forward cursors is inductive: both compare something read earlier
with the source at the end. The key fact is `Fenced`: between its fence and the
end of the fencing transaction a Generator run is the owner the row names. From
it, whatever a session found while it owned the row is still so as long as it owns
it: `Forward` (no committed cursor at or above the run's date), `Unmarked` (no
marker for its input), `ReadIsCurrent` (a task's snapshot is the present source).
`PassedAgree` freezes the last of these at a task's check, after which the lease may
be lost. `TokenIsVersion` adds that the owner holds the row's version. None of this
needs the clock, which is why the stale `now` of `ingest_table` does no harm.

`MartPublishProofs`: `TypeCorrect`, `ScratchStaysOut`, `NoUpdateLost`,
`PreviousIsRight` and `Refinement` (publishing implements MartVersions), without any
assumption on timing; the last three promise something until an overtaken run
swaps, as the properties they prove say. The invariant has two parts. `OrderInv`
holds whoever swaps: at most one active row (`OneActive`), recovery touches files
only after it closed the row (`ClosedVictim`), and so a run whose row is still
BUILDING has the copy it made (`CompleteBuild`). `SwapInv` holds until `overtaken`:
a run swaps only while its row is PUBLISHING and in nobody's hands, hence recovery's
verdict is still right when it closes the row (`VerdictRight`; it need not be exact
in between, for a row read as BUILDING may be marked PUBLISHING afterwards), the
published file and the last recorded run differ at most by the one PUBLISHING run
(`SwapPlace`, `FileRecorded`), and an active run finds what it copied
(`PreviousFound`).

`ServingExportProofs`: `TypeCorrect` and `ManifestsTrue` whatever overlaps (the run
only shows it for exports that take turns), and
`PointedExists` with `Exclusive` as an explicit hypothesis. The first two rest on
MartVersions: a published file that was replaced does not come back, so an export
that finds the file it was asked for before and after the copy has copied it
(`CopiedRight`). The third needs that the export that prunes was found in Metabase
just before (`SettledPoints`) and is the one written last (`WrittenLast`), hence
among the newest for any positive retention; the run `pruned_under_repoint` shows
that it fails without the hypothesis. `NeverBack` (`NeverShowsOlder`, with the same
hypothesis) needs an order of publish runs although nothing numbers them: of two runs
that were both published the older one is in `past` (`Gone`). An export on its way
to Metabase holds a run that is not older than the one shown (`OnlyForward`), and
what Metabase was moved away from is gone (`LeftGone`).

`TableIngestionProofs`: `TypeCorrect`, `CatalogCorrect`, `SuccessCorrect`,
`NoRowLostCorrect`, `LoadedOnceCorrect`, `RewoundCorrect`, for any number of runs,
rewinds, batches and row versions. The catalog and the store agree because uploads
are conditional: a stored object is never replaced, so what a run or a
reconciliation has seen stays true (`Evidence`). No row is lost because a run's
snapshot holds everything between the watermark it read and its upper bound
(`SnapshotComplete`, `UpperKnown`) and the commit compares the version of the watermark with the
one the run read (`TokenAfterRead`, `VersionsGrow`); hence what the watermark has
passed is in the catalog (`PassedInCatalog`). As long as nobody rewinds, everything
catalogued lies at or below the watermark (`LoadedBelow`), so a range that begins
there is new. None of this needs the table lease to exclude anybody: an expired lease
costs work, not rows.

`ExtractionProofs`: `TypeCorrect`, `KeysUniqueCorrect`, `RangeCorrect`, for every table,
watermark, page size and plan. What was delivered is exactly what lies between the
watermark and the cursor of the last page (`Delivered`), numbered in
the order of the cursors (`Numbered`), each row in the file its errors send it to
(`Sorted`), and the keys in the Bronze file are
among those the run remembers (`KeysSeen`). A page that is not full ends the range
(`AllRead`). That a page of a finite set has a last row is a well-founded minimum
(`LeastNatural`), the only form of induction used.

`SourceRowsProofs`: the type invariant and all ten properties of `source_rows`, for any
number of orders and persons, every period, grace period and retry interval, and all
delays; and `ChurnedProfileRaises`: no run of the profile `subscription-churned`
succeeds. Contracts meet only where a new one starts, so the argument is about one
contract and its payments (`ContractOK`): an open contract that can be charged is due
exactly where the time it paid for ends (`PaidEnd`), the attempts of a cycle lie
within one grace period of the first (`Retrying`), payments are ordered by cycle and
attempt as they are by date (`PaymentsOK`). From this periods are disjoint, billing
is never early, and `NeverPaidBeyond` shows the realignment branch to be dead. The scan
leaves every contract settled (`Settled`), which gives `ScanComplete` and that no later
run raises; `SuccessorsOK` says a person's contracts follow one another. `OrderOK` and
`OrderTimes` are the same for an order and its payment.

`DbtIncrementalProofs`: `TypeCorrect` and `VerifiedCorrect` (`VerifiedBatchBuilds`)
in whatever order batches come, which the run only shows for batches in order, and
`IncrementalCorrect` (`IncrementalEqualsFull`) with `~Late` as an explicit
hypothesis; the run `late_batch` shows that it fails without it. What the models
compute only depends on what staging leaves of a table's objects, and a batch either
leaves that set alone or observes a row that is not older than any in it
(`StagedStep`). Such an observation removes no key from a dimension (`ObservedKeys`),
so what passed its tests passes them for ever (`Tested`), and if it is newer than the
fact it leaves the version in effect when the fact happened, provided there was one
(`ObservedKeyAt`). Which tables can be in Bronze without which others (`SourceJoined`,
`VerifiedJoined`) gives the rest of `VerifiedBatchBuilds`, and that a row a build has
seen had its dimensions (`OldRootJoined`). The centre of the last theorem is
`FactsCurrent`: the facts are those of a full refresh, or the next build recomputes
them. It needs that a batch which is not built yet is above the processed ones
(`BatchesAhead`), the one place where the order of batches matters, and that every
published fact has a successor in a full refresh, so that delete+insert leaves none
behind (`Named`).

Only model-checked: `AbandonedRunClosed` and `SwapIsRecorded` of MartPublish, which
are liveness under fairness and out of the prover's reach.

## Where the code and its documents disagree

1. `rewind_orphan`: reconciliation compares the watermark's cursor but not its
   version (`orphan.py:119`), so an object uploaded before a rewind to its lower
   bound is committed after it and the rewound rows are not extracted again, against
   `src/ingestion/reprocess.py:57`.
2. `uuid_reject`: the quarantine payload is JSON of the raw values and the encoder
   does not know `uuid.UUID` (`src/ingestion/extraction/quarantine.py:149`). A rejected
   row of `customer_subscriptions` or `subscription_payments` therefore fails its
   batch at every retry, against
   `docs/phases/phase-03-incremental-ingestion.md:202`. The `object()` of a
   TYPE_MISMATCH rule and a NULL reference of a child table
   (`references.py:56`) raise in the same way, in any table of their kind.
3. `late_batch`: rows ingested under a batch id below the greatest processed one never
   become affected keys (`dbt/macros/processed_batch_watermark.sql:18`), against
   `docs/runbooks/r11-missing-schedule.md:45` and 49, which describes the procedure
   that does this. A full refresh repairs it.
4. `conflicting_hash`: a `subscription-active` run can start a contract for the person
   whose contract its own scan has just churned
   (`src/generator/customers/profile_mutations.py:110`), which gives two contract rows
   with one `updated_at`; `dbt/tests/int_customer_history_no_conflicting_hash.sql`
   forbids it and fails in every later build.
5. `pruned_under_repoint`: `prune_serving_exports`
   (`src/serving/metabase_repoint.py:108`) does not ask which file Metabase is or
   will be pointed at. Three command-line exports beside a DAG run between its
   export and its repoint delete the file the repoint names, against the invariant of
   `docs/adr/019-serving-file-visibility-for-metabase.md:19`. The operating rule that
   rules this out is `Exclusive`.

More, without a run of its own:

* A late swap. A publisher whose heartbeat is late between `mark_publishing` and
  `os.replace` (`src/warehouse/publish.py:222`) is closed FAILED and swaps
  afterwards; `docs/troubleshooting/warehouse-publish.md:21` says a swap happens only
  in PUBLISHING, and `docs/architect-review/061_publish-heartbeat-lease.md:128` lists
  it as a remaining risk. `publish` includes it and shows what it leaves: up to that
  swap (`overtaken`) nothing is lost or wrongly recorded, the file that gets
  published is a complete build and not one created anew, and no row stays active.
  Neither case of `Overtaken` can be dropped: with only the closed rows, or only the
  rows a recovery has read, TLC finds `ImplementsVersions` violated.
* `ingest_table` checks the source lease against the time at which it began
  (`src/ingestion/service.py:156`), so an expired lease passes the check in front of
  the commit, which `docs/phases/phase-04-airflow-orchestration.md:65` says it does
  not. Snapshots agree nevertheless (`SnapshotsAgree`).
* `reconcile_orphan` recognises an interrupted run by its status RUNNING
  (`src/ingestion/bronze/orphan.py:104`) and so may commit the batch of a live one,
  although its message says only crashed ones; `NoRowLost`, `CatalogMatchesStore` and
  `SuccessIffCatalogued` are checked with this included.
* The profile `subscription-churned` always raises, see SourceRows above.
* A subscription payment whose customer's first tier row was rejected is dropped by
  the inner join of `int_subscription_payments_enriched.sql`, and a first tier
  observation newer than the payment does not make it affected, so incremental builds
  leave it out; `IncrementalEqualsFull` exempts the case. A full refresh brings it in.
* `dbt/tests/dim_subscription_transition_valid.sql` accepts single steps between
  consecutive observed versions of a contract. Warehouse runs only observe the state at
  their date, so a date whose batch failed can hide a step, such as the
  CANCEL_REQUESTED between ACTIVE and CHURNED.

## What is not modelled

* The contents of rows: amounts, labels, Parquet encoding, hashes. Where a decision
  depends on them it is a free choice.
* Of dbt: bounded replay (`bronze_as_of`, which only allows full refreshes and does not
  move the batch watermark), products, sellers and order items, which reach the facts
  as payments do, metrics and `dim_date`, and the tests of the dimensions. Also the
  join of orders with `stg_customers_current` (`stg_orders.sql:38`,
  `int_orders_enriched.sql:6-7,19`), an input of the order facts that is not among
  their affected keys: customer rows do not change after their insert, and a batch
  is verified only with its customers, so the join finds the same row in every
  build.
* Items, amounts, addresses and identifiers of generated orders: no decision
  depends on them.
* Retention of failed builds and their WAL files, the seed loader, the run report,
  benchmarks, scripts and dashboards: I/O without state anything else reads back.
* Metabase beyond the path it is pointed at: a PUT that takes effect long after its
  caller timed out, a changed configuration, cached connections. Files written in
  the same nanosecond, which retention cannot order.
* Airflow and PostgreSQL themselves: a task can be retried or die at any point, a
  transaction is atomic, a row lock excludes.

## Plan

1. **Pipeline**: SourceRows under DbtIncremental, so that the tests of the dimensions
   can be stated over the statuses of contracts; SourceMutation and TableIngestion over
   one watermark and source.
2. **Liveness of the source lease**: with an expiry flag in place of the clock, a
   session that keeps trying acquires the lease after its owner died.
3. **Lease-free facts as theorems of their own**: which of the properties of
   TableIngestion survive when a lease excludes nobody, as `OrderInv` does for
   MartPublish.
