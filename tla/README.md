# A TLA+ model of the e-commerce lakehouse

These modules model the job that this repository deploys to Databricks: the
tables it writes, in the order of its commits, under repeated runs, failures
between any two commits, repairs, and the data-quality probe somebody may start
beside it. Paths are relative to the repository; Python sources are under
`src/` of the repository (`src/gold/scd2.py` here is `src/src/gold/scd2.py` in
`PROJECT.json`, which counts from the directory that holds the repository).

The system has no threads and no messages. What is hard about it is that every
task is a sequence of Delta commits with no transaction around them, that the
same task must be safe to run again at any time with any parameters, and that
several guarantees rest on a fact of another component (one run at a time, a
deterministic change file, a remembered source file, a dimension seeded before
the facts that join it).

## 1. The system

### The job

`resources/ecommerce_pipeline.job.yml`: one job, `max_concurrent_runs: 1`, with
parameters `run_date` and `cdc_day`. Its comment draws a fan-out; the
`depends_on` lists make a chain:

    generate_deltas -> bronze_ingest -> silver_clean -> gold_dims -> cdc_apply
      -> gold_facts -> analytics_views -> idempotency_check

A task that raises, or whose cluster is lost, ends the run where it is; nothing
is rolled back. A failed run can be repaired (continued at the failed task under
the same run id) or simply started again.

### Components

| component | state | operations | what makes it correct |
|---|---|---|---|
| change generator, `src/generator/make_deltas.py` | the change files in the volume | write day 1, 2, 3 over what is there | a rewritten file is the file that was applied; no key of a file ties |
| bronze ingest, `src/bronze/ingest.py` | nine bronze tables; COPY INTO's and Auto Loader's memory of consumed files (external) | `ingest_all`, a table at a time, in one of two modes | a source row lands once |
| silver clean, `src/silver/{clean,transforms,dq}.py` | silver and quarantine tables, `ops.dq_results` | per table: count, overwrite silver, overwrite quarantine, record | one row per key; every key in exactly one of the two tables; NULL fails a rule; rebuilding changes nothing |
| probe, `notebooks/98_dq_probe.py` | none of its own; a bronze version it noted | inject, clean, assert, restore, clean | leaves nothing behind, takes nothing away |
| customer dimension, `src/gold/{dims,scd2}.py` | `gold.dim_customer`, `ops._stg_customer_changes` | seed once; stage, MERGE, append | one current version per person, disjoint windows, append-only history, carry-forward, replays are no-ops |
| small dimensions, `src/gold/dims.py` | five tables | CREATE OR REPLACE each | every key a fact holds is one of theirs |
| facts, `src/gold/facts.py` | three fact tables | CREATE OR REPLACE each | the grain, the customer version at the time of purchase, no restatement of history, nothing missing but the lines of orders silver does not have |
| views, `sql/views/*.sql` | none | queries | the two halves of `v_scd2_integrity` are empty, `v_reconciliation` agrees |
| idempotency check, `src/ops/idempotency.py` | `ops.gold_fingerprints` | capture, compare | green for a rerun, red for a layer that grew |
| run log, `src/ops/run_log.py` | `ops.pipeline_runs` | one row around each logged task | an outcome for every attempt that had one, and the right one |

Interactions: the dimension reads silver (seed) and the change files (apply);
the facts read silver and the dimension; the check reads facts and dimension;
the probe and the job share bronze, silver, quarantine and `dq_results`.

Hard behaviours, in the order of weight: a failure between the MERGE and the
append of `apply_scd2`; the same change file again, on the same or another date;
two days on one date, or a date before the last (backfill); duplicate, tied,
unkeyed and NULL-valued change rows; facts built from a dimension in motion; a
silver table, its quarantine table and its counts taken from three evaluations of
one lazy plan; two ingest modes with separate memories; source files replaced under
the paths they had; gold tables replaced one by one from a silver that may have
changed since; a probe lost half way or interleaved with a run; a run repaired long
after others have passed it; interrupts in the run log. `PROJECT.json`
lists each at its line under "hazards", with the property that is about it.

## 2. Modules

| module | stands for | extends |
|---|---|---|
| `Scd2` | pure algorithm of `scd2.py`: dedupe, row hash, resolve, classify, keys to close, MERGE, new versions, surrogate key | |
| `CustomerAttributes` | what gold derives per person from silver: order totals, latest address, first order, segment, seed row | `Scd2` |
| `CustomerDim` | the dimension's life under job runs | `CustomerAttributes` |
| `CustomerTimeline` | abstract: timelines that grow at their ends by batches | |
| `CustomerDimRefinement` | the mapping from the table to the timelines | `CustomerDim`, instance of `CustomerTimeline` |
| `CustomerDimClaims` | statements of the repository the code does not keep | `MCCustomerDim` |
| `Facts` | the three fact builds over a changing `dim_customer`, the fingerprint | `CustomerAttributes` |
| `GoldLayer` | `CustomerDim` composed with the fact builds, the check and repairs | `CustomerDim`, `Facts` |
| `SourceTables` | the registry of source tables: keys, sequence columns, casts and normalisation | |
| `DqRules` | the registry of quality rules and their predicates in three values | `SourceTables` |
| `SilverRules` | dedupe, failures, routing, counts | `DqRules` |
| `BronzeSilver` | ingest, `clean_all` and the probe, commit by commit | `SilverRules` |
| `StarSchema` | the nine gold tables as functions of silver, and the foreign keys between them | `SourceTables` |
| `Warehouse` | landing volume, bronze, silver and star schema under whole job runs | `BronzeSilver`, `StarSchema` |
| `RunLog`, `RunLogClaims` | `logged_task` around the chain, with repairs | |
| `DeltaGenerator` | the generator, file by file | |
| `MC*` | small instances and their `.cfg` | |
| `*_proofs` | the theorems of section 4 | the module they are about |
| `FiniteSums` | facts the proofs share: finite sets have extremes, sums over finite sets | |

The gold layer is modelled twice, for two different questions. `GoldLayer` follows one
table, `dim_customer`, through change files, failures and repairs, and needs of the facts
only how they join it; silver stands still there. `Warehouse` lets silver change under
the job's feet and follows every gold table and every key, and leaves the change feed out
(`cdc_day = 0`), so that `dim_customer` is what the seed made of it.

### How state and actions correspond

**Customer dimension.** A row of the table is a `Version`. `customer_city` and
`customer_state` are one `address`: the place it means and the spelling it is
written in, because silver lower-cases and trims and the change feed is applied
as it is. `customer_segment` is a column of its own, because it is tracked and
hashed but never sent. The five carried columns travel together and are one
`profile`, named by the person they belong to; `NULL` is the profile of somebody
the seed never saw. `added` is the table version that wrote the row: a table is a
bag, and `added` keeps equal rows apart. `_row_hash` is not stored, since it is
always the hash of the row's own columns.

The actions are the commits: `SeedDim` (seed_dim_customer), `StageChanges`
(apply_customer_changes up to the overwrite of the staging table, and the
collected action counts), `CloseSuperseded` (the MERGE), `AppendVersions` (the
append); `Fail` is possible before, between and after them. `dedupe_by_key`
may keep any of the rows that tie, so `StageChanges` chooses. The joins are SQL
joins: a NULL key matches nothing, and more than one current row would match
more than once. In this module a second attempt is a run of its own with the same
parameters.

**Gold layer.** `BuildNextFact` replaces one fact table per commit from
`dim_customer` as it is then; `Capture` commits the fingerprint and
`CheckIdempotency` compares it. A fact row keeps its key, its `customer_sk`, the
version the join matched (so that a row that fans out stays several), and one
measure. `Repair` takes a failed run up at the task that failed (`stoppedIn`), under its
own run id and parameters, at any later time, with other runs in between. A task can fail after
its last commit, in its last cells or because its log row cannot be written; a repair then does
again what was done (`StillIn`): `cdc_apply` applies its file a second time. A repaired run
may capture twice; the run that compares with it reads both rows into one dictionary,
keyed by table and in no order, so `ReadBack` is the set of dictionaries that can result.

**Bronze and silver.** A table has a list of Delta versions, the last one
current, and a row is the source row and the time it landed. `Typed` is what the casts,
`try_to_timestamp` and `normalise_strings` make of it: what cannot be read, and a blank
string, is NULL. All twenty-three rules of `dq.py` are translated as predicates over typed
rows. `clean_all` is four actions per table, `CountTable`, `WriteClean`,
`WriteQuarantine`, `RecordDq`, each of which evaluates the plan anew on bronze as
it is then, since nothing caches it. Each cell of the probe is an action; its rows and
its expectations are those of the notebook.

**Warehouse.** A run goes on from `silver_clean` with `BuildTable`, one commit per gold
table in the order of the notebooks. Each table is computed from silver, and a fact also from
the dimensions, as they are at its commit. `ReplaceFiles` puts another upload under the
paths of the source files. `FailTask` notes the task in which a run failed (`stopped`), and
`Repair` takes the run up there, at any later time when no run is active; what other runs have
written meanwhile it does not look at. As in `GoldLayer` a task may fail after its last commit
(`StillIn`), and a repair then does again what was done. The tasks that write no table here stand
with a neighbour: `generate_deltas` with `bronze_ingest`, `cdc_apply`, which has no day to apply,
with `gold_facts`, `analytics_views` with `idempotency_check` (`FinishJob`). `failures`, `missed`,
`published` and `seeded` are history: no action reads them but the bound on failures.
`missed` says, of each failed run, which layers others have written since and nobody has yet
carried on to the next layer.

In `BronzeSilver` alone, a repair is no behaviour of its own: a run taken up at `bronze_ingest` or
`silver_clean` writes what a further run in the same mode writes, and one taken up later writes nothing
of that module.

**Run log.** A task is body, then the row, then the cells after it. The body
completes, raises an `Exception`, or is interrupted; the cluster may be lost in
any of the three. `40_cdc_apply` opens no `logged_task` when `cdc_day` is 0.

**Generator.** A random stream is the sequence of its draws, fixed by seed and
day. The customers file is any sequence of persons: days are cut from rows, so
a person may be in two days, or be both updated and deleted on one.

### What the environment is assumed to do

- COPY INTO and Auto Loader land a file they have not consumed, each remembers by path
  what it consumed itself, also if the file is replaced, and neither memory changes when a
  table is restored. These defaults are external to the repository (no `force`, no
  `allowOverwrites` in `ingest.py`).
- A Delta commit is atomic, and an overwrite whose target changed since it began
  fails (Delta's conflict detection). Reading bronze and overwriting a silver
  table is therefore one step of the model, and the conflict is its `Fail`. The first cell of the
  probe is one step too, although it reads the version and the counts one after the other
  (`98_dq_probe.py:72-75`): what a run commits between these reads is left out.
- A change file is replaced in one step (`WriteDay`). `write_csv` truncates and writes in place
  (`make_deltas.py:173-178`), so that a lost generator can leave a part of a file; every run writes all
  files again before `cdc_apply` reads one. A run repaired in `cdc_apply` does not, and could read what
  another run, lost in its generator, has left; that is outside the model.
- The job scheduler keeps `max_concurrent_runs`. Only the job is subject to it;
  the probe is a notebook and runs beside it.
- In `CustomerDim` and `GoldLayer` silver is the same in every run; `Warehouse` does
  without that.

## 3. What is checked

Seven runs must pass and five must find a counterexample. Every property of a
passing run has a mutant in `PROJECT.json`: a plausible bug, written beside the
definition it replaces and marked "a bug", under which TLC finds the property
violated.

**customer_dim** (`MCCustomerDim`, 1,271,680 states). Three job runs with any date
and change day, failing between any two commits. `AtMostOneCurrent` and
`DisjointWindows` are the halves of `v_scd2_integrity`; the second holds while
change files are applied in date order, and the run `backfill` shows that it
must be so. `CurrentUnlessTorn` says who can be without a current version, and
when: only a key between the two passes or torn by a run that failed there.
`NothingBlanked` is carry-forward with the same exception. `ReplayIsNoOp` is the
no-op guarantee for each key whose latest row is strictly latest.
`FileIsReflected` is what applying a file establishes at all.
`KeylessRowsAccumulate` is what the no-op guarantee leaves out: of the rows without a key a file
keeps one, and each run that applies the file adds a version for it, no more and no fewer,
unless it is a delete, which adds none.
`HistoryIsAppendOnly` is an action property of every step.

**timeline** (`MCRefinement`, 1,088,472 states). `ImplementsTimeline`: without a
failure between MERGE and append, with any other failure and any dates, the
table is a set of timelines that grow at their ends by whole batches; the MERGE
is a stuttering step. `WindowsEncodeOrder`: windows and flags, which the mapping
drops, say which version follows which. `SpellingCostsOneVersion`: the feed's spelling of a
city makes a version for somebody who has not moved, but only once.

**gold_layer** (`MCGoldLayer`, 2,769,705 states). The composition, with repairs.
`OneRowPerGrain`: no purchase matches two versions, even one bought on a change date.
`EveryRowResolves`: only an order of a torn person can have no version.
`HistoryNotRestated`: a rebuild leaves the version of an order older than the change date
it had been built with. `PublishedFactsAreCurrent`: after a run that succeeded the three
tables are built from one and the same dimension, unless another run came between the
attempts of this one. `RerunIsGreen` and `RedIffDimensionGrew` say what the idempotency
check answers: a repeated run is green, and the check is red exactly if the dimension has
more rows than at the last other run of the same `run_date`, which is less than its
description claims; where that run was repaired, the order in which its rows are read
decides.

**silver** (`MCWarehouse`, 529,498 states). The whole job over all eight tables with rules or
joins, files replaced between runs, either ingest mode in each run, a failure anywhere, another one
beside a failure in `gold_facts`, and the repair of a failed run at any later time.
`RoutedOnce`, `RebuildsChangeNothing` and `FailuresAreCounted` hold of every *decided* key, one
whose latest row is strictly latest and the same in every upload, at every moment and after every
failure; `SilverIsClean` holds of all. `EachFileLandsOnce` and
`LandedFileIsPublished` say what becomes of a replaced file: it does not land again in the same
mode, and the copy that did land last is what silver has, except where a sequence column outranks
it. `Reconciles` is `v_reconciliation`: no join duplicates a row, and what a fact lacks is exactly
the lines and payments of orders that silver does not have. `ReferencesResolve`: a foreign key,
which nothing enforces, resolves once gold is whole. `SeededOrdersResolve`: an order that silver
already had at the seed finds its person's version, whatever landed since. A repaired run goes on
from its failed task whatever has happened since, and so may finish gold from layers another run has
changed and left behind; `ReferencesResolve` and `LandedFileIsPublished` say in full what that costs,
and hold without exception as long as nobody has overtaken the run (see the limits below).

**probe** (`MCBronzeSilver`, 126,325 states). The probe beside job runs, on a clean
file, and lost between any two of its cells. `ProbeRestores`: a probe that reaches its verdict has
left no row of its own
and removed none of the file's, whatever the runs did in between. `ProbePasses`: its
assertions hold beside the job, and only a landing after the restore makes its last cell
complain. `ProbeIsContained`: of a lost probe, whose rows stay in bronze, no run ever publishes
more than the control row, and the rows of the file stay where they belong. `ProbeCleansUp` is
the liveness property: unless the probe is lost, its rows are eventually gone from all three
tables; a probe lost after its restore leaves none in bronze.

**run_log** (`MCRunLog`, 103,002 states). `PassedTasksAreLogged`, `OneRowPerAttempt`,
`RaisedIsNotSucceeded` with failures, interrupts, lost clusters and a repair at
every point.

**generator** (`MCDeltaGenerator`, 524,288 states). From every customers file and random stream:
`KeysAreDecided` (no ties within a key, so that `ReplayIsNoOp` covers every key of a
generated file; the planted duplicate wins, even if its person is also deleted that
day), `DaysTakeDistinctRows` ("disjoint slices" as far as it is true), and
`RegeneratesTheSame`, which `CustomerDim` takes for granted in leaving `landing` alone.

### Findings

| run | what happens |
|---|---|
| retry_after_failed_merge | A run fails between MERGE and append. The retry joins current versions only, sees none for the closed key, and calls a delete "unchanged": the key has no current version any more. (An update comes back as a "new" version with every carried attribute NULL, which is the exception in `NothingBlanked`.) `scd2.py:229` says the two passes stay idempotent. |
| reinsert_after_delete | One file inserts a person, another deletes them, the first is applied again: the row inserted with its tombstone's address hashes as equal, is "unchanged", and the person stays deleted. |
| two_days_on_one_date | `customer_sk` hashes key and `effective_from`, which is the `run_date`; two change days on one date (its default is constant) that touch the same person repeat a surrogate key. |
| backfill | An earlier `run_date` closes a version before it began and opens one inside other windows. |
| interrupted_task_logged_as_success | `KeyboardInterrupt` and `SystemExit` pass `except Exception`; `finally` writes the initial "succeeded". |

Disagreements and limits met while modelling that need no counterexample, because the text
of the code settles them:

- `dims.py:170` and `decisions.md:92` say the segment is recomputed every run; only
  the seed computes it, and `Resolve` carries it forward.
- A change row with a NULL key is a new version in each replay (`scd2.py:129`).
- The feed's spelling of a city is compared with silver's normalised one, so an equal
  place is a change, once per person (`dims.py:258`).
- `README.md:457` applies a day with the default `run_date`; the second such run of a
  date turns the idempotency check red although nothing is wrong (`idempotency.py:106`).
- `idempotency.py:54` states the grain (run_id, table_name); a repaired check appends a second
  row per table under the same run id.
- `clean.py:7` calls silver a deterministic function of bronze; rows that tie are
  ordered by nothing, so two evaluations may keep different ones.
- A correction that moves an order to an earlier purchase time never takes effect, because the
  sequence column outranks the landing order (`config.py:119`, `clean.py:96`).
- A source file replaced under its path does not land again in the mode that consumed it.
- People and orders that land after the seed never resolve to a customer (`dims.py:195`).
- `dim_date` cannot be built while silver has no order; the task fails (`dims.py`, `build_dim_date`).
- `run_log.py:44` states the grain (run_id, task_name); a repaired run has a row per
  attempt. Tasks without a `logged_task` have none (`run_log.py:1`), `idempotency_check` among them.
- A probe lost before its restore cell leaves its rows in bronze (`98_dq_probe.py:17`); every later
  run quarantines seven of them and publishes the control row. A probe that is not lost may report
  "bronze not restored" because a run landed the table again after the restore.
- A run that failed in `gold_facts` and is repaired after another run has changed silver (by
  ingesting in the other mode, say) and failed before `gold_dims` was done builds its facts from the new silver
  against the old dimensions: status, payment type or date can be NULL, or the date one that
  `dim_date` does not have, in a run that succeeds. That deterministic keys "make the whole gold layer
  a pure function of silver" (`decisions.md:147`) is not true of such facts. `ReferencesResolve`
  excepts exactly this.
- A run that failed after `silver_clean` and is repaired after another has landed files and failed
  before it cleaned them succeeds without those files. `LandedFileIsPublished` excepts exactly this;
  the next full run catches up.
- With rows that tie, one can be in silver and its rival in quarantine (`clean.py:139`).
- A person with two orders may be in two change days (`make_deltas.py:84`).

### Bounds

`CustomerDim`: three runs, two dates, two change days, three people (two orders with
two addresses; none; unknown to silver), nine change files, one per kind of row
plus two with a duplicate key and two of rows without a key (in one of them a delete ties with
an update). Three runs are what the deepest
histories need: seed and apply, tear or delete, and retry; two dates order a change before, on
and after another. Day numbers stand for times, with orders on and between the run dates; 9 is
the end of time, 1 the lapsed threshold and 100 the value threshold, so that the
seed's segment depends on its date ("new", then "returning"; "unknown" without orders).
`commit` grows by at most three a run.
`GoldLayer`: two runs and `MaxAttempts` = 4 attempts of them in all, the same people with three
change files, an order on a run date and one between two, three items and three payments. Four
attempts are a first one and a repair of each run, in any order. Nobody's first order comes after the
date of the seed here; that the seed does not depend on that date is part of the theorems only.
`Warehouse`: two runs, two modes, two uploads of eight tables; each upload has duplicates, ties,
blanks, unreadable values, lines of a quarantined order and a product nobody lists, and the second
moves an order back in time and brings new people and orders. `MaxFailures` = 2: the second run is
the retry of a failed one, or comes before its repair, or fails itself before the repair of the other.
Two failures are explored only if one of them is in `gold_facts` (`OneInGoldFacts`), to keep the run
within minutes: a run repaired earlier in the chain builds all of gold again from one silver, and so has
less to get wrong. That is enough for the exceptions of `ReferencesResolve` and
`LandedFileIsPublished` to occur: without them TLC finds both violated. The theorems have no such bound. `SlackDays` = 1 stands for 365.
Files are replaced only between runs: a run reads each file in one step, so a replacement during
it is, file by file, one before or after it.
`BronzeSilver` with the probe: two runs, two tables of which one has rules, two modes. Bronze has
as many versions as there are landings, plus two of the probe.
`RunLog`: two runs of four tasks, `MaxAttempts` = 2 (3 in the claim).
`DeltaGenerator`: two days of two updates, one delete, three inserts and the planted
duplicate. The times of a day's rows are spaced as in the code (updates from hour 0 in
tenths, deletes from 12, inserts from 18 in whole hours, the duplicate at 23); how many
updates and deletes that leaves room for is part of a theorem.
Runs are interchangeable, so they are a symmetry set wherever no liveness property is checked.

### Fairness

Only `FairSpec` of `BronzeSilver` has any: weak fairness of the probe's steps, because the
cells of a notebook run one after the other until one is lost. The probe may be lost before any of
them; `ProbeCleansUp` says what is left then. No fairness is assumed of job runs: somebody has to
start them.

## 4. What is proved

For every value of the constants that satisfies the named assumptions:

| module | theorem | property |
|---|---|---|
| `CustomerDim_proofs` | `TypeCorrect` | `TypeOK` |
| | `OneCurrentVersion` | `AtMostOneCurrent` |
| | `WindowsNeverOverlap` | `DisjointWindows` |
| | `NobodyIsLost` | `CurrentUnlessTorn` |
| | `HistoryIsKept` | `HistoryIsAppendOnly` |
| | `NothingIsBlanked` | `NothingBlanked` |
| | `FilesAreReflected` | `FileIsReflected` |
| | `ReplaysChangeNothing` | `ReplayIsNoOp` |
| | `KeylessRowsAddUp` | `KeylessRowsAccumulate` |
| `CustomerDimRefinement_proofs` | `WindowsAreTheOrder` | `WindowsEncodeOrder` |
| | `DimensionImplementsTimeline` | `ImplementsTimeline` |
| | `OneVersionPerSpelling` | `SpellingCostsOneVersion`, for a feed that spells one way |
| `GoldLayer_proofs` | `GoldTypes` | `GoldTypeOK` |
| | `RepairsKeepOneCurrent`, `RepairsKeepWindowsDisjoint` | `AtMostOneCurrent`, `DisjointWindows`, under repairs |
| | `RepairsBlankNothing`, `RepairedReplaysChangeNothing` | `NothingBlanked`, `ReplayIsNoOp`, under repairs |
| | `RepairsReflectTheFile`, `RepairsLoseNobody`, `RepairsKeepHistory` | `FileIsReflected`, `CurrentUnlessTorn`, `HistoryIsAppendOnly`, under repairs |
| | `RepairsKeepTheOrder`, `RepairedLayerImplementsTimeline` | `WindowsEncodeOrder`, `ImplementsTimeline`, under repairs, without a torn key |
| | `RepairsSpellOnce` | `SpellingCostsOneVersion`, under repairs, without a torn key, for a feed that spells one way |
| | `FactsKeepTheirGrain` | `OneRowPerGrain` |
| | `FactsResolve` | `EveryRowResolves` |
| | `PastFactsStay` | `HistoryNotRestated` |
| | `FactsAreCurrent` | `PublishedFactsAreCurrent` |
| | `CheckSeesGrowth` | `RedIffDimensionGrew` |
| | `RerunsAreGreen` | `RerunIsGreen` |
| `BronzeSilver_proofs` (with the probe) | `TypesBesideTheProbe` | `TypeOK` |
| | `SilverStaysClean` | `SilverIsClean` |
| | `FilesLandOnce` | `EachFileLandsOnce` |
| | `RowsRoutedOnceBesideTheProbe` | `RoutedOnce` |
| | `RebuildsAreSafeBesideTheProbe` | `RebuildsChangeNothing` |
| | `TheProbeRestores` | `ProbeRestores` |
| | `TheProbeIsContained` | `ProbeIsContained` |
| | `TheProbePasses` | `ProbePasses`, for files that fail no rule |
| `Warehouse_proofs` (the whole job) | `JobTypes` | `TypeOK` |
| | `JobKeepsSilverClean`, `ReplacedFilesLandOnce` | `SilverIsClean`, `EachFileLandsOnce` |
| | `RowsRoutedOnce` | `RoutedOnce` |
| | `RebuildsAreSafe` | `RebuildsChangeNothing` |
| | `FailuresAreAllCounted` | `FailuresAreCounted` |
| | `LastFileIsPublished` | `LandedFileIsPublished` |
| | `JobReferencesResolve` | `ReferencesResolve` |
| | `SeededOrdersAreFound` | `SeededOrdersResolve` |
| | `GoldReconciles` | `Reconciles` |
| `RunLog_proofs` | `LogTypeCorrect`, `OutcomesAreRecorded`, `AttemptsLogOnce`, `FailuresAreNotSuccesses` | the four invariants of `run_log` |
| `DeltaGenerator_proofs` | `RegeneratingIsIdempotent`, `SlicesTakeDistinctRows` | `RegeneratesTheSame`, `DaysTakeDistinctRows` |
| | `DecidedWithinTheHours` | `KeysAreDecided`, for at most 120 updates and 110 deletes a day |

**Assumptions.** Every one is an `ASSUME` of the module that declares the constant, and TLC
evaluates it.

- Data has its type, and NULL, the NULL text of the hash and an unreadable value are no data
  (`SilverTypes`, `FilesAreRows`, `NullIsNotData`, `NullTextIsNotData`, `NullIsNoKey`,
  `UnreadableIsNotNull`). A surrogate key is a SHA-256, never NULL (`HashesAreNotNull`).
- Times come before the end of time (`EndOfTimeIsATime`, `DatesAreTimes`, `DaysAreNumbers`,
  `PurchasesHaveATime`), a time that can be read is a number (`TimesAreNumbers`), and so is
  the slack of `dim_date` (`SlackIsNumber`).
- Files are finite: the uploads, the change files, silver and its payments (`UploadsAreFinite`,
  `FilesAreFinite`, `SilverIsFinite`, `PaymentsAreFinite`). The last two also say that revenue is a
  natural number: money is counted in cents, and the rules reject negative prices and payments.
  In `Warehouse`, where the rules are modelled, a price is any integer or NULL
  (`PricesAreNumbers`).
- Silver has one row per business key (`OneSilverRowPerKey`, which is what `SilverStaysClean`
  proves of it).
- Tables and tasks are lists (`TablesAreListed`, `TaskChain`), and gold reads tables that are
  ingested (`RegistryIsIngested`); bounds are counts (`AttemptsAreCounted`, `SizesAreCounts`,
  `FailuresAreBounded`).
- The probe is no run, its rows are no file's, and its orders are nobody's (`ProbeIsNoRun`,
  `ProbeRowsAreNoData`, `ProbeOrdersAreNew`): their ids are made up (`dqprobe_2`) or NULL. What it
  writes is a number, a text or NULL, and none of it unreadable (`ProbeWritesData`).
- `TheProbePasses` has a hypothesis, `FilesPass`: no row of the data fails a rule. The notebook
  counts on it, since it expects the number of diverted rows to be exactly its own; the instance of
  `probe` satisfies it. The theorem needs nothing of the files' duplicates or of what runs beside the probe.
- The two theorems on spelling have a hypothesis, `FeedSpelling`: the change files write a place in
  one way. The instance of `timeline` satisfies it, and TLC evaluates it there. The generator keeps
  it for updates and inserts, whose cities come from one list, but a delete carries the
  city as the customers file has it. A feed with two spellings of a place may cost a version for each change between them.
- The generator's new people are new and its planted city is none of its others
  (`NewPeopleAreNew`, `CorrectIsNoPlace`).

### The arguments

**The dimension.** No property is inductive. An append keeps `AtMostOneCurrent` only because the
staging table, computed two commits earlier, still fits the dimension: it has one row per key, and
each row that is not a no-op finds no current version of its key, or the MERGE that closes it
is still to come (`StagingFits`). That survives the other steps only because no second run is
active (`OneActive`), which is where `max_concurrent_runs: 1` enters. `DisjointWindows` needs
besides that a current version is open-ended (`CurrentIsOpen`) and that, in date order, closed
windows end by the date of the active run (`ClosedByLastDate`). `IndInv` is their conjunction.
`NobodyIsLost` adds `ActionsCounted`: whether the second pass runs is decided from
the action counts collected when the staging table was written, so they must be the counts of its
rows, or the MERGE could close versions no append follows.

**The feed.** `NothingIsBlanked`: a staged row carries what the current version it joined carries,
and a person whom the seed knows joins one, since the feed is read after the seed
(`Seeded`) and nobody is lost unless torn. `FilesAreReflected`: between staging and append each
deciding row has a staged row that will establish what it asks, or is classified as unchanged
because it holds already (`StagingReflects`). `ReplaysChangeNothing` follows from it in one
direction of a lemma, `UnchangedIffReflected`: the hash says "unchanged" exactly when what the row
asks holds already. `KeylessRowsAddUp` counts: the deduplication keeps one row
without a key, which joins nothing and is "new" or a no-op (`StagedKeyless`), and a commit writes at most one
version per key (`OnePerCommit`), so that versions without a key map one to one into the
runs that began to apply one.

**The refinement.** The MERGE must be a stutter, the append one batch of the abstract
specification. The batch extends each timeline at its end because a current version is the last one
of its person, table versions only grow (`CurrentIsLast`, `AddedByCommit`), and a staged row follows the
version the MERGE has just closed (`StagedFollows`). That a batch is not empty uses the action
counts again.

`OneVersionPerSpelling` needs to know whose spelling an address is. Every version but a
person's first has an address of the feed, or the one of the version before it (`SpellInv`); a
staged row has the one or the other for the version it will become. Two versions that follow each other have
different addresses, or the hash would have called the row unchanged, unless
the later one is a deletion. So when a version means the place of the one before it, under `FeedSpelling` the one
before it is still in silver's spelling, and no version after it can be.

**The dimension under repairs.** The steps of `GoldLayer` are steps of `CustomerDim`, or leave the
tables alone, or are a `Repair`, which is not one: it makes a failed run active again. It writes
nothing, so the timelines, the reflected file and everybody's current version are
what they were; what must be shown is that the run it takes up stages anew before it writes, and that its
commits come after every version there is. The mapping is that of `CustomerDimRefinement`, and a
step of the gold layer is a batch or a stutter of the timelines. The three theorems about
order, spelling and timelines are about behaviours in which no run is torn (`UntornGoldSpec`), as
those of `CustomerDimRefinement` are (`UntornSpec`). Only
`KeylessRowsAccumulate` is not a property of `GoldLayer`: it counts one application per run, and a
repaired run may apply its file, and add the version of the row without a key, once per attempt.

**Facts under repairs.** A repair may apply a change file long after later ones; `DatesSeen`, that
a run's date has been seen since it started, shows that in date order it is then still the last
one, so `IndInv` survives. The grain follows from disjoint windows. Resolution needs more than
disjointness: that windows leave no gap. `AlwaysCovered` says that from a person's first order on a
version covers every instant, or the append that is to come will; the MERGE takes from a window
exactly what the next one begins with. Facts are built only in a run whose seed lies behind it,
repaired runs included (`SeedIsBehind`).

`PastFactsStay` rests on what a step may do to a window (`PastIsFixed`): in date order the MERGE
ends it at the last change date and the append opens one there, so an instant before the last
change date keeps its version. `FactsAreCurrent` needs an account of the
attempts (`PublishInv`): only the last attempt's run can be active, a table it has passed is the
one the dimension makes, and a repair skips `gold_facts` only if the previous attempt, of the same
run, got past it.

**The idempotency check.** A fingerprint has a row count and a measure per table.
`CheckSeesGrowth` shows that, in date order, only one of these numbers can move. What a
fact has of rows and revenue is the same whatever dimension it joined, because the join neither drops nor
duplicates (`Standard`, `MeasureInv`); every fingerprint ever written carries these standard
numbers and a row count of `dim_customer` no greater than today's (`PrintInv`). So two
dictionaries differ, if at all, in that count, and it grew, since versions are never removed
(`NoneFewer`).

`RerunsAreGreen` is the other half, and holds on whatever dates. It needs the feed under repairs
first (`RepairedReplaysChangeNothing`). From its first fingerprint on, a run leaves the dimension
as it is, and each fingerprint of it is what that dimension makes of the facts (`OwnPrints`); the
change file reflected last is then its own. So a run with the same change file stages no-ops only,
writes nothing, and rebuilds the same facts (`RerunsFind`, `Untouched`). The latest fingerprint
that is not its own is the one of the run it repeats, and equals its own.

**Landing and routing.** Every version of a bronze table is made of whole landings of uploaded files
(`WholeFiles`), so the latest row of a *decided* key is the same in each of them, and whichever
version a step reads, and whenever the plan is evaluated again, the key goes the same way
(`TablesRight`, `Progress`). `RowsRoutedOnce`, `RebuildsAreSafe` and `FailuresAreAllCounted` are this
fact at three places. `SilverIsClean` is inductive by itself, because each overwrite establishes it
from whatever bronze holds; the work is in the deduplication. `FilesLandOnce` needs that every version in
a table's history, to which the probe may return, has at most as many landing times as the modes
that have loaded it (`LandInv`), and that the version the probe noted is still there.
`LastFileIsPublished` follows the last landed row through a run (`FreshSoFar`): it outranks
the others of its key by the time it landed, unless the sequence column says otherwise.

**The probe.** While the probe is between its cells, bronze holds rows of files and of the probe, and a table may
be rid of the probe's rows only if it was rewritten after the restore
(`BronzeHolds`, `TablesHold`). The last pass of the probe does that to both tables, and no run can bring
the rows back, since none is left in a version that is current. The
decided keys of the data are untouched throughout, because the probe's orders are its own: this is how
routing and rebuilding hold beside it. It is also why what is counted is finite
(`TypesBesideTheProbe`): every version, restored or not, has rows of one file and of the probe,
landed at one of finitely many times.

`TheProbeIsContained` needs no account of where the probe was lost: a row of it in silver has passed every
reject rule (`SilverIsClean`), and each of the eight but the control row fails one.

`ProbePasses` compares counts taken at four moments. Whoever evaluates the table between the append
and the restore, a cell of the probe or a run that lands the files again meanwhile, finds one row per
key of the file, whichever duplicates won, and the eight rows (`Evaluated`). What is in silver,
in quarantine and in the results therefore depends only on where the probe stands (`PassInv`), and
the assertions are a count of eight rows against five rules. After the restore, bronze is
the noted version or a run has landed rows with a later time (`RestoredVersion`), the one case in
which the last cell may complain.

**Gold.** `JobReferencesResolve` follows every run, failed ones included, because a repair makes it go
on where it failed. What lies behind that place will not be done again: all tables landed and cleaned
(`ResumeInv`), and the gold tables before it (`RefInv`). Of the dimensions behind a run in
`gold_facts`, either they are those of the silver that is there, which no other active run can change, or `missed`
has silver in it. In the second case a key into a dimension still resolves or is NULL, because a fact
takes it from the dimension itself; only the date is computed. The keys into `dim_date` need that
its bounds, the least and greatest date of a finite set of orders, exist (`FiniteSums`, by way of a
smallest counterexample, since the prover has no induction over sets).
`LastFileIsPublished` uses `missed` for bronze in the same way: with `silver_clean` behind it, a run
has in silver what landed last, unless others have landed something since it failed (`FreshInv`).
`SeededOrdersAreFound`: a row of silver that `dim_customer` was seeded from has a version that begins no later than
its purchase (`SeedCovers`), and the dimension is never rebuilt, so a fact built from the same row
finds it. `GoldReconciles` needs that each join of a fact is a function of its row, because
silver has one row per key and a dimension one per surrogate key, and that sums over a finite
set do not depend on the order in which a fold takes them (`FiniteSums`); `RecInv` relates what gold holds to
the silver it was built from.

**The run log.** Inductive with: the row of a body is written after it and by the attempt that ran
it (`LogFollowsBody`), passed tasks have rows, and a task ahead has fewer rows than attempts.

**The generator.** A file is that of its day or not yet written (`FileInv`); the days' slices of the
customers file do not overlap, so mapping days to rows of a person is injective.

**Only model-checked.** `ProbeCleansUp`, which is liveness.

## 5. What is not modelled, and why

The views other than `v_scd2_integrity` and `v_reconciliation`, and the columns of facts and
dimensions that are computed row by row and that no key or check depends on (functions without
state); geolocation (`aggregate_geolocation` feeds nothing in gold); CSV parsing, beyond the
values that cannot be read; order events (no task reads the stream); `load_mode` (no notebook reads
it); the view loader (text splitting without state), the DDL and names of configuration and
bootstrap, the dashboard, the Genie space and the tests. `apply_constraints` declares keys that
nothing enforces; what they declare is `ReferencesResolve`.

## 6. Plan

Change feed and changing silver together: an order that lands late for a person with several
versions.
