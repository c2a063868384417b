# NSC-Data-Pipeline: TLA+ models and proofs

The program is a daily and ten-minute batch platform on Databricks. Four
pipelines turn bronze tables, fed from outside, into silver and gold tables and
report their progress in one shared table, `gold.pipeline_state`. There is no
server: the state is in Delta tables, every step is a script a job starts, and
what is hard is what happens when scripts overlap, stop between two commits, are
retried, or find tables that others have changed since they looked.

This directory models those scripts as state machines, checks them with TLC on
small instances, and proves most of the safety properties for every instance with TLAPS.
Paths below are relative to the repository.

## 1. Inventory

| Component | Code | State it keeps | Operations |
|---|---|---|---|
| Pipeline state row | `src/io/pipeline_state_io.py` | one row per pipeline: status, `last_success_ts`, `last_processed_end`, `last_run_id`, zero-window counters | replace by success, update by failure, load |
| Upstream readiness | `src/io/upstream_readiness.py` | none | compare Silver's row with the end a run of B or C needs |
| Pipeline A | `scripts/run_pipeline_a.py`, `src/jobs/pipeline_a_spark.py` | appends to `silver.dq_status`, `gold.exception_ledger`; its state row | every 10 minutes: load row, resolve window, assess each source, three commits |
| Pipeline Silver | `scripts/run_pipeline_silver.py`, `src/jobs/pipeline_silver_spark.py`, `src/transforms/silver_controls.py` | five silver tables (MERGE by key), `silver.bad_records` (append), its state row | daily: count, quarantine, gate, five merges, report |
| Pipeline B | `scripts/run_pipeline_b.py`, `src/jobs/pipeline_b_spark.py` | seven gold tables (MERGE by key), its state row | daily job of four tasks: recon and supply_ops in parallel, then finalize_success or finalize_failure |
| Pipeline C | `scripts/run_pipeline_c.py`, `src/jobs/pipeline_c_spark.py` | `gold.fact_payment_anonymized` (partitions replaced), its state row | daily: readiness, transform, overwrite, report |
| Runtime rules | `scripts/sync_dim_rule_scd2.py`, `src/io/rule_loader.py`, `src/common/rules.py` | `gold.dim_rule_scd2` | merge the seed; load and validate |
| Windows | `src/common/window_defaults.py`, `src/common/job_params.py` | none | default windows, explicit windows, processed end |
| Scheduling | `databricks.yml` | none of its own | concurrency limits, retries, timeouts, `depends_on`, `run_if` |
| Retention | `scripts/ops/cleanup_bad_records.py` | deletes from `silver.bad_records` | monthly |
| Bootstrap, contracts | `src/io/catalog_bootstrap.py`, `src/common/contracts.py`, `table_metadata.py` | creates the tables | once |
| Bronze loading of mock data, secrets, collect guard, e2e and phase scripts | `src/io/bronze_io.py`, `secret_loader.py`, `spark_safety.py`, `scripts/e2e`, `scripts/phase7` | none that matters here | not modelled |

Interaction. The pipelines never call each other. They meet in tables: A, Silver,
B and C each replace their own row of `gold.pipeline_state`; B and C read Silver's
row once, before they read its tables; B is meant to read A's `dq_status`; A
appends to, and B merges into, `gold.exception_ledger`. Silver reads bronze tables
that go on growing while it runs.

What is hard, and what makes each component correct:

* **Pipeline A** may run twice at once (`max_concurrent_runs: 2`), reads its row
  once and writes it back at the end, and makes three commits that are not atomic.
  Correct means: success is reported only over complete rows, no instant before the
  mark is unassessed, counters of empty windows survive failures, a failure keeps
  the progress reported.
* **Silver** makes eight commits; its frames are lazy and evaluated again by each
  count, append and merge. Correct means: the gate holds for everything merged, no
  row vanishes between bronze and silver or quarantine, failures keep the mark.
* **B** is four scripts that agree on nothing but the tables and each compute their
  own window. Correct means: success after both tasks and only then, one outcome per
  run, nothing written ahead of Silver, the state row describes what was processed,
  every run ends; and for what its work tasks compute, that a rerun converges to what
  the tables give, that a breach shown in a daily table is in the exception ledger,
  and that a run changes only its own dates.
* **C** evaluates a lazy frame three times and replaces partitions. Correct means: a
  partition is the work of one run, a rerun over unchanged tables makes it what they
  give, other days are untouched, nothing is published ahead of Silver.
* **The state row and readiness**: a high-water mark stands for a set of days.
* **Rules**: what the sync writes must load.
* **Two implementations.** The computations of A, Silver, B and C exist twice: as Spark
  jobs, which run, and as plain Python modules, which the unit tests are about. Correct
  means that both give the same rows.

The hazards are listed line by line, with the property that covers each one or the
reason why none does yet, in `PROJECT.json`.

## 2. Modules

| Module | What it models |
|---|---|
| `Nullable` | Python's `None` and SQL's `NULL`, `coalesce` |
| `PipelineState` | the rows of `gold.pipeline_state`: `ApplySuccess`, `ApplyFailure`, and `Ready` of the readiness check |
| `ProgressRow` | abstract: what a pipeline promises about its row, whatever it does inside |
| `DqAssessment` | `build_dq_status_spark` as operators: metrics, severities, overall tag |
| `DqGuardrailPy` | the plain Python statement of the same, `dq_guardrail.py` |
| `GuardrailA`, `MCGuardrailA` | Pipeline A as concurrent executions of its script |
| `GuardrailAProofs` | theorems about `GuardrailA` |
| `SilverRun`, `MCSilverRun` | Pipeline Silver, its retries and backfills, over a growing bronze |
| `SilverRunProofs` | theorems about `SilverRun` |
| `SilverTransform`, `SilverTransformPy` | wallet snapshots and ledger entries, from `pipeline_silver_spark.py` and from `silver_controls.py` |
| `ControlsB`, `MCControlsB` | the job of Pipeline B: tasks, retries, finalization |
| `ControlsBProofs` | theorems about `ControlsB` |
| `RuleTable` | rule definitions, selection, integrity checks and the sync of the seed |
| `LedgerControls`, `LedgerControlsPy` | the gold rows of Pipeline B, from `pipeline_b_spark.py` and from `ledger_controls.py` |
| `ControlsGold`, `MCControlsGold` | the work tasks of Pipeline B: rules loaded, rows computed and merged, over changing silver tables and rules |
| `ControlsGoldProofs` | theorems about `ControlsGold` |
| `ControlsTwinsProofs` | the two implementations of Silver's transformation and of Pipeline B's tables agree |
| `JobParams` | window parameters: defaults, acceptance, target dates, processed end |
| `PaymentFact`, `PaymentFactPy` | the fact rows of Pipeline C, from `pipeline_c_spark.py` and from `analytics.py` |
| `AnalyticsC`, `MCAnalyticsC` | Pipeline C as executions of its script over a Silver that goes on |
| `AnalyticsCProofs` | theorems about `AnalyticsC` |
| `AnalyticsTwinsProofs` | the two implementations of Pipeline C's fact rows agree |
| `InductionFacts` | lemmas for the proofs: induction over finite sets and numbers, extrema of finite sets, existence and uniqueness of folds, positions of a list |

Composition. `GuardrailA` takes `DqAssessment` and `PipelineState`; `AnalyticsC` takes
`PaymentFact`, `JobParams` and `PipelineState`; `ControlsGold` takes `SilverTransform`,
`LedgerControls`, `RuleTable` and `JobParams`. Pipeline B is in two modules because its
two questions are independent: `ControlsB` has the tasks of a run, their windows and the
state row, with the days a task has written for its data; `ControlsGold` has the data of
the work tasks, which may start at any time, so that whatever `ControlsB` lets through
is among its behaviours.

`SilverRun`, `ControlsB` and `AnalyticsC` each implement `ProgressRow` (`Progress == INSTANCE
ProgressRow WITH row <- pipeline_state, ...`, property `ProgressSpec`). Pipeline A
does with one run at a time (a theorem of `GuardrailAProofs`), and does not when two runs
overlap: that is a finding.

Conventions. An *attempt* is one execution of a script: a scheduled run, a retry or
an operator's backfill. Every Delta commit, and every read whose result is used
later, is an action of its own; what happens in memory between two of them is part
of the action. `Raise` stands for an exception at any point of a `try`, `Kill` and
`Timeout` for a process that stops without its `except` clause. A definition marked
*Broken variant* is a plausible bug: it is not part of the specification, and serves
to show that the property named for it in `PROJECT.json` can fail.

### GuardrailA

Time is in ticks (one tick is the default window of ten minutes), `clock` is
`now_utc()`. `Start` is `_load_current_state` (the row kept in `initial_state`);
`ResolveDefault` and `ResolveManual` are the window parameters; `Assess` is one turn
of the two nested loops, which reads the bronze table at that moment;
`AppendDqStatus`, `AppendExceptions` and `CommitSuccess` are the three commits;
`CommitFailure` is the `except` clause. A bronze row has `created_at`, `ingested_at`,
a duplicate key and a flag `valid` for its contract. The sources are treated alike,
as rows with `created_at`. Nothing keeps an operator's window or end below the clock
(`job_params.py` compares neither with it), so a request may report a mark that is still
to come: `window_defaults.py:84` then starts the next default window behind that mark.
`origin`, `checked`, `seen`, `ahead` and `streak` are history variables; `ahead` has the
instants that a run reported before they came, which `EveryRowChecked` excepts.

### SilverRun

Time is in KST days, a window is the set of days `lo..hi`. `Count` (four times),
`Quarantine`, `PassGate`, `Merge` (five times), `CommitSuccess`, `Raise`,
`LoadForFailure` and `CommitFailure` follow `main()`; each of the first four evaluates
`Visible(a)`, the bronze rows its filters let through at that moment. `Merged` is
`merge_delta_table`, which refuses two source rows for one target row (`Ambiguous`)
but inserts both when there is no target row. A row keeps what the properties tell
apart: its source, key, the order it relates to, its status, and whether its own
fields are good. The silver tables exist from the start, as `bootstrap_catalog`
leaves them. A backfill may include today and days to come, on which rows go on
arriving: the history variables `present` and `owed` hold the rows of its window that an
attempt finds at its start, and those of the attempts that succeeded, which is what
`RowsAccounted` is about.

### ControlsB

`StartRun` starts a run by schedule or for days an operator asks for; `Begin(t)`
starts or retries a task, which resolves its own window; `PassReadiness`, `Write` (one
MERGE per table) and `Succeed` are the script of a work task; `ReleaseFinalize` is
`depends_on` with `run_if`; `FinalizeSuccess` and `FinalizeFailure` write the row;
`Raise` retries until `MaxRetries` is used up; `Timeout` cancels the run. Silver is the
environment: it reports any processed end up to the bound, higher or lower than the
last, and ahead of the clock, because its backfills may be; so may the days an operator
asks B for.
The run identifier is the digest of the window, as `_resolve_run_id` computes it when
the job passes none: two runs for one day share it, so the properties name runs by a
history variable.

### AnalyticsC

Time is in half days, timestamps and dates are related by `JobParams`. `Start` resolves a
payload (none, a backfill, a window shorter than a day, dates mixed with `end_ts` or with a
whole window, or one `from_mapping` refuses); `CheckReady` is `assert_pipeline_ready`; `Count`,
`CollectDates` and `Overwrite` are the three evaluations of the frame by `count()`, by
`_build_replace_where` and by `saveAsTable`; the reports and failures are those of the script.
Between any two of them Silver may merge an event or an item, move an order to another day, or
report the end of any day, to come or not. `MaxPartitions` is the limit of 366 on the
collection. `PaymentFact` ranks the categories of an order by amount, then product, as the
window function does; `settled` is the history variable behind `PartitionConverges`: the days a
run has covered over unchanging tables, with nothing touched since.

### ControlsGold

A *feed* is a sequence of batches of bronze rows; `SilverMerges` transforms a batch with
`SilverTransform` and merges it by key, `SyncRules` brings the deployed seed, or the next
version of it, into the rule table. `LoadRules` and `FallBackToSeed` are the two ways out of
`load_runtime_rules`; `Write` computes the next table of the task (`Frame`, over the tables as
they are then) and merges it (`Merged`). Of snapshots of a user at one instant `row_number()`
may put any first, another one in each window and each time a frame is evaluated: `Untied` has
every way to break the ties, `Readings` what a table may be computed from, and the tables that
show balances are `Determined` only where there are no ties. `WriteRefused` is the MERGE that
Delta or the NULL check refuses, `Fail` is everything else that stops a task. `settled` records
the task, date, run id and rules of each success over unchanging inputs, and forgets it when
inputs change or another run rewrites the date.

### The plain Python statements

`DqGuardrailPy`, `SilverTransformPy`, `LedgerControlsPy` and `PaymentFactPy` state in
loops over lists (folds over sequences) what their counterparts state as joins and
aggregates over sets. The `...TwinsAgree` invariants compare them over every reachable
content of the tables. Where the two differ, the invariant says for which rows:

* an item of quantity 0 counts as 1 in `analytics.py` (`quantity or 1`) and as 0 in the
  Spark job (`TwinsAgree`);
* identifiers and entry types made of spaces are missing to the Spark job only
  (`SilverTwinsAgree`);
* of two snapshots of a user at one instant each implementation may take either, and of two
  tags of a day without a rank (or one of spaces) they may take different ones
  (`BalanceTwinsAgree`);
* the Spark job counts a related id once for each raw row of its order, and gives a
  transaction in two pairs two rows; a related id of spaces makes a pair in Python only
  (`OpsTwinsAgree`).

## 3. Runs

| Run | Instance | What it shows |
|---|---|---|
| `guardrail_serial` | 3 attempts, one at a time, 3 ticks, 1 row, an operator's request of two windows that goes on past the end it reports, which at the first tick is still to come, new workspace | `SuccessIsRecorded`, `NoUncheckedGap`, `EveryRowChecked`, `ZeroCountsContinuous`, `FailureKeepsProgress`, `DqTwinsAgree` |
| `guardrail_overlap` | 3 attempts, two at once, 3 ticks, 1 row, a mark already there | the first three hold under overlap as well |
| `guardrail_overlap_failure` | as above | violation of `FailureKeepsProgress` |
| `guardrail_late_rows` | as above, rows up to one tick late | violation of `EveryRowChecked` |
| `silver` | 2 attempts, 2 days, a backfill of yesterday and today, three ledger rows up to a day late | `FailClosed`, `RowsAccounted`, `ProgressSpec` |
| `silver_late_status` | a ledger row and a disallowed status of its order | violation of `RowsAccounted` |
| `silver_skipped_day` | no rows, two scheduled attempts, three days | violation of `ReadyMeansProcessed` |
| `controls_b` | 2 runs, 2 days, one retry, a backfill up to today, two tables of recon and one of supply_ops | `SuccessAfterBoth`, `OneOutcomePerRun`, `GoldBehindSilver`, `ProgressSpec`, `EveryRunEnds` |
| `controls_b_midnight` | 1 scheduled run across midnight | violation of `SuccessCoversWindow` |
| `controls_gold` | 2 attempts, requests for both days and for the second alone, four feeds of one or two batches, three versions of the seed | `OneRowPerKey`, `GoldConverges`, `DriftsRecorded`, `MismatchesRecorded`, `RulesLoadable`, `GoldTouchesOnlyWindow`, and the two implementations of Silver's and B's computations agree |
| `controls_gold_rerun` | a transaction with entries in two wallets | violation of `RerunAccepted` |
| `analytics_c` | 2 attempts, 3 days, four events, three items, six kinds of payload | `PartitionOfOneRun`, `PartitionConverges`, `FactBehindSilver`, `OtherDaysUntouched`, `ProgressSpec`, `TwinsAgree` |

Each passing run also checks the type invariant of its module, once per module.

Why the bounds are enough. In A, a hazard needs at most three executions (one that reports, one
that fails or overtakes, one that starts after both), two adjacent windows and a row at a
boundary: three attempts, three ticks and one row. In Silver, two attempts show everything one
run can leave to the next; two ledger rows under one key meet both halves of MERGE, the third
is bad on its own, and the threshold of one half lets one bad row pass or stop a run depending
on the rest. In `ControlsB`, one retry per task tells "retried" from "out of retries"; two runs
show what a failure keeps of an earlier success; the tables of a task are treated alike: recon
has its two, one stands for the six that supply_ops writes. In `ControlsGold`, two attempts are
either the two tasks side by side, or a task and its rerun after a stop at any table; one feed
corrects a payment, brings a late charge and a repeated order, one has a transaction in two
wallets and two pairs, one a row for every reason Silver calls bad, so that every branch of the
computations is taken, and one has two snapshots at one instant. The seeds close a rule, drop
one that is still current, and put two current ones side by side. In `AnalyticsC`, two attempts
show what one leaves to the next; an order that moves between two days tells the evaluations of
the frame apart; two partitions are the limit, and a default run has one. `DqTwinsAgree`
compares windows of at most three rows, which meet ties, duplicates and missing keys in any
order. The inputs of the twin comparisons do not depend on the attempts, so these invariants
compare only in states in which no attempt has started: `TwinsAgree` over every listing of the
events, items and products, `SilverTwinsAgree` over every listing of the orders in which none
comes before an older one, the two comparisons of Pipeline B over one listing and its reverse;
their proofs (section 5) rest on lemmas about every listing. Deadlock is checked in every run:
a `Finished` step, taken only when every attempt or run is over and the clock is at its bound,
stands for the end of the instance; in `ControlsGold` the sync can always be repeated.
`AttemptSymmetry` permutes attempts, which differ only in their run_id; no run with symmetry
checks liveness. The bounds are the constants `Horizon`, `MaxRows`, the sets of attempts and
runs, and the feeds and seeds.

Fairness. Only `ControlsB` states any: weak fairness of `JobStep` (the scheduler
releases finalize tasks and ends runs it has started; a started finalize writes its
row) and of `TaskStep(t)` for each task (a pending task is started and a started one
does something, if only raise). Databricks Workflows does both for a run it has
started. Nothing makes a run start, midnight come or Silver succeed, so
`EveryRunEnds` says that no task waits for Silver: it is refused, retried
`MaxRetries` times and fails.

## 4. Findings

Six runs show the code doing other than its documents say; `PROJECT.json` quotes
them.

1. *A failing run of A undoes an overlapping success* (`run_pipeline_a.py:272`): the
   record written back is the one read at the start.
2. *A row that comes late to bronze is never assessed by A*: windows select by
   `created_at` and never look back.
3. *A row can vanish between quarantine and silver*: the two are written from two
   evaluations of lazy frames.
4. *Readiness is granted for a day nobody processed*: one mark stands for all the days
   before it, and a day without a successful run is not caught up, be it that its run
   failed or that it only ran after the next midnight.
5. *finalize_success can report a day no task processed*: it computes its own window,
   after midnight another than that of the work tasks.
6. *A rerun of supply_ops can be refused for ever*: `silver.ledger_entries` has a row per
   transaction and wallet, `gold.admin_tx_search` a key of date and transaction. The first
   MERGE inserts two rows under one key, every later one is refused. The documents take
   transactions to be unique and say that DQ blocks duplicates; nothing in the code does.

Seen while modelling, without a run of its own: `project_specs.md:134-136` and
`architecture_guide.md:180` say that B suppresses its judgement on days tagged
`SOURCE_STALE` or `EVENT_DROP_SUSPECTED`, while `decision_open_items.md:39` (D-004) keeps
the severity; the code follows the latter and only attaches the tag
(`ledger_controls._gating_active` is used by nothing).

## 5. Proofs

Eight modules of theorems: one for each state machine, two for comparisons with the plain
Python statements, one of lemmas. Together they prove, for every value of the constants, every
type invariant, safety invariant and action property that a passing run checks, the comparisons
with the plain Python statements among them (`DqTwinsAgree` in the general form that
`AssessmentTwins` states), the refinements of `ProgressRow` (Pipeline A's
with one run at a time), and when the readiness check means what B and C take it for. The
assumptions are those of the modules (`SilverRunAssumption` and its like: the constants have
their kinds, windows are not empty, a batch of a feed is finite, a limit of a rule is a
fraction, the columns a contract requires of items and products are there) and
`NoneAssumption`; a theorem that needs more says so in its ASSUME or as a restriction on the
steps, and there is a behaviour that violates its conclusion without it.

Every proof has the same shape: typing first, with what a script may hold at each place of
its code; then an invariant that says what is *on its way* from the script to the tables;
then one step for each action. The property as it stands is hardly ever inductive, because
it speaks of tables while a step moves what is in a script's variables into them.

### SilverRunProofs

* `Typing`. The lemmas on counts (`CountTyped`, from the cardinality of finite sets), on
  `Merged` (`MergedTyped`) and on the state row (`AppliedTyped`) carry the data.
* `GateFailsClosed`: `FailClosed`. Nothing in it prevents an attempt that has stamped rows
  from counting again. `GateInv` adds that an attempt in its merges has counts within the
  threshold, and that one that has not passed the gate has stamped no row; `MergedStamps`
  says a MERGE stamps only with its own run.
* `SilverRefinesProgressRow`: `ProgressSpec`. The record a failing attempt loads must still
  be the row when it commits. `ReportInv` says that at most one attempt is active and that
  a loaded record is the current row; `RowStep` maps every step to a step of `ProgressRow`
  or a stutter. The premise is the job's `max_concurrent_runs: 1`, which is in the guard of
  `Begin`: this is exactly what Pipeline A lacks.
* `RowsStayAccounted`: `RowsAccounted`, if `OrdersAllowed`: no order comes in with a status
  that is not allowed, which is what the run `silver_late_status` is about. Between the
  quarantine and the merge of a table its frame is evaluated again, over more rows. A ledger
  row takes its status from the newest order row related to it (`NewestExists` finds one);
  when every status is allowed, a row that was good stays good as rows are added
  (`GoodStays`), so what was not quarantined is merged. `AccountInv` follows the rows of a
  window that were there at its start (`present`) through the two commits of each table; a
  row that comes meanwhile is not promised anything, also when its day is in the window.

* `ReadinessIsEarned`: `ReadyMeansProcessed`, if `[][SkipsNoDay]_vars`: a run that succeeds
  starts at or before the first day ever processed, or right after a day that was. That is
  what nothing in the code sees to, as the run `silver_skipped_day` shows. `GapFreeInv` says
  more than that there is no gap below the mark: there is none below *any* day processed,
  because a backfill may put the mark back to an earlier one.

### ControlsBProofs

* `Typing`, with `ShapeInv`: a task that has begun has a window whose days are over.
* `OneOutcome`: `OneOutcomePerRun`. `OutcomeInv`: before the finalize tasks are released
  nothing is reported; after it one of them is skipped, and a report of the current run is
  the success of the one that was released.
* `SuccessIsWhole`: `SuccessAfterBoth`. `WrittenInv`: the tables a task is through with hold
  the days of its window, through retries, until `finished` records them.
* `BehindSilver`: `GoldBehindSilver`. Silver's mark may go down; `BehindInv` keeps, for a task
  in its writes, that some mark was above its window when it passed the check.
* `ControlsRefineProgressRow`: `ProgressSpec`.

### AnalyticsCProofs

* Lemmas on days and windows (`DayMonotone`, `WindowFacts`, `WindowBehindEnd`): what the
  payloads that `from_mapping` accepts give for dates, and that the processed end is never
  before the end of the last date. `Typing`, with `RunInv`: one attempt is active, and what
  got beyond its start has parameters that were accepted.
* `OneRunPerPartition` (`PartitionOfOneRun`), `NoOtherDay` (`OtherDaysUntouched`), from what
  `Overwrite` replaces (`FactStep`).
* `PublishedBehindSilver`: `FactBehindSilver`, with its exception of `Mixed` payloads, along
  the lines of `BehindSilver`. The property is
  about the highest mark Silver ever reported, because a mark may be lowered later.
* `RerunsConverge`: `PartitionConverges`, for the days the tables give a row for. `SettledInv`
  follows the three evaluations of the frame: for a steady attempt, the dates collected are
  those of the frame that is written, and what it has written is what the tables give.
  `FrameOfDay`: windows that hold a day whole compute the same rows for it.
* `AnalyticsRefinesProgressRow`: `ProgressSpec`.

### GuardrailAProofs

Two theorems hold for any number of overlapping runs: `Typing`, and `SuccessIsWhole`
(`SuccessIsRecorded`), whose `RecordedInv` follows every pair of window and source from the
worklist through the rows of the run into the two tables. The others have premises:

| Theorem | Property | Premises | Without them |
|---|---|---|---|
| `FailureIsHarmless` | `FailureKeepsProgress` | one run at a time | the run `guardrail_overlap_failure` |
| `GuardrailRefinesProgressRow` | `Progress!Spec`, from `ProgressRow` | one run at a time; no row before the first run | the same run; `ProgressRow` starts without a row |
| `CountersContinue` | `ZeroCountsContinuous` | one run at a time | a failing run writes back the counters it read before another's success |
| `NoGap` | `NoUncheckedGap` | `[][RequestsGoOn]_vars`: an operator's windows leave no instant out between the mark the run finds and the end it reports; one run at a time, or a mark before the first run | a request for the second tick with end 2, over mark 0, leaves out a tick; of two runs that overlap on a new workspace the later one starts where the earlier one never was |
| `EveryRow` | `EveryRowChecked` | those of `NoGap`; rows arrive as they are created (`MaxLag = 0`); the property itself excepts rows created at instants that were reported ahead | the run `guardrail_late_rows` |

"One run at a time" is `MaxConcurrent <= 1`, where the job says 2: the theorems say what
the limit costs. `NoGap` and `EveryRow` do hold under overlap as soon as the pipeline has
a mark, which is why the run `guardrail_overlap` passes. `RequestsGoOn` restricts the
steps in which a request is resolved, not the set of requests: a backfill that ends below
the mark meets it whatever its windows are, and nothing in the code stops one that does not.

`GapInv` is the strengthening behind `NoGap`. The mark can go back, because a run writes the
end it resolved from the row it read: so the invariant says of *every* row a run in flight
has read, and of the one in the table, that the windows recorded reach from the first
success to its mark, and of every run that its windows go on from the mark it found
(`GoesOn`). `EveryRow` needs the same of rows. Windows alone do not give it: a
backfill asked for by `start_ts` and `end_ts` takes whole days as its windows and reports
`end_ts`, so a window may go on past that end and past now, and rows come into it after
it was assessed. So `CaughtInv` speaks of the rows of a window *below the end of its run*,
other than those created at instants the run reported ahead of the clock; whatever is to
come below that end is such an instant (`Foreseen`). `SeenInv` carries both, like `GapInv`,
along every mark that may still be reported. `StreakInv` says that the
counters of a run are those of the row it read, taken on over the rows it has built
(`Tally`, a fold over the rows), and that the row it read is still in the table
(`AloneInv`).

### ControlsGoldProofs

* `Typing`, with `LocalsInv`; rules that are judged by have passed the checks.
* `RulesStayLoadable`: `RulesLoadable`, with `RuleInv`: a table that was synced holds each
  rule once.
* `MergeKeepsKeys`: `OneRowPerKey`. MERGE sees to nothing here; it holds because what is
  computed has each key once (`FrameRows`). `admin_tx_search` is where it has not.
* `RunsKeepToTheirDates`: `GoldTouchesOnlyWindow`.
* `RerunsConverge`: `GoldConverges`. `ReadingDecides` says that a `Determined` table is the same
  from every reading of the silver tables. A merge removes nothing, so a daily table shows what the
  tables give only if every row it holds for a date is computed again: `KeysStand` says
  that users and merchants of a date never disappear from the tables of Silver, whatever
  Silver merges (`UsersStay`). And the sibling task must not undo it: the two tasks share
  one table, `exception_ledger`, in which their types of exceptions differ
  (`ExceptionTypes`). `SteadyInv` follows a steady attempt through its tables.
* `DriftsAreRecorded` and `MismatchesAreRecorded`: `DriftsRecorded`, `MismatchesRecorded`,
  where no snapshots are tied (`SnapshotsApart`). Both from `GoldConverges`. The second
  compares `is_ok` (not above the limit) with a severity (above it): that these are opposites
  needs the difference to be a number, hence `DataInv` (the tables of Silver are finite, their
  amounts numbers), `JudgingInv` (so are the limits of rules from the table, from the seed and
  of what is settled) and `TotalTyped` (a sum over a finite set of integers is an integer).

### The comparisons: ControlsTwinsProofs, AnalyticsTwinsProofs, GuardrailAProofs

What a loop of the plain Python statement computes is a fold over a list, of any length and in
any order; nothing can be proved about it by induction on the list as such. Every proof here
goes the same way: write down, without recursion, what the loop holds after the records at a
*set of positions* (`DictOf`, `CountedAt`, ...); show that one more position takes it one step
on (`DictGrows`, `CountGrows`, `BestGrows`, `FlowsGrow`); conclude by `SameFold` that it is
what the fold computes; and compare this closed form with the joins and aggregates of the Spark
job over the set of the rows, to which the list belongs (`ListHasAll`).

* `SilverTwins`: `SilverTwinsAgree`. The dict of statuses keeps the last row of an order,
  Spark ranks rows by their times and their status; `NewestIsLast` relates the two when the
  rows come in order, and `SameStatus` says that a tie cannot tell them apart. `LedgerChain`
  and `WalletChain` turn the chain of checks into the sequence of early returns, so that
  both give the *first* reason a row is bad. `OrdersInv` has the orders finite, with statuses
  that have a place among the strings.
* `FactTwins`: `TwinsAgree`. Python keeps the best line of an order so far, Spark ranks all
  lines. `BeatsOrders` shows the ranking to be total once MERGE keeps an item from being there
  twice (`TablesInv`), `SelectedIsBest` that the loop ends with the leader, and
  `RankedLikePython` that leaders of the two are of one category.
* `AssessmentTwins`: `SameVerdict`, for a list of *any* length and any rules, previous count
  and instant, where the invariant `DqTwinsAgree` of the run, its corollary `DqTwins`, has at
  most three records. The counting of duplicates is the loop that needs most: what it has
  counted after some positions is the number of records with a key less the number of different
  keys (`CountGrows`). `LeaderKept` does the same for the loop of the Spark job over the
  metrics, and `Priorities` shows that no two metrics tie.
* `BalanceTwins`: `BalanceTwinsAgree`, and `OpsTwins`: `OpsTwinsAgree`. Here each record of the
  tables is in the list once (`IsListing`), so that what a loop holds is a function of a *set
  of records*: the sums of the ledger (`FlowsAre`, `IssuesAre`), the last balances (`EndsAre`),
  the counts of each merchant and the groups of related ids (`TalliesAre`, `GroupsAre`), the
  first and last snapshot of each user (`BoundsAre`). `TotalGrows` is what they rest on: one
  element more adds its amount, whatever order a sum was taken up in. The last step of each is
  a comparison of sets, `CountOfPositions` and `CountOfIds` where one side counts positions and
  the other records or ids. `RowsInv` says what they need of Silver's tables, and `RowsNext`
  that Silver lets nothing else through: finite, dates and amounts numbers, users, wallets and
  transactions named.

These proofs corrected the model and its properties: an entry type made of spaces had been left
out of the exception `SilverTwinsAgree` makes for such identifiers, and three chains of
conditions had been written as CASE with guards that overlap, of which TLC takes the first, as
the code does, while TLA+ leaves the choice open; they are IF chains now. The proofs of
Pipeline B's comparisons failed on related ids of spaces, and on snapshots and tags that tie;
the two properties name them now.

### InductionFacts

The induction theorems of the library take an operator for what is proved, which the
provers cannot instantiate. The facts here take a *set* instead: a set of subsets of a
finite set has a smallest member, a set of numbers a least one. From these follow extrema of
finite sets (`FirstExists`, `GreatestExists`), and that the recursive function behind a fold
of the community modules exists, has its type and is the only one (`FoldExists`,
`FoldUnique`). `TallyGrows` and `TotalTyped` rest on them. `SameFold` is the form the
comparisons use, `LastPosition` says that a fold over a list takes its positions from the last
one down, and `ListHasAll` that a listing of a set has every member.

### Only model-checked

* `EveryRunEnds`: liveness under fairness, and the ENABLED in it, are out of the prover's
  reach.
* The violations: what the six runs of section 4 show is shown by a behaviour.
* That the premises in the table of `GuardrailAProofs` are needed: the last column names
  behaviours TLC finds on instances of two or three attempts.

## 6. Not modelled, and abstractions

* Column casts, JSON texts, messages and layout: not modelled. The message of an
  exception, which is part of a key, is the tuple of the values in it.
* A's three sources are alike, and their rows have a `created_at`, which their contracts
  require, so that the window filter on `ingested_at` for tables without one does not come
  up; its `dq_status` row keeps its window, count, tag and
  severity. Rates are compared as fractions, not in floating point, and amounts are
  integers, not decimals.
* In `SilverRun` a row is its key, status and whether it is good; `SilverTransform` has the
  columns of wallets and ledger entries. The columns of order events, order items and
  products are not modelled.
* In `ControlsB` an empty result counts as written; the rows are in `ControlsGold`.
* `ControlsGold` keeps its tables as sets: rows equal in every column are one. Of several
  tags of a day that are neither stale nor drop, the Spark job takes the smallest and the
  Python statement any; the model takes one, no feed has a day with two of them, and
  `BalanceTwinsAgree` leaves such days out.
* Conflicts of concurrent Delta commits appear as raises (in `ControlsGold`, `Fail`).
* A rule table that does not load is a raise before the `try` in A and part of `Kill` in
  Silver; in `ControlsGold` it is modelled.
* `--task all` of Pipeline B, which only the e2e job uses (it starts the script without
  `--task`), and `skip_upstream_readiness_check`, which no job uses. The
  guard that demands strict rules in production (`rule_mode_guard.py`) raises before
  anything is read.
* The e2e job, which runs all pipelines for test targets outside their concurrency
  limits; the retention delete of `silver.bad_records`; bootstrap beyond the existence of
  the tables (the first writes that would create a gold table by append do not come up);
  loading of mock data; secrets; operations and e2e scripts.

## 7. What is left

`Chain`: Silver's mark with B and C over several days with backfills, and the retention
delete against the appends.
