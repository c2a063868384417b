------------------------------ MODULE ControlsB ------------------------------
(***************************************************************************)
(* Pipeline B as the job pipeline_b_controls of databricks.yml runs it:    *)
(* the tasks recon and supply_ops in parallel, then finalize_success when  *)
(* both succeeded or finalize_failure when one failed.  Each task is an    *)
(* execution of scripts/run_pipeline_b.py, retried by the job when it      *)
(* raises.  The job runs one at a time.                                    *)
(*                                                                         *)
(* A task resolves its own window when it starts.  Time is counted in KST  *)
(* days; a window is the set of days lo..hi, its processed end the start   *)
(* of day hi + 1.  Pipeline Silver is the environment: it moves its row of *)
(* gold.pipeline_state as ProgressRow says.                                *)
(***************************************************************************)
EXTENDS Integers, PipelineState

CONSTANTS
  Runs,        \* the runs of the job, 1..n, in the order they start
  Backfills,   \* day ranges <<lo, hi>> an operator may ask for
  MaxRetries,  \* max_retries of the tasks
  TableCount,  \* work task -> how many gold tables it writes, one MERGE each:
               \* recon 2 and supply_ops 6 in main(), exception_ledger the last
  FirstDay,    \* the day the system starts on
  Horizon      \* bound: the last day, and the last end of a window

Work     == {"recon", "supply_ops"}
Finalize == {"finalize_success", "finalize_failure"}
Tasks    == Work \cup Finalize

\* The days of windows, to come ones included, and the ends of windows.
Days == FirstDay - 1 .. Horizon - 1
Ends == FirstDay..Horizon

ASSUME ControlsBAssumption ==
  /\ FirstDay \in Int /\ Horizon \in Int /\ FirstDay <= Horizon
  /\ MaxRetries \in Nat
  /\ TableCount \in [Work -> Nat \ {0}]
  /\ Runs \subseteq Nat \ {0}
  /\ Backfills \subseteq Days \X Days
  /\ \A b \in Backfills : b[1] <= b[2]

VARIABLES
  today,           \* the KST date of now_utc()
  silver_state,    \* the pipeline_silver row, or None
  pipeline_state,  \* the pipeline_b row, or None
  gold,            \* task -> table -> the days computed and, unless empty, merged
  run,             \* the current run of the job, or None
  started,         \* the runs started so far
  asked,           \* the window the run was started with, or None
  task,            \* task -> its state in the current run
  tries,           \* task -> retries used
  window,          \* task -> the window of its current execution, or None
  written          \* task -> tables its current execution has written, 0 without one

\* History variables: read by the properties, never by the actions.
VARIABLES
  silver_high,     \* the highest processed end Silver has ever reported, or None
  finished,        \* [run, task, window] of the work tasks that succeeded
  reported         \* [run, status] of the rows written to gold.pipeline_state

job     == << run, started, asked, task, tries, window, written >>
history == << silver_high, finished, reported >>
vars    == << today, silver_state, pipeline_state, gold, job, history >>

-----------------------------------------------------------------------------
Yesterday == << today - 1, today - 1 >>

Idle == [t \in Tasks |-> "skipped"]

Init ==
  /\ today = FirstDay
  /\ silver_state = None
  /\ pipeline_state = None
  /\ gold = [t \in Work |-> [i \in 1..TableCount[t] |-> {}]]
  /\ run = None
  /\ started = {}
  /\ asked = None
  /\ task = Idle
  /\ tries = [t \in Tasks |-> 0]
  /\ window = [t \in Tasks |-> None]
  /\ written = [t \in Tasks |-> 0]
  /\ silver_high = None
  /\ finished = {}
  /\ reported = {}

-----------------------------------------------------------------------------
(* The environment: midnight passes and Silver reports its runs.  Only the
   successes: a failure changes nothing assert_pipeline_ready reads, nor does
   anything here read the times of Silver's row, which stay FirstDay. *)

Midnight ==
  /\ today < Horizon
  /\ today' = today + 1
  /\ UNCHANGED << silver_state, pipeline_state, gold, job, history >>

SilverSucceeds ==
  \E end \in Ends :
    /\ silver_state' = ApplySuccess(None, end, None, FirstDay)
    /\ silver_high' = IF silver_high = None \/ silver_high < end THEN end ELSE silver_high
    /\ UNCHANGED << today, pipeline_state, gold, job, finished, reported >>

-----------------------------------------------------------------------------
(* The job *)

\* By schedule, without parameters, or by an operator for days that may be to
\* come: a task then waits for Silver to have processed them as well.
StartRun ==
  /\ run = None
  /\ \E r \in Runs \ started :
       /\ \A s \in Runs \ started : r <= s
       /\ run' = r
       /\ started' = started \cup {r}
  /\ asked' \in {None} \cup Backfills
  /\ task' = [t \in Tasks |-> IF t \in Work THEN "pending" ELSE "blocked"]
  /\ UNCHANGED << today, silver_state, pipeline_state, gold, tries, window, written,
                  history >>

Ended(t) == task[t] \in {"succeeded", "failed", "skipped"}

\* Broken variant: finalize_success does not wait for both to succeed.
ReleaseOnOneSuccess ==
  /\ run # None
  /\ \A t \in Finalize : task[t] = "blocked"
  /\ \A t \in Work : Ended(t)
  /\ task' = [task EXCEPT
       !["finalize_success"] =
         IF \E t \in Work : task[t] = "succeeded" THEN "pending" ELSE "skipped",
       !["finalize_failure"] =
         IF \E t \in Work : task[t] = "failed" THEN "pending" ELSE "skipped"]
  /\ UNCHANGED << today, silver_state, pipeline_state, gold, run, started, asked,
                  tries, window, written, history >>

\* depends_on and run_if: ALL_SUCCESS is the default, finalize_failure has
\* AT_LEAST_ONE_FAILED.
ReleaseFinalize ==
  /\ run # None
  /\ \A t \in Finalize : task[t] = "blocked"
  /\ \A t \in Work : Ended(t)
  /\ task' = [task EXCEPT
       !["finalize_success"] =
         IF \A t \in Work : task[t] = "succeeded" THEN "pending" ELSE "skipped",
       !["finalize_failure"] =
         IF \E t \in Work : task[t] = "failed" THEN "pending" ELSE "skipped"]
  /\ UNCHANGED << today, silver_state, pipeline_state, gold, run, started, asked,
                  tries, window, written, history >>

\* Nothing of a run outlives it but what it wrote.
Clear ==
  /\ run' = None
  /\ asked' = None
  /\ task' = Idle
  /\ tries' = [t \in Tasks |-> 0]
  /\ window' = [t \in Tasks |-> None]
  /\ written' = [t \in Tasks |-> 0]
  /\ UNCHANGED << today, silver_state, pipeline_state, gold, started, history >>

EndRun ==
  /\ run # None
  /\ \A t \in Tasks : Ended(t)
  /\ Clear

\* The hour of timeout_seconds is up: the run is cancelled with its tasks, and
\* what was not finalized is not finalized any more.
Timeout ==
  /\ run # None
  /\ Clear

-----------------------------------------------------------------------------
(* A task: one execution of the script *)

\* inject_default_daily_backfill, each time a task starts or is retried.
Begin(t) ==
  /\ run # None
  /\ task[t] = "pending"
  /\ task' = [task EXCEPT ![t] = "running"]
  /\ window' = [window EXCEPT ![t] = IF asked = None THEN Yesterday ELSE asked]
  /\ written' = [written EXCEPT ![t] = 0]
  /\ UNCHANGED << today, silver_state, pipeline_state, gold, run, started, asked,
                  tries, history >>

\* Broken variant: the start of the window is enough.
RequiredStart(t) == window[t][1]

\* params.processed_end_utc()
ProcessedEndOf(t) == window[t][2] + 1

\* _resolve_run_id: the job passes no run_id, so it is a digest of the window.
RunIdOf(t) == window[t]

\* assert_pipeline_ready: once, before anything is read.
PassReadiness(t) ==
  /\ t \in Work
  /\ task[t] = "running"
  /\ Ready(silver_state, ProcessedEndOf(t))
  /\ task' = [task EXCEPT ![t] = "writing"]
  /\ UNCHANGED << today, silver_state, pipeline_state, gold, run, started, asked,
                  tries, window, written, history >>

\* _write_gold_df for the next table: a MERGE of the days of the window.
Write(t) ==
  /\ task[t] = "writing"
  /\ written[t] < TableCount[t]
  /\ gold' = [gold EXCEPT ![t][written[t] + 1] =
       @ \cup window[t][1]..window[t][2]]
  /\ written' = [written EXCEPT ![t] = @ + 1]
  /\ UNCHANGED << today, silver_state, pipeline_state, run, started, asked, task,
                  tries, window, history >>

\* The script of a work task ends without touching pipeline_state.
Succeed(t) ==
  /\ task[t] = "writing"
  /\ written[t] = TableCount[t]
  /\ task' = [task EXCEPT ![t] = "succeeded"]
  /\ written' = [written EXCEPT ![t] = 0]
  /\ finished' = finished \cup {[run |-> run, task |-> t, window |-> window[t]]}
  /\ UNCHANGED << today, silver_state, pipeline_state, gold, run, started, asked,
                  tries, window, silver_high, reported >>

\* finalize_success writes the state without looking at anything.
FinalizeSuccess ==
  /\ task["finalize_success"] = "running"
  /\ task' = [task EXCEPT !["finalize_success"] = "succeeded"]
  /\ pipeline_state' = ApplySuccess(RunIdOf("finalize_success"),
                                     ProcessedEndOf("finalize_success"), None, today)
  /\ reported' = reported \cup {[run |-> run, status |-> "success"]}
  /\ UNCHANGED << today, silver_state, gold, run, started, asked, tries, window,
                  written, silver_high, finished >>

\* Broken variant: the failure is reported on a blank record.
FinalizeFailureBlank ==
  /\ task["finalize_failure"] = "running"
  /\ task' = [task EXCEPT !["finalize_failure"] = "succeeded"]
  /\ pipeline_state' = ApplyFailure(None, RunIdOf("finalize_failure"), today)
  /\ reported' = reported \cup {[run |-> run, status |-> "failure"]}
  /\ UNCHANGED << today, silver_state, gold, run, started, asked, tries, window,
                  written, silver_high, finished >>

\* finalize_failure loads the row and merges it back; no one else writes it.
FinalizeFailure ==
  /\ task["finalize_failure"] = "running"
  /\ task' = [task EXCEPT !["finalize_failure"] = "succeeded"]
  /\ pipeline_state' = ApplyFailure(pipeline_state, RunIdOf("finalize_failure"), today)
  /\ reported' = reported \cup {[run |-> run, status |-> "failure"]}
  /\ UNCHANGED << today, silver_state, gold, run, started, asked, tries, window,
                  written, silver_high, finished >>

\* Broken variant: retried without end.
RaiseAlways(t) ==
  /\ task[t] \in {"running", "writing"}
  /\ task' = [task EXCEPT ![t] = "pending"]
  /\ written' = [written EXCEPT ![t] = 0]
  /\ UNCHANGED << today, silver_state, pipeline_state, gold, run, started, asked,
                  tries, window, history >>

\* Silver is not ready, a rule does not load, a read or a MERGE fails: the
\* script raises and the job retries it MaxRetries times.
Raise(t) ==
  /\ task[t] \in {"running", "writing"}
  /\ IF tries[t] < MaxRetries
     THEN /\ task' = [task EXCEPT ![t] = "pending"]
          /\ tries' = [tries EXCEPT ![t] = @ + 1]
     ELSE /\ task' = [task EXCEPT ![t] = "failed"]
          /\ UNCHANGED tries
  /\ written' = [written EXCEPT ![t] = 0]
  /\ UNCHANGED << today, silver_state, pipeline_state, gold, run, started, asked,
                  window, history >>

-----------------------------------------------------------------------------
TaskStep(t) == Begin(t) \/ PassReadiness(t) \/ Write(t) \/ Succeed(t) \/ Raise(t)

JobStep == ReleaseFinalize \/ EndRun \/ FinalizeSuccess \/ FinalizeFailure

\* Every run is over and the clock is at its bound.
Finished ==
  /\ today = Horizon /\ started = Runs /\ run = None
  /\ UNCHANGED vars

Next ==
  \/ Midnight \/ SilverSucceeds
  \/ StartRun \/ JobStep \/ Timeout
  \/ \E t \in Tasks : TaskStep(t)
  \/ Finished

\* The job scheduler keeps running what it has started; nothing makes it start
\* a run, and nothing makes Silver succeed.
Fairness == WF_vars(JobStep) /\ \A t \in Tasks : WF_vars(TaskStep(t))

Spec == Init /\ [][Next]_vars /\ Fairness

-----------------------------------------------------------------------------
\* Every variable holds values of its kind.
TypeOK ==
  /\ today \in FirstDay..Horizon
  /\ silver_state \in Optional(StateRow({None}, {None}))
  /\ pipeline_state \in Optional(StateRow(Days \X Days, {None}))
  /\ \A t \in Work : gold[t] \in [1..TableCount[t] -> SUBSET Days]
  /\ run \in Optional(Runs)
  /\ started \subseteq Runs
  /\ asked \in Optional(Days \X Days)
  /\ task \in [Tasks -> {"pending", "blocked", "running", "writing",
                         "succeeded", "failed", "skipped"}]
  /\ tries \in [Tasks -> 0..MaxRetries]
  /\ window \in [Tasks -> Optional(Days \X Days)]
  /\ written \in [Tasks -> Nat]
  /\ silver_high \in Optional(Int)
  /\ finished \subseteq [run : Runs, task : Work, window : Days \X Days]
  /\ reported \subseteq [run : Runs, status : {"success", "failure"}]

\* A run reports success only if both of its work tasks succeeded, each with
\* every table of its window written: the order depends_on promises.
SuccessAfterBoth ==
  \A r \in reported : r.status = "success" =>
    \A t \in Work : \E f \in finished :
      /\ f.run = r.run /\ f.task = t
      /\ \A i \in 1..TableCount[t] : f.window[1]..f.window[2] \subseteq gold[t][i]

\* No run reports success and failure: finalize_success and finalize_failure
\* exclude each other, whatever is retried.
OneOutcomePerRun == \A r, s \in reported : r.run = s.run => r = s

\* Nothing is written to gold for a day that Silver never reported as
\* processed, whatever Silver reports between the check and the writes.
GoldBehindSilver ==
  \A t \in Work : \A i \in 1..TableCount[t] : \A d \in gold[t][i] :
    silver_high # None /\ d < silver_high

\* The end the state reports is an end both tasks processed: a reader of the
\* row may take the day before it as controlled.
SuccessCoversWindow ==
  pipeline_state # None /\ ProcessedEnd(pipeline_state) # None =>
    \A t \in Work : \A i \in 1..TableCount[t] :
      ProcessedEnd(pipeline_state) - 1 \in gold[t][i]

\* The row of gold.pipeline_state goes through the changes ProgressRow allows.
Progress ==
  INSTANCE ProgressRow WITH
    row <- pipeline_state, RunIds <- Days \X Days, Counts <- {None},
    Ends <- Ends, Times <- FirstDay..Horizon
ProgressSpec == Progress!Spec

\* Every run of the job comes to an end, so that the next one can start: no
\* task waits for ever for Silver, for a retry or for another task.
EveryRunEnds == run # None ~> run = None

=============================================================================
