----------------------------- MODULE GuardrailA -----------------------------
(***************************************************************************)
(* Pipeline A (scripts/run_pipeline_a.py): executions of the guardrail job *)
(* over the bronze sources, the two append-only tables they write and the  *)
(* pipeline_a row of gold.pipeline_state they read and replace.            *)
(*                                                                         *)
(* An attempt is one execution of the script, with a run_id of its own: a  *)
(* scheduled run, a retry of the task, or a run an operator starts with    *)
(* explicit windows.  Each read and each Delta commit of the script is a   *)
(* step of its own, so that attempts interleave, raise and get killed      *)
(* between any two of them.                                                *)
(***************************************************************************)
EXTENDS Integers, FiniteSets, Sequences, SequencesExt, PipelineState, DqGuardrailPy

CONSTANTS
  Attempts,        \* executions of the script
  SourceOrder,     \* the bronze sources, in the order of the script's list
  Keys,            \* values of the duplicate key, None where it is missing
  DefaultWindow,   \* PIPELINE_A_DEFAULT_WINDOW_MINUTES, in ticks
  ManualRequests,  \* explicit windows an operator may ask for
  MaxConcurrent,   \* max_concurrent_runs of the job
  InitialMark,     \* last_processed_end before the first attempt, None on a new workspace
  MaxLag,          \* how late a row may be ingested after its created_at
  Horizon,         \* bound: the clock stops here
  MaxRows          \* bound: rows ever ingested into bronze

Sources == ToSet(SourceOrder)

\* Consecutive empty windows, per source.
Counts == [Sources -> Nat]

ASSUME GuardrailAssumption ==
  /\ IsFiniteSet(Attempts)
  /\ None \notin Attempts /\ None \notin Counts /\ None \notin StateRow(Attempts, Counts)
  /\ SourceOrder \in Seq(STRING) /\ SourceOrder # << >>
  /\ InitialMark \in Optional(Int)
  /\ InitialMark # None => InitialMark <= DefaultWindow
  /\ DefaultWindow \in Nat \ {0}
  /\ Horizon \in Nat /\ Horizon >= DefaultWindow
  /\ MaxLag \in Nat /\ MaxRows \in Nat /\ MaxConcurrent \in Nat
  /\ \A req \in ManualRequests :
        /\ req.windows \in Seq(Int \X Int) /\ req.windows # << >>
        /\ req.processed_end \in Int
        /\ \A i \in 1..Len(req.windows) : req.windows[i][1] < req.windows[i][2]

VARIABLES
  clock,               \* now_utc()
  bronze,              \* source -> rows ingested so far
  pipeline_state,      \* the pipeline_a row, or None
  dq_status,           \* silver.dq_status (append only)
  exception_ledger,    \* the guardrail's rows of gold.exception_ledger (append only)
  pc,                  \* attempt -> where its script is
  initial_state,       \* attempt -> the row read at its start
  windows,             \* attempt -> params.windows_utc()
  processed_end,       \* attempt -> params.processed_end_utc()
  todo,                \* attempt -> (window, source) pairs still to assess
  zero_window_counts,  \* attempt -> source -> consecutive empty windows
  dq_rows,             \* attempt -> dq rows built so far
  exception_rows       \* attempt -> exception rows built so far

\* History variables: read by the properties, never by the actions.
VARIABLES
  seen,      \* attempt -> bronze rows it assessed
  checked,   \* source -> bronze rows behind the rows of dq_status
  ahead,     \* attempt -> instants below the end it reports that were still to come
  origin,    \* start of the first window of the first success, or None
  streak     \* source -> empty windows in a row among the committed ones

tables  == << pipeline_state, dq_status, exception_ledger >>
locals  == << pc, initial_state, windows, processed_end, todo,
              zero_window_counts, dq_rows, exception_rows >>
history == << seen, checked, ahead, origin, streak >>
vars    == << clock, bronze, tables, locals, history >>

-----------------------------------------------------------------------------
BronzeRow == [created_at : Int, ingested_at : Nat, key : Keys, valid : BOOLEAN]

NoCounts == [s \in Sources |-> 0]

\* Broken variant: the counters of a pipeline without a row are not defaulted.
ParsedCountsUnguarded(row) == ZeroCounts(row)

\* parse_zero_window_counts: an absent or unreadable text is no counter at all.
ParsedCounts(row) ==
  IF ZeroCounts(row) = None THEN NoCounts ELSE ZeroCounts(row)

\* for window in params.windows_utc(): for source in sources
Worklist(wins) ==
  [i \in 1 .. Len(wins) * Len(SourceOrder) |->
     << wins[((i - 1) \div Len(SourceOrder)) + 1],
        SourceOrder[((i - 1) % Len(SourceOrder)) + 1] >>]

\* Broken variant: the window is open at its start.
InOpenWindow(rows, win) == { r \in rows : win[1] < r.created_at /\ r.created_at < win[2] }

\* The filter on created_at: [start_ts, end_ts).
InWindow(rows, win) == { r \in rows : win[1] <= r.created_at /\ r.created_at < win[2] }

\* The script's variables are gone once it has ended.
Forget(a) ==
  /\ initial_state' = [initial_state EXCEPT ![a] = None]
  /\ todo' = [todo EXCEPT ![a] = << >>]
  /\ zero_window_counts' = [zero_window_counts EXCEPT ![a] = NoCounts]
  /\ dq_rows' = [dq_rows EXCEPT ![a] = << >>]
  /\ exception_rows' = [exception_rows EXCEPT ![a] = {}]
  /\ seen' = [seen EXCEPT ![a] = [s \in Sources |-> {}]]

Working == {"params", "assess", "exceptions", "commit"}
Active(a) == pc[a] \in Working \cup {"failing"}

-----------------------------------------------------------------------------
Init ==
  /\ clock = DefaultWindow
  /\ bronze = [s \in Sources |-> {}]
  /\ pipeline_state = IF InitialMark = None THEN None
                      ELSE ApplySuccess(None, InitialMark, NoCounts, InitialMark)
  /\ dq_status = {}
  /\ exception_ledger = {}
  /\ pc = [a \in Attempts |-> "idle"]
  /\ initial_state = [a \in Attempts |-> None]
  /\ windows = [a \in Attempts |-> << >>]
  /\ processed_end = [a \in Attempts |-> 0]
  /\ todo = [a \in Attempts |-> << >>]
  /\ zero_window_counts = [a \in Attempts |-> NoCounts]
  /\ dq_rows = [a \in Attempts |-> << >>]
  /\ exception_rows = [a \in Attempts |-> {}]
  /\ seen = [a \in Attempts |-> [s \in Sources |-> {}]]
  /\ checked = [s \in Sources |-> {}]
  /\ ahead = [a \in Attempts |-> {}]
  /\ origin = InitialMark
  /\ streak = NoCounts

-----------------------------------------------------------------------------
(* The environment: time passes and the upstream feed appends rows, at most *)
(* MaxLag ticks after they were created.                                    *)

Tick ==
  /\ clock < Horizon
  /\ clock' = clock + 1
  /\ UNCHANGED << bronze, tables, locals, history >>

RowsIngested == FoldSet(LAMBDA s, n : n + Cardinality(bronze[s]), 0, Sources)

Ingest ==
  \E s \in Sources, lag \in 0..MaxLag, key \in Keys, valid \in BOOLEAN :
    /\ RowsIngested < MaxRows
    /\ bronze' = [bronze EXCEPT ![s] = @ \cup
         {[created_at |-> clock - lag, ingested_at |-> clock, key |-> key, valid |-> valid]}]
    /\ UNCHANGED << clock, tables, locals, history >>

-----------------------------------------------------------------------------
(* The script *)

\* _load_current_state: the row is read once, before the windows are known.
Start(a) ==
  /\ pc[a] = "idle"
  /\ Cardinality({ b \in Attempts : Active(b) }) < MaxConcurrent
  /\ pc' = [pc EXCEPT ![a] = "params"]
  /\ initial_state' = [initial_state EXCEPT ![a] = pipeline_state]
  /\ zero_window_counts' = [zero_window_counts EXCEPT ![a] = ParsedCounts(pipeline_state)]
  /\ UNCHANGED << clock, bronze, tables, windows, processed_end, todo,
                  dq_rows, exception_rows, history >>

\* Broken variant: always the last DefaultWindow ticks.
LastTicksOnly(row) == clock - DefaultWindow

\* inject_pipeline_a_default_incremental_window: from the high-water mark up
\* to now, or the last DefaultWindow ticks when there is no mark before now.
DefaultStart(row) ==
  LET mark == ProcessedEnd(row)
  IN  IF mark # None /\ mark < clock THEN mark ELSE clock - DefaultWindow

Resolve(a, wins, end) ==
  /\ pc[a] = "params"
  /\ pc' = [pc EXCEPT ![a] = "assess"]
  /\ windows' = [windows EXCEPT ![a] = wins]
  /\ processed_end' = [processed_end EXCEPT ![a] = end]
  /\ todo' = [todo EXCEPT ![a] = Worklist(wins)]
  /\ ahead' = [ahead EXCEPT ![a] = clock .. end - 1]
  /\ UNCHANGED << clock, bronze, tables, initial_state, zero_window_counts,
                  dq_rows, exception_rows, seen, checked, origin, streak >>

ResolveDefault(a) == Resolve(a, << << DefaultStart(initial_state[a]), clock >> >>, clock)

\* Explicit windows, with the rules loaded; they and the end the run reports may
\* reach into the future.
ResolveManual(a) ==
  \E req \in ManualRequests : Resolve(a, req.windows, req.processed_end)

\* A bad parameter or a rule table that does not load raises before the try:
\* no state is written.
RaiseBeforeTry(a) ==
  /\ pc[a] = "params"
  /\ pc' = [pc EXCEPT ![a] = "dead"]
  /\ Forget(a)
  /\ UNCHANGED << clock, bronze, tables, windows, processed_end, checked, ahead,
                  origin, streak >>

\* The dq row of run a for a window of a source.
DqRowOf(a, win, s, count, best) ==
  [run_id |-> a, source_table |-> s, window_start_ts |-> win[1], window_end_ts |-> win[2],
   event_count |-> count, dq_tag |-> best.tag, severity |-> best.severity]

\* The exception row of run a for a metric that breached a rule there.
ExceptionRowOf(a, win, s, m, severity) ==
  [run_id |-> a, source_table |-> s, window_start_ts |-> win[1], window_end_ts |-> win[2],
   exception_type |-> TagOf[m], severity |-> severity]

\* build_dq_status_spark for the next (window, source): the bronze table is
\* read now, not when the run started.
Assess(a) ==
  /\ pc[a] = "assess"
  /\ todo[a] # << >>
  /\ LET win  == Head(todo[a])[1]
         s    == Head(todo[a])[2]
         rows == InWindow(bronze[s], win)
         sev  == Severities(rows, zero_window_counts[a][s], clock)
     IN /\ dq_rows' = [dq_rows EXCEPT ![a] =
              Append(@, DqRowOf(a, win, s, Cardinality(rows), PickOverall(sev)))]
        /\ exception_rows' = [exception_rows EXCEPT ![a] = @ \cup
              { ExceptionRowOf(a, win, s, m, sev[m]) :
                  m \in { n \in Metrics : sev[n] # None } }]
        /\ zero_window_counts' = [zero_window_counts EXCEPT
              ![a][s] = ZeroWindows(@, rows)]
        /\ seen' = [seen EXCEPT ![a][s] = @ \cup rows]
  /\ todo' = [todo EXCEPT ![a] = Tail(@)]
  /\ UNCHANGED << clock, bronze, tables, pc, initial_state, windows, processed_end,
                  checked, ahead, origin, streak >>

\* The first commit: all dq rows of the run at once.
AppendDqStatus(a) ==
  /\ pc[a] = "assess"
  /\ todo[a] = << >>
  /\ pc' = [pc EXCEPT ![a] = "exceptions"]
  /\ dq_status' = dq_status \cup ToSet(dq_rows[a])
  /\ checked' = [s \in Sources |-> checked[s] \cup seen[a][s]]
  /\ UNCHANGED << clock, bronze, pipeline_state, exception_ledger, initial_state, windows,
                  processed_end, todo, zero_window_counts, dq_rows, exception_rows,
                  seen, ahead, origin, streak >>

\* Broken variant: warnings do not reach the ledger.
AppendCriticalOnly(a) ==
  /\ pc[a] = "exceptions"
  /\ pc' = [pc EXCEPT ![a] = "commit"]
  /\ exception_ledger' = exception_ledger \cup
       { e \in exception_rows[a] : e.severity = "CRITICAL" }
  /\ UNCHANGED << clock, bronze, pipeline_state, dq_status, initial_state, windows,
                  processed_end, todo, zero_window_counts, dq_rows, exception_rows, history >>

\* The second commit, skipped when nothing breached a rule.
AppendExceptions(a) ==
  /\ pc[a] = "exceptions"
  /\ pc' = [pc EXCEPT ![a] = "commit"]
  /\ exception_ledger' = exception_ledger \cup exception_rows[a]
  /\ UNCHANGED << clock, bronze, pipeline_state, dq_status, initial_state, windows,
                  processed_end, todo, zero_window_counts, dq_rows, exception_rows, history >>

\* The runs of empty windows once a row, or these rows, are committed as well.
AfterRow(counts, d) ==
  [counts EXCEPT ![d.source_table] = IF d.event_count = 0 THEN @ + 1 ELSE 0]

StreakAfter(rows) == FoldLeft(AfterRow, streak, rows)

\* The third commit.
CommitSuccess(a) ==
  /\ pc[a] = "commit"
  /\ pc' = [pc EXCEPT ![a] = "succeeded"]
  /\ pipeline_state' =
       ApplySuccess(a, processed_end[a], zero_window_counts[a], clock)
  /\ origin' = IF origin = None THEN windows[a][1][1] ELSE origin
  /\ streak' = StreakAfter(dq_rows[a])
  /\ Forget(a)
  /\ UNCHANGED << clock, bronze, dq_status, exception_ledger, windows, processed_end,
                  checked, ahead >>

\* Any read or commit inside the try may raise; what is committed stays.
Raise(a) ==
  /\ pc[a] \in {"assess", "exceptions", "commit"}
  /\ pc' = [pc EXCEPT ![a] = "failing"]
  /\ UNCHANGED << clock, bronze, tables, initial_state, windows, processed_end, todo,
                  zero_window_counts, dq_rows, exception_rows, history >>

\* The except clause: the record passed on is the one read at the start.
CommitFailure(a) ==
  /\ pc[a] = "failing"
  /\ pc' = [pc EXCEPT ![a] = "failed"]
  /\ pipeline_state' = ApplyFailure(initial_state[a], a, clock)
  /\ Forget(a)
  /\ UNCHANGED << clock, bronze, dq_status, exception_ledger, windows, processed_end,
                  checked, ahead, origin, streak >>

\* The job timeout, a lost cluster, or a failure state that cannot be written.
Kill(a) ==
  /\ Active(a)
  /\ pc' = [pc EXCEPT ![a] = "dead"]
  /\ Forget(a)
  /\ UNCHANGED << clock, bronze, tables, windows, processed_end, checked, ahead,
                  origin, streak >>

-----------------------------------------------------------------------------
Script(a) ==
  \/ Start(a)
  \/ ResolveDefault(a) \/ ResolveManual(a) \/ RaiseBeforeTry(a)
  \/ Assess(a) \/ AppendDqStatus(a) \/ AppendExceptions(a)
  \/ CommitSuccess(a) \/ Raise(a) \/ CommitFailure(a)
  \/ Kill(a)

\* Every attempt has ended and the clock is at its bound.
Finished ==
  /\ clock = Horizon
  /\ \A a \in Attempts : pc[a] \in {"succeeded", "failed", "dead"}
  /\ UNCHANGED vars

Next == Tick \/ Ingest \/ (\E a \in Attempts : Script(a)) \/ Finished

Spec == Init /\ [][Next]_vars

-----------------------------------------------------------------------------
DqRow ==
  [run_id : Attempts, source_table : Sources,
   window_start_ts : Int, window_end_ts : Int, event_count : Nat,
   dq_tag : Optional(Tags), severity : {"CRITICAL", "WARN", None}]

ExceptionRow ==
  [run_id : Attempts, source_table : Sources,
   window_start_ts : Int, window_end_ts : Int,
   exception_type : Tags, severity : {"CRITICAL", "WARN"}]

\* Every variable holds values of its kind: the state row obeys the contract
\* of gold.pipeline_state, the appended rows those of their tables.
TypeOK ==
  /\ clock \in Nat
  /\ bronze \in [Sources -> SUBSET BronzeRow]
  /\ pipeline_state \in Optional(StateRow(Attempts, Counts))
  /\ dq_status \subseteq DqRow
  /\ exception_ledger \subseteq ExceptionRow
  /\ pc \in [Attempts -> Working \cup {"idle", "failing", "succeeded", "failed", "dead"}]
  /\ initial_state \in [Attempts -> Optional(StateRow(Attempts, Counts))]
  /\ windows \in [Attempts -> Seq(Int \X Int)]
  /\ processed_end \in [Attempts -> Int]
  /\ todo \in [Attempts -> Seq((Int \X Int) \X Sources)]
  /\ zero_window_counts \in [Attempts -> Counts]
  /\ dq_rows \in [Attempts -> Seq(DqRow)]
  /\ exception_rows \in [Attempts -> SUBSET ExceptionRow]

\* A row of gold.pipeline_state that says success stands for a run all of
\* whose dq rows, one per window and source, are committed, each with the
\* exception of its overall tag: whatever was killed or raised in between, success is never
\* reported over a partial write (the order of the commits in main()).
SuccessIsRecorded ==
  \A a \in Attempts :
    pipeline_state # None /\ pipeline_state.status = "success"
                          /\ pipeline_state.last_run_id = a =>
      /\ \A i \in 1..Len(windows[a]), s \in Sources :
           \E d \in dq_status :
             /\ d.run_id = a /\ d.source_table = s
             /\ << d.window_start_ts, d.window_end_ts >> = windows[a][i]
      /\ \A d \in dq_status :
           d.run_id = a /\ d.severity # None =>
             \E e \in exception_ledger :
               /\ e.run_id = a /\ e.source_table = d.source_table
               /\ e.window_end_ts = d.window_end_ts
               /\ e.exception_type = d.dq_tag /\ e.severity = d.severity

\* No instant between the first success and the high-water mark is missing
\* from the windows recorded in dq_status: a failed, killed or overtaken run
\* leaves nothing unguarded, because the next run starts at the mark.
NoUncheckedGap ==
  origin # None /\ ProcessedEnd(pipeline_state) # None =>
    \A s \in Sources : \A t \in origin .. ProcessedEnd(pipeline_state) - 1 :
      \E d \in dq_status :
        d.source_table = s /\ d.window_start_ts <= t /\ t < d.window_end_ts

\* The instants that runs which succeeded reported as processed before they had
\* come: below an explicit end, or in a backfill that includes today.
ReportedAhead == UNION { ahead[a] : a \in { b \in Attempts : pc[b] = "succeeded" } }

\* Every bronze row created between the first success and the high-water mark
\* was assessed by some run whose dq rows are committed.  Only a run that was
\* asked for a future end can pass rows over: those created at instants it
\* reported ahead of the clock, which the default window starts behind once the
\* clock has passed the mark.
EveryRowChecked ==
  origin # None /\ ProcessedEnd(pipeline_state) # None =>
    \A s \in Sources : \A r \in bronze[s] :
      origin <= r.created_at /\ r.created_at < ProcessedEnd(pipeline_state) =>
        r \in checked[s] \/ r.created_at \in ReportedAhead

\* The stored counters are the lengths of the current runs of empty windows
\* over the committed windows, across failures, kills and restarts: this is
\* what EVENT_DROP_SUSPECTED is decided from.
ZeroCountsContinuous ==
  ParsedCounts(pipeline_state) = streak

\* Windows to compare the two assessments on: at most three rows, just created
\* or a tick old, with and without their key, valid or not, in any order.
SampleRows ==
  [created_at : {clock - 1, clock}, ingested_at : {clock},
   key : Keys \cup {None}, valid : BOOLEAN]

SampleLists ==
  UNION { { list \in [1..n -> SampleRows] : Cardinality(Range(list)) = n } : n \in 0..3 }

\* Both statements of the assessment give these records one verdict.
SameVerdict(records, previous, now) ==
  LET rows       == Range(records)
      severities == Severities(rows, previous, now)
      best       == PickOverall(severities)
  IN  BuildDqStatus(records, previous, now)
        = [event_count |-> Cardinality(rows),
           values      |-> Values(rows, previous, now),
           severities  |-> severities,
           overall     |-> << best.tag, best.severity >>]

\* The Spark job and the Python statement of the assessment give one verdict on
\* each sample window: the metrics from aggregates and from loops over records,
\* the limits a value only reaches, and which of several tags wins.
DqTwinsAgree ==
  (\A a \in Attempts : pc[a] = "idle") =>
    \A records \in SampleLists, previous \in 0..2 : SameVerdict(records, previous, clock)

\* Reporting a failure changes no progress field: last_success_ts,
\* last_processed_end and the counters stay what the table holds (the rule of
\* data_contract.md 4.9).
FailureKeepsProgress ==
  [][ pipeline_state' # pipeline_state /\ pipeline_state'.status = "failure" =>
        /\ ProcessedEnd(pipeline_state') = ProcessedEnd(pipeline_state)
        /\ LastSuccess(pipeline_state') = LastSuccess(pipeline_state)
        /\ ZeroCounts(pipeline_state') = ZeroCounts(pipeline_state) ]_vars

=============================================================================
