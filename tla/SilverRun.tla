------------------------------ MODULE SilverRun ------------------------------
(***************************************************************************)
(* Pipeline Silver (scripts/run_pipeline_silver.py): executions of the job *)
(* that reads the bronze rows of its windows, quarantines the bad ones in  *)
(* silver.bad_records, stops when too many are bad, merges the rest into   *)
(* the five silver tables one after the other, and reports its outcome in  *)
(* the pipeline_silver row of gold.pipeline_state.                         *)
(*                                                                         *)
(* An attempt is one execution of the script: a scheduled run, a retry of  *)
(* the task, or a backfill.  The job runs one at a time                    *)
(* (max_concurrent_runs: 1).  Time is counted in KST days; a window is the *)
(* set of days lo..hi and its processed end is the start of day hi + 1.    *)
(*                                                                         *)
(* The data frames of the script are lazy and nothing caches them: each    *)
(* count, append and merge evaluates them again over the bronze tables as  *)
(* they are then.  The silver tables exist: bootstrap_catalog creates them *)
(* before the first run.                                                   *)
(***************************************************************************)
EXTENDS Integers, FiniteSets, Sequences, PipelineState

CONSTANTS
  Attempts,         \* executions of the script
  Feed,             \* the rows the upstream may deliver to bronze
  Backfills,        \* day ranges <<lo, hi>> an operator may ask for
  AllowedStatuses,  \* allowed_values of the rule payment_status_allowed, {} without one
  Threshold,        \* bad_records_rate of the rule, <<num, den>>, or None
  FirstDay,         \* the day the system starts on
  MaxLag,           \* how many days after its creation a row may be ingested
  Horizon           \* bound: the last day

Sources ==
  {"user_wallets_raw", "transaction_ledger_raw", "payment_orders_raw",
   "orders_raw", "order_items_raw", "products_raw"}

\* These two are read whole; the others are filtered to the windows.
Unwindowed == {"order_items_raw", "products_raw"}

\* The silver tables, in the order main() merges them.
MergeOrder ==
  << "wallet_snapshot", "ledger_entries", "order_events", "order_items", "products" >>

Targets == { MergeOrder[i] : i \in 1..Len(MergeOrder) }

\* Which bronze tables each silver table is built from.
SourcesOf ==
  [ t \in Targets |->
      CASE t = "wallet_snapshot" -> {"user_wallets_raw"}
        [] t = "ledger_entries"  -> {"transaction_ledger_raw"}
        [] t = "order_events"    -> {"orders_raw", "payment_orders_raw"}
        [] t = "order_items"     -> {"order_items_raw"}
        [] t = "products"        -> {"products_raw"} ]

\* A row of a source: id tells rows apart, key is its primary key there,
\* related the order a ledger row belongs to, status its own status, and good
\* says whether it has the required fields with values in range.
FeedRow ==
  [id : STRING, source : Sources, key : STRING, related : Optional(STRING),
   status : Optional(STRING), good : BOOLEAN]

ASSUME SilverRunAssumption ==
  /\ Feed \subseteq FeedRow
  /\ Backfills \subseteq Int \X Int
  /\ FirstDay \in Int /\ Horizon \in Int /\ FirstDay <= Horizon /\ MaxLag \in Nat
  /\ \A b \in Backfills : b[1] <= b[2] /\ b[1] >= FirstDay - 1
  /\ Threshold \in Optional(Nat \X (Nat \ {0}))

VARIABLES
  today,            \* the KST date of now_utc()
  bronze,           \* the rows ingested so far
  silver,           \* silver table -> its rows
  bad_records,      \* silver.bad_records (append only)
  pipeline_state,   \* the pipeline_silver row, or None
  pc,               \* attempt -> where its script is
  step,             \* attempt -> counts taken, or tables merged, so far
  window,           \* attempt -> <<lo, hi>>
  counts,           \* attempt -> the counts its rates are computed from
  current_state     \* attempt -> the row its except clause loads

\* History variables: read by the properties, never by the actions.
VARIABLES
  origin,           \* the first day in the windows of successful runs, or None
  covered,          \* the days in the windows of successful runs
  present,          \* attempt -> rows of the days of its windows there at its start
  owed              \* the rows the successful runs had to account for

tables  == << silver, bad_records, pipeline_state >>
locals  == << pc, step, window, counts, current_state >>
history == << origin, covered, present, owed >>
vars    == << today, bronze, tables, locals, history >>

-----------------------------------------------------------------------------
(* The transformation, src/jobs/pipeline_silver_spark.py. *)

\* Broken variant: only the time of the event counts.
CreatedInWindow(r, win) == r.created \in win[1]..win[2]

\* A row counts for a window when any of its timestamps lies in it.
InWindow(r, win) ==
  r.created \in win[1]..win[2] \/ r.ingested \in win[1]..win[2]

\* The order rows of rows that can tell the status of order.
StatusRows(rows, order) ==
  { p \in rows : p.source = "payment_orders_raw" /\ p.key = order /\ p.status # None }

\* The order of _build_status_lookup_df: newest first.
NewestFirst(p, q) == p.created > q.created \/ (p.created = q.created /\ p.ingested >= q.ingested)

\* status_raw: the status of the order the row is related to, among the order
\* rows of the same windows, else its own.
StatusOf(r, rows) ==
  LET found == StatusRows(rows, r.related)
  IN  IF r.source # "transaction_ledger_raw" \/ r.related = None \/ found = {}
      THEN r.status
      ELSE (CHOOSE p \in found : \A q \in found : NewestFirst(p, q)).status

\* A row with a bad_reason: a field of its own is missing or out of range, or
\* it is a ledger row whose status is not allowed, when a rule lists any.
Bad(r, rows) ==
  \/ ~r.good
  \/ /\ r.source = "transaction_ledger_raw"
     /\ AllowedStatuses # {}
     /\ StatusOf(r, rows) # None
     /\ StatusOf(r, rows) \notin AllowedStatuses

RowsFor(t, rows)  == { r \in rows : r.source \in SourcesOf[t] }
BadRows(t, rows)  == { r \in RowsFor(t, rows) : Bad(r, rows) }
GoodRows(t, rows) == RowsFor(t, rows) \ BadRows(t, rows)

\* The merge key; order_events is keyed by order and by source.
Key(r) == << r.source, r.key >>

\* The counts transform_silver_tables_spark takes, in that order: the two
\* tables whose rate is checked, their valid rows and their bad ones.
CountOrder ==
  << << "wallet_snapshot", "valid" >>, << "wallet_snapshot", "bad" >>,
     << "ledger_entries", "valid" >>,  << "ledger_entries", "bad" >> >>
Gated   == {"wallet_snapshot", "ledger_entries"}
Counted == Gated \X {"valid", "bad"}

CountOf(c, rows) ==
  Cardinality(IF c[2] = "bad" THEN BadRows(c[1], rows) ELSE GoodRows(c[1], rows))

\* enforce_bad_records_rate raises: the share of bad rows is above, not at,
\* the threshold; without rows the rate is 0, without a threshold all passes.
Breaches(t, cnt) ==
  LET bad   == cnt[<< t, "bad" >>]
      total == cnt[<< t, "valid" >>] + bad
  IN  Threshold # None /\ total > 0 /\ bad * Threshold[2] > Threshold[1] * total

RateExceeded(cnt) == \E t \in Gated : Breaches(t, cnt)

\* Two rows of the source for one row of the target: the MERGE is refused.
Ambiguous(table, good) ==
  \E r, s \in good : r # s /\ Key(r) = Key(s) /\ \E x \in table : x.key = Key(r)

\* MERGE by key: matched rows are replaced, the other rows of the source are
\* inserted.  first names the source row a row of the table was inserted for,
\* which keeps apart the rows two equal keys inserted together leave.
Merged(table, good, a) ==
  LET matches(x) == { r \in good : Key(r) = x.key }
      updated    == { IF matches(x) = {} THEN x
                      ELSE [key |-> x.key, first |-> x.first,
                            row |-> CHOOSE r \in matches(x) : TRUE, run_id |-> a] : x \in table }
      inserted   == { [key |-> Key(r), first |-> r, row |-> r, run_id |-> a] :
                        r \in { g \in good : \A x \in table : x.key # Key(g) } }
  IN  updated \cup inserted

-----------------------------------------------------------------------------
Init ==
  /\ today = FirstDay
  /\ bronze = {}
  /\ silver = [t \in Targets |-> {}]
  /\ bad_records = {}
  /\ pipeline_state = None
  /\ pc = [a \in Attempts |-> "idle"]
  /\ step = [a \in Attempts |-> 0]
  /\ window = [a \in Attempts |-> << FirstDay - 1, FirstDay - 1 >>]
  /\ counts = [a \in Attempts |-> [c \in Counted |-> 0]]
  /\ current_state = [a \in Attempts |-> None]
  /\ origin = None
  /\ covered = {}
  /\ present = [a \in Attempts |-> {}]
  /\ owed = {}

Active(a) == pc[a] \in {"count", "gate", "merge", "failing", "report"}

-----------------------------------------------------------------------------
(* The environment: midnight passes and the upstream feed delivers rows, at *)
(* most MaxLag days after they were created.                                *)

Midnight ==
  /\ today < Horizon
  /\ today' = today + 1
  /\ UNCHANGED << bronze, tables, locals, history >>

Delivered(f, created, ingested) ==
  [id |-> f.id, source |-> f.source, key |-> f.key, related |-> f.related,
   status |-> f.status, good |-> f.good, created |-> created, ingested |-> ingested]

Ingest ==
  \E f \in Feed, lag \in 0..MaxLag :
    /\ \A r \in bronze : r.id # f.id
    /\ bronze' = bronze \cup {Delivered(f, today - lag, today)}
    /\ UNCHANGED << today, tables, locals, history >>

-----------------------------------------------------------------------------
(* The script *)

\* The parameters and the rules are fine; nothing has been counted yet.
Begin(a, win) ==
  /\ pc[a] = "idle"
  /\ \A b \in Attempts : ~Active(b)
  /\ pc' = [pc EXCEPT ![a] = "count"]
  /\ window' = [window EXCEPT ![a] = win]
  /\ present' = [present EXCEPT ![a] = { r \in bronze : r.ingested \in win[1]..win[2] }]
  /\ UNCHANGED << today, bronze, tables, step, counts, current_state, origin, covered, owed >>

\* inject_default_daily_backfill: without parameters, yesterday.
StartDefault(a) == Begin(a, << today - 1, today - 1 >>)

\* A backfill of any days, today and days to come included.
StartBackfill(a) == \E b \in Backfills : Begin(a, b)

\* The rows the filters of attempt a let through now.
Visible(a) == { r \in bronze : r.source \in Unwindowed \/ InWindow(r, window[a]) }

\* The end of transform_silver_tables_spark: one count after the other.
Count(a) ==
  /\ pc[a] = "count"
  /\ step[a] < Len(CountOrder)
  /\ LET c == CountOrder[step[a] + 1]
     IN  counts' = [counts EXCEPT ![a][c] = CountOf(c, Visible(a))]
  /\ step' = [step EXCEPT ![a] = @ + 1]
  /\ UNCHANGED << today, bronze, tables, pc, window, current_state, history >>

\* The rows of table t with a bad_reason, as silver.bad_records keeps them.
BadRecords(t, a) == { [table |-> t, row |-> r, run_id |-> a] : r \in BadRows(t, Visible(a)) }

\* _append_bad_records_df: the bad rows are saved before the rate is looked at.
Quarantine(a) ==
  /\ pc[a] = "count"
  /\ step[a] = Len(CountOrder)
  /\ pc' = [pc EXCEPT ![a] = "gate"]
  /\ bad_records' = bad_records \cup UNION { BadRecords(t, a) : t \in Targets }
  /\ UNCHANGED << today, bronze, silver, pipeline_state, step, window, counts,
                  current_state, history >>

\* Broken variant: the second check is forgotten.
PassWalletGate(a) ==
  /\ pc[a] = "gate"
  /\ IF Breaches("wallet_snapshot", counts[a])
     THEN pc' = [pc EXCEPT ![a] = "failing"] /\ UNCHANGED step
     ELSE pc' = [pc EXCEPT ![a] = "merge"] /\ step' = [step EXCEPT ![a] = 0]
  /\ UNCHANGED << today, bronze, tables, window, counts, current_state, history >>

\* enforce_bad_records_rate, for the wallets and for the ledger.
PassGate(a) ==
  /\ pc[a] = "gate"
  /\ IF RateExceeded(counts[a])
     THEN pc' = [pc EXCEPT ![a] = "failing"] /\ UNCHANGED step
     ELSE pc' = [pc EXCEPT ![a] = "merge"] /\ step' = [step EXCEPT ![a] = 0]
  /\ UNCHANGED << today, bronze, tables, window, counts, current_state, history >>

\* write_silver_delta of the next table: each MERGE is a commit of its own.
Merge(a) ==
  /\ pc[a] = "merge"
  /\ step[a] < Len(MergeOrder)
  /\ LET t    == MergeOrder[step[a] + 1]
         good == GoodRows(t, Visible(a))
     IN  /\ ~Ambiguous(silver[t], good)
         /\ silver' = [silver EXCEPT ![t] = Merged(@, good, a)]
  /\ step' = [step EXCEPT ![a] = @ + 1]
  /\ UNCHANGED << today, bronze, bad_records, pipeline_state, pc, window, counts,
                  current_state, history >>

\* The last commit of a successful run.
CommitSuccess(a) ==
  /\ pc[a] = "merge"
  /\ step[a] = Len(MergeOrder)
  /\ pc' = [pc EXCEPT ![a] = "succeeded"]
  /\ step' = [step EXCEPT ![a] = 0]
  /\ pipeline_state' = ApplySuccess(a, window[a][2] + 1, None, today)
  /\ origin' = IF origin = None THEN window[a][1] ELSE origin
  /\ covered' = covered \cup window[a][1]..window[a][2]
  /\ present' = [present EXCEPT ![a] = {}]
  /\ owed' = owed \cup present[a]
  /\ UNCHANGED << today, bronze, silver, bad_records, window, counts, current_state >>

\* Any read or commit inside the try may raise, as an ambiguous MERGE does;
\* what is committed stays.
Raise(a) ==
  /\ pc[a] \in {"count", "gate", "merge"}
  /\ pc' = [pc EXCEPT ![a] = "failing"]
  /\ UNCHANGED << today, bronze, tables, step, window, counts, current_state, history >>

\* Broken variant: the failure is reported without the row.
ReportWithoutRow(a) ==
  /\ pc[a] = "failing"
  /\ pc' = [pc EXCEPT ![a] = "report"]
  /\ UNCHANGED << today, bronze, tables, step, window, counts, current_state, history >>

\* The except clause loads the row as it is now...
LoadForFailure(a) ==
  /\ pc[a] = "failing"
  /\ pc' = [pc EXCEPT ![a] = "report"]
  /\ current_state' = [current_state EXCEPT ![a] = pipeline_state]
  /\ UNCHANGED << today, bronze, tables, step, window, counts, history >>

\* ...and merges it back with the failure.
CommitFailure(a) ==
  /\ pc[a] = "report"
  /\ pc' = [pc EXCEPT ![a] = "failed"]
  /\ step' = [step EXCEPT ![a] = 0]
  /\ pipeline_state' = ApplyFailure(current_state[a], a, today)
  /\ current_state' = [current_state EXCEPT ![a] = None]
  /\ present' = [present EXCEPT ![a] = {}]
  /\ UNCHANGED << today, bronze, silver, bad_records, window, counts, origin, covered, owed >>

\* The job timeout, a lost cluster, a failure that cannot be reported, or a
\* parameter or rule error raised before the try: no state is written.
Kill(a) ==
  /\ Active(a)
  /\ pc' = [pc EXCEPT ![a] = "dead"]
  /\ step' = [step EXCEPT ![a] = 0]
  /\ current_state' = [current_state EXCEPT ![a] = None]
  /\ present' = [present EXCEPT ![a] = {}]
  /\ UNCHANGED << today, bronze, tables, window, counts, origin, covered, owed >>

-----------------------------------------------------------------------------
Script(a) ==
  \/ StartDefault(a) \/ StartBackfill(a)
  \/ Count(a) \/ Quarantine(a) \/ PassGate(a) \/ Merge(a) \/ CommitSuccess(a)
  \/ Raise(a) \/ LoadForFailure(a) \/ CommitFailure(a)
  \/ Kill(a)

\* Every attempt has ended and the clock is at its bound.
Finished ==
  /\ today = Horizon
  /\ \A a \in Attempts : pc[a] \in {"succeeded", "failed", "dead"}
  /\ UNCHANGED vars

Next == Midnight \/ Ingest \/ (\E a \in Attempts : Script(a)) \/ Finished

Spec == Init /\ [][Next]_vars

-----------------------------------------------------------------------------
BronzeRow ==
  [id : STRING, source : Sources, key : STRING, related : Optional(STRING),
   status : Optional(STRING), good : BOOLEAN, created : Int, ingested : Int]

SilverRow ==
  [key : Sources \X STRING, first : BronzeRow, row : BronzeRow, run_id : Attempts]

BadRecord == [table : Targets, row : BronzeRow, run_id : Attempts]

\* Every variable holds values of its kind.
TypeOK ==
  /\ today \in FirstDay..Horizon
  /\ bronze \subseteq BronzeRow /\ IsFiniteSet(bronze)
  /\ silver \in [Targets -> SUBSET SilverRow]
  /\ bad_records \subseteq BadRecord
  /\ pipeline_state \in Optional(StateRow(Attempts, {None}))
  /\ pc \in [Attempts -> {"idle", "count", "gate", "merge", "failing", "report",
                         "succeeded", "failed", "dead"}]
  /\ step \in [Attempts -> Nat]
  /\ window \in [Attempts -> Int \X Int]
  /\ counts \in [Attempts -> [Counted -> Nat]]
  /\ current_state \in [Attempts -> Optional(StateRow(Attempts, {None}))]
  /\ origin \in Optional(Int)
  /\ covered \subseteq Int
  /\ present \in [Attempts -> SUBSET BronzeRow]
  /\ owed \subseteq BronzeRow

\* The share of bad rows among the rows counted of a table is within the threshold.
WithinThreshold(t, cnt) ==
  LET bad   == cnt[<< t, "bad" >>]
      valid == cnt[<< t, "valid" >>]
  IN  Threshold # None => bad * Threshold[2] <= Threshold[1] * (valid + bad)

\* The fail-closed gate of section 1.2 P1 of the specification: no row of a
\* silver table was written by a run whose own counts exceed the threshold,
\* whatever was ingested between its counts and its merges.
FailClosed ==
  \A t \in Targets : \A x \in silver[t] :
    \A g \in Gated : WithinThreshold(g, counts[x.run_id])

\* Nothing disappears between bronze and silver: a row that was there when a
\* successful run started, ingested on a day of its windows, is in its silver
\* table, under its key, or in the quarantine, whichever runs failed between
\* two of their commits.  Rows that come in on a day a run has covered, after
\* it started, are for a later run: a backfill may include today.
RowsAccounted ==
  \A r \in owed :
    \A t \in { u \in Targets : r.source \in SourcesOf[u] } :
      \/ \E x \in silver[t] : x.key = Key(r)
      \/ \E b \in bad_records : b.table = t /\ b.row = r

\* What assert_pipeline_ready lets through was processed: when the state row is
\* ready for the end of a day, that day was in the windows of a successful run.
ReadyMeansProcessed ==
  \A d \in FirstDay..Horizon :
    origin # None /\ origin <= d /\ Ready(pipeline_state, d + 1) => d \in covered

\* The row of gold.pipeline_state goes through the changes ProgressRow allows
\* and no other: the record a failing run loads and merges back is current.
Progress ==
  INSTANCE ProgressRow WITH
    row <- pipeline_state, RunIds <- Attempts, Counts <- {None},
    Ends <- FirstDay..Horizon \cup { b[2] + 1 : b \in Backfills },
    Times <- FirstDay..Horizon
ProgressSpec == Progress!Spec

=============================================================================
