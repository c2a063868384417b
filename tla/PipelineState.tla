--------------------------- MODULE PipelineState ---------------------------
(***************************************************************************)
(* The rows of gold.pipeline_state: one row per pipeline_name, replaced by *)
(* a MERGE each time a run reports its outcome.  This module holds the     *)
(* pure part of src/io/pipeline_state_io.py and                            *)
(* src/io/upstream_readiness.py; the modules of the pipelines keep the row *)
(* in a variable and change it only through these operators.               *)
(*                                                                         *)
(* Timestamps are integers.  A pipeline whose row is None has not reported *)
(* anything yet.                                                           *)
(***************************************************************************)
EXTENDS Integers, Nullable

Status == {"success", "failure"}

\* A state row, as run identifiers RunIds and zero-window counters Counts.
StateRow(RunIds, Counts) ==
  [status                : Status,
   last_success_ts       : Optional(Int),
   last_processed_end    : Optional(Int),
   last_run_id           : Optional(RunIds),
   dq_zero_window_counts : Optional(Counts),
   updated_at            : Int]

\* What apply_pipeline_state starts from when no row exists.
BlankRow(now) ==
  [status                |-> "failure",
   last_success_ts       |-> None,
   last_processed_end    |-> None,
   last_run_id           |-> None,
   dq_zero_window_counts |-> None,
   updated_at            |-> now]

\* Broken variant: the status is stored as it was passed in.
SuccessAsPassed(run_id, processed_end, counts, now) ==
  [status                |-> "SUCCESS",
   last_success_ts       |-> now,
   last_processed_end    |-> processed_end,
   last_run_id           |-> run_id,
   dq_zero_window_counts |-> counts,
   updated_at            |-> now]

\* A success replaces every field, last_processed_end by the end of this
\* run's window whatever it was before.
ApplySuccess(run_id, processed_end, counts, now) ==
  [status                |-> "success",
   last_success_ts       |-> now,
   last_processed_end    |-> processed_end,
   last_run_id           |-> run_id,
   dq_zero_window_counts |-> counts,
   updated_at            |-> now]

\* Broken variant: a failure starts from a blank record.
FailureForgets(current, run_id, now) ==
  [BlankRow(now) EXCEPT !.last_run_id = run_id]

\* A failure keeps the progress fields of the record the caller passes.
ApplyFailure(current, run_id, now) ==
  [(IF current = None THEN BlankRow(now) ELSE current) EXCEPT
      !.status      = "failure",
      !.last_run_id = run_id,
      !.updated_at  = now]

\* The fields of a row that say how far the pipeline has got.
ProcessedEnd(row) == IF row = None THEN None ELSE row.last_processed_end
LastSuccess(row)  == IF row = None THEN None ELSE row.last_success_ts
ZeroCounts(row)   == IF row = None THEN None ELSE row.dq_zero_window_counts

\* assert_pipeline_ready: the upstream row exists, has succeeded at least
\* once, and its high-water mark reaches the end the caller requires.  The
\* row's status is not looked at.
Ready(row, required_processed_end) ==
  /\ LastSuccess(row) # None
  /\ ProcessedEnd(row) # None
  /\ ProcessedEnd(row) >= required_processed_end

=============================================================================
