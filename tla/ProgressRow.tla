---------------------------- MODULE ProgressRow ----------------------------
(***************************************************************************)
(* What a pipeline promises about its row of gold.pipeline_state (section  *)
(* 6.3 of .specs/project_specs.md, as src/io/pipeline_state_io.py          *)
(* implements it): a run that succeeds reports the end of the window it    *)
(* processed, a run that fails leaves the progress already reported alone, *)
(* and nothing else changes the row.                                       *)
(***************************************************************************)
EXTENDS Integers, PipelineState

CONSTANTS
  RunIds,   \* identifiers of the runs
  Ends,     \* ends of the windows they process
  Times,    \* values of now_utc()
  Counts    \* the serialised zero-window counters, or None

VARIABLE row

Init == row = None

Succeed ==
  \E run_id \in RunIds, end \in Ends, counts \in Counts, now \in Times :
    row' = ApplySuccess(run_id, end, counts, now)

Fail ==
  \E run_id \in RunIds, now \in Times : row' = ApplyFailure(row, run_id, now)

\* Only a report that changes the row is a step; all else leaves it alone.
Next == row' # row /\ (Succeed \/ Fail)

Spec == Init /\ [][Next]_row

=============================================================================
