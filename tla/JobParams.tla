----------------------------- MODULE JobParams -----------------------------
(***************************************************************************)
(* The window parameters of a run: src/common/job_params.py with the       *)
(* default of src/common/window_defaults.py, as Silver, B and C use them.  *)
(*                                                                         *)
(* Timestamps are ticks, TicksPerDay of them to a KST day; day d begins at *)
(* tick d * TicksPerDay.  The last instant before a timestamp t is in the  *)
(* day of t - 1.                                                           *)
(***************************************************************************)
EXTENDS Integers, Nullable

CONSTANT TicksPerDay

ASSUME JobParamsAssumption == TicksPerDay \in Nat \ {0}

\* A payload: the parameters of the job, blank ones None.
Payload ==
  [run_mode : Optional({"incremental", "backfill"}),
   start_ts : Optional(Int), end_ts : Optional(Int),
   date_kst_start : Optional(Int), date_kst_end : Optional(Int)]

Blank == [run_mode |-> None, start_ts |-> None, end_ts |-> None,
          date_kst_start |-> None, date_kst_end |-> None]

DateKst(ts)    == ts \div TicksPerDay
DayStart(date) == date * TicksPerDay

\* Only a payload that is blank altogether means yesterday.
InjectDefaultDailyBackfill(payload, now) ==
  IF payload # Blank THEN payload
  ELSE [Blank EXCEPT !.run_mode       = "backfill",
                     !.date_kst_start = DateKst(now) - 1,
                     !.date_kst_end   = DateKst(now) - 1]

\* from_mapping: a backfill takes the dates it was not given from the timestamps.
FromMapping(payload) ==
  IF payload.run_mode # "backfill" THEN payload
  ELSE [payload EXCEPT
          !.date_kst_start = IF @ = None /\ payload.start_ts # None
                             THEN DateKst(payload.start_ts) ELSE @,
          !.date_kst_end   = IF @ = None /\ payload.end_ts # None
                             THEN DateKst(payload.end_ts - 1) ELSE @]

\* What from_mapping does not raise for.
Accepted(payload) ==
  LET params == FromMapping(payload)
  IN  /\ params.run_mode # None
      /\ params.start_ts # None /\ params.end_ts # None =>
           params.start_ts < params.end_ts
      /\ params.run_mode = "backfill" =>
           /\ params.date_kst_start # None /\ params.date_kst_end # None
           /\ params.date_kst_start <= params.date_kst_end
      /\ params.run_mode = "incremental" =>
           params.start_ts # None /\ params.end_ts # None

\* Broken variant: the last day of the range is left out.
TargetDatesExclusive(params) ==
  CASE params.date_kst_start # None /\ params.date_kst_end # None ->
         params.date_kst_start .. params.date_kst_end - 1
    [] OTHER -> DateKst(params.start_ts) .. DateKst(params.end_ts - 1)

\* The dates when both are known, else the days the timestamps touch.
TargetDates(params) ==
  CASE params.date_kst_start # None /\ params.date_kst_end # None ->
         params.date_kst_start .. params.date_kst_end
    [] OTHER -> DateKst(params.start_ts) .. DateKst(params.end_ts - 1)

\* end_ts wins over the dates.
ProcessedEndUtc(params) ==
  IF params.end_ts # None THEN params.end_ts ELSE DayStart(params.date_kst_end + 1)

=============================================================================
