\* Runs, retries and backfills of Silver, one at a time, over rows that may come a day late.
SPECIFICATION Spec
CONSTANTS
  None = None
  Attempts = {a1, a2}
  Feed <- MCFeed
  Backfills <- MCBackfills
  AllowedStatuses <- MCStatuses
  Threshold <- MCThreshold
  FirstDay = 1
  MaxLag = 1
  Horizon = 2
INVARIANTS TypeOK FailClosed RowsAccounted
PROPERTY ProgressSpec
SYMMETRY AttemptSymmetry
