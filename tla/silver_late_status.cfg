\* A status that arrives between the quarantine and the merge of a run.
SPECIFICATION Spec
CONSTANTS
  None = None
  Attempts = {a1, a2}
  Feed <- LateFeed
  Backfills <- NoBackfills
  AllowedStatuses <- MCStatuses
  Threshold <- MCThreshold
  FirstDay = 1
  MaxLag = 1
  Horizon = 3
INVARIANT RowsAccounted
SYMMETRY AttemptSymmetry
