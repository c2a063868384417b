\* A day without a successful run is never caught up, yet the mark passes it.
SPECIFICATION Spec
CONSTANTS
  None = None
  Attempts = {a1, a2}
  Feed <- NoFeed
  Backfills <- NoBackfills
  AllowedStatuses <- MCStatuses
  Threshold <- MCThreshold
  FirstDay = 1
  MaxLag = 1
  Horizon = 3
INVARIANT ReadyMeansProcessed
SYMMETRY AttemptSymmetry
