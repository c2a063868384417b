\* The tasks of one scheduled run start on both sides of midnight.
SPECIFICATION Spec
CONSTANTS
  None = None
  Runs <- OneRun
  Backfills <- NoBackfills
  MaxRetries = 1
  TableCount <- MCTables
  FirstDay = 2
  Horizon = 3
INVARIANT SuccessCoversWindow
