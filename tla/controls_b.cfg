\* Two runs of the job over three days, scheduled or for a range of days.
SPECIFICATION Spec
CONSTANTS
  None = None
  Runs <- MCRuns
  Backfills <- MCBackfills
  MaxRetries = 1
  TableCount <- MCTables
  FirstDay = 2
  Horizon = 3
INVARIANTS TypeOK SuccessAfterBoth OneOutcomePerRun GoldBehindSilver
PROPERTIES ProgressSpec EveryRunEnds
