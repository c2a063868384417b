\* Two runs overlap, as max_concurrent_runs: 2 allows, on a pipeline that has already run.
SPECIFICATION Spec
CONSTANTS
  None = None
  Attempts = {a1, a2, a3}
  Keys = {"k"}
  Rules <- MCRules
  SourceOrder <- MCSourceOrder
  ManualRequests <- NoRequests
  DefaultWindow = 1
  InitialMark <- MCMark
  MaxConcurrent = 2
  MaxLag = 0
  Horizon = 3
  MaxRows = 1
INVARIANTS SuccessIsRecorded NoUncheckedGap EveryRowChecked
SYMMETRY AttemptSymmetry

