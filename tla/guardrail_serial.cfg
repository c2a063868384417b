\* One run at a time on a new workspace, with operator backfills.
SPECIFICATION Spec
CONSTANTS
  None = None
  Attempts = {a1, a2, a3}
  Keys = {"k"}
  Rules <- MCRules
  SourceOrder <- MCSourceOrder
  ManualRequests <- Backfills
  DefaultWindow = 1
  InitialMark <- None
  MaxConcurrent = 1
  MaxLag = 0
  Horizon = 3
  MaxRows = 1
INVARIANTS TypeOK SuccessIsRecorded NoUncheckedGap EveryRowChecked ZeroCountsContinuous DqTwinsAgree
SYMMETRY AttemptSymmetry
PROPERTY FailureKeepsProgress
