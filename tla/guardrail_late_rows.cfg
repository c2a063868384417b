\* Rows ingested up to one tick after they were created.
SPECIFICATION Spec
CONSTANTS
  None = None
  Attempts = {a1, a2, a3}
  Keys = {"k"}
  Rules <- MCRules
  SourceOrder <- MCSourceOrder
  ManualRequests <- NoRequests
  DefaultWindow = 1
  InitialMark <- MCMark
  MaxConcurrent = 2
  MaxLag = 1
  Horizon = 3
  MaxRows = 1
INVARIANTS EveryRowChecked
SYMMETRY AttemptSymmetry

