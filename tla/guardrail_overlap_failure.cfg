\* Two runs overlap: the failure report of one undoes the success of the other.
SPECIFICATION Spec
CONSTANTS
  None = None
  Attempts = {a1, a2, a3}
  Keys = {"k"}
  Rules <- MCRules
  SourceOrder <- MCSourceOrder
  ManualRequests <- NoRequests
  DefaultWindow = 1
  InitialMark <- MCMark
  MaxConcurrent = 2
  MaxLag = 0
  Horizon = 3
  MaxRows = 1
PROPERTY FailureKeepsProgress
SYMMETRY AttemptSymmetry

