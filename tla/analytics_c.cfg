\* Two executions of C over a Silver that merges, corrects and reports at any time.
SPECIFICATION Spec
CONSTANTS
  None = None
  TicksPerDay = 2
  Attempts = {a1, a2}
  Requests <- MCRequests
  Events <- MCEvents
  Items <- MCItems
  Products <- MCProducts
  OldEvents <- MCOldEvents
  OldItems <- MCOldItems
  MaxPartitions = 2
  FirstDay = 2
  Horizon = 3
INVARIANTS TypeOK PartitionOfOneRun PartitionConverges FactBehindSilver TwinsAgree
PROPERTIES OtherDaysUntouched ProgressSpec
SYMMETRY AttemptSymmetry
