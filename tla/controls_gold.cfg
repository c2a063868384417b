\* Work tasks of Pipeline B, side by side and again, over feeds, corrections and new rules.
SPECIFICATION Spec
CONSTANTS
  None = None
  TicksPerDay = 2
  Attempts = {a1, a2}
  Requests <- MCRequests
  Feeds <- MCFeeds
  Seeds <- MCSeeds
  AllowedEntryTypes <- MCEntryTypes
  AllowedStatuses <- MCStatuses
  StatusOrder <- MCStatusOrder
INVARIANTS TypeOK OneRowPerKey GoldConverges DriftsRecorded MismatchesRecorded RulesLoadable
INVARIANTS SilverTwinsAgree BalanceTwinsAgree OpsTwinsAgree
PROPERTY GoldTouchesOnlyWindow
SYMMETRY AttemptSymmetry
