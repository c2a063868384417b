\* One transaction with entries in two wallets: the second run of supply_ops is refused.
SPECIFICATION Spec
CONSTANTS
  None = None
  TicksPerDay = 2
  Attempts = {a1, a2}
  Requests <- MCSharedRequests
  Feeds <- MCSharedFeeds
  Seeds <- MCSharedSeeds
  AllowedEntryTypes <- MCEntryTypes
  AllowedStatuses <- MCStatuses
  StatusOrder <- MCStatusOrder
INVARIANT RerunAccepted
