CONSTANTS
  None = None
  Docs = {1, 2}
  Operations <- Everything
  PageSize = 1
  MaxRequests = 3
  MaxTime = 2
  MaxFaults = 1
SPECIFICATION FairSpec
INVARIANTS TypeOK LostOnlyToLateLanding DeliveredContentIsCurrent
PROPERTIES ReplicaVersionsIncrease FeedDrains
