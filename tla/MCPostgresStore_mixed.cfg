CONSTANTS
  None = None
  alice = alice
  bob = bob
  red = red
  Slots = {s1, s2}
  Agents = {alice, bob}
  Customs = {red}
  Sizes = {0, 1, 2}
  Capacity = 4
  OtherBytes = 1
  SiblingBytes = 1
  Workload <- MixedWorkload
  MaxRequests = 3
SPECIFICATION FairSpec
INVARIANTS TypeOK UsageExactUnlessStale CapacityIsHard NoOrphanChunk OnlyBulkDeadlocks
PROPERTIES PreconditionHoldsAtCommit AnsweredVersionLanded ImplementsContract EveryRequestAnswered
