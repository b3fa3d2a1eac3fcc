CONSTANTS
  None = None
  alice = alice
  bob = bob
  red = red
  blue = blue
  e1 = e1
  e2 = e2
  e3 = e3
  r1 = r1
  r2 = r2
  v1 = v1
  v2 = v2
  Slots = {s1, s2}
  Items = {r1, r2}
  Values = {v1, v2}
  Names = {red, blue}
  Epochs = {e1, e2, e3}
  Agents = {alice, bob}
  Workload <- MixedWorkload
  MaxRequests = 4
  MaxFaults = 1
SPECIFICATION FairSpec
INVARIANTS TypeOK NeverIndexedAndEncrypted CheckedClaimsDiffer
PROPERTIES EpochsAppendOnly ConditionalPutLosesNothing CreatorAndVersionKept EveryRequestAnswered
