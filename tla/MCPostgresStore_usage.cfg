CONSTANTS
  None = None
  alice = alice
  bob = bob
  red = red
  Slots = {s1, s2}
  Agents = {alice, bob}
  Customs = {red}
  Sizes = {0, 1, 2}
  Capacity = None
  OtherBytes = 1
  SiblingBytes = 1
  Workload <- ImportWorkload
  MaxRequests = 2
SPECIFICATION FairSpec
INVARIANTS UsageIsExact
