CONSTANTS
  None = None
  Docs = {1, 2}
  Operations <- JsonOnly
  PageSize = 1
  MaxRequests = 3
  MaxTime = 2
  MaxFaults = 0
SPECIFICATION Spec
INVARIANT DeleteReplicates
