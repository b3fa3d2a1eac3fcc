CONSTANTS
  None = None
  json = json
  text = text
  alice = alice
  bob = bob
  red = red
  blue = blue
  chunk0 = chunk0
  Slots = {s1, s2, s3}
  ContentTypes = {json, text}
  Agents = {alice, bob}
  Customs = {red, blue}
  ChunkIndexes = {chunk0}
  Workload <- MixedWorkload
  MaxRequests = 4
  MaxFaults = 1
SPECIFICATION Spec
INVARIANTS TypeOK AckedStateOnDisk AckedMetadataKept EpochStampIsNotStale
PROPERTIES GetServesNoStaleContent PreconditionHoldsAtWrite AckedVersionsIncrease
SYMMETRY SlotSymmetry
