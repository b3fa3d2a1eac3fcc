CONSTANTS
  None = None
  Unread = Unread
  Capability <- MCCapability
  Document <- MCDocument
  OwnerOf <- MCOwnerOf
  Webvh = "webvh"
  MaxChain = 3
  Slots = {s1, s2}
  s1 = s1
  s2 = s2
  Scenarios <- MCScenarios
  Backends = {"filesystem", "postgres"}
  MaxTime = 1
  MaxFaults = 1
SYMMETRY Symmetric
SPECIFICATION Spec
INVARIANTS TypeOK CachesAreCurrent AuthorityWasInForce RevokedStaysRefused PolicyGrantWasEffective
PROPERTIES CreatorIsFixed
CHECK_DEADLOCK FALSE
