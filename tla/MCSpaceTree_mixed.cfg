CONSTANTS
  None = None
  Contents <- MCContents
  Indexes <- MCIndexes
  Locale <- MCLocale
  Spaces <- MCSpaces
  Here <- MCHere
  DefaultPageSize = 1
  MaxPageSize = 3
  Slots = {s1, s2, s3}
  s1 = s1
  s2 = s2
  s3 = s3
  Scenarios <- MCScenarios
  Backends = {"filesystem", "postgres"}
  MaxId = 3
  MaxFaults = 1
SYMMETRY Symmetric
SPECIFICATION Spec
INVARIANTS TypeOK ReadsAreExact RestoreIsFaithful
PROPERTIES ReplacesOnlyWhatItSaw
CHECK_DEADLOCK FALSE
