SPECIFICATION OrderSpec
CONSTANTS
  Malformed = Malformed
  Numbers <- SomeNumbers
  Identifiers <- SomeIdentifiers
  Prereleases <- SomePrereleases
  Ranges <- SomeRanges
  Cores <- SomeCores
  Dates <- SomeDates
  MaxVersions = 3
INVARIANT PrecedenceFollowsSemver
INVARIANT RangesMean
INVARIANT LatestAgrees
CHECK_DEADLOCK FALSE
