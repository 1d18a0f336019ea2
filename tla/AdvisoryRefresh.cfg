SPECIFICATION AdvisorySpec
CONSTANTS
  a1 = a1
  a2 = a2
  r1 = r1
  r2 = r2
  Advisories <- TwoAdvisories
  Refreshes <- TwoRefreshes
  Faults <- AllFaults
SYMMETRY Symmetry
INVARIANT NoAdvisoryMissed
