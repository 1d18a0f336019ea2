SPECIFICATION LimiterSpec
CONSTANTS
  c1 = c1
  c2 = c2
  c3 = c3
  q1 = q1
  q2 = q2
  b1 = b1
  b2 = b2
  b3 = b3
  b4 = b4
  NoBucket = NoBucket
  Addresses <- ThreeAddresses
  Callers <- TwoCallers
  Buckets <- FourBuckets
  Rate = 2
  IdleFor = 3
  MaxBuckets = 2
SYMMETRY Symmetry
INVARIANT TableBounded
INVARIANT WithinBudget
