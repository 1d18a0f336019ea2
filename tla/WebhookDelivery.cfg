SPECIFICATION FairSpec
CONSTANTS
    s1 = s1
    s2 = s2
    o1 = o1
    short = short
    full = full
    Subs <- MCSubs
    Owners <- MCOwners
    Refs <- MCRefs
    Canonical = full
    Dead <- MCDead
    MaxFailures = 2
    PerOwner = 1
    MaxEvents = 2
    MaxFlights = 3
    MaxCreating = 2
    MaxRestarts = 1
    Never = Never
    Gone = Gone
INVARIANTS
    ActiveBelowLimit
    OvershootBounded
PROPERTIES
    FileKeepsDisabled
    DeadEndpointRetired
