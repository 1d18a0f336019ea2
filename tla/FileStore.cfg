SPECIFICATION FairSpec
CHECK_DEADLOCK FALSE
CONSTANTS
    bundled = bundled
    community = community
    v1 = v1
    v2 = v2
    Keys <- MCKeys
    Seeded = bundled
    Versions <- MCVersions
    SeededVersion = v1
    BodyIds <- MCBodyIds
    MaxId = 4
    MaxServed = 2
    MaxFaults = 3
    NoFile = NoFile
    NoVersion = NoVersion
    Missing = Missing
INVARIANTS
    NumbersFresh
    AckedIntact
PROPERTIES
    ServesAgain
