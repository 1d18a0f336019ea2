SPECIFICATION Spec
CONSTANTS
    own = own
    community = community
    v1 = v1
    v2 = v2
    d1 = d1
    d2 = d2
    r1 = r1
    r2 = r2
    Plugins <- MCPlugins
    FirstParty <- MCFirstParty
    Versions <- MCVersions
    Digests <- MCDigests
    Requests <- MCRequests
    Catalogue <- OneDigest
    MaxVersionId = 2
    Backend = "postgres"
    NoDigest = NoDigest
    NoRow = NoRow
INVARIANTS
    ProvenanceCoversChecksum
PROPERTIES
    PurgeAudited
    WithdrawnFrozen
    ConfirmedVersionRemoved
    CatalogImplemented
SYMMETRY Symmetry
CHECK_DEADLOCK FALSE
