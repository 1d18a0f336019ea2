SPECIFICATION Spec
CONSTANTS
    own = own
    community = community
    v1 = v1
    v2 = v2
    d1 = d1
    d2 = d2
    r1 = r1
    r2 = r2
    Plugins <- OnePlugin
    FirstParty <- NoPlugins
    Versions <- MCVersions
    Digests <- MCDigests
    Requests <- MCRequests
    Catalogue <- MCDigests
    MaxVersionId = 3
    Backend = "file"
    NoDigest = NoDigest
    NoRow = NoRow
PROPERTIES
    OnlyImportListsDeleted
    
    CatalogImplemented
SYMMETRY AllAlike
CHECK_DEADLOCK FALSE
