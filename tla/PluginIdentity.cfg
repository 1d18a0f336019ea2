SPECIFICATION Spec
CONSTANTS
    p1 = p1
    p2 = p2
    p3 = p3
    none = none
    norow = norow
    PluginIds <- MCPluginIds
    Names <- MCNames
    Refs <- MCRefs
    Lower <- MCLower
    NoPlugin <- none
    NoRow <- norow
INVARIANTS
    ClaimsExact
PROPERTIES
    RefNeverStolen
    DirectoryImplemented
SYMMETRY Symmetry
