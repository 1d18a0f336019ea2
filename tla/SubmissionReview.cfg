SPECIFICATION Spec
CONSTANTS
    p1 = p1
    p2 = p2
    alice = alice
    bob = bob
    t1 = t1
    t2 = t2
    r1 = r1
    r2 = r2
    PluginIds <- TwoPlugins
    Logins <- TwoLogins
    Texts <- OneText
    Requests <- MCRequests
    MaxMails = 1
    MaxAudits = 1
    Nobody = Nobody
    NoRow = NoRow
INVARIANTS
    MailImpliesDecision
PROPERTIES
    StatusDecidedByReview
    DeletedRecordFrozen
    AccountAuditComplete
SYMMETRY Symmetry
