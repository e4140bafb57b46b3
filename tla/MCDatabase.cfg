SPECIFICATION StorageSpec
CONSTANTS
    p1 = p1
    p2 = p2
    c0 = c0
    c1 = c1
    b1 = b1
    None = None
    Processes <- TwoProcesses
    Contents <- TwoContents
    Fresh = c0
    Backups <- OneBackup
    MaxTransactions = 2
    MaxRestores = 2
    Clients <- TwoProcesses
    n1 = n1
    n2 = n2
    u1 = u1
    k1 = k1
    k2 = k2
    i1 = i1
    i2 = i2
    g1 = g1
    g2 = g2
    s1 = s1
    w1 = w1
    Nothing = Nothing
    Names <- TwoNames
    Urls <- OneUrl
    Branches <- OneBranch
    Commits <- TwoCommits
    FirstCommit = k1
    Images <- TwoImages
    Digests <- TwoDigests
    FirstDigest = g1
    SystemNames <- OneSystem
    Documents <- ThreeDocuments
    CiRequests <- SomeRequests
    MaxPushes = 1
    MaxRequests = 3
INVARIANTS
    DbTypeOK
    ConnectionsAreCurrent
    JournalBelongs
    RestoredIsSource
    DeliveryTypeOK
    CatalogueIsWhole
    ReleasesArePermitted
    DeliveredIsCurrent
PROPERTIES
    ImplementsDurableRows
    LocksAreReleased
