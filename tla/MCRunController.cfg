CONSTANTS
    a = a
    b = b
    c = c
    None = None
    Manifest <- MCManifest
    Size <- MCSize
    MaxStaging = 2
    DownloadWorkers = 2
    Lanes = {l1, l2}
    MaxAttempts = 2
    MaxCrashes = 1
    MaxFailures = 1
    MaxSwaps = 1
SPECIFICATION FairSpec
INVARIANTS
    TypeOK
    StagedIsDeclared
    StagingBounded
    ReleasedIsPublished
    LanesOwnDetectors
PROPERTIES
    ItemsEnd
