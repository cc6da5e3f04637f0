CONSTANTS
    NumItems = 1
    MaxAttempts = 2
    ArtifactIds = {}
    Digests = {}
    Policies = {p1, p2}
    Foreign = Foreign
    Runner = Runner
    Absent = Absent
    Partial = Partial
    MaxFaults = 1
    MaxTears = 1
    MaxSwaps = 0
    MaxDeploys = 1
SPECIFICATION FairSpec
INVARIANTS TypeOK PublishedUnderPinnedPolicy AttemptBudget
PROPERTIES LocalKeptUntilPublished ImplementsLifecycle SettlesUnlessWedged
