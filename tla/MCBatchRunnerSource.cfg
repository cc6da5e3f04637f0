CONSTANTS
    NumItems = 1
    MaxAttempts = 2
    ArtifactIds = {a1}
    Digests = {d1, d2}
    Policies = {p1}
    Foreign = Foreign
    Runner = Runner
    Absent = Absent
    Partial = Partial
    MaxFaults = 1
    MaxTears = 0
    MaxSwaps = 2
    MaxDeploys = 0
SPECIFICATION Spec
INVARIANTS FreedIsPublished EvidenceResolves PublishedFromDeclaredSource
