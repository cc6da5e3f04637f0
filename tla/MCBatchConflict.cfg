CONSTANTS
    NumItems = 1
    MaxAttempts = 2
    ArtifactIds = {a1}
    Digests = {d1}
    Policies = {p1}
    Foreign = Foreign
    Runner = Runner
    Absent = Absent
    Partial = Partial
    MaxFaults = 0
    MaxTears = 0
    MaxSwaps = 0
    MaxDeploys = 0
SPECIFICATION Spec
INVARIANTS ConflictIsForeign
