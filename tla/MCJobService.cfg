CONSTANTS
    Jobs = {j1, j2}
    MaxVideos = 2
    Workers = 2
    MaxRestarts = 1
    NoJob = NoJob
SPECIFICATION FairSpec
INVARIANTS TypeOK CompleteMeansReported OneVideoAtATime
PROPERTIES SourcesKeptUntilReported ImplementsJobs JobsEnd
CHECK_DEADLOCK FALSE
