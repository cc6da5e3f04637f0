CONSTANTS
    Callers = {v1, v2}
    MaxBatch = 2
    MaxFrames = 3
    MaxCalls = 2
    None = None
    Pending = Pending
    Raised = Raised
SPECIFICATION FairSpec
INVARIANTS BatchFits WaitingIsServed StatsLagOneBatch
PROPERTIES ImplementsDetector CallsAndThreadEnd
