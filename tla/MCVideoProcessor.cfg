CONSTANTS
    Policy <- MCPolicy
    Float <- MCFloat
    LastPattern = 287
    One = 64
    Camera <- MCCamera
    Idle <- MCIdle
    FramePeriod = 4
    HandPeriod = 5
    TicksPerSecond = 20
    RepetitionSamples = 3
    Missing = Missing
    Pictures <- MCPictures
    FrameLimit = 5
    ChunkFrames = 2
    TileFallback = TRUE
    Width = 20
    Height = 12
    TileWidth = 12
    TileHeight = 7
    EvidenceSpeed = 10
    Stride = 2
    JobRules <- MCJobRules
    NoImage = NoImage
    Nothing = Nothing
SPECIFICATION Spec
INVARIANTS SeriesExact RunsExact EvidenceExact FailureShown RoutesAgree ReasonsExplain
CHECK_DEADLOCK FALSE
