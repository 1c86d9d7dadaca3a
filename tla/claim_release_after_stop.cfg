SPECIFICATION Spec
CONSTANTS
    g1 = g1
    g2 = g2
    NoGoal = NoGoal
    Goal <- OneGoal
    Points <- Short
    ChunkSize = 1
    MaxInFlightGoals = 1
    MaxStops = 1
    MaxResets = 2
    MaxQueuedChunks = 2
    ChunkCapacity = 1
    FrameBufferSize = 2
    EmptyCount = 1
    ClosingFrames = 0
    DriveFaults = FALSE
    CallFaults = TRUE
    ExternalStops = FALSE
INVARIANT ReleaseFollowsStop
