SPECIFICATION FairSpec
CONSTANTS
    g1 = g1
    g2 = g2
    NoGoal = NoGoal
    Goal <- OneGoal
    Points <- LongFirst
    ChunkSize = 1
    MaxInFlightGoals = 1
    MaxStops = 1
    MaxResets = 1
    MaxQueuedChunks = 2
    ChunkCapacity = 1
    FrameBufferSize = 2
    EmptyCount = 1
    ClosingFrames = 0
    DriveFaults = TRUE
    CallFaults = FALSE
    ExternalStops = FALSE
PROPERTIES EveryGoalEnds ReleasedStopRecovers
