SPECIFICATION Spec
CONSTANTS
    g1 = g1
    g2 = g2
    NoGoal = NoGoal
    Goal <- TwoGoals
    Points <- Short
    ChunkSize = 1
    MaxInFlightGoals = 2
    MaxStops = 1
    MaxResets = 1
    MaxQueuedChunks = 2
    ChunkCapacity = 1
    FrameBufferSize = 2
    EmptyCount = 1
    ClosingFrames = 0
    DriveFaults = FALSE
    CallFaults = FALSE
    ExternalStops = FALSE
PROPERTIES CommandedStopIsNoFault
