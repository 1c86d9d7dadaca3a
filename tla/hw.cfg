SPECIFICATION FairSpec
CONSTANTS
    MaxQueuedChunks = 2
    ChunkCapacity = 1
    FrameBufferSize = 2
    EmptyCount = 1
    ClosingFrames = 0
    DriveFaults = TRUE
    CallFaults = TRUE
    ExternalStops = TRUE
    MaxCommands = 4
    Requests <- MCRequests
INVARIANTS ThresholdsAscend
PROPERTIES StreamsMotion DeferredResetRecovers
