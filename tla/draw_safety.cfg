SPECIFICATION Spec
CONSTANTS
    ServiceFaults = TRUE
    MaxWork = 1
    LiveQueueLimit = 1
    GuardTrips = TRUE
    SoftFaults = TRUE
    MaxPresses = 2
    MaxEvents = 2
INVARIANTS TypeOK AtMostOneLatePose ServoRestsWhileDrawing StoppedLiveHolds ChainOnlyInLive
PROPERTIES ResetFindsNoChain
