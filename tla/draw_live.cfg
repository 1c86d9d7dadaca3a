SPECIFICATION FairSpec
CONSTANTS
    ServiceFaults = TRUE
    MaxWork = 1
    LiveQueueLimit = 0
    GuardTrips = TRUE
    SoftFaults = TRUE
    MaxPresses = 3
    MaxEvents = 2
PROPERTIES ExecutionEnds StrokesDrain
