SPECIFICATION Spec
CONSTANTS
    Extent <- MCExtent  WorkingCentre <- MCCentre  WorkingRadius = 16
    ReachInner = 50  ReachOuter = 120
    AnchorXYZ <- MCAnchor
    DrawZ <- MCDrawZ  SafeZ = 1  RetractZ = 2  MinRun = 2
    Scales = {1, 4}
    GoalLength = 24  SpeedLimit = 100  CornerLimit = 40  Acceleration = 1
    Drawings <- MCDrawings  Offsets <- MCOffsets  Yaws <- MCYaws
    Bundled <- MCBundled  SaveName = "a"
    Senders = {"streamed", "rest", "monolithic"}
    MaxCommands = 4
INVARIANTS
    PreviewIsWhatRuns SavedDrawingFollowsBoard
    PenStaysInWorkingArea SentFollowsPath SeamSpeedIsFeasible ProfileIsFastest
CHECK_DEADLOCK FALSE
