SPECIFICATION FairSpec
CONSTANTS
    IntakeLimit = 4
    GoalPoints = 3
    MaxPoints = 9
    CloseMargin = 4
    PlanTicks = 2
    MaxInflight = 2
    PlanFaults = TRUE
    ParamFaults = {"stroke"}
    MaxStops = 1
INVARIANTS TypeOK StarvesOnlyBehindShortGoal SeamsMatchFinalize NoMoveLeftOpen PenFollowsPolyline
PROPERTIES HandbackDrains
