SPECIFICATION Spec
CONSTANTS
    p1 = p1  p2 = p2  p3 = p3  r1 = r1  r2 = r2
    Points = {p1, p2, p3}
    Recipes = {r1, r2}
    MaxSamples = 4
    MaxSteps = 12
    MaxDrops = 1
SYMMETRY Symmetry
INVARIANTS
    PayloadIsTheDrawing CaptureIsOnePress NoControlForgotten
    ControlsArriveInOrder ExecuteRunsWhatIsShown LossStopsExecution
CHECK_DEADLOCK FALSE
