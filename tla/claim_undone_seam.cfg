SPECIFICATION Spec
CONSTANTS
    p1 = p1  p2 = p2  p3 = p3  
    Points = {p1, p2, p3}
    Recipes = {}
    MaxSamples = 4
    MaxSteps = 18
    MaxDrops = 0
SYMMETRY Symmetry
INVARIANT ChainedStrokesShareTheirSeam
CHECK_DEADLOCK FALSE
