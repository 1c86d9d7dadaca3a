---------------------------- MODULE StrokeIntake ----------------------------
(***************************************************************************)
(* The locked intake between the pen and the stroke thread: one polyline,  *)
(* with travel, plunge and lift put in where strokes begin and end. A      *)
(* waypoint is its place in that polyline and its height; one waypoint is  *)
(* one tick of motion.                                                     *)
(***************************************************************************)
EXTENDS Naturals, Sequences

CONSTANTS
    IntakeLimit,    \* stroke samples beyond it are dropped
    GoalPoints,     \* goal_seconds, in ticks
    MaxPoints       \* bound on the waypoints ever appended

ASSUME IntakeAssumption ==
    /\ IntakeLimit \in Nat \ {0} /\ GoalPoints \in Nat \ {0} /\ MaxPoints \in Nat

VARIABLES
    points,         \* _points
    appended,       \* waypoints appended so far: the newest one's place
    tailDown,       \* _tail exists and is at draw depth
    strokeOpen

intakeVars == <<points, appended, tailDown, strokeOpen>>

Waypoint == [place : Nat, down : BOOLEAN]

IntakeInit == points = <<>> /\ appended = 0 /\ tailDown = FALSE /\ strokeOpen = FALSE

IntakeTypeOK ==
    /\ points \in Seq(Waypoint)
    /\ appended \in Nat
    /\ tailDown \in BOOLEAN /\ strokeOpen \in BOOLEAN

\* Waypoints at the heights given, at the end of the polyline.
AppendPoints(downs) ==
    /\ appended + Len(downs) <= MaxPoints
    /\ appended' = appended + Len(downs)
    /\ points' = points \o [i \in 1 .. Len(downs) |->
                               [place |-> appended + i, down |-> downs[i]]]
    /\ tailDown' = downs[Len(downs)]

\* Mutant of BeginStroke: no travel before the plunge.
BeginStrokePlunging == AppendPoints(<<TRUE>>) /\ strokeOpen' = TRUE

\* begin_stroke: travel at the safe height, then plunge; never dropped.
BeginStroke ==
    /\ AppendPoints(<<FALSE, TRUE>>)
    /\ strokeOpen' = TRUE

\* add_point with a stroke open: near the tail or beyond the limit it is lost.
AddPoint ==
    /\ strokeOpen
    /\ UNCHANGED strokeOpen
    /\ \/ Len(points) < IntakeLimit /\ AppendPoints(<<TRUE>>)
       \/ UNCHANGED <<points, appended, tailDown>>

\* end_stroke: lift where the stroke ended, unless there is no tail.
EndStroke ==
    /\ strokeOpen' = FALSE
    /\ IF strokeOpen /\ tailDown
       THEN AppendPoints(<<FALSE>>)
       ELSE UNCHANGED <<points, appended, tailDown>>

ClearIntake ==
    /\ points' = <<>> /\ tailDown' = FALSE /\ strokeOpen' = FALSE
    /\ UNCHANGED appended

\* take_window: a goal's worth of waypoints, or with flush what there is.
WindowLength(flush) ==
    IF Len(points) >= GoalPoints THEN GoalPoints
    ELSE IF flush THEN Len(points) ELSE 0

CutWindow(flush) == SubSeq(points, 1, WindowLength(flush))

TakeWindow(flush) ==
    /\ points' = SubSeq(points, WindowLength(flush) + 1, Len(points))
    /\ UNCHANGED <<appended, tailDown, strokeOpen>>
=============================================================================
