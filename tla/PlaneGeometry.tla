---------------------------- MODULE PlaneGeometry ----------------------------
(***************************************************************************)
(* The drawing plane: points <<x, y>> on a grid of whole numbers, a        *)
(* rectangular extent, a working-area disc, and the calibration that says  *)
(* where the board sits. Angles are quarter turns, so that they are exact. *)
(***************************************************************************)
EXTENDS Integers, Sequences, FiniteSets, FiniteSetsExt, SequencesExt

CONSTANTS
    Extent,             \* <<lower left, upper right>>
    WorkingCentre, WorkingRadius,
    ReachInner, ReachOuter,     \* the arm's reach, a band of the planning frame
    AnchorXYZ,          \* the configured anchor
    DrawZ, SafeZ, RetractZ,
    MinRun              \* min_run

Square(n) == n * n
SquaredDistance(p, q) == Square(p[1] - q[1]) + Square(p[2] - q[2])

Cosine(turns) == <<1, 0, -1, 0>>[(turns % 4) + 1]
Sine(turns) == <<0, 1, 0, -1>>[(turns % 4) + 1]

RotateInPlane(p, turns) ==
    <<p[1] * Cosine(turns) - p[2] * Sine(turns),
      p[1] * Sine(turns) + p[2] * Cosine(turns)>>

ClampToExtent(p) ==
    [i \in 1..2 |-> Min({Max({p[i], Extent[1][i]}), Extent[2][i]})]

InWorkingArea(p) == SquaredDistance(p, WorkingCentre) <= Square(WorkingRadius)

\* The maximal stretches of points on one side of the working area's edge: a
\* point continues the last one or starts the next.
Stretches(stroke) ==
    LET Placed(stretches, p) ==
            IF stretches # <<>> /\ InWorkingArea(Last(stretches)[1]) = InWorkingArea(p)
            THEN Append(Front(stretches), Append(Last(stretches), p))
            ELSE Append(stretches, <<p>>)
    IN  FoldLeft(Placed, <<>>, stroke)

\* split_at_working_area, its in-area runs: a fragment is not worth a pen touch.
InAreaRuns(stroke) ==
    LET Kept(runs, run) ==
            IF InWorkingArea(run[1]) /\ Len(run) >= MinRun THEN Append(runs, run) ELSE runs
    IN  FoldLeft(Kept, <<>>, Stretches(stroke))

ExtentFitsWorkingArea ==
    \A x \in {Extent[1][1], Extent[2][1]}, y \in {Extent[1][2], Extent[2][2]} :
        InWorkingArea(<<x, y>>)

\* distance - radius >= inner and distance + radius <= outer, squared.
DiscFitsReachBand(centre) ==
    LET squared == SquaredDistance(centre, <<0, 0>>) IN
    /\ squared >= Square(ReachInner + WorkingRadius)
    /\ WorkingRadius <= ReachOuter
    /\ squared <= Square(ReachOuter - WorkingRadius)

\* A calibration: the board's offset in the planning frame, and its rotation.
Calibration(offset, yaw) == [offset |-> offset, yaw |-> yaw]
Uncalibrated == Calibration(<<0, 0>>, 0)

EffectiveAnchor(plane) ==
    <<AnchorXYZ[1] + plane.offset[1], AnchorXYZ[2] + plane.offset[2], AnchorXYZ[3]>>

\* reach_refusal: the disc travels with the board, and turns about its origin.
WithinReach(plane) ==
    LET anchor == EffectiveAnchor(plane)
        turned == RotateInPlane(WorkingCentre, plane.yaw)
    IN  DiscFitsReachBand(<<anchor[1] + turned[1], anchor[2] + turned[2]>>)

\* plane_to_world: where the live route puts a point of the plane.
PlaneToWorld(plane, p, z) ==
    LET turned == RotateInPlane(p, plane.yaw)
        anchor == EffectiveAnchor(plane)
    IN  <<anchor[1] + turned[1], anchor[2] + turned[2], anchor[3] + z>>

CheckStartup ==
    /\ ExtentFitsWorkingArea
    /\ DrawZ < SafeZ /\ SafeZ < RetractZ
    /\ WithinReach(Uncalibrated)
===============================================================================
