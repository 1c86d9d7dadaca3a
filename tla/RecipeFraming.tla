---------------------------- MODULE RecipeFraming ----------------------------
(***************************************************************************)
(* Recipes: how a drawing becomes one, how the sender turns one into world *)
(* waypoints, and how the bridge loads one from a file. A recipe carries   *)
(* the anchor and the rotation of the board it was framed for, its own     *)
(* rotation and scale, and its segments.                                   *)
(***************************************************************************)
EXTENDS PlaneGeometry

CONSTANT Scales         \* the scales an operator may ask for

Lin(p, z) == [type |-> "lin", points |-> <<p>>, z |-> z]
Through(run) == [type |-> "through", points |-> run, z |-> DrawZ]

\* A drawing's run: approach, plunge, draw, lift.
FrameRun(run) ==
    <<Lin(run[1], SafeZ), Lin(run[1], DrawZ)>>
    \o (IF Len(run) >= 3 THEN <<Through(run)>>
        ELSE [i \in 1 .. Len(run) - 1 |-> Lin(run[i + 1], DrawZ)])
    \o <<Lin(Last(run), SafeZ)>>

ToRecipeStructure(runs, plane) ==
    LET framed == FlattenSeq([i \in 1 .. Len(runs) |-> FrameRun(runs[i])]) IN
    [segments |-> IF framed = <<>> THEN framed
                  ELSE Append(framed, Lin(Last(framed).points[1], RetractZ)),
     anchor |-> EffectiveAnchor(plane), plane_rotate |-> plane.yaw,
     rotate |-> 0, scale |-> 1]

-------------------------------------------------------------------------------
(* The sender's geometry.                                                  *)

\* The knots of the centripetal curve lie the root of the distance apart, here
\* in quarters, rounded down.
KnotSpacing(p, q) ==
    LET apart == Max({p[1] - q[1], q[1] - p[1]}) + Max({p[2] - q[2], q[2] - p[2]})
    IN  1 + Cardinality({r \in 2 .. apart + 4 : Square(Square(r)) <= 256 * SquaredDistance(p, q)})

\* How far, in sixteenths, the neighbour o of p bends the span from p to q away
\* from its chord half-way. A coincident neighbour is the limit.
Bend(o, p, q) ==
    LET u == KnotSpacing(o, p)
        v == KnotSpacing(p, q)
    IN  [c \in 1..2 |->
            IF o = p THEN 4 * (p[c] - q[c])
            ELSE (4 * v * (v * (p[c] - o[c]) + u * (p[c] - q[c]))) \div (u * (u + v))]

\* The centripetal Catmull-Rom curve half-way from point i to the next, rounded
\* to the grid; the end points are doubled. A run is sampled twice per span.
HalfWay(points, i) ==
    LET p == points[i]
        q == points[i + 1]
        before == IF i = 1 THEN p ELSE points[i - 1]
        after == IF i + 1 = Len(points) THEN q ELSE points[i + 2]
        bent == <<Bend(before, p, q), Bend(after, q, p)>>
    IN  IF p = q THEN p
        ELSE [c \in 1..2 |-> (16 * (p[c] + q[c]) + bent[1][c] + bent[2][c] + 16) \div 32]

CatmullRom(points) ==
    [s \in 1 .. 2 * Len(points) - 1 |->
        IF s % 2 = 1 THEN points[(s + 1) \div 2] ELSE HalfWay(points, s \div 2)]

SegmentLocalPoints(segment) ==
    LET curve == IF segment.type = "lin" THEN segment.points ELSE CatmullRom(segment.points)
    IN  [i \in 1 .. Len(curve) |-> [xy |-> curve[i], z |-> segment.z]]

LocalPoints(recipe) ==
    FlattenSeq([i \in 1 .. Len(recipe.segments) |-> SegmentLocalPoints(recipe.segments[i])])

Scaled(p, scale) == <<p[1] * scale, p[2] * scale>>

\* Scale, turn by the artwork's rotation and the board's, move to the anchor.
BuildWaypoints(recipe) ==
    LET local == LocalPoints(recipe)
        turns == recipe.rotate + recipe.plane_rotate
    IN  [i \in 1 .. Len(local) |->
            LET xy == RotateInPlane(Scaled(local[i].xy, recipe.scale), turns)
            IN  <<recipe.anchor[1] + xy[1], recipe.anchor[2] + xy[2],
                  recipe.anchor[3] + local[i].z>>]

-------------------------------------------------------------------------------
(* The recipe loader.                                                      *)

\* Mutant of UnitPoints: the artwork's rotation is forgotten.
UnitPointsUnturned(recipe) == LocalPoints(recipe)

\* _sample: the local points at scale 1, the artwork's rotation applied.
UnitPoints(recipe) ==
    LET local == LocalPoints(recipe)
    IN  [i \in 1 .. Len(local) |->
            [local[i] EXCEPT !.xy = RotateInPlane(@, recipe.rotate)]]

PenIsDown(point) == point.z < SafeZ
PenDownPoints(recipe, scale) ==
    LET Drawn(points, p) == IF PenIsDown(p) THEN Append(points, Scaled(p.xy, scale)) ELSE points
    IN  FoldLeft(Drawn, <<>>, UnitPoints(recipe))

InExtent(p) == ClampToExtent(p) = p

\* The largest scale that keeps the pen inside the extent and the working area.
FittingScales(recipe) ==
    {s \in Scales : \A p \in Range(PenDownPoints(recipe, s)) : InExtent(p) /\ InWorkingArea(p)}

\* What a load asks for: a scale, or one of these.
Fit == -1
Authored == 0

\* The scale a load ends up with; none when it fails. Points at the origin do
\* not limit the scale.
EffectiveScale(recipe, asked) ==
    CASE asked = Fit /\ Range(PenDownPoints(recipe, 1)) \subseteq {<<0, 0>>} -> {1}
      [] asked = Fit /\ ~(Range(PenDownPoints(recipe, 1)) \subseteq {<<0, 0>>}) ->
            IF FittingScales(recipe) = {} THEN {} ELSE {Max(FittingScales(recipe))}
      [] asked = Authored -> {recipe.scale}
      [] OTHER -> {asked}

\* Mutant of Loaded: a recipe is taken as it is.
LoadedUnchecked(recipe, plane, asked) ==
    {[recipe EXCEPT !.anchor = EffectiveAnchor(plane), !.plane_rotate = plane.yaw, !.scale = s] :
        s \in EffectiveScale(recipe, asked)}

\* Mutant of Loaded: the board's rotation is added to the file's.
LoadedComposed(recipe, plane, asked) ==
    {[recipe EXCEPT !.anchor = EffectiveAnchor(plane), !.plane_rotate = @ + plane.yaw, !.scale = s] :
        s \in {scale \in EffectiveScale(recipe, asked) :
                  /\ recipe.segments # <<>>
                  /\ \A p \in Range(PenDownPoints(recipe, scale)) : InWorkingArea(p)}}

\* Only the working area refuses. Anchor and board rotation are replaced.
Loaded(recipe, plane, asked) ==
    {[recipe EXCEPT !.anchor = EffectiveAnchor(plane), !.plane_rotate = plane.yaw, !.scale = s] :
        s \in {scale \in EffectiveScale(recipe, asked) :
                  /\ recipe.segments # <<>>
                  /\ \A p \in Range(PenDownPoints(recipe, scale)) : InWorkingArea(p)}}
===============================================================================
