----------------------------- MODULE GoalWindows -----------------------------
(***************************************************************************)
(* The streamed sender's pure part: where a path is cut into goals, and    *)
(* the speed profile of each goal, computed over a window that reaches     *)
(* into the next one. Speeds are kept squared, which makes the two passes  *)
(* exact on whole numbers; lengths are whole numbers as well.              *)
(***************************************************************************)
EXTENDS Integers, Sequences, FiniteSets, FiniteSetsExt, SequencesExt

CONSTANTS
    GoalLength,         \* goal_seconds, as a length at the estimated speed
    SpeedLimit,         \* the squared velocity limit
    CornerLimit,        \* the squared speed allowed through a corner
    Acceleration

ASSUME WindowsAssumption ==
    GoalLength \in Nat \ {0} /\ {SpeedLimit, CornerLimit, Acceleration} \subseteq Nat \ {0}

Intervals(path) == 1 .. Len(path) - 1
Step(path, i) == [c \in 1..3 |-> path[i + 1][c] - path[i][c]]
Magnitude(n) == IF n < 0 THEN -n ELSE n
Length(path, i) == MapThenSumSet(LAMBDA c : Magnitude(Step(path, i)[c]), 1..3)
Distance(path, i, j) == MapThenSumSet(LAMBDA k : Length(path, k), i .. j - 1)

\* The sign of every component stands for the unit vector.
Direction(path, i) ==
    [c \in 1..3 |-> IF Step(path, i)[c] > 0 THEN 1 ELSE IF Step(path, i)[c] < 0 THEN -1 ELSE 0]
Moves(path, i) == i \in Intervals(path) /\ Length(path, i) > 0

-------------------------------------------------------------------------------
(* Cutting the path.                                                       *)

\* Of the segment starts, the first of those nearest to i / count of the way.
NearestStart(path, starts, i, count) ==
    LET total == Distance(path, 1, Len(path))
        Gap(s) == Magnitude(Distance(path, 1, s) * count - total * i)
        nearest == {s \in starts : \A t \in starts : Gap(s) <= Gap(t)}
    IN  [at |-> Min(nearest), near |-> 2 * Gap(Min(nearest)) <= GoalLength * count]

\* The waypoint goal i ends at: a segment start within half a goal, or else
\* the first waypoint at or past the target.
CutFor(path, starts, i, count) ==
    LET total == Distance(path, 1, Len(path))
        snap == NearestStart(path, starts, i, count)
    IN  IF snap.near THEN snap.at
        ELSE Min({p \in 1 .. Len(path) : Distance(path, 1, p) * count >= total * i})

\* Interior and strictly increasing; a cut that is not is dropped.
SplitCuts(path, starts) ==
    LET total == Distance(path, 1, Len(path))
        count == (total + GoalLength - 1) \div GoalLength
        Keep(cuts, i) ==
            LET cut == CutFor(path, starts, i, count) IN
            IF 1 < cut /\ cut < Len(path) /\ (cuts = <<>> \/ cut > Last(cuts))
            THEN Append(cuts, cut) ELSE cuts
    IN  FoldLeft(Keep, <<>>, [i \in 1 .. count - 1 |-> i])

\* Mutant of SliceGoals: the waypoint at a cut ends one goal only.
SliceApart(path, cuts) ==
    LET bounds == <<0>> \o cuts \o <<Len(path)>>
    IN  [k \in 1 .. Len(bounds) - 1 |-> SubSeq(path, bounds[k] + 1, bounds[k + 1])]

\* The waypoint at a cut ends one goal and starts the next.
SliceGoals(path, cuts) ==
    LET bounds == <<1>> \o cuts \o <<Len(path)>>
    IN  [k \in 1 .. Len(bounds) - 1 |-> SubSeq(path, bounds[k], bounds[k + 1])]

-------------------------------------------------------------------------------
(* Timing a goal.                                                          *)

SpeedCap(path, p) ==
    LET corner == Moves(path, p - 1) /\ Moves(path, p)
                  /\ Direction(path, p - 1) # Direction(path, p)
    IN  IF corner THEN Min({SpeedLimit, CornerLimit}) ELSE SpeedLimit

Gain(path, i) == 2 * Acceleration * Length(path, i)

\* The acceleration pass, then the deceleration pass back over it.
Accelerated(path, entry) ==
    LET f[p \in 1 .. Len(path)] ==
            IF p = 1 THEN Min({SpeedCap(path, 1), entry})
            ELSE Min({SpeedCap(path, p), f[p - 1] + Gain(path, p - 1)})
    IN  f

\* Mutant of ForwardBackward: the backward pass forgets the forward one.
BackwardOnly(path, entry, exit) ==
    LET b[p \in 1 .. Len(path)] ==
            IF p = Len(path) THEN exit
            ELSE Min({SpeedCap(path, p), b[p + 1] + Gain(path, p)})
    IN  b

ForwardBackward(path, entry, exit) ==
    LET f == Accelerated(path, entry)
        b[p \in 1 .. Len(path)] ==
            IF p = Len(path) THEN Min({f[p], exit})
            ELSE Min({f[p], b[p + 1] + Gain(path, p)})
    IN  b

\* The window of a goal and its successor ends at rest; without a successor
\* the goal itself does.
Window(goal, next) == IF next = <<>> THEN goal ELSE goal \o Tail(next)
\* Mutant of RetimeGoalWindow: the window need not end at rest.
RetimeOpenEnded(goal, next, entry) == ForwardBackward(Window(goal, next), entry, SpeedLimit)

RetimeGoalWindow(goal, next, entry) == ForwardBackward(Window(goal, next), entry, 0)
SeamSpeed(goal, next, entry) == RetimeGoalWindow(goal, next, entry)[Len(goal)]
===============================================================================
