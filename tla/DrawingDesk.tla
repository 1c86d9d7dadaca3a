----------------------------- MODULE DrawingDesk -----------------------------
(***************************************************************************)
(* What gets drawn, and where on the board: the dispatcher's handling of   *)
(* drawings, recipes and the plane calibration, and the senders that turn  *)
(* a recipe into goals on the arm. When a stop or a fault ends an          *)
(* execution is left to DrawPlane; here any step of a sender may fail.     *)
(***************************************************************************)
EXTENDS RecipeFraming, GoalWindows

CONSTANTS
    Drawings,       \* what clients may submit: sequences of strokes
    Offsets, Yaws,  \* what clients may calibrate
    Bundled,        \* the recipes shipped with the package, by name
    SaveName,       \* the one name drawings are saved under
    Senders,        \* which senders are run
    MaxCommands     \* bound on the operator's commands

\* Points of the plane, places in the world, and recipes.
Points == [1..2 -> Int]
Places == [1..3 -> Int]
Segments == [type : {"lin", "through"}, points : Seq(Points) \ {<<>>}, z : Int]
Recipes == [segments : Seq(Segments), anchor : Places, plane_rotate : Int, rotate : Int, scale : Int]

ASSUME DeskAssumption == CheckStartup /\ MaxCommands \in Nat

ASSUME BoardAssumption ==
    /\ Extent \in [1..2 -> Points] /\ WorkingCentre \in Points /\ AnchorXYZ \in Places
    /\ {DrawZ, SafeZ, RetractZ} \subseteq Int
    /\ Offsets \subseteq Points /\ Yaws \subseteq Int

ASSUME InputAssumption ==
    /\ Drawings \subseteq Seq(Seq(Points))
    /\ \A name \in DOMAIN Bundled : Bundled[name] \in Recipes
    /\ Scales \subseteq Nat \ {0} /\ IsFiniteSet(Scales)

VARIABLES
    plane,
    mode,           \* "batch" or "executing"
    loaded,         \* _loaded_recipe: a set of at most one recipe
    saved,          \* the file SaveName: a set of at most one recipe
    savedRuns,      \* history: the runs in it
    job,            \* the recipe being executed: a set of at most one
    sender,         \* which sender executes it
    stage,          \* how far it has come
    path, goals,    \* its waypoints, and the slices they are cut into
    sent,           \* the goals accepted by the controller, in order
    entry,          \* the squared speed at which the next one starts
    commands

deskVars == <<plane, loaded, saved, savedRuns>>
senderVars == <<job, sender, path, goals, sent, entry>>
vars == <<deskVars, senderVars, mode, stage, commands>>

Init ==
    /\ plane = Uncalibrated
    /\ mode = "batch"
    /\ loaded = {} /\ saved = {} /\ savedRuns = <<>>
    /\ job = {} /\ sender = "streamed" /\ stage = "idle"
    /\ path = <<>> /\ goals = <<>> /\ sent = <<>> /\ entry = 0
    /\ commands = 0

Command == commands < MaxCommands /\ commands' = commands + 1

\* The submitted drawing's in-area runs, its points re-clamped to the extent.
SubmittedRuns(drawing) ==
    FlattenSeq([s \in 1 .. Len(drawing) |->
        InAreaRuns([i \in 1 .. Len(drawing[s]) |-> ClampToExtent(drawing[s][i])])])

-------------------------------------------------------------------------------
(* The controls.                                                           *)

SetPlane ==
    /\ Command
    /\ mode = "batch"
    /\ \E offset \in Offsets, yaw \in Yaws :
          /\ WithinReach(Calibration(offset, yaw))
          /\ plane' = Calibration(offset, yaw)
    /\ loaded' = {}
    /\ UNCHANGED <<senderVars, saved, savedRuns, mode, stage>>

\* Saving moves nothing: it is allowed at any time, even of an empty drawing.
Save ==
    /\ Command
    /\ \E drawing \in Drawings :
          /\ savedRuns' = SubmittedRuns(drawing)
          /\ saved' = {ToRecipeStructure(SubmittedRuns(drawing), plane)}
    /\ UNCHANGED <<senderVars, plane, loaded, mode, stage>>

\* The operator's own directory is looked up before the bundled recipes.
Resolve(name) ==
    IF name = SaveName /\ saved # {} THEN saved
    ELSE IF name \in DOMAIN Bundled THEN {Bundled[name]} ELSE {}

\* A load that fails keeps the recipe loaded before.
LoadRecipe ==
    /\ Command
    /\ mode = "batch"
    /\ \E name \in DOMAIN Bundled \cup {SaveName}, asked \in Scales \cup {Fit, Authored} :
       \E recipe \in Resolve(name) :
          loaded' = IF Loaded(recipe, plane, asked) # {} THEN Loaded(recipe, plane, asked) ELSE loaded
    /\ UNCHANGED <<senderVars, plane, saved, savedRuns, mode, stage>>

ClearRecipe ==
    /\ Command
    /\ loaded' = {}
    /\ UNCHANGED <<senderVars, plane, saved, savedRuns, mode, stage>>

StartJob(recipes, by) ==
    /\ stage = "idle" /\ stage' = "ready"
    /\ job' = recipes /\ sender' = by
    /\ path' = <<>> /\ goals' = <<>> /\ sent' = <<>> /\ entry' = 0
    /\ UNCHANGED deskVars

Execute ==
    /\ Command
    /\ mode = "batch" /\ mode' = "executing"
    /\ \E drawing \in Drawings :
          /\ SubmittedRuns(drawing) # <<>>
          /\ StartJob({ToRecipeStructure(SubmittedRuns(drawing), plane)}, "streamed")

ExecuteRecipe ==
    /\ Command
    /\ mode = "batch" /\ mode' = "executing"
    /\ loaded # {}
    /\ StartJob(loaded, "streamed")

\* A sender run by hand on a file, while the bridge is idle: the file's own
\* anchor, rotations and scale.
Replay ==
    /\ Command
    /\ mode = "batch"
    /\ \E by \in Senders, name \in DOMAIN Bundled \cup {SaveName} :
       \E recipe \in Resolve(name) :
          recipe.segments # <<>> /\ StartJob({recipe}, by)
    /\ UNCHANGED mode

-------------------------------------------------------------------------------
(* The senders.                                                            *)

\* The waypoints at which the segments start.
SegmentStarts(recipe) ==
    LET Count(s) == Len(SegmentLocalPoints(recipe.segments[s]))
    IN  {1 + MapThenSumSet(Count, 1 .. s - 1) : s \in 1 .. Len(recipe.segments)}

At(from, to) ==
    /\ stage = from /\ stage' = to
    /\ UNCHANGED <<deskVars, job, sender, mode, commands>>

\* Joint moves to the ready pose and to the anchor, then the plan of a goal.
Moved(from, to) == At(from, to) /\ UNCHANGED <<path, goals, sent, entry>>
ReadyReached == Moved("ready", "anchor")

\* The monolithic sender makes one goal of the path.
AnchorReached ==
    /\ At("anchor", "plan")
    /\ \E recipe \in job :
          /\ path' = BuildWaypoints(recipe)
          /\ goals' = IF sender = "monolithic" THEN <<path'>>
                      ELSE SliceGoals(path', SplitCuts(path', SegmentStarts(recipe)))
    /\ UNCHANGED <<sent, entry>>

GoalPlanned == Moved("plan", "send")

\* The streamed sender plans the successor first; when that fails, the goal in
\* hand is timed to end at rest and closes the chain.
SendGoal ==
    LET k == Len(sent) + 1
        goal == goals[k]
        more == k < Len(goals)
    IN  \E next \in {<<>>} \cup (IF more THEN {goals[k + 1]} ELSE {}) :
            /\ sender = "streamed"
            /\ At("send", IF next = <<>> THEN "drain" ELSE "send")
            /\ sent' = Append(sent, [path |-> goal, speeds |-> RetimeGoalWindow(goal, next, entry)])
            /\ entry' = SeamSpeed(goal, next, entry)
            /\ UNCHANGED <<path, goals>>

\* With --rest-seams, and in the monolithic sender, every goal ends at rest.
SendAtRest ==
    LET goal == goals[Len(sent) + 1] IN
    /\ sender # "streamed"
    /\ At("send", IF Len(sent) + 1 = Len(goals) THEN "drain" ELSE "plan")
    /\ sent' = Append(sent, [path |-> goal, speeds |-> RetimeGoalWindow(goal, <<>>, 0)])
    /\ UNCHANGED <<path, goals, entry>>

Drained == Moved("drain", "succeeded")

\* A move, a plan, a service or a goal fails.
Fails ==
    /\ stage \in {"ready", "anchor", "plan", "send", "drain"}
    /\ Moved(stage, "failed")

\* The result: an execution of the bridge goes back to Batch.
ResultArrives ==
    /\ stage \in {"succeeded", "failed"} /\ stage' = "idle"
    /\ mode' = "batch"
    /\ job' = {} /\ path' = <<>> /\ goals' = <<>> /\ sent' = <<>> /\ entry' = 0
    /\ UNCHANGED <<deskVars, sender, commands>>

Next ==
    \/ SetPlane \/ Save \/ LoadRecipe \/ ClearRecipe
    \/ Execute \/ ExecuteRecipe \/ Replay
    \/ ReadyReached \/ AnchorReached \/ GoalPlanned
    \/ SendGoal \/ SendAtRest \/ Drained \/ Fails \/ ResultArrives

Spec == Init /\ [][Next]_vars

-------------------------------------------------------------------------------
(* Properties.                                                             *)

PlanePoint(waypoint) == <<waypoint[1], waypoint[2]>>
OnBoard(p) == PlanePoint(PlaneToWorld(plane, p, DrawZ))
PenDownWaypoints(recipe) ==
    LET Drawn(waypoints, w) ==
            IF w[3] < recipe.anchor[3] + SafeZ THEN Append(waypoints, w) ELSE waypoints
    IN  FoldLeft(Drawn, <<>>, BuildWaypoints(recipe))

\* The preview the loader shows, put on the board the way the live route puts
\* a point there, is what the sender will draw, though the one rotates before
\* it scales, the other after, and the third knows no scale.
PreviewIsWhatRuns ==
    \A recipe \in loaded :
        LET preview == PenDownPoints(recipe, recipe.scale)
            drawn == PenDownWaypoints(recipe)
        IN  /\ Len(preview) = Len(drawn)
            /\ \A i \in DOMAIN preview : OnBoard(preview[i]) = PlanePoint(drawn[i])

\* A drawing saved under one calibration and loaded under another comes out
\* where the operator drew it on the board: no offset and no rotation twice.
SavedDrawingFollowsBoard ==
    \A recipe \in saved : \A again \in Loaded(recipe, plane, 1) :
        LET drawn == Range(PenDownWaypoints(again)) IN
        \A run \in Range(savedRuns) : \A p \in Range(run) :
            \E w \in drawn : PlanePoint(w) = OnBoard(p)

InAreaOnBoard(w) ==
    SquaredDistance(PlanePoint(w), OnBoard(WorkingCentre)) <= Square(WorkingRadius)

\* Within a quarter of the span from p to q of its middle.
NearMiddle(w, p, q) ==
    4 * (Square(2 * w[1] - p[1] - q[1]) + Square(2 * w[2] - p[2] - q[2])) <= SquaredDistance(p, q)

\* The pen of an execution is down only inside the working area of the board
\* as it is now. A loaded recipe keeps it with all its samples. A submitted
\* drawing, which is cut at the area before a curve is put through its points,
\* keeps it with its points; a sample may leave it, between two points that do
\* not and no farther from their middle than a quarter of the way between them.
PenStaysInWorkingArea ==
    mode = "executing" =>
        \A recipe \in job : \A i \in DOMAIN path :
            (path[i][3] < recipe.anchor[3] + SafeZ /\ ~InAreaOnBoard(path[i])) =>
                /\ recipe \notin loaded
                /\ {i - 1, i + 1} \subseteq DOMAIN path
                /\ InAreaOnBoard(path[i - 1]) /\ InAreaOnBoard(path[i + 1])
                /\ NearMiddle(path[i], path[i - 1], path[i + 1])

SentPath ==
    FlattenSeq([k \in DOMAIN sent |->
        IF k = 1 THEN sent[k].path ELSE Tail(sent[k].path)])

\* The goals sent follow the path from its start with no waypoint lost or drawn
\* twice, each starting where the one before ended; a chain that is closed
\* ends at rest; and only the streamed sender may report success for less
\* than the whole path.
SentFollowsPath ==
    path # <<>> =>
        /\ IsPrefix(SentPath, path)
        /\ \A k \in DOMAIN sent : k > 1 => Last(sent[k - 1].path) = Head(sent[k].path)
        /\ stage \in {"drain", "succeeded"} =>
              /\ Last(sent).speeds[Len(Last(sent).path)] = 0
              /\ sender = "streamed" \/ SentPath = path

\* The speed carried over a seam is one the next window can start with, so no
\* goal starts with a jump of the speed and can still come to rest, whether or
\* not the goal after it can be planned.
SeamSpeedIsFeasible ==
    stage = "send" =>
        LET k == Len(sent) + 1 IN
        \A next \in {<<>>} \cup {goals[j] : j \in DOMAIN goals \cap {k + 1}} :
            ForwardBackward(Window(goals[k], next), entry, 0)[1] = entry

\* The two passes find the fastest profile there is: at every waypoint the
\* least of what the caps, the entry and the exit allow from where they are.
ProfileIsFastest ==
    stage = "send" =>
        LET k == Len(sent) + 1
            window == Window(goals[k], IF k < Len(goals) THEN goals[k + 1] ELSE <<>>)
            n == Len(window)
            Bound(p) == Min({SpeedCap(window, p)}
                            \cup (IF p = 1 THEN {entry} ELSE {})
                            \cup (IF p = n THEN {0} ELSE {}))
            Apart(p, q) == IF p < q THEN Distance(window, p, q) ELSE Distance(window, q, p)
        IN  \A p \in 1..n :
                ForwardBackward(window, entry, 0)[p]
                    = Min({Bound(q) + 2 * Acceleration * Apart(p, q) : q \in 1..n})
===============================================================================
