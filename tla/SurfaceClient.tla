---------------------------- MODULE SurfaceClient ----------------------------
(***************************************************************************)
(* The operator's canvas: the drawing composed on the client, the recipe   *)
(* that may be shown in its place, and the controls queued for the bridge. *)
(* The canvas has a few points; two of them are either the same point or   *)
(* farther apart than every tolerance.                                     *)
(***************************************************************************)
EXTENDS Naturals, Sequences, FiniteSets, SequencesExt

CONSTANTS
    Points, Recipes,
    MaxSamples,     \* the sample bound of the drawing store
    MaxSteps        \* bound on the effort of the operator and the environment

ASSUME ClientAssumption ==
    /\ MaxSamples \in Nat \ {0} /\ MaxSteps \in Nat
    /\ "none" \notin Recipes

VARIABLES
    store,          \* the drawing: its strokes
    pen, capture,   \* the freehand stroke being drawn
    tool, clicks, seeded,   \* the primitive being placed
    chain,          \* new strokes continue the one before
    recipePending,  \* a load whose answer has not come
    recipeDismissed,
    display,        \* the bridge's last display state
    controls,       \* controls not sent yet
    issued, others, \* counts, of the controls and of the effort beside them
    \* history
    awaited,        \* the number of the load last requested
    lateAnswer, earlyAnswer, undoneSeam,
    crossed     \* the display entered or left Live mode under a held pen

drawingVars == <<store, pen, capture, tool, clicks, seeded, chain, undoneSeam>>
recipeVars == <<recipePending, recipeDismissed, awaited, lateAnswer, earlyAnswer, crossed>>
queueVars == <<controls, issued>>
\* What counts how much against MaxSteps; the order of loads and executions is
\* what matters most, so another control counts one more (Aside).
ControlEffort == 3
InputEffort == 2
LossEffort == 5
Effort == ControlEffort * issued + others
Aside == others' = others + 1

clientVars == <<drawingVars, recipeVars, queueVars, display, others>>

ClicksNeeded == [line |-> 2, arc |-> 3]
Tools == {"freehand"} \cup DOMAIN ClicksNeeded
Nothing == [preview |-> "none", mode |-> "batch", known |-> FALSE, upTo |-> 0]

ClientInit ==
    /\ store = <<>> /\ pen = FALSE /\ capture = <<>>
    /\ tool = "freehand" /\ clicks = <<>> /\ seeded = FALSE /\ chain = FALSE
    /\ recipePending = "none" /\ recipeDismissed = FALSE
    /\ display = Nothing
    /\ controls = <<>> /\ issued = 0 /\ others = 0
    /\ awaited = 0 /\ lateAnswer = FALSE /\ earlyAnswer = FALSE
    /\ undoneSeam = FALSE /\ crossed = FALSE

-------------------------------------------------------------------------------
(* The drawing store.                                                      *)

SampleCount(strokes) == FoldLeft(LAMBDA n, s : n + Len(s.points), 0, strokes)

\* A stroke that exceeds the bound is refused.
Retain(stroke) ==
    store' = IF SampleCount(store) + Len(stroke.points) > MaxSamples THEN store
             ELSE Append(store, stroke)

-------------------------------------------------------------------------------
(* What Execute would run.                                                 *)

\* Mutant of RecipeLoaded: a load counts only once it is answered.
RecipeAnswered == IF recipeDismissed THEN "none" ELSE display.preview

RecipeLoaded ==
    IF recipePending # "none" THEN recipePending
    ELSE IF recipeDismissed THEN "none" ELSE display.preview

Issue(control) ==
    /\ Effort + ControlEffort <= MaxSteps /\ issued' = issued + 1
    /\ controls' = Append(controls, [id |-> issued + 1, does |-> control])

\* Drawing over a recipe drops it; composing sends no needless control.
DismissRecipe ==
    IF RecipeLoaded = "none" THEN UNCHANGED <<recipeVars, queueVars>>
    ELSE /\ recipePending' = "none" /\ recipeDismissed' = TRUE
         /\ Issue([action |-> "clear_recipe"])
         /\ UNCHANGED <<awaited, lateAnswer, earlyAnswer, crossed>>

-------------------------------------------------------------------------------
(* The canvas.                                                             *)

Composing == display.known /\ display.mode # "live"
Input == Effort + InputEffort <= MaxSteps /\ others' = others + InputEffort

\* The window has one pointer: a button is pressed with the pen up.
Button == ~pen

ChainAnchor == IF chain /\ store # <<>> THEN {Last(Last(store).points)} ELSE {}

\* remove_duplicates; the points that are left are evenly spaced already.
Conditioned(points) ==
    FoldLeft(LAMBDA kept, p : IF kept # <<>> /\ Last(kept) = p THEN kept ELSE Append(kept, p),
             <<>>, points)

FreehandDown ==
    /\ Input
    /\ tool = "freehand" /\ ~pen /\ pen' = TRUE
    /\ IF Composing
       THEN DismissRecipe /\ \E p \in Points : capture' = Append(capture, p)
       ELSE UNCHANGED <<recipeVars, queueVars, capture>>
    /\ UNCHANGED <<store, tool, clicks, seeded, chain, undoneSeam, display>>

Drag ==
    /\ Input
    /\ tool = "freehand" /\ pen /\ Composing
    /\ \E p \in Points : capture' = Append(capture, p)
    /\ UNCHANGED <<store, pen, tool, clicks, seeded, chain, undoneSeam, recipeVars, queueVars, display>>

\* Mutant of FreehandUp: the capture outlives a stroke that is too short.
FreehandUpEarlyReturn ==
    /\ tool = "freehand" /\ pen /\ pen' = FALSE
    /\ IF Composing /\ Len(Conditioned(capture)) >= 2
       THEN /\ capture' = <<>>
            /\ Retain([points |-> Conditioned(capture), chained |-> FALSE])
       ELSE UNCHANGED <<capture, store>>
    /\ UNCHANGED <<tool, clicks, seeded, chain, undoneSeam, recipeVars, queueVars, display, others>>

\* A stroke too short is discarded; one that starts where the last one ended
\* chains to it.
FreehandUp ==
    LET conditioned == Conditioned(capture) IN
    /\ tool = "freehand" /\ pen /\ pen' = FALSE
    /\ IF Composing /\ capture # <<>>
       THEN /\ capture' = <<>>
            /\ IF Len(conditioned) < 2 THEN UNCHANGED store
               ELSE Retain([points |-> conditioned, chained |-> Head(conditioned) \in ChainAnchor])
       ELSE UNCHANGED <<capture, store>>
    /\ UNCHANGED <<tool, clicks, seeded, chain, undoneSeam, recipeVars, queueVars, display, others>>

\* sample_line and sample_arc; three clicks that span no arc are a line.
SampleLine(from, to) == IF from = to THEN <<from>> ELSE <<from, to>>
Primitive(placed) ==
    IF tool = "arc" /\ Cardinality(Range(placed)) = 3 THEN placed
    ELSE SampleLine(Head(placed), Last(placed))

\* The first click of a chained primitive is preceded by the inherited start.
Click ==
    /\ Input
    /\ tool # "freehand" /\ Composing
    /\ DismissRecipe
    /\ \E p \in Points :
       LET inherits == clicks = <<>> /\ ChainAnchor # {}
           start == IF inherits THEN <<Last(Last(store).points)>> ELSE clicks
           placed == Append(start, p)
       IN  IF Len(placed) < ClicksNeeded[tool]
           THEN /\ clicks' = placed /\ seeded' = (seeded \/ inherits)
                /\ UNCHANGED store
           ELSE /\ clicks' = <<>> /\ seeded' = FALSE
                /\ Retain([points |-> Primitive(placed), chained |-> seeded \/ inherits])
    /\ UNCHANGED <<pen, capture, tool, chain, undoneSeam, display>>

SelectTool ==
    /\ Input /\ Button
    /\ \E t \in Tools \ {tool} : tool' = t
    /\ clicks' = <<>> /\ seeded' = FALSE /\ capture' = <<>>
    /\ UNCHANGED <<store, pen, chain, undoneSeam, recipeVars, queueVars, display>>

SetChain ==
    /\ Input /\ Button
    /\ chain' = ~chain
    /\ clicks' = <<>> /\ seeded' = FALSE
    /\ UNCHANGED <<store, pen, capture, tool, undoneSeam, recipeVars, queueVars, display>>

\* The clicks placed so far stay.
Undo ==
    /\ Input /\ Button
    /\ store # <<>>
    /\ store' = Front(store)
    /\ undoneSeam' = (undoneSeam \/ seeded)
    /\ UNCHANGED <<pen, capture, tool, clicks, seeded, chain, recipeVars, queueVars, display>>

ClearDrawing == store' = <<>> /\ clicks' = <<>> /\ seeded' = FALSE /\ capture' = <<>>

Clear ==
    /\ Input /\ Button
    /\ ClearDrawing /\ DismissRecipe
    /\ UNCHANGED <<pen, tool, chain, undoneSeam, display>>

-------------------------------------------------------------------------------
(* The commands.                                                           *)

\* Mutant of Payload: strokes that only follow each other are merged too.
PayloadOfOneStroke ==
    IF store = <<>> THEN <<>>
    ELSE <<FlattenSeq([i \in DOMAIN store |-> store[i].points])>>

\* Chained strokes go out as one, the shared point once.
Payload ==
    FoldLeft(LAMBDA sent, s :
                IF ~s.chained \/ sent = <<>> THEN Append(sent, s.points)
                ELSE [sent EXCEPT ![Len(sent)] =
                         IF Head(s.points) = Last(@) THEN @ \o Tail(s.points) ELSE @ \o s.points],
             <<>>, store)

RequestExecute ==
    /\ Button
    /\ \/ /\ RecipeLoaded # "none"
          /\ Issue([action |-> "execute_recipe", shown |-> RecipeLoaded])
       \/ /\ RecipeLoaded = "none" /\ store # <<>>
          /\ Issue([action |-> "execute", drawing |-> Payload])
    /\ UNCHANGED <<drawingVars, recipeVars, display, others>>

RequestMode ==
    /\ Button
    /\ Issue([action |-> "mode", mode |-> IF display.mode = "live" THEN "batch" ELSE "live"])
    /\ Aside
    /\ capture' = <<>> /\ clicks' = <<>> /\ seeded' = FALSE
    /\ UNCHANGED <<store, pen, tool, chain, undoneSeam, recipeVars, display>>

\* A recipe replaces the drawing, from the click on.
RequestLoadRecipe ==
    /\ Button /\ display.known        \* the list of recipes is the bridge's
    /\ \E name \in Recipes :
          /\ Issue([action |-> "load_recipe", name |-> name])
          /\ recipePending' = name /\ awaited' = issued'
    /\ recipeDismissed' = FALSE
    /\ IF store # <<>> THEN ClearDrawing ELSE UNCHANGED <<store, clicks, seeded, capture>>
    /\ UNCHANGED <<pen, tool, chain, undoneSeam, lateAnswer, earlyAnswer, crossed, display, others>>

RequestStop ==
    /\ Button
    /\ Issue([action |-> "stop"]) /\ Aside
    /\ UNCHANGED <<drawingVars, recipeVars, display>>

\* Set-plane, park, save and reset are queued the same way.
RequestSetPlane ==
    /\ Button
    /\ Issue([action |-> "set_plane"]) /\ Aside
    /\ UNCHANGED <<drawingVars, recipeVars, display>>

RequestReset ==
    /\ Button
    /\ Issue([action |-> "reset"]) /\ Aside
    /\ UNCHANGED <<drawingVars, recipeVars, display>>

\* A load that is not answered in time no longer counts.
LoadTimesOut ==
    /\ recipePending # "none"
    /\ recipePending' = "none" /\ lateAnswer' = TRUE
    /\ UNCHANGED <<drawingVars, recipeDismissed, awaited, earlyAnswer, crossed, queueVars, display, others>>

\* A preview of the name awaited answers the load, though it may be older.
ApplyDisplay(state) ==
    /\ display' = state
    /\ recipePending' = IF state.preview = recipePending THEN "none" ELSE recipePending
    /\ recipeDismissed' = (recipeDismissed /\ state.preview # "none")
    /\ crossed' = (crossed \/ (pen /\ Composing # Composing'))
    /\ earlyAnswer' = (earlyAnswer \/ (/\ recipePending # "none" /\ state.preview = recipePending
                                       /\ state.upTo < awaited))
    /\ UNCHANGED <<drawingVars, queueVars, awaited, lateAnswer, others>>

ClientStep ==
    \/ FreehandDown \/ Drag \/ FreehandUp \/ Click \/ SelectTool \/ SetChain \/ Undo \/ Clear
    \/ RequestExecute \/ RequestMode \/ RequestLoadRecipe \/ RequestStop
    \/ RequestSetPlane \/ RequestReset \/ LoadTimesOut
===============================================================================
