---------------------------- MODULE ClientSession ----------------------------
(***************************************************************************)
(* The client in session with the bridge: one WebSocket that may drop, the *)
(* transport threads on either side, the bridge's queue of input events,   *)
(* its watchdog, and as much of the dispatcher as the client can see.      *)
(***************************************************************************)
EXTENDS SurfaceClient

CONSTANT MaxDrops       \* bound on the losses of the connection and the silences

ASSUME MaxDropsAssumption == MaxDrops \in Nat

VARIABLES
    sending,            \* the controls of the tick whose send is awaited
    connected,          \* the client's side of the session
    sessionOpen,        \* the bridge's side
    turnedAway,         \* the client's session is one that the bridge refuses
    upstream,           \* messages in transit: sequences of controls
    downstream,         \* display states in transit
    events,             \* decoded messages waiting at the bridge
    sessionWasOpen, inputWasLost,       \* what the coordination thread last saw
    mode, stopped,      \* the dispatcher's
    loadedRecipe,
    drops,
    received, lost, refused, redelivered,   \* history: control numbers
    ranOther,           \* history: an execution of what was not shown
    loadFailed,         \* history: a load failed, or it or a clearing was lost
    unseenInput         \* history: input came that the loss did not see

linkVars == <<sending, connected, sessionOpen, turnedAway, upstream, downstream, drops>>
bridgeVars == <<events, sessionWasOpen, inputWasLost, mode, stopped, loadedRecipe>>
historyVars == <<received, lost, refused, redelivered, ranOther, loadFailed, unseenInput>>
vars == <<clientVars, linkVars, bridgeVars, historyVars>>

Init ==
    /\ ClientInit
    /\ sending = <<>> /\ connected = FALSE /\ sessionOpen = FALSE /\ turnedAway = FALSE
    /\ upstream = <<>> /\ downstream = <<>> /\ drops = 0
    /\ events = <<>> /\ sessionWasOpen = FALSE /\ inputWasLost = FALSE
    /\ mode = "batch" /\ stopped = FALSE
    /\ loadedRecipe \in Recipes \cup {"none"}      \* of an earlier session, maybe
    /\ received = <<>> /\ lost = {} /\ refused = {} /\ redelivered = {}
    /\ ranOther = FALSE /\ loadFailed = FALSE /\ unseenInput = FALSE

Ids(message) == {message[i].id : i \in DOMAIN message}
IdsOf(messages) == UNION {Ids(messages[i]) : i \in DOMAIN messages}

ChangesRecipe(message) ==
    \E i \in DOMAIN message : message[i].does.action \in {"load_recipe", "clear_recipe"}

-------------------------------------------------------------------------------
(* The client's transport thread.                                          *)

\* The connection is lost, or falls silent; it counts against MaxSteps.
Loss ==
    /\ drops < MaxDrops /\ drops' = drops + 1
    /\ Effort + LossEffort <= MaxSteps /\ others' = others + LossEffort

\* The handshake always succeeds; a second session is refused after it, while
\* the bridge still holds the first.
Connect ==
    /\ ~connected /\ connected' = TRUE
    /\ sessionOpen' = TRUE
    /\ turnedAway' = sessionOpen
    /\ UNCHANGED <<clientVars, sending, upstream, downstream, drops, bridgeVars, historyVars>>

\* One tick takes the pointer and all the controls queued,
Snapshot ==
    /\ connected /\ sending = <<>> /\ controls # <<>>
    /\ sending' = controls /\ controls' = <<>>
    /\ UNCHANGED <<drawingVars, recipeVars, issued, display, others, connected, sessionOpen,
                   turnedAway, upstream, downstream, drops, bridgeVars, historyVars>>

\* and sends them, while the operator may go on.
Send ==
    /\ connected /\ sending # <<>> /\ ~turnedAway
    /\ sending' = <<>>
    /\ upstream' = Append(upstream, sending)
    /\ UNCHANGED <<clientVars, connected, sessionOpen, turnedAway, downstream, drops, bridgeVars, historyVars>>

\* A refused session takes them as well, and nobody reads them.
SendUnread ==
    /\ connected /\ sending # <<>> /\ turnedAway
    /\ sending' = <<>>
    /\ lost' = lost \cup Ids(sending)
    /\ loadFailed' = (loadFailed \/ ChangesRecipe(sending))
    /\ UNCHANGED <<clientVars, connected, sessionOpen, turnedAway, upstream, downstream, drops,
                   bridgeVars, received, refused, redelivered, ranOther, unseenInput>>

\* Mutants of Requeued: the controls are dropped, and go to the back.
RequeuedNone == controls
RequeuedBehind == controls \o sending

\* The queue after a failed send: what was taken goes back to the front.
Requeued == sending \o controls

\* The send raises, whether or not the message got away; the session ends.
SendRaises ==
    /\ connected /\ sending # <<>>
    /\ IF turnedAway THEN UNCHANGED <<drops, others>> ELSE Loss
    /\ connected' = FALSE /\ turnedAway' = FALSE
    /\ sending' = <<>> /\ controls' = Requeued
    /\ \/ UNCHANGED <<upstream, redelivered>>
       \/ /\ ~turnedAway
          /\ upstream' = Append(upstream, sending)
          /\ redelivered' = redelivered \cup Ids(sending)
    /\ UNCHANGED <<drawingVars, recipeVars, issued, display, sessionOpen, downstream, bridgeVars,
                   received, lost, refused, ranOther, loadFailed, unseenInput>>

\* The client finds the connection gone, or closed on it, between two sends.
ClientDrops ==
    /\ connected /\ connected' = FALSE /\ turnedAway' = FALSE
    /\ sending = <<>>
    /\ IF turnedAway THEN UNCHANGED <<drops, others>> ELSE Loss
    /\ UNCHANGED <<drawingVars, recipeVars, queueVars, display, sending, sessionOpen, upstream,
                   downstream, bridgeVars, historyVars>>

ReceiveDisplay ==
    /\ connected /\ ~turnedAway /\ downstream # <<>>
    /\ ApplyDisplay(Head(downstream))
    /\ downstream' = Tail(downstream)
    /\ UNCHANGED <<sending, connected, sessionOpen, turnedAway, upstream, drops, bridgeVars,
                   historyVars>>

-------------------------------------------------------------------------------
(* The bridge's transport thread.                                          *)

\* decode_input refuses a message as a whole, for one stroke of one point.
Decodes(message) ==
    \A i \in DOMAIN message :
        message[i].does.action = "execute" =>
            \A s \in DOMAIN message[i].does.drawing : Len(message[i].does.drawing[s]) >= 2

ReceiveInput ==
    /\ sessionOpen /\ upstream # <<>>
    /\ upstream' = Tail(upstream)
    /\ IF Decodes(Head(upstream))
       THEN events' = Append(events, Head(upstream)) /\ UNCHANGED refused
       ELSE refused' = refused \cup Ids(Head(upstream)) /\ UNCHANGED events
    /\ loadFailed' = (loadFailed \/ (~Decodes(Head(upstream)) /\ ChangesRecipe(Head(upstream))))
    /\ unseenInput' = (unseenInput \/ inputWasLost)
    /\ UNCHANGED <<clientVars, sending, connected, sessionOpen, turnedAway, downstream, drops,
                   sessionWasOpen, inputWasLost, mode, stopped, loadedRecipe,
                   received, lost, redelivered, ranOther>>

\* The session closes once the client has left it; what is in transit is lost.
SessionCloses ==
    /\ sessionOpen /\ (~connected \/ turnedAway)
    /\ sessionOpen' = FALSE
    /\ upstream' = <<>> /\ downstream' = <<>>
    /\ lost' = lost \cup IdsOf(upstream)
    /\ loadFailed' = (loadFailed \/ \E message \in Range(upstream) : ChangesRecipe(message))
    /\ UNCHANGED <<clientVars, sending, connected, turnedAway, drops, bridgeVars,
                   received, refused, redelivered, ranOther, unseenInput>>

-------------------------------------------------------------------------------
(* The coordination thread.                                                *)

\* History: the last control handled before the state was made.
HandledUpTo == IF received = <<>> THEN 0 ELSE Last(received)

DisplayState == [preview |-> loadedRecipe, mode |-> mode, known |-> TRUE, upTo |-> HandledUpTo]
PushDisplay ==
    downstream' = IF sessionOpen THEN Append(downstream, DisplayState') ELSE downstream

\* The dispatcher's answer to one control: mode, stop and loaded recipe after.
Answer(control) ==
    LET Keep == [mode |-> mode, stopped |-> stopped, recipe |-> loadedRecipe] IN
    CASE control.action = "stop" -> {[Keep EXCEPT !.stopped = TRUE]}
      [] control.action = "reset" ->
            {Keep, [Keep EXCEPT !.stopped = FALSE, !.mode = IF stopped /\ mode = "executing" THEN "batch" ELSE mode]}
      [] control.action = "clear_recipe" -> {[Keep EXCEPT !.recipe = "none"]}
      [] control.action = "set_plane" ->
            {IF mode = "batch" THEN [Keep EXCEPT !.recipe = "none"] ELSE Keep}
      [] control.action = "load_recipe" ->
            {Keep} \cup (IF mode = "batch" THEN {[Keep EXCEPT !.recipe = control.name]} ELSE {})
      [] control.action = "execute" ->
            {IF mode = "batch" /\ ~stopped THEN [Keep EXCEPT !.mode = "executing"] ELSE Keep}
      [] control.action = "execute_recipe" ->
            {IF mode = "batch" /\ ~stopped /\ loadedRecipe # "none"
             THEN [Keep EXCEPT !.mode = "executing"] ELSE Keep}
      [] control.action = "mode" ->
            {Keep} \cup (IF mode # "executing" /\ ~stopped THEN {[Keep EXCEPT !.mode = control.mode]} ELSE {})

HandleControl ==
    /\ events # <<>>
    /\ LET control == Head(Head(events)).does IN
       \E answer \in Answer(control) :
          /\ events' = IF Len(Head(events)) = 1 THEN Tail(events)
                       ELSE <<Tail(Head(events))>> \o Tail(events)
          /\ mode' = answer.mode /\ stopped' = answer.stopped /\ loadedRecipe' = answer.recipe
          /\ received' = Append(received, Head(Head(events)).id)
          /\ ranOther' = (ranOther \/ (/\ control.action = "execute_recipe"
                                       /\ mode = "batch" /\ answer.mode = "executing"
                                       /\ control.shown # loadedRecipe))
          /\ loadFailed' = (loadFailed \/ (/\ control.action = "load_recipe"
                                             /\ answer.recipe # control.name))
    /\ PushDisplay
    /\ UNCHANGED <<clientVars, sending, connected, sessionOpen, turnedAway, upstream, drops,
                   sessionWasOpen, inputWasLost, lost, refused, redelivered, unseenInput>>

\* A result of the batch route.
ExecutionEnds ==
    /\ mode = "executing" /\ mode' = "batch"
    /\ UNCHANGED <<clientVars, sending, connected, sessionOpen, turnedAway, upstream, drops, events,
                   sessionWasOpen, inputWasLost, stopped, loadedRecipe, historyVars>>
    /\ PushDisplay

\* A fresh client gets the whole state.
Greet ==
    /\ sessionWasOpen # sessionOpen
    /\ sessionWasOpen' = sessionOpen
    /\ UNCHANGED <<clientVars, sending, connected, sessionOpen, turnedAway, upstream, drops, events,
                   inputWasLost, mode, stopped, loadedRecipe, historyVars>>
    /\ IF sessionOpen THEN PushDisplay ELSE UNCHANGED downstream

\* Mutant of LossStops: the watchdog cares for Live only.
LossStopsLive(isLost) == isLost /\ mode = "live"

LossStops(isLost) == isLost /\ mode = "executing"

\* The watchdog: silence while the session is open counts as much as its end.
\* Only the edge is reported.
WatchdogTick ==
    /\ \E isLost \in BOOLEAN :
          /\ ~sessionOpen => isLost
          /\ IF sessionOpen /\ isLost THEN Loss ELSE UNCHANGED <<drops, others>>
          /\ sessionOpen \/ drops > 0      \* a client has been there
          /\ inputWasLost # isLost
          /\ inputWasLost' = isLost
          /\ stopped' = (stopped \/ LossStops(isLost))
          /\ unseenInput' = IF isLost THEN events # <<>> ELSE FALSE
    /\ UNCHANGED <<drawingVars, recipeVars, queueVars, display, sending, connected, sessionOpen,
                   turnedAway, upstream, events, sessionWasOpen, mode, loadedRecipe, received, lost, refused,
                   redelivered, ranOther, loadFailed>>
    /\ PushDisplay

Next ==
    \/ ClientStep /\ UNCHANGED <<linkVars, bridgeVars, historyVars>>
    \/ Connect \/ Snapshot \/ Send \/ SendUnread \/ SendRaises \/ ClientDrops \/ ReceiveDisplay
    \/ ReceiveInput \/ SessionCloses
    \/ HandleControl \/ ExecutionEnds \/ Greet \/ WatchdogTick

Spec == Init /\ [][Next]_vars

-------------------------------------------------------------------------------
(* Properties.                                                             *)

\* The lines a pen draws along the strokes.
Ink(strokes) ==
    UNION {{{s[i], s[i + 1]} : i \in 1 .. Len(s) - 1} : s \in Range(strokes)}
StoredStrokes == [i \in DOMAIN store |-> store[i].points]

\* What is submitted is the drawing, though chained strokes are merged: no line
\* is lost and none appears that the operator did not draw, as long as no
\* stroke was undone from under a primitive that had inherited its end.
PayloadIsTheDrawing == undoneSeam \/ Ink(Payload) = Ink(StoredStrokes)

\* A stroke is the trail of one press: nothing captured outlives the pen, or
\* the next stroke would begin with it, unless the mode changed under the pen.
CaptureIsOnePress == crossed \/ pen \/ capture = <<>>

\* A control that was issued is queued, under way, waiting, handled, refused
\* with its whole message, or lost: with the connection that carried it, or to
\* a session that the bridge refused and never read. The re-queueing after a
\* failed send forgets none.
NoControlForgotten ==
    1 .. issued = Ids(controls) \cup Ids(sending) \cup IdsOf(upstream) \cup IdsOf(events)
                  \cup Range(received) \cup lost \cup refused

\* Controls are handled in the order in which the operator gave them, and once,
\* but for those of a message that got away although its send failed.
ControlsArriveInOrder ==
    \A i, j \in DOMAIN received :
        i < j => received[i] < received[j] \/ {received[i], received[j]} \cap redelivered # {}

\* Execute runs the recipe the canvas showed when it was pressed, if no load
\* was lost or refused by the bridge, the client gave up on none and took none
\* for answered by a preview made before it, and no message came twice.
ExecuteRunsWhatIsShown ==
    ranOther => loadFailed \/ lateAnswer \/ earlyAnswer \/ redelivered # {}

\* An execution whose client has gone is stopped, unless it was started by
\* input the watchdog had not seen when it reported the loss.
LossStopsExecution ==
    ~sessionOpen /\ inputWasLost /\ mode = "executing" /\ ~unseenInput => stopped
===============================================================================
