------------------------------ MODULE Dispatcher ------------------------------
(***************************************************************************)
(* The dispatcher and the coordination thread that runs it: each pass      *)
(* handles the user's events, then every route event, then looks whether   *)
(* the input was lost. A handler is one step, cut where it waits for a     *)
(* service or asks the stroke route how it stands (serviceCall says where).*)
(***************************************************************************)
EXTENDS BatchExecutor, LiveTargetStreamer, StrokeChainStreamer

CONSTANT MaxPresses     \* bound on buttons pressed and on losses of input

ASSUME MaxPressesAssumption == MaxPresses \in Nat

VARIABLES
    mode, liveSub, stopped,
    following,          \* _live_following
    phase,              \* which part of its pass the coordination thread is in
    serviceCall,        \* the service a handler waits for, or the flag it looks at next
    presses,
    overlooked          \* history: the dispatcher has missed the session that is ahead

dispatcherVars == <<mode, liveSub, stopped, following, phase, serviceCall, presses, overlooked>>
modeVars == <<mode, liveSub, stopped, following>>
routeVars == <<batchVars, liveVars, strokeVars, serviceVars>>

DispatcherInit ==
    /\ mode = "batch" /\ liveSub = "follow"
    /\ stopped = FALSE /\ following = FALSE
    /\ phase = "ui" /\ serviceCall = "none"
    /\ presses = 0 /\ overlooked = FALSE

DispatcherTypeOK ==
    /\ mode \in {"batch", "executing", "live"}
    /\ liveSub \in {"follow", "draw", "draining"}
    /\ {stopped, following, overlooked} \subseteq BOOLEAN
    /\ phase \in {"ui", "route"}
    /\ serviceCall \in {"none", "liveStop", "strokeStop", "strokeStopCall",
                        "batchReset", "strokeReset", "clearLatch", "select",
                        "atBusy", "atRequest", "atIntake"}
    /\ presses \in 0 .. MaxPresses

Handling(part) == phase = part /\ serviceCall = "none"

\* One press of a button.
Pressed ==
    /\ Handling("ui")
    /\ presses < MaxPresses
    /\ presses' = presses + 1
    /\ UNCHANGED phase

-------------------------------------------------------------------------------
(* Pointer samples, routed only in Live and while not stopped.             *)

LiveSample ==
    /\ Handling("ui")
    /\ mode = "live" /\ ~stopped
    /\ UNCHANGED <<mode, stopped, phase, serviceCall, presses, overlooked, batchVars, serviceVars>>

\* Entering draw rests Servo at once; the chain's own plunge replaces a lift.
PenDown ==
    /\ LiveSample
    /\ following' = TRUE
    /\ liveSub' = "draw"
    /\ IF liveSub = "draw" THEN AddPoint ELSE BeginStroke
    /\ IF liveSub = "follow" THEN RestLive ELSE UNCHANGED liveVars

FinishStrokes == FinishStroke /\ liveSub' = "draining"

\* Samples while the chain drains are dropped.
PenUp ==
    /\ LiveSample
    /\ following' = TRUE
    /\ \/ liveSub = "follow" /\ SetIntent /\ UNCHANGED <<liveSub, strokeVars>>
       \/ liveSub = "draw" /\ FinishStrokes /\ UNCHANGED liveVars
       \/ liveSub = "draining" /\ UNCHANGED <<liveSub, liveVars, strokeVars>>

Unfollow ==
    /\ LiveSample
    /\ following
    /\ following' = FALSE
    /\ IF liveSub = "follow"
       THEN ReleaseFollow /\ UNCHANGED <<liveSub, strokeVars>>
       ELSE FinishStrokes /\ UNCHANGED liveVars

-------------------------------------------------------------------------------
(* Controls.                                                               *)

\* Only the first cause of a stop calls the routes.
EnterStopped ==
    /\ stopped' = TRUE
    /\ UNCHANGED <<mode, following, overlooked, batchVars, strokeVars>>
    /\ CASE stopped -> UNCHANGED <<liveSub, serviceCall, liveVars, latch>>
         [] ~stopped /\ mode = "live" ->
               /\ liveSub' = "follow"
               /\ serviceCall' = "liveStop"
               /\ Deactivate
               /\ UNCHANGED <<tick, latePoses, latch>>
         [] ~stopped /\ mode # "live" ->
               StopCall /\ UNCHANGED <<liveSub, serviceCall, liveVars>>

PressStop == Pressed /\ EnterStopped /\ UNCHANGED routeEvents

\* The drawing, the loaded recipe and the park move take the same way.
PressExecute ==
    /\ Pressed
    /\ ~stopped /\ mode = "batch"
    /\ mode' = "executing"
    /\ BatchSubmit
    /\ UNCHANGED <<liveSub, stopped, following, serviceCall, overlooked, liveVars, strokeVars,
                   serviceVars>>

\* Entering Live activates Servo, leaving it asks whether strokes execute.
PressMode ==
    /\ Pressed
    /\ ~stopped
    /\ \/ mode = "batch" /\ serviceCall' = "clearLatch"
       \/ mode = "live" /\ serviceCall' = "atBusy"
    /\ UNCHANGED <<modeVars, overlooked, routeVars>>

\* A route still winding down refuses the reset.
PressReset ==
    /\ Pressed
    /\ stopped
    /\ \/ mode # "live" /\ BatchMayReset /\ serviceCall' = "batchReset"
       \/ mode = "live" /\ StrokeMayReset /\ serviceCall' = "strokeReset"
    /\ UNCHANGED <<modeVars, overlooked, routeVars>>

-------------------------------------------------------------------------------
(* Route events, and the end of a pass.                                    *)

RouteEventIs(kind) ==
    /\ Handling("route")
    /\ routeEvents # <<>>
    /\ Head(routeEvents) = kind
    /\ UNCHANGED <<phase, presses>>

ResultArrives ==
    /\ RouteEventIs("result")
    /\ routeEvents' = Tail(routeEvents)
    /\ mode' = IF mode = "executing" THEN "batch" ELSE mode
    /\ UNCHANGED <<liveSub, stopped, following, serviceCall, overlooked, latch, batchVars,
                   liveVars, strokeVars>>

HealthLost ==
    /\ RouteEventIs("health")
    /\ routeEvents' = Tail(routeEvents)
    /\ EnterStopped

\* A drain report counts only while draining: Servo takes over again if the
\* operator still follows.
ChainDrained ==
    LET handsBack == mode = "live" /\ liveSub = "draining" IN
    /\ RouteEventIs("drained")
    /\ routeEvents' = Tail(routeEvents)
    /\ liveSub' = IF handsBack THEN "follow" ELSE liveSub
    /\ overlooked' = (overlooked \/ (handsBack /\ SessionAhead))
    /\ serviceCall' = IF handsBack /\ ~stopped /\ following THEN "clearLatch" ELSE "none"
    /\ UNCHANGED <<mode, stopped, following, latch, batchVars, liveVars, strokeVars>>

StartRouteEvents ==
    /\ Handling("ui")
    /\ phase' = "route"
    /\ UNCHANGED <<modeVars, serviceCall, presses, overlooked, routeVars>>

\* The route events are drained; the watchdog may see the input go.
PassEnds ==
    /\ Handling("route")
    /\ routeEvents = <<>>
    /\ phase' = "ui"

NoLoss ==
    /\ PassEnds
    /\ UNCHANGED <<modeVars, serviceCall, presses, overlooked, routeVars>>

\* The drawn strokes finish, Servo goes silent, an execution is stopped.
InputLost ==
    /\ PassEnds
    /\ presses < MaxPresses /\ presses' = presses + 1
    /\ CASE mode = "executing" -> EnterStopped /\ UNCHANGED routeEvents
         [] mode = "batch" -> UNCHANGED <<modeVars, serviceCall, overlooked, routeVars>>
         [] mode = "live" ->
               /\ following' = FALSE
               /\ IF liveSub = "draw" THEN FinishStrokes ELSE UNCHANGED <<liveSub, strokeVars>>
               /\ RestLive
               /\ UNCHANGED <<mode, stopped, serviceCall, overlooked, batchVars, serviceVars>>

-------------------------------------------------------------------------------
(* The handlers that wait for a service, one step per call.                *)

Call(from, to) ==
    /\ serviceCall = from /\ serviceCall' = to
    /\ UNCHANGED <<phase, presses, overlooked, liveSub, following, batchVars, routeEvents>>

LiveStopCall ==
    /\ Call("liveStop", "strokeStop")
    /\ StopCall
    /\ UNCHANGED <<mode, stopped, liveVars, strokeVars>>

StopStrokes ==
    /\ serviceCall = "strokeStop" /\ serviceCall' = "strokeStopCall"
    /\ StrokeStopped
    /\ overlooked' = (overlooked /\ SessionAhead')
    /\ UNCHANGED <<modeVars, phase, presses, batchVars, liveVars, serviceVars>>

StrokeStopCall ==
    /\ Call("strokeStopCall", "none")
    /\ StopCall
    /\ UNCHANGED <<mode, stopped, liveVars, strokeVars>>

\* A stopped execution is abandoned.
BatchReset ==
    /\ Call("batchReset", "none")
    /\ \E success \in BOOLEAN :
          /\ ResetCall(success)
          /\ stopped' = ~success
          /\ mode' = IF success THEN "batch" ELSE mode
    /\ UNCHANGED <<liveVars, strokeVars>>

StrokeReset ==
    /\ Call("strokeReset", "none")
    /\ \E success \in BOOLEAN :
          /\ ResetCall(success)
          /\ stopped' = ~success
          /\ IF success THEN StrokeResetDone ELSE UNCHANGED strokeVars
    /\ UNCHANGED <<mode, liveVars>>

\* live.activate(): drop a standing latch, then select poses and unpause.
ActivateClearsLatch ==
    /\ Call("clearLatch", "select")
    /\ \E success \in BOOLEAN : ResetCall(success)
    /\ UNCHANGED <<mode, stopped, liveVars, strokeVars>>

ActivateAnswers ==
    /\ Call("select", "none")
    /\ \/ Activated /\ mode' = "live"
       \/ ServiceFaults /\ UNCHANGED <<mode, liveVars>>
    /\ UNCHANGED <<stopped, latch, strokeVars>>

\* A look that finds something is the last: the mode is locked.
LookAtStrokes ==
    /\ \/ Call("atBusy", IF Active("atBusy") THEN "none" ELSE "atRequest")
       \/ Call("atRequest", IF Active("atRequest") THEN "none" ELSE "atIntake")
       \/ Call("atIntake", "none") /\ Active("atIntake")
    /\ UNCHANGED <<mode, stopped, latch, liveVars, strokeVars>>

LeaveLive ==
    /\ serviceCall = "atIntake" /\ serviceCall' = "none"
    /\ ~Active("atIntake")
    /\ mode' = "batch" /\ liveSub' = "follow" /\ following' = FALSE
    /\ RestLive
    /\ UNCHANGED <<stopped, phase, presses, overlooked, batchVars, strokeVars, serviceVars>>

DispatcherStep ==
    \/ PenDown \/ PenUp \/ Unfollow
    \/ PressStop \/ PressExecute \/ PressMode \/ PressReset
    \/ StartRouteEvents \/ ResultArrives \/ HealthLost \/ ChainDrained
    \/ NoLoss \/ InputLost
    \/ LiveStopCall \/ StopStrokes \/ StrokeStopCall
    \/ BatchReset \/ StrokeReset \/ ActivateClearsLatch \/ ActivateAnswers
    \/ LookAtStrokes \/ LeaveLive
===============================================================================
