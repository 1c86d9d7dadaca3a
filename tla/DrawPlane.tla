------------------------------ MODULE DrawPlane ------------------------------
(***************************************************************************)
(* The draw plane's bridge: the coordination thread and the threads of the *)
(* three routes, between an operator and the controller's services.        *)
(***************************************************************************)
EXTENDS Dispatcher

drawVars == <<dispatcherVars, routeVars>>

Init == DispatcherInit /\ BatchInit /\ LiveInit /\ StrokeInit /\ ServiceInit

BatchThread == BatchStep /\ UNCHANGED <<dispatcherVars, liveVars, strokeVars>>
LiveThread == LiveStep /\ UNCHANGED <<dispatcherVars, batchVars, strokeVars>>
\* History: a session that is entered while a mode change looks is missed
\* until no session is ahead any more.
RememberEntry ==
    overlooked' =
        /\ SessionAhead'
        /\ \/ overlooked
           \/ serviceCall \in {"atRequest", "atIntake"} /\ ~strokeBusy /\ strokeBusy'

StrokeThread ==
    /\ StrokeStep
    /\ RememberEntry
    /\ UNCHANGED <<modeVars, phase, serviceCall, presses, batchVars, liveVars>>
Clock == CoolDownExpires /\ UNCHANGED <<dispatcherVars, batchVars, liveVars>>

Next == DispatcherStep \/ BatchThread \/ LiveThread \/ StrokeThread \/ Clock

Spec == Init /\ [][Next]_drawVars

\* Each window takes its points from the intake: the last one empties it.
IntakeEmpties == StrokeThread /\ liveSub = "draining" /\ material /\ ~material'

\* Every thread keeps running and every service call returns; an execution
\* ends, and so does a chain. While it drains nothing arrives, so there is a
\* last window. The operator owes nothing.
Fairness ==
    /\ WF_drawVars(StartRouteEvents)
    /\ WF_drawVars(ResultArrives \/ HealthLost \/ ChainDrained \/ NoLoss)
    /\ WF_drawVars(LiveStopCall \/ StopStrokes \/ StrokeStopCall \/ BatchReset
                   \/ StrokeReset \/ ActivateClearsLatch \/ ActivateAnswers
                   \/ LookAtStrokes \/ LeaveLive)
    /\ WF_drawVars(BatchThread)
    /\ WF_drawVars(StrokeThread)
    /\ SF_drawVars(IntakeEmpties)
    /\ WF_drawVars(Clock)

FairSpec == Spec /\ Fairness

TypeOK ==
    /\ DispatcherTypeOK /\ BatchTypeOK /\ LiveTypeOK /\ StrokeTypeOK /\ ServiceTypeOK

-------------------------------------------------------------------------------

\* Resting, stopping or leaving Live silences Servo at once: only the tick
\* that was already on its way publishes one more pose (tick reads under the
\* lock and publishes outside it; rest, deactivate).
AtMostOneLatePose == latePoses <= 1

\* From pen-down to the drain report the pointer does not drive Servo, however
\* the live thread's tick falls between: nothing is queued or being driven
\* (_route_pen_down, rest, tick, _advance).
ServoRestsWhileDrawing ==
    (mode = "live" /\ liveSub # "follow") => atRest /\ liveQueue = 0 /\ ~target

\* Once a stop in Live has been carried out, both live routes stay dead until
\* a reset: Servo inactive, the intake empty, no session asked for, whatever
\* the stroke thread was doing and whatever events were still queued
\* (_enter_stopped, stop, _on_stroke_event, begin_stroke).
StoppedLiveHolds ==
    (stopped /\ mode = "live" /\ serviceCall = "none") =>
        /\ ~active /\ atRest
        /\ stopFlag /\ ~material /\ ~sessionRequested

\* A chain runs only in Live, while strokes are drawn or drained or a stop is
\* collapsing it: neither a mode change nor the drain report of an earlier
\* session gives the arm to another route under it, unless the dispatcher has
\* overlooked its session (StrokeChainStreamer.active, _switch_mode,
\* _on_stroke_event).
ChainOnlyInLive ==
    strokeThread \in ChainPlaces =>
        \/ mode = "live" /\ (liveSub # "follow" \/ stopped)
        \/ overlooked

\* A reset in Live never releases the latch under a chain that is still
\* collapsing (StrokeChainStreamer.reset).
ResetFindsNoChain ==
    [][(stopped /\ ~stopped' /\ mode = "live") => strokeThread \notin ChainPlaces]_drawVars

\* The mode lock of an execution is always released or the operator is told
\* that it is stopped (the batch thread reports whatever happens; _run).
ExecutionEnds == mode = "executing" ~> (mode # "executing" \/ stopped)

\* The cool-down has swallowed the wake of a request; or a session broke while
\* the pen was down, and none has been asked for since.
NobodyDrains ==
    \/ strokeThread = "asleep" /\ sessionRequested /\ ~wake
    \/ sessionBroke /\ ~SessionAhead

\* Once the pen is up the drawn strokes finish and Servo gets the arm back,
\* whatever fails to plan, unless the wake of their session fell into the
\* cool-down or their session broke (request_handback, _run, _run_session,
\* chain_drained).
StrokesDrain == liveSub = "draining" ~> (liveSub # "draining" \/ NobodyDrains)
===============================================================================
