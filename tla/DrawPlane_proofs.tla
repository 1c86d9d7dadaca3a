--------------------------- MODULE DrawPlane_proofs ---------------------------
(***************************************************************************)
(* What holds of the draw plane for every queue, limit and number of       *)
(* presses, whichever services fail: the invariants of the safety run are  *)
(* conjuncts of one inductive invariant, and so is what a reset relies on. *)
(***************************************************************************)
EXTENDS DrawPlane, SequenceTheorems, TLAPS

\* Once a pose has been published too late, no other is on its way.
LatePoses ==
    latePoses = 0 \/ (latePoses = 1 /\ ~Publishing /\ tick \notin {"drive", "hold"})

\* What the intake holds is served by a session that is asked for, about to be
\* entered or running; a stopped route has emptied it.
StrokesServed ==
    /\ (material \/ strokeOpen) =>
          sessionRequested \/ strokeThread \in ChainPlaces \cup {"enter", "session"}
    /\ strokeOpen => material \/ strokeThread \in ChainPlaces \cup {"session"}
    /\ (stopFlag /\ strokeThread # "failing") => ~material /\ ~strokeOpen
    /\ strokeThread \in ChainPlaces \cup {"session", "leave"} => strokeBusy

\* Where strokes may be in the intake or on the arm.
StrokesAllowed == mode = "live" /\ (liveSub # "follow" \/ stopped)

\* Strokes are drawn where they may be, but for those of a session that the
\* dispatcher has overlooked; one entered behind a look is.
Drawing ==
    /\ (material \/ strokeOpen \/ strokeThread \in ChainPlaces) => StrokesAllowed \/ overlooked
    /\ serviceCall \in {"atBusy", "atRequest", "atIntake"} => mode = "live" /\ ~stopped
    /\ (serviceCall \in {"atRequest", "atIntake"} /\ strokeBusy) => overlooked
    /\ serviceCall = "batchReset" => mode # "live"

\* A stop in Live has silenced Servo before its first call and emptied the
\* intake after its second; a reset that is being served found no chain.
Stopping ==
    /\ serviceCall \in {"clearLatch", "select"} => ~stopped
    /\ (stopped /\ mode = "live") => liveSub = "follow" /\ ~active /\ atRest
    /\ (stopped /\ mode = "live" /\ serviceCall \in {"none", "strokeStopCall", "strokeReset"})
          => stopFlag /\ ~material /\ ~sessionRequested
    /\ serviceCall = "strokeReset" => stopped /\ mode = "live" /\ strokeThread \notin ChainPlaces

IInv ==
    TypeOK /\ LatePoses /\ ServoRestsWhileDrawing /\ StrokesServed /\ Drawing /\ Stopping

-------------------------------------------------------------------------------
(* Types.                                                                  *)

\* What the dispatcher may call on each route, or nothing.
LiveCall ==
    \/ SetIntent \/ ReleaseFollow \/ RestLive \/ Activated
    \/ Deactivate /\ UNCHANGED <<tick, latePoses>>
    \/ UNCHANGED liveVars
StrokeCall ==
    \/ BeginStroke \/ AddPoint \/ FinishStroke \/ StrokeStopped \/ StrokeResetDone
    \/ UNCHANGED strokeVars
BatchCall == BatchSubmit \/ UNCHANGED batchVars

\* These calls keep the types.
LEMMA CallTypes ==
    /\ LiveTypeOK /\ LiveCall => LiveTypeOK'
    /\ StrokeTypeOK /\ StrokeCall => StrokeTypeOK'
    /\ BatchTypeOK /\ BatchCall => BatchTypeOK'
    /\ ServiceTypeOK => /\ \A event \in RouteEvent : Post(event) => routeEvents' \in Seq(RouteEvent)
                        /\ routeEvents # <<>> => Tail(routeEvents) \in Seq(RouteEvent)
<1>1. ASSUME LiveTypeOK, LiveCall
      PROVE  LiveTypeOK'
  <2> USE <1>1 DEF LiveCall
  <2>1. {active, atRest, releasing, target, last}' \subseteq BOOLEAN
    BY DEF LiveTypeOK, SetIntent, ReleaseFollow, RestLive, Activated, Deactivate, Publishing, liveVars
  <2>2. liveQueue' \in 0 .. LiveQueueLimit
    BY LiveAssumption DEF LiveTypeOK, SetIntent, ReleaseFollow, RestLive, Activated, Deactivate, liveVars
  <2>3. tick' = tick /\ latePoses' \in 0 .. 2
    BY DEF LiveTypeOK, SetIntent, ReleaseFollow, RestLive, Activated, liveVars
  <2> QED
    BY <2>1, <2>2, <2>3 DEF LiveTypeOK
<1>2. ASSUME StrokeTypeOK, StrokeCall
      PROVE  StrokeTypeOK'
  <2> USE <1>2 DEF StrokeCall
  <2> USE DEF StrokeTypeOK, inkVars, askVars, orderVars, ownVars
  <2>1. CASE BeginStroke
    BY <2>1 DEF BeginStroke
  <2>2. CASE AddPoint
    BY <2>2 DEF AddPoint, BeginStroke
  <2>3. CASE FinishStroke
    BY <2>3 DEF FinishStroke
  <2>4. CASE StrokeStopped
    BY <2>4 DEF StrokeStopped
  <2>5. CASE StrokeResetDone
    BY <2>5 DEF StrokeResetDone
  <2>6. CASE UNCHANGED strokeVars
    BY <2>6 DEF strokeVars
  <2> QED
    BY <2>1, <2>2, <2>3, <2>4, <2>5, <2>6
<1>3. ASSUME BatchTypeOK, BatchCall
      PROVE  BatchTypeOK'
  BY <1>3, MaxWorkAssumption DEF BatchCall, BatchTypeOK, BatchSubmit, batchVars
<1>4. ASSUME ServiceTypeOK
      PROVE  /\ \A event \in RouteEvent : Post(event) => routeEvents' \in Seq(RouteEvent)
             /\ routeEvents # <<>> => Tail(routeEvents) \in Seq(RouteEvent)
  BY <1>4, AppendProperties, HeadTailProperties DEF ServiceTypeOK, Post
<1> QED
  BY <1>1, <1>2, <1>3, <1>4

LEMMA BatchTypesStep ==
    ASSUME ServiceTypeOK, BatchTypeOK, BatchStep
    PROVE  ServiceTypeOK' /\ BatchTypeOK'
<1>1. CASE TakeWork
  BY <1>1, MaxWorkAssumption DEF TakeWork, BatchAt, BatchTypeOK, ServiceTypeOK, serviceVars
<1>2. CASE SetBusy
  BY <1>2 DEF SetBusy, BatchAt, BatchTypeOK, ServiceTypeOK, serviceVars
<1>3. CASE ClearLatch
  BY <1>3 DEF ClearLatch, ResetCall, BatchAt, BatchTypeOK, ServiceTypeOK
<1>4. CASE BatchGoalAccepted
  BY <1>4 DEF BatchGoalAccepted, BatchAt, BatchTypeOK, ServiceTypeOK, serviceVars
<1>5. CASE RunEnds
  BY <1>5 DEF RunEnds, BatchTypeOK, ServiceTypeOK, serviceVars
<1>6. CASE ClearBusy
  BY <1>6 DEF ClearBusy, BatchAt, BatchTypeOK, ServiceTypeOK, serviceVars
<1>7. CASE ReportResult
  BY <1>7, CallTypes DEF ReportResult, BatchAt, BatchTypeOK, ServiceTypeOK, RouteEvent
<1> QED
  BY <1>1, <1>2, <1>3, <1>4, <1>5, <1>6, <1>7 DEF BatchStep

LEMMA LiveTypesStep ==
    ASSUME ServiceTypeOK, LiveTypeOK, LiveStep
    PROVE  ServiceTypeOK' /\ LiveTypeOK'
<1> USE LiveAssumption DEF LiveTypeOK
<1>1. CASE TickRead
  BY <1>1 DEF TickRead, ServiceTypeOK, serviceVars
<1>2. CASE HoldPosition
  BY <1>2 DEF HoldPosition, PublishPose, ServiceTypeOK, serviceVars
<1>3. CASE Advance
  <2>1. tick' = "record" /\ latePoses' \in 0 .. 2 /\ UNCHANGED <<active, atRest, releasing, last, serviceVars>>
    BY <1>3 DEF Advance, PublishPose
  <2>2. liveQueue' \in 0 .. LiveQueueLimit /\ target' \in BOOLEAN
    <3>1. CASE UNCHANGED <<liveQueue, target>>
      BY <3>1
    <3>2. ASSUME NEW passed \in 0 .. liveQueue,
                 target' = (passed < liveQueue),
                 liveQueue' = IF passed < liveQueue THEN liveQueue - passed - 1 ELSE 0
          PROVE  liveQueue' \in 0 .. LiveQueueLimit /\ target' \in BOOLEAN
      BY <3>2
    <3> QED
      BY <1>3, <3>1, <3>2 DEF Advance
  <2> QED
    BY <2>1, <2>2 DEF ServiceTypeOK, serviceVars
<1>4. CASE GuardTripped
  <2>1. UNCHANGED <<latePoses, latch, routeEvents>> /\ tick' = "trip"
    BY <1>4 DEF GuardTripped, serviceVars
  <2>2. active' = FALSE /\ last' = FALSE /\ target' = FALSE /\ atRest' = TRUE /\ releasing' = FALSE
    BY <1>4 DEF GuardTripped, Deactivate
  <2>3. liveQueue' = 0
    BY <1>4 DEF GuardTripped, Deactivate
  <2>4. {active, atRest, releasing, target, last}' \subseteq BOOLEAN
    BY <2>2
  <2>5. liveQueue' \in 0 .. LiveQueueLimit /\ latePoses' \in 0 .. 2
    BY <2>1, <2>3
  <2> QED
    BY <2>1, <2>4, <2>5 DEF ServiceTypeOK
<1>5. CASE TripReported
  BY <1>5, CallTypes DEF TripReported, StopCall, ServiceTypeOK, RouteEvent
<1>6. CASE TickRecord
  BY <1>6 DEF TickRecord, ServiceTypeOK, serviceVars
<1> QED
  BY <1>1, <1>2, <1>3, <1>4, <1>5, <1>6 DEF LiveStep

LEMMA StrokeTypesStep ==
    ASSUME ServiceTypeOK, StrokeTypeOK, StrokeStep \/ CoolDownExpires
    PROVE  ServiceTypeOK' /\ StrokeTypeOK'
<1> USE DEF StrokeTypeOK, StrokeAt, ClearIntake, inkVars, askVars, orderVars, ownVars
<1>1. CASE WakeUp
  BY <1>1 DEF WakeUp, ServiceTypeOK, serviceVars
<1>2. CASE CheckRequest
  BY <1>2 DEF CheckRequest, ServiceTypeOK, serviceVars
<1>3. CASE TakeRequest
  BY <1>3 DEF TakeRequest, ServiceTypeOK, serviceVars
<1>4. CASE EnterSession
  BY <1>4 DEF EnterSession, ServiceTypeOK, serviceVars
<1>5. CASE SessionEnds
  BY <1>5 DEF SessionEnds, ServiceTypeOK, serviceVars
<1>6. CASE SessionBreaks
  BY <1>6 DEF SessionBreaks, ServiceTypeOK, serviceVars
<1>7. CASE ChainDoesNotStart
  BY <1>7 DEF ChainDoesNotStart, ServiceTypeOK, serviceVars
<1>8. CASE ChainStarts
  BY <1>8 DEF ChainStarts, ChainPlaces, ServiceTypeOK, serviceVars
<1>9. CASE ChainContinues
  BY <1>9 DEF ChainContinues, ChainPlaces, ServiceTypeOK, serviceVars
<1>10. CASE ChainCloses
  BY <1>10 DEF ChainCloses, ChainPlaces, ServiceTypeOK, serviceVars
<1>11. CASE WindowFails
  BY <1>11 DEF WindowFails, ChainPlaces, ServiceTypeOK, serviceVars
<1>12. CASE ChainCollapses
  BY <1>12 DEF ChainCollapses, ChainPlaces, ServiceTypeOK, serviceVars
<1>13. CASE StrokeGoalAccepted
  BY <1>13 DEF StrokeGoalAccepted, ChainPlaces, ServiceTypeOK, serviceVars
<1>14. CASE StrokeGoalRefused
  BY <1>14 DEF StrokeGoalRefused, ChainPlaces, ServiceTypeOK, serviceVars
<1>15. CASE FailChain
  BY <1>15, CallTypes DEF FailChain, StopCall, ServiceTypeOK, RouteEvent
<1>16. CASE ChainAtRest
  BY <1>16 DEF ChainAtRest, ServiceTypeOK, serviceVars
<1>17. CASE LeaveSession
  BY <1>17 DEF LeaveSession, ServiceTypeOK, serviceVars
<1>18. CASE ReportDrained
  BY <1>18, CallTypes DEF ReportDrained, ServiceTypeOK, RouteEvent
<1>19. CASE CoolDownExpires
  BY <1>19 DEF CoolDownExpires, ServiceTypeOK, serviceVars
<1> QED
  BY <1>1, <1>2, <1>3, <1>4, <1>5, <1>6, <1>7, <1>8, <1>9, <1>10, <1>11, <1>12, <1>13,
     <1>14, <1>15, <1>16, <1>17, <1>18, <1>19 DEF StrokeStep

\* Each step of the dispatcher calls one operation of each route, or none.
LEMMA DispatcherCalls ==
    ASSUME TypeOK, DispatcherStep
    PROVE  /\ BatchCall /\ LiveCall /\ StrokeCall
           /\ latch' \in BOOLEAN
           /\ UNCHANGED routeEvents \/ (routeEvents # <<>> /\ routeEvents' = Tail(routeEvents))
<1> USE DEF BatchCall, LiveCall, StrokeCall, routeVars, serviceVars
<1>1. CASE PenDown
  BY <1>1 DEF PenDown, LiveSample, TypeOK, ServiceTypeOK
<1>2. CASE PenUp
  BY <1>2 DEF PenUp, LiveSample, FinishStrokes, TypeOK, ServiceTypeOK
<1>3. CASE Unfollow
  BY <1>3 DEF Unfollow, LiveSample, FinishStrokes, TypeOK, ServiceTypeOK
<1>4. CASE PressStop
  BY <1>4 DEF PressStop, EnterStopped, StopCall, TypeOK, ServiceTypeOK
<1>5. CASE PressExecute
  BY <1>5 DEF PressExecute, TypeOK, ServiceTypeOK
<1>6. CASE PressMode
  BY <1>6 DEF PressMode, TypeOK, ServiceTypeOK
<1>7. CASE PressReset
  BY <1>7 DEF PressReset, TypeOK, ServiceTypeOK
<1>8. CASE StartRouteEvents
  BY <1>8 DEF StartRouteEvents, TypeOK, ServiceTypeOK
<1>9. CASE ResultArrives
  BY <1>9 DEF ResultArrives, RouteEventIs, TypeOK, ServiceTypeOK
<1>10. CASE HealthLost
  BY <1>10 DEF HealthLost, RouteEventIs, EnterStopped, StopCall, TypeOK, ServiceTypeOK
<1>11. CASE ChainDrained
  BY <1>11 DEF ChainDrained, RouteEventIs, TypeOK, ServiceTypeOK
<1>12. CASE NoLoss
  BY <1>12 DEF NoLoss, TypeOK, ServiceTypeOK
<1>13. CASE InputLost
  BY <1>13 DEF InputLost, EnterStopped, FinishStrokes, StopCall, TypeOK, DispatcherTypeOK,
               ServiceTypeOK
<1>14. CASE LiveStopCall
  BY <1>14 DEF LiveStopCall, Call, StopCall, TypeOK, ServiceTypeOK
<1>15. CASE StopStrokes
  BY <1>15 DEF StopStrokes, StrokeStopped, TypeOK, ServiceTypeOK
<1>16. CASE StrokeStopCall
  BY <1>16 DEF StrokeStopCall, Call, StopCall, TypeOK, ServiceTypeOK
<1>17. CASE BatchReset
  BY <1>17 DEF BatchReset, Call, ResetCall, TypeOK, ServiceTypeOK
<1>18. CASE StrokeReset
  BY <1>18 DEF StrokeReset, Call, ResetCall, TypeOK, ServiceTypeOK
<1>19. CASE ActivateClearsLatch
  BY <1>19 DEF ActivateClearsLatch, Call, ResetCall, TypeOK, ServiceTypeOK
<1>20. CASE ActivateAnswers
  BY <1>20 DEF ActivateAnswers, Call, TypeOK, ServiceTypeOK
<1>21. CASE LookAtStrokes
  BY <1>21 DEF LookAtStrokes, Call, TypeOK, ServiceTypeOK
<1>22. CASE LeaveLive
  BY <1>22 DEF LeaveLive, TypeOK, ServiceTypeOK
<1> QED
  BY <1>1, <1>2, <1>3, <1>4, <1>5, <1>6, <1>7, <1>8, <1>9, <1>10, <1>11, <1>12, <1>13,
     <1>14, <1>15, <1>16, <1>17, <1>18, <1>19, <1>20, <1>21, <1>22 DEF DispatcherStep

LEMMA DispatcherTypesStep ==
    ASSUME TypeOK, DispatcherStep
    PROVE  DispatcherTypeOK'
<1> USE MaxPressesAssumption DEF TypeOK, DispatcherTypeOK, Handling, modeVars
<1>1. CASE PenDown
  BY <1>1 DEF PenDown, LiveSample
<1>2. CASE PenUp
  BY <1>2 DEF PenUp, LiveSample, FinishStrokes
<1>3. CASE Unfollow
  BY <1>3 DEF Unfollow, LiveSample, FinishStrokes
<1>4. CASE PressStop
  <2>1. presses' \in 0 .. MaxPresses
    BY <1>4 DEF PressStop, Pressed, EnterStopped
  <2>2. {stopped, following, overlooked}' \subseteq BOOLEAN
    BY <1>4 DEF PressStop, Pressed, EnterStopped
  <2>3. /\ mode' \in {"batch", "executing", "live"}
        /\ liveSub' \in {"follow", "draw", "draining"}
        /\ phase' \in {"ui", "route"}
        /\ serviceCall' \in {"none", "liveStop", "strokeStop", "strokeStopCall",
                              "batchReset", "strokeReset", "clearLatch", "select",
                              "atBusy", "atRequest", "atIntake"}
    BY <1>4 DEF PressStop, Pressed, EnterStopped
  <2> QED
    BY <2>1, <2>2, <2>3
<1>5. CASE PressExecute
  <2>1. presses' \in 0 .. MaxPresses
    BY <1>5 DEF PressExecute, Pressed
  <2>2. {stopped, following, overlooked}' \subseteq BOOLEAN
    BY <1>5 DEF PressExecute, Pressed
  <2>3. /\ mode' \in {"batch", "executing", "live"}
        /\ liveSub' \in {"follow", "draw", "draining"}
        /\ phase' \in {"ui", "route"}
        /\ serviceCall' \in {"none", "liveStop", "strokeStop", "strokeStopCall",
                              "batchReset", "strokeReset", "clearLatch", "select",
                              "atBusy", "atRequest", "atIntake"}
    BY <1>5 DEF PressExecute, Pressed
  <2> QED
    BY <2>1, <2>2, <2>3
<1>6. CASE PressMode
  <2>1. presses' \in 0 .. MaxPresses
    BY <1>6 DEF PressMode, Pressed
  <2>2. {stopped, following, overlooked}' \subseteq BOOLEAN
    BY <1>6 DEF PressMode, Pressed
  <2>3. /\ mode' \in {"batch", "executing", "live"}
        /\ liveSub' \in {"follow", "draw", "draining"}
        /\ phase' \in {"ui", "route"}
        /\ serviceCall' \in {"none", "liveStop", "strokeStop", "strokeStopCall",
                              "batchReset", "strokeReset", "clearLatch", "select",
                              "atBusy", "atRequest", "atIntake"}
    BY <1>6 DEF PressMode, Pressed
  <2> QED
    BY <2>1, <2>2, <2>3
<1>7. CASE PressReset
  <2>1. presses' \in 0 .. MaxPresses
    BY <1>7 DEF PressReset, Pressed
  <2>2. {stopped, following, overlooked}' \subseteq BOOLEAN
    BY <1>7 DEF PressReset, Pressed
  <2>3. /\ mode' \in {"batch", "executing", "live"}
        /\ liveSub' \in {"follow", "draw", "draining"}
        /\ phase' \in {"ui", "route"}
        /\ serviceCall' \in {"none", "liveStop", "strokeStop", "strokeStopCall",
                              "batchReset", "strokeReset", "clearLatch", "select",
                              "atBusy", "atRequest", "atIntake"}
    BY <1>7 DEF PressReset, Pressed
  <2> QED
    BY <2>1, <2>2, <2>3
<1>8. CASE StartRouteEvents
  BY <1>8 DEF StartRouteEvents
<1>9. CASE ResultArrives
  BY <1>9 DEF ResultArrives, RouteEventIs
<1>10. CASE HealthLost
  BY <1>10 DEF HealthLost, RouteEventIs, EnterStopped
<1>11. CASE ChainDrained
  BY <1>11 DEF ChainDrained, RouteEventIs
<1>12. CASE NoLoss
  BY <1>12 DEF NoLoss, PassEnds
<1>13. CASE InputLost
  <2>1. presses' \in 0 .. MaxPresses
    BY <1>13 DEF InputLost, PassEnds, EnterStopped, FinishStrokes
  <2>2. {stopped, following, overlooked}' \subseteq BOOLEAN
    BY <1>13 DEF InputLost, PassEnds, EnterStopped, FinishStrokes
  <2>3. /\ mode' \in {"batch", "executing", "live"}
        /\ liveSub' \in {"follow", "draw", "draining"}
        /\ phase' \in {"ui", "route"}
        /\ serviceCall' \in {"none", "liveStop", "strokeStop", "strokeStopCall",
                              "batchReset", "strokeReset", "clearLatch", "select",
                              "atBusy", "atRequest", "atIntake"}
    BY <1>13 DEF InputLost, PassEnds, EnterStopped, FinishStrokes
  <2> QED
    BY <2>1, <2>2, <2>3
<1>14. CASE LiveStopCall
  BY <1>14 DEF LiveStopCall, Call
<1>15. CASE StopStrokes
  BY <1>15 DEF StopStrokes, StrokeStopped
<1>16. CASE StrokeStopCall
  BY <1>16 DEF StrokeStopCall, Call
<1>17. CASE BatchReset
  BY <1>17 DEF BatchReset, Call
<1>18. CASE StrokeReset
  BY <1>18 DEF StrokeReset, Call
<1>19. CASE ActivateClearsLatch
  BY <1>19 DEF ActivateClearsLatch, Call
<1>20. CASE ActivateAnswers
  BY <1>20 DEF ActivateAnswers, Call
<1>21. CASE LookAtStrokes
  BY <1>21 DEF LookAtStrokes, Call
<1>22. CASE LeaveLive
  BY <1>22 DEF LeaveLive
<1> QED
  BY <1>1, <1>2, <1>3, <1>4, <1>5, <1>6, <1>7, <1>8, <1>9, <1>10, <1>11, <1>12, <1>13,
     <1>14, <1>15, <1>16, <1>17, <1>18, <1>19, <1>20, <1>21, <1>22 DEF DispatcherStep

LEMMA TypesStep ==
    ASSUME TypeOK, [Next]_drawVars
    PROVE  TypeOK'
<1>1. CASE DispatcherStep
  <2>1. ServiceTypeOK'
    BY <1>1, DispatcherCalls, CallTypes DEF TypeOK, ServiceTypeOK
  <2>2. BatchTypeOK' /\ LiveTypeOK' /\ StrokeTypeOK'
    BY <1>1, DispatcherCalls, CallTypes DEF TypeOK
  <2> QED
    BY <1>1, <2>1, <2>2, DispatcherTypesStep DEF TypeOK
<1>2. CASE BatchThread
  <2>1. ServiceTypeOK' /\ BatchTypeOK'
    BY <1>2, BatchTypesStep DEF BatchThread, TypeOK
  <2>2. LiveTypeOK' /\ StrokeTypeOK'
    BY <1>2, CallTypes DEF BatchThread, LiveCall, StrokeCall, TypeOK
  <2>3. DispatcherTypeOK'
    BY <1>2 DEF BatchThread, TypeOK, DispatcherTypeOK, dispatcherVars
  <2> QED
    BY <2>1, <2>2, <2>3 DEF TypeOK
<1>3. CASE LiveThread
  <2>1. ServiceTypeOK' /\ LiveTypeOK'
    BY <1>3, LiveTypesStep DEF LiveThread, TypeOK
  <2>2. BatchTypeOK' /\ StrokeTypeOK'
    BY <1>3, CallTypes DEF LiveThread, BatchCall, StrokeCall, TypeOK
  <2>3. DispatcherTypeOK'
    BY <1>3 DEF LiveThread, TypeOK, DispatcherTypeOK, dispatcherVars
  <2> QED
    BY <2>1, <2>2, <2>3 DEF TypeOK
<1>4. CASE StrokeThread \/ Clock
  <2>1. ServiceTypeOK' /\ StrokeTypeOK'
    BY <1>4, StrokeTypesStep DEF StrokeThread, Clock, TypeOK
  <2>2. BatchTypeOK' /\ LiveTypeOK'
    BY <1>4, CallTypes DEF StrokeThread, Clock, BatchCall, LiveCall, TypeOK
  <2>3. DispatcherTypeOK'
    BY <1>4 DEF StrokeThread, RememberEntry, SessionAhead, Clock, TypeOK, DispatcherTypeOK,
                dispatcherVars, modeVars
  <2> QED
    BY <2>1, <2>2, <2>3 DEF TypeOK
<1>5. CASE UNCHANGED drawVars
  <2>1. BatchTypeOK' /\ LiveTypeOK' /\ StrokeTypeOK'
    BY <1>5, CallTypes DEF drawVars, routeVars, BatchCall, LiveCall, StrokeCall, TypeOK
  <2>2. DispatcherTypeOK' /\ ServiceTypeOK'
    BY <1>5 DEF drawVars, dispatcherVars, routeVars, serviceVars, TypeOK, DispatcherTypeOK,
                ServiceTypeOK
  <2> QED
    BY <2>1, <2>2 DEF TypeOK
<1> QED
  BY <1>1, <1>2, <1>3, <1>4, <1>5 DEF Next

-------------------------------------------------------------------------------
(* What a step of each thread may do to the others.                        *)

\* A call from the dispatcher leaves nothing in the intake that is not served.
LEMMA CallsServe ==
    ASSUME StrokeTypeOK, StrokesServed, StrokeCall
    PROVE  StrokesServed'
<1> USE DEF StrokeTypeOK, StrokesServed, ChainPlaces, inkVars, askVars, orderVars, ownVars
<1>1. CASE BeginStroke
  BY <1>1 DEF BeginStroke
<1>2. CASE AddPoint
  BY <1>2 DEF AddPoint, BeginStroke
<1>3. CASE FinishStroke
  BY <1>3 DEF FinishStroke
<1>4. CASE StrokeStopped
  BY <1>4 DEF StrokeStopped
<1>5. CASE StrokeResetDone
  BY <1>5 DEF StrokeResetDone
<1>6. CASE UNCHANGED strokeVars
  BY <1>6 DEF strokeVars
<1> QED
  BY <1>1, <1>2, <1>3, <1>4, <1>5, <1>6 DEF StrokeCall

\* The stroke thread only consumes: material, requests and flags are put
\* there by the coordination thread, and a chain needs material and no stop.
LEMMA StrokeOnlyConsumes ==
    ASSUME StrokeTypeOK, StrokesServed, StrokeStep \/ CoolDownExpires
    PROVE  /\ StrokesServed'
           /\ material' => material
           /\ strokeOpen' => strokeOpen
           /\ sessionRequested' => sessionRequested
           /\ stopFlag => stopFlag'
           /\ strokeThread' \in ChainPlaces =>
                 strokeThread \in ChainPlaces \/ (material /\ ~stopFlag)
<1> USE DEF StrokeTypeOK, StrokesServed, StrokeAt, ClearIntake, inkVars, askVars, orderVars, ownVars, ChainPlaces
<1>1. CASE WakeUp
  BY <1>1 DEF WakeUp
<1>2. CASE CheckRequest
  BY <1>2 DEF CheckRequest
<1>3. CASE TakeRequest
  BY <1>3 DEF TakeRequest
<1>4. CASE EnterSession
  BY <1>4 DEF EnterSession
<1>5. CASE SessionEnds
  BY <1>5 DEF SessionEnds
<1>6. CASE SessionBreaks
  BY <1>6 DEF SessionBreaks
<1>7. CASE ChainDoesNotStart
  BY <1>7 DEF ChainDoesNotStart
<1>8. CASE ChainStarts
  BY <1>8 DEF ChainStarts
<1>9. CASE ChainContinues
  BY <1>9 DEF ChainContinues
<1>10. CASE ChainCloses
  BY <1>10 DEF ChainCloses
<1>11. CASE WindowFails
  BY <1>11 DEF WindowFails
<1>12. CASE ChainCollapses
  BY <1>12 DEF ChainCollapses
<1>13. CASE StrokeGoalAccepted
  BY <1>13 DEF StrokeGoalAccepted
<1>14. CASE StrokeGoalRefused
  BY <1>14 DEF StrokeGoalRefused
<1>15. CASE FailChain
  BY <1>15 DEF FailChain
<1>16. CASE ChainAtRest
  BY <1>16 DEF ChainAtRest
<1>17. CASE LeaveSession
  BY <1>17 DEF LeaveSession
<1>18. CASE ReportDrained
  BY <1>18 DEF ReportDrained
<1>19. CASE CoolDownExpires
  BY <1>19 DEF CoolDownExpires
<1> QED
  BY <1>1, <1>2, <1>3, <1>4, <1>5, <1>6, <1>7, <1>8, <1>9, <1>10, <1>11, <1>12, <1>13,
     <1>14, <1>15, <1>16, <1>17, <1>18, <1>19 DEF StrokeStep

\* The live thread wakes nothing up: a silent route stays silent, an empty
\* path stays empty.
LEMMA LiveOnlySettles ==
    ASSUME LiveTypeOK, LiveStep
    PROVE  /\ active' => active
           /\ atRest => atRest'
           /\ liveQueue = 0 /\ ~target => liveQueue' = 0 /\ ~target'
<1>1. CASE TickRead
  BY <1>1 DEF TickRead, LiveTypeOK
<1>2. CASE HoldPosition
  BY <1>2 DEF HoldPosition, PublishPose
<1>3. CASE Advance
  <2>1. UNCHANGED <<active, atRest>>
    BY <1>3 DEF Advance, PublishPose
  <2>2. ASSUME liveQueue = 0, ~target
        PROVE  liveQueue' = 0 /\ ~target'
    <3>1. ASSUME NEW passed \in 0 .. liveQueue,
                 target' = (passed < liveQueue),
                 liveQueue' = IF passed < liveQueue THEN liveQueue - passed - 1 ELSE 0
          PROVE  liveQueue' = 0 /\ ~target'
      <4>1. ~(passed < liveQueue)
        BY <2>2, <3>1
      <4> QED
        BY <3>1, <4>1
    <3> QED
      BY <1>3, <2>2, <3>1 DEF Advance
  <2> QED
    BY <2>1, <2>2
<1>4. CASE GuardTripped
  BY <1>4 DEF GuardTripped, Deactivate
<1>5. CASE TripReported
  BY <1>5 DEF TripReported
<1>6. CASE TickRecord
  BY <1>6 DEF TickRecord
<1> QED
  BY <1>1, <1>2, <1>3, <1>4, <1>5, <1>6 DEF LiveStep

\* A tick that is already on its way publishes at most once after Servo was
\* silenced: the next one reads the flags first.
LEMMA LatePosesStep ==
    ASSUME IInv, [Next]_drawVars
    PROVE  LatePoses'
<1> USE DEF LatePoses, Publishing
<1>1. CASE DispatcherStep
  <2>1. LiveCall
    BY <1>1, DispatcherCalls DEF IInv
  <2> QED
    BY <2>1 DEF IInv, LiveCall, SetIntent, ReleaseFollow, RestLive, Activated, Deactivate, liveVars
<1>2. CASE LiveThread
  <2>1. CASE TickRead
    BY <2>1 DEF TickRead, TickMoves, IInv, TypeOK, LiveTypeOK
  <2>2. CASE HoldPosition
    BY <2>2 DEF HoldPosition, PublishPose, IInv
  <2>3. CASE Advance
    BY <2>3 DEF Advance, PublishPose, IInv
  <2>4. CASE GuardTripped
    BY <2>4 DEF GuardTripped, Deactivate, IInv
  <2>5. CASE TripReported
    BY <2>5 DEF TripReported, IInv
  <2>6. CASE TickRecord
    BY <2>6 DEF TickRecord, IInv
  <2> QED
    BY <1>2, <2>1, <2>2, <2>3, <2>4, <2>5, <2>6 DEF LiveThread, LiveStep
<1>3. CASE BatchThread \/ StrokeThread \/ Clock \/ UNCHANGED drawVars
  BY <1>3 DEF BatchThread, StrokeThread, Clock, drawVars, routeVars, liveVars, IInv
<1> QED
  BY <1>1, <1>2, <1>3 DEF Next

\* The dispatcher gives Servo nothing to do while it draws, leaves Live only
\* when nothing is drawn any more, and carries a stop in Live out call by
\* call: only a reset that found the stroke thread idle undoes it.
LEMMA DispatcherKeeps ==
    ASSUME IInv, DispatcherStep
    PROVE  ServoRestsWhileDrawing' /\ StrokesServed' /\ Drawing' /\ Stopping'
<1>1. ServoRestsWhileDrawing'
  <2> USE DEF ServoRestsWhileDrawing, IInv, Handling, modeVars, routeVars, liveVars
  <2>1. CASE PenDown
    BY <2>1 DEF PenDown, LiveSample, BeginStroke, AddPoint, RestLive
  <2>2. CASE PenUp
    BY <2>2 DEF PenUp, LiveSample, FinishStrokes, SetIntent, FinishStroke
  <2>3. CASE Unfollow
    BY <2>3 DEF Unfollow, LiveSample, FinishStrokes, ReleaseFollow, FinishStroke
  <2>4. CASE PressStop
    BY <2>4 DEF PressStop, Pressed, EnterStopped, Deactivate
  <2>5. CASE PressExecute
    BY <2>5 DEF PressExecute, Pressed
  <2>6. CASE PressMode
    BY <2>6 DEF PressMode, Pressed
  <2>7. CASE PressReset
    BY <2>7 DEF PressReset, Pressed, StrokeMayReset
  <2>8. CASE StartRouteEvents
    BY <2>8 DEF StartRouteEvents
  <2>9. CASE ResultArrives
    BY <2>9 DEF ResultArrives, RouteEventIs
  <2>10. CASE HealthLost
    BY <2>10 DEF HealthLost, RouteEventIs, EnterStopped, Deactivate
  <2>11. CASE ChainDrained
    BY <2>11 DEF ChainDrained, RouteEventIs
  <2>12. CASE NoLoss
    BY <2>12 DEF NoLoss, PassEnds
  <2>13. CASE InputLost
    <3>1. CASE mode = "live"
      BY <2>13, <3>1 DEF InputLost, PassEnds, FinishStrokes, FinishStroke, RestLive
    <3>2. CASE mode = "executing"
      BY <2>13, <3>2 DEF InputLost, PassEnds, EnterStopped
    <3>3. CASE mode = "batch"
      BY <2>13, <3>3 DEF InputLost, PassEnds
    <3> QED
      BY <3>1, <3>2, <3>3 DEF TypeOK, DispatcherTypeOK
  <2>14. CASE LiveStopCall
    BY <2>14 DEF LiveStopCall, Call
  <2>15. CASE StopStrokes
    BY <2>15 DEF StopStrokes, StrokeStopped
  <2>16. CASE StrokeStopCall
    BY <2>16 DEF StrokeStopCall, Call
  <2>17. CASE BatchReset
    BY <2>17 DEF BatchReset, Call
  <2>18. CASE StrokeReset
    BY <2>18 DEF StrokeReset, Call, StrokeResetDone
  <2>19. CASE ActivateClearsLatch
    BY <2>19 DEF ActivateClearsLatch, Call
  <2>20. CASE ActivateAnswers
    BY <2>20 DEF ActivateAnswers, Call, Activated
  <2>21. CASE LookAtStrokes
    BY <2>21 DEF LookAtStrokes, Call, Active
  <2>22. CASE LeaveLive
    BY <2>22 DEF LeaveLive, Active, RestLive
  <2> QED
    BY <2>1, <2>2, <2>3, <2>4, <2>5, <2>6, <2>7, <2>8, <2>9, <2>10, <2>11, <2>12, <2>13,
       <2>14, <2>15, <2>16, <2>17, <2>18, <2>19, <2>20, <2>21, <2>22 DEF DispatcherStep
<1>2. Drawing'
  <2> USE DEF Drawing, StrokesAllowed, StrokesServed, SessionAhead, IInv, TypeOK, StrokeTypeOK, Handling, modeVars, routeVars, strokeVars, inkVars, askVars, orderVars, ownVars, ChainPlaces
  <2>1. CASE PenDown
    BY <2>1 DEF PenDown, LiveSample, BeginStroke, AddPoint, RestLive
  <2>2. CASE PenUp
    BY <2>2 DEF PenUp, LiveSample, FinishStrokes, SetIntent, FinishStroke
  <2>3. CASE Unfollow
    BY <2>3 DEF Unfollow, LiveSample, FinishStrokes, ReleaseFollow, FinishStroke
  <2>4. CASE PressStop
    BY <2>4 DEF PressStop, Pressed, EnterStopped, Deactivate
  <2>5. CASE PressExecute
    BY <2>5 DEF PressExecute, Pressed
  <2>6. CASE PressMode
    BY <2>6 DEF PressMode, Pressed
  <2>7. CASE PressReset
    BY <2>7 DEF PressReset, Pressed, StrokeMayReset
  <2>8. CASE StartRouteEvents
    BY <2>8 DEF StartRouteEvents
  <2>9. CASE ResultArrives
    BY <2>9 DEF ResultArrives, RouteEventIs
  <2>10. CASE HealthLost
    BY <2>10 DEF HealthLost, RouteEventIs, EnterStopped, Deactivate
  <2>11. CASE ChainDrained
    BY <2>11 DEF ChainDrained, RouteEventIs
  <2>12. CASE NoLoss
    BY <2>12 DEF NoLoss, PassEnds
  <2>13. CASE InputLost
    <3>1. CASE mode = "live"
      BY <2>13, <3>1 DEF InputLost, PassEnds, FinishStrokes, FinishStroke, RestLive
    <3>2. CASE mode = "executing"
      BY <2>13, <3>2 DEF InputLost, PassEnds, EnterStopped
    <3>3. CASE mode = "batch"
      BY <2>13, <3>3 DEF InputLost, PassEnds
    <3> QED
      BY <3>1, <3>2, <3>3 DEF TypeOK, DispatcherTypeOK
  <2>14. CASE LiveStopCall
    BY <2>14 DEF LiveStopCall, Call
  <2>15. CASE StopStrokes
    BY <2>15 DEF StopStrokes, StrokeStopped
  <2>16. CASE StrokeStopCall
    BY <2>16 DEF StrokeStopCall, Call
  <2>17. CASE BatchReset
    BY <2>17 DEF BatchReset, Call
  <2>18. CASE StrokeReset
    BY <2>18 DEF StrokeReset, Call, StrokeResetDone, Stopping
  <2>19. CASE ActivateClearsLatch
    BY <2>19 DEF ActivateClearsLatch, Call
  <2>20. CASE ActivateAnswers
    BY <2>20 DEF ActivateAnswers, Call, Activated
  <2>21. CASE LookAtStrokes
    BY <2>21 DEF LookAtStrokes, Call, Active
  <2>22. CASE LeaveLive
    BY <2>22 DEF LeaveLive, Active, RestLive
  <2> QED
    BY <2>1, <2>2, <2>3, <2>4, <2>5, <2>6, <2>7, <2>8, <2>9, <2>10, <2>11, <2>12, <2>13,
       <2>14, <2>15, <2>16, <2>17, <2>18, <2>19, <2>20, <2>21, <2>22 DEF DispatcherStep
<1>3. Stopping'
  <2> USE DEF Stopping, Drawing, StrokesServed, liveVars, IInv, TypeOK, StrokeTypeOK, Handling, modeVars, routeVars, strokeVars, inkVars, askVars, orderVars, ownVars, ChainPlaces
  <2>1. CASE PenDown
    BY <2>1 DEF PenDown, LiveSample, BeginStroke, AddPoint, RestLive
  <2>2. CASE PenUp
    BY <2>2 DEF PenUp, LiveSample, FinishStrokes, SetIntent, FinishStroke
  <2>3. CASE Unfollow
    BY <2>3 DEF Unfollow, LiveSample, FinishStrokes, ReleaseFollow, FinishStroke
  <2>4. CASE PressStop
    BY <2>4 DEF PressStop, Pressed, EnterStopped, Deactivate
  <2>5. CASE PressExecute
    BY <2>5 DEF PressExecute, Pressed
  <2>6. CASE PressMode
    BY <2>6 DEF PressMode, Pressed
  <2>7. CASE PressReset
    BY <2>7 DEF PressReset, Pressed, StrokeMayReset
  <2>8. CASE StartRouteEvents
    BY <2>8 DEF StartRouteEvents
  <2>9. CASE ResultArrives
    BY <2>9 DEF ResultArrives, RouteEventIs
  <2>10. CASE HealthLost
    BY <2>10 DEF HealthLost, RouteEventIs, EnterStopped, Deactivate
  <2>11. CASE ChainDrained
    BY <2>11 DEF ChainDrained, RouteEventIs
  <2>12. CASE NoLoss
    BY <2>12 DEF NoLoss, PassEnds
  <2>13. CASE InputLost
    <3>1. CASE mode = "live"
      BY <2>13, <3>1 DEF InputLost, PassEnds, FinishStrokes, FinishStroke, RestLive
    <3>2. CASE mode = "executing"
      BY <2>13, <3>2 DEF InputLost, PassEnds, EnterStopped
    <3>3. CASE mode = "batch"
      BY <2>13, <3>3 DEF InputLost, PassEnds
    <3> QED
      BY <3>1, <3>2, <3>3 DEF TypeOK, DispatcherTypeOK
  <2>14. CASE LiveStopCall
    BY <2>14 DEF LiveStopCall, Call
  <2>15. CASE StopStrokes
    BY <2>15 DEF StopStrokes, StrokeStopped
  <2>16. CASE StrokeStopCall
    BY <2>16 DEF StrokeStopCall, Call
  <2>17. CASE BatchReset
    BY <2>17 DEF BatchReset, Call
  <2>18. CASE StrokeReset
    BY <2>18 DEF StrokeReset, Call, StrokeResetDone
  <2>19. CASE ActivateClearsLatch
    BY <2>19 DEF ActivateClearsLatch, Call
  <2>20. CASE ActivateAnswers
    BY <2>20 DEF ActivateAnswers, Call, Activated
  <2>21. CASE LookAtStrokes
    BY <2>21 DEF LookAtStrokes, Call, Active
  <2>22. CASE LeaveLive
    BY <2>22 DEF LeaveLive, Active, RestLive
  <2> QED
    BY <2>1, <2>2, <2>3, <2>4, <2>5, <2>6, <2>7, <2>8, <2>9, <2>10, <2>11, <2>12, <2>13,
       <2>14, <2>15, <2>16, <2>17, <2>18, <2>19, <2>20, <2>21, <2>22 DEF DispatcherStep
<1>4. StrokesServed'
  <2>1. StrokeCall
    BY DispatcherCalls DEF IInv
  <2> QED
    BY <2>1, CallsServe DEF IInv, TypeOK
<1> QED
  BY <1>1, <1>2, <1>3, <1>4

-------------------------------------------------------------------------------
(* The invariant, and what follows from it.                                *)

\* It holds at the start and every step of every thread keeps it.
LEMMA Invariance == Spec => []IInv
<1>1. Init => IInv
  <2> SUFFICES ASSUME Init PROVE IInv
    OBVIOUS
  <2>1. LatePoses /\ ServoRestsWhileDrawing
    BY DEF Init, LiveInit, DispatcherInit, LatePoses, ServoRestsWhileDrawing
  <2>2. StrokesServed /\ Drawing /\ Stopping
    BY DEF Init, StrokeInit, DispatcherInit, StrokesServed, Drawing, Stopping, ChainPlaces
  <2>3. TypeOK
    <3>1. DispatcherTypeOK
      <4>1. presses \in 0 .. MaxPresses
        BY MaxPressesAssumption DEF Init, DispatcherInit
      <4>2. {stopped, following, overlooked} \subseteq BOOLEAN
        BY DEF Init, DispatcherInit
      <4> QED
        BY <4>1, <4>2 DEF Init, DispatcherInit, DispatcherTypeOK
    <3>2. BatchTypeOK
      <4>1. work \in 0 .. MaxWork
        BY MaxWorkAssumption DEF Init, BatchInit
      <4> QED
        BY <4>1 DEF Init, BatchInit, BatchTypeOK
    <3>3. LiveTypeOK
      <4>1. {active, atRest, releasing, target, last} \subseteq BOOLEAN
        BY DEF Init, LiveInit
      <4>2. liveQueue \in 0 .. LiveQueueLimit /\ latePoses \in 0 .. 2
        BY LiveAssumption DEF Init, LiveInit
      <4> QED
        BY <4>1, <4>2 DEF Init, LiveInit, LiveTypeOK
    <3>4. StrokeTypeOK
      BY DEF Init, StrokeInit, StrokeTypeOK
    <3>5. ServiceTypeOK
      <4>1. routeEvents \in Seq(RouteEvent)
        BY EmptySeq DEF Init, ServiceInit
      <4> QED
        BY <4>1 DEF Init, ServiceInit, ServiceTypeOK
    <3> QED
      BY <3>1, <3>2, <3>3, <3>4, <3>5 DEF TypeOK
  <2> QED
    BY <2>1, <2>2, <2>3 DEF IInv
<1>2. IInv /\ [Next]_drawVars => IInv'
  <2> SUFFICES ASSUME IInv, [Next]_drawVars PROVE IInv'
    OBVIOUS
  <2>1. TypeOK' /\ LatePoses'
    BY TypesStep, LatePosesStep DEF IInv
  <2>2. ServoRestsWhileDrawing' /\ StrokesServed' /\ Drawing' /\ Stopping'
    <3>1. CASE DispatcherStep
      BY <3>1, DispatcherKeeps
    <3>2. CASE StrokeThread \/ Clock
      <4>1. UNCHANGED <<modeVars, serviceCall, liveVars>>
        BY <3>2 DEF StrokeThread, Clock, dispatcherVars, modeVars
      <4>2. /\ StrokesServed'
            /\ material' => material
            /\ strokeOpen' => strokeOpen
            /\ sessionRequested' => sessionRequested
            /\ stopFlag => stopFlag'
            /\ strokeThread' \in ChainPlaces =>
                  strokeThread \in ChainPlaces \/ (material /\ ~stopFlag)
        BY <3>2, StrokeOnlyConsumes DEF StrokeThread, Clock, IInv, TypeOK
      <4>3. ServoRestsWhileDrawing'
        BY <4>1 DEF IInv, ServoRestsWhileDrawing, modeVars, liveVars
      <4>4. Drawing'
        <5>1. /\ overlooked /\ SessionAhead' => overlooked'
              /\ serviceCall \in {"atRequest", "atIntake"} /\ ~strokeBusy /\ strokeBusy' => overlooked'
          <6>1. CASE StrokeThread
            BY <6>1 DEF StrokeThread, RememberEntry, SessionAhead
          <6>2. CASE Clock
            BY <6>2 DEF Clock, CoolDownExpires, dispatcherVars
          <6> QED
            BY <3>2, <6>1, <6>2
        <5>2. (material' \/ strokeOpen' \/ strokeThread' \in ChainPlaces) => SessionAhead'
          BY <4>2 DEF StrokesServed, SessionAhead
        <5>3. strokeBusy' => SessionAhead'
          BY DEF SessionAhead
        <5>4. (material \/ strokeOpen \/ strokeThread \in ChainPlaces) => StrokesAllowed \/ overlooked
          BY DEF IInv, Drawing
        <5>5. (material' \/ strokeOpen' \/ strokeThread' \in ChainPlaces) => StrokesAllowed' \/ overlooked'
          BY <4>1, <4>2, <5>1, <5>2, <5>4 DEF StrokesAllowed, modeVars
        <5> QED
          BY <4>1, <5>1, <5>3, <5>5 DEF IInv, TypeOK, StrokeTypeOK, Drawing, modeVars
      <4>5. Stopping'
        BY <4>1, <4>2 DEF IInv, Stopping, modeVars, liveVars
      <4> QED
        BY <4>2, <4>3, <4>4, <4>5
    <3>3. CASE LiveThread
      <4>1. UNCHANGED <<dispatcherVars, strokeVars>>
        BY <3>3 DEF LiveThread
      <4>2. /\ active' => active
            /\ atRest => atRest'
            /\ liveQueue = 0 /\ ~target => liveQueue' = 0 /\ ~target'
        BY <3>3, LiveOnlySettles DEF LiveThread, IInv, TypeOK
      <4>3. ServoRestsWhileDrawing'
        BY <4>1, <4>2 DEF IInv, ServoRestsWhileDrawing, dispatcherVars
      <4>4. Drawing'
        BY <4>1 DEF IInv, Drawing, StrokesAllowed, dispatcherVars, strokeVars, inkVars, ownVars
      <4>6. StrokesServed'
        BY <4>1 DEF IInv, StrokesServed, strokeVars, inkVars, askVars, orderVars, ownVars
      <4>5. Stopping'
        BY <4>1, <4>2 DEF IInv, Stopping, dispatcherVars, strokeVars, inkVars, askVars, orderVars
      <4> QED
        BY <4>3, <4>4, <4>5, <4>6
    <3>4. CASE BatchThread \/ UNCHANGED drawVars
      <4>1. UNCHANGED <<dispatcherVars, liveVars, strokeVars>>
        BY <3>4 DEF BatchThread, drawVars, routeVars
      <4>2. ServoRestsWhileDrawing' /\ Drawing'
        BY <4>1 DEF IInv, ServoRestsWhileDrawing, Drawing, StrokesAllowed, dispatcherVars,
                    liveVars, strokeVars, inkVars, ownVars
      <4>3. Stopping'
        BY <4>1 DEF IInv, Stopping, dispatcherVars, liveVars, strokeVars, inkVars, askVars, orderVars
      <4>4. StrokesServed'
        BY <4>1 DEF IInv, StrokesServed, strokeVars, inkVars, askVars, orderVars, ownVars
      <4> QED
        BY <4>2, <4>3, <4>4
    <3> QED
      BY <3>1, <3>2, <3>3, <3>4 DEF Next
  <2> QED
    BY <2>1, <2>2 DEF IInv
<1> QED
  BY <1>1, <1>2, PTL DEF Spec

\* Every variable stays in its type: the queues of both routes never exceed
\* their limits, whichever thread fills or drains them.
THEOREM TypeCorrect == Spec => []TypeOK
<1>1. IInv => TypeOK
  BY DEF IInv
<1> QED
  BY <1>1, Invariance, PTL

\* However rest, deactivate and the tick interleave, silencing Servo lets at
\* most the pose through that was on its way (tick, rest, deactivate).
THEOREM OneLatePose == Spec => []AtMostOneLatePose
<1>1. IInv => AtMostOneLatePose
  BY DEF IInv, LatePoses, AtMostOneLatePose
<1> QED
  BY <1>1, Invariance, PTL

\* While a stroke is drawn or drains, nothing is queued for Servo and nothing
\* is being driven to (_route_pen_down, _advance, activate).
THEOREM ServoRests == Spec => []ServoRestsWhileDrawing
<1>1. IInv => ServoRestsWhileDrawing
  BY DEF IInv
<1> QED
  BY <1>1, Invariance, PTL

\* Once a stop in Live has made its calls, the flags of both live routes are
\* dead until a reset: Servo inactive, the intake empty, no session asked for.
\* (No more than the flags: a pose on its way and goals the controller already
\* has are AtMostOneLatePose's and the latch's; _enter_stopped, stop.)
THEOREM StopHolds == Spec => []StoppedLiveHolds
<1>1. IInv => StoppedLiveHolds
  BY DEF IInv, Stopping, StoppedLiveHolds
<1> QED
  BY <1>1, Invariance, PTL

\* There is a chain only in Live, while strokes are drawn or drained or a stop
\* collapses it, but for a session the dispatcher has overlooked: one entered
\* between two looks of a mode change, or ahead when the drain report of an
\* earlier one arrived (StrokeChainStreamer.active, _switch_mode,
\* _on_stroke_event).
THEOREM ChainsInLive == Spec => []ChainOnlyInLive
<1>1. IInv => ChainOnlyInLive
  BY DEF IInv, Drawing, StrokesAllowed, ChainOnlyInLive
<1> QED
  BY <1>1, Invariance, PTL

\* A reset in Live releases the latch only when no chain runs, although the
\* busy flag was looked at a service call earlier (StrokeChainStreamer.reset).
THEOREM ResetsFindNoChain == Spec => ResetFindsNoChain
<1>1. ASSUME IInv, [Next]_drawVars, stopped, ~stopped', mode = "live"
      PROVE  strokeThread \notin ChainPlaces
  <2>1. DispatcherStep
    BY <1>1 DEF Next, BatchThread, LiveThread, StrokeThread, Clock, drawVars, dispatcherVars, modeVars
  <2>2. serviceCall \in {"batchReset", "strokeReset"}
    <3> USE <1>1
    <3>1. ~(PenDown \/ PenUp \/ Unfollow)
      BY DEF PenDown, PenUp, Unfollow, LiveSample
    <3>2. ~(PressStop \/ HealthLost)
      BY DEF PressStop, HealthLost, EnterStopped
    <3>3. ~(PressExecute \/ PressMode \/ PressReset)
      BY DEF PressExecute, PressMode, PressReset, modeVars
    <3>4. ~(StartRouteEvents \/ ResultArrives \/ ChainDrained \/ NoLoss)
      BY DEF StartRouteEvents, ResultArrives, ChainDrained, NoLoss, modeVars
    <3>5. ~InputLost
      BY DEF InputLost, EnterStopped, IInv, TypeOK, DispatcherTypeOK, modeVars
    <3>6. ~(LiveStopCall \/ StopStrokes \/ StrokeStopCall \/ ActivateClearsLatch \/ ActivateAnswers)
      BY DEF modeVars, LiveStopCall, StopStrokes, StrokeStopCall, ActivateClearsLatch, ActivateAnswers
    <3>7. ~(LookAtStrokes \/ LeaveLive)
      BY DEF LookAtStrokes, LeaveLive
    <3> QED
      BY <2>1, <3>1, <3>2, <3>3, <3>4, <3>5, <3>6, <3>7 DEF DispatcherStep, BatchReset, StrokeReset, Call
  <2> QED
    BY <1>1, <2>2 DEF IInv, Drawing, Stopping
<1>2. IInv /\ [Next]_drawVars
        => [(stopped /\ ~stopped' /\ mode = "live") => strokeThread \notin ChainPlaces]_drawVars
  BY <1>1
<1> QED
  BY <1>2, Invariance, PTL DEF Spec, ResetFindsNoChain
===============================================================================
