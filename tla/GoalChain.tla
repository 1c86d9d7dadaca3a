------------------------------ MODULE GoalChain ------------------------------
(***************************************************************************)
(* A chain of goals on one open firmware move, streamed by the stroke      *)
(* thread or by the batch thread: each goal is planned before the one in   *)
(* front of it is sent, the controller reads its finalize parameter when   *)
(* it accepts a goal, and a move left open with nothing to execute starves *)
(* (the firmware e-stops). Time is counted in ticks of the poll period.    *)
(***************************************************************************)
EXTENDS StrokeIntake

CONSTANTS
    CloseMargin,    \* chain_close_margin, in ticks
    PlanTicks,      \* bound on the ticks one planning call takes
    MaxInflight,    \* max_inflight
    PlanFaults,     \* may planning fail?
    ParamFaults,    \* clients whose set_finalize may be refused
    MaxStops        \* bound on the operator's stops

ASSUME ChainAssumption ==
    /\ CloseMargin \in Nat /\ PlanTicks \in Nat /\ MaxInflight \in Nat \ {0}
    /\ PlanFaults \in BOOLEAN /\ ParamFaults \subseteq {"stroke", "batch"}
    /\ MaxStops \in Nat

VARIABLES
    client,         \* whose chain it is
    at,             \* where its thread is
    handback, stopFlag,
    pending,        \* the planned goal not sent yet
    window,         \* its successor, being planned or planned
    planned,        \* ticks the planning call has taken
    last,           \* the goal about to be sent is the chain's last
    opened,         \* index > 0
    slack,          \* horizon - clock, at least 0
    cache,          \* FinalizeSwitch.current of each client
    failed,         \* GoalPipeline.failed of each client
    finalizeParam,  \* the controller's finalize_last_chunk
    motion,         \* goals the controller has accepted and not completed
    moveOpen, latch,
    reached,        \* the last waypoint handed to the controller
    starved, shortGoal, windowLost, refused, served,    \* history
    stops

operatorVars == <<client, handback, stopFlag, stops>>
threadVars == <<at, pending, window, planned, last, opened, slack>>
pipelineVars == <<cache, failed>>
controllerVars == <<finalizeParam, motion, moveOpen, latch>>
historyVars == <<reached, starved, shortGoal, windowLost, refused, served>>
chainVars ==
    <<intakeVars, operatorVars, threadVars, pipelineVars, controllerVars, historyVars>>

Client == {"stroke", "batch"}
EmptyGoal == <<>>
Finalize == {"unknown", "true", "false"}
FinalizeOf(final) == IF final THEN "true" ELSE "false"
Goal == [left : Nat, final : BOOLEAN, rests : BOOLEAN]

Init ==
    /\ IntakeInit
    /\ client = "stroke" /\ at = "idle"
    /\ handback = FALSE /\ stopFlag = FALSE
    /\ pending = EmptyGoal /\ window = EmptyGoal /\ planned = 0
    /\ last = FALSE /\ opened = FALSE /\ slack = 0
    /\ cache = [c \in Client |-> "unknown"]
    /\ failed = [c \in Client |-> FALSE]
    /\ finalizeParam = TRUE
    /\ motion = <<>> /\ moveOpen = FALSE /\ latch = FALSE
    /\ reached = [place |-> 0, down |-> FALSE]
    /\ starved = FALSE /\ shortGoal = FALSE /\ windowLost = FALSE
    /\ refused = FALSE /\ served = FALSE
    /\ stops = 0

TypeOK ==
    /\ IntakeTypeOK
    /\ client \in Client
    /\ at \in {"idle", "look", "poll", "plan", "switch", "pace", "drain", "restore"}
    /\ {handback, stopFlag, last, opened, finalizeParam, moveOpen, latch, starved,
        shortGoal, windowLost, refused, served} \subseteq BOOLEAN
    /\ pending \in Seq(Waypoint) /\ window \in Seq(Waypoint)
    /\ planned \in 0 .. PlanTicks /\ slack \in Nat
    /\ cache \in [Client -> Finalize] /\ failed \in [Client -> BOOLEAN]
    /\ motion \in Seq(Goal) /\ Len(motion) <= MaxInflight
    /\ reached \in Waypoint
    /\ stops \in 0 .. MaxStops

-------------------------------------------------------------------------------
(* The operator and the coordination thread, towards the stroke route.     *)

StrokeRoute == client = "stroke" /\ ~stopFlag
KeepsChain ==
    UNCHANGED <<client, stopFlag, stops, threadVars, pipelineVars, controllerVars, historyVars>>

\* A sample with the pen down: the first one begins a stroke.
PenDown ==
    /\ StrokeRoute
    /\ IF strokeOpen
       THEN AddPoint /\ UNCHANGED handback
       ELSE BeginStroke /\ handback' = FALSE
    /\ KeepsChain

\* end_stroke, then request_handback.
PenUp ==
    /\ StrokeRoute
    /\ EndStroke
    /\ handback' = TRUE
    /\ KeepsChain

\* The controller's stop aborts what it executes, and with it the move.
StopCall ==
    /\ latch' = TRUE /\ motion' = <<>> /\ moveOpen' = FALSE
    /\ failed' = [failed EXCEPT ![client] = @ \/ motion # <<>>]
    /\ UNCHANGED <<finalizeParam, cache>>

Stop ==
    /\ stops < MaxStops /\ stops' = stops + 1
    /\ StopCall
    /\ IF client = "stroke"
       THEN stopFlag' = TRUE /\ ClearIntake
       ELSE UNCHANGED <<stopFlag, intakeVars>>
    /\ UNCHANGED <<client, handback, threadVars, historyVars>>

\* Refused while a route winds down, and by a controller with no latch.
Reset ==
    /\ at = "idle" /\ latch
    /\ latch' = FALSE /\ stopFlag' = FALSE
    /\ starved' = FALSE /\ shortGoal' = FALSE
    /\ UNCHANGED <<intakeVars, client, handback, stops, threadVars, pipelineVars,
                   finalizeParam, motion, moveOpen, reached, windowLost, refused, served>>

-------------------------------------------------------------------------------
(* Opening a chain: goal 0 is planned from the joints as they are.         *)

OpenChain ==
    /\ at' = "plan"
    /\ UNCHANGED <<pending, planned, last, opened, slack>>

\* The call that streams the chain returns; what it planned is gone.
ChainOver ==
    /\ at' = "idle"
    /\ pending' = EmptyGoal /\ window' = EmptyGoal /\ planned' = 0
    /\ last' = FALSE /\ opened' = FALSE /\ slack' = 0

StartStrokeChain ==
    /\ StrokeRoute
    /\ at = "idle" /\ points # <<>>
    /\ OpenChain
    /\ window' = CutWindow(TRUE) /\ TakeWindow(TRUE)
    /\ starved' = FALSE /\ shortGoal' = FALSE
    /\ UNCHANGED <<operatorVars, pipelineVars, controllerVars, reached, windowLost, refused,
                   served>>

\* An execution: a latch is dropped, the sender's switch and pipeline are
\* new, and the drawing's waypoints are there from the start.
StartBatchChain ==
    /\ at = "idle" /\ points = <<>> /\ ~strokeOpen /\ ~stopFlag
    /\ appended < MaxPoints
    /\ client' = "batch" /\ handback' = FALSE
    /\ latch' = FALSE
    /\ cache' = [cache EXCEPT !["batch"] = "unknown"]
    /\ failed' = [failed EXCEPT !["batch"] = FALSE]
    /\ OpenChain
    /\ \E length \in 1 .. MaxPoints - appended :
          LET drawing == [i \in 1 .. length |-> [place |-> appended + i, down |-> i > 1]]
              first == IF length < GoalPoints THEN length ELSE GoalPoints IN
          /\ window' = SubSeq(drawing, 1, first)
          /\ points' = SubSeq(drawing, first + 1, length)
          /\ appended' = appended + length
    /\ starved' = FALSE /\ shortGoal' = FALSE
    /\ UNCHANGED <<tailDown, strokeOpen, stopFlag, stops, finalizeParam, motion, moveOpen,
                   reached, windowLost, refused, served>>

-------------------------------------------------------------------------------
(* Planning.                                                               *)

\* stream_goals returns; run_streamed still restores the parameter.
GiveUp == at' = "restore" /\ UNCHANGED <<intakeVars, pending, window, planned, last, opened, slack>>

Planned ==
    /\ at = "plan"
    /\ planned' = 0
    /\ IF pending = EmptyGoal
       THEN /\ pending' = window /\ window' = EmptyGoal
            /\ at' = "look"
       ELSE /\ at' = "switch"
            /\ UNCHANGED <<pending, window>>
    /\ UNCHANGED <<intakeVars, operatorVars, last, opened, slack, pipelineVars,
                   controllerVars, historyVars>>

\* Goal 0 does not plan: the intake is dropped. A later goal does not plan:
\* its window is lost and the goal before it ends the chain.
PlanFails ==
    /\ PlanFaults
    /\ at = "plan"
    /\ windowLost' = TRUE
    /\ IF pending = EmptyGoal
       THEN IF client = "stroke"
            THEN ChainOver /\ ClearIntake
            ELSE GiveUp
       ELSE /\ at' = "switch" /\ last' = TRUE
            /\ window' = EmptyGoal /\ planned' = 0
            /\ UNCHANGED <<intakeVars, pending, opened, slack>>
    /\ UNCHANGED <<operatorVars, pipelineVars, controllerVars, reached, starved, shortGoal,
                   refused, served>>

-------------------------------------------------------------------------------
(* _next_window: the successor, or the chain's end.                        *)

\* Mutant of DeadlineNear: no margin. Mutant of Draining: not what is left over.
DeadlineReached == opened /\ slack = 0
DrainingNothing == handback /\ ~strokeOpen /\ points = <<>>

DeadlineNear == opened /\ slack < CloseMargin
Draining == handback /\ ~strokeOpen
Flush == client = "batch" \/ DeadlineNear \/ Draining
Successor == WindowLength(Flush) > 0

Look(from) ==
    /\ at = from
    /\ UNCHANGED <<operatorVars, pending, planned, opened, slack, pipelineVars,
                   controllerVars, historyVars>>

\* A pipeline that has failed plans nothing more (the batch route looks at
\* it here, the stroke route when it sends).
FindSuccessor ==
    /\ Look("look")
    /\ ~stopFlag /\ Successor
    /\ ~(client = "batch" /\ failed["batch"])
    /\ window' = CutWindow(Flush) /\ TakeWindow(Flush)
    /\ at' = "plan"
    /\ UNCHANGED last

WaitForPoints ==
    /\ Look("look")
    /\ ~stopFlag /\ ~Successor
    /\ ~Flush
    /\ at' = "poll"
    /\ UNCHANGED <<intakeVars, window, last>>

CloseChain ==
    /\ Look("look")
    /\ ~stopFlag
    /\ (~Successor /\ Flush) \/ (client = "batch" /\ failed["batch"])
    /\ at' = "switch" /\ last' = TRUE
    /\ UNCHANGED <<intakeVars, window>>

\* The route is stopped: only the aborted results are collected.
LeaveStopped ==
    /\ Look("look")
    /\ stopFlag
    /\ at' = "drain"
    /\ UNCHANGED <<intakeVars, window, last>>

-------------------------------------------------------------------------------
(* _submit: set the parameter, wait for room, send.                        *)

\* Mutant of SetFinalize: what is cached is not compared.
SetFinalizeOnce(final) ==
    /\ cache' = [cache EXCEPT ![client] = FinalizeOf(final)]
    /\ finalizeParam' = IF cache[client] # "unknown" THEN finalizeParam ELSE final
    /\ UNCHANGED <<failed, motion, moveOpen, latch, historyVars>>

SetFinalize(final) ==
    /\ cache' = [cache EXCEPT ![client] = FinalizeOf(final)]
    /\ finalizeParam' = IF cache[client] = FinalizeOf(final) THEN finalizeParam ELSE final
    /\ UNCHANGED <<failed, motion, moveOpen, latch, historyVars>>

SwitchForGoal ==
    /\ at = "switch" /\ at' = "pace"
    /\ SetFinalize(last)
    /\ UNCHANGED <<intakeVars, operatorVars, pending, window, planned, last, opened, slack>>

\* Mutants of StopsController: never; of RoomInPipeline: off by one.
StopsNothing == FALSE
RoomForOneMore == Len(motion) <= MaxInflight

StopsController == client = "stroke" /\ ~stopFlag
RoomInPipeline == Len(motion) < MaxInflight

\* The goal is not sent. The stroke route stops itself, and the controller
\* unless that was done already; the batch route gives up.
NotSent(broken) ==
    /\ IF client = "stroke"
       THEN /\ ChainOver /\ ClearIntake
            /\ stopFlag' = TRUE
       ELSE GiveUp /\ UNCHANGED stopFlag
    /\ IF StopsController
       THEN latch' = TRUE /\ motion' = <<>> /\ moveOpen' = FALSE
       ELSE UNCHANGED <<latch, motion, moveOpen>>
    /\ failed' = [failed EXCEPT ![client] = @ \/ broken \/ motion' # motion]
    /\ UNCHANGED <<cache, client, handback, stops, reached, starved,
                   shortGoal, windowLost>>

\* set_finalize fails or times out, and one that timed out may have been served:
\* the client's cache does not know.
SwitchRefused ==
    /\ at = "switch"
    /\ client \in ParamFaults
    /\ cache[client] # FinalizeOf(last)
    /\ NotSent(FALSE)
    /\ finalizeParam' \in {finalizeParam, last}
    /\ refused' = TRUE
    /\ served' = (served \/ finalizeParam' # finalizeParam)

GoalRefused ==
    /\ at = "pace"
    /\ failed[client] \/ (RoomInPipeline /\ latch)
    /\ NotSent(TRUE)
    /\ UNCHANGED <<finalizeParam, refused, served>>

\* The controller reads its parameter as it accepts the goal.
GoalAccepted ==
    /\ at = "pace"
    /\ ~failed[client] /\ RoomInPipeline /\ ~latch
    /\ motion' = Append(motion, [left |-> Len(pending), final |-> finalizeParam, rests |-> last])
    /\ moveOpen' = ~finalizeParam
    /\ slack' = slack + Len(pending)
    /\ opened' = TRUE
    /\ reached' = pending[Len(pending)]
    /\ shortGoal' = (shortGoal \/ (~last /\ Len(pending) <= PlanTicks))
    /\ at' = IF last THEN "drain" ELSE "look"
    /\ pending' = window /\ window' = EmptyGoal
    /\ UNCHANGED <<intakeVars, operatorVars, planned, last, pipelineVars, finalizeParam,
                   latch, starved, windowLost, refused, served>>

\* Every goal has its result.
Drained ==
    /\ at = "drain"
    /\ motion = <<>>
    /\ IF client = "stroke" THEN ChainOver /\ UNCHANGED intakeVars ELSE GiveUp
    /\ UNCHANGED <<operatorVars, pipelineVars, controllerVars, historyVars>>

\* run_streamed leaves the parameter as it found it.
RestoreFinalize ==
    /\ at = "restore"
    /\ SetFinalize(TRUE)
    /\ ChainOver /\ ClearIntake
    /\ client' = "stroke"
    /\ UNCHANGED <<handback, stopFlag, stops>>

-------------------------------------------------------------------------------
(* Time. The threads act before the next tick; planning takes a while.     *)

Waiting ==
    \/ at \in {"idle", "poll", "drain"}
    \/ at = "plan" /\ planned < PlanTicks
    \/ at = "pace" /\ ~RoomInPipeline /\ ~failed[client]

Execute ==
    IF motion = <<>> THEN UNCHANGED <<motion, moveOpen, latch, starved>>
    ELSE LET done == Head(motion).left <= 1 
             starves == done /\ Len(motion) = 1 /\ moveOpen IN
         /\ motion' = IF done THEN Tail(motion)
                      ELSE [motion EXCEPT ![1].left = @ - 1]
         /\ moveOpen' = (moveOpen /\ ~starves)
         /\ latch' = (latch \/ starves)
         /\ starved' = (starved \/ starves)

Tick ==
    /\ Waiting
    /\ at' = IF at = "poll" THEN "look" ELSE at
    /\ planned' = IF at = "plan" THEN planned + 1 ELSE planned
    /\ slack' = IF slack > 0 THEN slack - 1 ELSE 0
    /\ Execute
    /\ UNCHANGED <<intakeVars, operatorVars, pending, window, last, opened, pipelineVars,
                   finalizeParam, reached, shortGoal, windowLost, refused, served>>

-------------------------------------------------------------------------------

Operator == PenDown \/ PenUp \/ Stop \/ Reset
Start == StartStrokeChain \/ StartBatchChain
ChainStep ==
    \/ Planned \/ PlanFails \/ FindSuccessor \/ WaitForPoints \/ CloseChain \/ LeaveStopped
    \/ SwitchForGoal \/ SwitchRefused \/ GoalRefused \/ GoalAccepted \/ Drained \/ RestoreFinalize

Next == Operator \/ Start \/ ChainStep \/ Tick

Spec == Init /\ [][Next]_chainVars

FairSpec == Spec /\ WF_chainVars(ChainStep) /\ WF_chainVars(Tick)

-------------------------------------------------------------------------------

\* An open move starves only behind a goal whose motion is shorter than the
\* planning of a successor may take: with longer goals the close margin, the
\* one-goal lag and the pacing leave the controller something to execute, unless
\* a set_finalize that timed out was served (_next_window, _run_chain,
\* stream_goals, GoalPipeline.submit, FinalizeSwitch).
StarvesOnlyBehindShortGoal == starved => shortGoal \/ served

\* The controller reads a parameter that two clients set and each caches. A
\* goal retimed to end at rest is accepted as final unless a set_finalize that
\* timed out was served; one retimed to flow on is accepted so unless setting
\* the parameter failed once. This needs a chain to be closed more than a poll
\* before its motion runs out (FinalizeSwitch, _submit, run_streamed).
SeamsMatchFinalize ==
    \A i \in DOMAIN motion :
        /\ motion[i].rests => motion[i].final \/ served
        /\ motion[i].final => motion[i].rests \/ refused

\* Once a chain is over nothing is left open on the firmware, however it
\* ended (_close_chain, _fail_chain, stream_goals).
NoMoveLeftOpen == at = "idle" => ~moveOpen

Contiguous(a, b) == b.place = a.place + 1 \/ ~b.down

\* What the arm has been sent, what is planned and what waits is one path.
Path == <<reached>> \o pending \o window \o points

\* The pen is down only along the polyline that was drawn: the arm never
\* cuts across with the pen down, over chain ends and dropped samples, as
\* long as no planned window was lost (begin_stroke, end_stroke, take_window).
PenFollowsPolyline ==
    windowLost \/ \A i \in 1 .. Len(Path) - 1 : Contiguous(Path[i], Path[i + 1])

\* A hand-back drains the chain, unless the pen goes down again
\* (request_handback, _next_window, drain).
HandbackDrains ==
    (handback /\ ~strokeOpen /\ at # "idle") ~> (at = "idle" \/ ~handback)
===============================================================================
