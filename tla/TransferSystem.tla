---------------------------- MODULE TransferSystem ----------------------------
(***************************************************************************)
(* The controller and the hardware plugin on one control loop, with the    *)
(* executor thread and the firmware running beside it.                     *)
(***************************************************************************)
EXTENDS PassthroughController, RapidCodeHardware

vars == <<interfaceVars, controllerVars, hardwareVars>>

Init == InterfaceInit /\ ControllerInit /\ HardwareInit

Next ==
    \/ ControllerStep /\ UNCHANGED hardwareVars
    \/ HardwareStep /\ UNCHANGED controllerVars

Spec == Init /\ [][Next]_vars

\* controller_manager calls read, update and write periodically; the firmware
\* runs on its own clock; the executor finishes the callback it is in and the
\* monitor timer keeps ticking. Operators, clients and faults owe nothing.
Fairness ==
    /\ WF_vars((UpdateStep /\ UNCHANGED hardwareVars)
               \/ ((Read \/ WriteStep) /\ UNCHANGED controllerVars))
    /\ WF_vars((ExecuteFrame \/ MotionDone \/ GroupSettles
                \/ (OutOfFrames /\ frames = <<>>)) /\ UNCHANGED controllerVars)
    /\ WF_vars((StopRequests \/ ResetRequests \/ \E g \in Goal : HandleAccepted(g) \/ PruneGoal(g))
               /\ UNCHANGED hardwareVars)

FairSpec == Spec /\ Fairness

TypeOK == InterfaceTypeOK /\ ControllerTypeOK /\ HardwareTypeOK

-------------------------------------------------------------------------------
(* What the pieces promise together.                                       *)

\* The ids whose points are on their way: in the slot, the FIFO or the
\* firmware buffer.
WaitingChunkIds ==
    IF CommandWaiting /\ command.token = "AppendChunk" THEN {currentTrajectoryId} ELSE {}

UnexecutedIds == WaitingChunkIds \cup QueuedIds \cup FrameIds

\* A goal reported successful has had every point executed: none is still in
\* the slot, the FIFO or the firmware, and none was ever discarded by a stop,
\* a reset, an abort or a fault (UpdateCompletion, RetireCompletedGoals,
\* AbortTransfer, HandleStop).
SucceededWasExecuted ==
    \A g \in Goal : result[g] = "succeeded" =>
        /\ trajectoryId[g] \notin UnexecutedIds
        /\ trajectoryId[g] \notin dropped

\* While no fault is latched, the plugin's completion thresholds are the
\* trajectories the controller has begun and still waits for, in order: no
\* stop, reset or fault resynchronises the one side's counters under the
\* other, which would hang a client or retire the wrong goal
\* (ResetCompletionTracking, UpdateCompletion against feeding_ and inflight_).
Begun == IF feeding = NoGoal THEN inflight ELSE Append(inflight, feeding)

Awaited(n) == [i \in 1 .. Len(Begun) - n |-> trajectoryId[Begun[n + i]]]

Thresholds ==
    [i \in DOMAIN trajectoryCompletions |-> trajectoryCompletions[i].id]
        \o (IF CommandWaiting /\ command.token = "Begin" THEN <<command.id>> ELSE <<>>)

CompletionTracksGoals ==
    (errorCode = 0 /\ Begun # <<>>) =>
        \E n \in 0 .. Len(Begun) :
            /\ \A i \in 1 .. Len(Begun) : trajectoryId[Begun[i]] <= completedId <=> i <= n
            /\ Thresholds = Awaited(n)

\* Once a stop is latched and its Stop consumed, nothing is queued and the
\* group is not moving, whatever was in the slot, the FIFO or the executor
\* when it was called, unless the e-stop itself threw (ServiceOperatorStop,
\* HandleStop).
StopServed ==
    /\ stopLatched /\ ~stopRequested /\ ~stopCommandPending
    /\ executor[1] # "stop"
    /\ PrevAcked

StoppedStaysStopped ==
    StopServed =>
        /\ excessChunks = <<>>
        /\ group = "MOVING" => cause = "unstopped"

\* A Reset, which forgets the open move without stopping it, never reaches
\* the hardware while the group moves, unless its release came between the two
\* stores of a ~/stop or the e-stop that was to stop it threw
\* (ServiceOperatorStop; HandleReset clears firstChunk and the FIFO but not the
\* firmware's buffer).
ResetFindsGroupAtRest ==
    (Consuming("Reset") /\ ~overtaken /\ cause # "unstopped") => group # "MOVING"

\* The reopen latch agrees with the firmware: while a streamed move is open
\* and running, the next chunk continues it instead of opening another one
\* on top of it, with the same exceptions (firstChunk, FeedChunk, the reopen
\* gate).
ReopenLatchAgrees ==
    (streamOpen /\ group = "MOVING" /\ ~overtaken /\ cause # "unstopped") => ~firstChunk

\* A command the hardware has not consumed is overwritten only after a write
\* fault has been latched, when the goal behind it is being aborted
\* (EmitCommand(None) in a cycle that is not acked, WriteFails).
UnackedCommandSurvives ==
    [][(command' # command /\ CommandWaiting) => errorCode # 0]_vars

\* While a fault is latched the group is not moving, unless the e-stop threw,
\* and cannot be set moving: the command that was already in the slot, the chunk
\* it may carry and the cycle the controller needs to see the fault start
\* nothing (AbortTransfer, DrainQueue, HandleHardwareFault).
LatchedFaultHoldsMotion ==
    errorCode # 0 =>
        /\ group = "MOVING" => cause = "unstopped"
        /\ excessChunks # <<>> => Faulted

\* The accepted goals that have no result yet, oldest first, and what has
\* become of every goal: where GoalContract finds its variables here.
Unfed == pending \o incoming

Order == Begun \o Unfed

Status ==
    [g \in Goal |-> IF result[g] # "none" THEN result[g]
                    ELSE IF client[g] = "active" THEN "accepted"
                    ELSE client[g]]

Contract == INSTANCE GoalContract WITH status <- Status, order <- Order

\* Through incoming_, pending_, feeding_ and inflight_ no goal is lost,
\* duplicated, overtaken or ended twice, whatever stops, faults and resets
\* strike (HandleAccepted, DrainIncomingGoals, TryAdoptPendingGoal,
\* FeedActionChunk, RetireCompletedGoals, AbortAllGoals).
KeepsGoalContract == Contract!Spec

\* Every goal a client was told is active gets a result, under drive faults
\* and operator stops, as long as the control loop, the firmware and the
\* executor keep running.
EveryGoalEnds ==
    \A g \in Goal : client[g] = "active" ~> result[g] # "none"

\* Releasing an operator stop brings the group back to rest, ready to move,
\* with no second Reset, unless a fault is latched in its place (HandleReset
\* and the ClearFaults it defers to DrainQueue).
ReleasedStopRecovers ==
    (Consuming("Reset") /\ cause = "commanded")
        ~> (group = "IDLE" \/ errorCode # 0 \/ stopLatched)
===============================================================================
