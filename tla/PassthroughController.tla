------------------------- MODULE PassthroughController -------------------------
(***************************************************************************)
(* The passthrough trajectory controller with its online (jog) stream      *)
(* disabled: the goal pipeline, the operator stop and the fault hold.      *)
(*                                                                         *)
(* update() runs on the control thread. The executor thread runs the       *)
(* action server's callbacks, the ~/stop and ~/reset_fault services and    *)
(* the goal-monitor timer, one callback at a time. The two share atomics   *)
(* and the incoming_ queue, so update() is cut where it touches them, and  *)
(* a callback that touches two of them is two steps.                       *)
(*                                                                         *)
(* Positions are not modelled: whether a first point continues the chain   *)
(* and whether an endpoint is within tolerance are free choices.           *)
(***************************************************************************)
EXTENDS TransferProtocol, FiniteSets

CONSTANTS
    Goal,               \* the goals clients may send, each at most once
    Points,             \* number of points of each goal
    NoGoal,
    ChunkSize,          \* chunk_size_
    MaxInFlightGoals,   \* kMaxInFlightGoals
    MaxStops,           \* bound on the calls of ~/stop
    MaxResets           \* bound on the accepted calls of ~/reset_fault

ASSUME GoalAssumption == /\ NoGoal \notin Goal
                         /\ IsFiniteSet(Goal)
                         /\ Points \in [Goal -> Nat \ {0}]
ASSUME ControllerAssumption == /\ ChunkSize \in Nat \ {0}
                               /\ MaxInFlightGoals \in Nat
                               /\ MaxStops \in Nat
                               /\ MaxResets \in Nat

\* Where update() is: "begin" reads the hardware and retires goals, then one
\* of the fault hold, the operator hold and the action stream. Either hold
\* releases with several stores to the shared latches: it is cut in between.
Phase == {"begin", "fault", "faultRelease", "gate", "hold", "stopRelease", "stream"}

\* What the executor thread is in the middle of.
Idle == <<"idle", NoGoal>>
Callback == {"idle", "accept", "stop", "reset", "flushed"} \X (Goal \cup {NoGoal})

VARIABLES
    phase,
    incoming,           \* accepted on the executor, not seen by update()
    pending,            \* not yet fed
    feeding,            \* the goal whose chunks are being emitted
    nextIndex,          \* its next point
    inflight,           \* fully fed, awaiting completion
    nextTrajectoryId,
    trajectoryId,       \* the id each goal was given at its BEGIN (0: none)
    finalize,           \* whether the goal's last chunk closes the move
    stopRequested,
    stopLatched,
    stopCommandPending,
    resetRequested,
    hardwareErrorCode,  \* the executor's mirror of error_code
    result,             \* set by update() in the goal's realtime handle
    client,             \* what the goal's client has been told
    monitored,          \* goals the monitor timer still flushes
    executor,
    stopCalls,
    resetCalls,
    overtaken           \* history: a latch was released under a ~/stop under way

pipelineVars == <<incoming, pending, feeding, nextIndex, inflight,
                  nextTrajectoryId, trajectoryId, finalize>>
latchVars == <<stopRequested, stopLatched, stopCommandPending, resetRequested>>
callVars == <<stopCalls, resetCalls, overtaken>>
controllerVars == <<phase, pipelineVars, latchVars, hardwareErrorCode, result,
                    client, monitored, executor, callVars>>

ControllerTypeOK ==
    /\ phase \in Phase
    /\ incoming \in Seq(Goal)
    /\ pending \in Seq(Goal)
    /\ feeding \in Goal \cup {NoGoal}
    /\ nextIndex \in Nat
    /\ inflight \in Seq(Goal)
    /\ nextTrajectoryId \in Nat \ {0}
    /\ trajectoryId \in [Goal -> Nat]
    /\ finalize \in [Goal -> BOOLEAN]
    /\ stopRequested \in BOOLEAN
    /\ stopLatched \in BOOLEAN
    /\ stopCommandPending \in BOOLEAN
    /\ resetRequested \in BOOLEAN
    /\ hardwareErrorCode \in ErrorCode
    /\ result \in [Goal -> {"none", "succeeded", "aborted"}]
    /\ client \in [Goal -> {"new", "rejected", "active", "succeeded", "aborted"}]
    /\ monitored \in SUBSET Goal
    /\ executor \in Callback
    /\ stopCalls \in Nat
    /\ resetCalls \in Nat
    /\ overtaken \in BOOLEAN

ControllerInit ==
    /\ phase = "begin"
    /\ incoming = <<>>
    /\ pending = <<>>
    /\ feeding = NoGoal
    /\ nextIndex = 0
    /\ inflight = <<>>
    /\ nextTrajectoryId = 1
    /\ trajectoryId = [g \in Goal |-> 0]
    /\ finalize = [g \in Goal |-> TRUE]
    /\ stopRequested = FALSE
    /\ stopLatched = FALSE
    /\ stopCommandPending = FALSE
    /\ resetRequested = FALSE
    /\ hardwareErrorCode = 0
    /\ result = [g \in Goal |-> "none"]
    /\ client = [g \in Goal |-> "new"]
    /\ monitored = {}
    /\ executor = Idle
    /\ stopCalls = 0
    /\ resetCalls = 0
    /\ overtaken = FALSE

-------------------------------------------------------------------------------
(* update() on the control thread.                                         *)

Members(seq) == {seq[i] : i \in DOMAIN seq}

\* Mutant of Held: the goals in flight are forgotten.
HeldButInFlight == Members(pending) \cup ({feeding} \ {NoGoal})

\* The goals update() holds and AbortAllGoals ends.
Held == Members(inflight) \cup Members(pending) \cup ({feeding} \ {NoGoal})

\* update() emits and returns; write() is next.
EndUpdate == phase' = "begin" /\ turn' = "drain"

\* Mutant of FaultSeen: the mirror of the cycle before is read.
FaultSeenLate == hardwareErrorCode # 0

FaultSeen == errorCode # 0

\* ReadHardwareState, the error mirror, DrainIncomingGoals (skipped while the
\* executor pushes a goal), RetireCompletedGoals. Only a goal that closed its
\* move has its endpoint checked.
BeginUpdate ==
    /\ turn = "update" /\ phase = "begin"
    /\ hardwareErrorCode' = errorCode
    /\ \/ incoming' = <<>> /\ pending' = pending \o incoming
       \/ executor[1] = "accept" /\ UNCHANGED <<incoming, pending>>
    /\ \E n \in 0 .. Len(inflight) :
        LET retired == {inflight[i] : i \in 1 .. n} IN
        /\ \A g \in retired : trajectoryId[g] <= completedId
        /\ n < Len(inflight) => trajectoryId[inflight[n + 1]] > completedId
        /\ inflight' = SubSeq(inflight, n + 1, Len(inflight))
        /\ \E missed \in SUBSET {g \in retired : finalize[g]} :
              result' = [g \in Goal |-> IF g \in missed THEN "aborted"
                                        ELSE IF g \in retired THEN "succeeded"
                                        ELSE result[g]]
    /\ phase' = IF FaultSeen THEN "fault" ELSE "gate"
    /\ UNCHANGED <<interfaceVars, feeding, nextIndex, nextTrajectoryId, trajectoryId,
                   finalize, latchVars, client, monitored, executor, callVars>>

AbortAllGoals ==
    /\ result' = [g \in Goal |-> IF g \in Held THEN "aborted" ELSE result[g]]
    /\ feeding' = NoGoal
    /\ nextIndex' = 0
    /\ inflight' = <<>>
    /\ pending' = <<>>
    /\ UNCHANGED <<incoming, nextTrajectoryId, trajectoryId, finalize>>

HoldVars == <<ackSequence, errorCode, completedId, hardwareErrorCode, client,
              monitored, executor, callVars>>

\* HandleHardwareFault: abort everything and hold.
FaultHold ==
    /\ turn = "update" /\ phase = "fault"
    /\ ~(resetRequested /\ PrevAcked)
    /\ AbortAllGoals
    /\ EmitNothing
    /\ EndUpdate
    /\ UNCHANGED <<HoldVars, latchVars>>

\* Or abort everything and acknowledge: one Reset releases a stop latch too,
\* and drops a Stop that was still owed.
FaultReset ==
    /\ turn = "update" /\ phase = "fault"
    /\ resetRequested /\ PrevAcked
    /\ AbortAllGoals
    /\ resetRequested' = FALSE
    /\ stopLatched' = FALSE
    /\ phase' = "faultRelease"
    /\ UNCHANGED <<HoldVars, turn, command, stopRequested, stopCommandPending>>

FaultRelease ==
    /\ turn = "update" /\ phase = "faultRelease"
    /\ stopRequested' = FALSE
    /\ stopCommandPending' = FALSE
    /\ Emit([command EXCEPT !.token = "Reset"])
    /\ EndUpdate
    /\ UNCHANGED <<HoldVars, pipelineVars, stopLatched, resetRequested, result>>

CheckStopLatch ==
    /\ turn = "update" /\ phase = "gate"
    /\ phase' = IF stopLatched THEN "hold" ELSE "stream"
    /\ UNCHANGED <<interfaceVars, pipelineVars, latchVars, hardwareErrorCode, result,
                   client, monitored, executor, callVars>>

\* Mutants of StopOwed: a waiting Reset goes first, and a request is dropped.
StopYieldsToReset == ~resetRequested /\ (stopCommandPending \/ stopRequested)
StopNeverOwed == stopCommandPending

StopOwed == stopCommandPending \/ stopRequested

\* ServiceOperatorStop, latched: abort everything and emit the Stop that is
\* owed as soon as the mailbox is free.
OperatorHold ==
    /\ turn = "update" /\ phase = "hold"
    /\ ~(~StopOwed /\ resetRequested /\ PrevAcked)
    /\ AbortAllGoals
    /\ stopRequested' = FALSE
    /\ \/ /\ StopOwed /\ PrevAcked
          /\ stopCommandPending' = FALSE
          /\ Emit([command EXCEPT !.token = "Stop"])
       \/ /\ ~(StopOwed /\ PrevAcked)
          /\ stopCommandPending' = StopOwed
          /\ EmitNothing
    /\ EndUpdate
    /\ UNCHANGED <<HoldVars, stopLatched, resetRequested>>

\* With no Stop owed, a Reset releases the latch; a ~/stop that has set the
\* latch and not the request yet is overtaken.
StopReset ==
    /\ turn = "update" /\ phase = "hold"
    /\ ~StopOwed /\ resetRequested /\ PrevAcked
    /\ AbortAllGoals
    /\ stopRequested' = FALSE
    /\ resetRequested' = FALSE
    /\ stopCommandPending' = FALSE
    /\ phase' = "stopRelease"
    /\ overtaken' = (overtaken \/ executor[1] = "stop")
    /\ UNCHANGED <<ackSequence, errorCode, completedId, hardwareErrorCode, client,
                   monitored, executor, stopCalls, resetCalls, turn, command, stopLatched>>

StopRelease ==
    /\ turn = "update" /\ phase = "stopRelease"
    /\ stopLatched' = FALSE
    /\ Emit([command EXCEPT !.token = "Reset"])
    /\ EndUpdate
    /\ UNCHANGED <<HoldVars, pipelineVars, stopRequested, stopCommandPending,
                   resetRequested, result>>

\* A healthy cycle: a reset request that is still there is stale. The action
\* stream moves only when the mailbox is free.
HealthyCycle ==
    /\ turn = "update" /\ phase = "stream"
    /\ resetRequested' = FALSE
    /\ EndUpdate
    /\ UNCHANGED <<ackSequence, errorCode, completedId, incoming, finalize,
                   stopRequested, stopLatched, stopCommandPending,
                   hardwareErrorCode, client, monitored, executor, callVars>>

MayAdopt == PrevAcked /\ feeding = NoGoal /\ pending # <<>>

\* TryAdoptPendingGoal: the goal gets the next id, the hardware a BEGIN.
AdoptGoal ==
    /\ HealthyCycle
    /\ MayAdopt
    /\ feeding' = Head(pending)
    /\ pending' = Tail(pending)
    /\ nextIndex' = 0
    /\ trajectoryId' = [trajectoryId EXCEPT ![Head(pending)] = nextTrajectoryId]
    /\ nextTrajectoryId' = nextTrajectoryId + 1
    /\ Emit([command EXCEPT !.token = "Begin", !.id = nextTrajectoryId,
                            !.size = Points[Head(pending)]])
    /\ UNCHANGED <<inflight, result>>

\* A goal that does not start where the chain ends is aborted, not streamed.
RefuseDiscontinuousGoal ==
    /\ HealthyCycle
    /\ MayAdopt
    /\ pending' = Tail(pending)
    /\ result' = [result EXCEPT ![Head(pending)] = "aborted"]
    /\ EmitNothing
    /\ UNCHANGED <<feeding, nextIndex, inflight, nextTrajectoryId, trajectoryId>>

FeedActionChunk ==
    /\ HealthyCycle
    /\ PrevAcked /\ feeding # NoGoal
    /\ LET left == Points[feeding] - nextIndex
           len == IF ChunkSize < left THEN ChunkSize ELSE left
           isLast == len = left
       IN
        /\ Emit([command EXCEPT !.token = "AppendChunk", !.len = len,
                                !.final = isLast /\ finalize[feeding]])
        /\ nextIndex' = IF isLast THEN 0 ELSE nextIndex + len
        /\ inflight' = IF isLast THEN Append(inflight, feeding) ELSE inflight
        /\ feeding' = IF isLast THEN NoGoal ELSE feeding
    /\ UNCHANGED <<pending, nextTrajectoryId, trajectoryId, result>>

StreamNothing ==
    /\ HealthyCycle
    /\ ~PrevAcked \/ (feeding = NoGoal /\ pending = <<>>)
    /\ EmitNothing
    /\ UNCHANGED <<pending, feeding, nextIndex, inflight, nextTrajectoryId,
                   trajectoryId, result>>

UpdateStep ==
    \/ BeginUpdate \/ FaultHold \/ FaultReset \/ FaultRelease
    \/ CheckStopLatch \/ OperatorHold \/ StopReset \/ StopRelease
    \/ AdoptGoal \/ RefuseDiscontinuousGoal \/ FeedActionChunk \/ StreamNothing

-------------------------------------------------------------------------------
(* Callbacks on the executor thread.                                       *)

\* IntakeLatchReason.
IntakeLatched == stopLatched \/ hardwareErrorCode # 0

ActiveMonitoredGoals == {g \in monitored : result[g] = "none"}

AdmitGoal(g) ==
    /\ executor = Idle
    /\ client[g] = "new"
    /\ ~IntakeLatched
    /\ Cardinality(ActiveMonitoredGoals) < MaxInFlightGoals
    /\ executor' = <<"accept", g>>
    /\ UNCHANGED <<interfaceVars, phase, pipelineVars, latchVars, hardwareErrorCode,
                   result, client, monitored, callVars>>

\* The other reasons HandleGoal has to refuse a goal are about its points.
RejectGoal(g) ==
    /\ executor = Idle
    /\ client[g] = "new"
    /\ IntakeLatched \/ Cardinality(ActiveMonitoredGoals) >= MaxInFlightGoals
    /\ client' = [client EXCEPT ![g] = "rejected"]
    /\ UNCHANGED <<interfaceVars, phase, pipelineVars, latchVars, hardwareErrorCode,
                   result, monitored, executor, callVars>>

\* HandleAccepted reads finalize_last_chunk live.
HandleAccepted(g) ==
    /\ executor = <<"accept", g>>
    /\ \E close \in BOOLEAN : finalize' = [finalize EXCEPT ![g] = close]
    /\ client' = [client EXCEPT ![g] = "active"]
    /\ monitored' = monitored \cup {g}
    /\ incoming' = Append(incoming, g)
    /\ executor' = Idle
    /\ UNCHANGED <<interfaceVars, phase, pending, feeding, nextIndex, inflight,
                   nextTrajectoryId, trajectoryId, latchVars, hardwareErrorCode,
                   result, callVars>>

\* ~/stop sets the latch, which both intakes read, and then the request.
StopLatches ==
    /\ executor = Idle
    /\ stopCalls < MaxStops
    /\ stopCalls' = stopCalls + 1
    /\ stopLatched' = TRUE
    /\ executor' = <<"stop", NoGoal>>
    /\ UNCHANGED <<interfaceVars, phase, pipelineVars, stopRequested, stopCommandPending,
                   resetRequested, hardwareErrorCode, result, client, monitored,
                   resetCalls, overtaken>>

StopRequests ==
    /\ executor = <<"stop", NoGoal>>
    /\ stopRequested' = TRUE
    /\ executor' = Idle
    /\ UNCHANGED <<interfaceVars, phase, pipelineVars, stopLatched, stopCommandPending,
                   resetRequested, hardwareErrorCode, result, client, monitored,
                   callVars>>

\* ~/reset_fault, answered success = false when nothing is latched.
ResetChecks ==
    /\ executor = Idle
    /\ resetCalls < MaxResets
    /\ hardwareErrorCode # 0 \/ stopLatched
    /\ resetCalls' = resetCalls + 1
    /\ executor' = <<"reset", NoGoal>>
    /\ UNCHANGED <<interfaceVars, phase, pipelineVars, latchVars, hardwareErrorCode,
                   result, client, monitored, stopCalls, overtaken>>

ResetRequests ==
    /\ executor = <<"reset", NoGoal>>
    /\ resetRequested' = TRUE
    /\ executor' = Idle
    /\ UNCHANGED <<interfaceVars, phase, pipelineVars, stopRequested, stopLatched,
                   stopCommandPending, hardwareErrorCode, result, client, monitored,
                   callVars>>

\* The goal-monitor timer, one goal at a time: flush a queued result to the
\* client, then look at `terminal` again and forget the goal.
FlushGoal(g) ==
    /\ executor = Idle
    /\ g \in monitored
    /\ client' = [client EXCEPT ![g] = IF result[g] = "none" THEN @ ELSE result[g]]
    /\ executor' = <<"flushed", g>>
    /\ UNCHANGED <<interfaceVars, phase, pipelineVars, latchVars, hardwareErrorCode,
                   result, monitored, callVars>>

PruneGoal(g) ==
    /\ executor = <<"flushed", g>>
    /\ monitored' = IF result[g] = "none" THEN monitored ELSE monitored \ {g}
    /\ executor' = Idle
    /\ UNCHANGED <<interfaceVars, phase, pipelineVars, latchVars, hardwareErrorCode,
                   result, client, callVars>>

ExecutorStep ==
    \/ \E g \in Goal : \/ AdmitGoal(g) \/ RejectGoal(g) \/ HandleAccepted(g)
                       \/ FlushGoal(g) \/ PruneGoal(g)
    \/ StopLatches \/ StopRequests \/ ResetChecks \/ ResetRequests

ControllerStep == UpdateStep \/ ExecutorStep
===============================================================================
