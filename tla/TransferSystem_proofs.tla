------------------------- MODULE TransferSystem_proofs -------------------------
(***************************************************************************)
(* What holds of the controller and the plugin together, for every set of  *)
(* goals, chunk size, queue and firmware buffer: the types, the holds of a *)
(* stop and of a fault, the mailbox, and the contract of the controller's  *)
(* action, as every step of TransferSystem is a step of GoalContract or    *)
(* leaves it alone. And its goals are those the plugin counts frames for,  *)
(* and executes.                                                           *)
(***************************************************************************)
EXTENDS TransferSystem, RapidCodeHardware_proofs, SequenceTheorems, TLAPS

-------------------------------------------------------------------------------
(* The controller and its executor, whatever answers the mailbox: their    *)
(* steps keep the types, and the chunk they cut next has a point.          *)

\* What keeps len a number when a chunk is cut (FeedActionChunk).
PointsLeft == feeding # NoGoal => nextIndex < Points[feeding]

ControllerTypes == InterfaceTypeOK /\ ControllerTypeOK /\ PointsLeft

PipelineTypes ==
    /\ incoming' \in Seq(Goal)
    /\ pending' \in Seq(Goal)
    /\ feeding' \in Goal \cup {NoGoal}
    /\ nextIndex' \in Nat
    /\ inflight' \in Seq(Goal)
    /\ nextTrajectoryId' \in Nat \ {0}
    /\ trajectoryId' \in [Goal -> Nat]
    /\ finalize' \in [Goal -> BOOLEAN]

\* A command with a new token and a new number is a command.
LEMMA EmitTypes ==
    ASSUME InterfaceTypeOK, NEW c \in Command, Emit(c) \/ EmitNothing
    PROVE  command' \in Command
<1>1. command.seq \in Nat
  BY DEF InterfaceTypeOK, Command
<1>2. CASE Emit(c)
  BY <1>1, <1>2 DEF Emit, Command
<1>3. CASE EmitNothing
  BY <1>3 DEF EmitNothing, InterfaceTypeOK, Command, Token
<1> QED
  BY <1>2, <1>3

\* AbortAllGoals empties what update() holds.
LEMMA AbortAllTypes ==
    ASSUME ControllerTypes, AbortAllGoals
    PROVE  /\ PipelineTypes
           /\ PointsLeft'
           /\ result' \in [Goal -> {"none", "succeeded", "aborted"}]
<1>1. PipelineTypes
  BY EmptySeq DEF AbortAllGoals, PipelineTypes, ControllerTypes, ControllerTypeOK
<1>2. PointsLeft'
  BY DEF AbortAllGoals, PointsLeft
<1>3. result' \in [Goal -> {"none", "succeeded", "aborted"}]
  BY DEF AbortAllGoals, ControllerTypes, ControllerTypeOK
<1> QED
  BY <1>1, <1>2, <1>3

-------------------------------------------------------------------------------

\* Every phase of update() keeps the types.
LEMMA UpdateTypesStep ==
    ASSUME ControllerTypes, UpdateStep
    PROVE  ControllerTypes'
<1> USE DEF ControllerTypes, InterfaceTypeOK, ControllerTypeOK
<1> USE DEF pipelineVars, latchVars, callVars, interfaceVars
<1>1. /\ [command EXCEPT !.token = "Stop"] \in Command
      /\ [command EXCEPT !.token = "Reset"] \in Command
  BY DEF Command, Token
<1>2. CASE BeginUpdate
  <2>1. /\ incoming' \in Seq(Goal)
        /\ pending' \in Seq(Goal)
    <3>1. /\ <<>> \in Seq(Goal)
          /\ pending \o incoming \in Seq(Goal)
      BY EmptySeq, ConcatProperties
    <3>2. \/ incoming' = <<>> /\ pending' = pending \o incoming
          \/ UNCHANGED <<incoming, pending>>
      BY <1>2 DEF BeginUpdate
    <3> QED
      BY <3>1, <3>2
  <2>2. inflight' \in Seq(Goal)
    <3>1. PICK n \in 0 .. Len(inflight) : inflight' = SubSeq(inflight, n + 1, Len(inflight))
      BY <1>2 DEF BeginUpdate
    <3>2. Len(inflight) \in Nat /\ n \in Nat
      BY LenProperties
    <3>3. \A i \in (n + 1) .. Len(inflight) : inflight[i] \in Goal
      BY <3>2, ElementOfSeq
    <3>4. n + 1 \in Int /\ Len(inflight) \in Int
      BY <3>2
    <3> QED
      BY <3>1, <3>3, <3>4, SubSeqProperties
  <2>3. result' \in [Goal -> {"none", "succeeded", "aborted"}]
    <3>1. PICK n \in 0 .. Len(inflight) :
            \E missed \in SUBSET {g \in {inflight[i] : i \in 1 .. n} : finalize[g]} :
              result' = [g \in Goal |->
                            IF g \in missed THEN "aborted"
                            ELSE IF g \in {inflight[i] : i \in 1 .. n} THEN "succeeded"
                            ELSE result[g]]
      BY <1>2 DEF BeginUpdate
    <3> DEFINE retired == {inflight[i] : i \in 1 .. n}
    <3>2. \E missed : result' = [g \in Goal |-> IF g \in missed THEN "aborted"
                                               ELSE IF g \in retired THEN "succeeded"
                                               ELSE result[g]]
      BY <3>1
    <3> HIDE DEF retired
    <3> QED
      BY <3>2
  <2>4. phase' \in Phase
    BY <1>2 DEF BeginUpdate, Phase
  <2>5. PointsLeft'
    BY <1>2 DEF BeginUpdate, PointsLeft
  <2> QED
    BY <1>2, <2>1, <2>2, <2>3, <2>4, <2>5 DEF BeginUpdate
<1>3. CASE FaultHold
  <2>1. command' \in Command
    BY <1>3, EmitTypes DEF FaultHold
  <2> QED
    BY <1>3, <2>1, AbortAllTypes DEF FaultHold, EndUpdate, HoldVars, PipelineTypes, Phase, Turn
<1>4. CASE FaultReset
  BY <1>4, AbortAllTypes DEF FaultReset, HoldVars, PipelineTypes, Phase
<1>5. CASE FaultRelease
  <2>1. command' \in Command
    BY <1>1, <1>5, EmitTypes DEF FaultRelease
  <2> QED
    BY <1>5, <2>1 DEF FaultRelease, EndUpdate, HoldVars, PointsLeft, Phase, Turn
<1>6. CASE CheckStopLatch
  BY <1>6 DEF CheckStopLatch, PointsLeft, Phase
<1>7. CASE OperatorHold
  <2>1. command' \in Command
    BY <1>1, <1>7, EmitTypes DEF OperatorHold
  <2>2. stopCommandPending' \in BOOLEAN
    BY <1>7 DEF OperatorHold, StopOwed
  <2> QED
    BY <1>7, <2>1, <2>2, AbortAllTypes
    DEF OperatorHold, EndUpdate, HoldVars, PipelineTypes, Phase, Turn
<1>8. CASE StopReset
  BY <1>8, AbortAllTypes DEF StopReset, HoldVars, PipelineTypes, Phase
<1>9. CASE StopRelease
  <2>1. command' \in Command
    BY <1>1, <1>9, EmitTypes DEF StopRelease
  <2> QED
    BY <1>9, <2>1 DEF StopRelease, EndUpdate, HoldVars, PointsLeft, Phase, Turn
<1>10. CASE AdoptGoal
  <2>1. /\ Head(pending) \in Goal
        /\ Tail(pending) \in Seq(Goal)
    BY <1>10, HeadTailProperties DEF AdoptGoal, MayAdopt
  <2>2. Points[Head(pending)] \in Nat \ {0} /\ Head(pending) # NoGoal
    BY <2>1, GoalAssumption
  <2>3. [command EXCEPT !.token = "Begin", !.id = nextTrajectoryId,
                        !.size = Points[Head(pending)]] \in Command
    <3> DEFINE size == Points[Head(pending)]
    <3>1. size \in Int /\ nextTrajectoryId \in Nat
      BY <2>2
    <3> HIDE DEF size
    <3>2. [command EXCEPT !.token = "Begin", !.id = nextTrajectoryId,
                          !.size = size] \in Command
      BY <3>1 DEF Command, Token
    <3> QED
      BY <3>2 DEF size
  <2>4. command' \in Command
    BY <1>10, <2>3, EmitTypes DEF AdoptGoal
  <2>5. trajectoryId' \in [Goal -> Nat] /\ nextTrajectoryId' \in Nat \ {0}
    <3>1. /\ trajectoryId' = [trajectoryId EXCEPT ![Head(pending)] = nextTrajectoryId]
          /\ nextTrajectoryId' = nextTrajectoryId + 1
      BY <1>10 DEF AdoptGoal
    <3> QED
      BY <2>1, <3>1
  <2>6. PointsLeft'
    BY <1>10, <2>2 DEF AdoptGoal, PointsLeft
  <2> QED
    BY <1>10, <2>1, <2>4, <2>5, <2>6 DEF AdoptGoal, HealthyCycle, EndUpdate, Phase, Turn
<1>11. CASE RefuseDiscontinuousGoal
  <2>1. Tail(pending) \in Seq(Goal)
    BY <1>11, HeadTailProperties DEF RefuseDiscontinuousGoal, MayAdopt
  <2>2. command' \in Command
    BY <1>11, EmitTypes DEF RefuseDiscontinuousGoal
  <2>3. result' \in [Goal -> {"none", "succeeded", "aborted"}]
    BY <1>11 DEF RefuseDiscontinuousGoal
  <2>4. PointsLeft'
    BY <1>11 DEF RefuseDiscontinuousGoal, PointsLeft
  <2> QED
    BY <1>11, <2>1, <2>2, <2>3, <2>4
    DEF RefuseDiscontinuousGoal, HealthyCycle, EndUpdate, Phase, Turn
<1>12. CASE FeedActionChunk
  <2> DEFINE left == Points[feeding] - nextIndex
             len == IF ChunkSize < left THEN ChunkSize ELSE left
  <2>1. feeding \in Goal /\ feeding # NoGoal
    BY <1>12 DEF FeedActionChunk
  <2>2. Points[feeding] \in Nat /\ nextIndex < Points[feeding]
    BY <2>1, GoalAssumption DEF PointsLeft
  <2>3. left \in Nat \ {0} /\ len \in Nat \ {0} /\ len <= left
    BY <2>2, ControllerAssumption
  <2>4. finalize[feeding] \in BOOLEAN
    BY <2>1
  <2>5. [command EXCEPT !.token = "AppendChunk", !.len = len,
                        !.final = (len = left) /\ finalize[feeding]] \in Command
    <3>1. ((len = left) /\ finalize[feeding]) \in BOOLEAN
      BY <2>4
    <3> HIDE DEF len, left
    <3> QED
      BY <2>3, <3>1 DEF Command, Token
  <2>6. /\ Emit([command EXCEPT !.token = "AppendChunk", !.len = len,
                                !.final = (len = left) /\ finalize[feeding]])
        /\ nextIndex' = IF len = left THEN 0 ELSE nextIndex + len
        /\ inflight' = IF len = left THEN Append(inflight, feeding) ELSE inflight
        /\ feeding' = IF len = left THEN NoGoal ELSE feeding
    BY <1>12 DEF FeedActionChunk
  <2>7. command' \in Command
    BY <2>5, <2>6, EmitTypes
  <2>8. nextIndex' \in Nat /\ PointsLeft'
    <3>1. CASE len = left
      BY <2>6, <3>1 DEF PointsLeft
    <3>2. CASE len # left
      <4>1. nextIndex + len \in Nat /\ nextIndex + len < Points[feeding]
        BY <2>2, <2>3, <3>2
      <4>2. nextIndex' = nextIndex + len /\ feeding' = feeding
        BY <2>6, <3>2
      <4> HIDE DEF len, left
      <4> QED
        BY <4>1, <4>2 DEF PointsLeft
    <3> QED
      BY <3>1, <3>2
  <2>9. inflight' \in Seq(Goal) /\ feeding' \in Goal \cup {NoGoal}
    BY <2>1, <2>6, AppendProperties
  <2> QED
    BY <1>12, <2>7, <2>8, <2>9 DEF FeedActionChunk, HealthyCycle, EndUpdate, Phase, Turn
<1>13. CASE StreamNothing
  <2>1. command' \in Command
    BY <1>13, EmitTypes DEF StreamNothing
  <2>2. PointsLeft'
    BY <1>13 DEF StreamNothing, PointsLeft
  <2> QED
    BY <1>13, <2>1, <2>2 DEF StreamNothing, HealthyCycle, EndUpdate, Phase, Turn
<1> QED
  BY <1>2, <1>3, <1>4, <1>5, <1>6, <1>7, <1>8, <1>9, <1>10, <1>11, <1>12, <1>13
  DEF UpdateStep

-------------------------------------------------------------------------------

\* Every executor callback keeps the types.
LEMMA ExecutorTypesStep ==
    ASSUME ControllerTypes, ExecutorStep
    PROVE  ControllerTypes'
<1> USE DEF ControllerTypes, InterfaceTypeOK, ControllerTypeOK, PointsLeft
<1> USE DEF pipelineVars, latchVars, callVars, interfaceVars
<1>1. ASSUME NEW g \in Goal, AdmitGoal(g)  PROVE ControllerTypes'
  BY <1>1 DEF AdmitGoal, Callback
<1>2. ASSUME NEW g \in Goal, RejectGoal(g)  PROVE ControllerTypes'
  BY <1>2 DEF RejectGoal
<1>3. ASSUME NEW g \in Goal, HandleAccepted(g)  PROVE ControllerTypes'
  <2>1. incoming' \in Seq(Goal)
    BY <1>3, AppendProperties DEF HandleAccepted
  <2>2. finalize' \in [Goal -> BOOLEAN]
    BY <1>3 DEF HandleAccepted
  <2>3. executor' \in Callback
    BY <1>3 DEF HandleAccepted, Callback, Idle
  <2> QED
    BY <1>3, <2>1, <2>2, <2>3 DEF HandleAccepted
<1>4. ASSUME NEW g \in Goal, FlushGoal(g)  PROVE ControllerTypes'
  <2>1. client' \in [Goal -> {"new", "rejected", "active", "succeeded", "aborted"}]
    BY <1>4 DEF FlushGoal
  <2> QED
    BY <1>4, <2>1 DEF FlushGoal, Callback
<1>5. ASSUME NEW g \in Goal, PruneGoal(g)  PROVE ControllerTypes'
  BY <1>5 DEF PruneGoal, Callback, Idle
<1>6. CASE StopLatches
  BY <1>6 DEF StopLatches, Callback
<1>7. CASE StopRequests
  BY <1>7 DEF StopRequests, Callback, Idle
<1>8. CASE ResetChecks
  BY <1>8 DEF ResetChecks, Callback
<1>9. CASE ResetRequests
  BY <1>9 DEF ResetRequests, Callback, Idle
<1> QED
  BY <1>1, <1>2, <1>3, <1>4, <1>5, <1>6, <1>7, <1>8, <1>9 DEF ExecutorStep

-------------------------------------------------------------------------------
(* Types, and the holds of a stop and of a fault.                          *)

\* TypeOK, and the point that keeps a chunk's length a number.
SystemTypes == ControllerTypes /\ HardwareTypeOK

\* Controller, plugin and mailbox keep their types, whatever goals are sent,
\* operator calls made and faults met.
THEOREM SystemTypeCorrect == Spec => []TypeOK
<1>1. Init => SystemTypes
  <2>1. Init => InterfaceTypeOK /\ HardwareTypeOK
    BY InitialTypes DEF Init, HardwareTypes
  <2>2. Init => ControllerTypeOK
    <3> SUFFICES ASSUME Init
                 PROVE  ControllerTypeOK
      OBVIOUS
    <3> USE DEF Init, ControllerInit
    <3>1. <<>> \in Seq(Goal)
      BY EmptySeq
    <3>2. /\ stopRequested \in BOOLEAN /\ stopLatched \in BOOLEAN
          /\ stopCommandPending \in BOOLEAN /\ resetRequested \in BOOLEAN
          /\ finalize \in [Goal -> BOOLEAN]
      OBVIOUS
    <3>3. /\ trajectoryId \in [Goal -> Nat]
          /\ nextTrajectoryId \in Nat \ {0} /\ nextIndex \in Nat
          /\ stopCalls \in Nat /\ resetCalls \in Nat /\ hardwareErrorCode \in ErrorCode
      BY DEF ErrorCode
    <3>4. phase \in Phase /\ executor \in Callback
      BY DEF Phase, Callback, Idle
    <3>5. /\ result \in [Goal -> {"none", "succeeded", "aborted"}]
          /\ client \in [Goal -> {"new", "rejected", "active", "succeeded", "aborted"}]
      OBVIOUS
    <3> QED
      BY <3>1, <3>2, <3>3, <3>4, <3>5 DEF ControllerTypeOK
  <2>3. Init => PointsLeft
    BY DEF Init, ControllerInit, PointsLeft
  <2> QED
    BY <2>1, <2>2, <2>3 DEF SystemTypes, ControllerTypes
<1>2. SystemTypes /\ [Next]_vars => SystemTypes'
  <2> SUFFICES ASSUME SystemTypes, [Next]_vars
               PROVE  SystemTypes'
    OBVIOUS
  <2>1. CASE ControllerStep /\ UNCHANGED hardwareVars
    <3>1. ControllerTypes'
      BY <2>1, UpdateTypesStep, ExecutorTypesStep DEF SystemTypes, ControllerStep
    <3>2. HardwareTypeOK'
      BY <2>1
      DEF SystemTypes, HardwareTypeOK, hardwareVars, queueVars, completionVars,
          recoveryVars, firmwareVars
    <3> QED
      BY <3>1, <3>2 DEF SystemTypes
  <2>2. CASE HardwareStep /\ UNCHANGED controllerVars
    <3>1. InterfaceTypeOK' /\ HardwareTypeOK'
      BY <2>2, HardwareTypesStep DEF SystemTypes, ControllerTypes, HardwareTypes
    <3>2. ControllerTypeOK' /\ PointsLeft'
      BY <2>2
      DEF SystemTypes, ControllerTypes, ControllerTypeOK, PointsLeft, controllerVars,
          pipelineVars, latchVars, callVars
    <3> QED
      BY <3>1, <3>2 DEF SystemTypes, ControllerTypes
  <2>3. CASE UNCHANGED vars
    BY <2>3
    DEF vars, SystemTypes, ControllerTypes, InterfaceTypeOK, ControllerTypeOK, PointsLeft,
        HardwareTypeOK, interfaceVars, controllerVars, pipelineVars, latchVars, callVars,
        hardwareVars, queueVars, completionVars, recoveryVars, firmwareVars
  <2> QED
    BY <2>1, <2>2, <2>3 DEF Next
<1>3. SystemTypes => TypeOK
  BY DEF SystemTypes, ControllerTypes, TypeOK
<1> QED
  BY <1>1, <1>2, <1>3, PTL DEF Spec

-------------------------------------------------------------------------------
(* A latched fault holds motion. The property alone is not inductive: a    *)
(* chunk may reach the FIFO after the fault was latched in the same        *)
(* write(), and update() may be under way.                                 *)

\* update() has taken the branch that fits error_code, which only write()
\* changes.
BranchFitsError ==
    /\ phase # "begin" => turn = "update"
    /\ phase \in {"fault", "faultRelease"} => errorCode # 0
    /\ phase \in {"gate", "hold", "stopRelease", "stream"} => errorCode = 0

\* A write() that starts with a fault latched has at most a Reset to consume.
OnlyResetWhileLatched ==
    (errorCode # 0 /\ turn \in {"drain", "feed"}) => command.token \in {"None", "Reset"}

\* A chunk that follows the fault in the same write() finds the group faulted.
LateChunkFindsFault ==
    (errorCode # 0 /\ turn = "command" /\ CommandWaiting
        /\ command.token = "AppendChunk") => Faulted

\* And leaves the FIFO again before that write() ends.
QueueEmptyWhileLatched ==
    (errorCode # 0 /\ excessChunks # <<>>) => (turn = "drainChunk" /\ Faulted)

FaultHoldInv ==
    /\ LatchedFaultHoldsMotion
    /\ BranchFitsError
    /\ OnlyResetWhileLatched
    /\ LateChunkFindsFault
    /\ QueueEmptyWhileLatched

\* update() and write() keep it, whatever the executor and the firmware do.
LEMMA FaultHoldInvariance == Spec => [](TypeOK /\ FaultHoldInv)
<1>1. Init => FaultHoldInv
  BY DEF Init, InterfaceInit, ControllerInit, HardwareInit, FaultHoldInv,
         LatchedFaultHoldsMotion, BranchFitsError, OnlyResetWhileLatched,
         LateChunkFindsFault, QueueEmptyWhileLatched
<1>2. TypeOK /\ FaultHoldInv /\ [Next]_vars => FaultHoldInv'
  <2> SUFFICES ASSUME TypeOK, FaultHoldInv, [Next]_vars
               PROVE  FaultHoldInv'
    OBVIOUS
  \* update() emits nothing but None or a Reset while a fault is latched.
  <2>1. ASSUME UpdateStep, UNCHANGED hardwareVars
        PROVE  FaultHoldInv'
    <3> USE <2>1
    <3> USE DEF FaultHoldInv, LatchedFaultHoldsMotion, BranchFitsError, OnlyResetWhileLatched,
            LateChunkFindsFault, QueueEmptyWhileLatched, Faulted
    <3>1. UNCHANGED <<group, cause, excessChunks>>
      BY DEF hardwareVars, queueVars, firmwareVars
    <3>2. turn = "update"
      BY DEF UpdateStep, BeginUpdate, FaultHold, FaultReset, FaultRelease, CheckStopLatch,
             OperatorHold, StopReset, StopRelease, AdoptGoal, RefuseDiscontinuousGoal,
             FeedActionChunk, StreamNothing, HealthyCycle
    <3>3. UNCHANGED errorCode
      BY DEF UpdateStep, BeginUpdate, FaultHold, FaultReset, FaultRelease, CheckStopLatch,
             OperatorHold, StopReset, StopRelease, AdoptGoal, RefuseDiscontinuousGoal,
             FeedActionChunk, StreamNothing, HealthyCycle, HoldVars, interfaceVars
    <3>4. CASE BeginUpdate \/ FaultReset \/ CheckStopLatch \/ StopReset
      <4>1. /\ turn' = "update"
            /\ phase' \in {"fault", "faultRelease"} => errorCode # 0
            /\ phase' \in {"gate", "hold", "stopRelease", "stream"} => errorCode = 0
        BY <3>2, <3>4
        DEF BeginUpdate, FaultSeen, FaultReset, CheckStopLatch, StopReset, interfaceVars
      <4> QED
        BY <3>1, <3>2, <3>3, <4>1
    <3>5. CASE FaultHold \/ FaultRelease
      <4>1. /\ turn' = "drain" /\ phase' = "begin"
            /\ command'.token \in {"None", "Reset"}
        BY <3>5 DEF TypeOK, InterfaceTypeOK, Command, FaultHold, FaultRelease,
            EndUpdate, Emit, EmitNothing
      <4> QED
        BY <3>1, <3>2, <3>3, <4>1
    <3>6. CASE OperatorHold \/ StopRelease \/ HealthyCycle
      <4>1. errorCode = 0 /\ turn' = "drain" /\ phase' = "begin"
        BY <3>6 DEF OperatorHold, StopRelease, HealthyCycle, EndUpdate
      <4> QED
        BY <3>1, <3>2, <3>3, <4>1
    <3> QED
      BY <3>4, <3>5, <3>6
      DEF UpdateStep, AdoptGoal, RefuseDiscontinuousGoal, FeedActionChunk, StreamNothing
  \* The callbacks touch neither the slot nor the plugin.
  <2>2. ASSUME ExecutorStep, UNCHANGED hardwareVars
        PROVE  FaultHoldInv'
    <3> USE <2>2
    <3>1. UNCHANGED <<interfaceVars, phase>>
      BY DEF ExecutorStep, AdmitGoal, RejectGoal, HandleAccepted, FlushGoal, PruneGoal,
             StopLatches, StopRequests, ResetChecks, ResetRequests
    <3> QED
      BY <3>1
      DEF FaultHoldInv, LatchedFaultHoldsMotion, BranchFitsError, OnlyResetWhileLatched,
          LateChunkFindsFault, QueueEmptyWhileLatched, Faulted, CommandWaiting,
          hardwareVars, queueVars, firmwareVars, interfaceVars
  \* read() and write() find update() over.
  <2>3. ASSUME Read \/ ReadFails \/ WriteStep, UNCHANGED controllerVars
        PROVE  FaultHoldInv'
    <3> USE <2>3
    <3> USE DEF FaultHoldInv, LatchedFaultHoldsMotion, BranchFitsError, OnlyResetWhileLatched,
            LateChunkFindsFault, QueueEmptyWhileLatched, Faulted
    <3> USE DEF hardwareVars, queueVars, firmwareVars, CommandWaiting, ReturnFromDrain,
            Acknowledge, Draining, Feeding
    <3>1. UNCHANGED <<phase, command>> /\ turn # "update"
      BY DEF controllerVars, Read, ReadFails, WriteStep, DrainLatchesFault,
             DrainClearsCommandedStop, DrainClearsStopped, DrainHolds, DrainStarts, FeedNext,
             FeedEnds, NothingToConsume, ConsumeNone, BeginTrajectoryTransfer,
             AppendTrajectory, AppendOverflows, HandleAbort, HandleStop, HandleReset,
             WriteFails, Consuming, MovePVTRejected, CallMayThrow
    <3>2. BranchFitsError'
      BY <3>1
    <3>3. CASE Read \/ ReadFails
      BY <3>1, <3>3 DEF Read, ReadFails
    <3>4. CASE DrainLatchesFault
      BY <3>1, <3>4 DEF DrainLatchesFault, AbortTransfer, ClearTransfer
    <3>5. CASE DrainClearsCommandedStop \/ DrainClearsStopped \/ DrainHolds \/ DrainStarts
      BY <3>1, <3>5
      DEF DrainClearsCommandedStop, DrainClearsStopped, DrainHolds, DrainStarts, ClearFaults,
          CommandedStopSettled, TransferPending
    <3>6. CASE FeedNext
      <4>1. errorCode = 0 /\ UNCHANGED errorCode
        BY <3>6 DEF FeedNext, HeadFits
      <4> QED
        BY <3>2, <4>1
    <3>7. CASE FeedEnds
      BY <3>1, <3>7 DEF FeedEnds
    <3>8. CASE NothingToConsume \/ ConsumeNone \/ BeginTrajectoryTransfer
      BY <3>1, <3>8 DEF NothingToConsume, ConsumeNone, BeginTrajectoryTransfer, Consuming
    <3>9. CASE AppendTrajectory
      BY <3>1, <3>9 DEF AppendTrajectory, Consuming
    <3>10. CASE AppendOverflows \/ HandleAbort \/ HandleStop \/ WriteFails
      <4>1. /\ excessChunks' = <<>> /\ turn' = "read"
            /\ group' = "MOVING" => cause' = "unstopped"
        BY <3>10
        DEF AppendOverflows, HandleAbort, HandleStop, WriteFails, AbortGroup, EStop, EStopThrows,
            ClearTransfer, AbortTransfer
      <4> QED
        BY <3>2, <4>1
    <3>11. CASE HandleReset
      BY <3>2, <3>11 DEF HandleReset
    <3> QED
      BY <3>3, <3>4, <3>5, <3>6, <3>7, <3>8, <3>9, <3>10, <3>11 DEF WriteStep
  \* The firmware sets nothing moving by itself, and a faulted group leaves the
  \* faulted states only between two cycles.
  <2>4. ASSUME FirmwareStep, UNCHANGED controllerVars
        PROVE  FaultHoldInv'
    <3> USE <2>4
    <3> USE DEF FaultHoldInv, LatchedFaultHoldsMotion, BranchFitsError, OnlyResetWhileLatched,
            LateChunkFindsFault, QueueEmptyWhileLatched, Faulted
    <3> USE DEF pluginVars, interfaceVars, queueVars, CommandWaiting, controllerVars
    <3>1. UNCHANGED <<phase, turn, command, ackSequence, errorCode, excessChunks>>
      BY DEF FirmwareStep, ExecuteFrame, MotionDone, OutOfFrames, DriveTrips, ExternalStop,
             GroupSettles, OperatorClearsFaults, FirmwareFault
    <3>2. \/ UNCHANGED group
          \/ group' \in {"STOPPING_ERROR", "ERROR"}
          \/ group = "MOVING" /\ group' \in {"IDLE", "STOPPING"}
          \/ group = "STOPPING" /\ group' = "STOPPED"
          \/ turn = "read" /\ group' = "IDLE"
      BY DEF FirmwareStep, ExecuteFrame, MotionDone, OutOfFrames, DriveTrips, ExternalStop,
             GroupSettles, OperatorClearsFaults, FirmwareFault, ClearFaults
    <3>3. group' = "MOVING" => group = "MOVING" /\ UNCHANGED cause
      BY DEF FirmwareStep, ExecuteFrame, MotionDone, OutOfFrames, DriveTrips, ExternalStop,
             GroupSettles, OperatorClearsFaults, FirmwareFault, ClearFaults
    <3> QED
      BY <3>1, <3>2, <3>3
  <2>5. CASE UNCHANGED vars
    BY <2>5
    DEF vars, FaultHoldInv, LatchedFaultHoldsMotion, BranchFitsError, OnlyResetWhileLatched,
        LateChunkFindsFault, QueueEmptyWhileLatched, Faulted, CommandWaiting,
        interfaceVars, controllerVars, hardwareVars, queueVars, firmwareVars
  <2> QED
    BY <2>1, <2>2, <2>3, <2>4, <2>5 DEF Next, ControllerStep, HardwareStep
<1> QED
  BY <1>1, <1>2, SystemTypeCorrect, PTL DEF Spec

\* While error_code is set the group is not moving, unless the e-stop itself
\* threw, and nothing can set it moving: neither the command that was in the slot, nor its chunk, nor the
\* cycle update() needs to see the fault.
THEOREM FaultHoldsMotion == Spec => []LatchedFaultHoldsMotion
<1>1. FaultHoldInv => LatchedFaultHoldsMotion
  BY DEF FaultHoldInv
<1> QED
  BY <1>1, FaultHoldInvariance, PTL

-------------------------------------------------------------------------------
(* An operator stop, from the two stores of ~/stop to the group at rest.   *)

\* The single slot: a command waits across read() and update() only when a
\* write fault kept it from being consumed; what the second DrainQueue runs
\* for is the AppendChunk in the slot.
MailboxKept ==
    /\ ackSequence <= command.seq
    /\ (turn \in {"read", "update"} /\ CommandWaiting) => errorCode # 0
    /\ turn \in {"drainChunk", "feedChunk"} =>
          CommandWaiting /\ command.token = "AppendChunk"

Waiting(token) == CommandWaiting /\ command.token = token

\* Nothing moves but what an e-stop that threw left moving, and nothing is on
\* its way that could.
Quiet ==
    /\ group = "MOVING" => cause = "unstopped"
    /\ excessChunks = <<>>
    /\ ~Waiting("AppendChunk")

\* The Stop of a ~/stop is still on its way to the hardware.
Owed == StopOwed \/ Waiting("Stop")

\* A latch holds: update() that saw it streams nothing, update() that did not
\* see it finds the request in the next cycle, and once the Stop is consumed
\* all is quiet until the latch is released.
StopKept ==
    /\ phase = "hold" => stopLatched
    /\ (phase = "stream" /\ stopLatched) => (executor[1] = "stop" \/ stopRequested)
    /\ (stopLatched /\ executor[1] # "stop" /\ ~Owed) => Quiet

\* A release that overtook no ~/stop finds the group quiet, and so does the
\* Reset it emits.
ReleaseKept ==
    /\ (phase = "stopRelease" /\ ~overtaken) => Quiet
    /\ (Waiting("Reset") /\ ~overtaken) => Quiet

StopInv == MailboxKept /\ StopKept /\ ReleaseKept /\ ReopenLatchAgrees

\* Every step of the controller, the plugin and the firmware keeps it.
LEMMA StopInvariance == Spec => [](TypeOK /\ FaultHoldInv /\ StopInv)
<1>1. Init => StopInv
  BY DEF Init, InterfaceInit, ControllerInit, HardwareInit, StopInv, MailboxKept, StopKept,
         ReleaseKept, ReopenLatchAgrees, Quiet, Owed, Waiting, CommandWaiting, StopOwed,
         NoCommand, Idle
<1>2. TypeOK /\ FaultHoldInv /\ StopInv /\ [Next]_vars => StopInv'
  <2> SUFFICES ASSUME TypeOK, FaultHoldInv, StopInv, [Next]_vars
               PROVE  StopInv'
    OBVIOUS
  \* A release, and a Stop emitted, leave nothing moving behind; the stream of a
  \* healthy cycle is not latched, or is about to be told.
  <2>1. ASSUME UpdateStep, UNCHANGED hardwareVars
        PROVE  StopInv'
    <3> USE <2>1
    <3> USE DEF StopInv, MailboxKept, StopKept, ReleaseKept, ReopenLatchAgrees, Quiet, Owed,
            Waiting, CommandWaiting, StopOwed, PrevAcked
    <3>1. UNCHANGED <<group, cause, excessChunks, streamOpen, firstChunk>>
      BY DEF hardwareVars, queueVars, firmwareVars
    <3>2. /\ turn = "update" /\ ackSequence \in Nat /\ command.seq \in Nat
          /\ command.seq + 1 > ackSequence
          /\ PrevAcked <=> ~CommandWaiting
      BY DEF UpdateStep, BeginUpdate, FaultHold, FaultReset, FaultRelease, CheckStopLatch,
             OperatorHold, StopReset, StopRelease, AdoptGoal, RefuseDiscontinuousGoal,
             FeedActionChunk, StreamNothing, HealthyCycle, TypeOK, InterfaceTypeOK, Command
    <3>3. UNCHANGED <<ackSequence, errorCode, executor>>
      BY DEF UpdateStep, BeginUpdate, FaultHold, FaultReset, FaultRelease, CheckStopLatch,
             OperatorHold, StopReset, StopRelease, AdoptGoal, RefuseDiscontinuousGoal,
             FeedActionChunk, StreamNothing, HealthyCycle, HoldVars, interfaceVars
    <3>4. errorCode # 0 => (group = "MOVING" => cause = "unstopped") /\ excessChunks = <<>>
      BY <3>2 DEF FaultHoldInv, LatchedFaultHoldsMotion, QueueEmptyWhileLatched
    <3>5. /\ phase \in {"fault", "faultRelease"} => errorCode # 0
          /\ phase \in {"gate", "hold", "stopRelease", "stream"} => errorCode = 0 /\ ~CommandWaiting
      BY <3>2 DEF FaultHoldInv, BranchFitsError
    <3>7. ASSUME NEW t, Emit([command EXCEPT !.token = t])
          PROVE  command'.token = t /\ command'.seq = command.seq + 1
      BY <3>7 DEF Emit, TypeOK, InterfaceTypeOK, Command
    <3>8. ASSUME EmitNothing
          PROVE  command'.token = "None" /\ command'.seq = command.seq
      BY <3>8 DEF EmitNothing, TypeOK, InterfaceTypeOK, Command
    <3>9. CASE BeginUpdate
      BY <3>1, <3>2, <3>3, <3>9 DEF BeginUpdate, interfaceVars, latchVars, callVars
    <3>10. CASE FaultHold
      BY <3>1, <3>2, <3>3, <3>4, <3>5, <3>8, <3>10
      DEF FaultHold, EndUpdate, latchVars, HoldVars, callVars
    <3>11. CASE FaultReset
      BY <3>1, <3>2, <3>3, <3>4, <3>5, <3>11 DEF FaultReset, HoldVars, callVars
    <3>12. CASE FaultRelease
      <4>1. command'.token = "Reset" /\ command'.seq = command.seq + 1
        BY <3>7, <3>12 DEF FaultRelease
      <4> QED
        BY <3>1, <3>2, <3>3, <3>4, <3>5, <3>12, <4>1 DEF FaultRelease, EndUpdate, HoldVars, callVars
    <3>13. CASE CheckStopLatch
      BY <3>1, <3>2, <3>3, <3>13 DEF CheckStopLatch, interfaceVars, latchVars, callVars
    <3>14. CASE OperatorHold
      <4>1. CASE StopOwed /\ PrevAcked
        <5>1. command'.token = "Stop" /\ command'.seq = command.seq + 1
          BY <3>7, <3>14, <4>1 DEF OperatorHold
        <5> QED
          BY <3>1, <3>2, <3>3, <3>5, <3>14, <4>1, <5>1
          DEF OperatorHold, EndUpdate, HoldVars, callVars
      <4>2. CASE ~(StopOwed /\ PrevAcked)
        BY <3>1, <3>2, <3>3, <3>5, <3>8, <3>14, <4>2 DEF OperatorHold, EndUpdate, HoldVars, callVars
      <4> QED
        BY <4>1, <4>2
    <3>15. CASE StopReset
      BY <3>1, <3>2, <3>3, <3>5, <3>15 DEF StopReset
    <3>16. CASE StopRelease
      <4>1. command'.token = "Reset" /\ command'.seq = command.seq + 1
        BY <3>7, <3>16 DEF StopRelease
      <4> QED
        BY <3>1, <3>2, <3>3, <3>5, <3>16, <4>1 DEF StopRelease, EndUpdate, HoldVars, callVars
    <3>17. CASE HealthyCycle /\ (AdoptGoal \/ RefuseDiscontinuousGoal \/ FeedActionChunk
                                 \/ StreamNothing)
      <4>1. /\ phase = "stream" /\ phase' = "begin" /\ turn' = "drain"
            /\ UNCHANGED <<stopRequested, stopLatched, stopCommandPending, overtaken>>
        BY <3>17 DEF HealthyCycle, EndUpdate, callVars
      <4>2. /\ command'.token \in {"None", "Begin", "AppendChunk"}
            /\ command'.seq \in {command.seq, command.seq + 1}
        BY <3>8, <3>17 DEF AdoptGoal, RefuseDiscontinuousGoal, FeedActionChunk, StreamNothing, Emit,
               TypeOK, InterfaceTypeOK, Command
      <4> QED
        BY <3>1, <3>2, <3>3, <3>5, <4>1, <4>2
    <3> QED
      BY <3>9, <3>10, <3>11, <3>12, <3>13, <3>14, <3>15, <3>16, <3>17
      DEF UpdateStep, AdoptGoal, RefuseDiscontinuousGoal, FeedActionChunk, StreamNothing
  \* ~/stop sets the latch and is under way until it has set the request.
  <2>2. ASSUME ExecutorStep, UNCHANGED hardwareVars
        PROVE  StopInv'
    <3> USE <2>2
    <3> USE DEF StopInv, MailboxKept, StopKept, ReleaseKept, ReopenLatchAgrees, Quiet, Owed,
            Waiting, CommandWaiting, StopOwed, PrevAcked
    <3>1. /\ UNCHANGED <<interfaceVars, phase, stopCommandPending, overtaken>>
          /\ UNCHANGED <<group, cause, excessChunks, streamOpen, firstChunk>>
      BY DEF ExecutorStep, AdmitGoal, RejectGoal, HandleAccepted, FlushGoal, PruneGoal,
             StopLatches, StopRequests, ResetChecks, ResetRequests, latchVars, callVars,
             hardwareVars, queueVars, firmwareVars
    <3>2. CASE StopLatches
      BY <3>1, <3>2 DEF StopLatches, interfaceVars
    <3>3. CASE StopRequests
      BY <3>1, <3>3 DEF StopRequests, interfaceVars
    <3>4. CASE ExecutorStep /\ ~StopLatches /\ ~StopRequests
      <4>1. /\ UNCHANGED <<stopLatched, stopRequested>>
            /\ executor[1] # "stop" /\ executor'[1] # "stop"
        BY <3>4 DEF ExecutorStep, AdmitGoal, RejectGoal, HandleAccepted, FlushGoal, PruneGoal,
               ResetChecks, ResetRequests, latchVars, Idle
      <4> QED
        BY <3>1, <4>1 DEF interfaceVars
    <3> QED
      BY <3>2, <3>3, <3>4
  \* Only a chunk of the FIFO sets the group moving.
  <2>3. ASSUME Read \/ ReadFails \/ WriteStep, UNCHANGED controllerVars
        PROVE  StopInv'
    <3> USE <2>3
    <3> USE DEF StopInv, MailboxKept, StopKept, ReleaseKept, ReopenLatchAgrees, Quiet, Owed,
            Waiting, CommandWaiting, StopOwed, Faulted
    <3> USE DEF ReturnFromDrain, Acknowledge, Draining, Feeding
    <3>1. /\ UNCHANGED <<phase, stopRequested, stopLatched, stopCommandPending, overtaken,
                         executor>>
          /\ UNCHANGED command
          /\ turn # "update" /\ turn \in Turn /\ phase = "begin"
          /\ ackSequence \in Nat /\ command.seq \in Nat
      BY DEF controllerVars, latchVars, callVars, Read, ReadFails, WriteStep, DrainLatchesFault,
             DrainClearsCommandedStop, DrainClearsStopped, DrainHolds, DrainStarts, FeedNext,
             FeedEnds, NothingToConsume, ConsumeNone, BeginTrajectoryTransfer,
             AppendTrajectory, AppendOverflows, HandleAbort, HandleStop, HandleReset,
             WriteFails, Consuming, MovePVTRejected, CallMayThrow, TypeOK, InterfaceTypeOK, Command,
             FaultHoldInv, BranchFitsError
    <3>2. CASE Read \/ ReadFails
      BY <3>1, <3>2 DEF Read, ReadFails, queueVars, firmwareVars
    <3>3. CASE DrainLatchesFault
      BY <3>1, <3>3 DEF DrainLatchesFault, AbortTransfer, ClearTransfer, firmwareVars
    <3>4. CASE DrainClearsCommandedStop \/ DrainClearsStopped
      BY <3>1, <3>4 DEF DrainClearsCommandedStop, DrainClearsStopped, ClearFaults, queueVars
    <3>5. CASE DrainHolds \/ DrainStarts \/ FeedEnds
      BY <3>1, <3>5 DEF DrainHolds, DrainStarts, FeedEnds, queueVars, firmwareVars
    <3>6. CASE FeedNext
      <4>1. excessChunks # <<>> /\ streamOpen' = ~Head(excessChunks).final
            /\ firstChunk' = Head(excessChunks).final
        BY <3>6 DEF FeedNext, HeadFits, MovePVT, ReopensAfter
      <4>2. \/ UNCHANGED <<turn, ackSequence>>
            \/ turn = "feed" /\ turn' = "command" /\ UNCHANGED ackSequence
            \/ turn = "feedChunk" /\ turn' = "read" /\ ackSequence' = command.seq
        BY <3>6 DEF FeedNext
      <4>3. turn \in {"feed", "feedChunk"} /\ excessChunks \in Seq(Chunk)
        BY <3>6 DEF FeedNext, TypeOK, HardwareTypeOK
      <4>4. UNCHANGED errorCode
        BY <3>6 DEF FeedNext
      <4>5. Head(excessChunks).final \in BOOLEAN
        <5>1. Head(excessChunks) \in Chunk
          BY <4>1, <4>3, HeadTailProperties
        <5> QED
          BY <5>1 DEF Chunk
      <4>6. MailboxKept'
        BY <3>1, <4>2, <4>3, <4>4
      <4>7. StopKept'
        BY <3>1, <4>1, <4>2, <4>3
      <4>8. ReleaseKept'
        BY <3>1, <4>1, <4>2, <4>3
      <4>9. ReopenLatchAgrees'
        BY <4>1, <4>5
      <4> QED
        BY <4>6, <4>7, <4>8, <4>9
    <3>7. CASE NothingToConsume \/ ConsumeNone \/ BeginTrajectoryTransfer
      BY <3>1, <3>7 DEF NothingToConsume, ConsumeNone, BeginTrajectoryTransfer, Consuming,
             hardwareVars, queueVars, firmwareVars
    <3>8. CASE AppendTrajectory
      BY <3>1, <3>8 DEF AppendTrajectory, Consuming, firmwareVars
    <3>9. CASE AppendOverflows \/ HandleAbort \/ HandleStop
      BY <3>1, <3>9 DEF AppendOverflows, HandleAbort, HandleStop, AbortGroup, EStop, EStopThrows,
             ClearTransfer, Consuming
    <3>10. CASE HandleReset
      BY <3>1, <3>10 DEF HandleReset, ClearTransfer, ClearFaults, Consuming, firmwareVars
    <3>11. CASE WriteFails
      <4>1. /\ excessChunks' = <<>> /\ (group' = "MOVING" => cause' = "unstopped")
            /\ errorCode' # 0 /\ turn' = "read" /\ UNCHANGED ackSequence
        BY <3>11 DEF WriteFails, EStop, EStopThrows, AbortTransfer, ClearTransfer, WriteFault
      <4> QED
        BY <3>1, <4>1
    <3> QED
      BY <3>2, <3>3, <3>4, <3>5, <3>6, <3>7, <3>8, <3>9, <3>10, <3>11 DEF WriteStep
  \* The firmware never starts a move.
  <2>4. ASSUME FirmwareStep, UNCHANGED controllerVars
        PROVE  StopInv'
    <3> USE <2>4
    <3>1. /\ UNCHANGED <<pluginVars, controllerVars>>
          /\ group' = "MOVING" => group = "MOVING" /\ UNCHANGED <<streamOpen, cause>>
      BY DEF FirmwareStep, ExecuteFrame, MotionDone, OutOfFrames, DriveTrips, ExternalStop,
             GroupSettles, OperatorClearsFaults, FirmwareFault, ClearFaults
    <3> QED
      BY <3>1
      DEF StopInv, MailboxKept, StopKept, ReleaseKept, ReopenLatchAgrees, Quiet, Owed, Waiting,
          CommandWaiting, StopOwed, pluginVars, interfaceVars, queueVars, controllerVars, latchVars,
          callVars
  <2>5. CASE UNCHANGED vars
    BY <2>5
    DEF vars, StopInv, MailboxKept, StopKept, ReleaseKept, ReopenLatchAgrees, Quiet, Owed,
        Waiting, CommandWaiting, StopOwed, interfaceVars, controllerVars, latchVars, callVars,
        hardwareVars, queueVars, firmwareVars
  <2> QED
    BY <2>1, <2>2, <2>3, <2>4, <2>5 DEF Next, ControllerStep, HardwareStep
<1> QED
  BY <1>1, <1>2, FaultHoldInvariance, PTL DEF Spec

\* A stop whose Stop the hardware has consumed leaves the FIFO empty and the
\* group at rest until it is released, unless its e-stop threw
\* (ServiceOperatorStop, HandleStop).
THEOREM StopHolds == Spec => []StoppedStaysStopped
<1>1. TypeOK /\ StopInv => StoppedStaysStopped
  BY DEF StopInv, StopKept, StoppedStaysStopped, StopServed, Owed, StopOwed, Waiting,
         CommandWaiting, PrevAcked, Quiet, TypeOK, InterfaceTypeOK, Command
<1> QED
  BY <1>1, StopInvariance, PTL

\* A Reset reaches the hardware with the group at rest, unless a latch was
\* released between the two stores of a ~/stop or the e-stop that was to stop
\* the group threw (HandleReset).
THEOREM ResetsFindRest == Spec => []ResetFindsGroupAtRest
<1>1. StopInv => ResetFindsGroupAtRest
  BY DEF StopInv, ReleaseKept, ResetFindsGroupAtRest, Waiting, Quiet, Consuming
<1> QED
  BY <1>1, StopInvariance, PTL

\* While a streamed move is open and running the next chunk continues it,
\* with the same exceptions (the reopen gate, MovePVT).
THEOREM ReopenLatchFollowsMove == Spec => []ReopenLatchAgrees
<1>1. StopInv => ReopenLatchAgrees
  BY DEF StopInv
<1> QED
  BY <1>1, StopInvariance, PTL

\* A command is overwritten before the hardware has consumed it only under a
\* latched write fault (EmitCommand).
THEOREM CommandsSurvive == Spec => UnackedCommandSurvives
<1>1. StopInv /\ [Next]_vars => [(command' # command /\ CommandWaiting) => errorCode # 0]_vars
  <2> SUFFICES ASSUME StopInv, Next, command' # command, CommandWaiting
               PROVE  errorCode # 0
    OBVIOUS
  <2>1. ASSUME HardwareStep  PROVE UNCHANGED command
    BY <2>1
    DEF HardwareStep, FirmwareStep, ExecuteFrame, MotionDone, OutOfFrames, DriveTrips,
        ExternalStop, GroupSettles, OperatorClearsFaults, FirmwareFault, ClearFaults,
        pluginVars, interfaceVars, Read, ReadFails, WriteStep, DrainLatchesFault,
        DrainClearsCommandedStop, DrainClearsStopped, DrainHolds, DrainStarts, FeedNext,
        FeedEnds, NothingToConsume, ConsumeNone, BeginTrajectoryTransfer,
        AppendTrajectory, AppendOverflows, HandleAbort, HandleStop, HandleReset,
        WriteFails, Consuming, MovePVTRejected, CallMayThrow
  <2>2. ASSUME ExecutorStep  PROVE UNCHANGED command
    BY <2>2
    DEF ExecutorStep, AdmitGoal, RejectGoal, HandleAccepted, FlushGoal, PruneGoal,
        StopLatches, StopRequests, ResetChecks, ResetRequests, interfaceVars
  <2>3. ASSUME UpdateStep  PROVE turn = "update"
    BY <2>3
    DEF UpdateStep, BeginUpdate, FaultHold, FaultReset, FaultRelease, CheckStopLatch,
        OperatorHold, StopReset, StopRelease, AdoptGoal, RefuseDiscontinuousGoal,
        FeedActionChunk, StreamNothing, HealthyCycle
  <2> QED
    BY <2>1, <2>2, <2>3 DEF Next, ControllerStep, StopInv, MailboxKept
<1> QED
  BY <1>1, StopInvariance, PTL DEF Spec, UnackedCommandSurvives

-------------------------------------------------------------------------------
(* The contract of the action.                                             *)

\* What the executor and update() rely on when a goal changes hands: one nobody
\* has accepted has no result and is in no queue, and the one being accepted
\* is such a goal.
GoalsKept ==
    /\ \A g \in Goal : client[g] = "new" => result[g] = "none"
    /\ \A i \in 1 .. Len(Order) : client[Order[i]] # "new"
    /\ executor[1] = "accept" => client[executor[2]] = "new"

\* The goals AbortAllGoals ends, oldest first.
HeldOrder == Begun \o pending

-------------------------------------------------------------------------------
(* Sequences.                                                              *)

\* Dropping the front of a sequence drops it from whatever follows it.
LEMMA DropOldest ==
    ASSUME NEW S, NEW s \in Seq(S), NEW t \in Seq(S), NEW n \in 0 .. Len(s)
    PROVE  /\ SubSeq(s, n + 1, Len(s)) \in Seq(S)
           /\ SubSeq(s \o t, n + 1, Len(s \o t)) = SubSeq(s, n + 1, Len(s)) \o t
           /\ \A i \in 1 .. n : (s \o t)[i] = s[i]
<1> DEFINE w == s \o t
           u == SubSeq(s, n + 1, Len(s))
           v == SubSeq(w, n + 1, Len(w))
           x == u \o t
<1>1. Len(s) \in Nat /\ Len(t) \in Nat /\ n \in Nat /\ n <= Len(s)
  BY LenProperties
<1>2. /\ w \in Seq(S) /\ Len(w) = Len(s) + Len(t)
      /\ \A i \in 1 .. Len(s) + Len(t) : w[i] = IF i <= Len(s) THEN s[i] ELSE t[i - Len(s)]
  BY ConcatProperties
<1>3. /\ u \in Seq(S) /\ Len(u) = Len(s) - n
      /\ \A i \in 1 .. Len(s) - n : u[i] = s[n + i]
  <2>1. \A i \in n + 1 .. Len(s) : s[i] \in S
    BY <1>1, ElementOfSeq
  <2> QED
    BY <1>1, <2>1, SubSeqProperties
<1> HIDE DEF u, w
<1>4. /\ v \in Seq(S) /\ Len(v) = Len(s) + Len(t) - n
      /\ \A i \in 1 .. Len(s) + Len(t) - n : v[i] = w[n + i]
  <2>1. \A i \in n + 1 .. Len(w) : w[i] \in S
    BY <1>1, <1>2, ElementOfSeq
  <2>2. n + 1 \in Int /\ Len(w) \in Int
    BY <1>1, <1>2
  <2>3. /\ v \in Seq(S)
        /\ Len(v) = IF n + 1 <= Len(w) THEN Len(w) - (n + 1) + 1 ELSE 0
        /\ \A i \in 1 .. Len(w) - (n + 1) + 1 : v[i] = w[(n + 1) + i - 1]
    BY <2>1, <2>2, SubSeqProperties
  <2> HIDE DEF v
  <2> QED
    BY <1>1, <1>2, <2>3
<1>5. /\ x \in Seq(S) /\ Len(x) = Len(u) + Len(t)
      /\ \A i \in 1 .. Len(u) + Len(t) : x[i] = IF i <= Len(u) THEN u[i] ELSE t[i - Len(u)]
  BY <1>3, ConcatProperties
<1> HIDE DEF v, x
<1>6. Len(v) = Len(x) /\ \A i \in 1 .. Len(v) : v[i] = x[i]
  <2>1. ASSUME NEW i \in 1 .. Len(s) + Len(t) - n
        PROVE  v[i] = IF n + i <= Len(s) THEN s[n + i] ELSE t[n + i - Len(s)]
    <3> DEFINE j == n + i
    <3>1. j \in 1 .. Len(s) + Len(t) /\ v[i] = w[j]
      BY <1>1, <1>4
    <3> HIDE DEF j
    <3>2. w[j] = IF j <= Len(s) THEN s[j] ELSE t[j - Len(s)]
      BY <1>2, <3>1
    <3> QED
      BY <3>1, <3>2 DEF j
  <2>2. ASSUME NEW i \in 1 .. Len(s) + Len(t) - n
        PROVE  x[i] = IF n + i <= Len(s) THEN s[n + i] ELSE t[n + i - Len(s)]
    <3>1. i \in 1 .. Len(u) + Len(t) /\ i - Len(u) = n + i - Len(s)
      BY <1>1, <1>3
    <3>2. x[i] = IF i <= Len(u) THEN u[i] ELSE t[i - Len(u)]
      BY <1>5, <3>1
    <3>3. CASE i <= Len(u)
      <4>1. i \in 1 .. Len(s) - n /\ n + i <= Len(s)
        BY <1>1, <1>3, <3>3
      <4> QED
        BY <1>3, <3>2, <3>3, <4>1
    <3>4. CASE ~(i <= Len(u))
      <4>1. ~(n + i <= Len(s))
        BY <1>1, <1>3, <3>4
      <4> QED
        BY <3>1, <3>2, <3>4, <4>1
    <3> QED
      BY <3>3, <3>4
  <2> QED
    BY <1>1, <1>3, <1>4, <1>5, <2>1, <2>2
<1>7. v = x
  BY <1>4, <1>5, <1>6, SeqEqual
<1>8. \A i \in 1 .. n : w[i] = s[i]
  BY <1>1, <1>2
<1> QED
  BY <1>3, <1>7, <1>8 DEF u, v, w, x

\* Taking one element out of a sequence.
LEMMA TakeOut ==
    ASSUME NEW S, NEW s \in Seq(S), NEW t \in Seq(S), 0 < Len(t)
    PROVE  /\ (s \o t)[Len(s) + 1] = Head(t)
           /\ Len(s) + 1 \in 1 .. Len(s \o t)
           /\ SubSeq(s \o t, 1, Len(s)) \o SubSeq(s \o t, Len(s) + 2, Len(s \o t))
                = s \o Tail(t)
<1> DEFINE w == s \o t
<1>1. Len(s) \in Nat /\ Len(t) \in Nat /\ 1 <= Len(t) /\ t # <<>>
  BY LenProperties, EmptySeq
<1>2. Len(w) = Len(s) + Len(t)
  BY ConcatProperties
<1>3. w[Len(s) + 1] = Head(t) /\ Len(s) + 1 \in 1 .. Len(w)
  <2>1. Head(t) = t[1]
    BY <1>1, HeadTailProperties
  <2>2. Len(s) + 1 \in 1 .. Len(s) + Len(t) /\ Len(s) + 1 - Len(s) = 1 /\ ~(Len(s) + 1 <= Len(s))
    BY <1>1
  <2>3. w[Len(s) + 1] = t[1]
    BY <2>2, ConcatProperties
  <2> QED
    BY <1>2, <2>1, <2>2, <2>3
<1>4. SubSeq(w, 1, Len(s)) = s
  <2>1. CASE Len(s) = 0
    <3>1. SubSeq(w, 1, Len(s)) = <<>> /\ s = <<>>
      BY <2>1, SubSeqEmpty, EmptySeq
    <3> QED
      BY <3>1
  <2>2. CASE Len(s) # 0
    <3>1. 1 \in 1 .. Len(s) /\ Len(s) \in 1 .. Len(s)
      BY <1>1, <2>2
    <3>2. SubSeq(w, 1, Len(s)) = SubSeq(s, 1, Len(s))
      BY <3>1, SubSeqOfConcat1
    <3> QED
      BY <3>2, SubSeqFull
  <2> QED
    BY <2>1, <2>2
<1>5. SubSeq(w, Len(s) + 2, Len(w)) = Tail(t)
  <2>1. Tail(t) = SubSeq(t, 2, Len(t))
    BY <1>1, TailIsSubSeq
  <2>2. CASE Len(t) = 1
    <3> DEFINE m == Len(s)
    <3>1. Len(w) = m + 1 /\ m \in Nat
      BY <1>1, <1>2, <2>2
    <3> HIDE DEF m, w
    <3>2. m + 1 < m + 2 /\ m + 1 \in Int /\ m + 2 \in Int
      BY <3>1
    <3>3. SubSeq(w, m + 2, m + 1) = <<>>
      BY <3>2, SubSeqEmpty, Zenon
    <3>4. SubSeq(t, 2, Len(t)) = <<>>
      BY <2>2, SubSeqEmpty
    <3> QED
      BY <2>1, <3>1, <3>3, <3>4 DEF m
  <2>3. CASE 2 <= Len(t)
    <3> DEFINE m == Len(s)
               k == Len(t)
    <3>1. m \in Nat /\ k \in Nat /\ 2 <= k
      BY <1>1, <2>3
    <3> HIDE DEF m, k
    <3>2. /\ m + 2 \in m + 1 .. m + k /\ (m + 2) - m = 2
          /\ m + k \in m + 1 .. m + k /\ (m + k) - m = k
      BY <3>1
    <3>3. SubSeq(w, m + 2, m + k) = SubSeq(t, (m + 2) - m, (m + k) - m)
      BY <3>2, SubSeqOfConcat2 DEF m, k
    <3>4. SubSeq(w, m + 2, m + k) = SubSeq(t, 2, k)
      BY <3>2, <3>3
    <3> QED
      BY <1>2, <2>1, <3>4 DEF m, k
  <2> QED
    BY <1>1, <2>2, <2>3
<1> QED
  BY <1>3, <1>4, <1>5

\* The first element of a sequence stays first when another one follows it.
LEMMA FirstOfConcat ==
    ASSUME NEW S, NEW t \in Seq(S), NEW s \in Seq(S), 0 < Len(t)
    PROVE  Tail(t \o s) = Tail(t) \o s /\ Head(t \o s) = Head(t)
<1> DEFINE u == t \o s
           front == Tail(t) \o s
<1>1. Len(t) \in Nat /\ t # <<>>
  BY LenProperties, EmptySeq
<1>2. u \in Seq(S) /\ Len(u) = Len(t) + Len(s) /\ u # <<>>
  <2>1. u \in Seq(S) /\ Len(u) = Len(t) + Len(s) /\ Len(s) \in Nat
    BY ConcatProperties, LenProperties
  <2> QED
    BY <1>1, <2>1, EmptySeq
<1>3. Tail(t) = SubSeq(t, 2, Len(t)) /\ Head(t) = t[1]
  BY <1>1, TailIsSubSeq, HeadTailProperties
<1>4. Tail(u) = SubSeq(u, 2, Len(u)) /\ Head(u) = u[1]
  <2> HIDE DEF u
  <2> QED
    BY <1>2, TailIsSubSeq, HeadTailProperties
<1>5. SubSeq(u, 1 + 1, Len(u)) = SubSeq(t, 1 + 1, Len(t)) \o s /\ u[1] = t[1]
  <2>1. 1 \in 0 .. Len(t) /\ 1 \in 1 .. 1
    BY <1>1
  <2> QED
    BY <2>1, DropOldest
<1> DEFINE rest(i) == SubSeq(t, i, Len(t)) \o s
           uFrom(i) == SubSeq(u, i, Len(u))
<1>6. uFrom(1 + 1) = rest(1 + 1)
  BY <1>5
<1>7. rest(2) = front /\ uFrom(2) = Tail(u)
  BY <1>3, <1>4, Zenon
<1> HIDE DEF rest, uFrom, front, u
<1>8. uFrom(2) = rest(2)
  <2>1. 1 + 1 = 2
    OBVIOUS
  <2> QED
    BY <1>6, <2>1
<1>9. Tail(u) = front /\ Head(u) = Head(t)
  BY <1>3, <1>4, <1>5, <1>7, <1>8, Zenon
<1> QED
  BY <1>9 DEF u, front

\* Moving one element between two sequences that are concatenated.
LEMMA MoveOne ==
    ASSUME NEW S, NEW s \in Seq(S), NEW t \in Seq(S)
    PROVE  /\ \A e \in S : s \o Append(t, e) = Append(s \o t, e)
           /\ 0 < Len(t) => Append(s, Head(t)) \o Tail(t) = s \o t
<1>1. ASSUME NEW e \in S
      PROVE  s \o Append(t, e) = Append(s \o t, e)
  <2> DEFINE u == <<e>>
  <2>1. Append(t, e) = t \o u /\ u \in Seq(S) /\ s \o t \in Seq(S)
    BY AppendIsConcat, ConcatProperties
  <2>2. Append(s \o t, e) = (s \o t) \o u
    BY <2>1, AppendIsConcat
  <2> HIDE DEF u
  <2>3. (s \o t) \o u = s \o (t \o u)
    BY <2>1, ConcatAssociative
  <2> QED
    BY <2>1, <2>2, <2>3, Zenon
<1>2. ASSUME 0 < Len(t)
      PROVE  Append(s, Head(t)) \o Tail(t) = s \o t
  <2> DEFINE h == <<Head(t)>>
             tail == Tail(t)
  <2>1. t # <<>> /\ 1 \in 1 .. Len(t) /\ Len(t) \in 1 .. Len(t)
    BY <1>2, EmptySeq, LenProperties
  <2>2. h \in Seq(S) /\ tail \in Seq(S) /\ Head(t) = t[1] /\ Append(s, Head(t)) = s \o h
    BY <2>1, HeadTailProperties, AppendIsConcat
  <2>3. h \o tail = t
    <3>1. Tail(t) = SubSeq(t, 2, Len(t)) /\ SubSeq(t, 1, Len(t)) = t /\ 1 + 1 = 2
      BY <2>1, TailIsSubSeq, SubSeqFull
    <3>2. SubSeq(t, 1, Len(t)) = << t[1] >> \o SubSeq(t, 1 + 1, Len(t))
      BY <2>1, SubSeqRecursiveFirst
    <3> QED
      BY <2>2, <3>1, <3>2
  <2> HIDE DEF h, tail
  <2>4. h \in Seq(S) /\ tail \in Seq(S)
    BY <2>2
  <2>5. (s \o h) \o tail = s \o (h \o tail)
    BY <2>4, ConcatAssociative
  <2>6. Append(s, Head(t)) \o tail = s \o t
    BY <2>2, <2>3, <2>5, Zenon
  <2> QED
    BY <2>6 DEF tail
<1> QED
  BY <1>1, <1>2

-------------------------------------------------------------------------------
(* The steps.                                                              *)

\* What update() ends is the front of the order: goals retired in order, or
\* all it holds.
LEMMA FrontEnds ==
    ASSUME TypeOK, GoalsKept, UNCHANGED <<client, executor>>,
           NEW s \in Seq(Goal), NEW t \in Seq(Goal), NEW n \in 0 .. Len(s),
           NEW missed \in SUBSET {s[i] : i \in 1 .. n},
           Order = s \o t,
           Order' = SubSeq(s, n + 1, Len(s)) \o t,
           result' = [g \in Goal |-> IF g \in missed THEN "aborted"
                                     ELSE IF g \in {s[i] : i \in 1 .. n} THEN "succeeded"
                                     ELSE result[g]]
    PROVE  GoalsKept' /\ [Contract!Next]_<<Status, Order>>
<1> DEFINE ended == {s[i] : i \in 1 .. n}
<1>0. /\ missed \subseteq ended
      /\ result' = [g \in Goal |-> IF g \in missed THEN "aborted"
                                   ELSE IF g \in ended THEN "succeeded"
                                   ELSE result[g]]
  OBVIOUS
<1>1. Len(s) \in Nat /\ Len(t) \in Nat /\ Len(Order) = Len(s) + Len(t) /\ n \in Nat /\ n <= Len(s)
  BY LenProperties, ConcatProperties
<1>2. Order' = SubSeq(Order, n + 1, Len(Order))
  BY DropOldest
<1>3. ended = {Order[i] : i \in 1 .. n}
  <2>1. \A i \in 1 .. n : Order[i] = s[i]
    BY DropOldest
  <2> QED
    BY <2>1
<1>4. Status' = [g \in Goal |-> IF g \in ended \ missed THEN "succeeded"
                                ELSE IF g \in ended THEN "aborted"
                                ELSE Status[g]]
  <2> HIDE DEF ended
  <2> QED
    BY <1>0 DEF Status
<1>5. ASSUME n = 0
      PROVE  UNCHANGED <<Status, Order>>
  <2>1. ended = {}
    BY <1>5
  <2>2. Status' = Status
    BY <1>4, <2>1 DEF Status
  <2>3. Order' = Order
    <3>1. SubSeq(s, 1, Len(s)) = s
      BY SubSeqFull
    <3>2. n + 1 = 1
      BY <1>5
    <3> QED
      BY <3>1, <3>2
  <2> QED
    BY <2>2, <2>3
<1>6. ASSUME n # 0
      PROVE  Contract!Next
  <2>1. n \in 1 .. Len(Order)
    BY <1>1, <1>6
  <2>2. ended \ missed \in SUBSET {Order[i] : i \in 1 .. n}
    BY <1>3
  <2>3. Status' = [g \in Goal |-> IF g \in ended \ missed THEN "succeeded"
                                  ELSE IF g \in {Order[i] : i \in 1 .. n} THEN "aborted"
                                  ELSE Status[g]]
    BY <1>3, <1>4
  <2> HIDE DEF ended
  <2>4. Contract!EndOldest
    BY <1>2, <2>1, <2>2, <2>3 DEF Contract!EndOldest
  <2> QED
    BY <2>4 DEF Contract!Next
<1>7. GoalsKept'
  <2>1. \A g \in Goal : result'[g] # result[g] => g \in ended
    <3> HIDE DEF ended
    <3> QED
      BY <1>0
  <2>2. \A g \in ended : client[g] # "new"
    <3>1. \A i \in 1 .. n : i \in 1 .. Len(Order)
      BY <1>1
    <3> QED
      BY <1>3, <3>1 DEF GoalsKept
  <2>3. \A g \in Goal : client'[g] = "new" => result'[g] = "none"
    BY <2>1, <2>2 DEF GoalsKept
  <2>4. ASSUME NEW i \in 1 .. Len(Order')
        PROVE  client'[Order'[i]] # "new"
    <3> DEFINE o == Order
    <3>1. o \in Seq(Goal) /\ Len(o) \in Nat
      BY <1>1, ConcatProperties
    <3> HIDE DEF o
    <3>2. \A k \in n + 1 .. Len(o) : o[k] \in Goal
      BY <1>1, <3>1, ElementOfSeq
    <3>3. /\ Len(SubSeq(o, n + 1, Len(o))) = IF n + 1 <= Len(o) THEN Len(o) - (n + 1) + 1 ELSE 0
          /\ \A k \in 1 .. Len(o) - (n + 1) + 1 : SubSeq(o, n + 1, Len(o))[k] = o[(n + 1) + k - 1]
      <4>1. n + 1 \in Int /\ Len(o) \in Int
        BY <1>1, <3>1
      <4> QED
        BY <3>2, <4>1, SubSeqProperties
    <3>4. Order' = SubSeq(o, n + 1, Len(o))
      BY <1>2 DEF o
    <3>5. i \in 1 .. Len(o) - n /\ n + i \in 1 .. Len(o)
      BY <1>1, <3>1, <3>3, <3>4
    <3>6. Order'[i] = o[n + i]
      <4>1. i \in 1 .. Len(o) - (n + 1) + 1 /\ (n + 1) + i - 1 = n + i
        BY <1>1, <3>1, <3>5
      <4>2. SubSeq(o, n + 1, Len(o))[i] = o[(n + 1) + i - 1]
        BY <3>3, <4>1
      <4> QED
        BY <3>4, <4>1, <4>2
    <3> QED
      BY <3>5, <3>6 DEF GoalsKept, o
  <2> QED
    BY <2>3, <2>4 DEF GoalsKept
<1> QED
  BY <1>5, <1>6, <1>7

\* The queues in order of acceptance.
LEMMA QueuesInOrder ==
    ASSUME TypeOK
    PROVE  /\ inflight \in Seq(Goal) /\ pending \in Seq(Goal) /\ incoming \in Seq(Goal)
           /\ Begun \in Seq(Goal) /\ Unfed \in Seq(Goal) /\ HeldOrder \in Seq(Goal)
           /\ Order \in Seq(Goal) /\ Order = HeldOrder \o incoming
           /\ Held = {HeldOrder[i] : i \in 1 .. Len(HeldOrder)}
<1>1. inflight \in Seq(Goal) /\ pending \in Seq(Goal) /\ incoming \in Seq(Goal)
  BY DEF TypeOK, ControllerTypeOK
<1>2. feeding = NoGoal \/ feeding \in Goal
  BY DEF TypeOK, ControllerTypeOK
<1>3. Begun \in Seq(Goal)
  BY <1>1, <1>2, AppendProperties DEF Begun
<1>4. Unfed \in Seq(Goal)
  BY <1>1, ConcatProperties DEF Unfed
<1>5. HeldOrder \in Seq(Goal)
  BY <1>1, <1>3, ConcatProperties DEF HeldOrder
<1>6. Order \in Seq(Goal)
  BY <1>3, <1>4, ConcatProperties DEF Order
<1>7. Order = HeldOrder \o incoming
  <2>1. (Begun \o pending) \o incoming = Begun \o (pending \o incoming)
    BY <1>1, <1>3, ConcatAssociative
  <2> QED
    BY <2>1, Zenon DEF Order, Unfed, HeldOrder
<1>8. Range(Begun) = Range(inflight) \cup ({feeding} \ {NoGoal})
  <2>1. CASE feeding = NoGoal
    BY <2>1 DEF Begun
  <2>2. CASE feeding # NoGoal
    <3> DEFINE f == <<feeding>>
    <3>1. feeding \in Goal
      BY <1>2, <2>2
    <3>2. f \in Seq(Goal) /\ Range(f) = {feeding}
      BY <3>1 DEF Range
    <3>3. Begun = inflight \o f
      BY <1>1, <2>2, <3>1, AppendIsConcat DEF Begun
    <3> HIDE DEF f
    <3>4. Range(inflight \o f) = Range(inflight) \cup Range(f)
      BY <1>1, <3>2, RangeConcatenation
    <3>5. {feeding} \ {NoGoal} = {feeding}
      BY <2>2
    <3> QED
      BY <3>2, <3>3, <3>4, <3>5, Zenon
  <2> QED
    BY <2>1, <2>2
<1>9. Range(HeldOrder) = Range(Begun) \cup Range(pending)
  BY <1>1, <1>3, RangeConcatenation DEF HeldOrder
<1>10. Held = Range(HeldOrder)
  <2>1. Members(inflight) = Range(inflight) /\ Members(pending) = Range(pending)
    BY Zenon DEF Members, Range
  <2> QED
    BY <1>8, <1>9, <2>1, Zenon DEF Held
<1>11. Range(HeldOrder) = {HeldOrder[i] : i \in 1 .. Len(HeldOrder)}
  BY <1>5, RangeEquality, Zenon
<1> QED
  BY <1>1, <1>3, <1>4, <1>5, <1>6, <1>7, <1>10, <1>11

\* Whatever update(), the executor and the plugin do, the goals' results and
\* queues take a step the contract allows, or none.
LEMMA ContractStep ==
    ASSUME TypeOK, GoalsKept, [Next]_vars
    PROVE  GoalsKept' /\ [Contract!Next]_<<Status, Order>>
<1>1. /\ result \in [Goal -> {"none", "succeeded", "aborted"}]
      /\ client \in [Goal -> {"new", "rejected", "active", "succeeded", "aborted"}]
      /\ executor \in Callback
      /\ feeding = NoGoal \/ feeding \in Goal
      /\ NoGoal \notin Goal
  BY GoalAssumption DEF TypeOK, ControllerTypeOK
<1>2. ASSUME UNCHANGED <<incoming, pending, feeding, inflight, result, client, executor>>
      PROVE  GoalsKept' /\ UNCHANGED <<Status, Order>>
  <2>1. Order' = Order
    BY <1>2, Zenon DEF Order, Begun, Unfed
  <2> QED
    BY <1>2, <2>1 DEF GoalsKept, Status
<1>3. ASSUME Order' = Order, UNCHANGED <<result, client, executor>>
      PROVE  GoalsKept' /\ UNCHANGED <<Status, Order>>
  BY <1>3 DEF GoalsKept, Status
\* A hold ends all that update() holds.
<1>4. ASSUME AbortAllGoals, UNCHANGED <<client, executor>>
      PROVE  GoalsKept' /\ [Contract!Next]_<<Status, Order>>
  <2> DEFINE s == HeldOrder
             n == Len(s)
  <2>1. s \in Seq(Goal) /\ incoming \in Seq(Goal) /\ Order = s \o incoming
    BY QueuesInOrder
  <2>2. n \in 0 .. Len(s) /\ n + 1 \in Int /\ n \in Int /\ n < n + 1
    BY <2>1, LenProperties
  <2>3. Order' = SubSeq(s, n + 1, Len(s)) \o incoming
    <3>1. Begun' = <<>> /\ Unfed' = <<>> \o incoming
      BY <1>4, Zenon DEF AbortAllGoals, Begun, Unfed
    <3>2. <<>> \o incoming = incoming
      BY <2>1, ConcatEmptySeq
    <3>3. Order' = <<>> \o incoming
      BY <3>1, <3>2, Zenon DEF Order
    <3> HIDE DEF s
    <3>4. SubSeq(s, n + 1, Len(s)) = <<>>
      BY <2>2, SubSeqEmpty
    <3> QED
      BY <3>3, <3>4, Zenon
  <2>4. Held = {s[i] : i \in 1 .. n}
    BY QueuesInOrder
  <2>5. result' = [g \in Goal |-> IF g \in Held THEN "aborted"
                                  ELSE IF g \in {s[i] : i \in 1 .. n} THEN "succeeded"
                                  ELSE result[g]]
    <3>1. result' = [g \in Goal |-> IF g \in Held THEN "aborted" ELSE result[g]]
      BY <1>4 DEF AbortAllGoals
    <3> DEFINE held == Held
               all == {s[i] : i \in 1 .. n}
    <3>2. held = all
      BY <2>4, Zenon
    <3> HIDE DEF held, all
    <3>3. result' = [g \in Goal |-> IF g \in held THEN "aborted" ELSE result[g]]
      BY <3>1 DEF held
    <3>4. result' = [g \in Goal |-> IF g \in held THEN "aborted"
                                    ELSE IF g \in all THEN "succeeded"
                                    ELSE result[g]]
      BY <3>2, <3>3
    <3> QED
      BY <3>4 DEF held, all
  <2>6. Held \in SUBSET {s[i] : i \in 1 .. n}
    BY <2>4
  <2> HIDE DEF s, n
  <2> QED
    BY <1>4, <2>1, <2>2, <2>3, <2>5, <2>6, FrontEnds
<1>5. ASSUME UpdateStep
      PROVE  GoalsKept' /\ [Contract!Next]_<<Status, Order>>
  <2>1. CASE BeginUpdate
    <3>1. inflight \in Seq(Goal) /\ pending \in Seq(Goal) /\ incoming \in Seq(Goal)
      BY QueuesInOrder
    <3>2. Unfed' = Unfed
      <4>1. CASE UNCHANGED <<incoming, pending>>
        BY <4>1 DEF Unfed
      <4>2. CASE incoming' = <<>> /\ pending' = pending \o incoming
        <5>1. Unfed' = (pending \o incoming) \o <<>>
          BY <4>2, Zenon DEF Unfed
        <5>2. Unfed \o <<>> = Unfed
          BY QueuesInOrder, ConcatEmptySeq
        <5> QED
          BY <5>1, <5>2, Zenon DEF Unfed
      <4> QED
        BY <2>1, <4>1, <4>2 DEF BeginUpdate
    <3>3. PICK n \in 0 .. Len(inflight) :
            /\ inflight' = SubSeq(inflight, n + 1, Len(inflight))
            /\ \E missed \in SUBSET {g \in {inflight[i] : i \in 1 .. n} : finalize[g]} :
                  result' = [g \in Goal |->
                                IF g \in missed THEN "aborted"
                                ELSE IF g \in {inflight[i] : i \in 1 .. n} THEN "succeeded"
                                ELSE result[g]]
      BY <2>1 DEF BeginUpdate
    <3>4. UNCHANGED <<feeding, client, executor>>
      BY <2>1 DEF BeginUpdate
    <3>5. /\ Begun' = SubSeq(Begun, n + 1, Len(Begun))
          /\ n \in 0 .. Len(Begun)
          /\ \A i \in 1 .. n : Begun[i] = inflight[i]
      <4>1. CASE feeding = NoGoal
        BY <3>3, <3>4, <4>1 DEF Begun
      <4>2. CASE feeding # NoGoal
        <5> DEFINE f == <<feeding>>
                   rest == SubSeq(inflight, n + 1, Len(inflight))
        <5>1. f \in Seq(Goal) /\ feeding \in Goal
          BY <1>1, <4>2
        <5>2. rest \in Seq(Goal)
          BY <3>1, <3>3, <5>1, DropOldest
        <5>3. Begun = inflight \o f /\ Begun' = rest \o f
          <6>1. Append(inflight, feeding) = inflight \o f
            BY <3>1, <5>1, AppendIsConcat
          <6>2. Append(rest, feeding) = rest \o f
            BY <5>1, <5>2, AppendIsConcat
          <6>3. Begun' = Append(rest, feeding)
            BY <3>3, <3>4, <4>2 DEF Begun
          <6> QED
            BY <4>2, <6>1, <6>2, <6>3, Zenon DEF Begun
        <5> HIDE DEF f
        <5>7. inflight \in Seq(Goal) /\ f \in Seq(Goal) /\ n \in 0 .. Len(inflight)
          BY <3>1, <5>1
        <5>4. /\ SubSeq(inflight \o f, n + 1, Len(inflight \o f)) = rest \o f
              /\ \A i \in 1 .. n : (inflight \o f)[i] = inflight[i]
          BY <5>7, DropOldest
        <5>5. Len(inflight) \in Nat /\ Len(f) \in Nat /\ Len(inflight \o f) = Len(inflight) + Len(f)
          BY <3>1, <5>1, LenProperties, ConcatProperties
        <5>6. n \in 0 .. Len(inflight \o f)
          BY <3>3, <5>5
        <5> HIDE DEF rest
        <5> QED
          BY <5>3, <5>4, <5>6
      <4> QED
        BY <4>1, <4>2
    <3>6. Order = Begun \o Unfed /\ Order' = SubSeq(Begun, n + 1, Len(Begun)) \o Unfed
      BY <3>2, <3>5, Zenon DEF Order
    <3> DEFINE retired == {inflight[i] : i \in 1 .. n}
               ended == {Begun[i] : i \in 1 .. n}
    <3>7. retired = ended
      BY <3>5
    <3>8. PICK missed \in SUBSET {g \in retired : finalize[g]} :
                  result' = [g \in Goal |-> IF g \in missed THEN "aborted"
                                            ELSE IF g \in retired THEN "succeeded"
                                            ELSE result[g]]
      BY <3>3
    <3> HIDE DEF retired, ended
    <3>9. /\ missed \in SUBSET ended
          /\ result' = [g \in Goal |-> IF g \in missed THEN "aborted"
                                       ELSE IF g \in ended THEN "succeeded"
                                       ELSE result[g]]
      BY <3>7, <3>8
    <3>10. Begun \in Seq(Goal) /\ Unfed \in Seq(Goal)
      BY QueuesInOrder
    <3>11. /\ missed \in SUBSET {Begun[i] : i \in 1 .. n}
           /\ result' = [g \in Goal |-> IF g \in missed THEN "aborted"
                                        ELSE IF g \in {Begun[i] : i \in 1 .. n} THEN "succeeded"
                                        ELSE result[g]]
      BY <3>9, Zenon DEF ended
    <3>12. n \in 0 .. Len(Begun) /\ UNCHANGED <<client, executor>>
      BY <3>4, <3>5
    <3> HIDE DEF Begun, Unfed
    <3> QED
      BY <3>6, <3>10, <3>11, <3>12, FrontEnds
  <2>2. CASE FaultHold \/ FaultReset \/ OperatorHold \/ StopReset
    BY <1>4, <2>2 DEF FaultHold, FaultReset, OperatorHold, StopReset, HoldVars
  <2>3. CASE FaultRelease \/ CheckStopLatch \/ StopRelease \/ StreamNothing
    BY <1>2, <2>3
    DEF FaultRelease, CheckStopLatch, StopRelease, StreamNothing, HealthyCycle, HoldVars,
        pipelineVars
  <2>4. CASE AdoptGoal
    <3> DEFINE rest == Tail(pending)
    <3>1. inflight \in Seq(Goal) /\ pending \in Seq(Goal) /\ incoming \in Seq(Goal)
      BY QueuesInOrder
    <3>2. /\ feeding = NoGoal /\ feeding' = Head(pending) /\ pending' = rest
          /\ UNCHANGED <<inflight, incoming, result, client, executor>>
          /\ pending # <<>>
      BY <2>4 DEF AdoptGoal, HealthyCycle, MayAdopt
    <3>3. Head(pending) \in Goal /\ rest \in Seq(Goal) /\ 0 < Len(pending)
      BY <3>1, <3>2, HeadTailProperties, EmptySeq
    <3>4. Begun = inflight /\ Begun' = Append(inflight, Head(pending)) /\ Begun' \in Seq(Goal)
      BY <1>1, <3>1, <3>2, <3>3, AppendProperties DEF Begun
    <3>5. Append(inflight, Head(pending)) \o rest = inflight \o pending
      <4>1. /\ inflight \in Seq(Goal) /\ pending \in Seq(Goal)
            /\ 0 < Len(pending)
        BY <3>1, <3>3
      <4>2. \A x, y \in Seq(Goal) : 0 < Len(y) => Append(x, Head(y)) \o Tail(y) = x \o y
        BY MoveOne, Zenon
      <4> QED
        BY <4>1, <4>2, Zenon
    <3> DEFINE b == Begun'
    <3>6. Order' = b \o (rest \o incoming)
      BY <3>2, Zenon DEF Order, Unfed
    <3>7. b \o rest = HeldOrder
      BY <3>4, <3>5, Zenon DEF HeldOrder
    <3>11. b \in Seq(Goal)
      BY <3>4
    <3>12. rest \in Seq(Goal) /\ incoming \in Seq(Goal)
      BY <3>1, <3>3
    <3> HIDE DEF b, rest
    <3>8. (b \o rest) \o incoming = b \o (rest \o incoming)
      <4>1. \A x, y, z \in Seq(Goal) : (x \o y) \o z = x \o (y \o z)
        BY ConcatAssociative
      <4> QED
        BY <3>11, <3>12, <4>1, Zenon
    <3>9. Order = HeldOrder \o incoming
      BY QueuesInOrder
    <3>10. Order' = Order
      BY <3>6, <3>7, <3>8, <3>9, Zenon
    <3> QED
      BY <1>3, <3>2, <3>10
  <2>5. CASE RefuseDiscontinuousGoal
    <3> DEFINE s == Begun
               t == Unfed
               first == Len(s) + 1
    <3>1. /\ pending # <<>> /\ pending' = Tail(pending)
          /\ result' = [result EXCEPT ![Head(pending)] = "aborted"]
          /\ UNCHANGED <<incoming, feeding, inflight, client, executor>>
      BY <2>5 DEF RefuseDiscontinuousGoal, HealthyCycle, MayAdopt
    <3>2. /\ pending \in Seq(Goal) /\ incoming \in Seq(Goal)
          /\ s \in Seq(Goal) /\ t \in Seq(Goal) /\ Order = s \o t
      BY QueuesInOrder DEF Order
    <3>3. 0 < Len(pending) /\ Len(pending) \in Nat /\ Len(incoming) \in Nat
      BY <3>1, <3>2, EmptySeq, LenProperties
    <3>4. /\ Tail(t) = Tail(pending) \o incoming /\ Head(t) = Head(pending)
          /\ Len(t) = Len(pending) + Len(incoming)
      <4>1. /\ Tail(pending \o incoming) = Tail(pending) \o incoming
            /\ Head(pending \o incoming) = Head(pending)
        BY <3>2, <3>3, FirstOfConcat, Zenon
      <4>2. Len(pending \o incoming) = Len(pending) + Len(incoming)
        BY <3>2, ConcatProperties
      <4> QED
        BY <4>1, <4>2, Zenon DEF Unfed
    <3>5. Order' = s \o Tail(t)
      <4>1. s' = s
        BY <3>1 DEF Begun
      <4>2. t' = Tail(t)
        BY <3>1, <3>4, Zenon DEF Unfed
      <4> QED
        BY <4>1, <4>2, Zenon DEF Order
    <3> HIDE DEF s, t
    <3>6. 0 < Len(t) /\ t # <<>> /\ Len(t) \in Nat /\ Len(s) \in Nat
      BY <3>2, <3>3, <3>4, LenProperties, EmptySeq
    <3>7. /\ Order[first] = Head(t)
          /\ first \in 1 .. Len(Order)
          /\ SubSeq(Order, 1, Len(s)) \o SubSeq(Order, Len(s) + 2, Len(Order)) = s \o Tail(t)
      BY <3>2, <3>6, TakeOut
    <3>8. /\ Head(t) \in Goal
          /\ client[Head(t)] # "new"
      <4>1. Head(t) \in Goal
        BY <3>2, <3>6, HeadTailProperties
      <4> QED
        BY <3>7, <4>1 DEF GoalsKept
    <3>9. Contract!Refuse
      <4>1. Status' = [Status EXCEPT ![Order[first]] = "aborted"]
        BY <1>1, <3>1, <3>4, <3>7, <3>8 DEF Status
      <4>2. first - 1 = Len(s) /\ first + 1 = Len(s) + 2
        BY <3>6
      <4>3. Order' = SubSeq(Order, 1, first - 1) \o SubSeq(Order, first + 1, Len(Order))
        <5> HIDE DEF first
        <5> QED
          BY <3>5, <3>7, <4>2
      <4> HIDE DEF first
      <4> QED
        BY <3>7, <4>1, <4>3 DEF Contract!Refuse
    <3>10. GoalsKept'
      <4>1. \A g \in Goal : client'[g] = "new" => result'[g] = "none"
        BY <1>1, <3>1, <3>4, <3>8 DEF GoalsKept
      <4>2. ASSUME NEW i \in 1 .. Len(Order')
            PROVE  client'[Order'[i]] # "new"
        <5>1. /\ Tail(t) \in Seq(Goal) /\ Len(Tail(t)) = Len(t) - 1
              /\ \A k \in 1 .. Len(t) - 1 : Tail(t)[k] = t[k + 1]
          BY <3>2, <3>6, HeadTailProperties
        <5> DEFINE u == Tail(t)
                   o == Order
        <5> HIDE DEF u
        <5>2. /\ Len(Order') = Len(s) + Len(u)
              /\ \A k \in 1 .. Len(s) + Len(u) :
                    Order'[k] = IF k <= Len(s) THEN s[k] ELSE u[k - Len(s)]
          BY <3>2, <3>5, <5>1, ConcatProperties DEF u
        <5>3. /\ Len(o) = Len(s) + Len(t)
              /\ \A k \in 1 .. Len(s) + Len(t) :
                    o[k] = IF k <= Len(s) THEN s[k] ELSE t[k - Len(s)]
          BY <3>2, ConcatProperties
        <5> HIDE DEF o
        <5>4. CASE i <= Len(s)
          <6>1. i \in 1 .. Len(o) /\ o[i] = s[i] /\ Order'[i] = s[i]
            BY <3>6, <5>1, <5>2, <5>3, <5>4 DEF u
          <6> QED
            BY <3>1, <6>1 DEF GoalsKept, o
        <5>5. CASE ~(i <= Len(s))
          <6>1. /\ i + 1 \in 1 .. Len(o) /\ i - Len(s) \in 1 .. Len(t) - 1
                /\ (i + 1) - Len(s) = (i - Len(s)) + 1 /\ ~(i + 1 <= Len(s))
                /\ i \in 1 .. Len(s) + Len(u)
            BY <3>6, <5>1, <5>2, <5>3, <5>5 DEF u
          <6>2. o[i + 1] = t[(i + 1) - Len(s)]
            BY <5>3, <6>1
          <6>3. Order'[i] = u[i - Len(s)]
            BY <5>2, <5>5, <6>1
          <6>4. u[i - Len(s)] = t[(i - Len(s)) + 1]
            BY <5>1, <6>1 DEF u
          <6>5. o[i + 1] = Order'[i]
            BY <6>1, <6>2, <6>3, <6>4
          <6> QED
            BY <3>1, <6>1, <6>5 DEF GoalsKept, o
        <5> QED
          BY <5>4, <5>5
      <4> QED
        BY <3>1, <4>1, <4>2 DEF GoalsKept
    <3> QED
      BY <3>9, <3>10 DEF Contract!Next
  <2>6. CASE FeedActionChunk
    <3>1. Begun' = Begun
      BY <1>1, <2>6 DEF FeedActionChunk, Begun
    <3>2. UNCHANGED <<pending, incoming, result, client, executor>>
      BY <2>6 DEF FeedActionChunk, HealthyCycle
    <3>3. Order' = Order
      BY <3>1, <3>2, Zenon DEF Order, Unfed
    <3> QED
      BY <1>3, <3>2, <3>3
  <2> QED
    BY <1>5, <2>1, <2>2, <2>3, <2>4, <2>5, <2>6 DEF UpdateStep
<1>6. ASSUME ExecutorStep
      PROVE  GoalsKept' /\ [Contract!Next]_<<Status, Order>>
  <2>1. ASSUME NEW g \in Goal, AdmitGoal(g)
        PROVE  GoalsKept' /\ UNCHANGED <<Status, Order>>
    <3>1. /\ client[g] = "new" /\ executor' = <<"accept", g>>
          /\ UNCHANGED <<incoming, pending, feeding, inflight, result, client>>
      BY <2>1 DEF AdmitGoal, pipelineVars
    <3>2. Order' = Order
      BY <3>1, Zenon DEF Order, Begun, Unfed
    <3> QED
      BY <3>1, <3>2 DEF GoalsKept, Status
  <2>2. ASSUME NEW g \in Goal, RejectGoal(g)
        PROVE  GoalsKept' /\ [Contract!Next]_<<Status, Order>>
    <3>1. /\ client[g] = "new" /\ client' = [client EXCEPT ![g] = "rejected"]
          /\ executor = Idle
          /\ UNCHANGED <<incoming, pending, feeding, inflight, result, executor>>
      BY <2>2 DEF RejectGoal, pipelineVars
    <3>2. Order' = Order
      BY <3>1, Zenon DEF Order, Begun, Unfed
    <3>3. result[g] = "none"
      BY <3>1 DEF GoalsKept
    <3>4. Status[g] = "new" /\ Status' = [Status EXCEPT ![g] = "rejected"]
      BY <1>1, <3>1, <3>3 DEF Status
    <3>5. GoalsKept'
      BY <1>1, <3>1, <3>2 DEF GoalsKept, Idle
    <3> QED
      BY <3>2, <3>4, <3>5 DEF Contract!Next, Contract!Reject
  <2>3. ASSUME NEW g \in Goal, HandleAccepted(g)
        PROVE  GoalsKept' /\ [Contract!Next]_<<Status, Order>>
    <3>1. /\ executor = <<"accept", g>> /\ executor' = Idle
          /\ client' = [client EXCEPT ![g] = "active"]
          /\ incoming' = Append(incoming, g)
          /\ UNCHANGED <<pending, feeding, inflight, result>>
      BY <2>3 DEF HandleAccepted
    <3>2. client[g] = "new" /\ result[g] = "none"
      BY <3>1 DEF GoalsKept
    <3>3. Order' = Append(Order, g)
      <4>1. /\ pending \in Seq(Goal) /\ incoming \in Seq(Goal)
            /\ Begun \in Seq(Goal) /\ Unfed \in Seq(Goal)
        BY QueuesInOrder
      <4>5. g \in Goal
        BY <2>3
      <4>2. pending \o Append(incoming, g) = Append(pending \o incoming, g)
        BY <4>1, <4>5, MoveOne
      <4>3. Unfed' = Append(Unfed, g) /\ Begun' = Begun
        BY <3>1, <4>2, Zenon DEF Unfed, Begun
      <4>4. Begun \o Append(Unfed, g) = Append(Begun \o Unfed, g)
        BY <4>1, <4>5, MoveOne
      <4> QED
        BY <4>3, <4>4, Zenon DEF Order
    <3>4. Status[g] = "new" /\ Status' = [Status EXCEPT ![g] = "accepted"]
      BY <1>1, <3>1, <3>2 DEF Status
    <3>5. GoalsKept'
      <4>1. \A h \in Goal : client'[h] = "new" => client[h] = "new"
        BY <1>1, <3>1
      <4>2. ASSUME NEW i \in 1 .. Len(Order')
            PROVE  client'[Order'[i]] # "new"
        <5> DEFINE o == Order
        <5>1. o \in Seq(Goal)
          BY QueuesInOrder
        <5> HIDE DEF o
        <5>2. Order' = Append(o, g)
          BY <3>3 DEF o
        <5>3. /\ Len(Order') = Len(o) + 1 /\ Len(o) \in Nat
              /\ \A k \in 1 .. Len(o) : Order'[k] = o[k] /\ o[k] \in Goal
              /\ Order'[Len(o) + 1] = g
          BY <5>1, <5>2, AppendProperties, LenProperties, ElementOfSeq
        <5>4. CASE i = Len(o) + 1
          BY <1>1, <3>1, <5>3, <5>4
        <5>5. CASE i \in 1 .. Len(o)
          BY <4>1, <5>3, <5>5 DEF GoalsKept, o
        <5> QED
          BY <5>3, <5>4, <5>5
      <4> QED
        BY <3>1, <4>1, <4>2 DEF GoalsKept, Idle
    <3> QED
      BY <3>3, <3>4, <3>5 DEF Contract!Next, Contract!Accept
  <2>4. ASSUME NEW g \in Goal, FlushGoal(g)
        PROVE  GoalsKept' /\ UNCHANGED <<Status, Order>>
    <3>1. /\ client' = [client EXCEPT ![g] = IF result[g] = "none" THEN @ ELSE result[g]]
          /\ executor' = <<"flushed", g>>
          /\ UNCHANGED <<incoming, pending, feeding, inflight, result>>
      BY <2>4 DEF FlushGoal, pipelineVars
    <3>2. Order' = Order
      BY <3>1, Zenon DEF Order, Begun, Unfed
    <3>3. /\ \A h \in Goal : client'[h] = "new" => client[h] = "new"
          /\ \A h \in Goal : client'[h] # client[h] => result[h] # "none"
      BY <1>1, <3>1
    <3>4. Status' = Status
      BY <1>1, <3>1, <3>3 DEF Status
    <3>5. \A i \in 1 .. Len(Order) : Order[i] \in Goal
      BY QueuesInOrder, ElementOfSeq
    <3>6. GoalsKept'
      BY <3>1, <3>2, <3>3, <3>5 DEF GoalsKept
    <3> QED
      BY <3>2, <3>4, <3>6
  <2>5. ASSUME NEW g \in Goal, PruneGoal(g)
        PROVE  GoalsKept' /\ UNCHANGED <<Status, Order>>
    <3>1. /\ executor' = Idle
          /\ UNCHANGED <<incoming, pending, feeding, inflight, result, client>>
      BY <2>5 DEF PruneGoal, pipelineVars
    <3>2. Order' = Order
      BY <3>1, Zenon DEF Order, Begun, Unfed
    <3> QED
      BY <3>1, <3>2 DEF GoalsKept, Status, Idle
  <2>6. ASSUME StopLatches \/ StopRequests \/ ResetChecks \/ ResetRequests
        PROVE  GoalsKept' /\ UNCHANGED <<Status, Order>>
    <3>1. /\ executor'[1] # "accept"
          /\ UNCHANGED <<incoming, pending, feeding, inflight, result, client>>
      BY <2>6 DEF StopLatches, StopRequests, ResetChecks, ResetRequests, Idle, pipelineVars
    <3>2. Order' = Order
      BY <3>1, Zenon DEF Order, Begun, Unfed
    <3> QED
      BY <3>1, <3>2 DEF GoalsKept, Status
  <2> QED
    BY <1>6, <2>1, <2>2, <2>3, <2>4, <2>5, <2>6 DEF ExecutorStep
<1>7. CASE ControllerStep
  BY <1>5, <1>6, <1>7 DEF ControllerStep
<1>8. CASE UNCHANGED controllerVars
  BY <1>2, <1>8 DEF controllerVars, pipelineVars
<1> QED
  BY <1>7, <1>8 DEF Next, vars

\* Through the queues of update() no accepted goal is lost, duplicated,
\* overtaken or ended twice: the system implements the contract of its action
\* (HandleAccepted, DrainIncomingGoals, TryAdoptPendingGoal, FeedActionChunk,
\* RetireCompletedGoals, AbortAllGoals).
THEOREM KeepsContract == Spec => KeepsGoalContract
<1>1. Init => Contract!Init /\ GoalsKept
  <2> SUFFICES ASSUME Init
               PROVE  Contract!Init /\ GoalsKept
    OBVIOUS
  <2>1. /\ incoming = <<>> /\ pending = <<>> /\ inflight = <<>> /\ feeding = NoGoal
        /\ result = [g \in Goal |-> "none"] /\ client = [g \in Goal |-> "new"]
        /\ executor = Idle
    BY DEF Init, ControllerInit
  <2>2. Order = <<>>
    <3>1. <<>> \o <<>> = <<>>
      BY EmptySeq, ConcatEmptySeq
    <3> QED
      BY <2>1, <3>1, Zenon DEF Order, Begun, Unfed
  <2>3. Status = [g \in Goal |-> "new"]
    BY <2>1 DEF Status
  <2>4. Len(Order) = 0
    BY <2>2, EmptySeq
  <2> QED
    BY <2>1, <2>2, <2>3, <2>4 DEF Contract!Init, GoalsKept, Idle
<1>2. TypeOK /\ GoalsKept /\ [Next]_vars => GoalsKept' /\ [Contract!Next]_<<Status, Order>>
  BY ContractStep
<1> QED
  BY <1>1, <1>2, SystemTypeCorrect, PTL DEF Spec, KeepsGoalContract, Contract!Spec

-------------------------------------------------------------------------------
(* Trajectory ids.                                                         *)

\* Ids are given out once and in order: what has been completed, the thresholds
\* and the BEGIN in the slot ascend, and so do the goals begun.
ThresholdsNumbered ==
    /\ completedId < nextTrajectoryId
    /\ \A i \in 1 .. Len(trajectoryCompletions) :
          /\ completedId < trajectoryCompletions[i].id
          /\ trajectoryCompletions[i].id < nextTrajectoryId
    /\ \A i, j \in 1 .. Len(trajectoryCompletions) :
          i < j => trajectoryCompletions[i].id < trajectoryCompletions[j].id
    /\ Waiting("Begin") =>
          /\ completedId < command.id /\ command.id < nextTrajectoryId
          /\ \A i \in 1 .. Len(trajectoryCompletions) : trajectoryCompletions[i].id < command.id

GoalsNumbered ==
    /\ \A g \in Goal : trajectoryId[g] < nextTrajectoryId
    /\ \A i \in 1 .. Len(Begun) : trajectoryId[Begun[i]] > 0
    /\ \A i, j \in 1 .. Len(Begun) : i < j => trajectoryId[Begun[i]] < trajectoryId[Begun[j]]

\* What the slot may hold: a BEGIN is of the goal being fed, which has no point
\* emitted yet, a chunk carries points, and a Stop or a Reset finds no goal.
Commands ==
    /\ command.token # "Abort"
    /\ Waiting("Begin") => /\ feeding # NoGoal /\ nextIndex = 0
                           /\ command.size = Points[feeding]
                           /\ command.id = trajectoryId[feeding]
    /\ Waiting("AppendChunk") => command.len > 0
    /\ phase \in {"faultRelease", "stopRelease"} => Begun = <<>>
    /\ Waiting("Stop") \/ Waiting("Reset") => Begun = <<>>

-------------------------------------------------------------------------------
(* What a step may do to the goals begun and to the slot.                  *)

\* An accepted goal without a result is in one queue, once.
HeldOnce ==
    /\ \A i \in 1 .. Len(Order) : Status[Order[i]] = "accepted"
    /\ \A i, j \in 1 .. Len(Order) : i # j => Order[i] # Order[j]

\* A goal that is appended to the begun ones comes last.
LEMMA BegunItems ==
    ASSUME NEW s \in Seq(Goal), NEW f \in Goal \cup {NoGoal},
           NEW b, b = IF f = NoGoal THEN s ELSE Append(s, f)
    PROVE  /\ b \in Seq(Goal) /\ Len(s) \in Nat
           /\ Len(b) = IF f = NoGoal THEN Len(s) ELSE Len(s) + 1
           /\ \A i \in 1 .. Len(s) : b[i] = s[i] /\ b[i] \in Goal
           /\ f # NoGoal => b[Len(s) + 1] = f
<1>1. Len(s) \in Nat /\ \A i \in 1 .. Len(s) : s[i] \in Goal
  BY LenProperties, ElementOfSeq
<1>2. CASE f = NoGoal
  BY <1>1, <1>2
<1>3. CASE f # NoGoal
  <2>1. f \in Goal /\ b = Append(s, f)
    BY <1>3
  <2>2. /\ b \in Seq(Goal) /\ Len(b) = Len(s) + 1
        /\ \A i \in 1 .. Len(s) : b[i] = s[i]
        /\ b[Len(s) + 1] = f
    BY <2>1, AppendProperties
  <2> QED
    BY <1>1, <1>3, <2>2
<1> QED
  BY <1>2, <1>3

\* In the contract an order of distinct accepted goals stays one.
LEMMA OrderStep ==
    ASSUME TypeOK, Order' \in Seq(Goal), HeldOnce, [Contract!Next]_<<Status, Order>>
    PROVE  HeldOnce'
<1>1. Order \in Seq(Goal) /\ Len(Order) \in Nat
  BY QueuesInOrder, LenProperties
<1>2. \A i \in 1 .. Len(Order) : Order[i] \in Goal
  BY <1>1, ElementOfSeq
<1>3. Status = [g \in Goal |-> Status[g]]
  BY DEF Status
<1>4. CASE UNCHANGED <<Status, Order>>
  BY <1>4 DEF HeldOnce
<1> DEFINE o == Order
           st == Status
           p == Order'
           su == Status'
<1>5. ASSUME NEW g \in Goal, st[g] = "new", su = [st EXCEPT ![g] = "accepted"], p = Append(o, g)
      PROVE  HeldOnce'
  <2> HIDE DEF o, st, p, su
  <2>1. /\ o \in Seq(Goal) /\ st = [x \in Goal |-> st[x]]
        /\ \A i \in 1 .. Len(o) : st[o[i]] = "accepted" /\ o[i] \in Goal
        /\ \A i, j \in 1 .. Len(o) : i # j => o[i] # o[j]
        /\ Len(o) \in Nat
    BY <1>1, <1>2, <1>3 DEF o, st, HeldOnce
  <2>2. /\ Len(p) = Len(o) + 1 /\ p[Len(o) + 1] = g
        /\ \A i \in 1 .. Len(o) : p[i] = o[i]
    BY <1>5, <2>1, AppendProperties
  <2>3. \A i \in 1 .. Len(o) : o[i] # g
    BY <1>5, <2>1
  <2>4. \A i \in 1 .. Len(p) : su[p[i]] = "accepted"
    BY <1>5, <2>1, <2>2
  <2>5. \A i, j \in 1 .. Len(p) : i # j => p[i] # p[j]
    BY <2>1, <2>2, <2>3
  <2> QED
    BY <2>4, <2>5 DEF HeldOnce, p, su
<1>6. ASSUME NEW g \in Goal, st[g] = "new", su = [st EXCEPT ![g] = "rejected"], p = o
      PROVE  HeldOnce'
  <2> HIDE DEF o, st, p, su
  <2>1. /\ st = [x \in Goal |-> st[x]]
        /\ \A i \in 1 .. Len(o) : st[o[i]] = "accepted" /\ o[i] \in Goal
        /\ \A i, j \in 1 .. Len(o) : i # j => o[i] # o[j]
    BY <1>2, <1>3 DEF o, st, HeldOnce
  <2>2. \A i \in 1 .. Len(o) : su[o[i]] = "accepted"
    BY <1>6, <2>1
  <2> QED
    BY <1>6, <2>1, <2>2 DEF HeldOnce, p, su
<1>7. ASSUME Contract!EndOldest
      PROVE  HeldOnce'
  <2>1. PICK n \in 1 .. Len(o) :
            /\ p = SubSeq(o, n + 1, Len(o))
            /\ \E done \in SUBSET {o[i] : i \in 1 .. n} :
                  su = [g \in Goal |-> IF g \in done THEN "succeeded"
                                       ELSE IF g \in {o[i] : i \in 1 .. n} THEN "aborted"
                                       ELSE st[g]]
    BY <1>7 DEF Contract!EndOldest
  <2> HIDE DEF o, st, p, su
  <2>2. /\ o \in Seq(Goal) /\ Len(o) \in Nat
        /\ \A i \in 1 .. Len(o) : st[o[i]] = "accepted" /\ o[i] \in Goal
        /\ \A i, j \in 1 .. Len(o) : i # j => o[i] # o[j]
    BY <1>1, <1>2 DEF o, st, HeldOnce
  <2>3. /\ Len(p) = Len(o) - n
        /\ \A i \in 1 .. Len(o) - n : p[i] = o[n + i]
    <3>1. \A k \in n + 1 .. Len(o) : o[k] \in Goal
      BY <2>2
    <3>2. /\ Len(SubSeq(o, n + 1, Len(o))) = IF n + 1 <= Len(o) THEN Len(o) - (n + 1) + 1 ELSE 0
          /\ \A k \in 1 .. Len(o) - (n + 1) + 1 : SubSeq(o, n + 1, Len(o))[k] = o[(n + 1) + k - 1]
      <4>1. n + 1 \in Int /\ Len(o) \in Int
        BY <2>2
      <4> QED
        BY <3>1, <4>1, SubSeqProperties
    <3>3. Len(p) = Len(o) - n
      BY <2>1, <2>2, <3>2
    <3>4. ASSUME NEW i \in 1 .. Len(o) - n
          PROVE  p[i] = o[n + i]
      <4>1. i \in 1 .. Len(o) - (n + 1) + 1 /\ (n + 1) + i - 1 = n + i
        BY <2>2
      <4> QED
        BY <2>1, <3>2, <4>1
    <3> QED
      BY <3>3, <3>4
  <2>4. ASSUME NEW i \in 1 .. Len(p)
        PROVE  su[p[i]] = "accepted"
    <3>1. n + i \in 1 .. Len(o) /\ \A k \in 1 .. n : k \in 1 .. Len(o) /\ k # n + i
      BY <2>2, <2>3
    <3>2. p[i] \in Goal /\ p[i] \notin {o[k] : k \in 1 .. n} /\ st[p[i]] = "accepted"
      BY <2>2, <2>3, <3>1
    <3> QED
      BY <2>1, <3>2
  <2>5. ASSUME NEW i \in 1 .. Len(p), NEW j \in 1 .. Len(p), i # j
        PROVE  p[i] # p[j]
    <3>1. n + i \in 1 .. Len(o) /\ n + j \in 1 .. Len(o) /\ n + i # n + j
      BY <2>2, <2>3, <2>5
    <3> QED
      BY <2>2, <2>3, <3>1
  <2> QED
    BY <2>4, <2>5 DEF HeldOnce, p, su
<1>8. ASSUME Contract!Refuse
      PROVE  HeldOnce'
  <2>1. PICK m \in 1 .. Len(o) :
            /\ su = [st EXCEPT ![o[m]] = "aborted"]
            /\ p = SubSeq(o, 1, m - 1) \o SubSeq(o, m + 1, Len(o))
    BY <1>8 DEF Contract!Refuse
  <2> HIDE DEF o, st, p, su
  <2>2. /\ o \in Seq(Goal) /\ Len(o) \in Nat
        /\ \A i \in 1 .. Len(o) : st[o[i]] = "accepted" /\ o[i] \in Goal
        /\ \A i, j \in 1 .. Len(o) : i # j => o[i] # o[j]
        /\ st = [x \in Goal |-> st[x]]
    BY <1>1, <1>2, <1>3 DEF o, st, HeldOnce
  <2> DEFINE front == SubSeq(o, 1, m - 1)
             back == SubSeq(o, m + 1, Len(o))
  <2>3. /\ front \in Seq(Goal) /\ Len(front) = m - 1
        /\ \A i \in 1 .. m - 1 : front[i] = o[i]
    <3>1. \A k \in 1 .. m - 1 : o[k] \in Goal
      BY <2>2
    <3>2. 1 \in Int /\ m - 1 \in Int
      OBVIOUS
    <3>3. /\ front \in Seq(Goal)
          /\ Len(front) = IF 1 <= m - 1 THEN m - 1 - 1 + 1 ELSE 0
          /\ \A k \in 1 .. m - 1 - 1 + 1 : front[k] = o[1 + k - 1]
      BY <3>1, <3>2, SubSeqProperties
    <3>4. ASSUME NEW i \in 1 .. m - 1
          PROVE  front[i] = o[i]
      <4>1. i \in 1 .. m - 1 - 1 + 1 /\ 1 + i - 1 = i
        OBVIOUS
      <4> QED
        BY <3>3, <4>1
    <3> HIDE DEF front
    <3> QED
      BY <3>3, <3>4
  <2>4. /\ back \in Seq(Goal) /\ Len(back) = Len(o) - m
        /\ \A i \in 1 .. Len(o) - m : back[i] = o[m + i]
    <3>1. \A k \in m + 1 .. Len(o) : o[k] \in Goal
      BY <2>2
    <3>2. m + 1 \in Int /\ Len(o) \in Int
      BY <2>2
    <3>3. /\ back \in Seq(Goal)
          /\ Len(back) = IF m + 1 <= Len(o) THEN Len(o) - (m + 1) + 1 ELSE 0
          /\ \A k \in 1 .. Len(o) - (m + 1) + 1 : back[k] = o[(m + 1) + k - 1]
      BY <3>1, <3>2, SubSeqProperties
    <3>4. ASSUME NEW i \in 1 .. Len(o) - m
          PROVE  back[i] = o[m + i]
      <4>1. i \in 1 .. Len(o) - (m + 1) + 1 /\ (m + 1) + i - 1 = m + i
        BY <2>2
      <4> QED
        BY <3>3, <4>1
    <3> HIDE DEF back
    <3> QED
      BY <2>2, <3>3, <3>4
  <2> HIDE DEF front, back
  <2>5. /\ Len(p) = Len(o) - 1
        /\ \A i \in 1 .. Len(o) - 1 : p[i] = IF i < m THEN o[i] ELSE o[i + 1]
    <3>1. /\ Len(front \o back) = Len(front) + Len(back)
          /\ \A i \in 1 .. Len(front) + Len(back) :
                (front \o back)[i] = IF i <= Len(front) THEN front[i] ELSE back[i - Len(front)]
      BY <2>3, <2>4, ConcatProperties
    <3>2. p = front \o back
      BY <2>1 DEF front, back
    <3>3. Len(p) = Len(o) - 1
      BY <2>2, <2>3, <2>4, <3>1, <3>2
    <3>4. ASSUME NEW i \in 1 .. Len(o) - 1
          PROVE  p[i] = IF i < m THEN o[i] ELSE o[i + 1]
      <4>1. CASE i < m
        <5>1. i \in 1 .. m - 1 /\ i \in 1 .. Len(front) + Len(back) /\ i <= Len(front)
          BY <2>2, <2>3, <2>4, <4>1
        <5> QED
          BY <2>3, <3>1, <3>2, <4>1, <5>1
      <4>2. CASE ~(i < m)
        <5>1. /\ i - (m - 1) \in 1 .. Len(o) - m /\ i \in 1 .. Len(front) + Len(back)
              /\ ~(i <= Len(front)) /\ m + (i - (m - 1)) = i + 1
          BY <2>2, <2>3, <2>4, <4>2
        <5>2. back[i - (m - 1)] = o[m + (i - (m - 1))]
          BY <2>4, <5>1
        <5> QED
          BY <2>3, <3>1, <3>2, <4>2, <5>1, <5>2
      <4> QED
        BY <4>1, <4>2
    <3> QED
      BY <3>3, <3>4
  <2>6. ASSUME NEW i \in 1 .. Len(p)
        PROVE  \E k \in 1 .. Len(o) : k # m /\ p[i] = o[k] /\ k = IF i < m THEN i ELSE i + 1
    <3>1. CASE i < m
      <4>1. i \in 1 .. Len(o) /\ i # m /\ p[i] = o[i]
        BY <2>2, <2>5, <3>1
      <4> QED
        BY <3>1, <4>1
    <3>2. CASE ~(i < m)
      <4>1. i + 1 \in 1 .. Len(o) /\ i + 1 # m /\ p[i] = o[i + 1]
        BY <2>2, <2>5, <3>2
      <4> QED
        BY <3>2, <4>1
    <3> QED
      BY <3>1, <3>2
  <2>7. ASSUME NEW i \in 1 .. Len(p)
        PROVE  su[p[i]] = "accepted"
    <3>1. PICK k \in 1 .. Len(o) : k # m /\ p[i] = o[k]
      BY <2>6
    <3>2. o[k] # o[m] /\ o[k] \in Goal /\ st[o[k]] = "accepted"
      BY <2>2, <3>1
    <3> QED
      BY <2>1, <2>2, <3>1, <3>2
  <2>8. ASSUME NEW i \in 1 .. Len(p), NEW j \in 1 .. Len(p), i # j
        PROVE  p[i] # p[j]
    <3>1. PICK k \in 1 .. Len(o) : p[i] = o[k] /\ k = IF i < m THEN i ELSE i + 1
      BY <2>6
    <3>2. PICK l \in 1 .. Len(o) : p[j] = o[l] /\ l = IF j < m THEN j ELSE j + 1
      BY <2>6
    <3>3. k # l
      BY <2>2, <2>5, <2>8, <3>1, <3>2
    <3> QED
      BY <2>2, <3>1, <3>2, <3>3
  <2> QED
    BY <2>7, <2>8 DEF HeldOnce, p, su
<1> QED
  BY <1>4, <1>5, <1>6, <1>7, <1>8 DEF Contract!Next, Contract!Accept, Contract!Reject

\* Read back from the contract: an accepted goal without a result is in one
\* place of one queue.
LEMMA OrderHeld == Spec => [](TypeOK /\ HeldOnce)
<1>1. Init => HeldOnce
  <2> SUFFICES ASSUME Init PROVE HeldOnce
    OBVIOUS
  <2>1. incoming = <<>> /\ pending = <<>> /\ inflight = <<>> /\ feeding = NoGoal
    BY DEF Init, ControllerInit
  <2>2. Order = <<>>
    <3>1. <<>> \o <<>> = <<>>
      BY EmptySeq, ConcatEmptySeq
    <3> QED
      BY <2>1, <3>1, Zenon DEF Order, Begun, Unfed
  <2>3. Len(Order) = 0
    BY <2>2, EmptySeq
  <2> QED
    BY <2>3 DEF HeldOnce
<1>2. TypeOK => Order \in Seq(Goal)
  BY QueuesInOrder
<1>3. TypeOK /\ (Order \in Seq(Goal))' /\ HeldOnce /\ [Contract!Next]_<<Status, Order>> => HeldOnce'
  BY OrderStep
<1> QED
  BY <1>1, <1>2, <1>3, SystemTypeCorrect, KeepsContract, PTL DEF Spec, KeepsGoalContract, Contract!Spec

\* The goal at the head of pending_ has not been begun, and has no result.
LEMMA PendingNotBegun ==
    ASSUME TypeOK, HeldOnce, pending # <<>>
    PROVE  /\ Head(pending) \in Goal
           /\ \A i \in 1 .. Len(Begun) : Begun[i] # Head(pending)
           /\ result[Head(pending)] = "none"
<1>1. /\ Begun \in Seq(Goal) /\ pending \in Seq(Goal) /\ incoming \in Seq(Goal)
      /\ Unfed \in Seq(Goal) /\ Order \in Seq(Goal)
  BY QueuesInOrder
<1>2. Len(Begun) \in Nat /\ Len(pending) \in Nat \ {0} /\ Len(incoming) \in Nat
  BY <1>1, EmptySeq, LenProperties
<1>3. Head(pending) = pending[1] /\ pending[1] \in Goal
  BY <1>1, <1>2, HeadTailProperties, ElementOfSeq
<1>4. Len(Unfed) = Len(pending) + Len(incoming) /\ Unfed[1] = pending[1]
  <2>1. 1 \in 1 .. Len(pending) + Len(incoming) /\ 1 <= Len(pending)
    BY <1>2
  <2> QED
    BY <1>1, <2>1, ConcatProperties DEF Unfed
<1> HIDE DEF Begun, Unfed
<1>5. /\ Len(Begun \o Unfed) = Len(Begun) + Len(Unfed)
      /\ \A i \in 1 .. Len(Begun) + Len(Unfed) :
            (Begun \o Unfed)[i] = IF i <= Len(Begun) THEN Begun[i] ELSE Unfed[i - Len(Begun)]
  BY <1>1, ConcatProperties
<1>6. /\ Len(Order) = Len(Begun) + Len(Unfed)
      /\ \A i \in 1 .. Len(Begun) : Order[i] = Begun[i]
      /\ Order[Len(Begun) + 1] = Head(pending)
  <2>1. Len(Begun) + 1 \in 1 .. Len(Begun) + Len(Unfed) /\ ~(Len(Begun) + 1 <= Len(Begun))
        /\ Len(Begun) + 1 - Len(Begun) = 1
    BY <1>2, <1>4
  <2>2. \A i \in 1 .. Len(Begun) : i \in 1 .. Len(Begun) + Len(Unfed) /\ i <= Len(Begun)
    BY <1>2, <1>4
  <2> QED
    BY <1>3, <1>4, <1>5, <2>1, <2>2 DEF Order
<1>7. Len(Begun) + 1 \in 1 .. Len(Order) /\ \A i \in 1 .. Len(Begun) : i \in 1 .. Len(Order)
  BY <1>2, <1>4, <1>6
<1>8. \A i \in 1 .. Len(Begun) : Begun[i] # Head(pending)
  <2>1. \A i \in 1 .. Len(Begun) : i # Len(Begun) + 1
    BY <1>2
  <2> QED
    BY <1>6, <1>7, <2>1 DEF HeldOnce
<1>9. Status[Head(pending)] = "accepted"
  BY <1>6, <1>7 DEF HeldOnce
<1>10. result[Head(pending)] = "none"
  BY <1>3, <1>9 DEF Status, TypeOK, ControllerTypeOK
<1> QED
  BY <1>3, <1>8, <1>10

\* update() retires the oldest goals, ends them all, emits the Reset of a
\* release, adopts a goal, feeds a chunk, or leaves the goals begun alone.
Kept == UNCHANGED <<trajectoryId, nextTrajectoryId>>

LatchKept == UNCHANGED <<stopRequested, stopLatched, stopCommandPending>>

Retires ==
    /\ Kept /\ LatchKept /\ UNCHANGED <<command, feeding, nextIndex>>
    /\ phase = "begin" /\ phase' \in {"fault", "gate"}
    /\ \E n \in 0 .. Len(inflight) :
          /\ n <= Len(Begun) /\ Len(Begun') = Len(Begun) - n
          /\ \A i \in 1 .. Len(Begun) - n : Begun'[i] = Begun[n + i]
          /\ \A i \in 1 .. n : trajectoryId[Begun[i]] <= completedId
          /\ \A g \in Goal : result'[g] = "succeeded" =>
                result[g] = "succeeded" \/ \E i \in 1 .. n : g = Begun[i]

Ends ==
    /\ Kept
    /\ Begun' = <<>> /\ feeding' = NoGoal
    /\ \A g \in Goal : result'[g] = "succeeded" => result[g] = "succeeded"
    /\ \/ UNCHANGED command /\ PrevAcked /\ phase' \in {"faultRelease", "stopRelease"}
       \/ phase = "fault" /\ phase' = "begin" /\ command'.token = "None"
       \/ /\ phase = "hold" /\ phase' = "begin" /\ UNCHANGED stopLatched
          /\ IF StopOwed /\ PrevAcked
               THEN command'.token = "Stop" /\ command'.seq = command.seq + 1
               ELSE command'.token = "None"

Releases ==
    /\ Kept /\ UNCHANGED <<Begun, feeding, nextIndex, result>>
    /\ phase \in {"faultRelease", "stopRelease"} /\ phase' = "begin"
    /\ command'.token = "Reset" /\ command'.seq = command.seq + 1

Adopts ==
    LET g == Head(pending) IN
    /\ LatchKept /\ PrevAcked /\ phase = "stream" /\ phase' = "begin"
    /\ pending # <<>> /\ feeding = NoGoal
    /\ Len(Begun') = Len(Begun) + 1 /\ Begun'[Len(Begun) + 1] = g
    /\ \A i \in 1 .. Len(Begun) : Begun'[i] = Begun[i]
    /\ feeding' = g /\ nextIndex' = 0
    /\ trajectoryId' = [trajectoryId EXCEPT ![g] = nextTrajectoryId]
    /\ nextTrajectoryId' = nextTrajectoryId + 1
    /\ command'.token = "Begin" /\ command'.id = nextTrajectoryId /\ command'.size = Points[g]
    /\ command'.seq = command.seq + 1
    /\ UNCHANGED result

FeedsChunk ==
    /\ Kept /\ UNCHANGED <<Begun, result>>
    /\ LatchKept /\ PrevAcked /\ phase = "stream" /\ phase' = "begin"
    /\ feeding # NoGoal
    /\ command'.token = "AppendChunk" /\ command'.len > 0 /\ command'.seq = command.seq + 1
    /\ \/ feeding' = feeding /\ nextIndex' = nextIndex + command'.len
       \/ feeding' = NoGoal /\ command'.len = Points[feeding] - nextIndex

StreamsOn ==
    /\ Kept /\ LatchKept /\ UNCHANGED <<Begun, feeding, nextIndex>>
    /\ \A g \in Goal : result'[g] = "succeeded" => result[g] = "succeeded"
    /\ \/ UNCHANGED command /\ phase = "gate" /\ phase' = IF stopLatched THEN "hold" ELSE "stream"
       \/ command'.token = "None" /\ phase = "stream" /\ phase' = "begin"

\* Every step of the control loop is of one of these kinds.
LEMMA UpdateKinds ==
    ASSUME ControllerTypes, UpdateStep
    PROVE  Retires \/ Ends \/ Releases \/ Adopts \/ FeedsChunk \/ StreamsOn
<1>1. /\ inflight \in Seq(Goal) /\ pending \in Seq(Goal) /\ feeding \in Goal \cup {NoGoal}
      /\ result \in [Goal -> {"none", "succeeded", "aborted"}]
      /\ trajectoryId \in [Goal -> Nat] /\ nextTrajectoryId \in Nat /\ nextIndex \in Nat
      /\ command \in Command /\ NoGoal \notin Goal
  BY GoalAssumption DEF ControllerTypes, InterfaceTypeOK, ControllerTypeOK
<1>2. /\ Begun \in Seq(Goal) /\ Len(inflight) \in Nat
      /\ Len(Begun) = IF feeding = NoGoal THEN Len(inflight) ELSE Len(inflight) + 1
      /\ \A i \in 1 .. Len(inflight) : Begun[i] = inflight[i] /\ Begun[i] \in Goal
      /\ feeding # NoGoal => Begun[Len(inflight) + 1] = feeding
  BY <1>1, BegunItems DEF Begun
<1>3. ASSUME EmitNothing
      PROVE  command'.token = "None"
  BY <1>1, <1>3 DEF EmitNothing, Command
<1>4. CASE BeginUpdate
  <2>1. PICK n \in 0 .. Len(inflight) :
          /\ \A g \in {inflight[i] : i \in 1 .. n} : trajectoryId[g] <= completedId
          /\ inflight' = SubSeq(inflight, n + 1, Len(inflight))
          /\ \E missed \in SUBSET {g \in {inflight[i] : i \in 1 .. n} : finalize[g]} :
                result' = [g \in Goal |->
                              IF g \in missed THEN "aborted"
                              ELSE IF g \in {inflight[i] : i \in 1 .. n} THEN "succeeded"
                              ELSE result[g]]
    BY <1>4 DEF BeginUpdate
  <2>2. /\ UNCHANGED <<feeding, nextIndex, command, trajectoryId, nextTrajectoryId>>
        /\ LatchKept /\ phase = "begin" /\ phase' \in {"fault", "gate"}
    BY <1>4 DEF BeginUpdate, interfaceVars, latchVars, LatchKept
  <2>3. /\ inflight' \in Seq(Goal) /\ Len(inflight') = Len(inflight) - n
        /\ \A i \in 1 .. Len(inflight) - n : inflight'[i] = inflight[n + i]
    <3>1. \A k \in n + 1 .. Len(inflight) : inflight[k] \in Goal
      BY <1>1, <1>2
    <3>2. n + 1 \in Int /\ Len(inflight) \in Int
      BY <1>2
    <3> DEFINE u == SubSeq(inflight, n + 1, Len(inflight))
    <3>3. /\ u \in Seq(Goal)
          /\ Len(u) = IF n + 1 <= Len(inflight) THEN Len(inflight) - (n + 1) + 1 ELSE 0
          /\ \A k \in 1 .. Len(inflight) - (n + 1) + 1 : u[k] = inflight[(n + 1) + k - 1]
      BY <3>1, <3>2, SubSeqProperties
    <3> HIDE DEF u
    <3>4. Len(u) = Len(inflight) - n
      BY <1>2, <3>3
    <3>5. ASSUME NEW i \in 1 .. Len(inflight) - n
          PROVE  u[i] = inflight[n + i]
      <4>1. i \in 1 .. Len(inflight) - (n + 1) + 1 /\ (n + 1) + i - 1 = n + i
        BY <1>2
      <4> QED
        BY <3>3, <4>1
    <3> QED
      BY <2>1, <3>3, <3>4, <3>5 DEF u
  <2>4. Begun' = IF feeding = NoGoal THEN inflight' ELSE Append(inflight', feeding)
    BY <2>2 DEF Begun
  <2> DEFINE b == Begun'
  <2>5. b = IF feeding = NoGoal THEN inflight' ELSE Append(inflight', feeding)
    BY <2>4
  <2> HIDE DEF b
  <2>6. /\ Len(b) = IF feeding = NoGoal THEN Len(inflight') ELSE Len(inflight') + 1
        /\ \A i \in 1 .. Len(inflight') : b[i] = inflight'[i]
        /\ feeding # NoGoal => b[Len(inflight') + 1] = feeding
    BY <1>1, <2>3, <2>5, BegunItems
  <2>7. ASSUME NEW i \in 1 .. Len(Begun) - n
        PROVE  b[i] = Begun[n + i]
    <3>1. CASE i \in 1 .. Len(inflight) - n
      <4>1. i \in 1 .. Len(inflight') /\ n + i \in 1 .. Len(inflight)
        BY <1>2, <2>3, <3>1
      <4> QED
        BY <1>2, <2>3, <2>6, <3>1, <4>1
    <3>2. CASE i \notin 1 .. Len(inflight) - n
      <4>1. feeding # NoGoal
        <5>1. CASE feeding = NoGoal
          <6>1. Len(Begun) = Len(inflight)
            BY <1>2, <5>1
          <6> QED
            BY <3>2, <6>1
        <5> QED
          BY <5>1
      <4>2. Len(Begun) = Len(inflight) + 1
        BY <1>2, <4>1
      <4>3. /\ n \in 0 .. Len(inflight) /\ i \in 1 .. Len(Begun) - n
            /\ Len(inflight) \in Nat /\ Len(inflight') = Len(inflight) - n
        BY <1>2, <2>3
      <4>4. i = Len(inflight') + 1 /\ n + i = Len(inflight) + 1
        BY <3>2, <4>2, <4>3
      <4> QED
        BY <1>2, <2>6, <4>1, <4>4
    <3> QED
      BY <3>1, <3>2
  <2>8. n <= Len(Begun) /\ Len(b) = Len(Begun) - n
    BY <1>2, <2>3, <2>6
  <2>9. ASSUME NEW i \in 1 .. n
        PROVE  trajectoryId[Begun[i]] <= completedId
    <3>1. i \in 1 .. Len(inflight)
      BY <1>2
    <3> QED
      BY <1>2, <2>1, <3>1
  <2>10. ASSUME NEW g \in Goal, result'[g] = "succeeded"
         PROVE  result[g] = "succeeded" \/ \E i \in 1 .. n : g = Begun[i]
    <3>1. g \in {inflight[i] : i \in 1 .. n} \/ result[g] = "succeeded"
      BY <2>1, <2>10
    <3>2. \A i \in 1 .. n : i \in 1 .. Len(inflight)
      BY <1>2
    <3> QED
      BY <1>2, <3>1, <3>2
  <2> QED
    BY <2>2, <2>7, <2>8, <2>9, <2>10 DEF Retires, Kept, b
<1>5. ASSUME AbortAllGoals
      PROVE  /\ Kept /\ Begun' = <<>> /\ feeding' = NoGoal
             /\ \A g \in Goal : result'[g] = "succeeded" => result[g] = "succeeded"
  <2>1. \A g \in Goal : result'[g] = "succeeded" => result[g] = "succeeded"
    BY <1>5 DEF AbortAllGoals
  <2> QED
    BY <1>5, <2>1 DEF AbortAllGoals, Kept, Begun
<1>6. CASE FaultHold
  BY <1>3, <1>5, <1>6 DEF FaultHold, EndUpdate, Ends
<1>7. CASE FaultReset
  BY <1>5, <1>7 DEF FaultReset, Ends
<1>8. CASE OperatorHold
  <2>1. IF StopOwed /\ PrevAcked THEN command'.token = "Stop" /\ command'.seq = command.seq + 1
        ELSE command'.token = "None"
    <3>1. [command EXCEPT !.token = "Stop"].token = "Stop"
      BY <1>1 DEF Command
    <3>2. CASE StopOwed /\ PrevAcked
      <4>1. Emit([command EXCEPT !.token = "Stop"])
        BY <1>8, <3>2 DEF OperatorHold
      <4> QED
        BY <1>1, <3>2, <4>1 DEF Emit, Command
    <3>3. CASE ~(StopOwed /\ PrevAcked)
      BY <1>3, <1>8, <3>3 DEF OperatorHold
    <3> QED
      BY <3>2, <3>3
  <2> QED
    BY <1>5, <1>8, <2>1 DEF OperatorHold, EndUpdate, Ends
<1>9. CASE StopReset
  BY <1>5, <1>9 DEF StopReset, Ends
<1>10. CASE FaultRelease \/ StopRelease
  <2>1. command'.token = "Reset" /\ command'.seq = command.seq + 1
    BY <1>1, <1>10 DEF FaultRelease, StopRelease, Emit, Command
  <2> QED
    BY <1>10, <2>1 DEF FaultRelease, StopRelease, EndUpdate, Releases, Kept, pipelineVars, Begun
<1>11. CASE CheckStopLatch
  BY <1>11 DEF CheckStopLatch, StreamsOn, Kept, LatchKept, pipelineVars, latchVars, interfaceVars, Begun
<1>12. CASE AdoptGoal
  <2> DEFINE g == Head(pending)
             b == Begun'
  <2>1. /\ feeding = NoGoal /\ feeding' = g /\ pending # <<>> /\ PrevAcked
        /\ UNCHANGED <<inflight, result>> /\ nextIndex' = 0
        /\ LatchKept /\ phase = "stream" /\ phase' = "begin"
        /\ trajectoryId' = [trajectoryId EXCEPT ![g] = nextTrajectoryId]
        /\ nextTrajectoryId' = nextTrajectoryId + 1
    BY <1>12 DEF AdoptGoal, HealthyCycle, MayAdopt, EndUpdate, LatchKept
  <2>2. /\ command'.token = "Begin" /\ command'.id = nextTrajectoryId
        /\ command'.size = Points[g] /\ command'.seq = command.seq + 1
    BY <1>1, <1>12 DEF AdoptGoal, Emit, Command
  <2>3. g \in Goal
    BY <1>1, <2>1, HeadTailProperties
  <2>4. b = Append(inflight, g)
    BY <1>1, <2>1, <2>3 DEF Begun
  <2>5. Begun = inflight
    BY <2>1 DEF Begun
  <2> HIDE DEF b, g
  <2>6. /\ Len(b) = Len(inflight) + 1 /\ b[Len(inflight) + 1] = g
        /\ \A i \in 1 .. Len(inflight) : b[i] = inflight[i]
    BY <1>1, <2>3, <2>4, AppendProperties
  <2>7. /\ Len(b) = Len(Begun) + 1 /\ b[Len(Begun) + 1] = g
        /\ \A i \in 1 .. Len(Begun) : b[i] = Begun[i]
    BY <2>5, <2>6
  <2> QED
    BY <2>1, <2>2, <2>7 DEF Adopts, b, g
<1>13. CASE FeedActionChunk
  <2> DEFINE left == Points[feeding] - nextIndex
             len == IF ChunkSize < left THEN ChunkSize ELSE left
             isLast == len = left
  <2>1. /\ Emit([command EXCEPT !.token = "AppendChunk", !.len = len,
                                !.final = isLast /\ finalize[feeding]])
        /\ nextIndex' = IF isLast THEN 0 ELSE nextIndex + len
        /\ inflight' = IF isLast THEN Append(inflight, feeding) ELSE inflight
        /\ feeding' = IF isLast THEN NoGoal ELSE feeding
        /\ feeding # NoGoal /\ PrevAcked /\ phase = "stream" /\ phase' = "begin"
        /\ LatchKept /\ UNCHANGED <<trajectoryId, nextTrajectoryId, result>>
    BY <1>13 DEF FeedActionChunk, HealthyCycle, EndUpdate, LatchKept
  <2>2. left \in Nat \ {0}
    BY <1>1, <2>1, GoalAssumption DEF ControllerTypes, PointsLeft
  <2>3. len \in Nat \ {0}
    BY <2>2, ControllerAssumption
  <2> HIDE DEF len
  <2>4. command'.token = "AppendChunk" /\ command'.len = len /\ command'.seq = command.seq + 1
    BY <1>1, <2>1 DEF Emit, Command
  <2>5. CASE isLast
    <3>1. Begun' = Begun /\ feeding' = NoGoal /\ len = left
      BY <2>1, <2>5 DEF Begun
    <3> QED
      BY <2>1, <2>3, <2>4, <3>1 DEF FeedsChunk, Kept
  <2>6. CASE ~isLast
    <3>1. Begun' = Begun /\ feeding' = feeding /\ nextIndex' = nextIndex + len
      BY <2>1, <2>6 DEF Begun
    <3> QED
      BY <2>1, <2>3, <2>4, <3>1 DEF FeedsChunk, Kept
  <2> QED
    BY <2>5, <2>6
<1>14. CASE RefuseDiscontinuousGoal \/ StreamNothing
  <2>1. \A g \in Goal : result'[g] = "succeeded" => result[g] = "succeeded"
    BY <1>1, <1>14 DEF RefuseDiscontinuousGoal, StreamNothing
  <2>2. command'.token = "None"
    BY <1>3, <1>14 DEF RefuseDiscontinuousGoal, StreamNothing
  <2> QED
    BY <1>14, <2>1, <2>2
    DEF RefuseDiscontinuousGoal, StreamNothing, HealthyCycle, EndUpdate, StreamsOn, Kept,
        LatchKept, Begun
<1> QED
  BY <1>4, <1>6, <1>7, <1>8, <1>9, <1>10, <1>11, <1>12, <1>13, <1>14 DEF UpdateStep

\* The plugin passes the oldest thresholds, adds the one of a BEGIN, forgets
\* them under a fault, a Stop or a Reset, or leaves them.
Passes ==
    /\ turn = "read" /\ UNCHANGED <<ackSequence, errorCode>>
    /\ \E n \in 0 .. Len(trajectoryCompletions) :
          /\ Len(trajectoryCompletions') = Len(trajectoryCompletions) - n
          /\ \A i \in 1 .. Len(trajectoryCompletions) - n :
                trajectoryCompletions'[i] = trajectoryCompletions[n + i]
          /\ completedId' = IF n = 0 THEN completedId ELSE trajectoryCompletions[n].id

Awaits ==
    /\ Waiting("Begin") /\ ackSequence' = command.seq
    /\ UNCHANGED <<errorCode, completedId>>
    /\ trajectoryCompletions' =
          IF command.size > 0
            THEN Append(trajectoryCompletions,
                        [id |-> command.id, frames |-> cumulativeExpectedFrames'])
            ELSE trajectoryCompletions

Forgets ==
    /\ trajectoryCompletions' = <<>> /\ completedId' = 0
    /\ ackSequence' \in {ackSequence, command.seq}
    /\ errorCode' # 0 \/ (ackSequence' = command.seq /\ (Waiting("Stop") \/ Waiting("Reset")))

Minds ==
    /\ UNCHANGED <<completedId, trajectoryCompletions, errorCode>>
    /\ \/ UNCHANGED ackSequence
       \/ ackSequence' = command.seq /\ command.token \in {"None", "AppendChunk"}

\* So is every step of the plugin and the firmware.
LEMMA HardwareKinds ==
    ASSUME TypeOK, MailboxKept, command.token # "Abort", HardwareStep
    PROVE  /\ UNCHANGED command
           /\ Passes \/ Awaits \/ Forgets \/ Minds
<1> DEFINE T == trajectoryCompletions
<1>1. T \in Seq(Completion) /\ Len(T) \in Nat
  BY LenProperties DEF TypeOK, HardwareTypeOK
<1>2. CASE Read
  <2>1. PICK n \in 0 .. Len(T) :
          /\ T' = SubSeq(T, n + 1, Len(T))
          /\ completedId' = IF n = 0 THEN completedId ELSE T[n].id
    BY <1>2 DEF Read, UpdateCompletion, NewestRetired
  <2>2. Len(T') = Len(T) - n /\ \A i \in 1 .. Len(T) - n : T'[i] = T[n + i]
    <3> DEFINE u == SubSeq(T, n + 1, Len(T))
    <3> HIDE DEF T
    <3>1. \A k \in n + 1 .. Len(T) : T[k] \in Completion
      BY <1>1, ElementOfSeq
    <3>2. n + 1 \in Int /\ Len(T) \in Int
      BY <1>1
    <3>3. /\ Len(u) = IF n + 1 <= Len(T) THEN Len(T) - (n + 1) + 1 ELSE 0
          /\ \A k \in 1 .. Len(T) - (n + 1) + 1 : u[k] = T[(n + 1) + k - 1]
      BY <3>1, <3>2, SubSeqProperties
    <3> HIDE DEF u
    <3>4. Len(u) = Len(T) - n
      BY <1>1, <3>3
    <3>5. ASSUME NEW i \in 1 .. Len(T) - n
          PROVE  u[i] = T[n + i]
      <4>1. i \in 1 .. Len(T) - (n + 1) + 1 /\ (n + 1) + i - 1 = n + i
        BY <1>1
      <4> QED
        BY <3>3, <4>1
    <3>6. T' = u
      BY <2>1 DEF T, u
    <3> QED
      BY <3>4, <3>5, <3>6
  <2>3. turn = "read" /\ UNCHANGED <<command, ackSequence, errorCode>>
    BY <1>2 DEF Read
  <2> QED
    BY <2>1, <2>2, <2>3 DEF Passes, T
<1>3. CASE ReadFails
  BY <1>3 DEF ReadFails, completionVars, Minds
<1>4. CASE DrainLatchesFault \/ WriteFails
  <2>1. /\ trajectoryCompletions' = <<>> /\ completedId' = 0 /\ errorCode' # 0
        /\ UNCHANGED command /\ ackSequence' \in {ackSequence, command.seq}
    BY <1>4
    DEF DrainLatchesFault, WriteFails, AbortTransfer, ResetCompletionTracking, WriteFault,
        DriveFault, ReturnFromDrain, Acknowledge
  <2> QED
    BY <2>1 DEF Forgets
<1>5. CASE AppendOverflows
  <2>1. /\ trajectoryCompletions' = <<>> /\ completedId' = 0 /\ errorCode' # 0
        /\ UNCHANGED command /\ ackSequence' = command.seq
    BY <1>5 DEF AppendOverflows, ResetCompletionTracking, QueueOverflow, Acknowledge
  <2> QED
    BY <2>1 DEF Forgets
<1>6. CASE HandleStop \/ HandleReset
  <2>1. /\ trajectoryCompletions' = <<>> /\ completedId' = 0
        /\ UNCHANGED command /\ ackSequence' = command.seq
        /\ Waiting("Stop") \/ Waiting("Reset")
    BY <1>6
    DEF HandleStop, HandleReset, ResetCompletionTracking, Acknowledge, Consuming, Waiting
  <2> QED
    BY <2>1 DEF Forgets
<1>7. CASE HandleAbort
  BY <1>7 DEF HandleAbort, Consuming
<1>8. CASE BeginTrajectoryTransfer
  BY <1>8 DEF BeginTrajectoryTransfer, Consuming, Acknowledge, Sized, Awaits, Waiting
<1>9. CASE DrainClearsCommandedStop \/ DrainClearsStopped \/ DrainHolds \/ FeedEnds \/ FeedNext
  <2>1. /\ UNCHANGED <<command, completedId, errorCode, trajectoryCompletions>>
        /\ UNCHANGED ackSequence \/ ReturnFromDrain
    BY <1>9
    DEF DrainClearsCommandedStop, DrainClearsStopped, DrainHolds, FeedEnds, FeedNext, completionVars
  <2>2. ReturnFromDrain =>
          UNCHANGED ackSequence \/ (ackSequence' = command.seq /\ command.token = "AppendChunk")
    BY DEF ReturnFromDrain, Acknowledge, MailboxKept
  <2> QED
    BY <2>1, <2>2 DEF Minds
<1>10. CASE DrainStarts \/ NothingToConsume \/ ConsumeNone \/ AppendTrajectory
  BY <1>10
  DEF DrainStarts, NothingToConsume, ConsumeNone, AppendTrajectory, Consuming, Acknowledge,
      hardwareVars, completionVars, Minds
<1>11. CASE FirmwareStep
  BY <1>11
  DEF FirmwareStep, ExecuteFrame, MotionDone, OutOfFrames, DriveTrips, ExternalStop,
      GroupSettles, OperatorClearsFaults, FirmwareFault, pluginVars, interfaceVars,
      completionVars, Minds
<1> QED
  BY <1>2, <1>3, <1>4, <1>5, <1>6, <1>7, <1>8, <1>9, <1>10, <1>11 DEF HardwareStep, WriteStep

\* What update() leaves to read() and write(), and a callback to update().
LEMMA UpdateFrame ==
    ASSUME UpdateStep
    PROVE  turn = "update" /\ UNCHANGED <<ackSequence, errorCode, completedId, executor>>
BY DEF UpdateStep, BeginUpdate, FaultHold, FaultReset, FaultRelease, CheckStopLatch,
       OperatorHold, StopReset, StopRelease, AdoptGoal, RefuseDiscontinuousGoal,
       FeedActionChunk, StreamNothing, HealthyCycle, HoldVars, interfaceVars

\* A callback of the executor leaves the slot and the goals update() holds as
\* they are; only ~/stop touches what update() looks at to stop.
LEMMA ExecutorFrame ==
    ASSUME ExecutorStep
    PROVE  /\ UNCHANGED <<interfaceVars, phase, pending, feeding, nextIndex, inflight,
                          nextTrajectoryId, trajectoryId, result, stopCommandPending>>
           /\ \/ StopLatches \/ StopRequests
              \/ /\ UNCHANGED <<stopLatched, stopRequested>>
                 /\ executor[1] # "stop" /\ executor'[1] # "stop"
BY DEF ExecutorStep, AdmitGoal, RejectGoal, HandleAccepted, FlushGoal, PruneGoal,
       StopLatches, StopRequests, ResetChecks, ResetRequests, pipelineVars, latchVars, Idle

-------------------------------------------------------------------------------
(* Ids and commands keep what is said of them.                             *)

Numbered == ThresholdsNumbered /\ GoalsNumbered /\ Commands /\ PointsLeft

\* Every step keeps the numbers in order.
LEMMA NumberedStep ==
    ASSUME TypeOK, TypeOK', Begun' \in Seq(Goal), FaultHoldInv, MailboxKept, HeldOnce,
           Numbered, [Next]_vars
    PROVE  Numbered'
<1> DEFINE T == trajectoryCompletions
<1>1. /\ T \in Seq(Completion) /\ Len(T) \in Nat
      /\ \A i \in 1 .. Len(T) : T[i].id \in Nat
      /\ completedId \in Nat /\ nextTrajectoryId \in Nat \ {0} /\ nextTrajectoryId' \in Nat \ {0}
      /\ command \in Command /\ command.id \in Nat /\ command.len \in Nat
      /\ ackSequence \in Nat /\ command.seq \in Nat
  <2>1. T \in Seq(Completion)
    BY DEF TypeOK, HardwareTypeOK
  <2>2. Len(T) \in Nat /\ \A i \in 1 .. Len(T) : T[i] \in Completion
    BY <2>1, LenProperties, ElementOfSeq
  <2>3. command \in Command /\ ackSequence \in Nat /\ completedId \in Nat
    BY DEF TypeOK, InterfaceTypeOK
  <2>4. command.id \in Nat /\ command.len \in Nat /\ command.seq \in Nat
    BY <2>3 DEF Command
  <2>5. nextTrajectoryId \in Nat \ {0} /\ nextTrajectoryId' \in Nat \ {0}
    BY DEF TypeOK, ControllerTypeOK
  <2>6. \A c \in Completion : c.id \in Nat
    BY DEF Completion
  <2> QED
    BY <2>1, <2>2, <2>3, <2>4, <2>5, <2>6
<1>2. /\ Begun \in Seq(Goal) /\ Len(Begun) \in Nat
      /\ \A i \in 1 .. Len(Begun) : Begun[i] \in Goal
      /\ Len(Begun') \in Nat /\ (Len(Begun') = 0 => Begun' = <<>>)
      /\ trajectoryId \in [Goal -> Nat] /\ NoGoal \notin Goal
  <2>1. Begun \in Seq(Goal)
    BY QueuesInOrder
  <2>2. Len(Begun) \in Nat /\ \A i \in 1 .. Len(Begun) : Begun[i] \in Goal
    BY <2>1, LenProperties, ElementOfSeq
  <2>3. Len(Begun') \in Nat /\ (Len(Begun') = 0 => Begun' = <<>>)
    BY EmptySeq, LenProperties
  <2> QED
    BY <2>1, <2>2, <2>3, GoalAssumption DEF TypeOK, ControllerTypeOK
<1> HIDE DEF Begun
<1>3. CASE UpdateStep /\ UNCHANGED hardwareVars
  <2>1. turn = "update" /\ UNCHANGED <<ackSequence, errorCode, completedId, T>>
    BY <1>3, UpdateFrame DEF hardwareVars, completionVars
  <2>2. ControllerTypes /\ ControllerTypes'
    <3>1. ControllerTypes
      BY DEF ControllerTypes, TypeOK, Numbered
    <3> QED
      BY <1>3, <3>1, UpdateTypesStep
  <2>3. Retires \/ Ends \/ Releases \/ Adopts \/ FeedsChunk \/ StreamsOn
    BY <1>3, <2>2, UpdateKinds
  <2>4. PointsLeft'
    BY <2>2 DEF ControllerTypes
  <2>6. CASE Retires
    <3>1. PICK n \in 0 .. Len(inflight) :
            /\ n <= Len(Begun) /\ Len(Begun') = Len(Begun) - n
            /\ \A i \in 1 .. Len(Begun) - n : Begun'[i] = Begun[n + i]
      BY <2>6 DEF Retires
    <3>2. Kept /\ UNCHANGED <<command, feeding, nextIndex>> /\ phase' \in {"fault", "gate"}
      BY <2>6 DEF Retires
    <3>3. n \in Nat
      OBVIOUS
    <3>4. \A i \in 1 .. Len(Begun') : n + i \in 1 .. Len(Begun) /\ Begun'[i] = Begun[n + i]
      BY <1>2, <3>1, <3>3
    <3>5. GoalsNumbered'
      <4>1. \A i, j \in 1 .. Len(Begun') : i < j => n + i < n + j
        BY <1>2, <3>3
      <4> QED
        BY <3>2, <3>4, <4>1 DEF Kept, GoalsNumbered, Numbered
    <3>6. ThresholdsNumbered'
      BY <2>1, <3>2 DEF Kept, ThresholdsNumbered, Numbered, Waiting, CommandWaiting
    <3>7. Begun = <<>> => Begun' = <<>>
      <4>1. Begun = <<>> => Len(Begun) = 0
        BY EmptySeq
      <4> QED
        BY <1>2, <3>1, <3>3, <4>1
    <3>8. Commands'
      BY <2>1, <3>2, <3>7 DEF Kept, Commands, Numbered, Waiting, CommandWaiting
    <3> QED
      BY <2>4, <3>5, <3>6, <3>8 DEF Numbered
  <2>7. CASE Ends
    <3>1. Kept /\ Begun' = <<>> /\ feeding' = NoGoal /\ Len(Begun') = 0
      BY <2>7, EmptySeq DEF Ends
    <3>2. ~(Waiting("Begin"))' /\ ~(Waiting("AppendChunk"))' /\ command'.token # "Abort"
      BY <1>1, <2>1, <2>7 DEF Ends, Waiting, CommandWaiting, PrevAcked, Commands, Numbered
    <3>3. GoalsNumbered'
      BY <3>1 DEF Kept, GoalsNumbered, Numbered
    <3>4. ThresholdsNumbered'
      BY <2>1, <3>1, <3>2 DEF Kept, ThresholdsNumbered, Numbered
    <3>5. Commands'
      BY <3>1, <3>2 DEF Commands
    <3> QED
      BY <2>4, <3>3, <3>4, <3>5 DEF Numbered
  <2>8. CASE Releases
    <3>1. Kept /\ UNCHANGED Begun /\ command'.token = "Reset" /\ phase' = "begin" /\ Begun = <<>>
      BY <2>8 DEF Releases, Commands, Numbered
    <3>2. GoalsNumbered'
      BY <3>1 DEF Kept, GoalsNumbered, Numbered
    <3>3. ThresholdsNumbered'
      BY <2>1, <3>1 DEF Kept, ThresholdsNumbered, Numbered, Waiting
    <3>4. Commands'
      BY <3>1 DEF Commands, Waiting
    <3> QED
      BY <2>4, <3>2, <3>3, <3>4 DEF Numbered
  <2>9. CASE Adopts
    <3> DEFINE g == Head(pending)
    <3>1. /\ g \in Goal /\ \A i \in 1 .. Len(Begun) : Begun[i] # g
      BY <2>9, PendingNotBegun DEF Adopts, Begun
    <3> HIDE DEF g
    <3>2. /\ Len(Begun') = Len(Begun) + 1 /\ Begun'[Len(Begun) + 1] = g
          /\ \A i \in 1 .. Len(Begun) : Begun'[i] = Begun[i]
          /\ feeding' = g /\ nextIndex' = 0 /\ phase' = "begin"
          /\ trajectoryId' = [trajectoryId EXCEPT ![g] = nextTrajectoryId]
          /\ nextTrajectoryId' = nextTrajectoryId + 1
          /\ command'.token = "Begin" /\ command'.id = nextTrajectoryId
          /\ command'.size = Points[g]
      BY <2>9 DEF Adopts, g
    <3>3. /\ \A h \in Goal : trajectoryId'[h] = IF h = g THEN nextTrajectoryId ELSE trajectoryId[h]
          /\ \A h \in Goal : trajectoryId[h] \in Nat
      BY <1>2, <3>1, <3>2
    <3>4. /\ \A h \in Goal : trajectoryId[h] < nextTrajectoryId
          /\ \A i \in 1 .. Len(Begun) : trajectoryId[Begun[i]] > 0
          /\ \A i, j \in 1 .. Len(Begun) : i < j => trajectoryId[Begun[i]] < trajectoryId[Begun[j]]
      BY DEF GoalsNumbered, Numbered
    <3>5. /\ \A i \in 1 .. Len(Begun) : trajectoryId'[Begun'[i]] = trajectoryId[Begun[i]]
          /\ trajectoryId'[Begun'[Len(Begun) + 1]] = nextTrajectoryId
      BY <1>2, <3>1, <3>2, <3>3
    <3>6. \A h \in Goal : trajectoryId'[h] < nextTrajectoryId'
      BY <1>1, <3>2, <3>3, <3>4
    <3>7. \A i \in 1 .. Len(Begun') : trajectoryId'[Begun'[i]] > 0
      <4>1. \A i \in 1 .. Len(Begun') : i \in 1 .. Len(Begun) \/ i = Len(Begun) + 1
        BY <1>2, <3>2
      <4> QED
        BY <1>1, <3>4, <3>5, <4>1
    <3>8. \A i, j \in 1 .. Len(Begun') : i < j => trajectoryId'[Begun'[i]] < trajectoryId'[Begun'[j]]
      <4>1. \A i, j \in 1 .. Len(Begun') : i < j =>
               i \in 1 .. Len(Begun) /\ (j \in 1 .. Len(Begun) \/ j = Len(Begun) + 1)
        BY <1>2, <3>2
      <4>2. \A i \in 1 .. Len(Begun) : trajectoryId[Begun[i]] < nextTrajectoryId
        BY <1>2, <3>4
      <4> QED
        BY <3>4, <3>5, <4>1, <4>2
    <3>9. GoalsNumbered'
      BY <3>6, <3>7, <3>8 DEF GoalsNumbered
    <3>10. ThresholdsNumbered'
      <4>1. /\ completedId < nextTrajectoryId
            /\ \A i \in 1 .. Len(T) : completedId < T[i].id /\ T[i].id < nextTrajectoryId
            /\ \A i, j \in 1 .. Len(T) : i < j => T[i].id < T[j].id
        BY DEF ThresholdsNumbered, Numbered
      <4>2. completedId < nextTrajectoryId' /\ \A i \in 1 .. Len(T) : T[i].id < nextTrajectoryId'
        BY <1>1, <3>2, <4>1
      <4> QED
        BY <1>1, <2>1, <3>2, <4>1, <4>2 DEF ThresholdsNumbered
    <3>11. Commands'
      BY <3>1, <3>2, <3>3, <1>2 DEF Commands, Waiting
    <3> QED
      BY <2>4, <3>9, <3>10, <3>11 DEF Numbered
  <2>10. CASE FeedsChunk
    <3>1. Kept /\ UNCHANGED Begun /\ command'.token = "AppendChunk" /\ command'.len > 0
          /\ phase' = "begin"
      BY <2>10 DEF FeedsChunk
    <3>2. GoalsNumbered'
      BY <3>1 DEF Kept, GoalsNumbered, Numbered
    <3>3. ThresholdsNumbered'
      BY <2>1, <3>1 DEF Kept, ThresholdsNumbered, Numbered, Waiting
    <3>4. Commands'
      BY <3>1 DEF Commands, Waiting
    <3> QED
      BY <2>4, <3>2, <3>3, <3>4 DEF Numbered
  <2>11. CASE StreamsOn
    <3>1. /\ Kept /\ UNCHANGED <<Begun, feeding, nextIndex>>
          /\ UNCHANGED command \/ command'.token = "None"
          /\ phase' \in {"hold", "stream", "begin"}
      BY <2>11 DEF StreamsOn
    <3>2. GoalsNumbered'
      BY <3>1 DEF Kept, GoalsNumbered, Numbered
    <3>3. ThresholdsNumbered'
      BY <2>1, <3>1 DEF Kept, ThresholdsNumbered, Numbered, Waiting, CommandWaiting
    <3>4. Commands'
      BY <2>1, <3>1 DEF Commands, Waiting, Kept, CommandWaiting, Numbered
    <3> QED
      BY <2>4, <3>2, <3>3, <3>4 DEF Numbered
  <2> QED
    BY <2>3, <2>6, <2>7, <2>8, <2>9, <2>10, <2>11
<1>4. CASE (ExecutorStep /\ UNCHANGED hardwareVars) \/ UNCHANGED vars
  <2>1. UNCHANGED <<interfaceVars, phase, feeding, nextIndex, inflight, nextTrajectoryId,
                    trajectoryId, T>>
    BY <1>4, ExecutorFrame
    DEF vars, controllerVars, pipelineVars, hardwareVars, completionVars
  <2>2. UNCHANGED Begun
    BY <2>1 DEF Begun
  <2> QED
    BY <2>1, <2>2
    DEF Numbered, ThresholdsNumbered, GoalsNumbered, Commands, PointsLeft, Waiting,
        CommandWaiting, interfaceVars
<1>5. CASE HardwareStep /\ UNCHANGED controllerVars
  <2>1. UNCHANGED <<phase, feeding, nextIndex, inflight, nextTrajectoryId, trajectoryId>>
    BY <1>5 DEF controllerVars, pipelineVars
  <2>2. UNCHANGED Begun
    BY <2>1 DEF Begun
  <2>3. UNCHANGED command /\ (Passes \/ Awaits \/ Forgets \/ Minds)
    BY <1>5, HardwareKinds DEF Numbered, Commands
  <2>4. ackSequence' \in {ackSequence, command.seq}
    BY <2>3 DEF Passes, Awaits, Forgets, Minds
  <2>5. /\ \A t \in Token : Waiting(t)' => Waiting(t)
        /\ Awaits => ~Waiting("Begin")'
    BY <1>1, <2>3, <2>4 DEF Waiting, CommandWaiting, Awaits
  <2>6. GoalsNumbered' /\ PointsLeft'
    BY <2>1, <2>2 DEF GoalsNumbered, PointsLeft, Numbered
  <2>7. Commands'
    BY <2>1, <2>2, <2>3, <2>5 DEF Commands, Numbered, Token
  <2>8. /\ completedId < nextTrajectoryId
        /\ \A i \in 1 .. Len(T) : completedId < T[i].id /\ T[i].id < nextTrajectoryId
        /\ \A i, j \in 1 .. Len(T) : i < j => T[i].id < T[j].id
        /\ Waiting("Begin") => /\ completedId < command.id /\ command.id < nextTrajectoryId
                               /\ \A i \in 1 .. Len(T) : T[i].id < command.id
    BY DEF ThresholdsNumbered, Numbered
  <2>9. CASE Passes
    <3>1. PICK n \in 0 .. Len(T) :
            /\ Len(T') = Len(T) - n /\ \A i \in 1 .. Len(T) - n : T'[i] = T[n + i]
            /\ completedId' = IF n = 0 THEN completedId ELSE T[n].id
      BY <2>9 DEF Passes
    <3>2. \A i \in 1 .. Len(T') : n + i \in 1 .. Len(T) /\ T'[i] = T[n + i]
      BY <1>1, <3>1
    <3>3. \A i, j \in 1 .. Len(T') : i < j => n + i < n + j
      BY <1>1, <3>1
    <3>4. \A i, j \in 1 .. Len(T') : i < j => T'[i].id < T'[j].id
      BY <2>8, <3>2, <3>3
    <3>5. \A i \in 1 .. Len(T') : n # 0 => n \in 1 .. Len(T) /\ n < n + i
      BY <1>1, <3>1
    <3>6. \A i \in 1 .. Len(T') : completedId' < T'[i].id /\ T'[i].id < nextTrajectoryId
      BY <2>8, <3>1, <3>2, <3>5
    <3>7. n # 0 => n \in 1 .. Len(T)
      BY <1>1
    <3>8. completedId' < nextTrajectoryId
      BY <2>8, <3>1, <3>7
    <3>9. Waiting("Begin")' => /\ completedId' < command.id /\ command.id < nextTrajectoryId
                               /\ \A i \in 1 .. Len(T') : T'[i].id < command.id
      BY <2>5, <2>8, <3>1, <3>2, <3>7 DEF Token
    <3>10. ThresholdsNumbered'
      BY <2>1, <2>3, <3>4, <3>6, <3>8, <3>9 DEF ThresholdsNumbered
    <3> QED
      BY <2>6, <2>7, <3>10 DEF Numbered
  <2>10. CASE Awaits
    <3>1. CASE command.size > 0
      <4>1. /\ Len(T') = Len(T) + 1 /\ T'[Len(T) + 1].id = command.id
            /\ \A i \in 1 .. Len(T) : T'[i] = T[i]
        <5> DEFINE c == [id |-> command.id, frames |-> cumulativeExpectedFrames']
        <5>1. c \in Completion /\ c.id = command.id
          BY <1>1 DEF Completion, TypeOK, HardwareTypeOK
        <5>2. T' = Append(T, c)
          BY <2>10, <3>1 DEF Awaits
        <5> HIDE DEF c, T
        <5> QED
          BY <1>1, <5>1, <5>2, AppendProperties
      <4>2. \A i \in 1 .. Len(T') : i \in 1 .. Len(T) \/ i = Len(T) + 1
        BY <1>1, <4>1
      <4>3. ASSUME NEW i \in 1 .. Len(T'), NEW j \in 1 .. Len(T'), i < j
            PROVE  i \in 1 .. Len(T) /\ (j \in 1 .. Len(T) \/ j = Len(T) + 1)
        <5>1. Len(T) \in Nat /\ Len(T') = Len(T) + 1
          BY <1>1, <4>1
        <5> HIDE DEF T
        <5> QED
          BY <4>3, <5>1
      <4>4. Waiting("Begin") /\ UNCHANGED completedId
        BY <2>10 DEF Awaits
      <4>5. \A i, j \in 1 .. Len(T') : i < j => T'[i].id < T'[j].id
        BY <2>8, <4>1, <4>3, <4>4
      <4>6. \A i \in 1 .. Len(T') : completedId < T'[i].id /\ T'[i].id < nextTrajectoryId
        BY <2>8, <4>1, <4>2, <4>4
      <4>7. ThresholdsNumbered'
        BY <2>1, <2>5, <2>8, <2>10, <4>4, <4>5, <4>6 DEF ThresholdsNumbered
      <4> QED
        BY <2>6, <2>7, <4>7 DEF Numbered
    <3>2. CASE ~(command.size > 0)
      <4>1. UNCHANGED <<T, completedId>>
        BY <2>10, <3>2 DEF Awaits
      <4>2. ThresholdsNumbered'
        BY <2>1, <2>5, <2>8, <2>10, <4>1 DEF ThresholdsNumbered
      <4> QED
        BY <2>6, <2>7, <4>2 DEF Numbered
    <3> QED
      BY <3>1, <3>2
  <2>11. CASE Forgets
    <3>1. T' = <<>> /\ completedId' = 0 /\ Len(T') = 0
      BY <2>11, EmptySeq DEF Forgets
    <3>2. Waiting("Begin")' => 0 < command.id /\ command.id < nextTrajectoryId
      BY <1>1, <2>5, <2>8 DEF Token
    <3>3. ThresholdsNumbered'
      BY <1>1, <2>1, <2>3, <3>1, <3>2 DEF ThresholdsNumbered
    <3> QED
      BY <2>6, <2>7, <3>3 DEF Numbered
  <2>12. CASE Minds
    <3>1. UNCHANGED <<T, completedId>>
      BY <2>12 DEF Minds
    <3>2. Waiting("Begin")' => Waiting("Begin")
      BY <2>5 DEF Token
    <3>3. ThresholdsNumbered'
      BY <2>1, <2>3, <2>8, <3>1, <3>2 DEF ThresholdsNumbered
    <3> QED
      BY <2>6, <2>7, <3>3 DEF Numbered
  <2> QED
    BY <2>3, <2>9, <2>10, <2>11, <2>12
<1> QED
  BY <1>3, <1>4, <1>5 DEF Next, ControllerStep

-------------------------------------------------------------------------------
(* The thresholds follow the goals begun.                                  *)

\* A latched stop, once owed or emitted, has ended every goal, and no goal is
\* begun under the latch.
LatchFindsNone == (stopLatched /\ executor[1] # "stop" /\ ~StopOwed) => Begun = <<>>

\* The goals are ended and what makes the plugin forget them is on its way.
StopUnderWay ==
    \/ Waiting("Stop") \/ Waiting("Reset") \/ phase = "stopRelease"
    \/ /\ stopLatched /\ phase \in {"begin", "gate", "hold"}
       /\ executor[1] = "stop" \/ StopOwed

Ahead == IF Waiting("Begin") THEN 1 ELSE 0

\* The first n goals begun are completed, the others have their thresholds, or
\* the last one its BEGIN in the slot.
InStep ==
    \E n \in 0 .. Len(Begun) :
        /\ \A i \in 1 .. n : trajectoryId[Begun[i]] <= completedId
        /\ Len(trajectoryCompletions) + Ahead = Len(Begun) - n
        /\ \A i \in 1 .. Len(trajectoryCompletions) :
              trajectoryCompletions[i].id = trajectoryId[Begun[n + i]]

Synced == errorCode = 0 => InStep \/ (Begun = <<>> /\ StopUnderWay)

\* With no goal begun there is nothing to await.
LEMMA InStepOfNone ==
    ASSUME TypeOK, Begun = <<>>
    PROVE  InStep <=> (Len(trajectoryCompletions) = 0 /\ ~Waiting("Begin"))
<1>1. Len(trajectoryCompletions) \in Nat /\ Len(Begun) = 0
  BY EmptySeq, LenProperties DEF TypeOK, HardwareTypeOK
<1> HIDE DEF Begun
<1>2. ASSUME InStep
      PROVE  Len(trajectoryCompletions) = 0 /\ ~Waiting("Begin")
  <2>1. PICK n \in 0 .. Len(Begun) : Len(trajectoryCompletions) + Ahead = Len(Begun) - n
    BY <1>2 DEF InStep
  <2> QED
    BY <1>1, <2>1 DEF Ahead
<1>3. ASSUME Len(trajectoryCompletions) = 0, ~Waiting("Begin")
      PROVE  InStep
  <2>1. 0 \in 0 .. Len(Begun) /\ Len(trajectoryCompletions) + Ahead = Len(Begun) - 0
    BY <1>1, <1>3 DEF Ahead
  <2> QED
    BY <1>3, <2>1 DEF InStep
<1> QED
  BY <1>2, <1>3

\* Every step keeps thresholds and goals in step.
LEMMA SyncedStep ==
    ASSUME TypeOK, TypeOK', Begun' \in Seq(Goal), FaultHoldInv, BranchFitsError', StopInv,
           HeldOnce, Numbered, LatchFindsNone, Synced, [Next]_vars
    PROVE  LatchFindsNone' /\ Synced'
<1> DEFINE T == trajectoryCompletions
<1>1. /\ T \in Seq(Completion) /\ Len(T) \in Nat /\ Len(T') \in Nat
      /\ \A i \in 1 .. Len(T) : T[i].id \in Nat
      /\ completedId \in Nat /\ command \in Command
      /\ ackSequence \in Nat /\ command.seq \in Nat
  <2>1. T \in Seq(Completion) /\ T' \in Seq(Completion)
    BY DEF TypeOK, HardwareTypeOK
  <2>2. Len(T) \in Nat /\ Len(T') \in Nat /\ \A i \in 1 .. Len(T) : T[i] \in Completion
    BY <2>1, LenProperties, ElementOfSeq
  <2>3. command \in Command /\ ackSequence \in Nat /\ completedId \in Nat
    BY DEF TypeOK, InterfaceTypeOK
  <2>4. command.seq \in Nat
    BY <2>3 DEF Command
  <2>5. \A c \in Completion : c.id \in Nat
    BY DEF Completion
  <2> QED
    BY <2>1, <2>2, <2>3, <2>4, <2>5
<1>2. /\ Begun \in Seq(Goal) /\ Len(Begun) \in Nat
      /\ \A i \in 1 .. Len(Begun) : Begun[i] \in Goal
      /\ Len(Begun') \in Nat
      /\ Len(Begun') = 0 <=> Begun' = <<>>
      /\ Len(Begun) = 0 <=> Begun = <<>>
      /\ trajectoryId \in [Goal -> Nat] /\ NoGoal \notin Goal
  <2>1. Begun \in Seq(Goal)
    BY QueuesInOrder
  <2>2. Len(Begun) \in Nat /\ \A i \in 1 .. Len(Begun) : Begun[i] \in Goal
    BY <2>1, LenProperties, ElementOfSeq
  <2>3. Len(Begun') \in Nat
    BY LenProperties
  <2>4. /\ Len(Begun') = 0 <=> Begun' = <<>>
        /\ Len(Begun) = 0 <=> Begun = <<>>
    BY <2>1, EmptySeq
  <2> QED
    BY <2>2, <2>1, <2>3, <2>4, GoalAssumption DEF TypeOK, ControllerTypeOK
<1>3. Begun = <<>> => (InStep <=> (Len(T) = 0 /\ ~Waiting("Begin")))
  BY InStepOfNone
<1>4. (Begun' = <<>> /\ Len(T') = 0 /\ ~(Waiting("Begin"))') => InStep'
  <2> SUFFICES ASSUME Begun' = <<>>, Len(T') = 0, ~(Waiting("Begin"))'
               PROVE  InStep'
    OBVIOUS
  <2>1. 0 \in 0 .. Len(Begun') /\ Len(T') + Ahead' = Len(Begun') - 0
    BY <1>2 DEF Ahead
  <2> QED
    BY <2>1 DEF InStep
<1> HIDE DEF Begun
<1>5. CASE UpdateStep /\ UNCHANGED hardwareVars
  <2>1. turn = "update" /\ UNCHANGED <<ackSequence, errorCode, completedId, executor, T>>
    BY <1>5, UpdateFrame DEF hardwareVars, completionVars
  <2>2. ControllerTypes
    BY DEF ControllerTypes, TypeOK, Numbered
  <2>3. Retires \/ Ends \/ Releases \/ Adopts \/ FeedsChunk \/ StreamsOn
    BY <1>5, <2>2, UpdateKinds
  <2>4. errorCode = 0 => ~CommandWaiting /\ PrevAcked
    BY <1>1, <2>1 DEF StopInv, MailboxKept, CommandWaiting, PrevAcked
  <2>5. /\ phase = "hold" => stopLatched
        /\ (phase = "stream" /\ stopLatched) => (executor[1] = "stop" \/ stopRequested)
        /\ phase' = "faultRelease" => errorCode' # 0
        /\ phase \in {"fault", "faultRelease"} => errorCode # 0
        /\ phase' = "fault" => errorCode' # 0
    BY DEF StopInv, StopKept, BranchFitsError, FaultHoldInv
  <2>6. CASE Retires
    <3>1. PICK n \in 0 .. Len(inflight) :
            /\ n <= Len(Begun) /\ Len(Begun') = Len(Begun) - n
            /\ \A i \in 1 .. Len(Begun) - n : Begun'[i] = Begun[n + i]
            /\ \A i \in 1 .. n : trajectoryId[Begun[i]] <= completedId
      BY <2>6 DEF Retires
    <3>2. /\ Kept /\ LatchKept /\ UNCHANGED command
          /\ phase = "begin" /\ phase' \in {"fault", "gate"}
      BY <2>6 DEF Retires
    <3>3. n \in Nat /\ (Begun = <<>> => Begun' = <<>>)
      BY <1>2, <3>1
    <3>4. LatchFindsNone'
      BY <2>1, <3>2, <3>3 DEF LatchFindsNone, LatchKept, StopOwed
    <3>5. ASSUME errorCode' = 0
          PROVE  InStep' \/ (Begun' = <<>> /\ StopUnderWay')
      <4>1. errorCode = 0 /\ ~CommandWaiting /\ phase' = "gate" /\ ~CommandWaiting'
        BY <2>1, <2>4, <2>5, <3>2, <3>5 DEF CommandWaiting
      <4>2. CASE Begun = <<>> /\ StopUnderWay
        <5>1. StopUnderWay'
          BY <2>1, <3>2, <4>1, <4>2 DEF StopUnderWay, Waiting, LatchKept, StopOwed
        <5> QED
          BY <3>3, <4>2, <5>1
      <4>3. CASE InStep
        <5>1. PICK m \in 0 .. Len(Begun) :
                /\ \A i \in 1 .. m : trajectoryId[Begun[i]] <= completedId
                /\ Len(T) + Ahead = Len(Begun) - m
                /\ \A i \in 1 .. Len(T) : T[i].id = trajectoryId[Begun[m + i]]
          BY <4>3 DEF InStep
        <5>2. m \in Nat /\ Ahead = 0 /\ Ahead' = 0
          BY <4>1 DEF Ahead, Waiting
        <5>3. Len(T) = Len(Begun) - m
          BY <1>1, <5>1, <5>2
        <5>4. n <= m
          <6> SUFFICES ASSUME ~(n <= m)
                       PROVE  FALSE
            OBVIOUS
          <6>1. m + 1 \in 1 .. n /\ 1 \in 1 .. Len(T) /\ m + 1 \in 1 .. Len(Begun)
            BY <1>2, <3>1, <3>3, <5>2, <5>3
          <6>2. T[1].id = trajectoryId[Begun[m + 1]] /\ completedId < T[1].id
            BY <5>1, <6>1 DEF Numbered, ThresholdsNumbered
          <6>3. trajectoryId[Begun[m + 1]] <= completedId
            BY <3>1, <6>1
          <6> QED
            BY <1>1, <6>1, <6>2, <6>3
        <5>5. m - n \in 0 .. Len(Begun')
          BY <1>2, <3>1, <3>3, <5>2, <5>4
        <5>6. \A i \in 1 .. m - n : /\ i \in 1 .. Len(Begun) - n
                                    /\ n + i \in 1 .. m
          BY <1>2, <3>3, <5>2
        <5>7. \A i \in 1 .. m - n : trajectoryId'[Begun'[i]] <= completedId'
          BY <2>1, <3>1, <3>2, <5>1, <5>6 DEF Kept
        <5>8. Len(T') + Ahead' = Len(Begun') - (m - n)
          BY <1>2, <2>1, <3>1, <3>3, <5>2, <5>3
        <5>9. \A i \in 1 .. Len(T) : /\ m - n + i \in 1 .. Len(Begun) - n
                                    /\ n + (m - n + i) = m + i
          BY <1>1, <1>2, <3>3, <5>2, <5>3, <5>4
        <5>10. \A i \in 1 .. Len(T) : Begun'[m - n + i] = Begun[m + i]
          BY <3>1, <5>9
        <5>11. \A i \in 1 .. Len(T') : T'[i].id = trajectoryId'[Begun'[m - n + i]]
          BY <2>1, <3>2, <5>1, <5>10 DEF Kept
        <5> QED
          BY <5>5, <5>7, <5>8, <5>11 DEF InStep
      <4> QED
        BY <4>1, <4>2, <4>3 DEF Synced
    <3> QED
      BY <3>4, <3>5 DEF Synced
  <2>7. CASE Ends
    <3>1. Begun' = <<>>
      BY <2>7 DEF Ends
    <3>2. LatchFindsNone'
      BY <3>1 DEF LatchFindsNone
    <3>3. ASSUME errorCode' = 0
          PROVE  InStep' \/ StopUnderWay'
      <4>1. errorCode = 0 /\ ~CommandWaiting /\ PrevAcked
        BY <2>1, <2>4, <3>3
      <4>2. CASE phase' = "stopRelease"
        BY <4>2 DEF StopUnderWay
      <4>3. CASE phase' # "stopRelease"
        <5>1. /\ phase = "hold" /\ phase' = "begin" /\ UNCHANGED stopLatched
              /\ IF StopOwed THEN command'.token = "Stop" /\ command'.seq = command.seq + 1
                 ELSE command'.token = "None"
          BY <2>1, <2>5, <2>7, <3>3, <4>1, <4>3 DEF Ends
        <5>2. CASE StopOwed
          <6>1. (Waiting("Stop"))'
            BY <1>1, <2>1, <4>1, <5>1, <5>2 DEF Waiting, CommandWaiting, PrevAcked
          <6> QED
            BY <6>1 DEF StopUnderWay
        <5>3. CASE ~StopOwed /\ executor[1] = "stop"
          <6>1. stopLatched' /\ phase' = "begin" /\ executor'[1] = "stop"
            BY <2>1, <2>5, <5>1, <5>3
          <6> QED
            BY <6>1 DEF StopUnderWay
        <5>4. CASE ~StopOwed /\ executor[1] # "stop"
          <6>1. Begun = <<>>
            BY <2>5, <5>1, <5>4 DEF LatchFindsNone
          <6>2. ~StopUnderWay
            BY <4>1, <5>1, <5>4 DEF StopUnderWay, Waiting
          <6>3. Len(T) = 0
            BY <1>3, <4>1, <6>1, <6>2 DEF Synced
          <6>4. Len(T') = 0 /\ ~(Waiting("Begin"))'
            BY <2>1, <5>1, <5>4, <6>3 DEF Waiting
          <6> QED
            BY <1>4, <3>1, <6>4
        <5> QED
          BY <5>2, <5>3, <5>4
      <4> QED
        BY <4>2, <4>3
    <3> QED
      BY <3>1, <3>2, <3>3 DEF Synced
  <2>8. CASE Releases
    <3>1. Begun = <<>> /\ Begun' = <<>> /\ command'.token = "Reset" /\ command'.seq = command.seq + 1
      BY <2>8 DEF Releases, Commands, Numbered
    <3>2. LatchFindsNone'
      BY <3>1 DEF LatchFindsNone
    <3>3. ASSUME errorCode' = 0
          PROVE  StopUnderWay'
      <4>1. PrevAcked
        BY <2>1, <2>4, <3>3
      <4>2. (Waiting("Reset"))'
        BY <1>1, <2>1, <3>1, <4>1 DEF Waiting, CommandWaiting, PrevAcked
      <4> QED
        BY <4>2 DEF StopUnderWay
    <3> QED
      BY <3>1, <3>2, <3>3 DEF Synced
  <2>9. ASSUME phase = "stream", LatchKept
        PROVE  /\ LatchFindsNone'
               /\ errorCode = 0 => InStep /\ ~CommandWaiting /\ PrevAcked
    <3>1. LatchFindsNone'
      BY <2>1, <2>5, <2>9 DEF LatchFindsNone, LatchKept, StopOwed
    <3>2. errorCode = 0 => ~StopUnderWay
      BY <2>4, <2>9 DEF StopUnderWay, Waiting
    <3> QED
      BY <2>4, <3>1, <3>2 DEF Synced
  <2>10. CASE Adopts
    <3> DEFINE g == Head(pending)
    <3>1. /\ g \in Goal /\ \A i \in 1 .. Len(Begun) : Begun[i] # g
      BY <2>10, PendingNotBegun DEF Adopts, Begun
    <3> HIDE DEF g
    <3>2. /\ Len(Begun') = Len(Begun) + 1 /\ Begun'[Len(Begun) + 1] = g
          /\ \A i \in 1 .. Len(Begun) : Begun'[i] = Begun[i]
          /\ trajectoryId' = [trajectoryId EXCEPT ![g] = nextTrajectoryId]
          /\ command'.token = "Begin" /\ command'.seq = command.seq + 1
          /\ phase = "stream" /\ LatchKept
      BY <2>10 DEF Adopts, g
    <3>3. \A i \in 1 .. Len(Begun) : trajectoryId'[Begun'[i]] = trajectoryId[Begun[i]]
      BY <1>2, <3>1, <3>2
    <3>4. LatchFindsNone'
      BY <2>9, <3>2
    <3>5. ASSUME errorCode' = 0
          PROVE  InStep'
      <4>1. errorCode = 0 /\ InStep /\ ~CommandWaiting /\ PrevAcked
        BY <2>1, <2>9, <3>2, <3>5
      <4>2. PICK m \in 0 .. Len(Begun) :
              /\ \A i \in 1 .. m : trajectoryId[Begun[i]] <= completedId
              /\ Len(T) + Ahead = Len(Begun) - m
              /\ \A i \in 1 .. Len(T) : T[i].id = trajectoryId[Begun[m + i]]
        BY <4>1 DEF InStep
      <4>3. Ahead = 0 /\ Ahead' = 1
        BY <1>1, <2>1, <3>2, <4>1 DEF Ahead, Waiting, CommandWaiting, PrevAcked
      <4>4. m \in 0 .. Len(Begun') /\ Len(T') + Ahead' = Len(Begun') - m
        <5>1. /\ Len(T') = Len(T) /\ Len(T) \in Nat /\ Len(Begun) \in Nat
              /\ Len(Begun') = Len(Begun) + 1 /\ Len(T) + Ahead = Len(Begun) - m
          BY <1>1, <1>2, <2>1, <3>2, <4>2
        <5> HIDE DEF T
        <5> QED
          BY <4>3, <5>1
      <4>5. \A i \in 1 .. m : i \in 1 .. Len(Begun)
        BY <1>2
      <4>6. \A i \in 1 .. m : trajectoryId'[Begun'[i]] <= completedId'
        BY <2>1, <3>3, <4>2, <4>5
      <4>7. \A i \in 1 .. Len(T) : m + i \in 1 .. Len(Begun)
        BY <1>1, <1>2, <4>2, <4>3
      <4>8. \A i \in 1 .. Len(T') : T'[i].id = trajectoryId'[Begun'[m + i]]
        BY <2>1, <3>3, <4>2, <4>7
      <4> QED
        BY <4>4, <4>6, <4>8 DEF InStep
    <3> QED
      BY <3>4, <3>5 DEF Synced
  <2>11. ASSUME Kept, UNCHANGED Begun, phase = "stream", LatchKept, ~(Waiting("Begin"))'
         PROVE  LatchFindsNone' /\ Synced'
    <3>1. LatchFindsNone'
      BY <2>9, <2>11
    <3>2. ASSUME errorCode' = 0
          PROVE  InStep'
      <4>1. InStep /\ Ahead = 0 /\ Ahead' = 0
        BY <2>1, <2>9, <2>11, <3>2 DEF Ahead, Waiting
      <4> QED
        BY <2>1, <2>11, <4>1 DEF InStep, Kept
    <3> QED
      BY <3>1, <3>2 DEF Synced
  <2>12. CASE FeedsChunk
    BY <2>11, <2>12 DEF FeedsChunk, Waiting
  <2>13. CASE StreamsOn /\ phase = "stream"
    BY <2>11, <2>13 DEF StreamsOn, Waiting
  <2>14. CASE StreamsOn /\ phase # "stream"
    <3>1. /\ Kept /\ LatchKept /\ UNCHANGED <<Begun, command>>
          /\ phase = "gate" /\ phase' = IF stopLatched THEN "hold" ELSE "stream"
      BY <2>14 DEF StreamsOn
    <3>2. LatchFindsNone'
      BY <2>1, <3>1 DEF LatchFindsNone, LatchKept, StopOwed
    <3>3. InStep => InStep'
      BY <2>1, <3>1 DEF InStep, Kept, Ahead, Waiting, CommandWaiting
    <3>4. (StopUnderWay /\ errorCode = 0) => StopUnderWay'
      BY <2>1, <2>4, <3>1 DEF StopUnderWay, Waiting, LatchKept, StopOwed
    <3> QED
      BY <2>1, <3>1, <3>2, <3>3, <3>4 DEF Synced
  <2> QED
    BY <2>3, <2>6, <2>7, <2>8, <2>10, <2>12, <2>13, <2>14
<1>6. CASE ExecutorStep /\ UNCHANGED hardwareVars
  <2>1. /\ UNCHANGED <<interfaceVars, phase, feeding, inflight, trajectoryId, T, stopCommandPending>>
        /\ \/ StopLatches \/ StopRequests
           \/ /\ UNCHANGED <<stopLatched, stopRequested>>
              /\ executor[1] # "stop" /\ executor'[1] # "stop"
    BY <1>6, ExecutorFrame DEF hardwareVars, completionVars
  <2>2. UNCHANGED Begun /\ (InStep => InStep')
    BY <2>1 DEF Begun, InStep, Ahead, Waiting, CommandWaiting, interfaceVars
  <2>3. LatchFindsNone' /\ (StopUnderWay => StopUnderWay')
    <3>1. CASE StopLatches
      <4>1. stopLatched' /\ executor'[1] = "stop" /\ UNCHANGED stopRequested
        BY <3>1 DEF StopLatches
      <4> QED
        BY <2>1, <4>1 DEF LatchFindsNone, StopUnderWay, Waiting, CommandWaiting, interfaceVars
    <3>2. CASE StopRequests
      <4>1. UNCHANGED stopLatched /\ stopRequested'
        BY <3>2 DEF StopRequests
      <4> QED
        BY <2>1, <4>1 DEF LatchFindsNone, StopUnderWay, StopOwed, Waiting, CommandWaiting, interfaceVars
    <3>3. CASE /\ UNCHANGED <<stopLatched, stopRequested>>
               /\ executor[1] # "stop" /\ executor'[1] # "stop"
      BY <2>1, <2>2, <3>3
      DEF LatchFindsNone, StopUnderWay, StopOwed, Waiting, CommandWaiting, interfaceVars
    <3> QED
      BY <2>1, <3>1, <3>2, <3>3
  <2>4. UNCHANGED errorCode
    BY <2>1 DEF interfaceVars
  <2> QED
    BY <2>2, <2>3, <2>4 DEF Synced
<1>7. CASE HardwareStep /\ UNCHANGED controllerVars
  <2>1. UNCHANGED <<phase, feeding, inflight, trajectoryId, executor, stopLatched,
                    stopRequested, stopCommandPending>>
    BY <1>7 DEF controllerVars, pipelineVars, latchVars
  <2>2. UNCHANGED Begun
    BY <2>1 DEF Begun
  <2>3. LatchFindsNone'
    BY <2>1, <2>2 DEF LatchFindsNone, StopOwed
  <2>4. UNCHANGED command /\ (Passes \/ Awaits \/ Forgets \/ Minds)
    BY <1>7, HardwareKinds DEF Numbered, Commands, StopInv
  <2>5. /\ (Waiting("Stop") \/ Waiting("Reset")) => Begun = <<>>
        /\ Waiting("Begin") => /\ feeding # NoGoal /\ command.size = Points[feeding]
                               /\ command.id = trajectoryId[feeding]
    BY DEF Numbered, Commands
  <2>6. CASE Passes
    <3>1. PICK n \in 0 .. Len(T) :
            /\ Len(T') = Len(T) - n /\ \A i \in 1 .. Len(T) - n : T'[i] = T[n + i]
            /\ completedId' = IF n = 0 THEN completedId ELSE T[n].id
      BY <2>6 DEF Passes
    <3>2. UNCHANGED <<ackSequence, errorCode>> /\ n \in Nat
      BY <2>6 DEF Passes
    <3>3. StopUnderWay => StopUnderWay'
      BY <2>1, <2>4, <3>2 DEF StopUnderWay, StopOwed, Waiting, CommandWaiting
    <3>4. ASSUME InStep
          PROVE  InStep'
      <4>1. PICK m \in 0 .. Len(Begun) :
              /\ \A i \in 1 .. m : trajectoryId[Begun[i]] <= completedId
              /\ Len(T) + Ahead = Len(Begun) - m
              /\ \A i \in 1 .. Len(T) : T[i].id = trajectoryId[Begun[m + i]]
        BY <3>4 DEF InStep
      <4>2. Ahead \in {0, 1} /\ Ahead' = Ahead /\ m \in Nat
        BY <2>4, <3>2 DEF Ahead, Waiting, CommandWaiting
      <4>3. m + n \in 0 .. Len(Begun) /\ Len(T') + Ahead' = Len(Begun) - (m + n)
        BY <1>1, <1>2, <3>1, <3>2, <4>1, <4>2
      <4>4. ASSUME NEW i \in 1 .. m + n
            PROVE  trajectoryId[Begun[i]] <= completedId'
        <5>1. n # 0 => /\ n \in 1 .. Len(T) /\ completedId < T[n].id
                       /\ \A k \in 1 .. Len(T) : k < n => T[k].id < T[n].id
          <6>1. n # 0 => n \in 1 .. Len(T)
            BY <1>1
          <6> QED
            BY <6>1 DEF Numbered, ThresholdsNumbered
        <5>2. CASE i \in 1 .. m
          <6>1. trajectoryId[Begun[i]] <= completedId /\ trajectoryId[Begun[i]] \in Nat
            <7>1. i \in 1 .. Len(Begun)
              BY <1>2, <5>2
            <7> QED
              BY <1>2, <4>1, <5>2, <7>1
          <6>2. CASE n = 0
            BY <3>1, <6>1, <6>2
          <6>3. CASE n # 0
            <7>1. completedId' = T[n].id /\ completedId < T[n].id /\ T[n].id \in Nat
              BY <1>1, <3>1, <5>1, <6>3
            <7> HIDE DEF T
            <7> QED
              BY <1>1, <6>1, <7>1
          <6> QED
            BY <6>2, <6>3
        <5>3. CASE i \notin 1 .. m
          <6>1. i - m \in 1 .. Len(T) /\ m + (i - m) = i /\ n # 0 /\ (i - m = n \/ i - m < n)
            BY <1>1, <3>2, <4>2, <5>3
          <6>2. trajectoryId[Begun[i]] = T[i - m].id
            BY <4>1, <6>1
          <6>3. T[i - m].id \in Nat /\ T[n].id \in Nat
            BY <1>1, <5>1, <6>1
          <6>4. completedId' = T[n].id
            BY <3>1, <6>1
          <6>5. T[i - m].id <= T[n].id
            <7>1. CASE i - m = n
              <8>1. T[i - m].id = T[n].id
                BY <7>1, Zenon
              <8> HIDE DEF T
              <8> QED
                BY <6>3, <8>1
            <7>2. CASE i - m < n
              <8>1. T[i - m].id < T[n].id
                BY <5>1, <6>1, <7>2
              <8> HIDE DEF T
              <8> QED
                BY <6>3, <8>1
            <7> QED
              BY <6>1, <7>1, <7>2
          <6> QED
            BY <6>2, <6>4, <6>5
        <5> QED
          BY <5>2, <5>3
      <4>5. \A i \in 1 .. Len(T') : n + i \in 1 .. Len(T) /\ m + (n + i) = m + n + i
        BY <1>1, <3>1, <3>2, <4>2
      <4>6. \A i \in 1 .. Len(T') : T'[i].id = trajectoryId[Begun[m + n + i]]
        BY <3>1, <4>1, <4>5
      <4> QED
        BY <2>1, <2>2, <4>3, <4>4, <4>6 DEF InStep
    <3> QED
      BY <2>2, <2>3, <3>2, <3>3, <3>4 DEF Synced
  <2>7. CASE Awaits
    <3>1. /\ Waiting("Begin") /\ ackSequence' = command.seq /\ UNCHANGED <<errorCode, completedId>>
          /\ feeding # NoGoal /\ feeding \in Goal /\ command.size > 0
          /\ command.id = trajectoryId[feeding]
      <4>1. feeding \in Goal \cup {NoGoal} /\ \A g \in Goal : Points[g] \in Nat \ {0}
        BY GoalAssumption DEF TypeOK, ControllerTypeOK
      <4> QED
        BY <2>5, <2>7, <4>1 DEF Awaits
    <3>2. /\ Len(T') = Len(T) + 1 /\ T'[Len(T) + 1].id = command.id
          /\ \A i \in 1 .. Len(T) : T'[i] = T[i]
      <4> DEFINE c == [id |-> command.id, frames |-> cumulativeExpectedFrames']
      <4>1. c \in Completion /\ c.id = command.id
        BY <1>1 DEF Completion, Command, TypeOK, HardwareTypeOK
      <4>2. T' = Append(T, c)
        BY <2>7, <3>1 DEF Awaits
      <4> HIDE DEF c, T
      <4> QED
        BY <1>1, <4>1, <4>2, AppendProperties
    <3>3. Begun # <<>> /\ Begun[Len(Begun)] = feeding
      <4>1. inflight \in Seq(Goal)
        BY DEF TypeOK, ControllerTypeOK
      <4>2. /\ Len(Begun) = Len(inflight) + 1 /\ Begun[Len(inflight) + 1] = feeding
            /\ Len(inflight) \in Nat
        BY <3>1, <4>1, BegunItems DEF Begun
      <4> QED
        BY <1>2, <4>2
    <3>4. ASSUME errorCode' = 0
          PROVE  InStep'
      <4>1. InStep
        BY <3>1, <3>3, <3>4 DEF Synced
      <4>2. PICK m \in 0 .. Len(Begun) :
              /\ \A i \in 1 .. m : trajectoryId[Begun[i]] <= completedId
              /\ Len(T) + Ahead = Len(Begun) - m
              /\ \A i \in 1 .. Len(T) : T[i].id = trajectoryId[Begun[m + i]]
        BY <4>1 DEF InStep
      <4>3. Ahead = 1 /\ Ahead' = 0
        BY <1>1, <2>4, <3>1 DEF Ahead, Waiting, CommandWaiting
      <4>4. Len(T') + Ahead' = Len(Begun) - m
        BY <1>1, <3>2, <4>2, <4>3
      <4>5. m + (Len(T) + 1) = Len(Begun)
        BY <1>1, <1>2, <4>2, <4>3
      <4>6. ASSUME NEW i \in 1 .. Len(T')
            PROVE  T'[i].id = trajectoryId[Begun[m + i]]
        <5>1. i \in 1 .. Len(T) \/ i = Len(T) + 1
          BY <1>1, <3>2
        <5> QED
          BY <3>1, <3>2, <3>3, <4>2, <4>5, <5>1
      <4> QED
        BY <2>1, <2>2, <3>1, <4>2, <4>4, <4>6 DEF InStep
    <3> QED
      BY <2>3, <3>4 DEF Synced
  <2>8. CASE Forgets
    <3>1. ASSUME errorCode' = 0
          PROVE  InStep'
      <4>1. /\ T' = <<>> /\ ackSequence' = command.seq
            /\ Waiting("Stop") \/ Waiting("Reset")
        BY <2>8, <3>1 DEF Forgets
      <4>2. Begun' = <<>> /\ Len(T') = 0 /\ ~(Waiting("Begin"))'
        BY <1>1, <2>2, <2>4, <2>5, <4>1, EmptySeq DEF Waiting, CommandWaiting
      <4> QED
        BY <1>4, <4>2
    <3> QED
      BY <2>3, <3>1 DEF Synced
  <2>9. CASE Minds
    <3>1. /\ UNCHANGED <<completedId, T, errorCode>>
          /\ \/ UNCHANGED ackSequence
             \/ ackSequence' = command.seq /\ command.token \in {"None", "AppendChunk"}
      BY <2>9 DEF Minds
    <3>2. \A t \in {"Begin", "Stop", "Reset"} : (Waiting(t))' <=> Waiting(t)
      BY <1>1, <2>4, <3>1 DEF Waiting, CommandWaiting
    <3>3. InStep => InStep'
      BY <2>1, <2>2, <3>1, <3>2 DEF InStep, Ahead
    <3>4. StopUnderWay => StopUnderWay'
      BY <2>1, <3>2 DEF StopUnderWay, StopOwed
    <3> QED
      BY <2>2, <2>3, <3>1, <3>3, <3>4 DEF Synced
  <2> QED
    BY <2>4, <2>6, <2>7, <2>8, <2>9
<1>8. CASE UNCHANGED vars
  <2>1. UNCHANGED <<interfaceVars, phase, feeding, inflight, trajectoryId, executor, stopLatched,
                    stopRequested, stopCommandPending, T>>
    BY <1>8
    DEF vars, controllerVars, pipelineVars, latchVars, hardwareVars, completionVars
  <2> QED
    BY <2>1
    DEF LatchFindsNone, Synced, InStep, StopUnderWay, StopOwed, Ahead, Waiting, CommandWaiting,
        Begun, interfaceVars
<1> QED
  BY <1>5, <1>6, <1>7, <1>8 DEF Next, ControllerStep

\* So they always are.
LEMMA SyncedInvariance == Spec => [](Numbered /\ LatchFindsNone /\ Synced)
<1>1. Init => Numbered /\ LatchFindsNone /\ Synced
  <2> SUFFICES ASSUME Init
               PROVE  Numbered /\ LatchFindsNone /\ Synced
    OBVIOUS
  <2> USE DEF Init, InterfaceInit, ControllerInit, HardwareInit
  <2>1. Begun = <<>> /\ Len(Begun) = 0 /\ Len(trajectoryCompletions) = 0
    BY EmptySeq DEF Begun
  <2>2. ~CommandWaiting /\ command.token = "None"
    BY DEF CommandWaiting, NoCommand
  <2>3. Numbered
    <3>1. \A g \in Goal : trajectoryId[g] = 0
      OBVIOUS
    <3> QED
      BY <2>1, <2>2, <3>1
      DEF Numbered, ThresholdsNumbered, GoalsNumbered, Commands, PointsLeft, Waiting
  <2>4. InStep
    <3>1. 0 \in 0 .. Len(Begun) /\ Len(trajectoryCompletions) + Ahead = Len(Begun) - 0
      BY <2>1, <2>2 DEF Ahead, Waiting
    <3> QED
      BY <2>1, <3>1 DEF InStep
  <2> QED
    BY <2>1, <2>3, <2>4 DEF LatchFindsNone, Synced
<1>2. TypeOK => Begun \in Seq(Goal)
  BY QueuesInOrder
<1>3. /\ TypeOK /\ TypeOK' /\ (Begun \in Seq(Goal))' /\ HeldOnce
      /\ FaultHoldInv /\ FaultHoldInv' /\ StopInv
      /\ Numbered /\ LatchFindsNone /\ Synced /\ [Next]_vars
      => (Numbered /\ LatchFindsNone /\ Synced)'
  BY NumberedStep, SyncedStep DEF StopInv, FaultHoldInv
<1> QED
  BY <1>1, <1>2, <1>3, StopInvariance, OrderHeld, PTL DEF Spec

\* Without a latched fault the plugin awaits the goals the controller has begun
\* and not seen completed, all of them and in their order, whatever stops,
\* resets and faults have struck before (UpdateCompletion,
\* ResetCompletionTracking, feeding_ and inflight_).
THEOREM CompletionMatches == Spec => []CompletionTracksGoals
<1>1. ASSUME TypeOK, Numbered, Synced
      PROVE  CompletionTracksGoals
  <2> SUFFICES ASSUME errorCode = 0, Begun # <<>>
               PROVE  \E n \in 0 .. Len(Begun) :
                        /\ \A i \in 1 .. Len(Begun) : trajectoryId[Begun[i]] <= completedId <=> i <= n
                        /\ Thresholds = Awaited(n)
    BY DEF CompletionTracksGoals
  <2> DEFINE T == trajectoryCompletions
  <2>1. /\ T \in Seq(Completion) /\ Len(T) \in Nat /\ DOMAIN T = 1 .. Len(T)
        /\ \A i \in 1 .. Len(T) : T[i].id \in Nat
        /\ completedId \in Nat /\ command.id \in Nat
    <3>1. T \in Seq(Completion)
      BY <1>1 DEF TypeOK, HardwareTypeOK
    <3>2. Len(T) \in Nat /\ DOMAIN T = 1 .. Len(T) /\ \A i \in 1 .. Len(T) : T[i] \in Completion
      BY <3>1, LenProperties, ElementOfSeq
    <3>3. completedId \in Nat /\ command.id \in Nat
      BY <1>1 DEF TypeOK, InterfaceTypeOK, Command
    <3>4. \A c \in Completion : c.id \in Nat
      BY DEF Completion
    <3> QED
      BY <3>1, <3>2, <3>3, <3>4
  <2>2. /\ Begun \in Seq(Goal) /\ Len(Begun) \in Nat
        /\ \A i \in 1 .. Len(Begun) : Begun[i] \in Goal /\ trajectoryId[Begun[i]] \in Nat
    <3>1. Begun \in Seq(Goal)
      BY <1>1, QueuesInOrder
    <3>2. Len(Begun) \in Nat /\ \A i \in 1 .. Len(Begun) : Begun[i] \in Goal
      BY <3>1, LenProperties, ElementOfSeq
    <3> QED
      BY <1>1, <3>1, <3>2 DEF TypeOK, ControllerTypeOK
  <2>3. Waiting("Begin") => /\ feeding # NoGoal /\ command.id = trajectoryId[feeding]
                            /\ Begun[Len(Begun)] = feeding
    <3>1. Waiting("Begin") => feeding # NoGoal /\ command.id = trajectoryId[feeding]
      BY <1>1 DEF Numbered, Commands
    <3>2. feeding # NoGoal => Begun[Len(Begun)] = feeding
      <4>1. inflight \in Seq(Goal) /\ feeding \in Goal \cup {NoGoal}
        BY <1>1 DEF TypeOK, ControllerTypeOK
      <4> QED
        BY <4>1, BegunItems DEF Begun
    <3> QED
      BY <3>1, <3>2
  <2> HIDE DEF Begun
  <2>4. PICK n \in 0 .. Len(Begun) :
          /\ \A i \in 1 .. n : trajectoryId[Begun[i]] <= completedId
          /\ Len(T) + Ahead = Len(Begun) - n
          /\ \A i \in 1 .. Len(T) : T[i].id = trajectoryId[Begun[n + i]]
    BY <1>1 DEF Synced, InStep
  <2>5. n \in Nat /\ Ahead \in {0, 1} /\ (Waiting("Begin") <=> Ahead = 1)
    BY DEF Ahead
  \* The goals that are not completed are the ones awaited.
  <2>6. ASSUME NEW i \in 1 .. Len(Begun)
        PROVE  trajectoryId[Begun[i]] <= completedId <=> i <= n
    <3>1. CASE i <= n
      <4>1. i \in 1 .. n
        BY <2>5, <3>1
      <4> QED
        BY <2>4, <3>1, <4>1
    <3>2. CASE ~(i <= n)
      <4>1. i - n \in 1 .. Len(T) \/ (Ahead = 1 /\ i = Len(Begun))
        BY <2>1, <2>2, <2>4, <2>5, <3>2
      <4>2. n + (i - n) = i
        BY <2>5
      <4>3. completedId < trajectoryId[Begun[i]]
        <5>1. CASE i - n \in 1 .. Len(T)
          <6>1. T[i - n].id = trajectoryId[Begun[n + (i - n)]] /\ completedId < T[i - n].id
            BY <1>1, <2>4, <5>1 DEF Numbered, ThresholdsNumbered
          <6> QED
            BY <4>2, <6>1
        <5>2. CASE Ahead = 1 /\ i = Len(Begun)
          BY <1>1, <2>3, <2>5, <5>2 DEF Numbered, ThresholdsNumbered
        <5> QED
          BY <4>1, <5>1, <5>2
      <4>4. trajectoryId[Begun[i]] \in Nat
        BY <2>2
      <4> QED
        BY <2>1, <3>2, <4>3, <4>4
    <3> QED
      BY <3>1, <3>2
  <2>7. Thresholds = Awaited(n)
    <3> DEFINE ids == [i \in DOMAIN T |-> T[i].id]
               last == IF Waiting("Begin") THEN <<command.id>> ELSE <<>>
    <3>1. ids \in Seq(Nat) /\ Len(ids) = Len(T) /\ \A i \in 1 .. Len(T) : ids[i] = T[i].id
      <4>1. ids = [i \in 1 .. Len(T) |-> T[i].id]
        BY <2>1
      <4>2. ids \in [1 .. Len(T) -> Nat]
        BY <2>1, <4>1
      <4> HIDE DEF ids
      <4>3. ids \in Seq(Nat) /\ DOMAIN ids = 1 .. Len(T)
        BY <2>1, <4>2, IsASeq
      <4>4. Len(ids) = Len(T)
        BY <2>1, <4>3, LenProperties
      <4> QED
        BY <4>1, <4>3, <4>4
    <3>2. last \in Seq(Nat) /\ Len(last) = Ahead /\ (Ahead = 1 => last[1] = command.id)
      BY <2>1, EmptySeq DEF Ahead
    <3>3. Thresholds = ids \o last
      BY DEF Thresholds, Waiting
    <3> HIDE DEF ids, last, T
    <3>4. /\ ids \o last \in Seq(Nat)
          /\ Len(ids \o last) = Len(T) + Ahead
          /\ \A i \in 1 .. Len(T) + Ahead :
                (ids \o last)[i] = IF i <= Len(T) THEN ids[i] ELSE last[i - Len(T)]
      <4>1. /\ ids \o last \in Seq(Nat)
            /\ Len(ids \o last) = Len(ids) + Len(last)
            /\ \A i \in 1 .. Len(ids) + Len(last) :
                  (ids \o last)[i] = IF i <= Len(ids) THEN ids[i] ELSE last[i - Len(ids)]
        BY <3>1, <3>2, ConcatProperties
      <4>2. Len(ids) = Len(T) /\ Len(last) = Ahead
        BY <3>1, <3>2
      <4> QED
        BY <4>1, <4>2
    <3> DEFINE s == ids \o last
    <3> HIDE DEF s
    <3>5. s \in [1 .. Len(Begun) - n -> Nat]
      <4>1. s \in Seq(Nat) /\ Len(s) = Len(Begun) - n
        BY <2>4, <3>4 DEF T, s
      <4> QED
        BY <4>1, LenProperties
    <3>6. ASSUME NEW i \in 1 .. Len(Begun) - n
          PROVE  s[i] = trajectoryId[Begun[n + i]]
      <4>1. i \in 1 .. Len(T) + Ahead
        BY <2>4 DEF T
      <4>2. CASE i \in 1 .. Len(T)
        <5>1. s[i] = T[i].id
          BY <3>1, <3>4, <4>1, <4>2 DEF s
        <5> QED
          BY <2>4, <4>2, <5>1 DEF T
      <4>3. CASE i \notin 1 .. Len(T)
        <5>1. Ahead = 1 /\ i = Len(T) + 1 /\ i - Len(T) = 1 /\ ~(i <= Len(T)) /\ n + i = Len(Begun)
          <6>1. /\ Len(T) \in Nat /\ Len(Begun) \in Nat /\ n \in Nat /\ Ahead \in {0, 1}
                /\ Len(T) + Ahead = Len(Begun) - n
            BY <2>1, <2>2, <2>4, <2>5 DEF T
          <6> QED
            BY <4>1, <4>3, <6>1
        <5>2. s[i] = command.id
          BY <3>2, <3>4, <4>1, <5>1 DEF s
        <5>3. command.id = trajectoryId[Begun[Len(Begun)]]
          BY <2>3, <2>5, <5>1
        <5> QED
          BY <5>1, <5>2, <5>3
      <4> QED
        BY <4>2, <4>3
    <3>7. s = [i \in 1 .. Len(Begun) - n |-> trajectoryId[Begun[n + i]]]
      BY <3>5, <3>6
    <3> QED
      BY <3>3, <3>7 DEF s, Awaited
  <2> QED
    BY <2>6, <2>7
<1> QED
  BY <1>1, SyncedInvariance, SystemTypeCorrect, PTL

-------------------------------------------------------------------------------
(* Frames and points: what the plugin has been given, what it has fed and  *)
(* what the firmware has executed.                                         *)

\* A write() that forgets the transfer: a fault, an overflow, a Stop, a Reset.
Wipes ==
    /\ excessChunks' = <<>> /\ firstChunk' = TRUE /\ trajectoryCompletions' = <<>>
    /\ totalFramesFed' = 0 /\ cumulativeExpectedFrames' = 0
    /\ currentTrajectoryId' = 0 /\ completedId' = 0
    /\ UNCHANGED command /\ ackSequence' \in {ackSequence, command.seq}
    /\ errorCode' # 0 \/ (ackSequence' = command.seq /\ (Waiting("Stop") \/ Waiting("Reset")))
    /\ frames' \in {frames, <<>>}
    /\ dropped' \subseteq dropped \cup UnexecutedIds
    /\ group' \in {group, "STOPPING_ERROR", "ERROR"} \/ (group' = "IDLE" /\ frames' = <<>>)

\* The faults of a group with nothing to do are cleared.
Clears ==
    /\ ~transferMoveOpen
    /\ group' = "IDLE" /\ frames' = <<>> /\ dropped' = dropped \cup FrameIds
    /\ UNCHANGED <<command, errorCode, completedId, queueVars, completionVars>>

\* Nothing is taken, fed or executed.
Idles ==
    /\ UNCHANGED <<command, errorCode, completedId, queueVars, completionVars, frames, dropped>>
    /\ group' # "IDLE" \/ group = "IDLE" \/ frames = <<>>
    /\ group' \notin {"STOPPING", "STOPPED"}

\* write() acknowledges nothing but the command in the slot.
Acked == ackSequence' \in {ackSequence, command.seq}

\* The frames of the chunk in the slot, until write() has copied it.
SlotFrames ==
    IF Waiting("AppendChunk") /\ turn \notin {"drainChunk", "feedChunk"} THEN 2 * ChunkLen ELSE 0

\* What is owed does not grow.
SlotKept ==
    /\ SlotFrames' \in {SlotFrames, 0}
    /\ Waiting("Begin") => Waiting("Begin")'

\* A step of the plugin or the firmware forgets the transfer, takes what is in
\* the slot, feeds, executes, or leaves the queues alone.
LEMMA HardwareMoves ==
    ASSUME TypeOK, MailboxKept, ExternalStops = FALSE, group \notin {"STOPPING", "STOPPED"},
           Commands, HardwareStep
    PROVE  /\ UNCHANGED command /\ Acked
           /\ \/ Read \/ BeginTrajectoryTransfer \/ Wipes
              \/ AppendTrajectory /\ ChunkCarriesWork
              \/ FeedNext /\ SlotKept
              \/ ExecuteFrame
              \/ (Clears \/ Idles) /\ SlotKept
<1> USE DEF Acked
<1>1. CASE Read
  BY <1>1 DEF Read
<1>2. CASE BeginTrajectoryTransfer
  BY <1>2 DEF BeginTrajectoryTransfer, Acknowledge
<1>3. CASE AppendTrajectory
  <2>1. command.len > 0 /\ UNCHANGED <<command, ackSequence>>
    BY <1>3 DEF AppendTrajectory, Consuming, Commands, Waiting
  <2>2. ChunkLen > 0
    <3>1. ChunkCapacity > 0
      BY CapacityAssumption
    <3> QED
      BY <2>1, <3>1 DEF ChunkLen
  <2> QED
    BY <1>3, <2>1, <2>2 DEF ChunkCarriesWork
<1>4. CASE ExecuteFrame
  BY <1>4 DEF ExecuteFrame, pluginVars, interfaceVars
<1>5. CASE DrainLatchesFault
  <2>1. UNCHANGED command /\ ackSequence' \in {ackSequence, command.seq}
    BY <1>5 DEF DrainLatchesFault, ReturnFromDrain, Acknowledge
  <2> QED
    BY <1>5, <2>1
    DEF DrainLatchesFault, AbortTransfer, ClearTransfer, ResetCompletionTracking, Drop,
        DriveFault, firmwareVars, Wipes, UnexecutedIds
<1>6. CASE WriteFails
  <2>1. group' \in {group, "STOPPING_ERROR"} /\ UNCHANGED frames
    BY <1>6 DEF WriteFails, EStop, EStopThrows
  <2> QED
    BY <1>6, <2>1
    DEF WriteFails, AbortTransfer, ClearTransfer, ResetCompletionTracking, Drop,
        WriteFault, Wipes, UnexecutedIds
<1>7. CASE AppendOverflows
  <2>1. /\ group' \in {group, "ERROR"} /\ frames' = <<>> /\ ackSequence' = command.seq
        /\ UNCHANGED command
    BY <1>7 DEF AppendOverflows, AbortGroup, Acknowledge
  <2>2. dropped' \subseteq dropped \cup UnexecutedIds
    BY <1>7 DEF AppendOverflows, Drop, UnexecutedIds, WaitingChunkIds, Consuming
  <2> QED
    BY <1>7, <2>1, <2>2
    DEF AppendOverflows, ClearTransfer, ResetCompletionTracking, QueueOverflow, Wipes
<1>8. CASE HandleStop
  <2>1. /\ group' \in {group, "STOPPING_ERROR"} /\ UNCHANGED <<frames, command>>
        /\ ackSequence' = command.seq
    BY <1>8 DEF HandleStop, EStop, EStopThrows, Acknowledge
  <2> QED
    BY <1>8, <2>1
    DEF HandleStop, ClearTransfer, ResetCompletionTracking, Drop, Wipes, Consuming, Waiting,
        UnexecutedIds
<1>9. CASE HandleReset
  <2>1. /\ \/ UNCHANGED <<group, frames>> /\ dropped' = dropped \cup QueuedIds
           \/ group' = "IDLE" /\ frames' = <<>> /\ dropped' = dropped \cup QueuedIds \cup FrameIds
        /\ ackSequence' = command.seq /\ UNCHANGED command
    BY <1>9 DEF HandleReset, ClearFaults, Drop, firmwareVars, Acknowledge
  <2> QED
    BY <1>9, <2>1
    DEF HandleReset, ClearTransfer, ResetCompletionTracking, Wipes, Consuming, Waiting, UnexecutedIds
<1>10. CASE HandleAbort
  BY <1>10 DEF HandleAbort, Consuming, Commands
<1>11. /\ ReturnFromDrain => Acked
       /\ (ReturnFromDrain \/ UNCHANGED <<turn, ackSequence>>) /\ UNCHANGED command => SlotKept
  <2>1. ackSequence \in Nat /\ command.seq \in Nat
    BY DEF TypeOK, InterfaceTypeOK, Command
  <2> QED
    BY <2>1
    DEF ReturnFromDrain, Acknowledge, SlotKept, SlotFrames, Waiting, CommandWaiting, ChunkLen, MailboxKept
<1>12. CASE FeedNext
  <2>1. UNCHANGED command /\ (ReturnFromDrain \/ UNCHANGED <<turn, ackSequence>>)
    BY <1>12 DEF FeedNext
  <2> QED
    BY <1>11, <1>12, <2>1
<1>13. CASE DrainClearsCommandedStop \/ DrainClearsStopped
  <2>1. ReturnFromDrain /\ UNCHANGED command
    BY <1>13 DEF DrainClearsCommandedStop, DrainClearsStopped
  <2>2. Clears
    BY <1>13
    DEF DrainClearsCommandedStop, DrainClearsStopped, CommandedStopSettled, TransferPending,
        ClearFaults, Drop, Clears
  <2> QED
    BY <1>11, <2>1, <2>2
<1>14. CASE DrainHolds \/ FeedEnds
  <2>1. ReturnFromDrain /\ UNCHANGED command
    BY <1>14 DEF DrainHolds, FeedEnds
  <2>2. Idles
    BY <1>14 DEF DrainHolds, FeedEnds, firmwareVars, Idles
  <2> QED
    BY <1>11, <2>1, <2>2
<1>15. CASE ReadFails \/ DrainStarts
  BY <1>15
  DEF ReadFails, DrainStarts, Draining, firmwareVars, Idles, SlotKept, SlotFrames, Waiting,
      CommandWaiting, ChunkLen
<1>16. CASE NothingToConsume \/ ConsumeNone
  <2>1. UNCHANGED command /\ Acked /\ UNCHANGED <<errorCode, completedId, hardwareVars>>
    BY <1>16 DEF NothingToConsume, ConsumeNone, Acknowledge
  <2>2. Idles
    BY <2>1 DEF Idles, hardwareVars, firmwareVars
  <2>3. SlotFrames' = 0 /\ ~Waiting("Begin")
    BY <1>16, <2>1 DEF NothingToConsume, ConsumeNone, Consuming, SlotFrames, Waiting, CommandWaiting,
                     Acknowledge
  <2> QED
    BY <2>1, <2>2, <2>3 DEF SlotKept
<1>17. CASE MotionDone \/ OutOfFrames \/ DriveTrips \/ GroupSettles
  BY <1>17
  DEF MotionDone, OutOfFrames, DriveTrips, GroupSettles, FirmwareFault, pluginVars, interfaceVars,
      Idles, SlotKept, SlotFrames, Waiting, CommandWaiting, ChunkLen
<1>18. CASE OperatorClearsFaults
  BY <1>18
  DEF OperatorClearsFaults, ClearFaults, Drop, TransferPending, pluginVars, interfaceVars,
      Clears, SlotKept, SlotFrames, Waiting, CommandWaiting, ChunkLen
<1>19. CASE ExternalStop
  BY <1>19 DEF ExternalStop
<1> QED
  BY <1>1, <1>2, <1>3, <1>4, <1>5, <1>6, <1>7, <1>8, <1>9, <1>10, <1>12, <1>13, <1>14, <1>15,
     <1>16, <1>17, <1>18, <1>19
  DEF HardwareStep, WriteStep, FirmwareStep

\* read() takes the thresholds the firmware has passed from the front.
LEMMA ReadPasses ==
    ASSUME TypeOK, Read
    PROVE  \E n \in 0 .. Len(trajectoryCompletions) :
              /\ \A i \in 1 .. n : trajectoryCompletions[i].frames <= ExecutedFrames
              /\ Len(trajectoryCompletions') = Len(trajectoryCompletions) - n
              /\ \A i \in 1 .. Len(trajectoryCompletions) - n :
                    trajectoryCompletions'[i] = trajectoryCompletions[n + i]
              /\ completedId' = IF n = 0 THEN completedId ELSE trajectoryCompletions[n].id
<1> DEFINE T == trajectoryCompletions
<1>1. T \in Seq(Completion) /\ Len(T) \in Nat
  BY LenProperties DEF TypeOK, HardwareTypeOK
<1>2. PICK n \in 0 .. Len(T) :
        /\ \A i \in 1 .. n : T[i].frames <= ExecutedFrames
        /\ T' = SubSeq(T, n + 1, Len(T))
        /\ completedId' = IF n = 0 THEN completedId ELSE T[n].id
  BY DEF Read, UpdateCompletion, NewestRetired
<1>3. Len(T') = Len(T) - n /\ \A i \in 1 .. Len(T) - n : T'[i] = T[n + i]
  <2> DEFINE u == SubSeq(T, n + 1, Len(T))
  <2> HIDE DEF T
  <2>1. \A k \in n + 1 .. Len(T) : T[k] \in Completion
    BY <1>1, ElementOfSeq
  <2>2. n + 1 \in Int /\ Len(T) \in Int
    BY <1>1
  <2>3. /\ Len(u) = IF n + 1 <= Len(T) THEN Len(T) - (n + 1) + 1 ELSE 0
        /\ \A k \in 1 .. Len(T) - (n + 1) + 1 : u[k] = T[(n + 1) + k - 1]
    BY <2>1, <2>2, SubSeqProperties
  <2> HIDE DEF u
  <2>4. Len(u) = Len(T) - n
    BY <1>1, <2>3
  <2>5. ASSUME NEW i \in 1 .. Len(T) - n
        PROVE  u[i] = T[n + i]
    <3>1. i \in 1 .. Len(T) - (n + 1) + 1 /\ (n + 1) + i - 1 = n + i
      BY <1>1
    <3> QED
      BY <2>3, <3>1
  <2>6. T' = u
    BY <1>2 DEF T, u
  <2> QED
    BY <2>4, <2>5, <2>6
<1> QED
  BY <1>2, <1>3

\* A chunk that is fed leaves the front of the FIFO and its frames, with those
\* the firmware may add, come last in the buffer.
LEMMA FeedMoves ==
    ASSUME TypeOK, FeedNext
    PROVE  /\ Len(excessChunks) \in Nat \ {0} /\ Len(excessChunks') = Len(excessChunks) - 1
           /\ \A l \in 1 .. Len(excessChunks) - 1 : excessChunks'[l] = excessChunks[l + 1]
           /\ excessChunks[1] \in Chunk
           /\ totalFramesFed' = IF excessChunks[1].id = 0 THEN totalFramesFed
                                ELSE totalFramesFed + 2 * excessChunks[1].len
           /\ Len(frames) \in Nat /\ Len(frames') \in Nat
           /\ Len(frames') >= Len(frames) + 2 * excessChunks[1].len
           /\ \A k \in 1 .. Len(frames) : frames'[k] = frames[k]
           /\ \A k \in Len(frames) + 1 .. Len(frames') : frames'[k] \in {excessChunks[1].id, Closing}
<1> DEFINE q == excessChunks
           chunk == Head(q)
<1>1. q \in Seq(Chunk) /\ q # <<>> /\ frames \in Seq(Int)
  BY DEF TypeOK, HardwareTypeOK, FeedNext, HeadFits
<1>2. /\ Len(q) \in Nat \ {0} /\ Len(q') = Len(q) - 1
      /\ \A l \in 1 .. Len(q) - 1 : q'[l] = q[l + 1]
      /\ chunk = q[1] /\ chunk \in Chunk
  <2>1. q' = Tail(q)
    BY DEF FeedNext
  <2> HIDE DEF q
  <2>2. Len(q) \in Nat /\ (Len(q) = 0 => q = <<>>)
    BY <1>1, EmptySeq, LenProperties
  <2>3. /\ Tail(q) \in Seq(Chunk) /\ Len(Tail(q)) = Len(q) - 1
        /\ \A l \in 1 .. Len(Tail(q)) : Tail(q)[l] = q[l + 1]
        /\ Head(q) = q[1] /\ Head(q) \in Chunk
    BY <1>1, HeadTailProperties
  <2> QED
    BY <1>1, <2>1, <2>2, <2>3
<1> HIDE DEF q
<1>3. chunk.len \in Nat /\ chunk.id \in Nat
  BY <1>2 DEF Chunk
<1>4. totalFramesFed' = IF chunk.id = 0 THEN totalFramesFed ELSE totalFramesFed + 2 * chunk.len
  BY DEF FeedNext, NeededFrames, q
<1>5. PICK extra \in 0 .. ClosingFrames :
        frames' = frames \o [i \in 1 .. 2 * chunk.len |-> chunk.id] \o [i \in 1 .. extra |-> Closing]
  BY DEF FeedNext, MovePVT, NeededFrames, q
<1> HIDE DEF chunk
<1> DEFINE fed == [i \in 1 .. 2 * chunk.len |-> chunk.id]
           added == [i \in 1 .. extra |-> Closing]
           front == frames \o fed
<1>6. extra \in Nat /\ 2 * chunk.len \in Nat /\ Closing \in Int
  BY <1>3, FirmwareAssumption DEF Closing
<1>7. fed \in Seq(Int) /\ Len(fed) = 2 * chunk.len /\ \A k \in 1 .. 2 * chunk.len : fed[k] = chunk.id
  <2>1. fed \in [1 .. 2 * chunk.len -> Int]
    BY <1>3
  <2>2. fed \in Seq(Int) /\ DOMAIN fed = 1 .. 2 * chunk.len
    BY <1>6, <2>1, IsASeq
  <2> QED
    BY <1>6, <2>2, LenProperties
<1>8. added \in Seq(Int) /\ Len(added) = extra /\ \A k \in 1 .. extra : added[k] = Closing
  <2>1. added \in [1 .. extra -> Int]
    BY <1>6
  <2>2. added \in Seq(Int) /\ DOMAIN added = 1 .. extra
    BY <1>6, <2>1, IsASeq
  <2> QED
    BY <1>6, <2>2, LenProperties
<1> HIDE DEF fed, added
<1>9. /\ front \in Seq(Int) /\ Len(front) = Len(frames) + Len(fed)
      /\ \A k \in 1 .. Len(frames) + Len(fed) :
            front[k] = IF k <= Len(frames) THEN frames[k] ELSE fed[k - Len(frames)]
  BY <1>1, <1>7, ConcatProperties
<1> HIDE DEF front
<1>10. /\ Len(front \o added) = Len(front) + Len(added)
       /\ \A k \in 1 .. Len(front) + Len(added) :
             (front \o added)[k] = IF k <= Len(front) THEN front[k] ELSE added[k - Len(front)]
  BY <1>8, <1>9, ConcatProperties
<1>11. frames' = front \o added
  BY <1>5 DEF front, fed, added
<1>12. Len(frames) \in Nat
  BY <1>1, LenProperties
<1>13. Len(frames') = Len(frames) + 2 * chunk.len + extra
  BY <1>7, <1>8, <1>9, <1>10, <1>11
<1>14. ASSUME NEW k \in 1 .. Len(frames)
       PROVE  frames'[k] = frames[k]
  <2>1. k \in 1 .. Len(frames) + Len(fed) /\ k <= Len(frames) /\ k <= Len(front)
        /\ k \in 1 .. Len(front) + Len(added)
    BY <1>6, <1>7, <1>8, <1>9, <1>12
  <2> QED
    BY <1>9, <1>10, <1>11, <2>1
<1>15. ASSUME NEW k \in Len(frames) + 1 .. Len(frames')
       PROVE  frames'[k] \in {chunk.id, Closing}
  <2>1. CASE k <= Len(front)
    <3>1. /\ k \in 1 .. Len(frames) + Len(fed) /\ ~(k <= Len(frames))
          /\ k \in 1 .. Len(front) + Len(added) /\ k - Len(frames) \in 1 .. 2 * chunk.len
      BY <1>6, <1>7, <1>8, <1>9, <1>12, <1>13, <2>1
    <3> QED
      BY <1>7, <1>9, <1>10, <1>11, <2>1, <3>1
  <2>2. CASE ~(k <= Len(front))
    <3>1. k \in 1 .. Len(front) + Len(added) /\ k - Len(front) \in 1 .. extra
      <4>1. /\ Len(front) \in Nat /\ Len(frames') = Len(front) + extra /\ Len(added) = extra
            /\ k \in Int /\ k <= Len(frames') /\ k >= 1
        BY <1>6, <1>7, <1>8, <1>9, <1>12, <1>13
      <4> QED
        BY <1>6, <2>2, <4>1
    <3> QED
      BY <1>8, <1>10, <1>11, <2>2, <3>1
  <2> QED
    BY <2>1, <2>2
<1>16. Len(frames') \in Nat /\ Len(frames') >= Len(frames) + 2 * chunk.len
  BY <1>6, <1>12, <1>13
<1>17. chunk = q[1]
  BY <1>2
<1> QED
  BY <1>2, <1>4, <1>12, <1>14, <1>15, <1>16, <1>17 DEF q

\* A chunk that is appended comes last.
LEMMA AppendMoves ==
    ASSUME TypeOK, AppendTrajectory, ChunkCarriesWork
    PROVE  /\ Len(excessChunks) \in Nat /\ Len(excessChunks') = Len(excessChunks) + 1
           /\ \A l \in 1 .. Len(excessChunks) : excessChunks'[l] = excessChunks[l]
           /\ excessChunks'[Len(excessChunks) + 1].id = currentTrajectoryId
           /\ excessChunks'[Len(excessChunks) + 1].len = ChunkLen
<1> DEFINE q == excessChunks
           c == [id |-> currentTrajectoryId, len |-> ChunkLen, final |-> command.final]
<1>1. q \in Seq(Chunk)
  BY DEF TypeOK, HardwareTypeOK
<1>2. c \in Chunk /\ c.id = currentTrajectoryId /\ c.len = ChunkLen
  <2>1. currentTrajectoryId \in Nat /\ command.final \in BOOLEAN
    BY DEF TypeOK, HardwareTypeOK, InterfaceTypeOK, Command
  <2>2. ChunkLen \in Nat
    BY CapacityAssumption DEF ChunkLen, TypeOK, InterfaceTypeOK, Command
  <2> QED
    BY <2>1, <2>2 DEF Chunk
<1>3. q' = Append(q, c)
  BY DEF AppendTrajectory
<1> HIDE DEF q, c
<1>4. /\ Len(q') = Len(q) + 1 /\ q'[Len(q) + 1] = c
      /\ \A l \in 1 .. Len(q) : q'[l] = q[l]
  BY <1>1, <1>2, <1>3, AppendProperties
<1>5. Len(q) \in Nat
  BY <1>1, LenProperties
<1> QED
  BY <1>2, <1>4, <1>5 DEF q

\* The firmware executes the oldest frame.
LEMMA ExecuteMoves ==
    ASSUME TypeOK, ExecuteFrame
    PROVE  /\ Len(frames) \in Nat \ {0} /\ Len(frames') = Len(frames) - 1
           /\ \A k \in 1 .. Len(frames) - 1 : frames'[k] = frames[k + 1]
<1>1. frames \in Seq(Int) /\ frames # <<>> /\ frames' = Tail(frames)
  BY DEF TypeOK, HardwareTypeOK, ExecuteFrame
<1>2. Len(frames) \in Nat /\ (Len(frames) = 0 => frames = <<>>)
  BY <1>1, EmptySeq, LenProperties
<1>3. /\ Len(Tail(frames)) = Len(frames) - 1
      /\ \A k \in 1 .. Len(Tail(frames)) : Tail(frames)[k] = frames[k + 1]
  BY <1>1, HeadTailProperties
<1> QED
  BY <1>1, <1>2, <1>3

-------------------------------------------------------------------------------
(* Which ids are about, and which goals have lost a point.                 *)

\* The trajectories of which something is still on its way, or was discarded.
ThresholdIds == {trajectoryCompletions[i].id : i \in 1 .. Len(trajectoryCompletions)}

BeginIds == IF Waiting("Begin") THEN {command.id} ELSE {}

Live == ThresholdIds \cup BeginIds \cup UnexecutedIds \cup dropped

\* Frames left behind by a transfer that was forgotten are never executed for
\* it: they are cleared with the group's faults.
Lost == dropped \cup (IF totalFramesFed = 0 THEN FrameIds ELSE {})

\* The plugin and the firmware only pass ids on, and lose no point of a goal
\* without latching a fault.
LEMMA HardwareIds ==
    ASSUME TypeOK, MailboxKept, ExternalStops = FALSE, group \notin {"STOPPING", "STOPPED"},
           Commands, HardwareStep,
           FeedNext => totalFramesFed' > 0,
           ~transferMoveOpen => totalFramesFed = 0
    PROVE  /\ Live' \subseteq Live \cup {0, Closing}
           /\ currentTrajectoryId' \in Live \cup {0, currentTrajectoryId}
           /\ errorCode' = 0 => \/ Waiting("Stop") \/ Waiting("Reset")
                               \/ (errorCode = 0 /\ Lost' \subseteq Lost)
<1> DEFINE T == trajectoryCompletions
           Q == excessChunks
<1>1. /\ T \in Seq(Completion) /\ Q \in Seq(Chunk) /\ frames \in Seq(Int)
      /\ T' = <<>> => Len(T') = 0
      /\ Len(T) \in Nat /\ Len(Q) \in Nat /\ Len(frames) \in Nat
      /\ DOMAIN Q = 1 .. Len(Q) /\ DOMAIN frames = 1 .. Len(frames)
      /\ ackSequence \in Nat /\ command.seq \in Nat
  BY LenProperties, EmptySeq DEF TypeOK, HardwareTypeOK, InterfaceTypeOK, Command
<1>2. /\ QueuedIds = {Q[l].id : l \in 1 .. Len(Q)}
      /\ FrameIds = {frames[k] : k \in 1 .. Len(frames)}
  BY <1>1 DEF QueuedIds, FrameIds
<1>3. UNCHANGED command /\ Acked
  BY HardwareMoves
<1>4. \A t \in Token : Waiting(t)' => Waiting(t)
  BY <1>1, <1>3 DEF Acked, Waiting, CommandWaiting
<1>5. BeginIds' \subseteq BeginIds
  BY <1>3, <1>4 DEF BeginIds, Token
<1>6. WaitingChunkIds' \subseteq WaitingChunkIds \cup {0}
      \/ ~(currentTrajectoryId' \in {0, currentTrajectoryId})
  BY <1>3, <1>4 DEF WaitingChunkIds, Waiting, Token
<1> HIDE DEF T, Q
<1>7. CASE Read
  <2>1. PICK n \in 0 .. Len(T) :
          /\ Len(T') = Len(T) - n /\ \A i \in 1 .. Len(T) - n : T'[i] = T[n + i]
    BY <1>7, ReadPasses DEF T
  <2>2. ThresholdIds' \subseteq ThresholdIds
    <3>1. \A i \in 1 .. Len(T') : n + i \in 1 .. Len(T) /\ T'[i] = T[n + i]
      BY <1>1, <2>1
    <3> QED
      BY <3>1 DEF ThresholdIds, T
  <2>3. UNCHANGED <<errorCode, currentTrajectoryId, totalFramesFed, Q, frames, dropped>>
    BY <1>7 DEF Read, queueVars, firmwareVars, Q
  <2>4. UNCHANGED <<QueuedIds, FrameIds>>
    BY <2>3 DEF QueuedIds, FrameIds, Q
  <2> QED
    BY <1>5, <1>6, <2>2, <2>3, <2>4 DEF Live, UnexecutedIds, Lost
<1>8. CASE BeginTrajectoryTransfer
  <2>1. Waiting("Begin") /\ ~(Waiting("AppendChunk"))' /\ currentTrajectoryId' = command.id
    BY <1>1, <1>3, <1>8 DEF BeginTrajectoryTransfer, Consuming, Acknowledge, Waiting, CommandWaiting
  <2>2. ThresholdIds' \subseteq ThresholdIds \cup BeginIds
    <3>1. CASE command.size > 0
      <4> DEFINE c == [id |-> command.id, frames |-> cumulativeExpectedFrames']
      <4>1. c \in Completion /\ c.id = command.id
        <5>1. command.id \in Nat /\ command.size \in Int /\ cumulativeExpectedFrames \in Nat
          BY DEF TypeOK, HardwareTypeOK, InterfaceTypeOK, Command
        <5>2. cumulativeExpectedFrames' = cumulativeExpectedFrames + 2 * command.size
          BY <1>8, <3>1 DEF BeginTrajectoryTransfer, Sized
        <5> QED
          BY <3>1, <5>1, <5>2 DEF Completion
      <4>2. T' = Append(T, c)
        BY <1>8, <3>1 DEF BeginTrajectoryTransfer, Sized, T
      <4> HIDE DEF c
      <4>3. Len(T') = Len(T) + 1 /\ T'[Len(T) + 1] = c /\ \A i \in 1 .. Len(T) : T'[i] = T[i]
        BY <1>1, <4>1, <4>2, AppendProperties
      <4>4. ASSUME NEW i \in 1 .. Len(T')
            PROVE  T'[i].id = command.id \/ (i \in 1 .. Len(T) /\ T'[i] = T[i])
        <5>1. i \in 1 .. Len(T) \/ i = Len(T) + 1
          BY <1>1, <4>3
        <5>2. \A k : k = Len(T) + 1 => T'[k] = c
          BY <4>3, Zenon
        <5>3. CASE i = Len(T) + 1
          BY <4>1, <5>2, <5>3, Zenon
        <5> QED
          BY <4>3, <5>1, <5>3
      <4> QED
        BY <2>1, <4>4 DEF ThresholdIds, BeginIds, T
    <3>2. CASE ~(command.size > 0)
      <4>1. UNCHANGED T
        BY <1>8, <3>2 DEF BeginTrajectoryTransfer, Sized, T
      <4> QED
        BY <4>1 DEF ThresholdIds, T
    <3> QED
      BY <3>1, <3>2
  <2>3. UNCHANGED <<errorCode, totalFramesFed, Q, frames, dropped>>
    BY <1>8 DEF BeginTrajectoryTransfer, firmwareVars, Q
  <2>4. UNCHANGED <<QueuedIds, FrameIds>> /\ WaitingChunkIds' = {}
    BY <2>1, <2>3 DEF QueuedIds, FrameIds, Q, WaitingChunkIds, Waiting
  <2>5. currentTrajectoryId' \in BeginIds
    BY <2>1 DEF BeginIds
  <2> QED
    BY <1>5, <2>2, <2>3, <2>4, <2>5 DEF Live, UnexecutedIds, Lost
<1>9. CASE Wipes
  <2>1. /\ Q' = <<>> /\ T' = <<>> /\ currentTrajectoryId' = 0
        /\ frames' \in {frames, <<>>} /\ dropped' \subseteq dropped \cup UnexecutedIds
        /\ errorCode' # 0 \/ Waiting("Stop") \/ Waiting("Reset")
    BY <1>9 DEF Wipes, Q, T
  <2>2. ThresholdIds' = {}
    BY <1>1, <2>1, EmptySeq DEF ThresholdIds, T
  <2>3. QueuedIds' = {} /\ FrameIds' \subseteq FrameIds
    BY <2>1, EmptySeq DEF QueuedIds, FrameIds, Q
  <2>4. WaitingChunkIds' \subseteq {0}
    BY <2>1 DEF WaitingChunkIds
  <2>5. Live' \subseteq Live \cup {0}
    BY <1>5, <2>1, <2>2, <2>3, <2>4 DEF Live, UnexecutedIds
  <2>6. currentTrajectoryId' \in Live \cup {0, currentTrajectoryId}
    BY <2>1
  <2>7. Live' \subseteq Live \cup {0, Closing}
    BY <2>5
  <2>8. errorCode' = 0 => Waiting("Stop") \/ Waiting("Reset")
    BY <2>1
  <2> QED
    BY <2>6, <2>7, <2>8
<1>10. CASE AppendTrajectory /\ ChunkCarriesWork
  <2>1. /\ Len(Q') = Len(Q) + 1 /\ Q'[Len(Q) + 1].id = currentTrajectoryId
        /\ \A l \in 1 .. Len(Q) : Q'[l] = Q[l]
    BY <1>10, AppendMoves DEF Q
  <2>2. /\ UNCHANGED <<errorCode, completionVars, frames, dropped>>
        /\ Waiting("AppendChunk")
    BY <1>10 DEF AppendTrajectory, firmwareVars, Consuming, Waiting
  <2>3. QueuedIds' \subseteq QueuedIds \cup WaitingChunkIds
    <3>1. Q' \in Seq(Chunk)
      <4>1. [id |-> currentTrajectoryId, len |-> ChunkLen, final |-> command.final] \in Chunk
        <5>1. currentTrajectoryId \in Nat /\ command.final \in BOOLEAN /\ ChunkLen \in Nat
          BY CapacityAssumption DEF ChunkLen, TypeOK, HardwareTypeOK, InterfaceTypeOK, Command
        <5> QED
          BY <5>1 DEF Chunk
      <4>2. Q' = Append(Q, [id |-> currentTrajectoryId, len |-> ChunkLen, final |-> command.final])
        BY <1>10 DEF AppendTrajectory, Q
      <4> QED
        BY <1>1, <4>1, <4>2, AppendProperties
    <3>2. DOMAIN Q' = 1 .. Len(Q')
      BY <3>1, LenProperties
    <3>3. ASSUME NEW l \in DOMAIN Q'
          PROVE  Q'[l].id = currentTrajectoryId \/ (l \in DOMAIN Q /\ Q'[l] = Q[l])
      <4>1. l \in 1 .. Len(Q) \/ l = Len(Q) + 1
        BY <1>1, <2>1, <3>2
      <4>2. CASE l = Len(Q) + 1
        <5>1. \A k : k = Len(Q) + 1 => Q'[k].id = currentTrajectoryId
          BY <2>1, Zenon
        <5> QED
          BY <4>2, <5>1, Zenon
      <4> QED
        BY <1>1, <2>1, <4>1, <4>2
    <3> QED
      BY <2>2, <3>3 DEF QueuedIds, WaitingChunkIds, Waiting, Q
  <2>4. UNCHANGED <<ThresholdIds, FrameIds, Lost>> /\ UNCHANGED currentTrajectoryId
    BY <2>2 DEF ThresholdIds, FrameIds, Lost, completionVars
  <2> QED
    BY <1>5, <1>6, <2>2, <2>3, <2>4 DEF Live, UnexecutedIds
<1>11. CASE FeedNext
  <2>1. /\ \A l \in 1 .. Len(Q) - 1 : Q'[l] = Q[l + 1]
        /\ Len(Q) \in Nat \ {0} /\ Len(Q') = Len(Q) - 1
        /\ Len(frames') \in Nat
        /\ \A k \in 1 .. Len(frames) : frames'[k] = frames[k]
        /\ \A k \in Len(frames) + 1 .. Len(frames') : frames'[k] \in {Q[1].id, Closing}
    BY <1>11, FeedMoves DEF Q
  <2>2. UNCHANGED <<errorCode, T, currentTrajectoryId, dropped>>
    BY <1>11 DEF FeedNext, T
  <2>3. Q' \in Seq(Chunk) /\ frames' \in Seq(Int)
    <3>1. Q' = Tail(Q) /\ Q # <<>>
      BY <1>11 DEF FeedNext, HeadFits, Q
    <3>2. Q' \in Seq(Chunk)
      BY <1>1, <3>1, HeadTailProperties
    <3>3. Head(Q) \in Chunk
      BY <1>1, <3>1, HeadTailProperties
    <3>4. FirmwareTypes
      BY <1>11, <3>3, CallTypes
      DEF FeedNext, Q, HardwareTypes, TypeOK, InterfaceTypeOK, HardwareTypeOK
    <3> QED
      BY <3>2, <3>4 DEF FirmwareTypes
  <2>4. DOMAIN Q' = 1 .. Len(Q') /\ DOMAIN frames' = 1 .. Len(frames')
    BY <2>3, LenProperties
  <2>5. QueuedIds' \subseteq QueuedIds
    <3>1. \A l \in DOMAIN Q' : l + 1 \in DOMAIN Q /\ Q'[l] = Q[l + 1]
      BY <1>1, <2>1, <2>4
    <3> QED
      BY <3>1 DEF QueuedIds, Q
  <2>6. FrameIds' \subseteq FrameIds \cup QueuedIds \cup {Closing}
    <3>1. 1 \in DOMAIN Q
      BY <1>1, <2>1
    <3>2. \A k \in DOMAIN frames' : k \in DOMAIN frames \/ k \in Len(frames) + 1 .. Len(frames')
      BY <1>1, <2>1, <2>4
    <3>3. \A k \in DOMAIN frames' :
             (k \in DOMAIN frames /\ frames'[k] = frames[k]) \/ frames'[k] \in {Q[1].id, Closing}
      BY <1>1, <2>1, <3>2
    <3> QED
      BY <3>1, <3>3 DEF QueuedIds, FrameIds, Q
  <2>7. UNCHANGED ThresholdIds
    BY <2>2 DEF ThresholdIds, T
  <2>8. Lost' \subseteq Lost
    <3>1. totalFramesFed' # 0
      BY <1>11
    <3> QED
      BY <2>2, <3>1 DEF Lost
  <2> QED
    BY <1>5, <1>6, <2>2, <2>5, <2>6, <2>7, <2>8 DEF Live, UnexecutedIds
<1>12. CASE ExecuteFrame
  <2>1. /\ Len(frames) \in Nat \ {0} /\ Len(frames') = Len(frames) - 1
        /\ \A k \in 1 .. Len(frames) - 1 : frames'[k] = frames[k + 1]
    BY <1>12, ExecuteMoves
  <2>2. /\ UNCHANGED <<errorCode, T, Q, currentTrajectoryId, totalFramesFed, dropped>>
        /\ frames' = Tail(frames) /\ frames # <<>>
    BY <1>12 DEF ExecuteFrame, pluginVars, interfaceVars, queueVars, completionVars, T, Q
  <2>3. FrameIds' \subseteq FrameIds
    <3>1. frames' \in Seq(Int)
      BY <1>1, <2>2, HeadTailProperties
    <3>2. DOMAIN frames' = 1 .. Len(frames')
      BY <3>1, LenProperties
    <3>3. \A k \in DOMAIN frames' : k + 1 \in DOMAIN frames /\ frames'[k] = frames[k + 1]
      BY <1>1, <2>1, <3>2
    <3> QED
      BY <3>3 DEF FrameIds
  <2>4. UNCHANGED <<ThresholdIds, QueuedIds>>
    BY <2>2 DEF ThresholdIds, QueuedIds, T, Q
  <2> QED
    BY <1>5, <1>6, <2>2, <2>3, <2>4 DEF Live, UnexecutedIds, Lost
<1>13. CASE Clears \/ Idles
  <2>1. /\ UNCHANGED <<errorCode, T, Q, currentTrajectoryId, totalFramesFed>>
    BY <1>13 DEF Clears, Idles, queueVars, completionVars, T, Q
  <2>2. UNCHANGED <<ThresholdIds, QueuedIds>>
    BY <2>1 DEF ThresholdIds, QueuedIds, T, Q
  <2>3. CASE Clears
    <3>1. frames' = <<>> /\ dropped' = dropped \cup FrameIds /\ totalFramesFed = 0
      BY <2>3 DEF Clears
    <3>2. FrameIds' = {}
      BY <3>1, EmptySeq DEF FrameIds
    <3> QED
      BY <1>5, <1>6, <2>1, <2>2, <3>1, <3>2 DEF Live, UnexecutedIds, Lost
  <2>4. CASE Idles
    <3>1. UNCHANGED <<frames, dropped>>
      BY <2>4 DEF Idles
    <3>2. UNCHANGED FrameIds
      BY <3>1 DEF FrameIds
    <3> QED
      BY <1>5, <1>6, <2>1, <2>2, <3>1, <3>2 DEF Live, UnexecutedIds, Lost
  <2> QED
    BY <1>13, <2>3, <2>4
<1> QED
  BY <1>7, <1>8, <1>9, <1>10, <1>11, <1>12, <1>13, HardwareMoves

-------------------------------------------------------------------------------
(* The frames the plugin counts: fed, in the FIFO, in the slot and owed.   *)

\* A group at rest holds no frames, and only its own e-stop stops it.
Rest ==
    /\ group \notin {"STOPPING", "STOPPED"}
    /\ group = "IDLE" => frames = <<>>

\* The points of the goal being fed that have not been emitted; a BEGIN in the
\* slot has not announced them yet.
PointsOwed ==
    IF feeding = NoGoal \/ Waiting("Begin") THEN 0 ELSE Points[feeding] - nextIndex

\* The counters are those of one move: fed from zero, nothing fed under a
\* fault, and the newest threshold is of the trajectory that is not fed yet.
Counted ==
    /\ totalFramesFed = 0 => completedId = 0 /\ firstChunk
    /\ errorCode # 0 => totalFramesFed = 0
    /\ totalFramesFed < cumulativeExpectedFrames =>
          /\ Len(trajectoryCompletions) > 0
          /\ trajectoryCompletions[Len(trajectoryCompletions)].id = currentTrajectoryId
          /\ trajectoryCompletions[Len(trajectoryCompletions)].frames = cumulativeExpectedFrames
    /\ cumulativeExpectedFrames > 0 => transferMoveOpen

\* F[l] is the number of frames fed once the l oldest chunks are; none goes
\* beyond the threshold of its trajectory, and all that is owed is expected.
FedAfter(F) ==
    /\ F[0] = totalFramesFed
    /\ \A l \in 1 .. Len(excessChunks) :
          /\ excessChunks[l].len > 0
          /\ F[l] = F[l - 1] + 2 * excessChunks[l].len
          /\ \E i \in 1 .. Len(trajectoryCompletions) :
                /\ trajectoryCompletions[i].id = excessChunks[l].id
                /\ F[l] <= trajectoryCompletions[i].frames
    /\ \A l, m \in 0 .. Len(excessChunks) : l < m => F[l] < F[m]
    /\ F[Len(excessChunks)] + SlotFrames + 2 * PointsOwed <= cumulativeExpectedFrames

\* Without a fault the frames add up.
Accounted == errorCode = 0 => \E F \in [0 .. Len(excessChunks) -> Nat] : FedAfter(F)

\* A frame the firmware has not executed is one that it added, or of a
\* trajectory whose threshold lies behind it.
Covered ==
    errorCode = 0 /\ totalFramesFed > 0 =>
        \A k \in 1 .. Len(frames) :
            \/ frames[k] = Closing
            \/ \E i \in 1 .. Len(trajectoryCompletions) :
                  /\ trajectoryCompletions[i].id = frames[k]
                  /\ trajectoryCompletions[i].frames + Len(frames) >= totalFramesFed + k

\* Together they say what the counters are worth.
Flow == ThresholdsAscend /\ Rest /\ Counted /\ Accounted /\ Covered

\* The types the arithmetic needs.
LEMMA FlowTypes ==
    ASSUME TypeOK, PointsLeft
    PROVE  /\ trajectoryCompletions \in Seq(Completion) /\ Len(trajectoryCompletions) \in Nat
           /\ DOMAIN trajectoryCompletions = 1 .. Len(trajectoryCompletions)
           /\ \A i \in 1 .. Len(trajectoryCompletions) :
                 trajectoryCompletions[i].id \in Nat /\ trajectoryCompletions[i].frames \in Nat
           /\ excessChunks \in Seq(Chunk) /\ Len(excessChunks) \in Nat
           /\ \A l \in 1 .. Len(excessChunks) :
                 excessChunks[l].id \in Nat /\ excessChunks[l].len \in Nat
           /\ frames \in Seq(Int) /\ Len(frames) \in Nat
           /\ \A k \in 1 .. Len(frames) : frames[k] \in Int
           /\ totalFramesFed \in Nat /\ cumulativeExpectedFrames \in Nat
           /\ currentTrajectoryId \in Nat /\ completedId \in Nat
           /\ command \in Command /\ command.seq \in Nat /\ command.len \in Nat /\ ackSequence \in Nat
           /\ ChunkLen \in Nat /\ SlotFrames \in Nat /\ PointsOwed \in Nat
           /\ ExecutedFrames \in Nat
<1>1. /\ trajectoryCompletions \in Seq(Completion) /\ excessChunks \in Seq(Chunk)
      /\ frames \in Seq(Int)
  BY DEF TypeOK, HardwareTypeOK
<1>2. /\ Len(trajectoryCompletions) \in Nat
      /\ DOMAIN trajectoryCompletions = 1 .. Len(trajectoryCompletions)
      /\ \A i \in 1 .. Len(trajectoryCompletions) : trajectoryCompletions[i] \in Completion
  BY <1>1, LenProperties, ElementOfSeq
<1>3. Len(excessChunks) \in Nat /\ \A l \in 1 .. Len(excessChunks) : excessChunks[l] \in Chunk
  BY <1>1, LenProperties, ElementOfSeq
<1>4. Len(frames) \in Nat /\ \A k \in 1 .. Len(frames) : frames[k] \in Int
  BY <1>1, LenProperties, ElementOfSeq
<1>5. /\ totalFramesFed \in Nat /\ cumulativeExpectedFrames \in Nat
      /\ currentTrajectoryId \in Nat /\ completedId \in Nat
      /\ command \in Command /\ ackSequence \in Nat
  BY DEF TypeOK, HardwareTypeOK, InterfaceTypeOK
<1>6. command.seq \in Nat /\ command.len \in Nat
  BY <1>5 DEF Command
<1>7. ChunkLen \in Nat
  BY <1>6, CapacityAssumption DEF ChunkLen
<1>8. SlotFrames \in Nat
  BY <1>7 DEF SlotFrames
<1>9. PointsOwed \in Nat
  <2>1. feeding \in Goal \cup {NoGoal} /\ nextIndex \in Nat
    BY DEF TypeOK, ControllerTypeOK
  <2>2. CASE feeding = NoGoal \/ Waiting("Begin")
    BY <2>2 DEF PointsOwed
  <2>3. CASE ~(feeding = NoGoal \/ Waiting("Begin"))
    <3>1. Points[feeding] \in Nat
      BY <2>1, <2>3, GoalAssumption
    <3>2. nextIndex < Points[feeding]
      BY <2>3 DEF PointsLeft
    <3>3. Points[feeding] - nextIndex \in Nat
      BY <2>1, <3>1, <3>2
    <3> QED
      BY <2>3, <3>3 DEF PointsOwed
  <2> QED
    BY <2>2, <2>3
<1>10. \A c \in Completion : c.id \in Nat /\ c.frames \in Nat
  BY DEF Completion
<1>11. \A c \in Chunk : c.id \in Nat /\ c.len \in Nat
  BY DEF Chunk
<1>12. ExecutedFrames \in Nat
  BY <1>4, <1>5 DEF ExecutedFrames
<1> QED
  BY <1>1, <1>2, <1>3, <1>4, <1>5, <1>6, <1>7, <1>8, <1>9, <1>10, <1>11, <1>12

\* With no goal begun none is fed.
LEMMA NoneFed ==
    ASSUME TypeOK, Begun = <<>>
    PROVE  feeding = NoGoal
<1>1. inflight \in Seq(Goal) /\ feeding \in Goal \cup {NoGoal} /\ Len(Begun) = 0
  BY EmptySeq DEF TypeOK, ControllerTypeOK
<1>2. Len(inflight) \in Nat /\ Len(Begun) = IF feeding = NoGoal THEN Len(inflight) ELSE Len(inflight) + 1
  BY <1>1, BegunItems DEF Begun
<1> QED
  BY <1>1, <1>2

\* What FeedNext feeds counts, and is fed behind frames that count.
LEMMA FeedCounts ==
    ASSUME TypeOK, FaultHoldInv, Numbered, Rest, Counted, Accounted, FeedNext
    PROVE  /\ errorCode = 0
           /\ excessChunks[1].id > 0 /\ excessChunks[1].len > 0
           /\ totalFramesFed' = totalFramesFed + 2 * excessChunks[1].len /\ totalFramesFed' > 0
           /\ totalFramesFed = 0 => frames = <<>>
<1>1. errorCode = 0
  BY DEF FeedNext, Feeding, HeadFits, FaultHoldInv, QueueEmptyWhileLatched
<1>2. PICK F \in [0 .. Len(excessChunks) -> Nat] : FedAfter(F)
  BY <1>1 DEF Accounted
<1>3. Len(excessChunks) \in Nat \ {0}
  BY FeedMoves
<1>4. 1 \in 1 .. Len(excessChunks)
  BY <1>3
<1>5. PICK i \in 1 .. Len(trajectoryCompletions) :
        trajectoryCompletions[i].id = excessChunks[1].id /\ excessChunks[1].len > 0
  BY <1>2, <1>4 DEF FedAfter
<1>6. completedId < trajectoryCompletions[i].id
  BY DEF Numbered, ThresholdsNumbered
<1>7. /\ completedId \in Nat /\ excessChunks[1].id \in Nat /\ excessChunks[1].len \in Nat
      /\ totalFramesFed \in Nat
  BY <1>4, FlowTypes DEF Numbered
<1>8. excessChunks[1].id > 0
  BY <1>5, <1>6, <1>7
<1>9. totalFramesFed' = totalFramesFed + 2 * excessChunks[1].len
  BY <1>8, FeedMoves
<1>10. totalFramesFed = 0 => frames = <<>>
  BY DEF Counted, FeedNext, GateOpen, Rest
<1> QED
  BY <1>1, <1>5, <1>7, <1>8, <1>9, <1>10

\* A BEGIN leaves the thresholds there are.
LEMMA ThresholdsGrow ==
    ASSUME TypeOK, BeginTrajectoryTransfer
    PROVE  \A i \in 1 .. Len(trajectoryCompletions) :
              i \in 1 .. Len(trajectoryCompletions') /\ trajectoryCompletions'[i] = trajectoryCompletions[i]
<1> DEFINE T == trajectoryCompletions
           c == [id |-> command.id, frames |-> cumulativeExpectedFrames']
<1>1. T \in Seq(Completion) /\ Len(T) \in Nat
  BY LenProperties DEF TypeOK, HardwareTypeOK
<1>2. CASE Sized
  <2>1. T' = Append(T, c)
    BY <1>2 DEF BeginTrajectoryTransfer
  <2>2. c \in Completion
    <3>1. /\ command.id \in Nat /\ command.size \in Int /\ command.size > 0
          /\ cumulativeExpectedFrames \in Nat
      BY <1>2 DEF Sized, TypeOK, HardwareTypeOK, InterfaceTypeOK, Command
    <3>2. cumulativeExpectedFrames' = cumulativeExpectedFrames + 2 * command.size
      BY <1>2 DEF BeginTrajectoryTransfer
    <3> QED
      BY <3>1, <3>2 DEF Completion
  <2> HIDE DEF c, T
  <2>3. Len(T') = Len(T) + 1 /\ \A i \in 1 .. Len(T) : T'[i] = T[i]
    BY <1>1, <2>1, <2>2, AppendProperties
  <2>4. \A i \in 1 .. Len(T) : i \in 1 .. Len(T')
    BY <1>1, <2>3
  <2> QED
    BY <2>3, <2>4 DEF T
<1>3. CASE ~Sized
  BY <1>3 DEF BeginTrajectoryTransfer
<1> QED
  BY <1>2, <1>3

\* The plugin and the firmware keep a group at rest empty.
LEMMA RestStep ==
    ASSUME TypeOK, MailboxKept, ExternalStops = FALSE, Commands, Rest, HardwareStep
    PROVE  Rest'
<1>1. CASE Read
  BY <1>1 DEF Read, firmwareVars, Rest
<1>2. CASE BeginTrajectoryTransfer \/ AppendTrajectory
  BY <1>2 DEF BeginTrajectoryTransfer, AppendTrajectory, firmwareVars, Rest
<1>3. CASE Wipes
  BY <1>3 DEF Wipes, Rest
<1>4. CASE FeedNext
  BY <1>4 DEF FeedNext, MovePVT, Rest
<1>5. CASE ExecuteFrame
  BY <1>5 DEF ExecuteFrame, Rest
<1>6. CASE Clears \/ Idles
  BY <1>6 DEF Clears, Idles, Rest
<1> QED
  BY <1>1, <1>2, <1>3, <1>4, <1>5, <1>6, HardwareMoves DEF Rest

\* The plugin keeps the counters those of one move.
LEMMA CountedStep ==
    ASSUME TypeOK, MailboxKept, FaultHoldInv, ExternalStops = FALSE, Numbered, Flow, HardwareStep,
           UNCHANGED controllerVars
    PROVE  Counted'
<1> DEFINE T == trajectoryCompletions
           total == totalFramesFed
           expected == cumulativeExpectedFrames
<1>1. /\ T \in Seq(Completion) /\ Len(T) \in Nat /\ DOMAIN T = 1 .. Len(T)
      /\ \A i \in 1 .. Len(T) : T[i].frames \in 1 .. expected
      /\ \A i, j \in 1 .. Len(T) : i < j => T[i].frames < T[j].frames
      /\ total \in Nat /\ expected \in Nat /\ Len(frames) \in Nat
  BY FlowTypes DEF Numbered, Flow, ThresholdsAscend
<1>2. /\ total = 0 => completedId = 0 /\ firstChunk
      /\ errorCode # 0 => total = 0
      /\ total < expected => /\ Len(T) > 0 /\ T[Len(T)].id = currentTrajectoryId
                             /\ T[Len(T)].frames = expected
      /\ expected > 0 => transferMoveOpen
  BY DEF Flow, Counted
<1>3. CASE Read
  <2>1. PICK n \in 0 .. Len(T) :
          /\ \A i \in 1 .. n : T[i].frames <= ExecutedFrames
          /\ Len(T') = Len(T) - n /\ \A i \in 1 .. Len(T) - n : T'[i] = T[n + i]
          /\ completedId' = IF n = 0 THEN completedId ELSE T[n].id
    BY <1>3, ReadPasses
  <2>2. UNCHANGED <<errorCode, currentTrajectoryId, total, expected, firstChunk, transferMoveOpen>>
    BY <1>3 DEF Read, queueVars
  <2>3. ExecutedFrames <= total
    BY <1>1 DEF ExecutedFrames
  <2>4. total = 0 => n = 0
    <3>1. ASSUME total = 0, n # 0
          PROVE  FALSE
      <4>1. n \in 1 .. n /\ n \in 1 .. Len(T)
        BY <1>1, <3>1
      <4>2. T[n].frames <= ExecutedFrames /\ T[n].frames \in 1 .. expected
        BY <1>1, <2>1, <4>1
      <4>3. ExecutedFrames \in Nat
        BY FlowTypes DEF Numbered
      <4> HIDE DEF T
      <4> QED
        BY <1>1, <2>3, <3>1, <4>2, <4>3
    <3> QED
      BY <3>1
  <2>5. ASSUME total < expected
        PROVE  /\ Len(T') > 0 /\ T'[Len(T')].id = currentTrajectoryId
               /\ T'[Len(T')].frames = expected
    <3>1. n # Len(T)
      <4>1. ASSUME n = Len(T)
            PROVE  FALSE
        <5>1. Len(T) \in 1 .. n
          BY <1>1, <1>2, <2>5, <4>1
        <5>2. T[Len(T)].frames <= ExecutedFrames /\ T[Len(T)].frames = expected
          BY <1>2, <2>1, <2>5, <5>1
        <5>3. ExecutedFrames \in Nat
          BY FlowTypes DEF Numbered
        <5> HIDE DEF T
        <5> QED
          BY <1>1, <2>3, <2>5, <5>2, <5>3
      <4> QED
        BY <4>1
    <3>2. Len(T) - n \in 1 .. Len(T) - n /\ n + (Len(T) - n) = Len(T) /\ Len(T) - n > 0
      <4>1. Len(T) \in Nat /\ n \in 0 .. Len(T)
        BY <1>1
      <4> HIDE DEF T
      <4> QED
        BY <3>1, <4>1
    <3>3. T'[Len(T) - n] = T[n + (Len(T) - n)]
      BY <2>1, <3>2
    <3>4. T'[Len(T')] = T[Len(T)]
      BY <2>1, <3>2, <3>3
    <3> QED
      BY <1>2, <2>1, <2>5, <3>2, <3>4
  <2>6. total = 0 => completedId' = 0
    BY <1>2, <2>1, <2>4
  <2> QED
    BY <1>2, <2>2, <2>5, <2>6 DEF Counted
<1>4. CASE BeginTrajectoryTransfer
  <2>1. UNCHANGED <<errorCode, completedId, firstChunk, total>> /\ transferMoveOpen'
    BY <1>4 DEF BeginTrajectoryTransfer
  <2>2. command.size \in Nat /\ command.size > 0 /\ command.id \in Nat
    <3>1. Waiting("Begin")
      BY <1>4 DEF BeginTrajectoryTransfer, Consuming, Waiting
    <3>2. feeding \in Goal /\ command.size = Points[feeding]
      BY <3>1 DEF Numbered, Commands, TypeOK, ControllerTypeOK
    <3> QED
      BY <3>2, GoalAssumption DEF TypeOK, InterfaceTypeOK, Command
  <2> DEFINE c == [id |-> command.id, frames |-> expected']
  <2>3. expected' = expected + 2 * command.size /\ T' = Append(T, c) /\ currentTrajectoryId' = command.id
    BY <1>4, <2>2 DEF BeginTrajectoryTransfer, Sized
  <2>4. c \in Completion /\ c.id = command.id /\ c.frames = expected'
    BY <1>1, <2>2, <2>3 DEF Completion
  <2> HIDE DEF c
  <2>5. Len(T') = Len(T) + 1 /\ T'[Len(T) + 1] = c
    BY <1>1, <2>3, <2>4, AppendProperties
  <2>6. Len(T') > 0 /\ T'[Len(T')] = c
    BY <1>1, <2>5
  <2> QED
    BY <1>2, <2>1, <2>3, <2>4, <2>6 DEF Counted
<1>5. CASE Wipes
  <2>1. /\ completedId' = 0 /\ firstChunk' /\ total' = 0 /\ expected' = 0
    BY <1>5 DEF Wipes
  <2> QED
    BY <2>1 DEF Counted
<1>6. CASE FeedNext
  <2>1. errorCode = 0 /\ total' > 0 /\ total' = total + 2 * excessChunks[1].len /\ excessChunks[1].len > 0
    BY <1>6, FeedCounts DEF Flow
  <2>2. UNCHANGED <<errorCode, completedId, expected, T, currentTrajectoryId, transferMoveOpen>>
    BY <1>6 DEF FeedNext
  <2>3. excessChunks[1].len \in Nat
    <3>1. 1 \in 1 .. Len(excessChunks)
      BY <1>6, FeedMoves
    <3> QED
      BY <3>1, FlowTypes DEF Numbered
  <2>4. total' < expected' => total < expected
    BY <1>1, <2>1, <2>2, <2>3
  <2> QED
    BY <1>2, <2>1, <2>2, <2>4 DEF Counted
<1>7. CASE AppendTrajectory \/ ExecuteFrame \/ Clears \/ Idles
  <2>1. /\ UNCHANGED <<errorCode, completedId, firstChunk, transferMoveOpen>>
        /\ UNCHANGED <<currentTrajectoryId, total, expected, T>>
    BY <1>7
    DEF AppendTrajectory, ExecuteFrame, Clears, Idles, queueVars, completionVars, pluginVars, interfaceVars
  <2> QED
    BY <1>2, <2>1 DEF Counted
<1> QED
  BY <1>3, <1>4, <1>5, <1>6, <1>7, HardwareMoves DEF Flow, Rest, Numbered

\* A frame stays covered by a threshold the firmware has not passed.
LEMMA CoveredStep ==
    ASSUME TypeOK, MailboxKept, FaultHoldInv, ExternalStops = FALSE, Numbered, Flow, HardwareStep,
           UNCHANGED controllerVars
    PROVE  Covered'
<1> DEFINE T == trajectoryCompletions
           total == totalFramesFed
<1>1. /\ T \in Seq(Completion) /\ Len(T) \in Nat /\ DOMAIN T = 1 .. Len(T)
      /\ \A i \in 1 .. Len(T) : T[i].frames \in Nat /\ T[i].frames > 0
      /\ total \in Nat /\ Len(frames) \in Nat
  <2>1. \A i \in 1 .. Len(T) : T[i].frames \in 1 .. cumulativeExpectedFrames
    BY FlowTypes DEF Numbered, Flow, ThresholdsAscend
  <2> QED
    BY <2>1, FlowTypes DEF Numbered
<1> SUFFICES ASSUME errorCode' = 0, total' > 0, NEW k \in 1 .. Len(frames'), frames'[k] # Closing
             PROVE  \E i \in 1 .. Len(T') :
                       /\ T'[i].id = frames'[k]
                       /\ T'[i].frames + Len(frames') >= total' + k
  BY DEF Covered
<1>2. k \in Nat /\ k > 0
  <2>1. Len(frames') \in Nat \/ ~(Len(frames') \in Nat)
    OBVIOUS
  <2> QED
    OBVIOUS
<1>3. ASSUME errorCode = 0, total > 0, NEW j \in 1 .. Len(frames), frames[j] # Closing
      PROVE  \E i \in 1 .. Len(T) :
                T[i].id = frames[j] /\ T[i].frames + Len(frames) >= total + j
  BY <1>3 DEF Flow, Covered
<1>4. CASE Read
  <2>1. PICK n \in 0 .. Len(T) :
          /\ \A i \in 1 .. n : T[i].frames <= ExecutedFrames
          /\ Len(T') = Len(T) - n /\ \A i \in 1 .. Len(T) - n : T'[i] = T[n + i]
    BY <1>4, ReadPasses
  <2>2. UNCHANGED <<errorCode, total, frames>>
    BY <1>4 DEF Read, firmwareVars
  <2>3. PICK i \in 1 .. Len(T) : T[i].id = frames[k] /\ T[i].frames + Len(frames) >= total + k
    BY <1>3, <2>2
  <2>4. ~(i <= n)
    <3>1. ASSUME i <= n
          PROVE  FALSE
      <4>1. i \in 1 .. n
        BY <3>1
      <4>2. T[i].frames <= ExecutedFrames /\ T[i].frames > 0 /\ T[i].frames \in Nat
        BY <1>1, <2>1, <4>1
      <4>3. T[i].frames + Len(frames) >= total + k
        BY <2>3
      <4> HIDE DEF T
      <4> QED
        BY <1>1, <1>2, <4>2, <4>3 DEF ExecutedFrames
    <3> QED
      BY <3>1
  <2>5. i - n \in 1 .. Len(T) - n /\ n + (i - n) = i
    BY <1>1, <2>4
  <2>6. T'[i - n] = T[n + (i - n)]
    BY <2>1, <2>5
  <2>7. T'[i - n] = T[i] /\ i - n \in 1 .. Len(T')
    BY <2>1, <2>5, <2>6
  <2> QED
    BY <2>2, <2>3, <2>7
<1>5. CASE BeginTrajectoryTransfer
  <2>1. UNCHANGED <<errorCode, total, frames>>
    BY <1>5 DEF BeginTrajectoryTransfer, firmwareVars
  <2>2. PICK i \in 1 .. Len(T) : T[i].id = frames[k] /\ T[i].frames + Len(frames) >= total + k
    BY <1>3, <2>1
  <2>3. i \in 1 .. Len(T') /\ T'[i] = T[i]
    BY ThresholdsGrow, <1>5
  <2> QED
    BY <2>1, <2>2, <2>3
<1>6. CASE Wipes
  BY <1>6 DEF Wipes
<1>7. CASE FeedNext
  <2>1. /\ errorCode = 0 /\ excessChunks[1].id > 0 /\ excessChunks[1].len > 0
        /\ total' = total + 2 * excessChunks[1].len
        /\ total = 0 => frames = <<>>
    BY <1>7, FeedCounts DEF Flow
  <2>2. /\ Len(excessChunks) \in Nat \ {0} /\ Len(frames') \in Nat
        /\ Len(frames') >= Len(frames) + 2 * excessChunks[1].len
        /\ \A j \in 1 .. Len(frames) : frames'[j] = frames[j]
        /\ \A j \in Len(frames) + 1 .. Len(frames') : frames'[j] \in {excessChunks[1].id, Closing}
        /\ excessChunks[1].len \in Nat
    BY <1>7, FeedMoves DEF Chunk
  <2>3. UNCHANGED T
    BY <1>7 DEF FeedNext
  <2>4. CASE k \in 1 .. Len(frames)
    <3>1. total > 0
      <4>1. total # 0
        BY <1>1, <2>1, <2>4, EmptySeq
      <4> QED
        BY <1>1, <4>1
    <3>2. frames[k] # Closing /\ frames'[k] = frames[k]
      BY <2>2, <2>4
    <3>3. PICK i \in 1 .. Len(T) : T[i].id = frames[k] /\ T[i].frames + Len(frames) >= total + k
      BY <1>3, <2>1, <2>4, <3>1, <3>2
    <3>4. T[i].frames + Len(frames') >= total' + k
      <4>1. T[i].frames \in Nat /\ T[i].frames + Len(frames) >= total + k
        BY <1>1, <3>3
      <4>2. /\ total \in Nat /\ Len(frames) \in Nat /\ Len(frames') \in Nat
            /\ total' = total + 2 * excessChunks[1].len /\ excessChunks[1].len \in Nat
            /\ Len(frames') >= Len(frames) + 2 * excessChunks[1].len
        BY <1>1, <2>1, <2>2
      <4>3. PICK f \in Nat : f = T[i].frames
        BY <4>1
      <4>4. PICK c \in Nat : c = excessChunks[1].len
        BY <4>2
      <4>5. /\ f + Len(frames) >= total + k /\ total' = total + 2 * c
            /\ Len(frames') >= Len(frames) + 2 * c
        BY <4>1, <4>2, <4>3, <4>4
      <4>6. f + Len(frames') >= total' + k
        BY <1>2, <4>2, <4>5
      <4> QED
        BY <4>3, <4>6
    <3> QED
      BY <2>3, <3>2, <3>3, <3>4
  <2>5. CASE k \notin 1 .. Len(frames)
    <3>1. k \in Len(frames) + 1 .. Len(frames')
      BY <1>1, <2>2, <2>5
    <3>2. frames'[k] = excessChunks[1].id
      BY <2>2, <3>1
    <3>3. PICK F \in [0 .. Len(excessChunks) -> Nat] : FedAfter(F)
      BY <2>1 DEF Flow, Accounted
    <3>4. 1 \in 1 .. Len(excessChunks) /\ 0 \in 0 .. Len(excessChunks) /\ 1 - 1 = 0
      BY <2>2
    <3>5. F[1] = F[1 - 1] + 2 * excessChunks[1].len /\ F[0] = total
      BY <3>3, <3>4 DEF FedAfter
    <3>6. PICK i \in 1 .. Len(T) : T[i].id = excessChunks[1].id /\ F[1] <= T[i].frames
      BY <3>3, <3>4 DEF FedAfter
    <3>7. F[1] = total'
      BY <2>1, <3>4, <3>5
    <3>8. T[i].frames + Len(frames') >= total' + k
      <4>1. T[i].frames \in Nat /\ total' <= T[i].frames
        BY <1>1, <3>6, <3>7
      <4>2. k <= Len(frames') /\ total' \in Nat
        <5>1. k <= Len(frames')
          BY <2>2, <3>1
        <5>2. total \in Nat /\ total' = total + 2 * excessChunks[1].len /\ excessChunks[1].len \in Nat
          BY <1>1, <2>1, <2>2
        <5> QED
          BY <5>1, <5>2
      <4> HIDE DEF T
      <4> QED
        BY <1>2, <2>2, <4>1, <4>2
    <3> QED
      BY <2>3, <3>2, <3>6, <3>8
  <2> QED
    BY <2>4, <2>5
<1>8. CASE ExecuteFrame
  <2>1. /\ Len(frames') = Len(frames) - 1
        /\ \A j \in 1 .. Len(frames) - 1 : frames'[j] = frames[j + 1]
    BY <1>8, ExecuteMoves
  <2>2. UNCHANGED <<errorCode, total, T>>
    BY <1>8 DEF ExecuteFrame, pluginVars, interfaceVars, completionVars
  <2>3. k \in 1 .. Len(frames) - 1 /\ k + 1 \in 1 .. Len(frames)
    BY <1>1, <2>1
  <2>4. frames'[k] = frames[k + 1]
    BY <2>1, <2>3
  <2>5. PICK i \in 1 .. Len(T) : T[i].id = frames[k + 1] /\ T[i].frames + Len(frames) >= total + (k + 1)
    BY <1>3, <2>2, <2>3, <2>4
  <2>6. T[i].frames + Len(frames') >= total' + k
    <3>1. T[i].frames \in Nat /\ T[i].frames + Len(frames) >= total + (k + 1) /\ total' = total
      BY <1>1, <2>2, <2>5
    <3> HIDE DEF T
    <3> QED
      BY <1>1, <1>2, <2>1, <3>1
  <2> QED
    BY <2>2, <2>4, <2>5, <2>6
<1>9. CASE AppendTrajectory \/ Idles
  <2>1. UNCHANGED <<errorCode, total, T, frames>>
    BY <1>9 DEF AppendTrajectory, Idles, completionVars, firmwareVars
  <2> QED
    BY <1>3, <2>1
<1>10. CASE Clears
  <2>1. frames' = <<>>
    BY <1>10 DEF Clears
  <2> QED
    BY <1>2, <2>1, EmptySeq
<1> QED
  BY <1>4, <1>5, <1>6, <1>7, <1>8, <1>9, <1>10, HardwareMoves DEF Flow, Rest, Numbered

\* What is still to come of the frames expected.
Outstanding == SlotFrames + 2 * PointsOwed

\* The plugin never counts on more frames than it was told to expect, and a
\* chunk in its FIFO has its threshold ahead.
LEMMA AccountedStep ==
    ASSUME TypeOK, MailboxKept, FaultHoldInv, ExternalStops = FALSE, Numbered, Flow, HardwareStep,
           UNCHANGED controllerVars
    PROVE  Accounted'
<1> DEFINE T == trajectoryCompletions
           Q == excessChunks
           total == totalFramesFed
           expected == cumulativeExpectedFrames
<1>1. /\ T \in Seq(Completion) /\ Len(T) \in Nat /\ DOMAIN T = 1 .. Len(T)
      /\ \A i \in 1 .. Len(T) : T[i].frames \in Nat
      /\ Q \in Seq(Chunk) /\ Len(Q) \in Nat
      /\ \A l \in 1 .. Len(Q) : Q[l].len \in Nat
      /\ total \in Nat /\ expected \in Nat /\ Len(frames) \in Nat
      /\ SlotFrames \in Nat /\ PointsOwed \in Nat /\ ChunkLen \in Nat
  BY FlowTypes DEF Numbered
<1> SUFFICES ASSUME errorCode' = 0
             PROVE  \E F \in [0 .. Len(Q') -> Nat] : FedAfter(F)'
  BY DEF Accounted
<1>2. UNCHANGED <<feeding, nextIndex>>
  BY DEF controllerVars, pipelineVars
<1>3. UNCHANGED command /\ Acked
  BY HardwareMoves DEF Flow, Rest, Numbered
<1>4. SlotKept => SlotFrames' \in {SlotFrames, 0} /\ PointsOwed' \in Nat /\ PointsOwed' <= PointsOwed
  BY <1>1, <1>2 DEF SlotKept, PointsOwed
\* Nothing moves between the plugin's queues, and the thresholds that matter stay.
<1>5. ASSUME errorCode = 0, UNCHANGED <<Q, total, expected>>, SlotKept,
             \A i \in 1 .. Len(T) : T[i].frames > total =>
                 \E j \in 1 .. Len(T') : T'[j] = T[i]
      PROVE  \E F \in [0 .. Len(Q') -> Nat] : FedAfter(F)'
  <2>1. PICK F \in [0 .. Len(Q) -> Nat] : FedAfter(F)
    BY <1>5 DEF Flow, Accounted
  <2>2. ASSUME NEW l \in 1 .. Len(Q)
        PROVE  \E j \in 1 .. Len(T') : T'[j].id = Q[l].id /\ F[l] <= T'[j].frames
    <3>1. PICK i \in 1 .. Len(T) : T[i].id = Q[l].id /\ F[l] <= T[i].frames
      BY <2>1 DEF FedAfter
    <3>2. F[0] = total /\ F[0] < F[l] /\ F[l] \in Nat
      <4>1. 0 \in 0 .. Len(Q) /\ l \in 0 .. Len(Q) /\ 0 < l
        BY <1>1
      <4> QED
        BY <2>1, <4>1 DEF FedAfter
    <3>3. T[i].frames > total
      BY <1>1, <3>1, <3>2
    <3>4. PICK j \in 1 .. Len(T') : T'[j] = T[i]
      BY <1>5, <3>3
    <3> QED
      BY <3>1, <3>4
  <2>3. F[Len(Q)] + SlotFrames' + 2 * PointsOwed' <= expected
    <3>1. F[Len(Q)] \in Nat /\ F[Len(Q)] + SlotFrames + 2 * PointsOwed <= expected
      <4>1. Len(Q) \in 0 .. Len(Q)
        BY <1>1
      <4> QED
        BY <2>1, <4>1 DEF FedAfter
    <3> QED
      BY <1>1, <1>4, <1>5, <3>1
  <2> QED
    BY <1>5, <2>1, <2>2, <2>3 DEF FedAfter
<1>6. CASE Read
  <2>1. PICK n \in 0 .. Len(T) :
          /\ \A i \in 1 .. n : T[i].frames <= ExecutedFrames
          /\ Len(T') = Len(T) - n /\ \A i \in 1 .. Len(T) - n : T'[i] = T[n + i]
    BY <1>6, ReadPasses
  <2>2. /\ UNCHANGED <<errorCode, Q, total, expected, ackSequence>>
        /\ turn' = "update" /\ turn = "read"
    BY <1>6 DEF Read, queueVars
  <2>3. SlotKept
    BY <1>3, <2>2 DEF SlotKept, SlotFrames, Waiting, CommandWaiting, ChunkLen
  <2>4. ASSUME NEW i \in 1 .. Len(T), T[i].frames > total
        PROVE  \E j \in 1 .. Len(T') : T'[j] = T[i]
    <3>1. ~(i <= n)
      <4>1. ExecutedFrames <= total
        BY <1>1 DEF ExecutedFrames
      <4>2. ASSUME i <= n
            PROVE  FALSE
        <5>1. i \in 1 .. n
          BY <4>2
        <5>2. T[i].frames <= ExecutedFrames /\ ExecutedFrames \in Nat /\ T[i].frames \in Nat
          BY <1>1, <2>1, <5>1, FlowTypes DEF Numbered
        <5> HIDE DEF T
        <5> QED
          BY <1>1, <2>4, <4>1, <5>2
      <4> QED
        BY <4>2
    <3>2. i - n \in 1 .. Len(T) - n /\ n + (i - n) = i
      BY <1>1, <3>1
    <3>3. T'[i - n] = T[n + (i - n)] /\ i - n \in 1 .. Len(T')
      BY <2>1, <3>2
    <3> QED
      BY <3>2, <3>3
  <2> QED
    BY <1>5, <2>2, <2>3, <2>4
<1>7. CASE ExecuteFrame
  <2>1. UNCHANGED <<errorCode, Q, total, expected, T, turn, ackSequence>>
    BY <1>7 DEF ExecuteFrame, pluginVars, interfaceVars, queueVars, completionVars
  <2>2. SlotKept
    BY <1>3, <2>1 DEF SlotKept, SlotFrames, Waiting, CommandWaiting, ChunkLen
  <2> QED
    BY <1>5, <2>1, <2>2
<1>8. CASE (Clears \/ Idles) /\ SlotKept
  <2>1. UNCHANGED <<errorCode, Q, total, expected, T>>
    BY <1>8 DEF Clears, Idles, queueVars, completionVars
  <2> QED
    BY <1>5, <1>8, <2>1
\* The counters start again; a Stop or a Reset finds no goal that is owed a point.
<1>9. CASE Wipes
  <2>1. Q' = <<>> /\ total' = 0 /\ expected' = 0 /\ ackSequence' = command.seq
        /\ (Waiting("Stop") \/ Waiting("Reset"))
    BY <1>9 DEF Wipes
  <2>2. SlotFrames' = 0
    BY <1>3, <2>1 DEF SlotFrames, Waiting, CommandWaiting
  <2>3. feeding = NoGoal
    BY <2>1, NoneFed DEF Numbered, Commands
  <2>4. PointsOwed' = 0
    BY <1>2, <2>3 DEF PointsOwed
  <2>5. Len(Q') = 0
    BY <2>1, EmptySeq
  <2> DEFINE G == [l \in 0 .. 0 |-> 0]
  <2>6. G \in [0 .. Len(Q') -> Nat]
    BY <2>5
  <2>7. G[0] = 0
    OBVIOUS
  <2>8. FedAfter(G)'
    <3>1. \A l \in 1 .. Len(Q') : FALSE
      BY <2>5
    <3>2. \A l, m \in 0 .. Len(Q') : ~(l < m)
      BY <2>5
    <3> HIDE DEF G
    <3> QED
      BY <2>1, <2>2, <2>4, <2>5, <2>7, <3>1, <3>2 DEF FedAfter
  <2> QED
    BY <2>6, <2>8
\* The points of the BEGIN are owed and expected.
<1>10. CASE BeginTrajectoryTransfer
  <2>1. UNCHANGED <<errorCode, Q, total>> /\ ackSequence' = command.seq /\ Waiting("Begin")
    BY <1>10 DEF BeginTrajectoryTransfer, Acknowledge, Consuming, Waiting
  <2>2. /\ feeding \in Goal /\ nextIndex = 0 /\ command.size = Points[feeding]
        /\ Points[feeding] \in Nat \ {0}
    BY <2>1, GoalAssumption DEF Numbered, Commands, TypeOK, ControllerTypeOK
  <2>3. expected' = expected + 2 * Points[feeding]
    BY <1>10, <2>2 DEF BeginTrajectoryTransfer, Sized
  <2>4. PICK F \in [0 .. Len(Q) -> Nat] : FedAfter(F)
    BY <2>1 DEF Flow, Accounted
  <2>5. SlotFrames' = 0 /\ PointsOwed' = Points[feeding]
    <3>1. ~CommandWaiting'
      BY <1>3, <2>1, FlowTypes DEF CommandWaiting, Numbered
    <3> QED
      BY <1>2, <2>2, <3>1, GoalAssumption DEF SlotFrames, PointsOwed, Waiting
  <2>6. F[Len(Q)] + SlotFrames' + 2 * PointsOwed' <= expected'
    <3>1. F[Len(Q)] \in Nat /\ F[Len(Q)] + SlotFrames + 2 * PointsOwed <= expected
      <4>1. Len(Q) \in 0 .. Len(Q)
        BY <1>1
      <4> QED
        BY <2>4, <4>1 DEF FedAfter
    <3> QED
      BY <1>1, <2>2, <2>3, <2>5, <3>1
  <2>7. \A i \in 1 .. Len(T) : i \in 1 .. Len(T') /\ T'[i] = T[i]
    BY <1>10, ThresholdsGrow
  <2>8. ASSUME NEW l \in 1 .. Len(Q)
        PROVE  \E j \in 1 .. Len(T') : T'[j].id = Q[l].id /\ F[l] <= T'[j].frames
    <3>1. PICK i \in 1 .. Len(T) : T[i].id = Q[l].id /\ F[l] <= T[i].frames
      BY <2>4 DEF FedAfter
    <3> QED
      BY <2>7, <3>1
  <2> QED
    BY <2>1, <2>4, <2>6, <2>8 DEF FedAfter
\* The chunk moves from the slot to the end of the FIFO; its threshold is the last.
<1>11. CASE AppendTrajectory /\ ChunkCarriesWork
  <2> DEFINE m == Len(Q)
  <2>1. /\ Len(Q') = m + 1 /\ \A l \in 1 .. m : Q'[l] = Q[l]
        /\ Q'[m + 1].id = currentTrajectoryId /\ Q'[m + 1].len = ChunkLen
    BY <1>11, AppendMoves
  <2>2. /\ UNCHANGED <<errorCode, total, expected, T, ackSequence>>
        /\ turn = "command" /\ turn' = "drainChunk" /\ Waiting("AppendChunk")
    BY <1>11 DEF AppendTrajectory, completionVars, Consuming, Waiting
  <2>3. SlotFrames = 2 * ChunkLen /\ SlotFrames' = 0 /\ PointsOwed' = PointsOwed
    BY <1>2, <1>3, <2>2 DEF SlotFrames, PointsOwed, Waiting, CommandWaiting
  <2>4. ChunkLen > 0
    <3>1. ChunkCapacity > 0 /\ command.len > 0
      BY <2>2, CapacityAssumption DEF Numbered, Commands
    <3> QED
      BY <3>1 DEF ChunkLen
  <2>5. PICK F \in [0 .. m -> Nat] : FedAfter(F)
    BY <2>2 DEF Flow, Accounted
  <2>6. F[m] \in Nat /\ F[m] + 2 * ChunkLen + 2 * PointsOwed <= expected
    BY <1>1, <2>3, <2>5 DEF FedAfter
  <2>7. total <= F[m]
    <3>1. CASE m = 0
      BY <1>1, <2>5, <3>1 DEF FedAfter
    <3>2. CASE m # 0
      <4>1. 0 \in 0 .. m /\ m \in 0 .. m /\ 0 < m
        BY <1>1, <3>2
      <4>2. F[0] = total /\ F[0] < F[m]
        BY <2>5, <4>1 DEF FedAfter
      <4> HIDE DEF m
      <4> QED
        BY <1>1, <2>6, <4>2
    <3> QED
      BY <3>1, <3>2
  <2>8. /\ total < expected /\ F[m] + 2 * ChunkLen <= expected
        /\ F[m] + 2 * ChunkLen \in Nat /\ F[m] < F[m] + 2 * ChunkLen
    <3> HIDE DEF m, T, Q
    <3> QED
      BY <1>1, <2>4, <2>6, <2>7
  <2>9. Len(T) \in 1 .. Len(T) /\ T[Len(T)].id = currentTrajectoryId /\ T[Len(T)].frames = expected
    BY <1>1, <2>8 DEF Flow, Counted
  <2>10. PICK G \in [0 .. m + 1 -> Nat] : /\ G[m + 1] = F[m] + 2 * ChunkLen
                                         /\ \A l \in 0 .. m : G[l] = F[l]
    <3> DEFINE g == [l \in 0 .. m + 1 |-> IF l <= m THEN F[l] ELSE F[m] + 2 * ChunkLen]
    <3>1. m \in Nat
      BY <1>1
    <3> HIDE DEF m
    <3>2. \A l \in 0 .. m + 1 : l \in 0 .. m \/ (l = m + 1 /\ ~(l <= m))
      BY <3>1
    <3>3. \A l \in 0 .. m + 1 : (IF l <= m THEN F[l] ELSE F[m] + 2 * ChunkLen) \in Nat
      BY <2>5, <2>8, <3>1, <3>2
    <3>4. \A l \in 0 .. m : l \in 0 .. m + 1 /\ l <= m
      BY <3>1
    <3>5. m + 1 \in 0 .. m + 1 /\ ~(m + 1 <= m)
      BY <3>1
    <3>6. /\ g \in [0 .. m + 1 -> Nat] /\ g[m + 1] = F[m] + 2 * ChunkLen
          /\ \A l \in 0 .. m : g[l] = F[l]
      BY <3>3, <3>4, <3>5
    <3> HIDE DEF g
    <3> QED
      BY <3>6
  <2>11. G[0] = total
    <3>1. 0 \in 0 .. m
      BY <1>1
    <3> QED
      BY <2>5, <2>10, <3>1 DEF FedAfter
  <2>12. ASSUME NEW l \in 1 .. m + 1
         PROVE  /\ Q'[l].len > 0 /\ G[l] = G[l - 1] + 2 * Q'[l].len
                /\ \E i \in 1 .. Len(T) : T[i].id = Q'[l].id /\ G[l] <= T[i].frames
    <3>1. l \in 1 .. m \/ l = m + 1
      BY <1>1
    <3>2. CASE l \in 1 .. m
      <4>1. l \in 0 .. m /\ l - 1 \in 0 .. m
        BY <1>1, <3>2
      <4>2. G[l] = F[l] /\ G[l - 1] = F[l - 1] /\ Q'[l] = Q[l]
        BY <2>1, <2>10, <3>2, <4>1
      <4>3. /\ Q[l].len > 0 /\ F[l] = F[l - 1] + 2 * Q[l].len
            /\ \E i \in 1 .. Len(T) : T[i].id = Q[l].id /\ F[l] <= T[i].frames
        BY <2>5, <3>2 DEF FedAfter
      <4> QED
        BY <4>2, <4>3
    <3>3. CASE l = m + 1
      <4>1. l - 1 = m /\ m \in 0 .. m
        BY <1>1, <3>3
      <4>2. G[m + 1] = F[m] + 2 * ChunkLen /\ G[m] = F[m]
        BY <2>10, <4>1
      <4>3. G[m + 1] <= T[Len(T)].frames
        BY <2>8, <2>9, <4>2
      <4>4. \E i \in 1 .. Len(T) : T[i].id = Q'[m + 1].id /\ G[m + 1] <= T[i].frames
        BY <2>1, <2>9, <4>3
      <4> QED
        BY <2>1, <2>4, <3>3, <4>1, <4>2, <4>4
    <3> QED
      BY <3>1, <3>2, <3>3
  <2>13. ASSUME NEW l \in 0 .. m + 1, NEW j \in 0 .. m + 1, l < j
         PROVE  G[l] < G[j]
    <3>1. l \in 0 .. m /\ (j \in 0 .. m \/ j = m + 1)
      BY <1>1, <2>13
    <3>2. CASE j \in 0 .. m
      BY <2>5, <2>10, <2>13, <3>1, <3>2 DEF FedAfter
    <3>3. CASE j = m + 1
      <4>1. F[l] <= F[m] /\ F[l] \in Nat
        <5>1. l = m \/ (l < m /\ m \in 0 .. m)
          BY <1>1, <3>1
        <5>2. F[l] \in Nat
          BY <2>5, <3>1
        <5>3. CASE l = m
          BY <2>6, <5>3
        <5>4. CASE l < m /\ m \in 0 .. m
          <6>1. F[l] < F[m]
            BY <2>5, <3>1, <5>4 DEF FedAfter
          <6> QED
            BY <2>6, <5>2, <6>1
        <5> QED
          BY <5>1, <5>2, <5>3, <5>4
      <4>2. G[l] = F[l] /\ G[j] = F[m] + 2 * ChunkLen
        BY <2>10, <3>1, <3>3
      <4> HIDE DEF m
      <4> QED
        BY <2>6, <2>8, <4>1, <4>2
    <3> QED
      BY <3>1, <3>2, <3>3
  <2>14. G[m + 1] + SlotFrames' + 2 * PointsOwed' <= expected'
    <3> HIDE DEF m
    <3> QED
      BY <1>1, <2>2, <2>3, <2>6, <2>10
  <2> HIDE DEF m
  <2>15. FedAfter(G)'
    BY <2>1, <2>2, <2>11, <2>12, <2>13, <2>14 DEF FedAfter
  <2> QED
    BY <2>1, <2>10, <2>15
\* The oldest chunk leaves the FIFO and counts as fed.
<1>12. CASE FeedNext /\ SlotKept
  <2> DEFINE m == Len(Q)
  <2>1. m \in Nat \ {0} /\ Len(Q') = m - 1 /\ \A l \in 1 .. m - 1 : Q'[l] = Q[l + 1]
    BY <1>12, FeedMoves
  <2>2. errorCode = 0 /\ total' = total + 2 * Q[1].len
    BY <1>12, FeedCounts DEF Flow
  <2>3. UNCHANGED <<expected, T>>
    BY <1>12 DEF FeedNext
  <2>4. PICK F \in [0 .. m -> Nat] : FedAfter(F)
    BY <2>2 DEF Flow, Accounted
  <2>5. PICK G \in [0 .. m - 1 -> Nat] : \A l \in 0 .. m - 1 : G[l] = F[l + 1]
    <3> DEFINE g == [l \in 0 .. m - 1 |-> F[l + 1]]
    <3>1. \A l \in 0 .. m - 1 : l + 1 \in 0 .. m
      BY <2>1
    <3>2. g \in [0 .. m - 1 -> Nat] /\ \A l \in 0 .. m - 1 : g[l] = F[l + 1]
      BY <2>4, <3>1
    <3> HIDE DEF g
    <3> QED
      BY <3>2
  <2>6. G[0] = total'
    <3>1. 1 \in 1 .. m /\ 0 \in 0 .. m - 1 /\ 1 - 1 = 0 /\ 0 + 1 = 1
      BY <2>1
    <3>2. F[1] = F[1 - 1] + 2 * Q[1].len /\ F[0] = total
      BY <2>4, <3>1 DEF FedAfter
    <3>3. G[0] = F[1]
      BY <2>5, <3>1
    <3> QED
      BY <2>2, <3>1, <3>2, <3>3
  <2>7. ASSUME NEW l \in 1 .. m - 1
        PROVE  /\ Q'[l].len > 0 /\ G[l] = G[l - 1] + 2 * Q'[l].len
               /\ \E i \in 1 .. Len(T) : T[i].id = Q'[l].id /\ G[l] <= T[i].frames
    <3>1. /\ l + 1 \in 1 .. m /\ l \in 0 .. m - 1 /\ l - 1 \in 0 .. m - 1
          /\ (l + 1) - 1 = l /\ (l - 1) + 1 = l
      BY <2>1
    <3>2. /\ Q[l + 1].len > 0 /\ F[l + 1] = F[(l + 1) - 1] + 2 * Q[l + 1].len
          /\ \E i \in 1 .. Len(T) : T[i].id = Q[l + 1].id /\ F[l + 1] <= T[i].frames
      BY <2>4, <3>1 DEF FedAfter
    <3>3. G[l] = F[l + 1] /\ G[l - 1] = F[(l - 1) + 1] /\ Q'[l] = Q[l + 1]
      BY <2>1, <2>5, <3>1
    <3> QED
      BY <3>1, <3>2, <3>3
  <2>8. ASSUME NEW l \in 0 .. m - 1, NEW j \in 0 .. m - 1, l < j
        PROVE  G[l] < G[j]
    <3>1. l + 1 \in 0 .. m /\ j + 1 \in 0 .. m /\ l + 1 < j + 1
      BY <2>1, <2>8
    <3>2. F[l + 1] < F[j + 1]
      BY <2>4, <3>1 DEF FedAfter
    <3> QED
      BY <2>5, <3>2
  <2>9. G[m - 1] + SlotFrames' + 2 * PointsOwed' <= expected'
    <3>1. m - 1 \in 0 .. m - 1 /\ (m - 1) + 1 = m /\ m \in 0 .. m
      BY <2>1
    <3>2. G[m - 1] = F[m] /\ F[m] \in Nat
      BY <2>4, <2>5, <3>1
    <3>3. F[m] + SlotFrames + 2 * PointsOwed <= expected
      BY <2>4 DEF FedAfter
    <3>4. SlotFrames' \in {SlotFrames, 0} /\ PointsOwed' \in Nat /\ PointsOwed' <= PointsOwed
      BY <1>4, <1>12
    <3>5. /\ SlotFrames \in Nat /\ PointsOwed \in Nat /\ expected \in Nat /\ expected' = expected
      BY <1>1, <2>3
    <3>6. F[m] + SlotFrames' + 2 * PointsOwed' <= expected'
      <4>1. CASE SlotFrames' = SlotFrames
        BY <3>2, <3>3, <3>4, <3>5, <4>1
      <4>2. CASE SlotFrames' = 0
        BY <3>2, <3>3, <3>4, <3>5, <4>2
      <4> QED
        BY <3>4, <4>1, <4>2
    <3> QED
      BY <3>2, <3>6
  <2> HIDE DEF m
  <2>10. FedAfter(G)'
    BY <2>1, <2>3, <2>6, <2>7, <2>8, <2>9 DEF FedAfter
  <2> QED
    BY <2>1, <2>5, <2>10
<1> QED
  BY <1>6, <1>7, <1>8, <1>9, <1>10, <1>11, <1>12, HardwareMoves DEF Flow, Rest, Numbered

-------------------------------------------------------------------------------
(* What update() owes, and what it takes for executed.                     *)

\* In a healthy update() the slot is free, and what it emits it no longer owes.
LEMMA OwedByUpdate ==
    ASSUME TypeOK, TypeOK', FaultHoldInv, MailboxKept, Numbered, UpdateStep, errorCode = 0
    PROVE  /\ SlotFrames' \in Nat /\ PointsOwed' \in Int
           /\ Outstanding' <= Outstanding /\ Outstanding \in Nat
<1>1. turn = "update" /\ UNCHANGED ackSequence
  BY UpdateFrame
<1>2. ~CommandWaiting /\ SlotFrames = 0
  BY <1>1 DEF MailboxKept, SlotFrames, Waiting
<1>3. /\ ackSequence \in Nat /\ command.seq \in Nat /\ command'.seq \in Nat /\ command'.len \in Nat
      /\ feeding \in Goal \cup {NoGoal} /\ nextIndex \in Nat /\ PointsOwed \in Nat
  <2>1. command \in Command /\ command' \in Command /\ ackSequence \in Nat
    BY DEF TypeOK, InterfaceTypeOK
  <2>2. command.seq \in Nat /\ command'.seq \in Nat /\ command'.len \in Nat
    BY <2>1 DEF Command
  <2> QED
    BY <2>1, <2>2, FlowTypes DEF TypeOK, ControllerTypeOK, Numbered
<1>4. PointsOwed = IF feeding = NoGoal THEN 0 ELSE Points[feeding] - nextIndex
  BY <1>2 DEF PointsOwed, Waiting
<1>5. Outstanding = 2 * PointsOwed /\ Outstanding \in Nat
  BY <1>2, <1>3 DEF Outstanding
<1>6. CASE Retires \/ Releases \/ StreamsOn
  <2>1. /\ UNCHANGED <<feeding, nextIndex>>
        /\ UNCHANGED command \/ command'.token \in {"None", "Reset"}
    BY <1>6 DEF Retires, Releases, StreamsOn
  <2>2. ~(Waiting("Begin"))' /\ ~(Waiting("AppendChunk"))'
    BY <1>1, <1>2, <2>1 DEF Waiting, CommandWaiting
  <2>3. SlotFrames' = 0 /\ PointsOwed' = PointsOwed
    BY <1>4, <2>1, <2>2 DEF SlotFrames, PointsOwed
  <2> QED
    BY <1>3, <1>5, <2>3 DEF Outstanding
<1>7. CASE Ends
  <2>1. feeding' = NoGoal /\ (UNCHANGED command \/ command'.token \in {"None", "Stop"})
    BY <1>7 DEF Ends
  <2>2. ~(Waiting("AppendChunk"))'
    BY <1>1, <1>2, <2>1 DEF Waiting, CommandWaiting
  <2>3. SlotFrames' = 0 /\ PointsOwed' = 0
    BY <2>1, <2>2 DEF SlotFrames, PointsOwed
  <2> QED
    BY <1>3, <1>5, <2>3 DEF Outstanding
<1>8. CASE Adopts
  <2>1. command'.token = "Begin" /\ command'.seq = command.seq + 1 /\ PrevAcked
    BY <1>8 DEF Adopts
  <2>2. (Waiting("Begin"))' /\ ~(Waiting("AppendChunk"))'
    BY <1>1, <1>3, <2>1 DEF Waiting, CommandWaiting, PrevAcked
  <2>3. SlotFrames' = 0 /\ PointsOwed' = 0
    BY <2>2 DEF SlotFrames, PointsOwed
  <2> QED
    BY <1>3, <1>5, <2>3 DEF Outstanding
<1>9. CASE FeedsChunk
  <2>1. /\ command'.token = "AppendChunk" /\ command'.len > 0 /\ feeding # NoGoal
        /\ \/ feeding' = feeding /\ nextIndex' = nextIndex + command'.len
           \/ feeding' = NoGoal /\ command'.len = Points[feeding] - nextIndex
    BY <1>9 DEF FeedsChunk
  <2>2. ~(Waiting("Begin"))'
    BY <2>1 DEF Waiting
  <2>3. ChunkLen' \in Nat /\ ChunkLen' <= command'.len
    BY <1>3, CapacityAssumption DEF ChunkLen
  <2>4. SlotFrames' \in {0, 2 * ChunkLen'}
    BY DEF SlotFrames
  <2>5. SlotFrames' \in Nat /\ SlotFrames' <= 2 * command'.len
    <3>1. CASE SlotFrames' = 0
      BY <1>3, <3>1
    <3>2. CASE SlotFrames' = 2 * ChunkLen'
      <4>1. PICK c \in Nat : c = ChunkLen'
        BY <2>3
      <4>2. PICK d \in Nat : d = command'.len
        BY <1>3
      <4>3. c <= d
        BY <2>3, <4>1, <4>2
      <4>4. 2 * c \in Nat /\ 2 * c <= 2 * d
        BY <4>3
      <4>5. SlotFrames' = 2 * c /\ 2 * command'.len = 2 * d
        BY <3>2, <4>1, <4>2
      <4> QED
        BY <4>4, <4>5
    <3> QED
      BY <2>4, <3>1, <3>2
  <2>6. Points[feeding] \in Nat
    BY <1>3, <2>1, GoalAssumption
  <2>7. PointsOwed' = PointsOwed - command'.len
    <3>1. CASE feeding' = feeding /\ nextIndex' = nextIndex + command'.len
      BY <1>3, <1>4, <2>1, <2>2, <2>6, <3>1 DEF PointsOwed
    <3>2. CASE feeding' = NoGoal /\ command'.len = Points[feeding] - nextIndex
      BY <1>3, <1>4, <2>1, <2>6, <3>2 DEF PointsOwed
    <3> QED
      BY <2>1, <3>1, <3>2
  <2> QED
    BY <1>3, <1>5, <2>5, <2>7 DEF Outstanding
<1> QED
  BY <1>5, <1>6, <1>7, <1>8, <1>9, UpdateKinds DEF ControllerTypes, TypeOK, Numbered

\* What is fed is expected.
LEMMA FedIsExpected ==
    ASSUME TypeOK, Numbered, Flow
    PROVE  /\ totalFramesFed <= cumulativeExpectedFrames
           /\ errorCode = 0 => totalFramesFed + Outstanding <= cumulativeExpectedFrames
<1>1. /\ Len(excessChunks) \in Nat /\ totalFramesFed \in Nat /\ cumulativeExpectedFrames \in Nat
      /\ SlotFrames \in Nat /\ PointsOwed \in Nat
  BY FlowTypes DEF Numbered
<1>2. CASE errorCode # 0
  BY <1>1, <1>2 DEF Flow, Counted
<1>3. CASE errorCode = 0
  <2>1. PICK F \in [0 .. Len(excessChunks) -> Nat] : FedAfter(F)
    BY <1>3 DEF Flow, Accounted
  <2>2. 0 \in 0 .. Len(excessChunks) /\ Len(excessChunks) \in 0 .. Len(excessChunks)
    BY <1>1
  <2>3. /\ F[0] = totalFramesFed /\ F[Len(excessChunks)] \in Nat
        /\ F[Len(excessChunks)] + SlotFrames + 2 * PointsOwed <= cumulativeExpectedFrames
    BY <2>1, <2>2 DEF FedAfter
  <2>4. F[0] <= F[Len(excessChunks)]
    <3>1. CASE Len(excessChunks) = 0
      BY <1>1, <2>3, <3>1
    <3>2. CASE 0 < Len(excessChunks)
      <4>1. F[0] < F[Len(excessChunks)]
        BY <2>1, <2>2, <3>2 DEF FedAfter
      <4> QED
        BY <1>1, <2>3, <4>1
    <3> QED
      BY <1>1, <3>1, <3>2
  <2> QED
    BY <1>1, <1>3, <2>3, <2>4 DEF Outstanding
<1> QED
  BY <1>2, <1>3

\* The labels are trajectories the controller has begun.
Labels ==
    /\ currentTrajectoryId < nextTrajectoryId
    /\ \A id \in Live : id < nextTrajectoryId

\* No goal that is still begun has lost a point.
NotLost ==
    errorCode = 0 => \A i \in 1 .. Len(Begun) : trajectoryId[Begun[i]] \notin Lost

\* Nothing is left of a goal that has succeeded.
Settled ==
    \A g \in Goal : result[g] = "succeeded" =>
        trajectoryId[g] >= 1 /\ trajectoryId[g] \notin Live

\* Nothing is left of a trajectory of a begun goal that read() has passed.
LEMMA PassedIsGone ==
    ASSUME TypeOK, FaultHoldInv, MailboxKept, Numbered, Flow, NotLost, turn = "update",
           NEW i \in 1 .. Len(Begun), trajectoryId[Begun[i]] <= completedId
    PROVE  trajectoryId[Begun[i]] >= 1 /\ trajectoryId[Begun[i]] \notin Live
<1> DEFINE id == trajectoryId[Begun[i]]
           T == trajectoryCompletions
<1>1. /\ completedId \in Nat /\ totalFramesFed \in Nat
      /\ \A j \in 1 .. Len(T) : T[j].id \in Nat
      /\ DOMAIN excessChunks = 1 .. Len(excessChunks) /\ DOMAIN frames = 1 .. Len(frames)
  BY FlowTypes, LenProperties DEF Numbered
<1>2. id \in Nat /\ id > 0
  <2>1. Begun \in Seq(Goal)
    BY QueuesInOrder
  <2>2. Begun[i] \in Goal
    BY <2>1, ElementOfSeq
  <2> QED
    BY <2>2 DEF Numbered, GoalsNumbered, TypeOK, ControllerTypeOK
<1>3. completedId # 0
  <2> HIDE DEF id
  <2> QED
    BY <1>1, <1>2 DEF id
<1>4. totalFramesFed > 0 /\ errorCode = 0
  BY <1>1, <1>3 DEF Flow, Counted
<1>5. ~CommandWaiting
  BY <1>4 DEF MailboxKept
<1>6. \A j \in 1 .. Len(T) : T[j].id # id
  BY <1>1, <1>2 DEF Numbered, ThresholdsNumbered
<1>7. id \notin ThresholdIds
  BY <1>6 DEF ThresholdIds
<1>8. BeginIds = {} /\ WaitingChunkIds = {}
  BY <1>5 DEF BeginIds, WaitingChunkIds, Waiting
<1>9. id \notin QueuedIds
  <2>1. PICK F \in [0 .. Len(excessChunks) -> Nat] : FedAfter(F)
    BY <1>4 DEF Flow, Accounted
  <2>2. \A l \in 1 .. Len(excessChunks) : \E j \in 1 .. Len(T) : T[j].id = excessChunks[l].id
    BY <2>1 DEF FedAfter
  <2>3. \A l \in 1 .. Len(excessChunks) : excessChunks[l].id # id
    BY <1>6, <2>2
  <2> QED
    BY <1>1, <2>3 DEF QueuedIds
<1>10. id \notin FrameIds
  <2>1. \A k \in 1 .. Len(frames) : frames[k] = Closing \/ \E j \in 1 .. Len(T) : T[j].id = frames[k]
    BY <1>4 DEF Flow, Covered
  <2>2. \A k \in 1 .. Len(frames) : frames[k] # id
    BY <1>2, <1>6, <2>1 DEF Closing
  <2> QED
    BY <1>1, <2>2 DEF FrameIds
<1>11. id \notin dropped
  BY <1>4 DEF NotLost, Lost
<1> QED
  BY <1>2, <1>7, <1>8, <1>9, <1>10, <1>11 DEF Live, UnexecutedIds

\* update() puts nothing on its way but what it begins.
LEMMA LiveByUpdate ==
    ASSUME TypeOK, TypeOK', FaultHoldInv, MailboxKept, Numbered, Flow, UpdateStep,
           UNCHANGED hardwareVars
    PROVE  /\ UNCHANGED <<Lost, currentTrajectoryId, errorCode, completedId>>
           /\ Live' \subseteq Live \cup (IF Adopts THEN {nextTrajectoryId} ELSE {})
<1>1. turn = "update" /\ UNCHANGED <<ackSequence, errorCode, completedId>>
  BY UpdateFrame
<1>2. /\ UNCHANGED <<excessChunks, frames, dropped, totalFramesFed, trajectoryCompletions>>
      /\ UNCHANGED currentTrajectoryId
  BY DEF hardwareVars, queueVars, completionVars, firmwareVars
<1>3. UNCHANGED <<ThresholdIds, QueuedIds, FrameIds, Lost>>
  <2>1. UNCHANGED <<ThresholdIds, QueuedIds, FrameIds>>
    BY <1>2 DEF ThresholdIds, QueuedIds, FrameIds
  <2> QED
    BY <1>2, <2>1 DEF Lost
<1>4. ackSequence \in Nat /\ command.seq \in Nat
  BY FlowTypes DEF Numbered
<1>5. CASE Retires \/ Releases \/ StreamsOn \/ Ends
  <2>1. UNCHANGED command \/ command'.token \in {"None", "Reset", "Stop"}
    BY <1>5 DEF Retires, Releases, StreamsOn, Ends
  <2>2. BeginIds' \subseteq BeginIds /\ WaitingChunkIds' \subseteq WaitingChunkIds
    <3>1. CASE UNCHANGED command
      BY <1>1, <1>2, <3>1 DEF BeginIds, WaitingChunkIds, Waiting, CommandWaiting
    <3>2. CASE command'.token \in {"None", "Reset", "Stop"}
      BY <3>2 DEF BeginIds, WaitingChunkIds, Waiting
    <3> QED
      BY <2>1, <3>1, <3>2
  <2>3. Live' \subseteq Live
    BY <1>2, <1>3, <2>2 DEF Live, UnexecutedIds
  <2> QED
    BY <1>1, <1>2, <1>3, <2>3
<1>6. CASE Adopts
  <2>1. command'.token = "Begin" /\ command'.id = nextTrajectoryId
    BY <1>6 DEF Adopts
  <2>2. BeginIds' \subseteq {nextTrajectoryId} /\ WaitingChunkIds' = {}
    BY <2>1 DEF BeginIds, WaitingChunkIds
  <2>3. Live' \subseteq Live \cup {nextTrajectoryId}
    BY <1>2, <1>3, <2>2 DEF Live, UnexecutedIds
  <2> QED
    BY <1>1, <1>2, <1>3, <1>6, <2>3
<1>7. CASE FeedsChunk
  <2>1. command'.token = "AppendChunk" /\ feeding # NoGoal /\ phase = "stream" /\ PrevAcked
    BY <1>7 DEF FeedsChunk
  <2>2. BeginIds' = {} /\ WaitingChunkIds' \subseteq {currentTrajectoryId}
    BY <1>2, <2>1 DEF BeginIds, WaitingChunkIds, Waiting
  <2>3. errorCode = 0
    BY <2>1 DEF FaultHoldInv, BranchFitsError
  <2>4. Outstanding > 0
    <3>1. ~Waiting("Begin") /\ ~Waiting("AppendChunk")
      BY <1>4, <2>1 DEF Waiting, CommandWaiting, PrevAcked
    <3>2. PointsOwed = Points[feeding] - nextIndex /\ SlotFrames = 0
      BY <2>1, <3>1 DEF PointsOwed, SlotFrames
    <3>3. nextIndex < Points[feeding] /\ nextIndex \in Nat /\ Points[feeding] \in Nat
      BY <2>1, GoalAssumption DEF Numbered, PointsLeft, TypeOK, ControllerTypeOK
    <3> QED
      BY <3>2, <3>3 DEF Outstanding
  <2>5. totalFramesFed < cumulativeExpectedFrames
    <3>1. totalFramesFed \in Nat /\ cumulativeExpectedFrames \in Nat /\ Outstanding \in Nat
      BY FlowTypes DEF Numbered, Outstanding
    <3>2. totalFramesFed + Outstanding <= cumulativeExpectedFrames
      BY <2>3, FedIsExpected
    <3> QED
      BY <2>4, <3>1, <3>2
  <2>6. currentTrajectoryId \in ThresholdIds
    <3>1. /\ Len(trajectoryCompletions) > 0
          /\ trajectoryCompletions[Len(trajectoryCompletions)].id = currentTrajectoryId
      BY <2>5 DEF Flow, Counted
    <3>2. Len(trajectoryCompletions) \in 1 .. Len(trajectoryCompletions)
      BY <3>1, FlowTypes DEF Numbered
    <3> QED
      BY <3>1, <3>2 DEF ThresholdIds
  <2>7. Live' \subseteq Live
    BY <1>2, <1>3, <2>2, <2>6 DEF Live, UnexecutedIds
  <2> QED
    BY <1>1, <1>2, <1>3, <2>7
<1> QED
  BY <1>5, <1>6, <1>7, UpdateKinds DEF ControllerTypes, TypeOK, Numbered

-------------------------------------------------------------------------------
(* What is executed.                                                       *)

\* A success is a trajectory of which every point has been counted, fed and
\* executed.
Executed == Flow /\ Labels /\ NotLost /\ Settled

\* The plugin and the firmware keep it, unless the group is stopped from outside.
LEMMA ExecutedByHardware ==
    ASSUME TypeOK, MailboxKept, FaultHoldInv, ExternalStops = FALSE, Numbered, Executed, HardwareStep,
           UNCHANGED controllerVars
    PROVE  Executed'
<1>1. Flow'
  <2>1. ThresholdsAscend'
    BY ThresholdsStep DEF HardwareTypes, TypeOK, Executed, Flow
  <2> QED
    BY <2>1, RestStep, CountedStep, AccountedStep, CoveredStep DEF Executed, Flow, Numbered
<1>2. /\ UNCHANGED <<result, trajectoryId, nextTrajectoryId, feeding, inflight>>
      /\ UNCHANGED Begun
  BY DEF controllerVars, pipelineVars, Begun
<1>3. /\ Live' \subseteq Live \cup {0, Closing}
      /\ currentTrajectoryId' \in Live \cup {0, currentTrajectoryId}
      /\ errorCode' = 0 => \/ Waiting("Stop") \/ Waiting("Reset")
                          \/ (errorCode = 0 /\ Lost' \subseteq Lost)
  <2>1. FeedNext => totalFramesFed' > 0
    BY FeedCounts DEF Executed, Flow
  <2>2. ~transferMoveOpen => totalFramesFed = 0
    <3>1. totalFramesFed <= cumulativeExpectedFrames
      BY FedIsExpected DEF Executed
    <3>2. totalFramesFed \in Nat /\ cumulativeExpectedFrames \in Nat
      BY FlowTypes DEF Numbered
    <3>3. cumulativeExpectedFrames > 0 => transferMoveOpen
      BY DEF Executed, Flow, Counted
    <3> QED
      BY <3>1, <3>2, <3>3
  <2> QED
    BY <2>1, <2>2, HardwareIds DEF Executed, Flow, Rest, Numbered
<1>4. nextTrajectoryId \in Nat \ {0} /\ Closing < 0
  BY DEF TypeOK, ControllerTypeOK, Closing
<1>5. Labels'
  <2>1. currentTrajectoryId < nextTrajectoryId /\ \A id \in Live : id < nextTrajectoryId
    BY DEF Executed, Labels
  <2>2. 0 < nextTrajectoryId /\ Closing < nextTrajectoryId
    BY <1>4 DEF Closing
  <2>3. currentTrajectoryId' < nextTrajectoryId
    BY <1>3, <2>1, <2>2
  <2>4. \A id \in Live' : id < nextTrajectoryId
    BY <1>3, <2>1, <2>2
  <2> QED
    BY <1>2, <2>3, <2>4 DEF Labels
<1>6. NotLost'
  <2> SUFFICES ASSUME errorCode' = 0, NEW i \in 1 .. Len(Begun)
               PROVE  trajectoryId[Begun[i]] \notin Lost'
    BY <1>2 DEF NotLost
  <2>1. CASE Waiting("Stop") \/ Waiting("Reset")
    <3>1. Begun = <<>>
      BY <2>1 DEF Numbered, Commands
    <3> QED
      BY <3>1, EmptySeq
  <2>2. CASE errorCode = 0 /\ Lost' \subseteq Lost
    BY <2>2 DEF Executed, NotLost
  <2> QED
    BY <1>3, <2>1, <2>2
<1>7. Settled'
  <2> SUFFICES ASSUME NEW g \in Goal, result[g] = "succeeded"
               PROVE  trajectoryId[g] >= 1 /\ trajectoryId[g] \notin Live'
    BY <1>2 DEF Settled
  <2>1. trajectoryId[g] >= 1 /\ trajectoryId[g] \notin Live
    BY DEF Executed, Settled
  <2>2. trajectoryId[g] # 0 /\ trajectoryId[g] # Closing
    BY <2>1 DEF Closing, TypeOK, ControllerTypeOK
  <2> QED
    BY <1>3, <2>1, <2>2
<1> QED
  BY <1>1, <1>5, <1>6, <1>7 DEF Executed

\* What is on its way is known by numbers.
LEMMA LiveIsNumbers ==
    ASSUME TypeOK, PointsLeft
    PROVE  Live \subseteq Int
<1>1. ThresholdIds \subseteq Int /\ QueuedIds \subseteq Int /\ FrameIds \subseteq Int
  <2>1. DOMAIN excessChunks = 1 .. Len(excessChunks) /\ DOMAIN frames = 1 .. Len(frames)
    BY FlowTypes, LenProperties
  <2>2. /\ \A i \in 1 .. Len(trajectoryCompletions) : trajectoryCompletions[i].id \in Nat
        /\ \A l \in 1 .. Len(excessChunks) : excessChunks[l].id \in Nat
        /\ \A k \in 1 .. Len(frames) : frames[k] \in Int
    BY FlowTypes
  <2> QED
    BY <2>1, <2>2 DEF ThresholdIds, QueuedIds, FrameIds
<1>2. BeginIds \subseteq Int /\ WaitingChunkIds \subseteq Int
  BY FlowTypes DEF BeginIds, WaitingChunkIds, Command
<1>3. dropped \subseteq Int
  BY DEF TypeOK, HardwareTypeOK
<1> QED
  BY <1>1, <1>2, <1>3 DEF Live, UnexecutedIds

\* update() reports as successful what has been executed, and begins anew.
LEMMA ExecutedByUpdate ==
    ASSUME TypeOK, TypeOK', Begun \in Seq(Goal), MailboxKept, FaultHoldInv, HeldOnce, Numbered, Executed,
           UpdateStep, UNCHANGED hardwareVars
    PROVE  Executed'
<1>1. /\ UNCHANGED <<Lost, currentTrajectoryId, errorCode, completedId>>
      /\ Live' \subseteq Live \cup (IF Adopts THEN {nextTrajectoryId} ELSE {})
  BY LiveByUpdate DEF Executed
<1>2. /\ UNCHANGED <<excessChunks, frames, dropped, totalFramesFed, trajectoryCompletions>>
      /\ UNCHANGED <<cumulativeExpectedFrames, firstChunk, transferMoveOpen, group>>
  BY DEF hardwareVars, queueVars, completionVars, firmwareVars
<1>3. Flow'
  <2>1. ThresholdsAscend' /\ Rest' /\ Counted' /\ Covered'
    BY <1>1, <1>2 DEF Executed, Flow, ThresholdsAscend, Rest, Counted, Covered
  <2>2. Accounted'
    <3> SUFFICES ASSUME errorCode = 0
                 PROVE  \E F \in [0 .. Len(excessChunks) -> Nat] : FedAfter(F)'
      BY <1>1, <1>2 DEF Accounted
    <3>1. PICK F \in [0 .. Len(excessChunks) -> Nat] : FedAfter(F)
      BY DEF Executed, Flow, Accounted
    <3>2. F[Len(excessChunks)] + SlotFrames' + 2 * PointsOwed' <= cumulativeExpectedFrames
      <4>1. Len(excessChunks) \in 0 .. Len(excessChunks)
        BY FlowTypes DEF Numbered
      <4>2. F[Len(excessChunks)] \in Nat
        BY <3>1, <4>1
      <4>3. F[Len(excessChunks)] + SlotFrames + 2 * PointsOwed <= cumulativeExpectedFrames
        BY <3>1 DEF FedAfter
      <4>4. /\ SlotFrames' \in Nat /\ PointsOwed' \in Int
            /\ Outstanding' <= Outstanding /\ Outstanding \in Nat
        BY OwedByUpdate
      <4>5. /\ cumulativeExpectedFrames \in Nat /\ SlotFrames + 2 * PointsOwed = Outstanding
            /\ SlotFrames \in Nat /\ PointsOwed \in Nat
        BY FlowTypes DEF Numbered, Outstanding
      <4>6. Outstanding' = SlotFrames' + 2 * PointsOwed'
        BY DEF Outstanding
      <4>7. PICK a \in Nat, b \in Int : a = SlotFrames' /\ b = PointsOwed'
        BY <4>4
      <4>8. PICK c \in Nat, d \in Nat : c = SlotFrames /\ d = PointsOwed
        BY <4>5
      <4>9. a + 2 * b <= c + 2 * d /\ F[Len(excessChunks)] + c + 2 * d <= cumulativeExpectedFrames
        BY <4>3, <4>4, <4>5, <4>6, <4>7, <4>8
      <4>10. F[Len(excessChunks)] + a + 2 * b <= cumulativeExpectedFrames
        BY <4>2, <4>5, <4>9
      <4> QED
        BY <4>7, <4>10
    <3> QED
      BY <1>2, <3>1, <3>2 DEF FedAfter
  <2> QED
    BY <2>1, <2>2 DEF Flow
<1>4. /\ Begun \in Seq(Goal) /\ Len(Begun) \in Nat
      /\ \A i \in 1 .. Len(Begun) : Begun[i] \in Goal
      /\ trajectoryId \in [Goal -> Nat] /\ nextTrajectoryId \in Nat
      /\ \A g \in Goal : trajectoryId[g] < nextTrajectoryId
  BY LenProperties, ElementOfSeq DEF TypeOK, ControllerTypeOK, Numbered, GoalsNumbered
<1>5. turn = "update"
  BY UpdateFrame
<1>6. Lost \subseteq Live
  BY DEF Lost, Live, UnexecutedIds
<1>7. ~Adopts => Live' \subseteq Live
  BY <1>1
<1>8. \A id \in Live : id < nextTrajectoryId
  BY DEF Executed, Labels
<1> HIDE DEF Begun
<1>9. CASE Adopts
  <2> DEFINE h == Head(pending)
  <2>1. /\ Len(Begun') = Len(Begun) + 1 /\ Begun'[Len(Begun) + 1] = h
        /\ \A i \in 1 .. Len(Begun) : Begun'[i] = Begun[i]
        /\ trajectoryId' = [trajectoryId EXCEPT ![h] = nextTrajectoryId]
        /\ nextTrajectoryId' = nextTrajectoryId + 1 /\ UNCHANGED result
        /\ pending # <<>>
    BY <1>9 DEF Adopts
  <2>2. /\ h \in Goal /\ result[h] = "none"
        /\ \A i \in 1 .. Len(Begun) : Begun[i] # h
    BY <2>1, PendingNotBegun
  <2>3. trajectoryId'[h] = nextTrajectoryId /\ \A g \in Goal : g # h => trajectoryId'[g] = trajectoryId[g]
    BY <1>4, <2>1, <2>2
  <2>4. Live' \subseteq Live \cup {nextTrajectoryId}
    BY <1>1, <1>9
  <2> HIDE DEF h
  <2>5. Labels'
    <3>1. currentTrajectoryId' < nextTrajectoryId'
      <4>1. currentTrajectoryId \in Nat /\ currentTrajectoryId < nextTrajectoryId
        BY FlowTypes DEF Executed, Labels, Numbered
      <4>2. currentTrajectoryId < nextTrajectoryId + 1
        BY <1>4, <4>1
      <4> QED
        BY <1>1, <2>1, <4>2
    <3>2. \A id \in Live : id < nextTrajectoryId + 1
      <4>1. Live \subseteq Int
        BY LiveIsNumbers DEF Numbered
      <4> QED
        BY <1>4, <1>8, <4>1
    <3>3. nextTrajectoryId < nextTrajectoryId + 1
      BY <1>4
    <3> QED
      BY <2>1, <2>4, <3>1, <3>2, <3>3 DEF Labels
  <2>6. NotLost'
    <3> SUFFICES ASSUME errorCode = 0, NEW i \in 1 .. Len(Begun')
                 PROVE  trajectoryId'[Begun'[i]] \notin Lost
      BY <1>1 DEF NotLost
    <3>1. CASE i \in 1 .. Len(Begun)
      <4>1. Begun'[i] = Begun[i] /\ Begun[i] \in Goal /\ Begun[i] # h
        BY <1>4, <2>1, <2>2, <3>1
      <4>2. trajectoryId[Begun[i]] \notin Lost
        BY <3>1 DEF Executed, NotLost
      <4> QED
        BY <2>3, <4>1, <4>2
    <3>2. CASE i \notin 1 .. Len(Begun)
      <4>1. i = Len(Begun) + 1
        BY <1>4, <2>1, <3>2
      <4>2. trajectoryId'[Begun'[i]] = nextTrajectoryId
        BY <2>1, <2>3, <4>1
      <4>3. ~(nextTrajectoryId < nextTrajectoryId)
        BY <1>4
      <4>4. nextTrajectoryId \notin Lost
        BY <1>6, <1>8, <4>3
      <4> QED
        BY <4>2, <4>4
    <3> QED
      BY <3>1, <3>2
  <2>7. Settled'
    <3> SUFFICES ASSUME NEW g \in Goal, result[g] = "succeeded"
                 PROVE  trajectoryId'[g] >= 1 /\ trajectoryId'[g] \notin Live'
      BY <2>1 DEF Settled
    <3>1. g # h /\ trajectoryId'[g] = trajectoryId[g]
      BY <2>2, <2>3
    <3>2. trajectoryId[g] >= 1 /\ trajectoryId[g] \notin Live
      BY DEF Executed, Settled
    <3>3. trajectoryId[g] # nextTrajectoryId
      BY <1>4
    <3> QED
      BY <2>4, <3>1, <3>2, <3>3
  <2> QED
    BY <1>3, <2>5, <2>6, <2>7 DEF Executed
<1>10. ASSUME ~Adopts, Kept
       PROVE  Labels'
  BY <1>1, <1>7, <1>8, <1>10 DEF Kept, Executed, Labels
<1>11. ASSUME ~Adopts, Kept, NEW G \in SUBSET Goal,
              \A g \in Goal : result'[g] = "succeeded" => result[g] = "succeeded" \/ g \in G,
              \A g \in G : trajectoryId[g] >= 1 /\ trajectoryId[g] \notin Live
       PROVE  Settled'
  BY <1>7, <1>11 DEF Kept, Executed, Settled
<1>12. CASE Retires /\ ~Adopts
  <2>1. PICK n \in 0 .. Len(inflight) :
          /\ n <= Len(Begun) /\ Len(Begun') = Len(Begun) - n
          /\ \A i \in 1 .. Len(Begun) - n : Begun'[i] = Begun[n + i]
          /\ \A i \in 1 .. n : trajectoryId[Begun[i]] <= completedId
          /\ \A g \in Goal : result'[g] = "succeeded" =>
                result[g] = "succeeded" \/ \E i \in 1 .. n : g = Begun[i]
    BY <1>12 DEF Retires
  <2>2. n \in Nat /\ Kept
    BY <1>12 DEF Retires
  <2>3. NotLost'
    <3> SUFFICES ASSUME errorCode = 0, NEW i \in 1 .. Len(Begun')
                 PROVE  trajectoryId'[Begun'[i]] \notin Lost
      BY <1>1 DEF NotLost
    <3>1. n + i \in 1 .. Len(Begun) /\ Begun'[i] = Begun[n + i]
      BY <1>4, <2>1, <2>2
    <3>2. trajectoryId[Begun[n + i]] \notin Lost
      BY <3>1 DEF Executed, NotLost
    <3> QED
      BY <2>2, <3>1, <3>2 DEF Kept
  <2>4. ASSUME NEW i \in 1 .. n
        PROVE  Begun[i] \in Goal /\ trajectoryId[Begun[i]] >= 1 /\ trajectoryId[Begun[i]] \notin Live
    <3>1. i \in 1 .. Len(Begun) /\ trajectoryId[Begun[i]] <= completedId
      BY <1>4, <2>1, <2>2
    <3> QED
      BY <1>4, <1>5, <3>1, PassedIsGone DEF Executed
  <2>5. Settled'
    <3> DEFINE G == {Begun[i] : i \in 1 .. n}
    <3>1. G \in SUBSET Goal /\ \A g \in G : trajectoryId[g] >= 1 /\ trajectoryId[g] \notin Live
      BY <2>4
    <3>2. \A g \in Goal : result'[g] = "succeeded" => result[g] = "succeeded" \/ g \in G
      BY <2>1
    <3> HIDE DEF G
    <3> QED
      BY <1>11, <1>12, <2>2, <3>1, <3>2
  <2> QED
    BY <1>3, <1>10, <1>12, <2>2, <2>3, <2>5 DEF Executed
<1>13. CASE (Ends \/ Releases \/ FeedsChunk \/ StreamsOn) /\ ~Adopts
  <2>1. /\ Kept /\ (Begun' = <<>> \/ UNCHANGED Begun)
        /\ \A g \in Goal : result'[g] = "succeeded" => result[g] = "succeeded"
    BY <1>13 DEF Ends, Releases, FeedsChunk, StreamsOn
  <2>2. NotLost'
    <3>1. CASE UNCHANGED Begun
      BY <1>1, <2>1, <3>1 DEF Kept, Executed, NotLost
    <3>2. CASE Begun' = <<>>
      <4>1. Len(Begun') = 0
        BY <3>2, EmptySeq
      <4> QED
        BY <4>1 DEF NotLost
    <3> QED
      BY <2>1, <3>1, <3>2
  <2>3. Settled'
    BY <1>7, <1>13, <2>1 DEF Kept, Executed, Settled
  <2> QED
    BY <1>3, <1>10, <1>13, <2>1, <2>2, <2>3 DEF Executed
<1> QED
  BY <1>9, <1>12, <1>13, UpdateKinds DEF ControllerTypes, TypeOK, Numbered

\* So it holds whenever the group is stopped by the plugin only.
LEMMA ExecutedStep ==
    ASSUME TypeOK, TypeOK', Begun \in Seq(Goal), MailboxKept, FaultHoldInv, HeldOnce, Numbered, Executed,
           ExternalStops = FALSE, [Next]_vars
    PROVE  Executed'
<1>1. CASE HardwareStep /\ UNCHANGED controllerVars
  BY <1>1, ExecutedByHardware
<1>2. CASE UpdateStep /\ UNCHANGED hardwareVars
  BY <1>2, ExecutedByUpdate
<1>3. CASE (ExecutorStep /\ UNCHANGED hardwareVars) \/ UNCHANGED vars
  <2>1. UNCHANGED <<hardwareVars, interfaceVars, feeding, nextIndex, inflight, nextTrajectoryId,
                    trajectoryId, result>>
    BY <1>3, ExecutorFrame DEF vars, controllerVars, pipelineVars
  <2>2. /\ UNCHANGED <<excessChunks, frames, dropped, totalFramesFed, trajectoryCompletions>>
        /\ UNCHANGED <<cumulativeExpectedFrames, firstChunk, transferMoveOpen, group, currentTrajectoryId>>
        /\ UNCHANGED <<command, ackSequence, errorCode, completedId, turn>>
    BY <2>1 DEF hardwareVars, queueVars, completionVars, firmwareVars, interfaceVars
  <2>3. /\ UNCHANGED <<ThresholdIds, QueuedIds, FrameIds, BeginIds, WaitingChunkIds>>
        /\ UNCHANGED <<SlotFrames, PointsOwed, Begun>>
    <3>1. UNCHANGED <<ThresholdIds, QueuedIds, FrameIds>>
      BY <2>2 DEF ThresholdIds, QueuedIds, FrameIds
    <3>2. UNCHANGED CommandWaiting
      BY <2>2 DEF CommandWaiting
    <3>3. UNCHANGED <<BeginIds, WaitingChunkIds>>
      BY <2>2, <3>2 DEF BeginIds, WaitingChunkIds, Waiting
    <3>4. UNCHANGED <<SlotFrames, PointsOwed>>
      <4>1. UNCHANGED ChunkLen
        BY <2>2 DEF ChunkLen
      <4>2. Waiting("Begin")' <=> Waiting("Begin")
        BY <2>2, <3>2 DEF Waiting
      <4>3. Waiting("AppendChunk")' <=> Waiting("AppendChunk")
        BY <2>2, <3>2 DEF Waiting
      <4>4. UNCHANGED SlotFrames
        BY <2>2, <4>1, <4>3 DEF SlotFrames
      <4>5. UNCHANGED PointsOwed
        BY <2>1, <4>2 DEF PointsOwed
      <4> QED
        BY <4>4, <4>5
    <3>5. UNCHANGED Begun
      BY <2>1 DEF Begun
    <3> QED
      BY <3>1, <3>3, <3>4, <3>5
  <2>4. UNCHANGED <<Live, Lost>>
    BY <2>2, <2>3 DEF Live, Lost, UnexecutedIds
  <2>5. Flow'
    <3>1. ThresholdsAscend' /\ Rest' /\ Counted' /\ Covered'
      BY <2>2 DEF Executed, Flow, ThresholdsAscend, Rest, Counted, Covered
    <3>2. Accounted'
      BY <2>2, <2>3 DEF Executed, Flow, Accounted, FedAfter
    <3> QED
      BY <3>1, <3>2 DEF Flow
  <2>6. Labels' /\ NotLost' /\ Settled'
    BY <2>1, <2>2, <2>3, <2>4 DEF Executed, Labels, NotLost, Settled
  <2> QED
    BY <2>5, <2>6 DEF Executed
<1> QED
  BY <1>1, <1>2, <1>3 DEF Next, ControllerStep

\* As long as only the plugin stops the group, a goal reported successful has
\* had every point executed (UpdateCompletion, RetireCompletedGoals).
THEOREM SuccessIsExecution ==
    ASSUME ExternalStops = FALSE
    PROVE  Spec => []SucceededWasExecuted
<1>1. Init => Executed
  <2> SUFFICES ASSUME Init
               PROVE  Executed
    OBVIOUS
  <2> USE DEF Init, InterfaceInit, ControllerInit, HardwareInit
  <2>1. /\ Begun = <<>> /\ Len(Begun) = 0 /\ Len(trajectoryCompletions) = 0
        /\ Len(excessChunks) = 0 /\ Len(frames) = 0
    BY EmptySeq DEF Begun
  <2>2. ~CommandWaiting
    BY DEF CommandWaiting, NoCommand
  <2>3. ThresholdsAscend /\ Rest /\ Counted /\ Covered
    BY <2>1 DEF ThresholdsAscend, Rest, Counted, Covered
  <2>4. Accounted
    <3> DEFINE F == [l \in 0 .. 0 |-> 0]
    <3>1. F \in [0 .. Len(excessChunks) -> Nat] /\ F[0] = 0
      BY <2>1
    <3>2. SlotFrames = 0 /\ PointsOwed = 0
      BY <2>2 DEF SlotFrames, PointsOwed, Waiting
    <3>3. (\A l \in 1 .. Len(excessChunks) : FALSE) /\ \A l, m \in 0 .. Len(excessChunks) : ~(l < m)
      BY <2>1
    <3> HIDE DEF F
    <3>4. FedAfter(F)
      BY <2>1, <3>1, <3>2, <3>3 DEF FedAfter
    <3> QED
      BY <3>1, <3>4 DEF Accounted
  <2>5. Live = {}
    <3>1. ThresholdIds = {} /\ QueuedIds = {} /\ FrameIds = {}
      BY EmptySeq DEF ThresholdIds, QueuedIds, FrameIds
    <3>2. BeginIds = {} /\ WaitingChunkIds = {}
      BY <2>2 DEF BeginIds, WaitingChunkIds, Waiting
    <3> QED
      BY <3>1, <3>2 DEF Live, UnexecutedIds
  <2>6. Labels /\ NotLost /\ Settled
    BY <2>1, <2>5 DEF Labels, NotLost, Settled
  <2> QED
    BY <2>3, <2>4, <2>6 DEF Executed, Flow
<1>2. TypeOK => Begun \in Seq(Goal)
  BY QueuesInOrder
<1>3. /\ TypeOK /\ TypeOK' /\ Begun \in Seq(Goal) /\ HeldOnce
      /\ FaultHoldInv /\ StopInv /\ Numbered /\ Executed /\ [Next]_vars
      => Executed'
  BY ExecutedStep DEF StopInv
<1>4. Executed => SucceededWasExecuted
  BY DEF Executed, Settled, SucceededWasExecuted, Live
<1> QED
  BY <1>1, <1>2, <1>3, <1>4, SyncedInvariance, StopInvariance, OrderHeld, PTL DEF Spec
===============================================================================
