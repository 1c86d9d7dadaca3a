--------------------------- MODULE RapidCodeHardware ---------------------------
(***************************************************************************)
(* The RapidCode hardware plugin (RapidCodeSystemHardware): read(), and    *)
(* write() with its host FIFO of chunks, its reopen latch, its completion  *)
(* accounting and its stop, reset and fault handlers.                      *)
(*                                                                         *)
(* The RMP firmware is external. It is modelled from the calls the plugin  *)
(* makes: a group state, a buffer of frames (two per point) and an         *)
(* out-of-frames watchdog, with faults and stops the plugin did not ask    *)
(* for. A faulted group keeps its unexecuted frames until its faults are   *)
(* cleared; that is how UpdateCompletion reads FramesToExecuteGet.         *)
(*                                                                         *)
(* HardwareUnderClient puts the plugin under an arbitrary client of the    *)
(* mailbox; TransferSystem composes it with the controller.                *)
(***************************************************************************)
EXTENDS TransferProtocol

CONSTANTS
    MaxQueuedChunks,    \* kMaxQueuedChunks
    ChunkCapacity,      \* protocol ChunkCapacity
    FrameBufferSize,    \* frames in the firmware buffer of an axis
    EmptyCount,         \* kEmptyCount: the out-of-frames threshold
    ClosingFrames,      \* frames the firmware may add after a final chunk
    DriveFaults,        \* whether drives may trip
    CallFaults,         \* whether a RapidCode call may throw
    ExternalStops       \* whether someone stops the group from RapidSetup

ASSUME QueueAssumption   == MaxQueuedChunks \in Nat \ {0}
ASSUME CapacityAssumption == ChunkCapacity \in Nat \ {0}
ASSUME BufferAssumption  == /\ FrameBufferSize \in Nat
                            /\ 2 * ChunkCapacity <= FrameBufferSize
ASSUME FirmwareAssumption == EmptyCount \in Nat /\ ClosingFrames \in Nat
ASSUME FaultAssumption   == /\ DriveFaults \in BOOLEAN
                            /\ CallFaults \in BOOLEAN
                            /\ ExternalStops \in BOOLEAN

GroupState == {"IDLE", "MOVING", "STOPPING", "STOPPED", "STOPPING_ERROR", "ERROR"}

\* Why the group is stopped or in error, known to an observer only: the
\* plugin's own EStop for a Stop command, its own Abort, a stop from outside,
\* or a fault; or, "unstopped", why it still moves: the EStop threw.
Cause == {"none", "commanded", "abort", "external", "fault", "unstopped"}

Chunk == [id : Nat, len : Nat, final : BOOLEAN]
Completion == [id : Nat, frames : Nat]

Closing == -1       \* label of a frame added by the firmware

VARIABLES
    excessChunks,               \* host FIFO of chunks not yet fed
    pendingFinal,
    transferMoveOpen,
    firstChunk,                 \* the next feed must (re)open the move
    currentTrajectoryId,
    totalFramesFed,
    cumulativeExpectedFrames,
    trajectoryCompletions,      \* completion thresholds, oldest first
    stopRecoverPending,
    commandedStopFault,
    isMoving,                   \* is_moving, published by read()
    group,                      \* firmware: state of the MultiAxis group
    frames,                     \* firmware: trajectory id of each frame left
    streamOpen,                 \* firmware: a MovePVT move awaits its final
    cause,                      \* history: why the group is not running
    dropped                     \* history: trajectories that lost a point

queueVars == <<excessChunks, pendingFinal, transferMoveOpen, firstChunk>>
completionVars == <<currentTrajectoryId, totalFramesFed,
                    cumulativeExpectedFrames, trajectoryCompletions>>
recoveryVars == <<stopRecoverPending, commandedStopFault>>
firmwareVars == <<group, frames, streamOpen, cause>>
hardwareVars == <<queueVars, completionVars, recoveryVars, isMoving,
                  firmwareVars, dropped>>

Faulted == group \in {"ERROR", "STOPPING_ERROR"}

QueuedIds == {excessChunks[i].id : i \in DOMAIN excessChunks}
FrameIds == {frames[i] : i \in DOMAIN frames}

NeededFrames(chunk) == 2 * chunk.len

FreeFramesAvailable ==
    IF Len(frames) < FrameBufferSize THEN FrameBufferSize - Len(frames) ELSE 0

\* Mutants of ExecutedFrames: what was fed, and one frame behind.
FedFrames == totalFramesFed
OneFrameBehind ==
    IF totalFramesFed > Len(frames) THEN totalFramesFed - Len(frames) - 1 ELSE 0

\* Frames the firmware has executed of those that count for completion.
ExecutedFrames ==
    IF totalFramesFed > Len(frames) THEN totalFramesFed - Len(frames) ELSE 0

HardwareTypeOK ==
    /\ excessChunks \in Seq(Chunk)
    /\ pendingFinal \in BOOLEAN
    /\ transferMoveOpen \in BOOLEAN
    /\ firstChunk \in BOOLEAN
    /\ currentTrajectoryId \in Nat
    /\ totalFramesFed \in Nat
    /\ cumulativeExpectedFrames \in Nat
    /\ trajectoryCompletions \in Seq(Completion)
    /\ stopRecoverPending \in BOOLEAN
    /\ commandedStopFault \in BOOLEAN
    /\ isMoving \in BOOLEAN
    /\ group \in GroupState
    /\ frames \in Seq(Int)
    /\ streamOpen \in BOOLEAN
    /\ cause \in Cause
    /\ dropped \in SUBSET Int

\* An activated plugin at rest: on_activate arms the reopen latch and clears
\* the completion counters.
HardwareInit ==
    /\ excessChunks = <<>>
    /\ pendingFinal = FALSE
    /\ transferMoveOpen = FALSE
    /\ firstChunk = TRUE
    /\ currentTrajectoryId = 0
    /\ totalFramesFed = 0
    /\ cumulativeExpectedFrames = 0
    /\ trajectoryCompletions = <<>>
    /\ stopRecoverPending = FALSE
    /\ commandedStopFault = FALSE
    /\ isMoving = FALSE
    /\ group = "IDLE"
    /\ frames = <<>>
    /\ streamOpen = FALSE
    /\ cause = "none"
    /\ dropped = {}

-------------------------------------------------------------------------------
(* Calls into the firmware.                                                *)

EStop(why) ==
    /\ group' = IF Faulted THEN group ELSE "STOPPING_ERROR"
    /\ cause' = IF Faulted THEN cause ELSE why
    /\ streamOpen' = FALSE
    /\ UNCHANGED frames

\* An EStop that throws is logged and the handler goes on with its caller's
\* bookkeeping, whatever the group does: one that moves is not stopped.
EStopThrows ==
    /\ CallFaults
    /\ cause' = IF group = "MOVING" THEN "unstopped" ELSE cause
    /\ UNCHANGED <<group, frames, streamOpen>>

AbortGroup ==
    /\ group' = IF Faulted THEN group ELSE "ERROR"
    /\ cause' = IF Faulted THEN cause ELSE "abort"
    /\ streamOpen' = FALSE
    /\ frames' = <<>>

ClearFaults ==
    /\ group' = "IDLE"
    /\ cause' = "none"
    /\ streamOpen' = FALSE
    /\ frames' = <<>>

\* MovePVT is rejected unless the group is at rest or moving (see WriteFails).
MovePVT(chunk) ==
    /\ group \in {"IDLE", "MOVING"}
    /\ group' = "MOVING"
    /\ streamOpen' = ~chunk.final
    /\ \E extra \in 0 .. ClosingFrames :
          /\ chunk.final \/ extra = 0
          /\ frames' = frames \o [i \in 1 .. NeededFrames(chunk) |-> chunk.id]
                              \o [i \in 1 .. extra |-> Closing]
    /\ UNCHANGED cause

-------------------------------------------------------------------------------
(* read(): PublishTransferTelemetry. A RapidCode getter that throws leaves *)
(* the telemetry it had not reached yet as it was.                         *)

PublishIsMoving ==
    isMoving' = \/ group \notin {"IDLE", "STOPPED", "ERROR"}
                \/ excessChunks # <<>>
                \/ pendingFinal

\* Mutant of NewestRetired: the oldest one.
OldestRetired(n) == trajectoryCompletions[1].id

\* The id published when the n oldest thresholds are passed at once.
NewestRetired(n) == trajectoryCompletions[n].id

\* UpdateCompletion: retire every leading threshold the firmware has passed.
UpdateCompletion ==
    \E n \in 0 .. Len(trajectoryCompletions) :
        /\ \A i \in 1 .. n : trajectoryCompletions[i].frames <= ExecutedFrames
        /\ n < Len(trajectoryCompletions)
              => trajectoryCompletions[n + 1].frames > ExecutedFrames
        /\ trajectoryCompletions' =
              SubSeq(trajectoryCompletions, n + 1, Len(trajectoryCompletions))
        /\ completedId' = IF n = 0 THEN completedId ELSE NewestRetired(n)

Read ==
    /\ turn = "read"
    /\ turn' = "update"
    /\ PublishIsMoving
    /\ UpdateCompletion
    /\ UNCHANGED <<command, ackSequence, errorCode, queueVars, recoveryVars,
                   currentTrajectoryId, totalFramesFed,
                   cumulativeExpectedFrames, firmwareVars, dropped>>

ReadFails ==
    /\ CallFaults
    /\ turn = "read"
    /\ turn' = "update"
    /\ PublishIsMoving \/ UNCHANGED isMoving
    /\ UNCHANGED <<command, ackSequence, errorCode, completedId, queueVars,
                   recoveryVars, completionVars, firmwareVars, dropped>>

-------------------------------------------------------------------------------
(* Parts the handlers of write() share.                                    *)

\* Mutant of ClearTransfer: the FIFO is left alone.
ClearTransferKeepsQueue ==
    /\ pendingFinal' = FALSE
    /\ transferMoveOpen' = FALSE
    /\ firstChunk' = TRUE
    /\ UNCHANGED excessChunks

\* The firmware move is closed or dead: drop the tail, rearm the reopen latch.
ClearTransfer ==
    /\ excessChunks' = <<>>
    /\ pendingFinal' = FALSE
    /\ transferMoveOpen' = FALSE
    /\ firstChunk' = TRUE

\* Mutants of ResetCompletionTracking: the thresholds survive, and the
\* accepted-index sentinel is published as an id.
ResetCounters ==
    /\ totalFramesFed' = 0
    /\ cumulativeExpectedFrames' = 0
    /\ currentTrajectoryId' = 0
    /\ completedId' = 0
    /\ UNCHANGED trajectoryCompletions
ResetToSentinel ==
    /\ trajectoryCompletions' = <<>>
    /\ totalFramesFed' = 0
    /\ cumulativeExpectedFrames' = 0
    /\ currentTrajectoryId' = 0
    /\ completedId' = -1

ResetCompletionTracking ==
    /\ trajectoryCompletions' = <<>>
    /\ totalFramesFed' = 0
    /\ cumulativeExpectedFrames' = 0
    /\ currentTrajectoryId' = 0
    /\ completedId' = 0

ForgetStop ==
    /\ stopRecoverPending' = FALSE
    /\ commandedStopFault' = FALSE

Drop(ids) == dropped' = dropped \cup ids

\* Mutant of AbortTransfer: error_code is not latched.
AbortTransferSilently(code) ==
    /\ ForgetStop
    /\ ClearTransfer
    /\ ResetCompletionTracking
    /\ UNCHANGED errorCode
    /\ Drop(QueuedIds)

\* AbortTransfer without its optional EStop.
AbortTransfer(code) ==
    /\ ForgetStop
    /\ ClearTransfer
    /\ ResetCompletionTracking
    /\ errorCode' = code
    /\ Drop(QueuedIds)

\* The command in the slot has been dispatched.
Acknowledge == turn' = "read" /\ ackSequence' = command.seq

-------------------------------------------------------------------------------
(* DrainQueue, run first by write() and again by AppendTrajectory.         *)

Draining == turn \in {"drain", "drainChunk"}
Feeding == turn \in {"feed", "feedChunk"}

\* DrainQueue returns: to write(), which then looks at the mailbox, or to
\* AppendTrajectory, which acknowledges its command.
ReturnFromDrain ==
    \/ turn \in {"drain", "feed"} /\ turn' = "command" /\ UNCHANGED ackSequence
    \/ turn \in {"drainChunk", "feedChunk"} /\ Acknowledge

TransferPending == excessChunks # <<>> \/ pendingFinal \/ transferMoveOpen

DrainLatchesFault ==
    /\ Draining
    /\ Faulted
    /\ TransferPending
    /\ AbortTransfer(DriveFault)
    /\ ReturnFromDrain
    /\ UNCHANGED <<command, isMoving, firmwareVars>>

\* Mutant of CommandedStopSettled: DrainQueue only ever returns on ERROR.
NeverSettled == FALSE

CommandedStopSettled ==
    group = "ERROR" /\ ~TransferPending /\ stopRecoverPending /\ commandedStopFault

\* The ClearFaults a Reset deferred while the commanded stop decelerated.
DrainClearsCommandedStop ==
    /\ Draining
    /\ CommandedStopSettled
    /\ ForgetStop
    /\ ClearFaults
    /\ Drop(FrameIds)
    /\ ReturnFromDrain
    /\ UNCHANGED <<command, errorCode, completedId, queueVars, completionVars, isMoving>>

DrainClearsStopped ==
    /\ Draining
    /\ group = "STOPPED"
    /\ stopRecoverPending
    /\ stopRecoverPending' = FALSE
    /\ ClearFaults
    /\ Drop(FrameIds)
    /\ ReturnFromDrain
    /\ UNCHANGED <<command, errorCode, completedId, queueVars, completionVars,
                   commandedStopFault, isMoving>>

\* Stopped or in error with nothing to do: never feed.
DrainHolds ==
    /\ Draining
    /\ \/ Faulted /\ ~TransferPending /\ ~CommandedStopSettled
       \/ group = "STOPPING"
       \/ group = "STOPPED" /\ ~stopRecoverPending
    /\ ReturnFromDrain
    /\ UNCHANGED <<command, errorCode, completedId, queueVars, completionVars,
                   recoveryVars, isMoving, firmwareVars, dropped>>

DrainStarts ==
    /\ Draining
    /\ group \in {"IDLE", "MOVING"}
    /\ turn' = IF turn = "drain" THEN "feed" ELSE "feedChunk"
    /\ UNCHANGED <<command, ackSequence, errorCode, completedId, queueVars,
                   completionVars, recoveryVars, isMoving, firmwareVars, dropped>>

HeadFits ==
    /\ excessChunks # <<>>
    /\ NeededFrames(Head(excessChunks)) <= FreeFramesAvailable

\* The reopen gate: a fresh move may only open on a group at rest.
GateOpen == firstChunk => group = "IDLE"

\* Mutant of ReopensAfter: the latch is re-armed by every chunk.
ReopensAfterAny(chunk) == TRUE

\* FeedChunk: the move stays open until the final chunk.
ReopensAfter(chunk) == chunk.final

\* One pass of the loop. Online chunks (id 0) do not count for completion.
FeedNext ==
    /\ Feeding
    /\ HeadFits
    /\ GateOpen
    /\ LET chunk == Head(excessChunks) IN
        /\ MovePVT(chunk)
        /\ excessChunks' = Tail(excessChunks)
        /\ totalFramesFed' = IF chunk.id = 0 THEN totalFramesFed
                             ELSE totalFramesFed + NeededFrames(chunk)
        /\ firstChunk' = ReopensAfter(chunk)
        /\ pendingFinal' = (pendingFinal /\ ~chunk.final)
        /\ IF chunk.final
             THEN ReturnFromDrain
             ELSE UNCHANGED <<turn, ackSequence>>
    /\ UNCHANGED <<command, errorCode, completedId, transferMoveOpen,
                   currentTrajectoryId, cumulativeExpectedFrames,
                   trajectoryCompletions, recoveryVars, isMoving, dropped>>

FeedEnds ==
    /\ Feeding
    /\ ~(HeadFits /\ GateOpen)
    /\ ReturnFromDrain
    /\ UNCHANGED <<command, errorCode, completedId, queueVars, completionVars,
                   recoveryVars, isMoving, firmwareVars, dropped>>

-------------------------------------------------------------------------------
(* ConsumePendingCommand and the token handlers.                           *)

Consuming(token) ==
    /\ turn = "command"
    /\ CommandWaiting
    /\ command.token = token

NothingToConsume ==
    /\ turn = "command"
    /\ ~CommandWaiting
    /\ turn' = "read"
    /\ UNCHANGED <<command, ackSequence, errorCode, completedId, hardwareVars>>

\* A command whose token was overwritten while it waited is acknowledged only.
ConsumeNone ==
    /\ Consuming("None")
    /\ Acknowledge
    /\ UNCHANGED <<command, errorCode, completedId, hardwareVars>>

\* An open-ended transfer has no completion threshold.
Sized == command.size > 0

\* The queue, the reopen latch and error_code survive a BEGIN.
BeginTrajectoryTransfer ==
    /\ Consuming("Begin")
    /\ currentTrajectoryId' = command.id
    /\ transferMoveOpen' = TRUE
    /\ pendingFinal' = TRUE
    /\ cumulativeExpectedFrames' =
          IF Sized THEN cumulativeExpectedFrames + 2 * command.size
          ELSE cumulativeExpectedFrames
    /\ trajectoryCompletions' =
          IF Sized
            THEN Append(trajectoryCompletions,
                        [id |-> command.id, frames |-> cumulativeExpectedFrames'])
            ELSE trajectoryCompletions
    /\ Acknowledge
    /\ UNCHANGED <<command, errorCode, completedId, excessChunks, firstChunk,
                   totalFramesFed, recoveryVars, isMoving, firmwareVars, dropped>>

ChunkLen == IF command.len > ChunkCapacity THEN ChunkCapacity ELSE command.len

ChunkCarriesWork == ChunkLen > 0 \/ command.final

QueueFull == Len(excessChunks) >= MaxQueuedChunks

\* The chunk is copied into the FIFO; DrainQueue runs before the acknowledge.
AppendTrajectory ==
    /\ Consuming("AppendChunk")
    /\ ~(ChunkCarriesWork /\ QueueFull)
    /\ excessChunks' =
          IF ChunkCarriesWork
            THEN Append(excessChunks, [id |-> currentTrajectoryId,
                                       len |-> ChunkLen, final |-> command.final])
            ELSE excessChunks
    /\ turn' = "drainChunk"
    /\ UNCHANGED <<command, ackSequence, errorCode, completedId, pendingFinal,
                   transferMoveOpen, firstChunk, completionVars, recoveryVars,
                   isMoving, firmwareVars, dropped>>

\* The runaway backstop: the chunk that does not fit kills the transfer.
AppendOverflows ==
    /\ Consuming("AppendChunk")
    /\ ChunkCarriesWork /\ QueueFull
    /\ errorCode' = QueueOverflow
    /\ ForgetStop
    /\ AbortGroup
    /\ ClearTransfer
    /\ ResetCompletionTracking
    /\ Drop(QueuedIds \cup FrameIds \cup {currentTrajectoryId})
    /\ Acknowledge
    /\ UNCHANGED <<command, isMoving>>

HandleAbort ==
    /\ Consuming("Abort")
    /\ ForgetStop
    /\ AbortGroup
    /\ ClearTransfer
    /\ ResetCompletionTracking
    /\ Drop(QueuedIds \cup FrameIds)
    /\ Acknowledge
    /\ UNCHANGED <<command, errorCode, isMoving>>

HandleStop ==
    /\ Consuming("Stop")
    /\ stopRecoverPending' = FALSE
    /\ commandedStopFault' = TRUE
    /\ EStop("commanded") \/ EStopThrows
    /\ ClearTransfer
    /\ ResetCompletionTracking
    /\ Drop(QueuedIds)
    /\ Acknowledge
    /\ UNCHANGED <<command, errorCode, isMoving>>

ResetMayClear ==
    \/ group = "STOPPED"
    \/ commandedStopFault /\ group = "ERROR"

\* Mutant of ResetMustWait: the e-stop that still decelerates is overlooked.
OnlyStoppingWaits == group = "STOPPING"

ResetMustWait ==
    \/ group = "STOPPING"
    \/ commandedStopFault /\ group = "STOPPING_ERROR"

\* The only place error_code is cleared. The group is recovered from a stop,
\* now or (stopRecoverPending) once it has settled, never from a real fault.
HandleReset ==
    /\ Consuming("Reset")
    /\ ClearTransfer
    /\ errorCode' = 0
    /\ ResetCompletionTracking
    /\ IF ResetMayClear
         THEN ClearFaults /\ Drop(QueuedIds \cup FrameIds)
         ELSE UNCHANGED firmwareVars /\ Drop(QueuedIds)
    /\ stopRecoverPending' = (stopRecoverPending \/ ResetMustWait)
    /\ commandedStopFault' = (commandedStopFault /\ stopRecoverPending')
    /\ Acknowledge
    /\ UNCHANGED <<command, isMoving>>

-------------------------------------------------------------------------------
(* write()'s catch: HandleWriteFault. The command, if any, stays un-acked. *)

\* The group may have left the state the reopen gate read.
MovePVTRejected ==
    Feeding /\ HeadFits /\ group \notin {"IDLE", "MOVING"}

CallMayThrow ==
    \/ Draining
    \/ Feeding /\ excessChunks # <<>>
    \/ Consuming("Reset")
    \/ Consuming("Abort")
    \/ Consuming("AppendChunk") /\ ChunkCarriesWork /\ QueueFull

WriteFails ==
    /\ MovePVTRejected \/ (CallFaults /\ CallMayThrow)
    /\ EStop("fault") \/ EStopThrows
    /\ AbortTransfer(WriteFault)
    /\ turn' = "read"
    /\ UNCHANGED <<command, ackSequence, isMoving>>

-------------------------------------------------------------------------------
(* The firmware, and the people who can reach it without the plugin.       *)

pluginVars == <<interfaceVars, queueVars, completionVars, recoveryVars, isMoving>>

ExecuteFrame ==
    /\ group \in {"MOVING", "STOPPING"}
    /\ frames # <<>>
    /\ frames' = Tail(frames)
    /\ UNCHANGED <<pluginVars, group, streamOpen, cause, dropped>>

MotionDone ==
    /\ group = "MOVING"
    /\ frames = <<>>
    /\ ~streamOpen
    /\ group' = "IDLE"
    /\ cause' = "none"
    /\ UNCHANGED <<pluginVars, frames, streamOpen, dropped>>

FirmwareFault ==
    /\ group' = "STOPPING_ERROR"
    /\ cause' = "fault"
    /\ streamOpen' = FALSE
    /\ UNCHANGED <<pluginVars, frames, dropped>>

\* An open move that runs low on frames is e-stopped by the firmware.
OutOfFrames ==
    /\ group \in {"MOVING", "STOPPING"}
    /\ streamOpen
    /\ Len(frames) < EmptyCount
    /\ FirmwareFault

DriveTrips ==
    /\ DriveFaults
    /\ ~Faulted
    /\ FirmwareFault

\* Stop() from outside decelerates and leaves the streamed move open.
ExternalStop ==
    /\ ExternalStops
    /\ group = "MOVING"
    /\ group' = "STOPPING"
    /\ cause' = "external"
    /\ UNCHANGED <<pluginVars, frames, streamOpen, dropped>>

GroupSettles ==
    /\ group \in {"STOPPING", "STOPPING_ERROR"}
    /\ group' = IF group = "STOPPING" THEN "STOPPED" ELSE "ERROR"
    /\ UNCHANGED <<pluginVars, frames, streamOpen, cause, dropped>>

\* The operator repairs a drive and clears its fault by hand, long after the
\* DrainQueue that saw it; an unlatched commanded stop is left to Reset.
OperatorClearsFaults ==
    /\ turn = "read"
    /\ group = "ERROR"
    /\ ~TransferPending
    /\ ~(stopRecoverPending /\ commandedStopFault)
    /\ cause # "commanded" \/ errorCode # 0
    /\ ClearFaults
    /\ Drop(FrameIds)
    /\ UNCHANGED pluginVars

-------------------------------------------------------------------------------

WriteStep ==
    \/ DrainLatchesFault \/ DrainClearsCommandedStop \/ DrainClearsStopped
    \/ DrainHolds \/ DrainStarts \/ FeedNext \/ FeedEnds
    \/ NothingToConsume \/ ConsumeNone \/ BeginTrajectoryTransfer
    \/ AppendTrajectory \/ AppendOverflows \/ HandleAbort \/ HandleStop
    \/ HandleReset \/ WriteFails

FirmwareStep ==
    \/ ExecuteFrame \/ MotionDone \/ OutOfFrames \/ DriveTrips
    \/ ExternalStop \/ GroupSettles \/ OperatorClearsFaults

HardwareStep == Read \/ ReadFails \/ WriteStep \/ FirmwareStep

-------------------------------------------------------------------------------

\* Completion thresholds rise strictly with every sized BEGIN and the newest
\* one equals the running total, so UpdateCompletion, which pops them from
\* the front, can neither skip a trajectory nor report one before its
\* predecessors (BeginTrajectoryTransfer, UpdateCompletion).
ThresholdsAscend ==
    /\ \A i, j \in DOMAIN trajectoryCompletions :
          i < j => trajectoryCompletions[i].frames < trajectoryCompletions[j].frames
    /\ \A i \in DOMAIN trajectoryCompletions :
          trajectoryCompletions[i].frames \in 1 .. cumulativeExpectedFrames
===============================================================================
