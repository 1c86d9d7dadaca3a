------------------------ MODULE RapidCodeHardware_proofs ------------------------
(***************************************************************************)
(* Lemmas about the steps of the plugin and the firmware, whoever the      *)
(* client of the mailbox is: they keep the types and the completion        *)
(* thresholds. The theorems about a whole specification cite them.         *)
(***************************************************************************)
EXTENDS RapidCodeHardware, SequenceTheorems, TLAPS

HardwareTypes == InterfaceTypeOK /\ HardwareTypeOK

FirmwareTypes ==
    /\ group' \in GroupState
    /\ cause' \in Cause
    /\ streamOpen' \in BOOLEAN
    /\ frames' \in Seq(Int)

\* What a call into the firmware leaves behind is a state of the firmware.
LEMMA CallTypes ==
    ASSUME HardwareTypes,
           \/ \E why \in Cause : EStop(why)
           \/ EStopThrows
           \/ AbortGroup
           \/ ClearFaults
           \/ \E chunk \in Chunk : MovePVT(chunk)
           \/ UNCHANGED firmwareVars
    PROVE  FirmwareTypes
<1> USE DEF HardwareTypes, HardwareTypeOK, FirmwareTypes, GroupState, Cause
<1>1. CASE \E why \in Cause : EStop(why)
  BY <1>1 DEF EStop
<1>6. CASE EStopThrows
  BY <1>6 DEF EStopThrows
<1>2. CASE AbortGroup
  BY <1>2, EmptySeq DEF AbortGroup
<1>3. CASE ClearFaults
  BY <1>3, EmptySeq DEF ClearFaults
<1>4. CASE UNCHANGED firmwareVars
  BY <1>4 DEF firmwareVars
  \* Feeding a chunk appends frames with its label (MovePVT in FeedChunk).
<1>5. ASSUME NEW chunk \in Chunk, MovePVT(chunk)
      PROVE  FirmwareTypes
  <2>1. PICK extra \in 0 .. ClosingFrames :
            frames' = frames \o [i \in 1 .. NeededFrames(chunk) |-> chunk.id]
                             \o [i \in 1 .. extra |-> Closing]
    BY <1>5 DEF MovePVT
  <2>2. /\ NeededFrames(chunk) \in Nat
        /\ chunk.id \in Int
        /\ chunk.final \in BOOLEAN
        /\ extra \in Nat
        /\ Closing \in Int
    BY FirmwareAssumption DEF Chunk, NeededFrames, Closing
  <2>8. ASSUME NEW n \in Nat, NEW label \in Int
        PROVE  [i \in 1 .. n |-> label] \in Seq(Int)
    <3>1. [i \in 1 .. n |-> label] \in [1 .. n -> Int]
      OBVIOUS
    <3> QED
      BY <3>1, SeqDef
  <2>3. [i \in 1 .. NeededFrames(chunk) |-> chunk.id] \in Seq(Int)
    BY <2>2, <2>8
  <2>4. [i \in 1 .. extra |-> Closing] \in Seq(Int)
    BY <2>2, <2>8
  <2>5. frames \in Seq(Int)
    BY DEF HardwareTypes, HardwareTypeOK
  <2>6. frames \o [i \in 1 .. NeededFrames(chunk) |-> chunk.id] \in Seq(Int)
    BY <2>3, <2>5, ConcatProperties
  <2>7. frames' \in Seq(Int)
    BY <2>1, <2>4, <2>6, ConcatProperties
  <2> QED
    BY <1>5, <2>2, <2>7 DEF MovePVT, FirmwareTypes, HardwareTypes, HardwareTypeOK, GroupState, Cause
<1> QED
  BY <1>1, <1>2, <1>3, <1>4, <1>5, <1>6

\* UpdateCompletion leaves a suffix of the thresholds and publishes an id.
LEMMA UpdateCompletionTypes ==
    ASSUME HardwareTypes, UpdateCompletion
    PROVE  /\ trajectoryCompletions' \in Seq(Completion)
           /\ completedId' \in Nat
<1> DEFINE T == trajectoryCompletions
<1>1. T \in Seq(Completion) /\ completedId \in Nat
  BY DEF HardwareTypes, InterfaceTypeOK, HardwareTypeOK
<1>2. PICK n \in 0 .. Len(T) :
          /\ T' = SubSeq(T, n + 1, Len(T))
          /\ completedId' = IF n = 0 THEN completedId ELSE T[n].id
  BY DEF UpdateCompletion, NewestRetired
<1>3. /\ Len(T) \in Nat
      /\ n \in Nat
      /\ \A i \in 1 .. Len(T) : T[i] \in Completion
  BY <1>1, LenProperties, ElementOfSeq
<1>4. T' \in Seq(Completion)
  <2>1. \A i \in (n + 1) .. Len(T) : T[i] \in Completion
    BY <1>3
  <2>2. n + 1 \in Int /\ Len(T) \in Int
    BY <1>3
  <2>3. SubSeq(T, n + 1, Len(T)) \in Seq(Completion)
    BY <2>1, <2>2, SubSeqProperties
  <2> QED
    BY <1>2, <2>3
<1>5. completedId' \in Nat
  BY <1>1, <1>2, <1>3 DEF Completion
<1> QED
  BY <1>4, <1>5

\* The parts shared by the handlers of write() set variables to constants, and
\* the trajectories that may lose a point are labels of chunks and frames.
LEMMA HandlerTypes ==
    ASSUME HardwareTypes
    PROVE  /\ ClearTransfer => /\ excessChunks' \in Seq(Chunk)
                               /\ pendingFinal' \in BOOLEAN
                               /\ transferMoveOpen' \in BOOLEAN
                               /\ firstChunk' \in BOOLEAN
           /\ ResetCompletionTracking =>
                               /\ trajectoryCompletions' \in Seq(Completion)
                               /\ totalFramesFed' \in Nat
                               /\ cumulativeExpectedFrames' \in Nat
                               /\ currentTrajectoryId' \in Nat
                               /\ completedId' \in Nat
           /\ Acknowledge => turn' \in Turn /\ ackSequence' \in Nat
           /\ ReturnFromDrain => turn' \in Turn /\ ackSequence' \in Nat
           /\ QueuedIds \subseteq Int /\ FrameIds \subseteq Int
<1>1. <<>> \in Seq(Chunk) /\ <<>> \in Seq(Completion)
  BY EmptySeq
<1>2. command.seq \in Nat /\ ackSequence \in Nat
  BY DEF HardwareTypes, InterfaceTypeOK, Command
<1>3. ClearTransfer => /\ excessChunks' \in Seq(Chunk)
                       /\ pendingFinal' \in BOOLEAN
                       /\ transferMoveOpen' \in BOOLEAN
                       /\ firstChunk' \in BOOLEAN
  BY <1>1 DEF ClearTransfer
<1>4. ResetCompletionTracking => /\ trajectoryCompletions' \in Seq(Completion)
                                 /\ totalFramesFed' \in Nat
                                 /\ cumulativeExpectedFrames' \in Nat
                                 /\ currentTrajectoryId' \in Nat
                                 /\ completedId' \in Nat
  BY <1>1 DEF ResetCompletionTracking
<1>5. Acknowledge => turn' \in Turn /\ ackSequence' \in Nat
  BY <1>2 DEF Acknowledge, Turn
<1>6. ReturnFromDrain => turn' \in Turn /\ ackSequence' \in Nat
  BY <1>2, <1>5 DEF ReturnFromDrain, Turn
<1>7. QueuedIds \subseteq Int /\ FrameIds \subseteq Int
  <2>1. excessChunks \in Seq(Chunk) /\ frames \in Seq(Int)
    BY DEF HardwareTypes, HardwareTypeOK
  <2>2. \A i \in DOMAIN excessChunks : excessChunks[i] \in Chunk
    BY <2>1, LenProperties, ElementOfSeq
  <2>3. \A i \in DOMAIN frames : frames[i] \in Int
    BY <2>1, LenProperties, ElementOfSeq
  <2> QED
    BY <2>2, <2>3 DEF QueuedIds, FrameIds, Chunk
<1> QED
  BY <1>3, <1>4, <1>5, <1>6, <1>7

\* An activated plugin at rest, with an empty mailbox, has its types.
LEMMA InitialTypes == InterfaceInit /\ HardwareInit => HardwareTypes
<1>1. /\ <<>> \in Seq(Chunk)
      /\ <<>> \in Seq(Completion)
      /\ <<>> \in Seq(Int)
  BY EmptySeq
<1>2. NoCommand \in Command
  BY DEF NoCommand, Command, Token
<1>3. InterfaceInit => InterfaceTypeOK
  BY <1>2
  DEF InterfaceInit, InterfaceTypeOK, Turn, ErrorCode, QueueOverflow, WriteFault, DriveFault
<1>4. HardwareInit => HardwareTypeOK
  <2> SUFFICES ASSUME HardwareInit
               PROVE  HardwareTypeOK
    OBVIOUS
  <2>1. /\ excessChunks \in Seq(Chunk)
        /\ trajectoryCompletions \in Seq(Completion)
        /\ frames \in Seq(Int)
    BY <1>1 DEF HardwareInit
  <2>2. /\ currentTrajectoryId \in Nat
        /\ totalFramesFed \in Nat
        /\ cumulativeExpectedFrames \in Nat
        /\ dropped \in SUBSET Int
    BY DEF HardwareInit
  <2>3. group \in GroupState /\ cause \in Cause
    BY DEF HardwareInit, GroupState, Cause
  <2>4. /\ pendingFinal \in BOOLEAN /\ transferMoveOpen \in BOOLEAN
        /\ firstChunk \in BOOLEAN /\ stopRecoverPending \in BOOLEAN
        /\ commandedStopFault \in BOOLEAN /\ isMoving \in BOOLEAN
        /\ streamOpen \in BOOLEAN
    BY DEF HardwareInit
  <2> QED
    BY <2>1, <2>2, <2>3, <2>4 DEF HardwareTypeOK
<1> QED
  BY <1>3, <1>4 DEF HardwareTypes

-------------------------------------------------------------------------------

\* Every step of the plugin and of the firmware keeps the types: write()'s
\* handlers, read() and what the firmware does on its own.
LEMMA HardwareTypesStep ==
    ASSUME HardwareTypes, HardwareStep
    PROVE  HardwareTypes'
<1> USE DEF HardwareTypes, InterfaceTypeOK, HardwareTypeOK, FirmwareTypes
<1> USE DEF queueVars, completionVars, recoveryVars, firmwareVars
<1>1. CASE Read
  BY <1>1, UpdateCompletionTypes DEF Read, PublishIsMoving, Turn
<1>2. CASE ReadFails
  BY <1>2 DEF ReadFails, PublishIsMoving, Turn
<1>3. CASE DrainLatchesFault
  <2>1. errorCode' \in ErrorCode
    BY <1>3 DEF DrainLatchesFault, AbortTransfer, ErrorCode, QueueOverflow, WriteFault, DriveFault
  <2> QED
    BY <1>3, <2>1, HandlerTypes
    DEF DrainLatchesFault, AbortTransfer, ForgetStop, Drop
<1>4. CASE DrainClearsCommandedStop
  BY <1>4, HandlerTypes, CallTypes
  DEF DrainClearsCommandedStop, ForgetStop, Drop
<1>5. CASE DrainClearsStopped
  BY <1>5, HandlerTypes, CallTypes DEF DrainClearsStopped, Drop
<1>6. CASE DrainHolds
  BY <1>6, HandlerTypes DEF DrainHolds
<1>7. CASE DrainStarts
  BY <1>7 DEF DrainStarts, Turn
<1>8. CASE FeedNext
  <2>1. /\ excessChunks # <<>>
        /\ Head(excessChunks) \in Chunk
        /\ Tail(excessChunks) \in Seq(Chunk)
    BY <1>8, HeadTailProperties DEF FeedNext, HeadFits
  <2>2. MovePVT(Head(excessChunks))
    BY <1>8 DEF FeedNext
  <2>3. FirmwareTypes
    BY <2>1, <2>2, CallTypes
  <2>4. turn' \in Turn /\ ackSequence' \in Nat
    BY <1>8, HandlerTypes DEF FeedNext
  <2>5. /\ NeededFrames(Head(excessChunks)) \in Nat
        /\ Head(excessChunks).final \in BOOLEAN
    BY <2>1 DEF NeededFrames, Chunk
  <2> QED
    BY <1>8, <2>1, <2>3, <2>4, <2>5 DEF FeedNext, ReopensAfter
<1>9. CASE FeedEnds
  BY <1>9, HandlerTypes DEF FeedEnds
<1>10. CASE NothingToConsume
  BY <1>10 DEF NothingToConsume, hardwareVars, Turn
<1>11. CASE ConsumeNone
  BY <1>11, HandlerTypes DEF ConsumeNone, hardwareVars
<1>12. CASE BeginTrajectoryTransfer
  <2>1. command.id \in Nat /\ command.size \in Int
    BY DEF Command
  <2>2. cumulativeExpectedFrames' \in Nat
    BY <1>12, <2>1 DEF BeginTrajectoryTransfer, Sized
  <2>3. [id |-> command.id, frames |-> cumulativeExpectedFrames'] \in Completion
    BY <2>1, <2>2 DEF Completion
  <2>4. trajectoryCompletions' \in Seq(Completion)
    BY <1>12, <2>3, AppendProperties DEF BeginTrajectoryTransfer
  <2> QED
    BY <1>12, <2>1, <2>2, <2>4, HandlerTypes DEF BeginTrajectoryTransfer
<1>13. CASE AppendTrajectory
  <2>1. command.len \in Nat /\ command.final \in BOOLEAN
    BY DEF Command
  <2>2. [id |-> currentTrajectoryId, len |-> ChunkLen, final |-> command.final] \in Chunk
    BY <2>1, CapacityAssumption DEF Chunk, ChunkLen
  <2>3. excessChunks' \in Seq(Chunk)
    BY <1>13, <2>2, AppendProperties DEF AppendTrajectory
  <2> QED
    BY <1>13, <2>3 DEF AppendTrajectory, Turn
<1>14. CASE AppendOverflows
  <2>1. errorCode' \in ErrorCode
    BY <1>14 DEF AppendOverflows, ErrorCode, QueueOverflow, WriteFault, DriveFault
  <2>2. FirmwareTypes
    BY <1>14, CallTypes DEF AppendOverflows
  <2>3. dropped' \in SUBSET Int
    <3>1. {currentTrajectoryId} \subseteq Int
      OBVIOUS
    <3>2. dropped' = dropped \cup (QueuedIds \cup FrameIds \cup {currentTrajectoryId})
      BY <1>14 DEF AppendOverflows, Drop
    <3> QED
      BY <3>1, <3>2, HandlerTypes
  <2> QED
    BY <1>14, <2>1, <2>2, <2>3, HandlerTypes DEF AppendOverflows, ForgetStop
<1>15. CASE HandleAbort
  BY <1>15, HandlerTypes, CallTypes DEF HandleAbort, ForgetStop, Drop
<1>16. CASE HandleStop
  BY <1>16, HandlerTypes, CallTypes DEF HandleStop, Cause, Drop
<1>17. CASE HandleReset
  <2>1. errorCode' \in ErrorCode
    BY <1>17 DEF HandleReset, ErrorCode, QueueOverflow, WriteFault, DriveFault
  <2>2. FirmwareTypes
    BY <1>17, CallTypes DEF HandleReset
  <2>3. dropped' \in SUBSET Int
    BY <1>17, HandlerTypes DEF HandleReset, Drop
  <2>4. /\ stopRecoverPending' \in BOOLEAN
        /\ commandedStopFault' \in BOOLEAN
    BY <1>17 DEF HandleReset
  <2> QED
    BY <1>17, <2>1, <2>2, <2>3, <2>4, HandlerTypes DEF HandleReset
<1>18. CASE WriteFails
  <2>1. errorCode' \in ErrorCode
    BY <1>18 DEF WriteFails, AbortTransfer, ErrorCode, QueueOverflow, WriteFault, DriveFault
  <2>2. FirmwareTypes
    BY <1>18, CallTypes DEF WriteFails, Cause
  <2>3. dropped' \in SUBSET Int
    BY <1>18, HandlerTypes DEF WriteFails, AbortTransfer, Drop
  <2>4. turn' \in Turn
    BY <1>18 DEF WriteFails, Turn
  <2> QED
    BY <1>18, <2>1, <2>2, <2>3, <2>4, HandlerTypes DEF WriteFails, AbortTransfer, ForgetStop
<1>19. CASE FirmwareStep
  <2>1. UNCHANGED pluginVars
    BY <1>19
    DEF FirmwareStep, ExecuteFrame, MotionDone, OutOfFrames, DriveTrips, ExternalStop,
        GroupSettles, OperatorClearsFaults, FirmwareFault
  <2>2. dropped' \in SUBSET Int
    BY <1>19, HandlerTypes
    DEF FirmwareStep, ExecuteFrame, MotionDone, OutOfFrames, DriveTrips, ExternalStop,
        GroupSettles, OperatorClearsFaults, FirmwareFault, Drop
  <2>3. FirmwareTypes
    <3>1. CASE ExecuteFrame
      BY <3>1, HeadTailProperties DEF ExecuteFrame
    <3>2. CASE OperatorClearsFaults
      BY <3>2, CallTypes DEF OperatorClearsFaults
    <3>3. CASE MotionDone \/ OutOfFrames \/ DriveTrips \/ ExternalStop \/ GroupSettles
      BY <3>3
      DEF MotionDone, OutOfFrames, DriveTrips, ExternalStop, GroupSettles,
          FirmwareFault, GroupState, Cause
    <3> QED
      BY <1>19, <3>1, <3>2, <3>3 DEF FirmwareStep
  <2> QED
    BY <2>1, <2>2, <2>3 DEF pluginVars, interfaceVars
<1> QED
  BY <1>1, <1>2, <1>3, <1>4, <1>5, <1>6, <1>7, <1>8, <1>9, <1>10, <1>11, <1>12,
     <1>13, <1>14, <1>15, <1>16, <1>17, <1>18, <1>19
  DEF HardwareStep, WriteStep

-------------------------------------------------------------------------------

\* Every step of the plugin keeps the completion thresholds strictly ascending
\* and within the running total: only BEGIN, UpdateCompletion and the handlers
\* that resynchronise the counters touch them.
LEMMA ThresholdsStep ==
    ASSUME HardwareTypes, ThresholdsAscend, HardwareStep
    PROVE  ThresholdsAscend'
<1> DEFINE T == trajectoryCompletions
<1> DEFINE total == cumulativeExpectedFrames
<1>1. /\ T \in Seq(Completion)
      /\ total \in Nat
      /\ command.size \in Int
  BY DEF HardwareTypes, InterfaceTypeOK, HardwareTypeOK, Command
<1>2. /\ Len(T) \in Nat
      /\ DOMAIN T = 1 .. Len(T)
      /\ \A i \in 1 .. Len(T) : T[i].frames \in 1 .. total
      /\ \A i, j \in 1 .. Len(T) : i < j => T[i].frames < T[j].frames
  BY <1>1, LenProperties DEF ThresholdsAscend
<1>3. CASE Read
  <2>1. PICK n \in 0 .. Len(T) : T' = SubSeq(T, n + 1, Len(T))
    BY <1>3 DEF Read, UpdateCompletion
  <2>2. total' = total
    BY <1>3 DEF Read
  <2>3. /\ T' \in Seq(Completion)
        /\ Len(T') = Len(T) - n
        /\ \A i \in 1 .. Len(T) - n : T'[i] = T[n + i]
    <3>1. \A i \in (n + 1) .. Len(T) : T[i] \in Completion
      BY <1>1, <1>2, ElementOfSeq
    <3>2. n + 1 \in Int /\ Len(T) \in Int
      BY <1>2
    <3> DEFINE s == SubSeq(T, n + 1, Len(T))
    <3>3. /\ s \in Seq(Completion)
          /\ Len(s) = IF n + 1 <= Len(T) THEN Len(T) - (n + 1) + 1 ELSE 0
          /\ \A i \in 1 .. Len(T) - (n + 1) + 1 : s[i] = T[n + 1 + i - 1]
      BY <3>1, <3>2, SubSeqProperties
    <3>4. /\ Len(s) = Len(T) - n
          /\ \A i \in 1 .. Len(T) - n : s[i] = T[n + i]
      BY <1>2, <3>3
    <3> QED
      BY <2>1, <3>3, <3>4
  <2>4. DOMAIN T' = 1 .. Len(T) - n
    BY <2>3, LenProperties
  <2>5. \A i \in 1 .. Len(T) - n : T'[i].frames \in 1 .. total
    BY <1>2, <2>3
  <2>6. \A i, j \in 1 .. Len(T) - n : i < j => T'[i].frames < T'[j].frames
    <3> SUFFICES ASSUME NEW i \in 1 .. Len(T) - n, NEW j \in 1 .. Len(T) - n, i < j
                 PROVE  T'[i].frames < T'[j].frames
      OBVIOUS
    <3>1. /\ n + i \in 1 .. Len(T)
          /\ n + j \in 1 .. Len(T)
          /\ n + i < n + j
      BY <1>2
    <3> QED
      BY <1>2, <2>3, <3>1
  <2> QED
    BY <2>2, <2>4, <2>5, <2>6 DEF ThresholdsAscend
<1>4. CASE BeginTrajectoryTransfer /\ Sized
  <2> DEFINE c == [id |-> command.id, frames |-> total']
  <2>1. /\ total' = total + 2 * command.size
        /\ T' = Append(T, c)
    BY <1>4 DEF BeginTrajectoryTransfer
  <2>2. total' \in Nat /\ total < total'
    BY <1>1, <1>4, <2>1 DEF Sized
  <2>3. c \in Completion
    <3>1. command.id \in Nat
      BY DEF HardwareTypes, InterfaceTypeOK, Command
    <3> QED
      BY <2>2, <3>1 DEF Completion
  <2>4. /\ T' \in Seq(Completion)
        /\ Len(T') = Len(T) + 1
        /\ \A i \in 1 .. Len(T) : T'[i] = T[i]
        /\ T'[Len(T) + 1] = c
    BY <1>1, <2>1, <2>3, AppendProperties
  <2>5. DOMAIN T' = 1 .. Len(T) + 1
    BY <2>4, LenProperties
  <2>6. c.frames = total'
    OBVIOUS
  <2>7. \A i \in 1 .. Len(T) + 1 : T'[i].frames \in 1 .. total'
    BY <1>1, <1>2, <2>2, <2>4, <2>6
  <2>8. \A i, j \in 1 .. Len(T) + 1 : i < j => T'[i].frames < T'[j].frames
    <3> SUFFICES ASSUME NEW i \in 1 .. Len(T) + 1, NEW j \in 1 .. Len(T) + 1, i < j
                 PROVE  T'[i].frames < T'[j].frames
      OBVIOUS
    <3>1. CASE j \in 1 .. Len(T)
      BY <1>2, <2>4, <3>1
    <3>2. CASE j = Len(T) + 1
      <4>1. i \in 1 .. Len(T)
        BY <1>2, <3>2
      <4>2. T[i].frames \in 1 .. total
        BY <1>2, <4>1
      <4>3. T'[i].frames = T[i].frames /\ T'[j].frames = total'
        BY <2>4, <2>6, <3>2, <4>1
      <4> QED
        BY <1>1, <2>2, <4>2, <4>3
    <3> QED
      BY <1>2, <3>1, <3>2
  <2> QED
    BY <2>5, <2>7, <2>8 DEF ThresholdsAscend
<1>5. CASE ResetCompletionTracking
  BY <1>5 DEF ResetCompletionTracking, ThresholdsAscend
<1>6. CASE UNCHANGED <<T, total>>
  BY <1>6 DEF ThresholdsAscend
<1>7. \/ Read
      \/ BeginTrajectoryTransfer /\ Sized
      \/ ResetCompletionTracking
      \/ UNCHANGED <<T, total>>
  BY DEF HardwareStep, WriteStep, FirmwareStep, ReadFails, DrainLatchesFault,
         DrainClearsCommandedStop, DrainClearsStopped, DrainHolds, DrainStarts,
         FeedNext, FeedEnds, NothingToConsume, ConsumeNone, BeginTrajectoryTransfer,
         AppendTrajectory, AppendOverflows, HandleAbort, HandleStop, HandleReset,
         WriteFails, AbortTransfer, ExecuteFrame, MotionDone, OutOfFrames, DriveTrips,
         ExternalStop, GroupSettles, OperatorClearsFaults, FirmwareFault,
         pluginVars, hardwareVars, completionVars
<1> QED
  BY <1>3, <1>4, <1>5, <1>6, <1>7
===============================================================================
