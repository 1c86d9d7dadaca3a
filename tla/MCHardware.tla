------------------------------ MODULE MCHardware ------------------------------
(***************************************************************************)
(* HardwareUnderClient for TLC: a client with every token, a sized         *)
(* trajectory and an open-ended one, and chunks up to beyond the capacity. *)
(***************************************************************************)
EXTENDS HardwareUnderClient, SequencesExt

Request(token, id, size, len, final) ==
    [token |-> token, id |-> id, size |-> size, len |-> len, final |-> final]

MCRequests ==
    {Request(t, 0, 0, 0, FALSE) : t \in {"Reset", "Abort", "Stop"}}
    \cup {Request("Begin", 1, 2, 0, FALSE), Request("Begin", 0, -1, 0, FALSE)}
    \cup {Request("AppendChunk", 0, 0, 1, FALSE), Request("AppendChunk", 0, 0, 3, TRUE)}

\* The stream MotionStream speaks of: what the firmware holds, without the
\* frames it added itself, then what the host FIFO holds. What a fault, a stop
\* or a deferred Reset will discard has left the stream already: of a stopped
\* group only the chunks queued behind that Reset will be executed.
ChunkFrames(chunk) == [i \in 1 .. NeededFrames(chunk) |-> chunk.id]

Halted == group \in {"STOPPING", "STOPPED"}

Buffered == IF Halted THEN <<>> ELSE SelectSeq(frames, LAMBDA id : id # Closing)

Stream ==
    IF Faulted \/ (Halted /\ ~stopRecoverPending) THEN <<>>
    ELSE Buffered
         \o FlattenSeq([i \in DOMAIN excessChunks |-> ChunkFrames(excessChunks[i])])

Promise == INSTANCE MotionStream WITH
    stream <- Stream, MaxExtension <- 2 * ChunkCapacity

\* Whatever the client does, and wherever a stop, a reset or a fault strikes,
\* the FIFO and the firmware buffer together behave as the stream of
\* MotionStream: DrainQueue feeds in order, once, and nothing from behind a
\* discarded point (AppendTrajectory, DrainQueue, HandleStop, AbortTransfer).
StreamsMotion == Promise!Spec
===============================================================================
