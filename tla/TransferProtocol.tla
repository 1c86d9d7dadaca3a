--------------------------- MODULE TransferProtocol ---------------------------
(***************************************************************************)
(* The trajectory_transfer interfaces of ros2_control that join the        *)
(* passthrough controller to the RapidCode hardware plugin: a single-slot  *)
(* mailbox (the command interfaces) and the state scalars that answer it.  *)
(* Both components run on one control thread, which calls                  *)
(* hardware.read(), controller.update() and hardware.write() in turn.      *)
(*                                                                         *)
(* Payload values (positions, velocities, durations) are not modelled: a   *)
(* chunk is its trajectory id, its number of points and its final flag.    *)
(***************************************************************************)
EXTENDS Integers, Sequences

Token == {"None", "Reset", "Abort", "Begin", "AppendChunk", "Stop"}

\* The command interfaces keep their last value, so each command rewrites
\* only the fields it uses.
Command == [seq : Nat, token : Token, id : Nat, size : Int,
            len : Nat, final : BOOLEAN]

NoCommand == [seq |-> 0, token |-> "None", id |-> 0, size |-> 0,
              len |-> 0, final |-> FALSE]

ErrorCode == 0 .. 3
QueueOverflow == 1
WriteFault    == 2
DriveFault    == 3

\* Where the control thread is. write() runs DrainQueue ("drain" checks the
\* group, "feed" is its loop), then ConsumePendingCommand ("command"); an
\* AppendChunk runs DrainQueue once more ("drainChunk", "feedChunk"). The
\* firmware is a concurrent process, so each of its calls is a step.
Turn == {"read", "update", "drain", "feed", "command", "drainChunk", "feedChunk"}

VARIABLES
    turn,           \* what the control thread runs next
    command,        \* the command interfaces (controller to hardware)
    ackSequence,    \* ack_sequence (hardware to controller)
    errorCode,      \* error_code
    completedId     \* completed_trajectory_id

interfaceVars == <<turn, command, ackSequence, errorCode, completedId>>

\* Single-slot handshake: the hardware has consumed the last command.
PrevAcked == ackSequence = command.seq

\* A command waits in the mailbox.
CommandWaiting == command.seq > ackSequence

\* EmitCommand(command, emit = true): token and fields c in the slot, then a
\* new sequence number.
Emit(c) == command' = [c EXCEPT !.seq = command.seq + 1]

\* EmitCommand(None, emit = false): the token is overwritten, the sequence
\* number is not.
EmitNothing == command' = [command EXCEPT !.token = "None"]

InterfaceTypeOK ==
    /\ turn \in Turn
    /\ command \in Command
    /\ ackSequence \in Nat
    /\ errorCode \in ErrorCode
    /\ completedId \in Nat

InterfaceInit ==
    /\ turn = "read"
    /\ command = NoCommand
    /\ ackSequence = 0
    /\ errorCode = 0
    /\ completedId = 0
===============================================================================
