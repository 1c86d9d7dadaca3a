-------------------------- MODULE HardwareUnderClient --------------------------
(***************************************************************************)
(* The hardware plugin under an arbitrary client of its mailbox: any token *)
(* with any fields, in any order, bound only by the handshake. A Stop may  *)
(* overwrite a command that was not acknowledged (a deactivating           *)
(* controller does that).                                                  *)
(***************************************************************************)
EXTENDS RapidCodeHardware

CONSTANTS
    MaxCommands,        \* bound on the sequence numbers a client issues
    Requests            \* the commands a client issues, without seq

ASSUME ClientAssumption ==
    /\ MaxCommands \in Nat
    /\ Requests \subseteq [token : Token, id : Nat, size : Int,
                           len : Nat, final : BOOLEAN]

vars == <<interfaceVars, hardwareVars>>

Init == InterfaceInit /\ HardwareInit

ClientQuiet ==
    /\ turn = "update"
    /\ turn' = "drain"
    /\ EmitNothing
    /\ UNCHANGED <<ackSequence, errorCode, completedId, hardwareVars>>

ClientEmits(r) ==
    /\ turn = "update"
    /\ turn' = "drain"
    /\ PrevAcked \/ r.token = "Stop"
    /\ command.seq < MaxCommands
    /\ command' = [seq |-> command.seq + 1, token |-> r.token, id |-> r.id,
                   size |-> r.size, len |-> r.len, final |-> r.final]
    /\ UNCHANGED <<ackSequence, errorCode, completedId, hardwareVars>>

Client == ClientQuiet \/ \E r \in Requests : ClientEmits(r)

Next == Client \/ HardwareStep

Spec == Init /\ [][Next]_vars

\* The control loop is periodic and a decelerating group comes to rest; the
\* client, the faults and the people owe nothing.
FairSpec ==
    /\ Spec
    /\ WF_vars(Client \/ Read \/ WriteStep)
    /\ WF_vars(GroupSettles)

TypeOK == InterfaceTypeOK /\ HardwareTypeOK

-------------------------------------------------------------------------------

\* A Reset that raced the deceleration of a stop is honoured once the group
\* has settled, without a second Reset, unless a fault or a later stop or
\* abort supersedes it (HandleReset, DrainQueue, stopRecoverPending).
DeferredResetRecovers ==
    (stopRecoverPending /\ group \in {"STOPPING", "STOPPING_ERROR"})
        ~> (~stopRecoverPending \/ group = "IDLE" \/ cause = "fault")
===============================================================================
