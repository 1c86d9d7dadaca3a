----------------------- MODULE HardwareUnderClient_proofs -----------------------
(***************************************************************************)
(* What holds of the plugin under every client of its mailbox, for every   *)
(* queue, buffer and chunk size.                                           *)
(***************************************************************************)
EXTENDS HardwareUnderClient, RapidCodeHardware_proofs

\* Every variable of the mailbox, the plugin and the firmware keeps its type,
\* whatever commands the client sends and wherever a fault strikes.
THEOREM TypeCorrect == Spec => []TypeOK
<1>1. Init => TypeOK
  BY InitialTypes DEF Init, TypeOK, HardwareTypes
<1>2. TypeOK /\ [Next]_vars => TypeOK'
  <2> SUFFICES ASSUME TypeOK, [Next]_vars
               PROVE  TypeOK'
    OBVIOUS
  <2>1. CASE HardwareStep
    BY <2>1, HardwareTypesStep DEF TypeOK, HardwareTypes
  <2>2. CASE Client
    <3>1. turn' \in Turn /\ command' \in Command
      <4>1. CASE ClientQuiet
        BY <4>1 DEF ClientQuiet, EmitNothing, TypeOK, InterfaceTypeOK, Command, Token, Turn
      <4>2. CASE \E r \in Requests : ClientEmits(r)
        BY <4>2, ClientAssumption
        DEF ClientEmits, TypeOK, InterfaceTypeOK, Command, Turn
      <4> QED
        BY <2>2, <4>1, <4>2 DEF Client
    <3>2. UNCHANGED <<ackSequence, errorCode, completedId, hardwareVars>>
      BY <2>2 DEF Client, ClientQuiet, ClientEmits
    <3> QED
      BY <3>1, <3>2
      DEF TypeOK, InterfaceTypeOK, HardwareTypeOK, hardwareVars, queueVars,
          completionVars, recoveryVars, firmwareVars
  <2>3. CASE UNCHANGED vars
    BY <2>3
    DEF vars, interfaceVars, TypeOK, InterfaceTypeOK, HardwareTypeOK, hardwareVars,
        queueVars, completionVars, recoveryVars, firmwareVars
  <2> QED
    BY <2>1, <2>2, <2>3 DEF Next
<1> QED
  BY <1>1, <1>2, PTL DEF Spec

\* Completion thresholds ascend strictly under every client: the plugin never
\* skips a trajectory nor reports one before its predecessors.
THEOREM ThresholdsAlwaysAscend == Spec => []ThresholdsAscend
<1>1. Init => ThresholdsAscend
  BY DEF Init, HardwareInit, ThresholdsAscend
<1>2. TypeOK /\ ThresholdsAscend /\ [Next]_vars => ThresholdsAscend'
  <2> SUFFICES ASSUME TypeOK, ThresholdsAscend, [Next]_vars
               PROVE  ThresholdsAscend'
    OBVIOUS
  <2>1. CASE HardwareStep
    BY <2>1, ThresholdsStep DEF TypeOK, HardwareTypes
  <2>2. CASE Client \/ UNCHANGED vars
    BY <2>2
    DEF Client, ClientQuiet, ClientEmits, vars, hardwareVars, completionVars,
        ThresholdsAscend
  <2> QED
    BY <2>1, <2>2 DEF Next
<1> QED
  BY <1>1, <1>2, TypeCorrect, PTL DEF Spec
===============================================================================
