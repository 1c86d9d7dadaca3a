--------------------------- MODULE DocumentedClaims ---------------------------
(***************************************************************************)
(* What comments of the plugin and of the controller say of the assembled  *)
(* system and it does not do: each run expects a counterexample.           *)
(***************************************************************************)
EXTENDS TransferSystem

\* "error_code stays 0: this is an operator action, not a fault"
\* (rapidcode_system_hardware.cpp:1442, HandleStop): the plugin never latches
\* a drive fault for an e-stop it commanded itself.
CommandedStopIsNoFault ==
    [][(errorCode' = DriveFault /\ errorCode # DriveFault) => cause # "commanded"]_vars

\* "ordered after the pending Stop so a release can never overtake the stop
\* itself" (passthrough_trajectory_controller.hpp:280, ServiceOperatorStop): the
\* Reset that releases a stop latch finds the group stopped by that stop (one
\* whose e-stop threw aside, which the comment does not speak of).
ReleaseFollowsStop ==
    (Consuming("Reset") /\ cause # "unstopped") => group # "MOVING"
===============================================================================
