---------------------------- MODULE BatchExecutor ----------------------------
(***************************************************************************)
(* The finite-goal route: a queue of executions and park moves, served by  *)
(* the batch thread one at a time. What an item is made of is left out; it *)
(* streams goals from the moment the controller accepts the first one.     *)
(***************************************************************************)
EXTENDS RouteServices

CONSTANT MaxWork            \* bound on the queue

ASSUME MaxWorkAssumption == MaxWork \in Nat

VARIABLES
    work,           \* items on the queue
    batchBusy,
    batchThread     \* where the batch thread is

batchVars == <<work, batchBusy, batchThread>>

BatchInit == work = 0 /\ batchBusy = FALSE /\ batchThread = "get"

BatchTypeOK ==
    /\ work \in 0 .. MaxWork
    /\ batchBusy \in BOOLEAN
    /\ batchThread \in {"get", "taken", "clearLatch", "run", "moving", "ended", "report"}

-------------------------------------------------------------------------------
(* Called by the coordination thread.                                      *)

\* execute() and park(): the result comes back as a route event.
BatchSubmit ==
    /\ work < MaxWork
    /\ work' = work + 1
    /\ UNCHANGED <<batchBusy, batchThread>>

BatchMayReset == ~batchBusy

-------------------------------------------------------------------------------
(* The batch thread.                                                       *)

BatchAt(from, to) == batchThread = from /\ batchThread' = to

TakeWork ==
    /\ BatchAt("get", "taken")
    /\ work > 0
    /\ work' = work - 1
    /\ UNCHANGED <<batchBusy, serviceVars>>

SetBusy ==
    /\ BatchAt("taken", "clearLatch")
    /\ batchBusy' = TRUE
    /\ UNCHANGED <<work, serviceVars>>

\* _clear_latch drops a standing latch whoever set it, and ignores the answer.
ClearLatch ==
    /\ BatchAt("clearLatch", "run")
    /\ \E success \in BOOLEAN : ResetCall(success)
    /\ UNCHANGED <<work, batchBusy, routeEvents>>

\* The controller accepts the first goal of the item only while not latched.
BatchGoalAccepted ==
    /\ BatchAt("run", "moving")
    /\ ~latch
    /\ UNCHANGED <<work, batchBusy, serviceVars>>

\* Mutant of RunEnds: an exception ends the item without a report.
RunEndsUnreported ==
    /\ batchThread \in {"run", "moving"}
    /\ batchThread' = "get"
    /\ UNCHANGED <<work, batchBusy, serviceVars>>

\* The item ends: completed, refused, aborted by a stop, or by an exception.
RunEnds ==
    /\ batchThread \in {"run", "moving"}
    /\ batchThread' = "ended"
    /\ UNCHANGED <<work, batchBusy, serviceVars>>

ClearBusy ==
    /\ BatchAt("ended", "report")
    /\ batchBusy' = FALSE
    /\ UNCHANGED <<work, serviceVars>>

ReportResult ==
    /\ BatchAt("report", "get")
    /\ Post("result")
    /\ UNCHANGED <<work, batchBusy, latch>>

BatchStep ==
    \/ TakeWork \/ SetBusy \/ ClearLatch \/ BatchGoalAccepted
    \/ RunEnds \/ ClearBusy \/ ReportResult
===============================================================================
