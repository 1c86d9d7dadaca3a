---------------------------- MODULE RouteServices ----------------------------
(***************************************************************************)
(* What the three motion routes of the draw plane share: the stop latch of *)
(* the passthrough controller, reached by service calls that may fail, and *)
(* the FIFO on which the worker threads report to the coordination thread. *)
(***************************************************************************)
EXTENDS Naturals, Sequences

CONSTANTS
    ServiceFaults,      \* may a service be unavailable or time out?
    MaxEvents           \* bound on the route events waiting

ASSUME ServiceAssumption == ServiceFaults \in BOOLEAN /\ MaxEvents \in Nat

VARIABLES
    latch,          \* the controller rejects motion until ~/reset_fault
    routeEvents     \* bridge.py: _route_events

serviceVars == <<latch, routeEvents>>

\* "chainFailed" and the plain warnings change nothing but the display.
RouteEvent == {"result", "health", "drained"}

ServiceInit == latch = FALSE /\ routeEvents = <<>>

ServiceTypeOK == latch \in BOOLEAN /\ routeEvents \in Seq(RouteEvent)

\* ~/stop latches, whether or not the caller sees the answer; an unavailable
\* service leaves things as they are, and the callers only warn.
StopCall == latch' = TRUE \/ (ServiceFaults /\ latch' = latch)

\* ~/reset_fault answers success only when there was a latch to release; a
\* call without an answer may still have been served.
ResetCall(success) ==
    \/ success = latch /\ latch' = FALSE
    \/ ServiceFaults /\ success = FALSE /\ latch' \in {latch, FALSE}

Post(event) ==
    /\ Len(routeEvents) < MaxEvents
    /\ routeEvents' = Append(routeEvents, event)
===============================================================================
