------------------------- MODULE LiveTargetStreamer -------------------------
(***************************************************************************)
(* The pose-stream route: intents queue up, and the live thread's tick     *)
(* drives along them, publishing one pose per tick. With the stroke route  *)
(* in place every intent is at the travel height, so waypoints are counted *)
(* and the lift of a release is already where the tail is.                 *)
(***************************************************************************)
EXTENDS RouteServices

CONSTANTS
    LiveQueueLimit,     \* live_queue_limit
    GuardTrips          \* may the outgoing-command guard trip?

ASSUME LiveAssumption == LiveQueueLimit \in Nat /\ GuardTrips \in BOOLEAN

VARIABLES
    active, atRest,
    releasing,              \* disengaged: the path is being finished
    liveQueue,              \* waypoints queued
    target,                 \* a waypoint is being driven to
    last,                   \* a command has been published in this session
    tick,                   \* where the live thread is
    latePoses               \* history: poses published since the route went silent

liveVars ==
    <<active, atRest, releasing, liveQueue, target, last, tick, latePoses>>

LiveInit ==
    /\ active = FALSE /\ atRest = TRUE
    /\ releasing = FALSE
    /\ liveQueue = 0 /\ target = FALSE /\ last = FALSE
    /\ tick = "wait"
    /\ latePoses = 0

LiveTypeOK ==
    /\ {active, atRest, releasing, target, last} \subseteq BOOLEAN
    /\ liveQueue \in 0 .. LiveQueueLimit
    /\ tick \in {"wait", "drive", "hold", "record", "trip"}
    /\ latePoses \in 0 .. 2

Publishing == active /\ ~atRest

-------------------------------------------------------------------------------
(* Called by the coordination thread, each under the streamer's lock.      *)

\* Mutant of SetIntent: one waypoint too many.
SetIntentPastLimit ==
    /\ atRest' = FALSE /\ releasing' = FALSE
    /\ liveQueue <= LiveQueueLimit /\ liveQueue' = liveQueue + 1
    /\ latePoses' = 0
    /\ UNCHANGED <<active, target, last, tick>>

\* A waypoint near the tail is decimated, one beyond the limit is dropped.
SetIntent ==
    /\ atRest' = FALSE /\ releasing' = FALSE
    /\ \/ liveQueue' = liveQueue /\ (liveQueue = LiveQueueLimit \/ liveQueue > 0 \/ target \/ last)
       \/ liveQueue < LiveQueueLimit /\ liveQueue' = liveQueue + 1
    /\ latePoses' = 0
    /\ UNCHANGED <<active, target, last, tick>>

\* Finish the queued path, then settle; with no position known there is
\* nothing to finish.
ReleaseFollow ==
    LET tail == liveQueue > 0 \/ target \/ last IN
    /\ atRest' = (atRest \/ (active /\ ~tail))
    /\ releasing' = (releasing \/ (Publishing /\ tail))
    /\ UNCHANGED <<active, liveQueue, target, last, tick, latePoses>>

\* Mutant of RestLive: the queued path survives.
RestLiveKeepsPath ==
    /\ atRest' = TRUE /\ releasing' = FALSE
    /\ UNCHANGED <<active, liveQueue, target, last, tick, latePoses>>

\* Silence at once; the route stays active.
RestLive ==
    /\ liveQueue' = 0 /\ target' = FALSE
    /\ atRest' = TRUE /\ releasing' = FALSE
    /\ UNCHANGED <<active, last, tick, latePoses>>

Deactivate ==
    /\ active' = FALSE /\ last' = FALSE
    /\ liveQueue' = 0 /\ target' = FALSE
    /\ atRest' = TRUE /\ releasing' = FALSE

\* The last step of activate(), once the services have answered.
Activated ==
    /\ active' = TRUE /\ last' = FALSE
    /\ liveQueue' = 0 /\ target' = FALSE
    /\ atRest' = TRUE
    /\ UNCHANGED <<releasing, tick, latePoses>>

-------------------------------------------------------------------------------
(* The live thread: tick() reads under the lock, publishes outside it, and *)
(* records under the lock.                                                 *)

\* Mutant of TickMoves: a route at rest goes on.
TickMovesAtRest == active

TickMoves == Publishing

TickRead ==
    /\ tick = "wait"
    /\ LET pop == ~target /\ liveQueue > 0 IN
       /\ target' = (target \/ pop)
       /\ liveQueue' = IF pop THEN liveQueue - 1 ELSE liveQueue
       /\ tick' = IF ~TickMoves \/ ~(target' \/ last) THEN "wait"
                  ELSE IF target' THEN "drive" ELSE "hold"
    /\ UNCHANGED <<active, atRest, releasing, last, latePoses, serviceVars>>

PublishPose ==
    /\ tick' = "record"
    /\ latePoses' = IF Publishing THEN 0 ELSE IF latePoses = 2 THEN 2 ELSE latePoses + 1
    /\ UNCHANGED <<active, atRest, releasing, last, serviceVars>>

HoldPosition ==
    /\ tick = "hold"
    /\ PublishPose
    /\ UNCHANGED <<liveQueue, target>>

\* _advance() spends one tick's displacement: it stays short of the waypoint
\* it read, or passes it and as many queued ones as the budget allows.
Advance ==
    /\ tick = "drive"
    /\ PublishPose
    /\ \/ UNCHANGED <<liveQueue, target>>
       \/ \E passed \in 0 .. liveQueue :
             /\ target' = (passed < liveQueue)
             /\ liveQueue' = IF passed < liveQueue THEN liveQueue - passed - 1 ELSE 0

\* A command out of bounds is never sent: the route stops itself,
GuardTripped ==
    /\ GuardTrips
    /\ tick = "drive"
    /\ tick' = "trip"
    /\ Deactivate
    /\ UNCHANGED <<latePoses, serviceVars>>

\* latches the controller and reports.
TripReported ==
    /\ tick = "trip"
    /\ tick' = "wait"
    /\ StopCall
    /\ Post("health")
    /\ UNCHANGED <<active, atRest, releasing, liveQueue, target, last, latePoses>>

\* A released path that has been driven settles for a while, then ends.
TickRecord ==
    LET drained == releasing /\ ~target /\ liveQueue = 0 IN
    /\ tick = "record"
    /\ tick' = "wait"
    /\ last' = TRUE
    /\ \/ UNCHANGED <<atRest, releasing>>
       \/ drained /\ atRest' = TRUE /\ releasing' = FALSE
    /\ UNCHANGED <<active, liveQueue, target, latePoses, serviceVars>>

LiveStep ==
    TickRead \/ HoldPosition \/ Advance \/ GuardTripped \/ TripReported \/ TickRecord
===============================================================================
