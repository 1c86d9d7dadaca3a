------------------------- MODULE StrokeChainStreamer -------------------------
(***************************************************************************)
(* The pen-down route as the coordination thread sees it: an intake, five  *)
(* flags, and the stroke thread that wakes up, runs sessions of chains and *)
(* reports. A chain's goals, windows and timing are GoalChain's; here a    *)
(* chain takes what the intake holds and ends at rest, stopped or failed.  *)
(***************************************************************************)
EXTENDS RouteServices

CONSTANT SoftFaults     \* may planning, the joint reading or the route's clients fail?

ASSUME SoftFaultAssumption == SoftFaults \in BOOLEAN

VARIABLES
    material,           \* the intake holds points
    strokeOpen,
    wake, sessionRequested, stopFlag, strokeBusy, handback,
    coolingDown,        \* before _retry_after
    pipelineFailed,     \* GoalPipeline.failed; the route builds one pipeline
    sessionBroke,       \* history: the last session ended by an error
    strokeThread        \* where the stroke thread is

inkVars == <<material, strokeOpen>>
askVars == <<wake, sessionRequested>>
orderVars == <<stopFlag, handback>>
ownVars == <<strokeBusy, coolingDown, pipelineFailed, sessionBroke>>
strokeVars == <<inkVars, askVars, orderVars, ownVars, strokeThread>>

ChainPlaces == {"planned", "submit", "open", "submitFinal", "drain", "settle", "failing"}

StrokeInit ==
    /\ material = FALSE /\ strokeOpen = FALSE
    /\ wake = FALSE /\ sessionRequested = FALSE /\ stopFlag = FALSE
    /\ strokeBusy = FALSE /\ handback = FALSE /\ coolingDown = FALSE
    /\ pipelineFailed = FALSE /\ sessionBroke = FALSE
    /\ strokeThread = "asleep"

StrokeTypeOK ==
    /\ {material, strokeOpen, wake, sessionRequested, stopFlag, strokeBusy,
        handback, coolingDown, pipelineFailed, sessionBroke} \subseteq BOOLEAN
    /\ strokeThread \in ChainPlaces \cup
          {"asleep", "check", "arm", "enter", "session", "leave", "report"}

-------------------------------------------------------------------------------
(* Called by the coordination thread.                                      *)

\* begin_stroke: refused while stopped, else a session is asked for and a
\* pending hand-back is cancelled.
BeginStroke ==
    /\ IF stopFlag
       THEN UNCHANGED <<inkVars, askVars, handback>>
       ELSE /\ handback' = FALSE
            /\ material' = TRUE /\ strokeOpen' = TRUE
            /\ sessionRequested' = TRUE /\ wake' = TRUE
    /\ UNCHANGED <<stopFlag, ownVars, strokeThread>>

\* add_point: a sample near the tail is decimated but still wakes the thread;
\* without an open stroke (the thread cleared the intake) one is begun.
AddPoint ==
    IF stopFlag \/ ~strokeOpen
    THEN BeginStroke
    ELSE /\ material' \in {material, TRUE}
         /\ sessionRequested' = TRUE /\ wake' = TRUE
         /\ UNCHANGED <<strokeOpen, orderVars, ownVars, strokeThread>>

\* end_stroke then request_handback: the open stroke gets its lift.
FinishStroke ==
    /\ material' = (material \/ strokeOpen)
    /\ strokeOpen' = FALSE
    /\ handback' = TRUE
    /\ wake' = TRUE
    /\ UNCHANGED <<sessionRequested, stopFlag, ownVars, strokeThread>>

\* Mutant of StrokeStopped: the session asked for is not taken back.
StrokeStoppedKeepsRequest ==
    /\ stopFlag' = TRUE
    /\ material' = FALSE /\ strokeOpen' = FALSE
    /\ wake' = TRUE
    /\ UNCHANGED <<sessionRequested, handback, ownVars, strokeThread>>

\* stop(), up to its service call.
StrokeStopped ==
    /\ stopFlag' = TRUE
    /\ material' = FALSE /\ strokeOpen' = FALSE
    /\ sessionRequested' = FALSE
    /\ wake' = TRUE
    /\ UNCHANGED <<handback, ownVars, strokeThread>>

\* Mutant of StrokeMayReset: a request that was taken is overlooked.
StrokeMayResetUnasked == ~sessionRequested

StrokeMayReset == ~strokeBusy

\* reset(), once the controller has released its latch.
StrokeResetDone ==
    /\ stopFlag' = FALSE
    /\ UNCHANGED <<inkVars, askVars, handback, ownVars, strokeThread>>

\* Mutant of Active: a running session is overlooked.
ActiveAsked(look) == IF look = "atRequest" THEN sessionRequested ELSE look = "atIntake" /\ material

\* active looks at three things, one after another and under no common lock.
Active(look) ==
    CASE look = "atBusy" -> strokeBusy
      [] look = "atRequest" -> sessionRequested
      [] look = "atIntake" -> material

\* A session is asked for, about to be entered or running.
SessionAhead == sessionRequested \/ strokeThread = "enter" \/ strokeBusy

-------------------------------------------------------------------------------
(* The stroke thread.                                                      *)

StrokeAt(from, to) == strokeThread = from /\ strokeThread' = to

WakeUp ==
    /\ StrokeAt("asleep", "check")
    /\ wake
    /\ wake' = FALSE
    /\ UNCHANGED <<inkVars, sessionRequested, orderVars, ownVars, serviceVars>>

\* Nothing requested, stopped or cooling down: back to sleep.
CheckRequest ==
    /\ strokeThread = "check"
    /\ strokeThread' = IF sessionRequested /\ ~stopFlag /\ ~coolingDown
                       THEN "arm" ELSE "asleep"
    /\ UNCHANGED <<inkVars, askVars, orderVars, ownVars, serviceVars>>

\* The request is taken back before the session, so that material arriving
\* while the session winds down asks for another one.
TakeRequest ==
    /\ StrokeAt("arm", "enter")
    /\ sessionRequested' = FALSE
    /\ UNCHANGED <<inkVars, wake, orderVars, ownVars, serviceVars>>

EnterSession ==
    /\ StrokeAt("enter", "session")
    /\ strokeBusy' = TRUE /\ sessionBroke' = FALSE
    /\ UNCHANGED <<inkVars, askVars, orderVars, coolingDown, pipelineFailed, serviceVars>>

ClearIntake == material' = FALSE /\ strokeOpen' = FALSE

\* The route's clients are unavailable or the session raises: the intake is
\* dropped and the session ends.
SessionBreaks ==
    /\ SoftFaults
    /\ StrokeAt("session", "leave")
    /\ ClearIntake
    /\ sessionBroke' = TRUE
    /\ UNCHANGED <<askVars, orderVars, strokeBusy, coolingDown, pipelineFailed, serviceVars>>

\* Joints unreadable, or goal 0 does not plan: the intake is dropped, the
\* session goes on, and a later session is held off for a second.
ChainDoesNotStart ==
    /\ SoftFaults
    /\ strokeThread = "session"
    /\ ~stopFlag /\ material
    /\ ClearIntake
    /\ coolingDown' \in {coolingDown, TRUE}
    /\ UNCHANGED <<askVars, orderVars, strokeBusy, pipelineFailed, sessionBroke, strokeThread,
                   serviceVars>>

ChainStarts ==
    /\ StrokeAt("session", "planned")
    /\ ~stopFlag /\ material
    /\ material' \in BOOLEAN
    /\ UNCHANGED <<strokeOpen, askVars, orderVars, ownVars, serviceVars>>

SessionEnds ==
    /\ StrokeAt("session", "leave")
    /\ stopFlag \/ (~material /\ handback /\ ~strokeOpen)
    /\ UNCHANGED <<inkVars, askVars, orderVars, ownVars, serviceVars>>

\* A successor window is planned, so the goal before it goes out. (A longer
\* intake is this step taken more than once.)
ChainContinues ==
    /\ strokeThread \in {"planned", "open"}
    /\ strokeThread' = "submit"
    /\ ~stopFlag /\ material
    /\ material' = FALSE
    /\ UNCHANGED <<strokeOpen, askVars, orderVars, ownVars, serviceVars>>

\* No successor: hand-back, or catch-up.
ChainCloses ==
    /\ strokeThread \in {"planned", "open"}
    /\ strokeThread' = "submitFinal"
    /\ ~stopFlag /\ ~material
    /\ UNCHANGED <<inkVars, askVars, orderVars, ownVars, serviceVars>>

\* A window that does not plan is lost, and closes the chain.
WindowFails ==
    /\ SoftFaults
    /\ strokeThread \in {"planned", "open"}
    /\ strokeThread' = "submitFinal"
    /\ ~stopFlag /\ material
    /\ material' \in BOOLEAN
    /\ UNCHANGED <<strokeOpen, askVars, orderVars, ownVars, serviceVars>>

\* Stopped: what is in flight aborts on its own.
ChainCollapses ==
    /\ StrokeAt("planned", "settle") \/ StrokeAt("open", "drain")
    /\ stopFlag
    /\ UNCHANGED <<inkVars, askVars, orderVars, ownVars, serviceVars>>

StrokeGoalAccepted ==
    /\ StrokeAt("submit", "open") \/ StrokeAt("submitFinal", "drain")
    /\ ~latch /\ ~pipelineFailed
    /\ UNCHANGED <<inkVars, askVars, orderVars, ownVars, serviceVars>>

\* _fail_chain: the route latches itself stopped; if the operator has not
\* stopped it already it also stops the controller and reports.
StrokeGoalRefused ==
    /\ strokeThread \in {"submit", "submitFinal"}
    /\ latch \/ pipelineFailed \/ ServiceFaults
    /\ stopFlag' = TRUE
    /\ pipelineFailed' \in IF ServiceFaults THEN {pipelineFailed, TRUE} ELSE {TRUE}
    /\ IF stopFlag THEN strokeThread' = "session" /\ ClearIntake
       ELSE strokeThread' = "failing" /\ UNCHANGED inkVars
    /\ UNCHANGED <<askVars, handback, strokeBusy, coolingDown, sessionBroke, serviceVars>>

\* The stop aborts the goals before it, and their results fail the pipeline.
FailChain ==
    /\ StrokeAt("failing", "session")
    /\ StopCall
    /\ pipelineFailed' \in {pipelineFailed, TRUE}
    /\ ClearIntake
    /\ Post("health")
    /\ UNCHANGED <<askVars, orderVars, strokeBusy, coolingDown, sessionBroke>>

\* The pipeline has its results, aborted ones under a latch, and the arm has
\* settled.
ChainAtRest ==
    /\ strokeThread \in {"drain", "settle"} /\ strokeThread' = "session"
    /\ pipelineFailed' \in IF strokeThread = "drain" /\ latch
                           THEN {pipelineFailed, TRUE} ELSE {pipelineFailed}
    /\ UNCHANGED <<inkVars, askVars, orderVars, strokeBusy, coolingDown, sessionBroke, serviceVars>>

\* Mutant of LeaveSession: the request is taken back after the session.
LeaveSessionClears ==
    /\ StrokeAt("leave", "report")
    /\ strokeBusy' = FALSE /\ sessionRequested' = FALSE
    /\ UNCHANGED <<inkVars, wake, orderVars, coolingDown, pipelineFailed, sessionBroke, serviceVars>>

LeaveSession ==
    /\ StrokeAt("leave", "report")
    /\ strokeBusy' = FALSE
    /\ UNCHANGED <<inkVars, askVars, orderVars, coolingDown, pipelineFailed, sessionBroke, serviceVars>>

ReportDrained ==
    /\ StrokeAt("report", "asleep")
    /\ Post("drained")
    /\ UNCHANGED <<inkVars, askVars, orderVars, ownVars, latch>>

CoolDownExpires ==
    /\ coolingDown
    /\ coolingDown' = FALSE
    /\ UNCHANGED <<inkVars, askVars, orderVars, strokeBusy, pipelineFailed, sessionBroke,
                   strokeThread, serviceVars>>

StrokeStep ==
    \/ WakeUp \/ CheckRequest \/ TakeRequest \/ EnterSession \/ SessionEnds
    \/ SessionBreaks \/ ChainDoesNotStart \/ ChainStarts
    \/ ChainContinues \/ ChainCloses \/ WindowFails \/ ChainCollapses \/ StrokeGoalAccepted \/ StrokeGoalRefused
    \/ FailChain \/ ChainAtRest \/ LeaveSession \/ ReportDrained
===============================================================================
