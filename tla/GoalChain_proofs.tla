--------------------------- MODULE GoalChain_proofs ---------------------------
(***************************************************************************)
(* What holds of a chain for every horizon, margin, planning time, window  *)
(* and pipeline length, with goals refused and planning failing anywhere.  *)
(***************************************************************************)
EXTENDS GoalChain, SequenceTheorems, TLAPS

\* What a thread holds on its way to sending a goal: it plans a window, and
\* sends a goal that is not the last only with its successor planned.
Stages ==
    /\ at = "plan" => window # <<>>
    /\ at \in {"look", "poll", "switch", "pace"} => pending # <<>>
    /\ at \in {"switch", "pace"} /\ ~last => window # <<>>

IInv == TypeOK /\ Stages

\* A move that is open has something to execute, a latched controller has
\* nothing, and a thread that is back left nothing behind.
Closing ==
    /\ moveOpen => motion # <<>>
    /\ latch => motion = <<>>
    /\ stopFlag => latch
    /\ client = "batch" => (failed["batch"] => latch) /\ at # "idle"
    /\ at \in {"idle", "restore"} => motion = <<>>
    /\ at = "plan" /\ pending = <<>> => motion = <<>>

-------------------------------------------------------------------------------
(* Types.                                                                  *)

\* What goes through the intake are waypoints.
LEMMA IntakeTypes ==
    ASSUME IntakeTypeOK,
           BeginStroke \/ AddPoint \/ EndStroke \/ ClearIntake \/ UNCHANGED intakeVars
    PROVE  IntakeTypeOK'
<1>1. ASSUME NEW downs \in Seq(BOOLEAN), downs # <<>>, AppendPoints(downs)
      PROVE  points' \in Seq(Waypoint) /\ appended' \in Nat /\ tailDown' \in BOOLEAN
  <2> DEFINE more == [i \in 1 .. Len(downs) |-> [place |-> appended + i, down |-> downs[i]]]
  <2>1. more \in Seq(Waypoint)
    BY <1>1 DEF Waypoint, IntakeTypeOK
  <2>2. points \o more \in Seq(Waypoint)
    BY <2>1, ConcatProperties DEF IntakeTypeOK
  <2>3. points' = points \o more
    BY <1>1 DEF AppendPoints
  <2>4. appended' \in Nat /\ tailDown' \in BOOLEAN
    BY <1>1, EmptySeq DEF AppendPoints, IntakeTypeOK
  <2> QED
    BY <2>2, <2>3, <2>4
<1>2. CASE BeginStroke
  <2>1. <<FALSE, TRUE>> \in Seq(BOOLEAN) /\ <<FALSE, TRUE>> # <<>>
    OBVIOUS
  <2> QED
    BY <1>1, <1>2, <2>1 DEF BeginStroke, IntakeTypeOK
<1>3. CASE AddPoint
  <2>1. <<TRUE>> \in Seq(BOOLEAN) /\ <<TRUE>> # <<>>
    OBVIOUS
  <2> QED
    BY <1>1, <1>3, <2>1 DEF AddPoint, IntakeTypeOK
<1>4. CASE EndStroke
  <2>1. <<FALSE>> \in Seq(BOOLEAN) /\ <<FALSE>> # <<>>
    OBVIOUS
  <2> QED
    BY <1>1, <1>4, <2>1 DEF EndStroke, IntakeTypeOK
<1>5. CASE ClearIntake \/ UNCHANGED intakeVars
  BY <1>5, EmptySeq DEF ClearIntake, intakeVars, IntakeTypeOK
<1> QED
  BY <1>2, <1>3, <1>4, <1>5

\* A window is a prefix of what waits, and a flushed one is never empty while
\* something waits.
LEMMA Windows ==
    ASSUME IntakeTypeOK, NEW flush \in BOOLEAN
    PROVE  /\ CutWindow(flush) \in Seq(Waypoint)
           /\ WindowLength(flush) > 0 => CutWindow(flush) # <<>>
           /\ flush /\ points # <<>> => WindowLength(flush) > 0
           /\ TakeWindow(flush) => IntakeTypeOK'
<1>1. Len(points) \in Nat /\ (points # <<>> => Len(points) > 0)
  BY EmptySeq DEF IntakeTypeOK
<1>2. WindowLength(flush) \in 0 .. Len(points)
  BY <1>1, IntakeAssumption DEF WindowLength
<1>3. /\ CutWindow(flush) \in Seq(Waypoint)
      /\ Len(CutWindow(flush)) = WindowLength(flush)
  BY <1>1, <1>2, SubSeqProperties DEF CutWindow, IntakeTypeOK
<1>4. SubSeq(points, WindowLength(flush) + 1, Len(points)) \in Seq(Waypoint)
  BY <1>1, <1>2, SubSeqProperties DEF IntakeTypeOK
<1>5. flush /\ points # <<>> => WindowLength(flush) > 0
  BY <1>1, IntakeAssumption DEF WindowLength
<1>6. WindowLength(flush) > 0 => CutWindow(flush) # <<>>
  BY <1>3, EmptySeq
<1>7. TakeWindow(flush) => IntakeTypeOK'
  BY <1>4 DEF TakeWindow, IntakeTypeOK
<1> QED
  BY <1>3, <1>5, <1>6, <1>7

\* An execution starts with its first window cut off the drawing.
LEMMA StartTypes ==
    ASSUME TypeOK, StartBatchChain
    PROVE  IntakeTypeOK' /\ window' \in Seq(Waypoint) /\ window' # <<>>
<1>1. appended < MaxPoints /\ appended \in Nat /\ MaxPoints \in Nat /\ GoalPoints \in Nat \ {0}
  BY IntakeAssumption DEF StartBatchChain, TypeOK, IntakeTypeOK
<1>2. PICK length \in 1 .. MaxPoints - appended :
          LET drawing == [i \in 1 .. length |-> [place |-> appended + i, down |-> i > 1]]
              first == IF length < GoalPoints THEN length ELSE GoalPoints IN
          /\ window' = SubSeq(drawing, 1, first)
          /\ points' = SubSeq(drawing, first + 1, length)
          /\ appended' = appended + length
  BY DEF StartBatchChain
<1> DEFINE drawing == [i \in 1 .. length |-> [place |-> appended + i, down |-> i > 1]]
<1> DEFINE first == IF length < GoalPoints THEN length ELSE GoalPoints
<1>3. \A i \in 1 .. length : drawing[i] \in Waypoint
  BY <1>1 DEF Waypoint
<1>4. first \in 1 .. length /\ length \in Nat
  BY <1>1
<1>5. window' = SubSeq(drawing, 1, first) /\ points' = SubSeq(drawing, first + 1, length)
  BY <1>2
<1> HIDE DEF drawing, first
<1>6. window' \in Seq(Waypoint) /\ Len(window') = first
  BY <1>3, <1>4, <1>5, SubSeqProperties
<1>7. points' \in Seq(Waypoint)
  BY <1>3, <1>4, <1>5, SubSeqProperties
<1>8. window' # <<>>
  BY <1>4, <1>6, EmptySeq
<1>9. appended' \in Nat
  BY <1>1, <1>2, <1>4
<1>10. UNCHANGED <<tailDown, strokeOpen>>
  BY DEF StartBatchChain
<1> QED
  BY <1>6, <1>7, <1>8, <1>9, <1>10 DEF TypeOK, IntakeTypeOK

-------------------------------------------------------------------------------

\* Every variable stays in its type, no more goals than max_inflight are with
\* the controller, and no empty window is ever planned or sent (take_window,
\* GoalPipeline.submit).
THEOREM TypesHold == Spec => [](TypeOK /\ Stages)
<1>1. Init => IInv
  <2> SUFFICES ASSUME Init PROVE IInv
    OBVIOUS
  <2>1. IntakeTypeOK
    BY EmptySeq DEF Init, IntakeInit, IntakeTypeOK
  <2>2. pending \in Seq(Waypoint) /\ window \in Seq(Waypoint)
    BY EmptySeq DEF Init, EmptyGoal
  <2>3. motion \in Seq(Goal) /\ Len(motion) <= MaxInflight
    BY EmptySeq, ChainAssumption DEF Init
  <2>4. planned \in 0 .. PlanTicks /\ slack \in Nat /\ stops \in 0 .. MaxStops
    BY ChainAssumption DEF Init
  <2>5. {handback, stopFlag, last, opened, finalizeParam, moveOpen, latch, starved,
         shortGoal, windowLost, refused, served} \subseteq BOOLEAN
    BY DEF Init
  <2>6. cache \in [Client -> Finalize] /\ failed \in [Client -> BOOLEAN] /\ reached \in Waypoint
    BY DEF Init, Client, Finalize, Waypoint
  <2>7. client \in Client /\ at = "idle"
    BY DEF Init, Client
  <2>8. Stages
    BY <2>7 DEF Stages
  <2> QED
    BY <2>1, <2>2, <2>3, <2>4, <2>5, <2>6, <2>7, <2>8 DEF IInv, TypeOK
<1>2. IInv /\ [Next]_chainVars => IInv'
  <2> SUFFICES ASSUME IInv, [Next]_chainVars PROVE IInv'
    OBVIOUS
  <2>1. IntakeTypeOK'
    <3>1. CASE PenDown \/ PenUp
      BY <3>1, IntakeTypes DEF PenDown, PenUp, IInv, TypeOK
    <3>2. CASE Stop
      BY <3>2, IntakeTypes DEF Stop, IInv, TypeOK
    <3>3. CASE StartStrokeChain
      BY <3>3, Windows DEF StartStrokeChain, IInv, TypeOK
    <3>4. CASE StartBatchChain
      BY <3>4, StartTypes DEF IInv
    <3>5. CASE FindSuccessor
      <4>1. Flush \in BOOLEAN
        BY DEF Flush, DeadlineNear, Draining, IInv, TypeOK
      <4> QED
        BY <3>5, <4>1, Windows DEF FindSuccessor, IInv, TypeOK
    <3>6. CASE PlanFails \/ RestoreFinalize
      BY <3>6, IntakeTypes DEF PlanFails, GiveUp, RestoreFinalize, IInv, TypeOK
    <3>7. CASE SwitchRefused \/ GoalRefused
      BY <3>7, IntakeTypes DEF SwitchRefused, GoalRefused, NotSent, GiveUp, IInv, TypeOK
    <3>8. CASE Drained
      BY <3>8, IntakeTypes DEF Drained, GiveUp, IInv, TypeOK
    <3>9. CASE \/ Reset \/ Planned \/ WaitForPoints \/ CloseChain \/ LeaveStopped \/ SwitchForGoal
               \/ GoalAccepted \/ Tick \/ UNCHANGED chainVars
      BY <3>9, IntakeTypes DEF Reset, Planned, WaitForPoints, CloseChain, LeaveStopped, SwitchForGoal,
             GoalAccepted, Tick, chainVars, IInv, TypeOK
    <3> QED
      BY <3>1, <3>2, <3>3, <3>4, <3>5, <3>6, <3>7, <3>8, <3>9 DEF Next, Operator, Start, ChainStep
  <2>2. pending' \in Seq(Waypoint) /\ window' \in Seq(Waypoint)
    <3> USE DEF IInv, TypeOK, EmptyGoal
    <3>0. EmptyGoal \in Seq(Waypoint)
      BY EmptySeq
    <3>1. CASE PenDown \/ PenUp \/ Stop \/ Reset
      BY <3>1 DEF PenDown, PenUp, Stop, Reset, KeepsChain, threadVars
    <3>2. CASE StartStrokeChain
      BY <3>2, Windows DEF StartStrokeChain, OpenChain
    <3>3. CASE StartBatchChain
      BY <3>3, StartTypes DEF StartBatchChain, OpenChain
    <3>4. CASE FindSuccessor
      <4>1. Flush \in BOOLEAN
        BY DEF Flush, DeadlineNear, Draining
      <4> QED
        BY <3>4, <4>1, Windows DEF FindSuccessor, Look
    <3>5. CASE Planned
      BY <3>0, <3>5 DEF Planned
    <3>6. CASE PlanFails
      BY <3>0, <3>6 DEF PlanFails, GiveUp, ChainOver
    <3>7. CASE SwitchRefused \/ GoalRefused
      BY <3>0, <3>7 DEF SwitchRefused, GoalRefused, NotSent, GiveUp, ChainOver
    <3>8. CASE Drained \/ RestoreFinalize
      BY <3>0, <3>8 DEF Drained, RestoreFinalize, GiveUp, ChainOver
    <3>9. CASE GoalAccepted
      BY <3>0, <3>9 DEF GoalAccepted
    <3>10. CASE \/ WaitForPoints \/ CloseChain \/ LeaveStopped \/ SwitchForGoal \/ Tick
                \/ UNCHANGED chainVars
      BY <3>10 DEF WaitForPoints, CloseChain, LeaveStopped, Look, SwitchForGoal, Tick, chainVars,
             threadVars
    <3> QED
      BY <3>1, <3>2, <3>3, <3>4, <3>5, <3>6, <3>7, <3>8, <3>9, <3>10 DEF Next, Operator, Start,
             ChainStep
  <2>3. motion' \in Seq(Goal) /\ Len(motion') <= MaxInflight
    <3>0. <<>> \in Seq(Goal) /\ Len(<<>>) <= MaxInflight
      BY EmptySeq, ChainAssumption
    <3>1. CASE Stop \/ SwitchRefused \/ GoalRefused
      BY <3>0, <3>1 DEF Stop, StopCall, SwitchRefused, GoalRefused, NotSent, IInv, TypeOK
    <3>2. CASE GoalAccepted
      <4> DEFINE goal == [left |-> Len(pending), final |-> finalizeParam, rests |-> last]
      <4>1. goal \in Goal
        BY DEF Goal, IInv, TypeOK
      <4>2. Len(motion) < MaxInflight /\ motion' = Append(motion, goal)
        BY <3>2 DEF GoalAccepted, RoomInPipeline
      <4> HIDE DEF goal
      <4>3. Append(motion, goal) \in Seq(Goal) /\ Len(Append(motion, goal)) = Len(motion) + 1
        BY <4>1, AppendProperties DEF IInv, TypeOK
      <4> QED
        BY <4>2, <4>3, ChainAssumption DEF IInv, TypeOK
    <3>3. CASE Tick
      <4>1. CASE motion = <<>>
        BY <3>3, <4>1 DEF Tick, Execute, IInv, TypeOK
      <4>2. CASE motion # <<>> /\ Head(motion).left <= 1
        <5>1. motion' = Tail(motion)
          BY <3>3, <4>2 DEF Tick, Execute
        <5> QED
          BY <4>2, <5>1, HeadTailProperties, ChainAssumption DEF IInv, TypeOK
      <4>3. CASE motion # <<>> /\ ~(Head(motion).left <= 1)
        <5>1. motion' = [motion EXCEPT ![1].left = @ - 1]
          BY <3>3, <4>3 DEF Tick, Execute
        <5>2. 1 \in 1 .. Len(motion) /\ Head(motion) = motion[1] /\ motion[1] \in Goal
          BY <4>3, EmptySeq, HeadTailProperties DEF IInv, TypeOK
        <5>3. motion[1].left - 1 \in Nat
          BY <4>3, <5>2 DEF Goal
        <5>4. [motion[1] EXCEPT !.left = @ - 1] \in Goal
          BY <5>2, <5>3 DEF Goal
        <5>5. motion' = [motion EXCEPT ![1] = [motion[1] EXCEPT !.left = @ - 1]]
          BY <5>1
        <5> QED
          BY <5>2, <5>4, <5>5, ExceptSeq DEF IInv, TypeOK
      <4> QED
        BY <4>1, <4>2, <4>3
    <3>4. CASE RestoreFinalize \/ SwitchForGoal
      BY <3>4 DEF RestoreFinalize, SwitchForGoal, SetFinalize, IInv, TypeOK
    <3>5. CASE PenDown \/ PenUp \/ Reset \/ Start
      BY <3>5 DEF PenDown, PenUp, Reset, KeepsChain, Start, StartStrokeChain, StartBatchChain,
                  controllerVars, IInv, TypeOK
    <3>6. CASE \/ Planned \/ PlanFails \/ FindSuccessor \/ WaitForPoints \/ CloseChain
               \/ LeaveStopped \/ Drained \/ UNCHANGED chainVars
      BY <3>6 DEF Planned, PlanFails, FindSuccessor, WaitForPoints, CloseChain, LeaveStopped, Look,
                  Drained, chainVars, controllerVars, IInv, TypeOK
    <3> QED
      BY <3>1, <3>2, <3>3, <3>4, <3>5, <3>6 DEF Next, Operator, ChainStep
  <2>4. /\ client' \in Client
        /\ at' \in {"idle", "look", "poll", "plan", "switch", "pace", "drain", "restore"}
        /\ {handback, stopFlag, last, opened, finalizeParam, moveOpen, latch, starved,
            shortGoal, windowLost, refused, served}' \subseteq BOOLEAN
        /\ planned' \in 0 .. PlanTicks /\ slack' \in Nat
        /\ cache' \in [Client -> Finalize] /\ failed' \in [Client -> BOOLEAN]
        /\ reached' \in Waypoint
        /\ stops' \in 0 .. MaxStops
    <3> USE DEF IInv, TypeOK
    <3>1. CASE PenDown \/ PenUp
      BY <3>1 DEF PenDown, PenUp, KeepsChain, threadVars, pipelineVars, controllerVars, historyVars
    <3>2. CASE Stop
      <4>1. /\ planned' \in 0 .. PlanTicks /\ slack' \in Nat
            /\ stops' \in 0 .. MaxStops
        BY <3>2, ChainAssumption DEF Stop, StopCall, threadVars, historyVars, Client
      <4>2. /\ client' \in Client /\ reached' \in Waypoint
            /\ at' \in {"idle", "look", "poll", "plan", "switch", "pace", "drain", "restore"}
        BY <3>2 DEF Stop, StopCall, threadVars, historyVars, Client
      <4>3. {handback, stopFlag, last, opened, finalizeParam, moveOpen, latch, starved,
             shortGoal, windowLost, refused, served}' \subseteq BOOLEAN
        BY <3>2 DEF Stop, StopCall, threadVars, historyVars, Client
      <4>4. cache' \in [Client -> Finalize] /\ failed' \in [Client -> BOOLEAN]
        BY <3>2 DEF Stop, StopCall, threadVars, historyVars, Client
      <4> QED
        BY <4>1, <4>2, <4>3, <4>4
    <3>3. CASE Reset
      BY <3>3 DEF Reset, threadVars, pipelineVars
    <3>4. CASE StartStrokeChain
      BY <3>4 DEF StartStrokeChain, OpenChain, operatorVars, pipelineVars, controllerVars
    <3>5. CASE StartBatchChain
      BY <3>5 DEF StartBatchChain, OpenChain, Client, Finalize
    <3>6. CASE Planned
      BY <3>6, ChainAssumption DEF Planned, operatorVars, pipelineVars, controllerVars, historyVars
    <3>7. CASE PlanFails
      <4>1. /\ planned' \in 0 .. PlanTicks /\ slack' \in Nat
            /\ stops' \in 0 .. MaxStops
        BY <3>7, ChainAssumption DEF PlanFails, ChainOver, GiveUp, operatorVars, pipelineVars,
               controllerVars
      <4>2. /\ client' \in Client /\ reached' \in Waypoint
            /\ at' \in {"idle", "look", "poll", "plan", "switch", "pace", "drain", "restore"}
        BY <3>7 DEF PlanFails, ChainOver, GiveUp, operatorVars, pipelineVars, controllerVars
      <4>3. {handback, stopFlag, last, opened, finalizeParam, moveOpen, latch, starved,
             shortGoal, windowLost, refused, served}' \subseteq BOOLEAN
        BY <3>7 DEF PlanFails, ChainOver, GiveUp, operatorVars, pipelineVars, controllerVars
      <4>4. cache' \in [Client -> Finalize] /\ failed' \in [Client -> BOOLEAN]
        BY <3>7 DEF PlanFails, ChainOver, GiveUp, operatorVars, pipelineVars, controllerVars
      <4> QED
        BY <4>1, <4>2, <4>3, <4>4
    <3>8. CASE FindSuccessor \/ WaitForPoints \/ CloseChain \/ LeaveStopped
      BY <3>8 DEF FindSuccessor, WaitForPoints, CloseChain, LeaveStopped, Look, operatorVars,
                  pipelineVars, controllerVars, historyVars
    <3>9. CASE SwitchForGoal
      BY <3>9 DEF SwitchForGoal, SetFinalize, FinalizeOf, Finalize, Client, operatorVars, historyVars
    <3>10. CASE SwitchRefused \/ GoalRefused
      <4>1. /\ planned' \in 0 .. PlanTicks /\ slack' \in Nat
            /\ stops' \in 0 .. MaxStops
        BY <3>10, ChainAssumption DEF SwitchRefused, GoalRefused, NotSent, ChainOver, GiveUp, Client
      <4>2. /\ client' \in Client /\ reached' \in Waypoint
            /\ at' \in {"idle", "look", "poll", "plan", "switch", "pace", "drain", "restore"}
        BY <3>10 DEF SwitchRefused, GoalRefused, NotSent, ChainOver, GiveUp, Client
      <4>3. {handback, stopFlag, last, opened, finalizeParam, moveOpen, latch, starved,
             shortGoal, windowLost, refused, served}' \subseteq BOOLEAN
        BY <3>10 DEF SwitchRefused, GoalRefused, NotSent, ChainOver, GiveUp, Client
      <4>4. cache' \in [Client -> Finalize] /\ failed' \in [Client -> BOOLEAN]
        BY <3>10 DEF SwitchRefused, GoalRefused, NotSent, ChainOver, GiveUp, Client
      <4> QED
        BY <4>1, <4>2, <4>3, <4>4
    <3>11. CASE GoalAccepted
      BY <3>11 DEF GoalAccepted, operatorVars, pipelineVars, Stages
    <3>12. CASE Drained
      <4>1. /\ planned' \in 0 .. PlanTicks /\ slack' \in Nat
            /\ stops' \in 0 .. MaxStops
        BY <3>12, ChainAssumption DEF Drained, ChainOver, GiveUp, operatorVars, pipelineVars,
               controllerVars, historyVars
      <4>2. /\ client' \in Client /\ reached' \in Waypoint
            /\ at' \in {"idle", "look", "poll", "plan", "switch", "pace", "drain", "restore"}
        BY <3>12 DEF Drained, ChainOver, GiveUp, operatorVars, pipelineVars, controllerVars,
               historyVars
      <4>3. {handback, stopFlag, last, opened, finalizeParam, moveOpen, latch, starved,
             shortGoal, windowLost, refused, served}' \subseteq BOOLEAN
        BY <3>12 DEF Drained, ChainOver, GiveUp, operatorVars, pipelineVars, controllerVars,
               historyVars
      <4>4. cache' \in [Client -> Finalize] /\ failed' \in [Client -> BOOLEAN]
        BY <3>12 DEF Drained, ChainOver, GiveUp, operatorVars, pipelineVars, controllerVars,
               historyVars
      <4> QED
        BY <4>1, <4>2, <4>3, <4>4
    <3>13. CASE RestoreFinalize
      <4>1. /\ planned' \in 0 .. PlanTicks /\ slack' \in Nat
            /\ stops' \in 0 .. MaxStops
        BY <3>13, ChainAssumption DEF RestoreFinalize, SetFinalize, FinalizeOf, ChainOver, Client,
               Finalize, historyVars
      <4>2. /\ client' \in Client /\ reached' \in Waypoint
            /\ at' \in {"idle", "look", "poll", "plan", "switch", "pace", "drain", "restore"}
        BY <3>13 DEF RestoreFinalize, SetFinalize, FinalizeOf, ChainOver, Client, Finalize,
               historyVars
      <4>3. {handback, stopFlag, last, opened, finalizeParam, moveOpen, latch, starved,
             shortGoal, windowLost, refused, served}' \subseteq BOOLEAN
        BY <3>13 DEF RestoreFinalize, SetFinalize, FinalizeOf, ChainOver, Client, Finalize,
               historyVars
      <4>4. cache' \in [Client -> Finalize] /\ failed' \in [Client -> BOOLEAN]
        BY <3>13 DEF RestoreFinalize, SetFinalize, FinalizeOf, ChainOver, Client, Finalize,
               historyVars
      <4> QED
        BY <4>1, <4>2, <4>3, <4>4
    <3>14. CASE Tick
      <4>1. /\ planned' \in 0 .. PlanTicks /\ slack' \in Nat
            /\ stops' \in 0 .. MaxStops
        BY <3>14, ChainAssumption DEF Tick, Waiting, Execute, operatorVars, pipelineVars
      <4>2. /\ client' \in Client /\ reached' \in Waypoint
            /\ at' \in {"idle", "look", "poll", "plan", "switch", "pace", "drain", "restore"}
        BY <3>14 DEF Tick, Waiting, Execute, operatorVars, pipelineVars
      <4>3. {handback, stopFlag, last, opened, finalizeParam, moveOpen, latch, starved,
             shortGoal, windowLost, refused, served}' \subseteq BOOLEAN
        BY <3>14 DEF Tick, Waiting, Execute, operatorVars, pipelineVars
      <4>4. cache' \in [Client -> Finalize] /\ failed' \in [Client -> BOOLEAN]
        BY <3>14 DEF Tick, Waiting, Execute, operatorVars, pipelineVars
      <4> QED
        BY <4>1, <4>2, <4>3, <4>4
    <3>15. CASE UNCHANGED chainVars
      BY <3>15 DEF chainVars, operatorVars, threadVars, pipelineVars, controllerVars, historyVars
    <3> QED
      BY <3>1, <3>2, <3>3, <3>4, <3>5, <3>6, <3>7, <3>8, <3>9, <3>10, <3>11, <3>12, <3>13, <3>14,
             <3>15
         DEF Next, Operator, Start, ChainStep
  <2>5. Stages'
    <3> USE DEF Stages
    <3>1. CASE \/ PenDown \/ PenUp \/ Stop \/ Reset
      BY <3>1 DEF PenDown, PenUp, Stop, Reset, KeepsChain, threadVars, IInv
    <3>2. CASE StartStrokeChain
      BY <3>2, Windows DEF StartStrokeChain, OpenChain, IInv, TypeOK
    <3>3. CASE StartBatchChain
      BY <3>3, StartTypes DEF StartBatchChain, OpenChain, IInv
    <3>4. CASE FindSuccessor
      <4>1. Flush \in BOOLEAN
        BY DEF Flush, DeadlineNear, Draining, IInv, TypeOK
      <4>2. window' # <<>>
        BY <3>4, <4>1, Windows DEF FindSuccessor, Successor, IInv, TypeOK
      <4> QED
        BY <3>4, <4>2 DEF FindSuccessor, Look, IInv
    <3>5. CASE Planned
      BY <3>5 DEF Planned, EmptyGoal, IInv
    <3>6. CASE PlanFails
      BY <3>6 DEF PlanFails, ChainOver, GiveUp, EmptyGoal, IInv
    <3>7. CASE WaitForPoints \/ CloseChain \/ LeaveStopped
      BY <3>7 DEF WaitForPoints, CloseChain, LeaveStopped, Look, IInv
    <3>8. CASE SwitchForGoal
      BY <3>8 DEF SwitchForGoal, IInv
    <3>9. CASE SwitchRefused \/ GoalRefused
      BY <3>9 DEF SwitchRefused, GoalRefused, NotSent, ChainOver, GiveUp, IInv
    <3>10. CASE GoalAccepted
      BY <3>10 DEF GoalAccepted, IInv
    <3>11. CASE Drained \/ RestoreFinalize
      BY <3>11 DEF Drained, RestoreFinalize, ChainOver, GiveUp, IInv
    <3>12. CASE Tick
      BY <3>12 DEF Tick, IInv
    <3>13. CASE UNCHANGED chainVars
      BY <3>13 DEF chainVars, threadVars, IInv
    <3> QED
      BY <3>1, <3>2, <3>3, <3>4, <3>5, <3>6, <3>7, <3>8, <3>9, <3>10, <3>11, <3>12, <3>13
         DEF Next, Operator, Start, ChainStep
  <2> QED
    BY <2>1, <2>2, <2>3, <2>4, <2>5 DEF TypeOK, IInv
<1>3. IInv => TypeOK /\ Stages
  BY DEF IInv
<1> QED
  BY <1>1, <1>2, <1>3, PTL DEF Spec

\* Closing holds throughout, if no set_finalize of an execution is refused.
LEMMA ChainsClose ==
    ASSUME "batch" \notin ParamFaults
    PROVE  Spec => []Closing
<1>1. Init => Closing
  BY DEF Init, Closing
<1>2. TypeOK /\ Stages /\ Closing /\ [Next]_chainVars => Closing'
  <2> SUFFICES ASSUME TypeOK, Stages, Closing, [Next]_chainVars PROVE Closing'
    OBVIOUS
  <2>0. IInv
    BY DEF IInv
  <2> USE DEF Closing
  <2>1. CASE PenDown \/ PenUp
    BY <2>1 DEF PenDown, PenUp, KeepsChain, threadVars, pipelineVars, controllerVars, IInv
  <2>2. CASE Stop
    BY <2>2 DEF Stop, StopCall, threadVars, IInv, TypeOK
  <2>3. CASE Reset
    BY <2>3 DEF Reset, threadVars, pipelineVars, IInv
  <2>4. CASE StartStrokeChain
    BY <2>4 DEF StartStrokeChain, OpenChain, operatorVars, pipelineVars, controllerVars
  <2>5. CASE StartBatchChain
    BY <2>5 DEF StartBatchChain, OpenChain, Client, IInv, TypeOK
  <2>6. CASE Planned
    BY <2>6 DEF Planned, EmptyGoal, operatorVars, pipelineVars, controllerVars, IInv, Stages
  <2>7. CASE PlanFails
    BY <2>7 DEF PlanFails, ChainOver, GiveUp, EmptyGoal, operatorVars, pipelineVars, controllerVars,
                Client, IInv, TypeOK
  <2>8. CASE FindSuccessor
    BY <2>8 DEF FindSuccessor, Look, operatorVars, pipelineVars, controllerVars, IInv, Stages
  <2>9. CASE WaitForPoints \/ CloseChain \/ LeaveStopped
    BY <2>9 DEF WaitForPoints, CloseChain, LeaveStopped, Look, operatorVars, pipelineVars,
                controllerVars, IInv
  <2>10. CASE SwitchForGoal
    BY <2>10 DEF SwitchForGoal, SetFinalize, operatorVars, IInv
  <2>11. CASE SwitchRefused \/ GoalRefused
    <3>1. client' = client /\ client \in Client
      BY <2>11 DEF SwitchRefused, GoalRefused, NotSent, IInv, TypeOK
    <3>2. CASE client = "batch"
      <4>1. latch /\ motion = <<>>
        BY <2>11, <3>2 DEF SwitchRefused, GoalRefused, IInv
      <4> QED
        BY <2>11, <3>1, <3>2, <4>1 DEF SwitchRefused, GoalRefused, NotSent, GiveUp,
               StopsController, IInv
    <3>3. CASE client = "stroke" /\ ~stopFlag
      BY <2>11, <3>1, <3>3 DEF SwitchRefused, GoalRefused, NotSent, ChainOver, StopsController, IInv
    <3>4. CASE client = "stroke" /\ stopFlag
      BY <2>11, <3>1, <3>4 DEF SwitchRefused, GoalRefused, NotSent, ChainOver, StopsController, IInv
    <3> QED
      BY <3>1, <3>2, <3>3, <3>4 DEF Client
  <2>12. CASE GoalAccepted
    <3>1. motion' # <<>>
      <4> DEFINE goal == [left |-> Len(pending), final |-> finalizeParam, rests |-> last]
      <4>1. goal \in Goal
        BY DEF Goal, IInv, TypeOK
      <4>2. motion' = Append(motion, goal)
        BY <2>12 DEF GoalAccepted
      <4> HIDE DEF goal
      <4> QED
        BY <4>1, <4>2, AppendProperties DEF IInv, TypeOK
    <3> QED
      BY <2>12, <3>1 DEF GoalAccepted, operatorVars, pipelineVars, IInv
  <2>13. CASE Drained
    BY <2>13 DEF Drained, ChainOver, GiveUp, operatorVars, pipelineVars, controllerVars, Client,
                 IInv, TypeOK
  <2>14. CASE RestoreFinalize
    BY <2>14 DEF RestoreFinalize, SetFinalize, ChainOver, IInv
  <2>15. CASE Tick
    <3>1. /\ UNCHANGED <<client, stopFlag, failed, pending, window, last>>
          /\ at' = IF at = "poll" THEN "look" ELSE at
      BY <2>15 DEF Tick, operatorVars, pipelineVars
    <3>2. CASE motion = <<>>
      BY <2>15, <3>1, <3>2 DEF Tick, Execute, IInv
    <3>3. CASE motion # <<>>
      <4>1. latch = FALSE
        BY <3>3 DEF IInv, TypeOK
      <4>2. /\ moveOpen' => motion' # <<>>
            /\ latch' => motion' = <<>>
        <5>1. CASE Head(motion).left <= 1
          <6>1. /\ motion' = Tail(motion)
                /\ moveOpen' = (moveOpen /\ ~(Len(motion) = 1 /\ moveOpen))
                /\ latch' = (latch \/ (Len(motion) = 1 /\ moveOpen))
            BY <2>15, <3>3, <5>1 DEF Tick, Execute
          <6>2. motion' = <<>> <=> Len(motion) = 1
            <7>1. Tail(motion) \in Seq(Goal) /\ Len(Tail(motion)) = Len(motion) - 1
              BY <3>3, HeadTailProperties DEF IInv, TypeOK
            <7>2. Tail(motion) = <<>> <=> Len(Tail(motion)) = 0
              BY <7>1, EmptySeq
            <7>3. Len(motion) \in Nat
              BY DEF IInv, TypeOK
            <7> QED
              BY <6>1, <7>1, <7>2, <7>3
          <6> QED
            BY <4>1, <6>1, <6>2 DEF IInv, TypeOK
        <5>2. CASE ~(Head(motion).left <= 1)
          <6>1. motion' = [motion EXCEPT ![1].left = @ - 1] /\ latch' = latch
            BY <2>15, <3>3, <5>2 DEF Tick, Execute, IInv, TypeOK
          <6>2. 1 \in DOMAIN motion'
            BY <3>3, <6>1, EmptySeq DEF IInv, TypeOK
          <6> QED
            BY <4>1, <6>1, <6>2
        <5> QED
          BY <5>1, <5>2
      <4> QED
        BY <3>1, <3>3, <4>1, <4>2 DEF IInv
    <3> QED
      BY <3>2, <3>3
  <2>16. CASE UNCHANGED chainVars
    BY <2>16 DEF chainVars, operatorVars, threadVars, pipelineVars, controllerVars, IInv
  <2> QED
    BY <2>1, <2>2, <2>3, <2>4, <2>5, <2>6, <2>7, <2>8, <2>9, <2>10, <2>11, <2>12, <2>13, <2>14,
       <2>15, <2>16 DEF Next, Operator, Start, ChainStep
<1> QED
  BY TypesHold, <1>1, <1>2, PTL DEF Spec

\* However a chain ends - drained, stopped, refused, not planned - the firmware
\* has no move left open when its thread is back (_close_chain, _fail_chain,
\* stream_goals), as long as an execution's set_finalize is not refused.
THEOREM NothingLeftOpen ==
    ASSUME "batch" \notin ParamFaults
    PROVE  Spec => []NoMoveLeftOpen
<1>1. Closing => NoMoveLeftOpen
  BY DEF Closing, NoMoveLeftOpen
<1> QED
  BY ChainsClose, <1>1, PTL

-------------------------------------------------------------------------------
(* Seams.                                                                  *)

\* What the present client has cached is what the controller has, unless the
\* client can send nothing any more.
Caches ==
    /\ cache[client] = "true" => finalizeParam \/ served
    /\ cache[client] = "false" => ~finalizeParam \/ failed[client] \/ refused
    /\ at = "pace" => cache[client] = FinalizeOf(last)

\* A stroke route that leaves its parameter at false has failed: a stop finds
\* it with a goal to abort, as it does not wait for points so long that the
\* motion runs out.
OpenRoute ==
    cache["stroke"] = "false" /\ ~failed["stroke"] /\ ~refused =>
        /\ client = "stroke"
        /\ at \in {"plan", "switch", "pace", "look", "poll"}
        /\ at = "plan" => pending # <<>>
        /\ at \in {"look", "poll"} => motion # <<>> /\ opened
        /\ at = "poll" => slack > 1

Latched == (stopFlag => latch) /\ (latch => motion = <<>>)

\* The controller has ahead[i] ticks to execute in goal i and those behind it,
\* which is all the slack the thread counts on.
Covers(ahead) ==
    /\ ahead[Len(motion) + 1] = 0
    /\ \A i \in 1 .. Len(motion) : ahead[i] <= ahead[i + 1] + motion[i].left
    /\ slack <= ahead[1]

Covered ==
    /\ at = "idle" => slack = 0
    /\ latch \/ \E ahead \in [1 .. Len(motion) + 1 -> Nat] : Covers(ahead)

SeamInv == Caches /\ OpenRoute /\ Latched /\ Covered /\ SeamsMatchFinalize

\* SeamInv holds throughout, under the margin SeamsMatch assumes.
LEMMA SeamsKept ==
    ASSUME CloseMargin > 1
    PROVE  Spec => []SeamInv
<1>1. Init => SeamInv
  <2> SUFFICES ASSUME Init PROVE SeamInv
    OBVIOUS
  <2>1. Caches /\ OpenRoute /\ Latched /\ SeamsMatchFinalize
    BY DEF Init, Client, Caches, OpenRoute, Latched, SeamsMatchFinalize
  <2>2. Covers([i \in 1 .. 1 |-> 0]) /\ Len(motion) = 0
    BY DEF Init, Covers
  <2>3. Covered
    BY <2>2 DEF Init, Covered
  <2> QED
    BY <2>1, <2>3 DEF SeamInv
<1>2. TypeOK /\ Stages /\ SeamInv /\ [Next]_chainVars => SeamInv'
  <2> SUFFICES ASSUME TypeOK, Stages, SeamInv, [Next]_chainVars PROVE SeamInv'
    OBVIOUS
  <2>0. Caches /\ OpenRoute /\ Latched /\ Covered /\ SeamsMatchFinalize
    BY DEF SeamInv
  <2>1. Caches'
    <3> USE <2>0 DEF Caches
    <3>1. CASE PenDown \/ PenUp \/ Reset
      BY <3>1 DEF PenDown, PenUp, Reset, KeepsChain, threadVars, pipelineVars, controllerVars,
             historyVars
    <3>2. CASE Stop
      BY <3>2 DEF Stop, StopCall, threadVars, historyVars, TypeOK
    <3>3. CASE StartStrokeChain
      BY <3>3 DEF StartStrokeChain, OpenChain, operatorVars, pipelineVars, controllerVars
    <3>4. CASE StartBatchChain
      BY <3>4 DEF StartBatchChain, OpenChain, TypeOK, Client
    <3>5. CASE Planned
      BY <3>5 DEF Planned, operatorVars, pipelineVars, controllerVars, historyVars
    <3>6. CASE PlanFails
      BY <3>6 DEF PlanFails, ChainOver, GiveUp, operatorVars, pipelineVars, controllerVars
    <3>7. CASE FindSuccessor \/ WaitForPoints \/ CloseChain \/ LeaveStopped
      BY <3>7 DEF FindSuccessor, WaitForPoints, CloseChain, LeaveStopped, Look, operatorVars,
             pipelineVars, controllerVars, historyVars
    <3>8. CASE SwitchForGoal
      BY <3>8 DEF SwitchForGoal, SetFinalize, FinalizeOf, operatorVars, historyVars, TypeOK
    <3>9. CASE SwitchRefused \/ GoalRefused
      BY <3>9 DEF SwitchRefused, GoalRefused, NotSent, ChainOver, GiveUp, TypeOK
    <3>10. CASE GoalAccepted
      BY <3>10 DEF GoalAccepted, operatorVars, pipelineVars
    <3>11. CASE Drained
      BY <3>11 DEF Drained, ChainOver, GiveUp, operatorVars, pipelineVars, controllerVars,
             historyVars
    <3>12. CASE RestoreFinalize
      <4>1. /\ client' = "stroke" /\ at' = "idle" /\ (finalizeParam' \/ served)
            /\ UNCHANGED <<failed, refused, served>>
        BY <3>12 DEF RestoreFinalize, SetFinalize, FinalizeOf, ChainOver, historyVars, TypeOK
      <4>2. cache'["stroke"] = "false" => client # "stroke" /\ cache["stroke"] = "false"
        BY <3>12 DEF RestoreFinalize, SetFinalize, FinalizeOf, TypeOK, Client
      <4> QED
        BY <4>1, <4>2 DEF OpenRoute
    <3>13. CASE Tick
      BY <3>13 DEF Tick, operatorVars, pipelineVars
    <3>14. CASE UNCHANGED chainVars
      BY <3>14 DEF chainVars, operatorVars, threadVars, pipelineVars, controllerVars, historyVars
    <3> QED
      BY <3>1, <3>2, <3>3, <3>4, <3>5, <3>6, <3>7, <3>8, <3>9, <3>10, <3>11, <3>12, <3>13, <3>14
         DEF Next, Operator, Start, ChainStep
  <2>2. Latched'
    <3> USE <2>0 DEF Latched
    <3>1. CASE PenDown \/ PenUp \/ Reset
      BY <3>1 DEF PenDown, PenUp, Reset, KeepsChain, controllerVars
    <3>2. CASE Stop
      BY <3>2 DEF Stop, StopCall
    <3>3. CASE StartStrokeChain \/ StartBatchChain
      <4>1. CASE StartStrokeChain
        BY <4>1 DEF StartStrokeChain, operatorVars, controllerVars
      <4>2. CASE StartBatchChain
        <5>1. UNCHANGED <<stopFlag, motion>> /\ ~stopFlag /\ ~latch'
          BY <4>2 DEF StartBatchChain
        <5> QED
          BY <5>1
      <4> QED
        BY <3>3, <4>1, <4>2
    <3>4. CASE Planned \/ PlanFails \/ Drained
      BY <3>4 DEF Planned, PlanFails, Drained, operatorVars, controllerVars
    <3>5. CASE FindSuccessor \/ WaitForPoints \/ CloseChain \/ LeaveStopped
      BY <3>5 DEF FindSuccessor, WaitForPoints, CloseChain, LeaveStopped, Look, operatorVars,
             controllerVars
    <3>6. CASE SwitchForGoal \/ RestoreFinalize
      <4>1. UNCHANGED <<stopFlag, latch, motion>>
        BY <3>6 DEF SwitchForGoal, RestoreFinalize, SetFinalize, operatorVars
      <4> QED
        BY <4>1
    <3>7. CASE SwitchRefused \/ GoalRefused
      BY <3>7 DEF SwitchRefused, GoalRefused, NotSent, StopsController, TypeOK
    <3>8. CASE GoalAccepted
      BY <3>8 DEF GoalAccepted, operatorVars
    <3>9. CASE Tick
      <4>1. stopFlag' = stopFlag
        BY <3>9 DEF Tick, operatorVars
      <4>2. CASE motion = <<>>
        BY <3>9, <4>1, <4>2 DEF Tick, Execute
      <4>3. CASE motion # <<>>
        <5>1. ~latch
          BY <4>3
        <5>2. ASSUME latch'
              PROVE  motion' = <<>>
          <6>1. motion' = Tail(motion) /\ Len(motion) = 1
            BY <3>9, <4>3, <5>1, <5>2 DEF Tick, Execute, TypeOK
          <6>2. Tail(motion) \in Seq(Goal) /\ Len(Tail(motion)) = 0
            BY <4>3, <6>1, HeadTailProperties DEF TypeOK
          <6> QED
            BY <6>1, <6>2, EmptySeq
        <5> QED
          BY <4>1, <5>1, <5>2
      <4> QED
        BY <4>2, <4>3
    <3>10. CASE UNCHANGED chainVars
      BY <3>10 DEF chainVars, operatorVars, controllerVars
    <3> QED
      BY <3>1, <3>2, <3>3, <3>4, <3>5, <3>6, <3>7, <3>8, <3>9, <3>10
         DEF Next, Operator, Start, ChainStep
  <2>3. SeamsMatchFinalize'
    <3> USE <2>0 DEF SeamsMatchFinalize
    <3>1. CASE motion' = motion /\ refused' = refused /\ served' = served
      BY <3>1
    <3>2. CASE motion' = <<>>
      BY <3>2
    <3>3. CASE SwitchRefused \/ GoalRefused
      <4>1. (motion' = motion \/ motion' = <<>>) /\ (refused => refused') /\ (served => served')
        BY <3>3 DEF SwitchRefused, GoalRefused, NotSent, StopsController, TypeOK
      <4> QED
        BY <4>1
    <3>4. CASE GoalAccepted
      <4> DEFINE goal == [left |-> Len(pending), final |-> finalizeParam, rests |-> last]
      <4>1. /\ motion' = Append(motion, goal) /\ refused' = refused /\ served' = served
            /\ goal.final = finalizeParam /\ goal.rests = last
        BY <3>4 DEF GoalAccepted
      <4>2. (last => finalizeParam \/ served) /\ (finalizeParam => last \/ refused)
        BY <3>4 DEF GoalAccepted, Caches, FinalizeOf
      <4>3. goal \in Goal
        BY DEF Goal, TypeOK
      <4> HIDE DEF goal
      <4>4. /\ DOMAIN motion' = 1 .. Len(motion) + 1
            /\ \A i \in 1 .. Len(motion) : motion'[i] = motion[i]
            /\ motion'[Len(motion) + 1] = goal
        BY <4>1, <4>3, AppendProperties DEF TypeOK
      <4>5. DOMAIN motion = 1 .. Len(motion) /\ Len(motion) \in Nat
        BY DEF TypeOK
      <4> QED
        BY <4>1, <4>2, <4>4, <4>5
    <3>5. CASE Tick
      <4>1. refused' = refused /\ served' = served
        BY <3>5 DEF Tick
      <4>2. CASE motion # <<>> /\ motion' = Tail(motion)
        <5>1. /\ DOMAIN motion' = 1 .. Len(motion) - 1 /\ DOMAIN motion = 1 .. Len(motion)
              /\ \A i \in 1 .. Len(motion) - 1 : motion'[i] = motion[i + 1]
              /\ Len(motion) \in Nat
          BY <4>2, HeadTailProperties DEF TypeOK
        <5> QED
          BY <4>1, <5>1
      <4>3. CASE motion # <<>> /\ motion' = [motion EXCEPT ![1].left = @ - 1]
        <5>1. /\ DOMAIN motion' = DOMAIN motion
              /\ \A i \in DOMAIN motion : /\ motion'[i].rests = motion[i].rests
                                          /\ motion'[i].final = motion[i].final
          <6>1. motion' = [motion EXCEPT ![1] = [motion[1] EXCEPT !.left = @ - 1]]
            BY <4>3
          <6>2. \A i \in DOMAIN motion : motion[i] \in Goal
            BY ElementOfSeq DEF TypeOK
          <6>3. DOMAIN motion = 1 .. Len(motion)
            BY DEF TypeOK
          <6> QED
            BY <6>1, <6>2, <6>3 DEF Goal, TypeOK
        <5> QED
          BY <4>1, <5>1
      <4> QED
        BY <3>1, <3>5, <4>1, <4>2, <4>3 DEF Tick, Execute
    <3>6. CASE PenDown \/ PenUp \/ Reset
      BY <3>6, <3>1 DEF PenDown, PenUp, Reset, KeepsChain, controllerVars, historyVars
    <3>7. CASE Stop
      BY <3>7, <3>2 DEF Stop, StopCall
    <3>8. CASE StartStrokeChain \/ StartBatchChain
      BY <3>8, <3>1 DEF StartStrokeChain, StartBatchChain, controllerVars
    <3>9. CASE Planned \/ PlanFails \/ Drained
      BY <3>9, <3>1 DEF Planned, PlanFails, Drained, controllerVars, historyVars
    <3>10. CASE FindSuccessor \/ WaitForPoints \/ CloseChain \/ LeaveStopped
      BY <3>10, <3>1 DEF FindSuccessor, WaitForPoints, CloseChain, LeaveStopped, Look,
             controllerVars, historyVars
    <3>11. CASE SwitchForGoal \/ RestoreFinalize
      BY <3>11, <3>1 DEF SwitchForGoal, RestoreFinalize, SetFinalize, historyVars
    <3>12. CASE UNCHANGED chainVars
      BY <3>12, <3>1 DEF chainVars, controllerVars, historyVars
    <3> QED
      BY <3>3, <3>4, <3>5, <3>6, <3>7, <3>8, <3>9, <3>10, <3>11, <3>12
         DEF Next, Operator, Start, ChainStep
  <2>4. Covered'
    <3>0. Len(motion) \in Nat /\ motion \in Seq(Goal) /\ slack \in Nat
      BY DEF TypeOK
    \* A latch has left nothing to execute, and an idle thread counts on nothing.
    <3>1. at = "idle" => \E ahead \in [1 .. Len(motion) + 1 -> Nat] : Covers(ahead)
      <4>1. CASE latch /\ at = "idle"
        <5>1. Len(motion) = 0 /\ slack = 0
          BY <2>0, <4>1, EmptySeq DEF Latched, Covered
        <5>2. Covers([i \in 1 .. Len(motion) + 1 |-> 0])
          BY <5>1 DEF Covers
        <5> QED
          BY <5>1, <5>2
      <4> QED
        BY <2>0, <4>1 DEF Covered
    \* What covers the slack covers less of it.
    <3>2. ASSUME UNCHANGED <<motion, latch>>, slack' \in Nat, slack' <= slack,
                 at' = "idle" => slack' = 0
          PROVE  Covered'
      <4>1. ASSUME NEW ahead \in [1 .. Len(motion) + 1 -> Nat], Covers(ahead)
            PROVE  Covers(ahead)'
        <5>1. ahead[1] \in Nat
          BY <3>0
        <5> QED
          BY <3>0, <3>2, <4>1, <5>1 DEF Covers
      <4> QED
        BY <2>0, <3>2, <4>1 DEF Covered
    <3>3. CASE PenDown \/ PenUp
      BY <3>0, <3>2, <3>3, <2>0 DEF PenDown, PenUp, KeepsChain, threadVars, controllerVars, Covered
    <3>4. CASE Stop
      BY <3>4, <2>0 DEF Stop, StopCall, threadVars, Covered
    <3>5. CASE Reset \/ StartStrokeChain \/ StartBatchChain
      <4>1. at = "idle" /\ UNCHANGED <<motion, slack>>
        BY <3>5 DEF Reset, StartStrokeChain, StartBatchChain, OpenChain, threadVars, controllerVars
      <4> QED
        BY <2>0, <3>1, <4>1 DEF Covered, Covers
    <3>6. CASE Planned \/ FindSuccessor \/ WaitForPoints \/ CloseChain \/ LeaveStopped
      BY <3>0, <3>2, <3>6 DEF Planned, FindSuccessor, WaitForPoints, CloseChain, LeaveStopped,
             Look, controllerVars
    <3>7. CASE PlanFails
      BY <3>0, <3>2, <3>7 DEF PlanFails, ChainOver, GiveUp, controllerVars
    <3>8. CASE SwitchForGoal \/ RestoreFinalize
      <4>1. UNCHANGED <<latch, motion>>
        BY <3>8 DEF SwitchForGoal, RestoreFinalize, SetFinalize
      <4>2. (at' # "idle" /\ slack' = slack) \/ slack' = 0
        BY <3>8 DEF SwitchForGoal, RestoreFinalize, ChainOver
      <4> QED
        BY <3>0, <3>2, <4>1, <4>2
    <3>9. CASE SwitchRefused \/ GoalRefused
      <4>1. (at' = "idle" => slack' = 0) /\ slack' \in {0, slack}
        BY <3>9 DEF SwitchRefused, GoalRefused, NotSent, ChainOver, GiveUp
      <4>2. latch' \/ UNCHANGED <<latch, motion>>
        BY <3>9 DEF SwitchRefused, GoalRefused, NotSent
      <4> QED
        BY <3>0, <3>2, <4>1, <4>2 DEF Covered
    <3>10. CASE GoalAccepted
      <4> DEFINE goal == [left |-> Len(pending), final |-> finalizeParam, rests |-> last]
      <4>1. /\ motion' = Append(motion, goal) /\ slack' = slack + goal.left /\ at' # "idle"
            /\ ~latch
        BY <3>10 DEF GoalAccepted
      <4>2. goal \in Goal /\ goal.left \in Nat
        BY DEF Goal, TypeOK
      <4>3. PICK ahead \in [1 .. Len(motion) + 1 -> Nat] : Covers(ahead)
        BY <2>0, <4>1 DEF Covered
      <4> HIDE DEF goal
      <4>4. /\ Len(motion') = Len(motion) + 1
            /\ \A i \in 1 .. Len(motion) : motion'[i] = motion[i]
            /\ motion'[Len(motion) + 1] = goal
        BY <3>0, <4>1, <4>2, AppendProperties
      <4>5. PICK more \in [1 .. Len(motion) + 2 -> Nat] :
               /\ \A i \in 1 .. Len(motion) + 1 : more[i] = ahead[i] + goal.left
               /\ more[Len(motion) + 2] = 0
        <5> DEFINE sum == [i \in 1 .. Len(motion) + 2 |->
                             IF i <= Len(motion) + 1 THEN ahead[i] + goal.left ELSE 0]
        <5>1. sum \in [1 .. Len(motion) + 2 -> Nat]
          BY <3>0, <4>2, <4>3
        <5>2. \A i \in 1 .. Len(motion) + 1 : sum[i] = ahead[i] + goal.left
          BY <3>0
        <5>3. sum[Len(motion) + 2] = 0
          BY <3>0
        <5> HIDE DEF sum
        <5> QED
          BY <5>1, <5>2, <5>3
      <4>6. Covers(more)'
        <5>1. ASSUME NEW i \in 1 .. Len(motion)
              PROVE  more[i] <= more[i + 1] + motion'[i].left
          <6>1. motion[i] \in Goal
            BY <3>0, ElementOfSeq
          <6>2. motion[i].left \in Nat /\ motion'[i] = motion[i]
            BY <4>4, <6>1 DEF Goal
          <6>3. ahead[i] <= ahead[i + 1] + motion[i].left
            BY <4>3 DEF Covers
          <6>4. i + 1 \in 1 .. Len(motion) + 1 /\ i \in 1 .. Len(motion) + 1
            BY <3>0
          <6>5. more[i] = ahead[i] + goal.left /\ more[i + 1] = ahead[i + 1] + goal.left
            BY <4>5, <6>4
          <6>6. ahead[i] \in Nat /\ ahead[i + 1] \in Nat
            BY <4>3, <6>4
          <6>7. motion'[i].left = motion[i].left /\ motion[i].left \in Nat
            BY <6>2
          <6> QED
            BY <4>2, <6>3, <6>5, <6>6, <6>7
        <5>2. /\ 1 \in 1 .. Len(motion) + 1 /\ Len(motion) + 1 \in 1 .. Len(motion) + 1
              /\ ahead[Len(motion) + 1] = 0 /\ slack <= ahead[1]
          BY <3>0, <4>3 DEF Covers
        <5>3. more[Len(motion) + 1] <= more[Len(motion) + 2] + goal.left
          BY <4>2, <4>5, <5>2
        <5>4. slack' <= more[1]
          <6>1. more[1] = ahead[1] + goal.left /\ ahead[1] \in Nat
            BY <4>3, <4>5, <5>2
          <6> QED
            BY <3>0, <4>1, <4>2, <5>2, <6>1
        <5>5. \A i \in 1 .. Len(motion) + 1 : more[i] <= more[i + 1] + motion'[i].left
          BY <3>0, <4>4, <5>1, <5>3
        <5> QED
          BY <3>0, <4>4, <4>5, <5>4, <5>5 DEF Covers
      <4>7. Len(motion') + 1 = Len(motion) + 2
        BY <3>0, <4>4
      <4> QED
        BY <4>1, <4>6, <4>7 DEF Covered
    <3>11. CASE Drained
      BY <3>0, <3>2, <3>11 DEF Drained, ChainOver, GiveUp, controllerVars
    <3>12. CASE Tick
      <4>1. /\ slack' = (IF slack > 0 THEN slack - 1 ELSE 0) /\ (at' = "idle" => at = "idle")
            /\ slack' \in Nat /\ slack' <= slack
        BY <3>0, <3>12 DEF Tick
      <4>2. at' = "idle" => slack' = 0
        BY <2>0, <4>1 DEF Covered
      <4>3. CASE motion = <<>>
        BY <3>2, <3>12, <4>1, <4>2, <4>3 DEF Tick, Execute
      <4>4. CASE motion # <<>> /\ ~latch'
        <5>1. PICK ahead \in [1 .. Len(motion) + 1 -> Nat] : Covers(ahead)
          BY <2>0, <4>4 DEF Covered, Latched
        <5>2. 1 \in 1 .. Len(motion) /\ motion[1].left \in Nat /\ ahead[1] \in Nat /\ ahead[2] \in Nat
          <6>1. 1 \in 1 .. Len(motion)
            BY <3>0, <4>4, EmptySeq
          <6>2. motion[1] \in Goal
            BY <3>0, <6>1, ElementOfSeq
          <6> QED
            BY <3>0, <6>1, <6>2 DEF Goal
        <5>3. ahead[1] <= ahead[2] + motion[1].left /\ slack <= ahead[1]
          BY <5>1, <5>2 DEF Covers
        <5>4. CASE Head(motion).left <= 1
          <6>1. motion' = Tail(motion) /\ motion[1].left <= 1
            BY <3>12, <4>4, <5>4 DEF Tick, Execute
          <6>2. /\ Len(motion') = Len(motion) - 1
                /\ \A i \in 1 .. Len(motion) - 1 : motion'[i] = motion[i + 1]
            BY <3>0, <4>4, <6>1, HeadTailProperties
          <6>3. PICK rest \in [1 .. Len(motion') + 1 -> Nat] :
                   \A i \in 1 .. Len(motion) : rest[i] = ahead[i + 1]
            <7> DEFINE shifted == [i \in 1 .. Len(motion) |-> ahead[i + 1]]
            <7>1. shifted \in [1 .. Len(motion') + 1 -> Nat]
              BY <3>0, <5>2, <6>2
            <7>2. \A i \in 1 .. Len(motion) : shifted[i] = ahead[i + 1]
              OBVIOUS
            <7> HIDE DEF shifted
            <7> QED
              BY <7>1, <7>2
          <6>4. rest[1] = ahead[2] /\ rest[Len(motion)] = ahead[Len(motion) + 1]
            BY <3>0, <5>2, <6>3
          <6>5. slack' <= rest[1]
            BY <3>0, <4>1, <5>2, <5>3, <6>1, <6>4
          <6>6. ASSUME NEW i \in 1 .. Len(motion) - 1
                PROVE  rest[i] <= rest[i + 1] + motion'[i].left
            <7>1. i \in 1 .. Len(motion) /\ i + 1 \in 1 .. Len(motion)
              BY <3>0
            <7>2. ahead[i + 1] <= ahead[i + 1 + 1] + motion[i + 1].left
              BY <5>1, <7>1 DEF Covers
            <7> QED
              BY <6>2, <6>3, <7>1, <7>2
          <6>7. Covers(rest)'
            BY <3>0, <5>1, <6>2, <6>4, <6>5, <6>6 DEF Covers
          <6> QED
            BY <4>2, <6>3, <6>7 DEF Covered
        <5>5. CASE ~(Head(motion).left <= 1)
          <6>1. motion' = [motion EXCEPT ![1].left = @ - 1] /\ motion[1].left > 1
            BY <3>12, <4>4, <5>2, <5>5 DEF Tick, Execute
          <6>2. /\ Len(motion') = Len(motion)
                /\ motion'[1].left = motion[1].left - 1
                /\ \A i \in 1 .. Len(motion) : i # 1 => motion'[i] = motion[i]
            <7>1. motion' = [motion EXCEPT ![1] = [motion[1] EXCEPT !.left = @ - 1]]
              BY <6>1
            <7>2. motion[1] \in Goal
              BY <3>0, <5>2, ElementOfSeq
            <7>3. /\ [motion[1] EXCEPT !.left = @ - 1] \in Goal
                  /\ [motion[1] EXCEPT !.left = @ - 1].left = motion[1].left - 1
              <8>1. motion[1].left - 1 \in Nat
                BY <5>2, <6>1
              <8> QED
                BY <7>2, <8>1 DEF Goal
            <7> QED
              BY <3>0, <5>2, <7>1, <7>3, ExceptSeq
          <6>3. PICK less \in [1 .. Len(motion') + 1 -> Nat] :
                   /\ less[1] = IF ahead[1] > 0 THEN ahead[1] - 1 ELSE 0
                   /\ \A i \in 2 .. Len(motion) + 1 : less[i] = ahead[i]
            <7> DEFINE lowered == [ahead EXCEPT ![1] = IF @ > 0 THEN @ - 1 ELSE 0]
            <7>1. lowered \in [1 .. Len(motion') + 1 -> Nat]
              BY <3>0, <5>1, <5>2, <6>2
            <7>2. lowered[1] = IF ahead[1] > 0 THEN ahead[1] - 1 ELSE 0
              BY <3>0, <5>2
            <7>3. \A i \in 2 .. Len(motion) + 1 : lowered[i] = ahead[i]
              BY <3>0
            <7> HIDE DEF lowered
            <7> QED
              BY <7>1, <7>2, <7>3
          <6>4. slack' <= less[1] /\ less[1] <= less[2] + motion'[1].left
            <7>1. less[2] = ahead[2]
              BY <3>0, <5>2, <6>3
            <7> QED
              BY <3>0, <4>1, <5>2, <5>3, <6>1, <6>2, <6>3, <7>1
          <6>5. ASSUME NEW i \in 1 .. Len(motion)
                PROVE  less[i] <= less[i + 1] + motion'[i].left
            <7>1. CASE i # 1
              <8>1. less[i] = ahead[i] /\ less[i + 1] = ahead[i + 1] /\ motion'[i] = motion[i]
                BY <3>0, <6>2, <6>3, <7>1
              <8> QED
                BY <5>1, <8>1 DEF Covers
            <7> QED
              BY <6>4, <7>1
          <6>6. less[Len(motion) + 1] = 0
            <7>1. Len(motion) + 1 \in 2 .. Len(motion) + 1
              BY <3>0, <5>2
            <7> QED
              BY <5>1, <6>3, <7>1 DEF Covers
          <6>7. Covers(less)'
            BY <6>2, <6>4, <6>5, <6>6 DEF Covers
          <6> QED
            BY <4>2, <6>3, <6>7 DEF Covered
        <5> QED
          BY <5>4, <5>5
      <4> QED
        BY <4>2, <4>3, <4>4 DEF Covered
    <3>13. CASE UNCHANGED chainVars
      BY <2>0, <3>0, <3>2, <3>13 DEF chainVars, threadVars, controllerVars, Covered
    <3> QED
      BY <3>3, <3>4, <3>5, <3>6, <3>7, <3>8, <3>9, <3>10, <3>11, <3>12, <3>13
         DEF Next, Operator, Start, ChainStep
  <2>5. OpenRoute'
    <3> USE <2>0 DEF OpenRoute
    <3>1. CASE PenDown \/ PenUp
      BY <3>1 DEF PenDown, PenUp, KeepsChain, threadVars, pipelineVars, controllerVars, historyVars
    <3>2. CASE Stop
      BY <3>2 DEF Stop, StopCall, threadVars, historyVars, Client, TypeOK
    <3>3. CASE Reset
      BY <3>3 DEF Reset, threadVars, pipelineVars
    <3>4. CASE StartStrokeChain
      BY <3>4 DEF StartStrokeChain, pipelineVars
    <3>5. CASE StartBatchChain
      BY <3>5 DEF StartBatchChain, TypeOK, Client
    <3>6. CASE Planned
      BY <3>6 DEF Planned, EmptyGoal, operatorVars, pipelineVars, controllerVars, historyVars
    <3>7. CASE PlanFails
      BY <3>7 DEF PlanFails, EmptyGoal, operatorVars, pipelineVars, controllerVars
    <3>8. CASE FindSuccessor
      BY <3>8 DEF FindSuccessor, Look, Stages, operatorVars, pipelineVars, controllerVars,
             historyVars
    <3>9. CASE WaitForPoints
      BY <3>9, ChainAssumption DEF WaitForPoints, Flush, DeadlineNear, Look, operatorVars,
             pipelineVars, controllerVars, historyVars, TypeOK
    <3>10. CASE CloseChain \/ LeaveStopped
      BY <3>10 DEF CloseChain, LeaveStopped, Look, Latched, operatorVars, pipelineVars,
             controllerVars, historyVars
    <3>11. CASE SwitchForGoal
      BY <3>11 DEF SwitchForGoal, SetFinalize, operatorVars, historyVars, TypeOK, Client
    <3>12. CASE SwitchRefused
      BY <3>12 DEF SwitchRefused
    <3>13. CASE GoalRefused
      BY <3>13 DEF GoalRefused, NotSent, TypeOK, Client
    <3>14. CASE GoalAccepted
      <4>1. motion' # <<>>
        <5> DEFINE goal == [left |-> Len(pending), final |-> finalizeParam, rests |-> last]
        <5>1. goal \in Goal /\ motion' = Append(motion, goal)
          BY <3>14 DEF GoalAccepted, Goal, TypeOK
        <5> HIDE DEF goal
        <5> QED
          BY <5>1, AppendProperties DEF TypeOK
      <4>2. last => cache[client] = "true"
        BY <3>14 DEF GoalAccepted, Caches, FinalizeOf
      <4> QED
        BY <3>14, <4>1, <4>2 DEF GoalAccepted, operatorVars, pipelineVars
    <3>15. CASE Drained
      BY <3>15 DEF Drained, pipelineVars, historyVars
    <3>16. CASE RestoreFinalize
      BY <3>16 DEF RestoreFinalize, SetFinalize, FinalizeOf, historyVars, TypeOK, Client
    <3>17. CASE Tick
      <4>1. /\ UNCHANGED <<cache, failed, refused, client, pending, opened>>
            /\ at \notin {"look", "switch"}
            /\ at' = IF at = "poll" THEN "look" ELSE at
        BY <3>17 DEF Tick, Waiting, operatorVars, pipelineVars
      <4>2. ASSUME at = "poll", motion # <<>>, slack > 1
            PROVE  motion' # <<>>
        <5>1. motion \in Seq(Goal) /\ Len(motion) \in Nat /\ slack \in Nat
          BY DEF TypeOK
        <5>2. CASE Head(motion).left <= 1
          <6>1. motion' = Tail(motion) /\ motion[1].left <= 1
            BY <3>17, <4>2, <5>2 DEF Tick, Execute
          <6>2. PICK ahead \in [1 .. Len(motion) + 1 -> Nat] : Covers(ahead)
            BY <4>2 DEF Covered, Latched
          <6>3. /\ 1 \in 1 .. Len(motion) /\ motion[1].left \in Nat
                /\ ahead[1] \in Nat /\ ahead[2] \in Nat
            <7>1. 1 \in 1 .. Len(motion)
              BY <4>2, <5>1, EmptySeq
            <7>2. motion[1] \in Goal
              BY <5>1, <7>1, ElementOfSeq
            <7> QED
              BY <5>1, <7>1, <7>2 DEF Goal
          <6>4. ahead[1] <= ahead[2] + motion[1].left /\ slack <= ahead[1]
            BY <6>2, <6>3 DEF Covers
          <6>5. ahead[2] # 0
            BY <4>2, <5>1, <6>1, <6>3, <6>4
          <6>6. Len(motion) # 1
            BY <6>2, <6>5 DEF Covers
          <6>7. Tail(motion) \in Seq(Goal) /\ Len(Tail(motion)) # 0
            BY <4>2, <5>1, <6>3, <6>6, HeadTailProperties
          <6> QED
            BY <6>1, <6>7, EmptySeq
        <5>3. CASE ~(Head(motion).left <= 1)
          <6>1. motion' = [motion EXCEPT ![1].left = @ - 1]
            BY <3>17, <4>2, <5>3 DEF Tick, Execute
          <6>2. 1 \in DOMAIN motion /\ DOMAIN motion' = DOMAIN motion
            BY <4>2, <5>1, <6>1, EmptySeq
          <6> QED
            BY <6>2
        <5> QED
          BY <5>2, <5>3
      <4> QED
        BY <4>1, <4>2
    <3>18. CASE UNCHANGED chainVars
      BY <3>18 DEF chainVars, operatorVars, threadVars, pipelineVars, controllerVars, historyVars
    <3> QED
      BY <3>1, <3>2, <3>3, <3>4, <3>5, <3>6, <3>7, <3>8, <3>9, <3>10, <3>11, <3>12, <3>13, <3>14,
         <3>15, <3>16, <3>17, <3>18 DEF Next, Operator, Start, ChainStep
  <2> QED
    BY <2>1, <2>2, <2>3, <2>4, <2>5 DEF SeamInv
<1> QED
  BY TypesHold, <1>1, <1>2, PTL DEF Spec

\* Over chains of both clients, stops and resets, and until a set_finalize has
\* failed, no goal is accepted with a finalize parameter that is not its own, as
\* long as a chain is closed more than one tick before its motion ends
\* (FinalizeSwitch, _submit, run_streamed).
THEOREM SeamsMatch ==
    ASSUME CloseMargin > 1
    PROVE  Spec => []SeamsMatchFinalize
<1>1. SeamInv => SeamsMatchFinalize
  BY DEF SeamInv
<1> QED
  BY SeamsKept, <1>1, PTL

-------------------------------------------------------------------------------
(* Time.                                                                   *)

\* Behind a move that is open the thread is on its way to another goal, and the
\* motion outlasts what it still has to wait for: the rest of the planning, or
\* a poll and a planning after it.
Fed ==
    moveOpen /\ ~shortGoal /\ ~served =>
        /\ at \in {"look", "poll", "plan", "switch", "pace"}
        /\ opened
        /\ at = "plan" => pending # <<>> /\ slack + planned > PlanTicks
        /\ at = "poll" => slack > PlanTicks + 1
        /\ at = "look" => slack > PlanTicks

FeedInv == Fed /\ StarvesOnlyBehindShortGoal

\* In the last tick of the last goal at most that tick is slack.
LEMMA SlackIsMotion ==
    ASSUME TypeOK, SeamInv, ~latch, motion # <<>>, Head(motion).left <= 1, Len(motion) = 1
    PROVE  slack <= 1
<1>1. PICK ahead \in [1 .. Len(motion) + 1 -> Nat] : Covers(ahead)
  BY DEF SeamInv, Covered
<1>2. motion \in Seq(Goal) /\ slack \in Nat
  BY DEF TypeOK
<1>3. motion[1] \in Goal /\ Head(motion) = motion[1]
  BY <1>2, ElementOfSeq, HeadTailProperties
<1>4. ahead[2] = 0 /\ ahead[1] <= ahead[2] + motion[1].left /\ slack <= ahead[1]
  BY <1>1 DEF Covers
<1>5. motion[1].left \in Nat /\ motion[1].left <= 1 /\ ahead[1] \in Nat
  BY <1>1, <1>3 DEF Goal
<1> QED
  BY <1>2, <1>4, <1>5

\* The controller never runs out of goals on an open move, unless a goal before
\* is shorter than a planning may take: the close margin covers a poll and a
\* planning after it, the pipeline holds two goals, no set_finalize of an
\* execution fails and none that timed out was served (_next_window, _run_chain, GoalPipeline.submit).
THEOREM NeverStarved ==
    ASSUME CloseMargin > PlanTicks + 1, MaxInflight > 1, "batch" \notin ParamFaults
    PROVE  Spec => []StarvesOnlyBehindShortGoal
<1>0. CloseMargin > 1 /\ PlanTicks \in Nat /\ CloseMargin \in Nat /\ MaxInflight \in Nat
  BY ChainAssumption
<1>1. Init => FeedInv
  BY DEF Init, FeedInv, Fed, StarvesOnlyBehindShortGoal
<1>2. TypeOK /\ Stages /\ Closing /\ SeamInv /\ FeedInv /\ [Next]_chainVars => FeedInv'
  <2> SUFFICES ASSUME TypeOK, Stages, Closing, SeamInv, FeedInv, [Next]_chainVars
               PROVE  FeedInv'
    OBVIOUS
  <2> USE DEF FeedInv, Fed, StarvesOnlyBehindShortGoal
  <2>0. /\ moveOpen => motion # <<>> /\ ~latch /\ ~stopFlag
        /\ at \in {"idle", "restore"} => ~moveOpen
        /\ at = "plan" /\ pending = <<>> => ~moveOpen
        /\ client = "batch" /\ moveOpen => ~failed["batch"]
    BY DEF Closing, SeamInv, Latched
  <2>1. CASE PenDown \/ PenUp
    BY <2>1 DEF PenDown, PenUp, KeepsChain, threadVars, controllerVars, historyVars
  <2>2. CASE Stop
    BY <2>2 DEF Stop, StopCall, historyVars
  <2>3. CASE Reset
    BY <2>0, <2>3 DEF Reset
  <2>4. CASE StartStrokeChain
    BY <2>0, <2>4 DEF StartStrokeChain, controllerVars
  <2>5. CASE StartBatchChain
    BY <2>0, <2>5 DEF StartBatchChain
  <2>6. CASE Planned
    BY <2>0, <2>6 DEF Planned, EmptyGoal, controllerVars, historyVars
  <2>7. CASE PlanFails
    BY <2>0, <2>7 DEF PlanFails, EmptyGoal, controllerVars
  <2>8. CASE FindSuccessor
    BY <1>0, <2>8 DEF FindSuccessor, Look, controllerVars, historyVars, TypeOK, Stages
  <2>9. CASE WaitForPoints
    BY <1>0, <2>9 DEF WaitForPoints, Look, Flush, DeadlineNear, controllerVars, historyVars, TypeOK
  <2>10. CASE CloseChain
    BY <2>10 DEF CloseChain, Look, controllerVars, historyVars
  <2>11. CASE LeaveStopped
    BY <2>0, <2>11 DEF LeaveStopped, Look, controllerVars, historyVars
  <2>12. CASE SwitchForGoal
    BY <2>12 DEF SwitchForGoal, SetFinalize, historyVars
  <2>13. CASE SwitchRefused \/ GoalRefused
    <3>1. UNCHANGED <<starved, shortGoal>> /\ (served => served')
      BY <2>13 DEF SwitchRefused, GoalRefused, NotSent
    <3>2. ~moveOpen'
      <4>1. CASE client = "stroke"
        BY <2>0, <2>13, <4>1 DEF SwitchRefused, GoalRefused, NotSent, StopsController
      <4>2. CASE client = "batch"
        BY <2>0, <2>13, <4>2 DEF SwitchRefused, GoalRefused, NotSent, StopsController
      <4> QED
        BY <4>1, <4>2 DEF TypeOK, Client
    <3> QED
      BY <3>1, <3>2
  <2>14. CASE GoalAccepted
    <3>1. /\ moveOpen' = ~finalizeParam /\ opened' /\ UNCHANGED <<starved, served>>
          /\ at' = IF last THEN "drain" ELSE "look"
          /\ slack' = slack + Len(pending)
          /\ shortGoal' = (shortGoal \/ (~last /\ Len(pending) <= PlanTicks))
      BY <2>14 DEF GoalAccepted
    <3>2. last => finalizeParam \/ served
      BY <2>14 DEF GoalAccepted, SeamInv, Caches, FinalizeOf
    <3>3. slack \in Nat /\ Len(pending) \in Nat /\ last \in BOOLEAN /\ finalizeParam \in BOOLEAN
      BY DEF TypeOK
    <3>4. ASSUME moveOpen', ~shortGoal', ~served'
          PROVE  at' = "look" /\ slack' > PlanTicks
      <4>1. ~last
        BY <3>1, <3>2, <3>4
      <4>2. Len(pending) > PlanTicks
        BY <1>0, <3>1, <3>3, <3>4, <4>1
      <4> QED
        BY <1>0, <3>1, <3>3, <4>1, <4>2
    <3> QED
      BY <3>1, <3>4
  <2>15. CASE Drained
    BY <2>0, <2>15 DEF Drained, controllerVars, historyVars
  <2>16. CASE RestoreFinalize
    BY <2>0, <2>16 DEF RestoreFinalize, SetFinalize, historyVars
  <2>17. CASE Tick
    <3>1. /\ UNCHANGED <<shortGoal, served, opened, pending>>
          /\ at' = IF at = "poll" THEN "look" ELSE at
          /\ planned' = IF at = "plan" THEN planned + 1 ELSE planned
          /\ slack' = IF slack > 0 THEN slack - 1 ELSE 0
          /\ Waiting /\ Execute
      BY <2>17 DEF Tick
    <3>2. slack \in Nat /\ planned \in 0 .. PlanTicks
      BY DEF TypeOK
    <3>3. moveOpen' => moveOpen
      BY <3>1 DEF Execute
    <3>4. ASSUME ~shortGoal, ~served, motion # <<>>, Head(motion).left <= 1, Len(motion) = 1,
                 moveOpen
          PROVE  FALSE
      <4>1. slack <= 1
        BY <2>0, <3>4, SlackIsMotion
      <4>2. at = "plan" \/ at = "pace"
        BY <1>0, <3>1, <3>2, <3>4, <4>1 DEF Waiting
      <4>3. CASE at = "plan"
        BY <1>0, <3>1, <3>2, <3>4, <4>1, <4>3 DEF Waiting
      <4>4. CASE at = "pace"
        BY <1>0, <3>1, <3>4, <4>4 DEF Waiting, RoomInPipeline
      <4> QED
        BY <4>2, <4>3, <4>4
    <3>5. starved' => starved \/ shortGoal \/ served
      BY <3>1, <3>4 DEF Execute
    <3>6. ASSUME moveOpen', ~shortGoal, ~served
          PROVE  Fed'
      BY <1>0, <3>1, <3>2, <3>3, <3>6 DEF Waiting
    <3> QED
      BY <3>1, <3>5, <3>6
  <2>18. CASE UNCHANGED chainVars
    BY <2>18 DEF chainVars, threadVars, controllerVars, historyVars
  <2> QED
    BY <2>1, <2>2, <2>3, <2>4, <2>5, <2>6, <2>7, <2>8, <2>9, <2>10, <2>11, <2>12, <2>13, <2>14,
       <2>15, <2>16, <2>17, <2>18 DEF Next, Operator, Start, ChainStep
<1>3. FeedInv => StarvesOnlyBehindShortGoal
  BY DEF FeedInv
<1> QED
  BY TypesHold, ChainsClose, SeamsKept, <1>0, <1>1, <1>2, <1>3, PTL DEF Spec

-------------------------------------------------------------------------------
(* The path.                                                               *)

Joined(s) == \A i \in 1 .. Len(s) - 1 : Contiguous(s[i], s[i + 1])

\* A path that goes on where another ends.
LEMMA JoinedPaths ==
    ASSUME NEW s \in Seq(Waypoint), s # <<>>, NEW t \in Seq(Waypoint)
    PROVE  /\ s \o t \in Seq(Waypoint) /\ s \o t # <<>>
           /\ Joined(s \o t) <=>
                  Joined(s) /\ Joined(t) /\ (t # <<>> => Contiguous(s[Len(s)], t[1]))
           /\ t = <<>> => (s \o t)[Len(s \o t)] = s[Len(s)]
           /\ t # <<>> => (s \o t)[Len(s \o t)] = t[Len(t)]
<1> DEFINE m == Len(s)
<1> DEFINE n == Len(t)
<1>1. m \in Nat \ {0} /\ n \in Nat /\ (t # <<>> => n > 0) /\ (t = <<>> => n = 0)
  BY EmptySeq
<1> DEFINE u == s \o t
<1>2. /\ u \in Seq(Waypoint) /\ Len(u) = m + n
      /\ \A i \in 1 .. m : u[i] = s[i]
      /\ \A i \in 1 .. n : u[m + i] = t[i]
  <2>1. u \in Seq(Waypoint) /\ Len(u) = m + n
    BY ConcatProperties
  <2>2. \A i \in 1 .. m + n : u[i] = IF i <= m THEN s[i] ELSE t[i - m]
    BY ConcatProperties
  <2>3. \A i \in 1 .. m : u[i] = s[i]
    BY <1>1, <2>2
  <2>4. ASSUME NEW i \in 1 .. n
        PROVE  u[m + i] = t[i]
    <3>1. m + i \in 1 .. m + n /\ ~(m + i <= m) /\ m + i - m = i
      BY <1>1
    <3> QED
      BY <2>2, <3>1
  <2> QED
    BY <2>1, <2>3, <2>4
<1> HIDE DEF u, m, n
<1>3. u # <<>> /\ (Joined(u) <=> \A i \in 1 .. m + n - 1 : Contiguous(u[i], u[i + 1]))
  BY <1>1, <1>2, EmptySeq DEF Joined
<1>4. ASSUME Joined(u)
      PROVE  Joined(s) /\ Joined(t) /\ (t # <<>> => Contiguous(s[m], t[1]))
  <2>1. ASSUME NEW i \in 1 .. m - 1
        PROVE  Contiguous(s[i], s[i + 1])
    <3>1. i \in 1 .. m + n - 1 /\ i \in 1 .. m /\ i + 1 \in 1 .. m
      BY <1>1
    <3> QED
      BY <1>2, <1>3, <1>4, <3>1
  <2>2. ASSUME NEW i \in 1 .. n - 1
        PROVE  Contiguous(t[i], t[i + 1])
    <3>1. m + i \in 1 .. m + n - 1 /\ i \in 1 .. n /\ i + 1 \in 1 .. n /\ m + i + 1 = m + (i + 1)
      BY <1>1
    <3>2. Contiguous(u[m + i], u[m + i + 1])
      BY <1>3, <1>4, <3>1
    <3> QED
      BY <1>2, <3>1, <3>2
  <2>3. ASSUME t # <<>>
        PROVE  Contiguous(s[m], t[1])
    <3>1. m \in 1 .. m + n - 1 /\ m \in 1 .. m /\ 1 \in 1 .. n
      BY <1>1, <2>3
    <3> QED
      BY <1>2, <1>3, <1>4, <3>1
  <2> QED
    BY <2>1, <2>2, <2>3 DEF Joined, m, n
<1>5. ASSUME Joined(s), Joined(t), t # <<>> => Contiguous(s[m], t[1])
      PROVE  Joined(u)
  <2>1. ASSUME NEW i \in 1 .. m + n - 1
        PROVE  Contiguous(u[i], u[i + 1])
    <3>1. CASE i < m
      <4>1. i \in 1 .. m - 1 /\ i \in 1 .. m /\ i + 1 \in 1 .. m
        BY <1>1, <3>1
      <4>2. Contiguous(s[i], s[i + 1])
        BY <1>5, <4>1 DEF Joined, m
      <4> QED
        BY <1>2, <4>1, <4>2
    <3>2. CASE i = m
      <4>1. m \in 1 .. m /\ 1 \in 1 .. n /\ t # <<>>
        BY <1>1, <3>2
      <4>2. u[m] = s[m] /\ u[m + 1] = t[1]
        BY <1>2, <4>1
      <4> QED
        BY <1>5, <3>2, <4>1, <4>2
    <3>3. CASE i > m
      <4>1. PICK j \in 1 .. n - 1 : i = m + j
        <5>1. i - m \in 1 .. n - 1 /\ i = m + (i - m)
          BY <1>1, <3>3
        <5> QED
          BY <5>1
      <4>2. Contiguous(t[j], t[j + 1])
        BY <1>5 DEF Joined, n
      <4>3. j \in 1 .. n /\ j + 1 \in 1 .. n /\ i + 1 = m + (j + 1)
        BY <1>1, <4>1
      <4> QED
        BY <1>2, <4>1, <4>2, <4>3
    <3> QED
      BY <1>1, <3>1, <3>2, <3>3
  <2> QED
    BY <1>3, <2>1
<1>6. (t = <<>> => u[m + n] = s[m]) /\ (t # <<>> => u[m + n] = t[n])
  <2>1. t = <<>> => m + n = m /\ m \in 1 .. m
    BY <1>1
  <2>2. t # <<>> => n \in 1 .. n
    BY <1>1
  <2> QED
    BY <1>2, <2>1, <2>2
<1> QED
  BY <1>2, <1>3, <1>4, <1>5, <1>6 DEF u, m, n

\* The path so far, and where an open stroke goes on.
Traced(path) ==
    /\ Joined(path)
    /\ strokeOpen => path[Len(path)].place = appended

\* What a thread has left of the polyline on its way, and when it has nothing.
Following ==
    windowLost \/
        /\ Traced(Path)
        /\ stopFlag => points = <<>> /\ ~strokeOpen
        /\ at \in {"idle", "look", "poll"} => window = <<>> /\ ~last
        /\ at = "idle" => pending = <<>>
        /\ at = "plan" => ~last
        /\ at \in {"switch", "pace"} /\ last => window = <<>>
        /\ at = "drain" /\ ~stopFlag => pending = <<>> /\ window = <<>>
\* Over strokes and executions, chain ends, stops, dropped samples and failed
\* chains, the arm is never sent with the pen down along anything but the
\* polyline that was drawn, while no planned window was lost (begin_stroke,
\* add_point, end_stroke, take_window, _run_chain).
THEOREM PenFollows == Spec => []PenFollowsPolyline
<1>1. Init => Following
  <2> SUFFICES ASSUME Init PROVE Following
    OBVIOUS
  <2>1. Path = <<reached>>
    BY DEF Init, IntakeInit, EmptyGoal, Path
  <2>2. Traced(Path)
    BY <2>1 DEF Traced, Joined, Init, IntakeInit
  <2> QED
    BY <2>2 DEF Following, Init, IntakeInit, EmptyGoal
<1>2. TypeOK /\ Stages /\ Following /\ [Next]_chainVars => Following'
  <2> SUFFICES ASSUME TypeOK, Stages, Following, [Next]_chainVars PROVE Following'
    OBVIOUS
  <2>0. CASE windowLost'
    BY <2>0 DEF Following
  <2>1. CASE UNCHANGED chainVars
    BY <2>1 DEF chainVars, intakeVars, operatorVars, threadVars, historyVars, Following, Traced,
           Path
  <2>2. ASSUME Next, ~windowLost'
        PROVE  Following'
    <3>0. ~windowLost /\ ~PlanFails
      <4>1. ~PlanFails
        BY <2>2 DEF PlanFails
      <4>2. CASE Operator \/ Start
        <5>1. windowLost' = windowLost
          BY <4>2 DEF Operator, Start, PenDown, PenUp, Stop, Reset, KeepsChain, StartStrokeChain,
                 StartBatchChain, historyVars
        <5> QED
          BY <2>2, <4>1, <5>1
      <4>3. CASE \/ Planned \/ FindSuccessor \/ WaitForPoints \/ CloseChain \/ LeaveStopped
                \/ Drained \/ Tick
        BY <2>2, <4>1, <4>3 DEF Planned, FindSuccessor, WaitForPoints, CloseChain, LeaveStopped, Look,
               Drained, Tick, historyVars
      <4>4. CASE SwitchForGoal \/ SwitchRefused \/ GoalRefused \/ GoalAccepted \/ RestoreFinalize
        <5>1. windowLost' = windowLost
          BY <4>4 DEF SwitchForGoal, SwitchRefused, GoalRefused, GoalAccepted, RestoreFinalize,
                 SetFinalize, NotSent, historyVars
        <5> QED
          BY <2>2, <4>1, <5>1
      <4> QED
        BY <2>2, <4>1, <4>2, <4>3, <4>4 DEF Next, ChainStep
    <3>1. /\ Traced(Path)
          /\ stopFlag => points = <<>> /\ ~strokeOpen
          /\ at \in {"idle", "look", "poll"} => window = <<>> /\ ~last
          /\ at = "idle" => pending = <<>>
          /\ at = "plan" => ~last
          /\ at \in {"switch", "pace"} /\ last => window = <<>>
          /\ at = "drain" /\ ~stopFlag => pending = <<>> /\ window = <<>>
      BY <3>0 DEF Following
    <3> DEFINE sent == <<reached>> \o pending
    <3> DEFINE planning == sent \o window
    <3>2. /\ <<reached>> \in Seq(Waypoint) /\ <<reached>> # <<>>
          /\ pending \in Seq(Waypoint) /\ window \in Seq(Waypoint) /\ points \in Seq(Waypoint)
          /\ appended \in Nat
      BY DEF TypeOK, IntakeTypeOK
    <3>3. sent \in Seq(Waypoint) /\ sent # <<>>
      BY <3>2, JoinedPaths
    <3> HIDE DEF sent
    <3>4. planning \in Seq(Waypoint) /\ planning # <<>>
      BY <3>2, <3>3, JoinedPaths
    <3> HIDE DEF planning
    <3>5. /\ Path = planning \o points /\ Path \in Seq(Waypoint) /\ Path # <<>>
          /\ Joined(planning)
      <4>1. Path = planning \o points
        BY DEF Path, planning, sent
      <4>2. Joined(planning \o points)
        BY <3>1, <4>1 DEF Traced
      <4> QED
        BY <3>2, <3>4, <4>1, <4>2, JoinedPaths
    \* Nothing is left but where the arm was sent.
    <3>6. ASSUME UNCHANGED reached, pending' = <<>>, window' = <<>>, points' = <<>>, ~strokeOpen'
          PROVE  Traced(Path)'
      <4>1. Path' = <<reached>>
        BY <3>2, <3>6, ConcatEmptySeq DEF Path
      <4> QED
        BY <3>6, <4>1 DEF Traced, Joined
    \* The intake grows behind the path.
    <3>7. ASSUME NEW downs \in Seq(BOOLEAN), downs # <<>>, AppendPoints(downs),
                 downs[1] => strokeOpen, UNCHANGED <<reached, pending, window>>
          PROVE  Traced(Path)'
      <4> DEFINE more == [i \in 1 .. Len(downs) |-> [place |-> appended + i, down |-> downs[i]]]
      <4>1. Len(downs) \in Nat \ {0}
        BY <3>7, EmptySeq
      <4>2. /\ more \in Seq(Waypoint) /\ Len(more) = Len(downs)
            /\ \A i \in 1 .. Len(downs) : more[i].place = appended + i /\ more[i].down = downs[i]
        <5>1. \A i \in 1 .. Len(downs) : [place |-> appended + i, down |-> downs[i]] \in Waypoint
          BY <3>2, <3>7 DEF Waypoint
        <5> QED
          BY <4>1, <5>1
      <4>3. points' = points \o more /\ appended' = appended + Len(downs)
        BY <3>7 DEF AppendPoints
      <4> HIDE DEF more
      <4>4. more # <<>> /\ Joined(more)
        <5>1. more # <<>>
          BY <4>1, <4>2, EmptySeq
        <5>2. ASSUME NEW i \in 1 .. Len(more) - 1
              PROVE  Contiguous(more[i], more[i + 1])
          <6>1. i \in 1 .. Len(downs) /\ i + 1 \in 1 .. Len(downs)
            BY <4>1, <4>2
          <6>2. more[i].place = appended + i /\ more[i + 1].place = appended + (i + 1)
            BY <4>2, <6>1
          <6> QED
            BY <3>2, <6>1, <6>2 DEF Contiguous
        <5> QED
          BY <5>1, <5>2 DEF Joined
      <4>5. Path' = Path \o more
        <5>1. Path' = planning \o (points \o more)
          BY <3>7, <4>3 DEF Path, planning, sent
        <5>2. (planning \o points) \o more = planning \o (points \o more)
          <6>1. planning \in Seq(Waypoint) /\ points \in Seq(Waypoint) /\ more \in Seq(Waypoint)
            BY <3>2, <3>4, <4>2
          <6> QED
            BY <6>1, ConcatAssociative
        <5> QED
          BY <3>5, <5>1, <5>2
      <4>6. Contiguous(Path[Len(Path)], more[1])
        <5>1. 1 \in 1 .. Len(downs)
          BY <4>1
        <5>2. more[1].place = appended + 1 /\ more[1].down = downs[1]
          BY <4>2, <5>1
        <5> QED
          BY <3>1, <3>7, <5>2 DEF Traced, Contiguous
      <4>7. Joined(Path')
        BY <3>1, <3>5, <4>2, <4>4, <4>5, <4>6, JoinedPaths DEF Traced
      <4>8. Path'[Len(Path')].place = appended'
        <5>1. Path'[Len(Path')] = more[Len(more)]
          BY <3>5, <4>2, <4>4, <4>5, JoinedPaths
        <5>2. Len(downs) \in 1 .. Len(downs)
          BY <4>1
        <5> QED
          BY <4>2, <4>3, <5>1, <5>2
      <4> QED
        BY <4>7, <4>8 DEF Traced
    \* What is cut off the intake goes on the path where it was.
    <3>8. ASSUME NEW flush \in BOOLEAN, window = <<>>, window' = CutWindow(flush),
                 TakeWindow(flush), UNCHANGED <<reached, pending>>
          PROVE  Traced(Path)'
      <4>1. Len(points) \in Nat /\ WindowLength(flush) \in 0 .. Len(points)
        BY <3>2, IntakeAssumption DEF WindowLength
      <4>2. SubSeq(points, 1, WindowLength(flush))
              \o SubSeq(points, WindowLength(flush) + 1, Len(points)) = points
        <5>1. /\ 1 \in 1 .. Len(points) + 1 /\ Len(points) \in WindowLength(flush) .. Len(points)
              /\ WindowLength(flush) \in 1 - 1 .. Len(points)
          BY <4>1
        <5> QED
          BY <3>2, <5>1, ConcatAdjacentSubSeq, SubSeqFull
      <4>3. window' \o points' = points /\ UNCHANGED <<appended, strokeOpen>>
        BY <3>8, <4>2 DEF CutWindow, TakeWindow
      <4>4. window' \in Seq(Waypoint) /\ points' \in Seq(Waypoint)
        BY <3>8, Windows DEF TypeOK, IntakeTypeOK
      <4>5. Path' = (sent \o window') \o points'
        BY <3>8 DEF Path, sent
      <4>6. Path' = sent \o points
        <5>1. sent \in Seq(Waypoint)
          BY <3>3
        <5>2. (sent \o window') \o points' = sent \o (window' \o points')
          BY <4>4, <5>1, ConcatAssociative
        <5> QED
          BY <4>3, <4>5, <5>2
      <4>7. planning = sent
        BY <3>3, <3>8, ConcatEmptySeq DEF planning
      <4>8. Path' = Path
        BY <3>5, <4>6, <4>7
      <4> QED
        BY <3>1, <4>3, <4>8 DEF Traced
    <3>9. CASE PenDown \/ PenUp
      <4>1. /\ ~stopFlag /\ ~stopFlag'
            /\ UNCHANGED <<at, last, window, pending, reached>>
        BY <3>9 DEF PenDown, PenUp, StrokeRoute, KeepsChain, threadVars, historyVars
      <4>2. /\ <<FALSE, TRUE>> \in Seq(BOOLEAN) /\ <<FALSE, TRUE>> # <<>> /\ ~<<FALSE, TRUE>>[1]
            /\ <<TRUE>> \in Seq(BOOLEAN) /\ <<TRUE>> # <<>>
            /\ <<FALSE>> \in Seq(BOOLEAN) /\ <<FALSE>> # <<>> /\ ~<<FALSE>>[1]
        OBVIOUS
      <4>3. Traced(Path)'
        <5>1. CASE BeginStroke
          BY <3>7, <4>1, <4>2, <5>1 DEF BeginStroke
        <5>2. CASE AddPoint
          <6>1. CASE AppendPoints(<<TRUE>>)
            BY <3>7, <4>1, <4>2, <5>2, <6>1 DEF AddPoint
          <6>2. CASE UNCHANGED <<points, appended>>
            BY <3>1, <4>1, <5>2, <6>2 DEF AddPoint, Traced, Path
          <6> QED
            BY <5>2, <6>1, <6>2 DEF AddPoint
        <5>3. CASE EndStroke
          <6>1. CASE AppendPoints(<<FALSE>>)
            BY <3>7, <4>1, <4>2, <6>1
          <6>2. CASE UNCHANGED <<points, appended>>
            BY <3>1, <4>1, <5>3, <6>2 DEF EndStroke, Traced, Path
          <6> QED
            BY <5>3, <6>1, <6>2 DEF EndStroke
        <5> QED
          BY <3>9, <5>1, <5>2, <5>3 DEF PenDown, PenUp
      <4> QED
        BY <3>1, <4>1, <4>3 DEF Following
    <3>10. CASE Stop
      <4>1. UNCHANGED <<at, last, window, pending, reached>>
        BY <3>10 DEF Stop, threadVars, historyVars
      <4>2. CASE client = "stroke"
        <5>1. points' = <<>> /\ ~strokeOpen' /\ stopFlag'
          BY <3>10, <4>2 DEF Stop, ClearIntake
        <5>2. Path' = planning
          <6>1. Path' = planning \o <<>>
            BY <4>1, <5>1 DEF Path, planning, sent
          <6> QED
            BY <3>4, <6>1, ConcatEmptySeq
        <5>3. Traced(Path)'
          BY <3>5, <5>1, <5>2 DEF Traced
        <5> QED
          BY <3>1, <4>1, <5>1, <5>3 DEF Following
      <4>3. CASE client # "stroke"
        <5>1. UNCHANGED <<stopFlag, points, appended, strokeOpen>>
          BY <3>10, <4>3 DEF Stop, intakeVars
        <5> QED
          BY <3>1, <4>1, <5>1 DEF Following, Traced, Path
      <4> QED
        BY <4>2, <4>3
    <3>11. CASE Reset
      BY <3>1, <3>11 DEF Reset, intakeVars, threadVars, Following, Traced, Path
    <3>12. CASE StartStrokeChain
      <4>1. /\ at = "idle" /\ at' = "plan" /\ window' = CutWindow(TRUE) /\ TakeWindow(TRUE)
            /\ UNCHANGED <<reached, pending, last, stopFlag>> /\ ~stopFlag
        BY <3>12 DEF StartStrokeChain, StrokeRoute, OpenChain, operatorVars
      <4>2. Traced(Path)'
        BY <3>1, <3>8, <4>1
      <4> QED
        BY <3>1, <4>1, <4>2 DEF Following
    <3>13. CASE StartBatchChain
      <4>1. /\ at = "idle" /\ at' = "plan" /\ appended < MaxPoints /\ ~strokeOpen /\ ~stopFlag
            /\ UNCHANGED <<reached, pending, last, stopFlag, strokeOpen>>
        BY <3>13 DEF StartBatchChain, OpenChain
      <4>2. PICK length \in 1 .. MaxPoints - appended :
              LET drawing == [i \in 1 .. length |-> [place |-> appended + i, down |-> i > 1]]
                  first == IF length < GoalPoints THEN length ELSE GoalPoints IN
              /\ window' = SubSeq(drawing, 1, first)
              /\ points' = SubSeq(drawing, first + 1, length)
        BY <3>13 DEF StartBatchChain
      <4> DEFINE drawing == [i \in 1 .. length |-> [place |-> appended + i, down |-> i > 1]]
      <4> DEFINE first == IF length < GoalPoints THEN length ELSE GoalPoints
      <4>3. length \in Nat \ {0} /\ first \in 1 .. length
        BY <3>2, <4>1, IntakeAssumption
      <4>4. /\ drawing \in Seq(Waypoint) /\ Len(drawing) = length
            /\ \A i \in 1 .. length :
                  drawing[i].place = appended + i
            /\ ~drawing[1].down
        <5>1. \A i \in 1 .. length : [place |-> appended + i, down |-> i > 1] \in Waypoint
          BY <3>2, <4>3 DEF Waypoint
        <5>2. drawing \in Seq(Waypoint) /\ Len(drawing) = length
          BY <4>3, <5>1
        <5>3. \A i \in 1 .. length : drawing[i].place = appended + i
          OBVIOUS
        <5>4. 1 \in 1 .. length
          BY <4>3
        <5>5. drawing[1] = [place |-> appended + 1, down |-> 1 > 1]
          BY <5>4
        <5>6. ~drawing[1].down
          <6>1. (1 > 1) = FALSE
            OBVIOUS
          <6>2. drawing[1] = [place |-> appended + 1, down |-> FALSE]
            BY <5>5, <6>1, Zenon
          <6> QED
            BY <6>2
        <5> QED
          BY <5>2, <5>3, <5>6
      <4>5. window' = SubSeq(drawing, 1, first) /\ points' = SubSeq(drawing, first + 1, length)
        BY <4>2
      <4> HIDE DEF drawing, first
      <4>6. window' \o points' = drawing
        <5>1. 1 \in 1 .. length + 1 /\ first \in 1 - 1 .. length /\ length \in first .. length
          BY <4>3
        <5> QED
          BY <4>4, <4>5, <5>1, ConcatAdjacentSubSeq, SubSeqFull
      <4>7. window' \in Seq(Waypoint) /\ points' \in Seq(Waypoint)
        BY <3>13, StartTypes DEF IntakeTypeOK
      <4>8. Path' = <<reached>> \o drawing
        <5>1. <<reached>> \o <<>> = <<reached>>
          BY <3>2, ConcatEmptySeq
        <5>2. Path' = (<<reached>> \o window') \o points'
          BY <3>1, <4>1, <5>1 DEF Path
        <5>3. (<<reached>> \o window') \o points' = <<reached>> \o (window' \o points')
          <6>1. <<reached>> \in Seq(Waypoint)
            BY <3>2
          <6> QED
            BY <4>7, <6>1, ConcatAssociative
        <5> QED
          BY <4>6, <5>2, <5>3
      <4>9. Joined(drawing) /\ Contiguous(reached, drawing[1])
        <5>1. ASSUME NEW i \in 1 .. length - 1
              PROVE  Contiguous(drawing[i], drawing[i + 1])
          <6>1. i \in 1 .. length /\ i + 1 \in 1 .. length
            BY <4>3
          <6>2. drawing[i].place = appended + i /\ drawing[i + 1].place = appended + (i + 1)
            BY <4>4, <6>1
          <6> QED
            BY <3>2, <6>1, <6>2 DEF Contiguous
        <5> QED
          BY <4>4, <5>1 DEF Contiguous, Joined
      <4>10. Traced(Path)'
        <5>1. Joined(<<reached>>) /\ <<reached>>[Len(<<reached>>)] = reached
          BY DEF Joined
        <5>2. Joined(<<reached>> \o drawing)
          BY <3>2, <4>4, <4>9, <5>1, JoinedPaths
        <5> QED
          BY <4>1, <4>8, <5>2 DEF Traced
      <4> QED
        BY <3>1, <4>1, <4>10 DEF Following
    <3>14. CASE Planned
      <4>1. /\ at = "plan" /\ UNCHANGED <<reached, points, appended, strokeOpen, last, stopFlag>>
        BY <3>14 DEF Planned, intakeVars, operatorVars, historyVars
      <4>2. CASE pending = <<>>
        <5>1. pending' = window /\ window' = <<>> /\ at' = "look"
          BY <3>14, <4>2 DEF Planned, EmptyGoal
        <5>2. sent = <<reached>>
          BY <3>2, <4>2, ConcatEmptySeq DEF sent
        <5>3. Path' = ((<<reached>> \o window) \o <<>>) \o points
          BY <4>1, <5>1 DEF Path
        <5>4. Path' = planning \o points
          <6>1. planning = <<reached>> \o window
            BY <5>2 DEF planning
          <6> QED
            BY <3>4, <5>3, <6>1, ConcatEmptySeq
        <5> QED
          BY <3>1, <3>5, <4>1, <5>1, <5>4 DEF Following, Traced
      <4>3. CASE pending # <<>>
        <5>1. UNCHANGED <<pending, window>> /\ at' = "switch"
          BY <3>14, <4>3 DEF Planned, EmptyGoal
        <5> QED
          BY <3>1, <4>1, <5>1 DEF Following, Traced, Path
      <4> QED
        BY <4>2, <4>3
    <3>15. CASE FindSuccessor
      <4>1. Flush \in BOOLEAN
        BY DEF Flush, DeadlineNear, Draining, TypeOK, IntakeTypeOK
      <4>2. /\ at = "look" /\ at' = "plan" /\ window' = CutWindow(Flush) /\ TakeWindow(Flush)
            /\ UNCHANGED <<reached, pending, last, stopFlag>> /\ ~stopFlag
        BY <3>15 DEF FindSuccessor, Look, operatorVars, historyVars
      <4>3. Traced(Path)'
        BY <3>1, <3>8, <4>1, <4>2
      <4> QED
        BY <3>1, <4>2, <4>3 DEF Following
    <3>16. CASE WaitForPoints \/ CloseChain \/ LeaveStopped
      <4>1. /\ UNCHANGED <<points, appended, strokeOpen, stopFlag, pending, window, reached>>
            /\ at = "look" /\ at' \in {"poll", "switch", "drain"}
            /\ at' # "switch" => UNCHANGED last
            /\ at' = "drain" => stopFlag
        BY <3>16 DEF WaitForPoints, CloseChain, LeaveStopped, Look, intakeVars, operatorVars,
               historyVars
      <4> QED
        BY <3>1, <4>1 DEF Following, Traced, Path
    <3>17. CASE SwitchForGoal
      <4>1. /\ UNCHANGED <<points, appended, strokeOpen, stopFlag, pending, window, reached, last>>
            /\ at = "switch" /\ at' = "pace"
        BY <3>17 DEF SwitchForGoal, SetFinalize, intakeVars, operatorVars, historyVars
      <4> QED
        BY <3>1, <4>1 DEF Following, Traced, Path
    <3>18. CASE SwitchRefused \/ GoalRefused
      <4>1. CASE client = "stroke"
        <5>1. /\ pending' = <<>> /\ window' = <<>> /\ points' = <<>> /\ ~strokeOpen'
              /\ ~last' /\ at' = "idle" /\ UNCHANGED reached
          BY <3>18, <4>1 DEF SwitchRefused, GoalRefused, NotSent, ChainOver, ClearIntake, EmptyGoal
        <5> QED
          BY <3>6, <5>1 DEF Following
      <4>2. CASE client # "stroke"
        <5>1. /\ UNCHANGED <<points, appended, strokeOpen, stopFlag, pending, window, reached, last>>
              /\ at' = "restore"
          BY <3>18, <4>2 DEF SwitchRefused, GoalRefused, NotSent, GiveUp, intakeVars
        <5> QED
          BY <3>1, <5>1 DEF Following, Traced, Path
      <4> QED
        BY <4>1, <4>2
    <3>19. CASE GoalAccepted
      <4>1. /\ at = "pace" /\ pending # <<>> /\ reached' = pending[Len(pending)]
            /\ pending' = window /\ window' = <<>>
            /\ at' = IF last THEN "drain" ELSE "look"
            /\ UNCHANGED <<points, appended, strokeOpen, stopFlag, last>>
        BY <3>19 DEF GoalAccepted, EmptyGoal, Stages, intakeVars, operatorVars
      <4> DEFINE rest == window \o points
      <4>2. rest \in Seq(Waypoint)
        BY <3>2, ConcatProperties
      <4>3. <<reached'>> \in Seq(Waypoint) /\ <<reached'>> # <<>>
        <5>1. Len(pending) \in 1 .. Len(pending)
          BY <3>2, <4>1, EmptySeq
        <5>2. pending[Len(pending)] \in Waypoint
          BY <3>2, <5>1, ElementOfSeq
        <5> QED
          BY <4>1, <5>2
      <4>4. Path = sent \o rest /\ Path' = <<reached'>> \o rest
        <5>1. Path = (sent \o window) \o points
          BY <3>5 DEF planning
        <5>2. Path' = ((<<reached'>> \o window) \o <<>>) \o points
          BY <4>1 DEF Path
        <5>3. (<<reached'>> \o window) \in Seq(Waypoint)
          BY <3>2, <4>3, ConcatProperties
        <5>4. Path' = (<<reached'>> \o window) \o points
          BY <5>2, <5>3, ConcatEmptySeq
        <5>5. <<reached'>> \in Seq(Waypoint) /\ sent \in Seq(Waypoint)
          BY <3>3, <4>3
        <5>6. /\ (sent \o window) \o points = sent \o (window \o points)
              /\ (<<reached'>> \o window) \o points = <<reached'>> \o (window \o points)
          <6>1. window \in Seq(Waypoint) /\ points \in Seq(Waypoint)
            BY <3>2
          <6> QED
            BY <5>5, <6>1, ConcatAssociative
        <5> QED
          BY <5>1, <5>4, <5>6
      <4> HIDE DEF rest
      <4>5. sent[Len(sent)] = reached'
        BY <3>2, <4>1, JoinedPaths DEF sent
      <4>6. Joined(sent \o rest)
        BY <3>1, <4>4 DEF Traced
      <4>7. Joined(rest) /\ (rest # <<>> => Contiguous(reached', rest[1]))
        BY <3>3, <4>2, <4>5, <4>6, JoinedPaths
      <4>8. Joined(<<reached'>>) /\ <<reached'>>[Len(<<reached'>>)] = reached'
        BY DEF Joined
      <4>9. Joined(Path')
        BY <4>2, <4>3, <4>4, <4>7, <4>8, JoinedPaths
      <4>10. Path'[Len(Path')] = Path[Len(Path)]
        <5>1. CASE rest = <<>>
          BY <3>3, <4>2, <4>3, <4>4, <4>5, <4>8, <5>1, JoinedPaths
        <5>2. CASE rest # <<>>
          BY <3>3, <4>2, <4>3, <4>4, <5>2, JoinedPaths
        <5> QED
          BY <5>1, <5>2
      <4>11. Traced(Path)'
        BY <3>1, <4>1, <4>9, <4>10 DEF Traced
      <4> QED
        BY <3>1, <4>1, <4>11 DEF Following
    <3>20. CASE Drained
      <4>1. at = "drain" /\ UNCHANGED <<reached, stopFlag>>
        BY <3>20 DEF Drained, operatorVars, historyVars
      <4>2. CASE client = "stroke"
        <5>1. /\ pending' = <<>> /\ window' = <<>> /\ ~last' /\ at' = "idle"
              /\ UNCHANGED <<points, appended, strokeOpen>>
          BY <3>20, <4>2 DEF Drained, ChainOver, EmptyGoal, intakeVars
        <5>2. CASE stopFlag
          BY <3>1, <3>6, <4>1, <5>1, <5>2 DEF Following
        <5>3. CASE ~stopFlag
          BY <3>1, <4>1, <5>1, <5>3 DEF Following, Traced, Path
        <5> QED
          BY <5>2, <5>3
      <4>3. CASE client # "stroke"
        <5>1. /\ UNCHANGED <<points, appended, strokeOpen, pending, window, last>>
              /\ at' = "restore"
          BY <3>20, <4>3 DEF Drained, GiveUp, intakeVars
        <5> QED
          BY <3>1, <4>1, <5>1 DEF Following, Traced, Path
      <4> QED
        BY <4>2, <4>3
    <3>21. CASE RestoreFinalize
      <4>1. /\ pending' = <<>> /\ window' = <<>> /\ points' = <<>> /\ ~strokeOpen'
            /\ ~last' /\ at' = "idle" /\ UNCHANGED reached
        BY <3>21 DEF RestoreFinalize, SetFinalize, ChainOver, ClearIntake, EmptyGoal, historyVars
      <4> QED
        BY <3>6, <4>1 DEF Following
    <3>22. CASE Tick
      <4>1. /\ UNCHANGED <<points, appended, strokeOpen, stopFlag, pending, window, reached, last>>
            /\ at' = IF at = "poll" THEN "look" ELSE at
        BY <3>22 DEF Tick, intakeVars, operatorVars
      <4> QED
        BY <3>1, <4>1 DEF Following, Traced, Path
    <3> QED
      BY <2>2, <3>0, <3>9, <3>10, <3>11, <3>12, <3>13, <3>14, <3>15, <3>16, <3>17, <3>18, <3>19,
         <3>20, <3>21, <3>22 DEF Next, Operator, Start, ChainStep
  <2> QED
    BY <2>0, <2>1, <2>2
<1>3. Following => PenFollowsPolyline
  BY DEF Following, Traced, Joined, PenFollowsPolyline
<1> QED
  BY TypesHold, <1>1, <1>2, <1>3, PTL DEF Spec
===============================================================================
