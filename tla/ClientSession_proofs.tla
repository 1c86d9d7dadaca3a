------------------------- MODULE ClientSession_proofs -------------------------
(***************************************************************************)
(* What holds of the client's session for every canvas, sample bound and   *)
(* number of inputs and drops. Each property has an inductive strengthening*)
(* of its own.                                                             *)
(***************************************************************************)
EXTENDS ClientSession, FoldLemmas, SequenceTheorems, TLAPS

\* A capture that is not of the pen's present press was crossed by a mode
\* change: while the pen is down, the canvas still composes.
OpenCapture == crossed \/ capture = <<>> \/ (pen /\ Composing)

\* A captured stroke is the trail of one press of the pen, unless the display
\* changed the mode under it (_on_press, _on_release, set_tool).
THEOREM CaptureOfOnePress == Spec => []CaptureIsOnePress
<1>1. Init => OpenCapture
  BY DEF Init, ClientInit, OpenCapture
<1>2. OpenCapture /\ [Next]_vars => OpenCapture'
  <2> SUFFICES ASSUME OpenCapture, [Next]_vars PROVE OpenCapture'
    OBVIOUS
  <2> USE DEF OpenCapture, Composing
  <2>1. CASE ClientStep
    <3>1. CASE FreehandDown
      <4>1. UNCHANGED <<display, crossed>> /\ pen'
        BY <3>1 DEF FreehandDown, DismissRecipe, recipeVars
      <4>2. CASE Composing
        BY <4>1, <4>2
      <4>3. CASE ~Composing
        BY <3>1, <4>1, <4>3 DEF FreehandDown
      <4> QED
        BY <4>2, <4>3
    <3>2. CASE Drag
      BY <3>2 DEF Drag, recipeVars
    <3>3. CASE FreehandUp
      BY <3>3 DEF FreehandUp, recipeVars
    <3>4. CASE Click
      BY <3>4 DEF Click, DismissRecipe, recipeVars
    <3>5. CASE SelectTool \/ SetChain \/ Undo
      BY <3>5 DEF SelectTool, SetChain, Undo, Button, recipeVars
    <3>6. CASE Clear
      BY <3>6 DEF Clear, ClearDrawing, Button
    <3>7. CASE RequestExecute \/ RequestStop \/ RequestSetPlane \/ RequestReset
      BY <3>7 DEF RequestExecute, RequestStop, RequestSetPlane, RequestReset, drawingVars, recipeVars
    <3>8. CASE RequestMode
      BY <3>8 DEF RequestMode
    <3>9. CASE RequestLoadRecipe
      BY <3>9 DEF RequestLoadRecipe, ClearDrawing, Button
    <3>10. CASE LoadTimesOut
      BY <3>10 DEF LoadTimesOut, drawingVars
    <3> QED
      BY <2>1, <3>1, <3>2, <3>3, <3>4, <3>5, <3>6, <3>7, <3>8, <3>9, <3>10 DEF ClientStep
  <2>2. CASE ReceiveDisplay
    BY <2>2 DEF ReceiveDisplay, ApplyDisplay, drawingVars
  <2>3. CASE Snapshot \/ SendRaises
    BY <2>3 DEF Snapshot, SendRaises, drawingVars, recipeVars
  <2>4. CASE \/ Connect \/ Send \/ SendUnread \/ ClientDrops \/ ReceiveInput \/ SessionCloses
             \/ HandleControl \/ ExecutionEnds \/ Greet \/ WatchdogTick \/ UNCHANGED vars
    BY <2>4 DEF Connect, Send, SendUnread, ClientDrops, ReceiveInput, SessionCloses, HandleControl,
                ExecutionEnds, Greet, WatchdogTick, vars, clientVars, drawingVars, recipeVars
  <2> QED
    BY <2>1, <2>2, <2>3, <2>4 DEF Next
<1>3. OpenCapture => CaptureIsOnePress
  BY DEF OpenCapture, CaptureIsOnePress
<1> QED
  BY <1>1, <1>2, <1>3, PTL DEF Spec

-------------------------------------------------------------------------------
\* Once the watchdog has reported a loss it had seen all input of, nothing is
\* waiting that could start an execution, and the one it found is stopped.
SeenLoss ==
    inputWasLost /\ ~unseenInput => events = <<>> /\ (mode = "executing" => stopped)

\* Whoever closes the session and whenever the watchdog looks: an execution
\* left alone is stopped, if the report had seen what started it
\* (check_input, _on_input_lost).
THEOREM LossStopsWhatItSaw == Spec => []LossStopsExecution
<1>1. Init => SeenLoss
  BY DEF Init, SeenLoss
<1>2. SeenLoss /\ [Next]_vars => SeenLoss'
  <2> SUFFICES ASSUME SeenLoss, [Next]_vars PROVE SeenLoss'
    OBVIOUS
  <2> USE DEF SeenLoss
  <2>1. CASE \/ ClientStep /\ UNCHANGED <<linkVars, bridgeVars, historyVars>>
             \/ Connect \/ Snapshot \/ Send \/ ClientDrops \/ ReceiveDisplay \/ UNCHANGED vars
    BY <2>1 DEF Connect, Snapshot, Send, ClientDrops, ReceiveDisplay, vars, bridgeVars, historyVars
  <2>2. CASE SendUnread \/ SendRaises \/ SessionCloses
    BY <2>2 DEF SendUnread, SendRaises, SessionCloses, bridgeVars
  <2>3. CASE ReceiveInput
    BY <2>3 DEF ReceiveInput
  <2>4. CASE HandleControl
    BY <2>4 DEF HandleControl
  <2>5. CASE ExecutionEnds
    BY <2>5 DEF ExecutionEnds, historyVars
  <2>6. CASE Greet
    BY <2>6 DEF Greet, historyVars
  <2>7. CASE WatchdogTick
    <3>1. PICK isLost \in BOOLEAN :
            /\ inputWasLost' = isLost
            /\ stopped' = (stopped \/ LossStops(isLost))
            /\ unseenInput' = IF isLost THEN events # <<>> ELSE FALSE
      BY <2>7 DEF WatchdogTick
    <3>2. UNCHANGED <<events, mode>>
      BY <2>7 DEF WatchdogTick
    <3>3. ASSUME inputWasLost', ~unseenInput'
          PROVE  events = <<>> /\ (mode = "executing" => stopped')
      <4>1. isLost
        BY <3>1, <3>3
      <4>2. stopped' <=> (stopped \/ mode = "executing")
        BY <3>1, <4>1 DEF LossStops
      <4>3. events = <<>>
        BY <3>1, <3>3, <4>1
      <4> QED
        BY <4>2, <4>3
    <3> QED
      BY <3>2, <3>3
  <2> QED
    BY <2>1, <2>2, <2>3, <2>4, <2>5, <2>6, <2>7 DEF Next
<1>3. SeenLoss => LossStopsExecution
  BY DEF SeenLoss, LossStopsExecution
<1> QED
  BY <1>1, <1>2, <1>3, PTL DEF Spec

-------------------------------------------------------------------------------
\* The numbers of the controls of a message,
LEMMA IdsOfMessages ==
    ASSUME NEW S, NEW m \in Seq(S), NEW n \in Seq(S)
    PROVE  /\ Ids(<<>>) = {}
           /\ \A c \in S : Ids(Append(m, c)) = Ids(m) \cup {c.id}
           /\ Ids(m \o n) = Ids(m) \cup Ids(n)
           /\ m # <<>> => Ids(m) = {Head(m).id} \cup Ids(Tail(m))
<1>1. Ids(<<>>) = {}
  BY DEF Ids
<1>2. ASSUME NEW c \in S
      PROVE  Ids(Append(m, c)) = Ids(m) \cup {c.id}
  <2>1. /\ DOMAIN Append(m, c) = 1 .. Len(m) + 1
        /\ \A i \in 1 .. Len(m) : Append(m, c)[i] = m[i]
        /\ Append(m, c)[Len(m) + 1] = c
    BY AppendProperties
  <2> QED
    BY <2>1 DEF Ids
<1>3. Ids(m \o n) = Ids(m) \cup Ids(n)
  <2>1. ASSUME NEW id \in Ids(m) \cup Ids(n)
        PROVE  id \in Ids(m \o n)
    <3>1. CASE id \in Ids(m)
      <4>1. PICK i \in 1 .. Len(m) : id = m[i].id
        BY <3>1 DEF Ids
      <4>2. i \in DOMAIN (m \o n) /\ (m \o n)[i] = m[i]
        BY <4>1, ConcatProperties
      <4> QED
        BY <4>1, <4>2 DEF Ids
    <3>2. CASE id \in Ids(n)
      <4>1. PICK i \in 1 .. Len(n) : id = n[i].id
        BY <3>2 DEF Ids
      <4>2. Len(m) + i \in DOMAIN (m \o n) /\ (m \o n)[Len(m) + i] = n[i]
        BY <4>1, ConcatProperties
      <4> QED
        BY <4>1, <4>2 DEF Ids
    <3> QED
      BY <2>1, <3>1, <3>2
  <2>2. ASSUME NEW id \in Ids(m \o n)
        PROVE  id \in Ids(m) \cup Ids(n)
    <3>1. PICK i \in 1 .. Len(m) + Len(n) : id = (m \o n)[i].id
      BY <2>2, ConcatProperties DEF Ids
    <3>2. CASE i <= Len(m)
      BY <3>1, <3>2, ConcatProperties DEF Ids
    <3>3. CASE ~(i <= Len(m))
      <4>1. i - Len(m) \in 1 .. Len(n) /\ id = n[i - Len(m)].id
        BY <3>1, <3>3, ConcatProperties
      <4> QED
        BY <4>1 DEF Ids
    <3> QED
      BY <3>2, <3>3
  <2> QED
    BY <2>1, <2>2
<1>4. ASSUME m # <<>>
      PROVE  Ids(m) = {Head(m).id} \cup Ids(Tail(m))
  <2>1. Len(m) >= 1 /\ Head(m) = m[1]
    BY <1>4, EmptySeq
  <2>2. ASSUME NEW id \in Ids(m)
        PROVE  id \in {Head(m).id} \cup Ids(Tail(m))
    <3>1. PICK i \in 1 .. Len(m) : id = m[i].id
      BY <2>2 DEF Ids
    <3>2. CASE i # 1
      <4>1. i - 1 \in DOMAIN Tail(m) /\ Tail(m)[i - 1] = m[i]
        BY <1>4, <3>1, <3>2, HeadTailProperties
      <4> QED
        BY <3>1, <4>1 DEF Ids
    <3> QED
      BY <2>1, <3>1, <3>2
  <2>3. ASSUME NEW id \in Ids(Tail(m))
        PROVE  id \in Ids(m)
    <3>1. PICK i \in 1 .. Len(Tail(m)) : id = Tail(m)[i].id
      BY <1>4, <2>3, HeadTailProperties DEF Ids
    <3>2. i + 1 \in DOMAIN m /\ id = m[i + 1].id
      BY <1>4, <3>1, HeadTailProperties
    <3> QED
      BY <3>2 DEF Ids
  <2>4. Head(m).id \in Ids(m)
    BY <2>1 DEF Ids
  <2> QED
    BY <2>2, <2>3, <2>4
<1> QED
  BY <1>1, <1>2, <1>3, <1>4

\* and of the messages on a queue.
LEMMA IdsOfQueues ==
    ASSUME NEW M, NEW q \in Seq(M)
    PROVE  /\ IdsOf(<<>>) = {}
           /\ \A m \in M : IdsOf(Append(q, m)) = IdsOf(q) \cup Ids(m)
           /\ \A m \in M : IdsOf(<<m>> \o q) = Ids(m) \cup IdsOf(q)
           /\ q # <<>> => IdsOf(q) = Ids(Head(q)) \cup IdsOf(Tail(q))
<1>1. IdsOf(<<>>) = {}
  BY DEF IdsOf
<1>2. ASSUME NEW m \in M
      PROVE  IdsOf(Append(q, m)) = IdsOf(q) \cup Ids(m)
  <2>1. /\ DOMAIN Append(q, m) = 1 .. Len(q) + 1
        /\ \A i \in 1 .. Len(q) : Append(q, m)[i] = q[i]
        /\ Append(q, m)[Len(q) + 1] = m
    BY AppendProperties
  <2>2. ASSUME NEW id \in IdsOf(Append(q, m))
        PROVE  id \in IdsOf(q) \cup Ids(m)
    <3>1. PICK i \in 1 .. Len(q) + 1 : id \in Ids(Append(q, m)[i])
      BY <2>1, <2>2 DEF IdsOf
    <3> QED
      BY <2>1, <3>1 DEF IdsOf
  <2>3. ASSUME NEW id \in IdsOf(q) \cup Ids(m)
        PROVE  id \in IdsOf(Append(q, m))
    <3>1. CASE id \in IdsOf(q)
      <4>1. PICK i \in 1 .. Len(q) : id \in Ids(q[i])
        BY <3>1 DEF IdsOf
      <4> QED
        BY <2>1, <4>1 DEF IdsOf
    <3>2. CASE id \in Ids(m)
      <4>1. Len(q) + 1 \in DOMAIN Append(q, m) /\ id \in Ids(Append(q, m)[Len(q) + 1])
        BY <2>1, <3>2
      <4> QED
        BY <4>1 DEF IdsOf
    <3> QED
      BY <2>3, <3>1, <3>2
  <2> QED
    BY <2>2, <2>3
<1>3. ASSUME NEW m \in M
      PROVE  IdsOf(<<m>> \o q) = Ids(m) \cup IdsOf(q)
  <2> DEFINE all == <<m>> \o q
  <2>1. /\ DOMAIN all = 1 .. Len(q) + 1
        /\ all[1] = m
        /\ \A i \in 1 .. Len(q) : all[i + 1] = q[i]
    BY ConcatProperties
  <2> HIDE DEF all
  <2>2. ASSUME NEW id \in IdsOf(all)
        PROVE  id \in Ids(m) \cup IdsOf(q)
    <3>1. PICK i \in 1 .. Len(q) + 1 : id \in Ids(all[i])
      BY <2>1, <2>2 DEF IdsOf
    <3>2. CASE i # 1
      <4>1. i - 1 \in 1 .. Len(q) /\ all[i] = q[i - 1]
        BY <2>1, <3>1, <3>2
      <4> QED
        BY <3>1, <4>1 DEF IdsOf
    <3> QED
      BY <2>1, <3>1, <3>2
  <2>3. ASSUME NEW id \in Ids(m) \cup IdsOf(q)
        PROVE  id \in IdsOf(all)
    <3>1. CASE id \in IdsOf(q)
      <4>1. PICK i \in 1 .. Len(q) : id \in Ids(q[i])
        BY <3>1 DEF IdsOf
      <4>2. i + 1 \in DOMAIN all /\ id \in Ids(all[i + 1])
        BY <2>1, <4>1
      <4> QED
        BY <4>2 DEF IdsOf
    <3>2. CASE id \in Ids(m)
      <4>1. 1 \in DOMAIN all /\ id \in Ids(all[1])
        BY <2>1, <3>2
      <4> QED
        BY <4>1 DEF IdsOf
    <3> QED
      BY <2>3, <3>1, <3>2
  <2> QED
    BY <2>2, <2>3 DEF all
<1>4. ASSUME q # <<>>
      PROVE  IdsOf(q) = Ids(Head(q)) \cup IdsOf(Tail(q))
  <2>1. /\ 1 \in DOMAIN q /\ Head(q) = q[1]
        /\ DOMAIN q = 1 .. Len(q) /\ DOMAIN Tail(q) = 1 .. Len(q) - 1
        /\ \A i \in 1 .. Len(q) - 1 : Tail(q)[i] = q[i + 1]
    BY <1>4, EmptySeq, HeadTailProperties
  <2>2. ASSUME NEW id \in IdsOf(q)
        PROVE  id \in Ids(Head(q)) \cup IdsOf(Tail(q))
    <3>1. PICK i \in 1 .. Len(q) : id \in Ids(q[i])
      BY <2>1, <2>2 DEF IdsOf
    <3>2. CASE i # 1
      <4>1. i - 1 \in DOMAIN Tail(q) /\ id \in Ids(Tail(q)[i - 1])
        BY <2>1, <3>1, <3>2
      <4> QED
        BY <4>1 DEF IdsOf
    <3> QED
      BY <2>1, <3>1, <3>2
  <2>3. ASSUME NEW id \in IdsOf(Tail(q))
        PROVE  id \in IdsOf(q)
    <3>1. PICK i \in 1 .. Len(q) - 1 : id \in Ids(Tail(q)[i])
      BY <2>1, <2>3 DEF IdsOf
    <3>2. i + 1 \in DOMAIN q /\ id \in Ids(q[i + 1])
      BY <2>1, <3>1
    <3> QED
      BY <3>2 DEF IdsOf
  <2>4. Ids(Head(q)) \subseteq IdsOf(q)
    BY <2>1 DEF IdsOf
  <2> QED
    BY <2>2, <2>3, <2>4
<1> QED
  BY <1>1, <1>2, <1>3, <1>4

Messages(S) == Seq(S) \ {<<>>}

\* Controls have numbers, and no message on a queue is empty.
Queues(S) ==
    /\ controls \in Seq(S) /\ sending \in Seq(S)
    /\ upstream \in Seq(Messages(S)) /\ events \in Seq(Messages(S))
    /\ \A control \in S : control.id \in Nat

Accounted ==
    /\ NoControlForgotten
    /\ issued \in Nat /\ received \in Seq(Nat)
    /\ \E S : Queues(S)

OtherActions == {"stop", "reset", "set_plane", "mode", "execute"}

\* The operator issues one control at a time, numbered in order; only loading
\* and dismissing a recipe change what the client takes for loaded.
LEMMA OperatorIssues ==
    ASSUME ClientStep
    PROVE  /\ UNCHANGED display
           /\ lateAnswer' \/ UNCHANGED <<lateAnswer, earlyAnswer>>
           /\ \/ /\ UNCHANGED <<controls, issued>>
                 /\ lateAnswer' \/ UNCHANGED recipeVars
              \/ /\ issued' = issued + 1
                 /\ \E control :
                      /\ controls' = Append(controls, [id |-> issued + 1, does |-> control])
                      /\ \/ /\ control.action \in OtherActions
                            /\ UNCHANGED recipeVars
                         \/ /\ control.action = "execute_recipe" /\ RecipeLoaded # "none"
                            /\ control.shown = RecipeLoaded
                            /\ UNCHANGED recipeVars
                         \/ /\ control.action = "clear_recipe" /\ recipePending' = "none"
                            /\ UNCHANGED <<awaited, lateAnswer, earlyAnswer>>
                         \/ /\ control.action = "load_recipe" /\ recipePending' = control.name
                            /\ awaited' = issued'
                            /\ UNCHANGED <<lateAnswer, earlyAnswer>>
<1> USE DEF queueVars, recipeVars, Issue, OtherActions
<1>1. CASE FreehandDown \/ Click \/ Clear
  BY <1>1 DEF FreehandDown, Click, Clear, DismissRecipe
<1>2. CASE Drag \/ FreehandUp \/ SelectTool \/ SetChain \/ Undo \/ LoadTimesOut
  BY <1>2 DEF Drag, FreehandUp, SelectTool, SetChain, Undo, LoadTimesOut
<1>3. CASE RequestExecute
  BY <1>3 DEF RequestExecute
<1>4. CASE RequestMode
  <2> DEFINE control == [action |-> "mode", mode |-> IF display.mode = "live" THEN "batch" ELSE "live"]
  <2>1. /\ issued' = issued + 1 /\ controls' = Append(controls, [id |-> issued + 1, does |-> control])
        /\ UNCHANGED <<recipeVars, display>>
    BY <1>4 DEF RequestMode
  <2>2. control.action \in OtherActions
    OBVIOUS
  <2> HIDE DEF control
  <2> QED
    BY <2>1, <2>2
<1>5. CASE RequestLoadRecipe
  <2>1. PICK name \in Recipes :
           /\ controls' = Append(controls, [id |-> issued + 1, does |-> [action |-> "load_recipe", name |-> name]])
           /\ recipePending' = name
    BY <1>5 DEF RequestLoadRecipe
  <2>2. /\ issued' = issued + 1 /\ awaited' = issued'
        /\ UNCHANGED <<lateAnswer, earlyAnswer, display>>
    BY <1>5 DEF RequestLoadRecipe
  <2> DEFINE control == [action |-> "load_recipe", name |-> name]
  <2>3. control.action = "load_recipe" /\ control.name = name
    OBVIOUS
  <2>4. controls' = Append(controls, [id |-> issued + 1, does |-> control])
    BY <2>1
  <2> HIDE DEF control
  <2> QED
    BY <2>1, <2>2, <2>3, <2>4
<1>6. CASE RequestStop
  <2> DEFINE control == [action |-> "stop"]
  <2>1. /\ issued' = issued + 1 /\ controls' = Append(controls, [id |-> issued + 1, does |-> control])
        /\ UNCHANGED <<recipeVars, display>>
    BY <1>6 DEF RequestStop
  <2>2. control.action \in OtherActions
    OBVIOUS
  <2> HIDE DEF control
  <2> QED
    BY <2>1, <2>2
<1>7. CASE RequestSetPlane
  <2> DEFINE control == [action |-> "set_plane"]
  <2>1. /\ issued' = issued + 1 /\ controls' = Append(controls, [id |-> issued + 1, does |-> control])
        /\ UNCHANGED <<recipeVars, display>>
    BY <1>7 DEF RequestSetPlane
  <2>2. control.action \in OtherActions
    OBVIOUS
  <2> HIDE DEF control
  <2> QED
    BY <2>1, <2>2
<1>8. CASE RequestReset
  <2> DEFINE control == [action |-> "reset"]
  <2>1. /\ issued' = issued + 1 /\ controls' = Append(controls, [id |-> issued + 1, does |-> control])
        /\ UNCHANGED <<recipeVars, display>>
    BY <1>8 DEF RequestReset
  <2>2. control.action \in OtherActions
    OBVIOUS
  <2> HIDE DEF control
  <2> QED
    BY <2>1, <2>2
<1> QED
  BY <1>1, <1>2, <1>3, <1>4, <1>5, <1>6, <1>7, <1>8 DEF ClientStep

\* Messages are put together and taken apart, but what is in them was issued.
LEMMA QueuesStay ==
    ASSUME NEW S, Queues(S), issued \in Nat, [Next]_vars
    PROVE  \/ issued' = issued /\ Queues(S)'
           \/ /\ issued' = issued + 1
              /\ \A new : controls' = Append(controls, new) /\ new.id = issued + 1
                          => Queues(S \cup {new})'
<1>m. \A m : m \in Messages(S) <=> m \in Seq(S) /\ m # <<>>
  BY DEF Messages
<1>t. /\ controls \in Seq(S) /\ sending \in Seq(S)
      /\ upstream \in Seq(Messages(S)) /\ events \in Seq(Messages(S))
  BY DEF Queues
<1>1. CASE ClientStep /\ UNCHANGED <<linkVars, bridgeVars, historyVars>>
  <2>1. UNCHANGED <<sending, upstream, events>>
    BY <1>1 DEF linkVars, bridgeVars
  <2>2. CASE UNCHANGED <<controls, issued>>
    BY <2>1, <2>2 DEF Queues
  <2>3. CASE issued' = issued + 1
    <3>1. SUFFICES ASSUME NEW new, controls' = Append(controls, new), new.id = issued + 1
                   PROVE  Queues(S \cup {new})'
      BY <2>3
    <3> DEFINE T == S \cup {new}
    <3>2. Seq(S) \subseteq Seq(T) /\ new \in T
      BY SeqMonotonic
    <3>3. Seq(Messages(S)) \subseteq Seq(Messages(T))
      <4>1. Messages(S) \subseteq Messages(T)
        BY <3>2 DEF Messages
      <4> QED
        BY <4>1, SeqMonotonic
    <3>4. controls' \in Seq(T)
      BY <1>t, <3>1, <3>2, AppendProperties
    <3>5. ASSUME NEW c \in T
          PROVE  c.id \in Nat
      <4>1. CASE c \in S
        BY <4>1 DEF Queues
      <4>2. CASE c = new
        BY <3>1, <4>2
      <4> QED
        BY <3>5, <4>1, <4>2
    <3> QED
      BY <1>t, <2>1, <3>2, <3>3, <3>4, <3>5 DEF Queues
  <2> QED
    BY <1>1, <2>2, <2>3, OperatorIssues
<1>2. ASSUME UNCHANGED issued, controls' \in Seq(S), sending' \in Seq(S),
             upstream' \in Seq(Messages(S)), events' \in Seq(Messages(S))
      PROVE  issued' = issued /\ Queues(S)'
  BY <1>2 DEF Queues
<1>3. CASE Snapshot
  <2>1. /\ sending' = controls /\ controls' = <<>>
        /\ UNCHANGED <<issued, upstream, events>>
    BY <1>3 DEF Snapshot, bridgeVars
  <2> QED
    BY <1>t, <1>2, <2>1, EmptySeq
<1>4. CASE Send
  <2>1. /\ sending # <<>> /\ sending' = <<>> /\ upstream' = Append(upstream, sending)
        /\ UNCHANGED <<controls, issued, events>>
    BY <1>4 DEF Send, clientVars, queueVars, bridgeVars
  <2>2. upstream' \in Seq(Messages(S))
    BY <1>m, <1>t, <2>1, AppendProperties
  <2> QED
    BY <1>t, <1>2, <2>1, <2>2, EmptySeq
<1>5. CASE SendRaises
  <2>1. /\ sending # <<>> /\ sending' = <<>> /\ controls' = sending \o controls
        /\ upstream' = upstream \/ upstream' = Append(upstream, sending)
        /\ UNCHANGED <<issued, events>>
    BY <1>5 DEF SendRaises, Requeued, bridgeVars
  <2>2. Append(upstream, sending) \in Seq(Messages(S))
    BY <1>m, <1>t, <2>1, AppendProperties
  <2>3. controls' \in Seq(S)
    BY <1>t, <2>1, ConcatProperties
  <2> QED
    BY <1>t, <1>2, <2>1, <2>2, <2>3, EmptySeq
<1>6. CASE ReceiveInput
  <2>1. /\ upstream # <<>> /\ upstream' = Tail(upstream)
        /\ events' = Append(events, Head(upstream)) \/ events' = events
        /\ UNCHANGED <<controls, issued, sending>>
    BY <1>6 DEF ReceiveInput, clientVars, queueVars
  <2>2. Head(upstream) \in Messages(S) /\ upstream' \in Seq(Messages(S))
    BY <1>t, <2>1, HeadTailProperties
  <2>3. Append(events, Head(upstream)) \in Seq(Messages(S))
    BY <1>t, <2>2, AppendProperties
  <2> QED
    BY <1>t, <1>2, <2>1, <2>2, <2>3
<1>7. CASE SessionCloses
  <2>1. upstream' = <<>> /\ UNCHANGED <<controls, issued, sending, events>>
    BY <1>7 DEF SessionCloses, clientVars, queueVars, bridgeVars
  <2> QED
    BY <1>t, <1>2, <2>1, EmptySeq
<1>8. CASE HandleControl
  <2> DEFINE first == Head(events)
  <2> DEFINE later == Tail(events)
  <2>1. /\ events # <<>>
        /\ events' = IF Len(first) = 1 THEN later ELSE <<Tail(first)>> \o later
        /\ UNCHANGED <<controls, issued, sending, upstream>>
    BY <1>8 DEF HandleControl, clientVars, queueVars
  <2>2. /\ later \in Seq(Messages(S)) /\ first \in Seq(S) /\ first # <<>>
    BY <1>t, <1>m, <2>1, HeadTailProperties
  <2> HIDE DEF first, later
  <2>3. CASE Len(first) = 1
    BY <1>t, <1>2, <2>1, <2>2, <2>3
  <2>4. CASE Len(first) # 1
    <3>1. Tail(first) \in Seq(S) /\ Len(Tail(first)) # 0
      BY <2>2, <2>4, HeadTailProperties
    <3>2. Tail(first) \in Messages(S)
      BY <1>m, <3>1, EmptySeq
    <3>3. <<Tail(first)>> \o later \in Seq(Messages(S))
      BY <2>2, <3>2, ConcatProperties
    <3> QED
      BY <1>t, <1>2, <2>1, <2>4, <3>3
  <2> QED
    BY <2>3, <2>4
<1>9. CASE \/ Connect \/ ClientDrops \/ ReceiveDisplay \/ ExecutionEnds \/ Greet
           \/ WatchdogTick \/ UNCHANGED vars
  <2>1. UNCHANGED <<controls, issued, sending, upstream, events>>
    BY <1>9 DEF Connect, ClientDrops, ReceiveDisplay, ApplyDisplay, ExecutionEnds, Greet,
                WatchdogTick, vars, clientVars, queueVars, linkVars, bridgeVars
  <2> QED
    BY <1>t, <1>2, <2>1
<1>10. CASE SendUnread
  <2>1. sending' = <<>> /\ UNCHANGED <<controls, issued, upstream, events>>
    BY <1>10 DEF SendUnread, clientVars, queueVars, bridgeVars
  <2> QED
    BY <1>t, <1>2, <2>1, EmptySeq
<1> QED
  BY <1>1, <1>3, <1>4, <1>5, <1>6, <1>7, <1>8, <1>9, <1>10 DEF Next

\* The first control waiting at the bridge is the one that leaves the queue.
LEMMA FirstLeaves ==
    ASSUME NEW S, Queues(S), HandleControl
    PROVE  /\ Head(Head(events)) \in S /\ Head(Head(events)).id \in Nat
           /\ IdsOf(events) = {Head(Head(events)).id} \cup IdsOf(events')
<1> DEFINE first == Head(events)
<1> DEFINE later == Tail(events)
<1>1. /\ events # <<>> /\ events \in Seq(Messages(S))
      /\ events' = IF Len(first) = 1 THEN later ELSE <<Tail(first)>> \o later
  BY DEF HandleControl, Queues
<1>m. \A m : m \in Messages(S) <=> m \in Seq(S) /\ m # <<>>
  BY DEF Messages
<1>2. first \in Seq(S) /\ first # <<>> /\ later \in Seq(Messages(S))
  BY <1>1, <1>m, HeadTailProperties
<1>3. IdsOf(events) = Ids(first) \cup IdsOf(later)
  BY <1>1, IdsOfQueues
<1> HIDE DEF first, later
<1>4. Head(first) \in S /\ Tail(first) \in Seq(S) /\ Ids(first) = {Head(first).id} \cup Ids(Tail(first))
  BY <1>2, HeadTailProperties, IdsOfMessages
<1>5. IdsOf(events') = Ids(Tail(first)) \cup IdsOf(later)
  <2>1. CASE Len(first) = 1
    <3>1. Tail(first) = <<>>
      <4>1. Len(Tail(first)) = 0
        BY <1>2, <2>1, HeadTailProperties
      <4> QED
        BY <1>4, <4>1, EmptySeq
    <3>2. Ids(Tail(first)) = {}
      BY <3>1 DEF Ids
    <3> QED
      BY <1>1, <2>1, <3>2
  <2>2. CASE Len(first) # 1
    <3>1. Tail(first) \in Messages(S)
      <4>1. Len(Tail(first)) # 0
        BY <1>2, <2>2, HeadTailProperties
      <4> QED
        BY <1>m, <1>4, <4>1, EmptySeq
    <3>2. \A m \in Messages(S) : IdsOf(<<m>> \o later) = Ids(m) \cup IdsOf(later)
      BY <1>2, IdsOfQueues
    <3> QED
      BY <1>1, <2>2, <3>1, <3>2
  <2> QED
    BY <2>1, <2>2
<1>6. Head(first).id \in Nat
  BY <1>4 DEF Queues
<1> QED
  BY <1>3, <1>4, <1>5, <1>6 DEF first

\* Every control the operator issued is queued, under way, waiting, handled,
\* refused with its message, or lost with its connection or in a session that
\* the bridge turned away, however often the send raises and the session drops
\* (snapshot, requeue_controls, _session, ui_comms handler).
THEOREM ControlsAccounted == Spec => []Accounted /\ []NoControlForgotten
<1>1. Init => Accounted
  <2> SUFFICES ASSUME Init PROVE Accounted
    OBVIOUS
  <2>1. controls = <<>> /\ sending = <<>> /\ upstream = <<>> /\ events = <<>> /\ received = <<>>
    BY DEF Init, ClientInit
  <2>2. Queues({})
    BY <2>1, EmptySeq DEF Queues
  <2>3. Ids(<<>>) = {} /\ Range(<<>>) = {}
    BY DEF Ids, Range
  <2>4. IdsOf(<<>>) = {}
    BY DEF IdsOf
  <2>5. issued = 0 /\ lost = {} /\ refused = {}
    BY DEF Init, ClientInit
  <2>6. NoControlForgotten
    BY <2>1, <2>3, <2>4, <2>5 DEF NoControlForgotten
  <2> QED
    BY <2>1, <2>2, <2>5, <2>6, EmptySeq DEF Accounted
<1>2. Accounted /\ [Next]_vars => Accounted'
  <2> SUFFICES ASSUME Accounted, [Next]_vars PROVE Accounted'
    OBVIOUS
  <2>0. PICK S : Queues(S)
    BY DEF Accounted
  <2>m. \A m : m \in Messages(S) <=> m \in Seq(S) /\ m # <<>>
    BY DEF Messages
  <2>t. /\ controls \in Seq(S) /\ sending \in Seq(S)
        /\ upstream \in Seq(Messages(S)) /\ events \in Seq(Messages(S))
    BY <2>0 DEF Queues
  <2>e. Ids(<<>>) = {} /\ IdsOf(<<>>) = {}
    BY DEF Ids, IdsOf
  <2>s. ASSUME UNCHANGED <<issued, received>>, NoControlForgotten'
        PROVE  Accounted'
    <3>1. Queues(S)'
      BY <2>0, <2>s, QueuesStay DEF Accounted
    <3> QED
      BY <2>s, <3>1 DEF Accounted
  <2>1. CASE ClientStep /\ UNCHANGED <<linkVars, bridgeVars, historyVars>>
    <3>1. UNCHANGED <<sending, upstream, events, received, lost, refused>>
      BY <2>1 DEF linkVars, bridgeVars, historyVars
    <3>2. CASE UNCHANGED <<controls, issued>>
      BY <2>s, <3>1, <3>2 DEF Accounted, NoControlForgotten
    <3>3. ASSUME NEW control, issued' = issued + 1,
                 controls' = Append(controls, [id |-> issued + 1, does |-> control])
          PROVE  Accounted'
      <4>0. PICK number : number = issued + 1
        OBVIOUS
      <4> DEFINE new == [id |-> number, does |-> control]
      <4>1. new.id = issued + 1 /\ new.id = number /\ controls' = Append(controls, new)
        BY <3>3, <4>0
      <4> HIDE DEF new
      <4>2. Queues(S \cup {new})'
        BY <2>0, <3>3, <4>1, QueuesStay DEF Accounted
      <4>3. controls \in Seq(S \cup {new})
        BY <2>t, SeqMonotonic
      <4>4. Ids(controls') = Ids(controls) \cup {number}
        BY <4>1, <4>3, IdsOfMessages
      <4>5. 1 .. issued' = 1 .. issued \cup {number} /\ issued' \in Nat
        BY <3>3, <4>0 DEF Accounted
      <4>6. NoControlForgotten'
        BY <3>1, <4>4, <4>5 DEF Accounted, NoControlForgotten
      <4> QED
        BY <3>1, <4>2, <4>5, <4>6 DEF Accounted
    <3> QED
      BY <2>1, <3>2, <3>3, OperatorIssues
  <2>2. CASE Snapshot
    <3>1. /\ sending = <<>> /\ sending' = controls /\ controls' = <<>>
          /\ UNCHANGED <<issued, upstream, events, received, lost, refused>>
      BY <2>2 DEF Snapshot, bridgeVars, historyVars
    <3> QED
      BY <2>e, <2>s, <3>1 DEF Accounted, NoControlForgotten
  <2>3. CASE Send
    <3>1. /\ sending # <<>> /\ sending' = <<>> /\ upstream' = Append(upstream, sending)
          /\ UNCHANGED <<controls, issued, events, received, lost, refused>>
      BY <2>3 DEF Send, clientVars, queueVars, bridgeVars, historyVars
    <3>2. IdsOf(upstream') = IdsOf(upstream) \cup Ids(sending)
      BY <2>m, <2>t, <3>1, IdsOfQueues
    <3> QED
      BY <2>e, <2>s, <3>1, <3>2 DEF Accounted, NoControlForgotten
  <2>4. CASE SendRaises
    <3>1. /\ sending # <<>> /\ sending' = <<>> /\ controls' = sending \o controls
          /\ upstream' = upstream \/ upstream' = Append(upstream, sending)
          /\ UNCHANGED <<issued, events, received, lost, refused>>
      BY <2>4 DEF SendRaises, Requeued, bridgeVars
    <3>2. Ids(controls') = Ids(sending) \cup Ids(controls)
      BY <2>t, <3>1, IdsOfMessages
    <3>3. IdsOf(Append(upstream, sending)) = IdsOf(upstream) \cup Ids(sending)
      BY <2>m, <2>t, <3>1, IdsOfQueues
    <3>4. CASE upstream' = upstream
      BY <2>e, <2>s, <3>1, <3>2, <3>4 DEF Accounted, NoControlForgotten
    <3>5. CASE upstream' = Append(upstream, sending)
      BY <2>e, <2>s, <3>1, <3>2, <3>3, <3>5 DEF Accounted, NoControlForgotten
    <3> QED
      BY <3>1, <3>4, <3>5
  <2>5. CASE ReceiveInput
    <3>1. /\ upstream # <<>> /\ upstream' = Tail(upstream)
          /\ \/ events' = Append(events, Head(upstream)) /\ refused' = refused
             \/ events' = events /\ refused' = refused \cup Ids(Head(upstream))
          /\ UNCHANGED <<controls, issued, sending, received, lost>>
      BY <2>5 DEF ReceiveInput, clientVars, queueVars
    <3>2. Head(upstream) \in Messages(S)
      BY <2>t, <3>1, HeadTailProperties
    <3>3. /\ IdsOf(upstream) = Ids(Head(upstream)) \cup IdsOf(upstream')
          /\ IdsOf(Append(events, Head(upstream))) = IdsOf(events) \cup Ids(Head(upstream))
      BY <2>t, <3>1, <3>2, IdsOfQueues
    <3> QED
      BY <2>s, <3>1, <3>3 DEF Accounted, NoControlForgotten
  <2>6. CASE SessionCloses
    <3>1. /\ upstream' = <<>> /\ lost' = lost \cup IdsOf(upstream)
          /\ UNCHANGED <<controls, issued, sending, events, received, refused>>
      BY <2>6 DEF SessionCloses, clientVars, queueVars, bridgeVars
    <3> QED
      BY <2>e, <2>s, <3>1 DEF Accounted, NoControlForgotten
  <2>7. CASE HandleControl
    <3> DEFINE id == Head(Head(events)).id
    <3>1. received' = Append(received, id)
          /\ UNCHANGED <<controls, issued, sending, upstream, lost, refused>>
      BY <2>7 DEF HandleControl, clientVars, queueVars
    <3>2. id \in Nat /\ IdsOf(events) = {id} \cup IdsOf(events')
      BY <2>0, <2>7, FirstLeaves
    <3> HIDE DEF id
    <3>3. received' \in Seq(Nat) /\ Range(received') = Range(received) \cup {id}
      <4>1. /\ received' \in Seq(Nat) /\ Len(received') = Len(received) + 1
            /\ \A i \in 1 .. Len(received) : received'[i] = received[i]
            /\ received'[Len(received) + 1] = id
        BY <3>1, <3>2, AppendProperties DEF Accounted
      <4>2. DOMAIN received = 1 .. Len(received) /\ DOMAIN received' = 1 .. Len(received) + 1
        BY <4>1 DEF Accounted
      <4>3. Range(received') = Range(received) \cup {id}
        BY <4>1, <4>2 DEF Range
      <4> QED
        BY <4>1, <4>3
    <3>4. NoControlForgotten'
      BY <3>1, <3>2, <3>3 DEF Accounted, NoControlForgotten
    <3>5. Queues(S)'
      BY <2>0, <3>1, QueuesStay DEF Accounted
    <3> QED
      BY <3>1, <3>3, <3>4, <3>5 DEF Accounted
  <2>8. CASE \/ Connect \/ ClientDrops \/ ReceiveDisplay \/ ExecutionEnds \/ Greet
             \/ WatchdogTick \/ UNCHANGED vars
    <3>1. UNCHANGED <<controls, issued, sending, upstream, events, received, lost, refused>>
      BY <2>8 DEF Connect, ClientDrops, ReceiveDisplay, ApplyDisplay, ExecutionEnds, Greet,
                  WatchdogTick, vars, clientVars, queueVars, linkVars, bridgeVars, historyVars
    <3> QED
      BY <2>s, <3>1 DEF Accounted, NoControlForgotten
  <2>9. CASE SendUnread
    <3>1. /\ sending' = <<>> /\ lost' = lost \cup Ids(sending)
          /\ UNCHANGED <<controls, issued, upstream, events, received, refused>>
      BY <2>9 DEF SendUnread, clientVars, queueVars, bridgeVars
    <3> QED
      BY <2>e, <2>s, <3>1 DEF Accounted, NoControlForgotten
  <2> QED
    BY <2>1, <2>2, <2>3, <2>4, <2>5, <2>6, <2>7, <2>8, <2>9 DEF Next
<1>3. Accounted => NoControlForgotten
  BY DEF Accounted
<1> QED
  BY <1>1, <1>2, <1>3, PTL DEF Spec

-------------------------------------------------------------------------------
(* The order of the controls.                                              *)

\* What is in A was issued before what is in B, but for the numbers that a
\* message took with it although its send failed.
Earlier(A, B, again) == \A a \in A \ again, b \in B \ again : a < b

Ascends(message, again) ==
    \A i, j \in DOMAIN message : i < j => Earlier({message[i].id}, {message[j].id}, again)

Flows(queue, again) ==
    /\ \A i \in DOMAIN queue : Ascends(queue[i], again)
    /\ \A i, j \in DOMAIN queue : i < j => Earlier(Ids(queue[i]), Ids(queue[j]), again)

\* What was handled is older than what waits at the bridge, that is older than
\* what is in transit, and so back to what the operator queued last.
InOrder ==
    /\ ControlsArriveInOrder
    /\ Flows(events, redelivered) /\ Flows(upstream, redelivered)
    /\ Ascends(sending, redelivered) /\ Ascends(controls, redelivered)
    /\ Earlier(Ids(sending), Ids(controls), redelivered)
    /\ Earlier(IdsOf(upstream), Ids(sending) \cup Ids(controls), redelivered)
    /\ Earlier(IdsOf(events), IdsOf(upstream) \cup Ids(sending) \cup Ids(controls), redelivered)
    /\ Earlier(Range(received),
               IdsOf(events) \cup IdsOf(upstream) \cup Ids(sending) \cup Ids(controls), redelivered)

\* Joining, splitting and queueing keep the order.
LEMMA OrderKept ==
    ASSUME NEW again, NEW S, NEW m \in Seq(S), NEW n \in Seq(S),
           NEW M, NEW q \in Seq(M), NEW e \in M
    PROVE  /\ Ascends(<<>>, again) /\ Flows(<<>>, again)
           /\ Ascends(m, again) /\ Ascends(n, again) /\ Earlier(Ids(m), Ids(n), again)
              => Ascends(m \o n, again)
           /\ \A c \in S : Ascends(m, again) /\ Earlier(Ids(m), {c.id}, again)
                           => Ascends(Append(m, c), again)
           /\ m # <<>> /\ Ascends(m, again)
              => Ascends(Tail(m), again) /\ Earlier({Head(m).id}, Ids(Tail(m)), again)
           /\ Flows(q, again) /\ Ascends(e, again) /\ Earlier(IdsOf(q), Ids(e), again)
              => Flows(Append(q, e), again)
           /\ q # <<>> /\ Flows(q, again)
              => /\ Ascends(Head(q), again) /\ Flows(Tail(q), again)
                 /\ Earlier(Ids(Head(q)), IdsOf(Tail(q)), again)
           /\ Flows(q, again) /\ Ascends(e, again) /\ Earlier(Ids(e), IdsOf(q), again)
              => Flows(<<e>> \o q, again)
<1>1. Ascends(<<>>, again) /\ Flows(<<>>, again)
  BY DEF Ascends, Flows
<1>2. ASSUME Ascends(m, again), Ascends(n, again), Earlier(Ids(m), Ids(n), again)
      PROVE  Ascends(m \o n, again)
  <2> DEFINE all == m \o n
  <2>1. /\ DOMAIN all = 1 .. Len(m) + Len(n)
        /\ \A i \in 1 .. Len(m) : all[i] = m[i]
        /\ \A i \in 1 .. Len(m) + Len(n) : i > Len(m) => all[i] = n[i - Len(m)]
    BY ConcatProperties
  <2> HIDE DEF all
  <2>2. SUFFICES ASSUME NEW i \in 1 .. Len(m) + Len(n), NEW j \in 1 .. Len(m) + Len(n), i < j
                 PROVE  Earlier({all[i].id}, {all[j].id}, again)
    BY <2>1 DEF Ascends, all
  <2>3. CASE j <= Len(m)
    <3>1. i \in DOMAIN m /\ j \in DOMAIN m /\ all[i] = m[i] /\ all[j] = m[j]
      BY <2>1, <2>2, <2>3
    <3> QED
      BY <1>2, <2>2, <3>1 DEF Ascends
  <2>4. CASE i > Len(m)
    <3>1. /\ i - Len(m) \in DOMAIN n /\ j - Len(m) \in DOMAIN n /\ i - Len(m) < j - Len(m)
          /\ all[i] = n[i - Len(m)] /\ all[j] = n[j - Len(m)]
      BY <2>1, <2>2, <2>4
    <3> QED
      BY <1>2, <3>1 DEF Ascends
  <2>5. CASE i <= Len(m) /\ j > Len(m)
    <3>1. /\ i \in DOMAIN m /\ j - Len(m) \in DOMAIN n
          /\ all[i] = m[i] /\ all[j] = n[j - Len(m)]
      BY <2>1, <2>2, <2>5
    <3>2. all[i].id \in Ids(m) /\ all[j].id \in Ids(n)
      BY <3>1 DEF Ids
    <3> QED
      BY <1>2, <3>2 DEF Earlier
  <2> QED
    BY <2>3, <2>4, <2>5
<1>3. ASSUME NEW c \in S, Ascends(m, again), Earlier(Ids(m), {c.id}, again)
      PROVE  Ascends(Append(m, c), again)
  <2>1. /\ DOMAIN Append(m, c) = 1 .. Len(m) + 1
        /\ \A i \in 1 .. Len(m) : Append(m, c)[i] = m[i]
        /\ Append(m, c)[Len(m) + 1] = c
    BY AppendProperties
  <2>2. SUFFICES ASSUME NEW i \in 1 .. Len(m) + 1, NEW j \in 1 .. Len(m) + 1, i < j
                 PROVE  Earlier({Append(m, c)[i].id}, {Append(m, c)[j].id}, again)
    BY <2>1 DEF Ascends
  <2>3. i \in DOMAIN m /\ Append(m, c)[i] = m[i]
    BY <2>1, <2>2
  <2>4. CASE j <= Len(m)
    <3>1. j \in DOMAIN m /\ Append(m, c)[j] = m[j]
      BY <2>1, <2>4
    <3> QED
      BY <1>3, <2>2, <2>3, <3>1 DEF Ascends
  <2>5. CASE j = Len(m) + 1
    <3>1. m[i].id \in Ids(m)
      BY <2>3 DEF Ids
    <3> QED
      BY <1>3, <2>1, <2>3, <2>5, <3>1 DEF Earlier
  <2>6. j <= Len(m) \/ j = Len(m) + 1
    OBVIOUS
  <2> QED
    BY <2>4, <2>5, <2>6
<1>4. ASSUME m # <<>>, Ascends(m, again)
      PROVE  Ascends(Tail(m), again) /\ Earlier({Head(m).id}, Ids(Tail(m)), again)
  <2>1. /\ 1 \in DOMAIN m /\ Head(m) = m[1]
        /\ DOMAIN m = 1 .. Len(m) /\ DOMAIN Tail(m) = 1 .. Len(m) - 1
        /\ \A i \in 1 .. Len(m) - 1 : Tail(m)[i] = m[i + 1]
    BY <1>4, EmptySeq, HeadTailProperties
  <2>2. ASSUME NEW i \in 1 .. Len(m) - 1
        PROVE  i + 1 \in DOMAIN m /\ Tail(m)[i] = m[i + 1]
    BY <2>1
  <2>3. Ascends(Tail(m), again)
    <3>1. SUFFICES ASSUME NEW i \in 1 .. Len(m) - 1, NEW j \in 1 .. Len(m) - 1, i < j
                   PROVE  Earlier({Tail(m)[i].id}, {Tail(m)[j].id}, again)
      BY <2>1 DEF Ascends
    <3>2. i + 1 < j + 1
      BY <3>1
    <3> QED
      BY <1>4, <2>2, <3>2 DEF Ascends
  <2>4. Earlier({Head(m).id}, Ids(Tail(m)), again)
    <3>1. SUFFICES ASSUME NEW i \in 1 .. Len(m) - 1
                   PROVE  Earlier({m[1].id}, {Tail(m)[i].id}, again)
      BY <2>1 DEF Ids, Earlier
    <3>2. 1 < i + 1
      OBVIOUS
    <3> QED
      BY <1>4, <2>1, <2>2, <3>2 DEF Ascends
  <2> QED
    BY <2>3, <2>4
<1>5. ASSUME Flows(q, again), Ascends(e, again), Earlier(IdsOf(q), Ids(e), again)
      PROVE  Flows(Append(q, e), again)
  <2> DEFINE longer == Append(q, e)
  <2>1. /\ DOMAIN longer = 1 .. Len(q) + 1 /\ DOMAIN q = 1 .. Len(q)
        /\ \A i \in 1 .. Len(q) : longer[i] = q[i]
        /\ longer[Len(q) + 1] = e
    BY AppendProperties
  <2> HIDE DEF longer
  <2>2. ASSUME NEW i \in 1 .. Len(q) + 1
        PROVE  Ascends(longer[i], again)
    <3>1. CASE i \in DOMAIN q
      BY <1>5, <2>1, <3>1 DEF Flows
    <3>2. CASE i = Len(q) + 1
      BY <1>5, <2>1, <3>2
    <3> QED
      BY <2>1, <3>1, <3>2
  <2>3. ASSUME NEW i \in 1 .. Len(q) + 1, NEW j \in 1 .. Len(q) + 1, i < j
        PROVE  Earlier(Ids(longer[i]), Ids(longer[j]), again)
    <3>1. i \in DOMAIN q /\ longer[i] = q[i]
      BY <2>1, <2>3
    <3>2. CASE j \in DOMAIN q
      <4>1. longer[j] = q[j]
        BY <2>1, <3>2
      <4> QED
        BY <1>5, <2>3, <3>1, <3>2, <4>1 DEF Flows
    <3>3. CASE j = Len(q) + 1
      <4>1. Ids(q[i]) \subseteq IdsOf(q)
        BY <3>1 DEF IdsOf
      <4> QED
        BY <1>5, <2>1, <3>1, <3>3, <4>1 DEF Earlier
    <3> QED
      BY <2>1, <3>2, <3>3
  <2>4. Flows(longer, again)
    BY <2>1, <2>2, <2>3 DEF Flows
  <2> QED
    BY <2>4 DEF longer
<1>6. ASSUME q # <<>>, Flows(q, again)
      PROVE  /\ Ascends(Head(q), again) /\ Flows(Tail(q), again)
             /\ Earlier(Ids(Head(q)), IdsOf(Tail(q)), again)
  <2>1. /\ 1 \in DOMAIN q /\ Head(q) = q[1]
        /\ DOMAIN q = 1 .. Len(q) /\ DOMAIN Tail(q) = 1 .. Len(q) - 1
        /\ \A i \in 1 .. Len(q) - 1 : Tail(q)[i] = q[i + 1]
    BY <1>6, EmptySeq, HeadTailProperties
  <2>2. ASSUME NEW i \in 1 .. Len(q) - 1
        PROVE  i + 1 \in DOMAIN q /\ Tail(q)[i] = q[i + 1]
    BY <2>1
  <2>3. Flows(Tail(q), again)
    <3>1. ASSUME NEW i \in 1 .. Len(q) - 1
          PROVE  Ascends(Tail(q)[i], again)
      BY <1>6, <2>2 DEF Flows
    <3>2. ASSUME NEW i \in 1 .. Len(q) - 1, NEW j \in 1 .. Len(q) - 1, i < j
          PROVE  Earlier(Ids(Tail(q)[i]), Ids(Tail(q)[j]), again)
      <4>1. i + 1 < j + 1
        BY <3>2
      <4> QED
        BY <1>6, <2>2, <4>1 DEF Flows
    <3> QED
      BY <2>1, <3>1, <3>2 DEF Flows
  <2>4. Earlier(Ids(Head(q)), IdsOf(Tail(q)), again)
    <3>1. ASSUME NEW i \in 1 .. Len(q) - 1
          PROVE  Earlier(Ids(q[1]), Ids(Tail(q)[i]), again)
      <4>1. 1 < i + 1
        OBVIOUS
      <4> QED
        BY <1>6, <2>1, <2>2, <4>1 DEF Flows
    <3> QED
      BY <2>1, <3>1 DEF IdsOf, Earlier
  <2> QED
    BY <1>6, <2>1, <2>3, <2>4 DEF Flows
<1>7. ASSUME Flows(q, again), Ascends(e, again), Earlier(Ids(e), IdsOf(q), again)
      PROVE  Flows(<<e>> \o q, again)
  <2> DEFINE all == <<e>> \o q
  <2>1. /\ DOMAIN all = 1 .. Len(q) + 1 /\ DOMAIN q = 1 .. Len(q)
        /\ all[1] = e
        /\ \A i \in 1 .. Len(q) : all[i + 1] = q[i]
    BY ConcatProperties
  <2> HIDE DEF all
  <2>2. ASSUME NEW i \in 1 .. Len(q) + 1, i # 1
        PROVE  i - 1 \in DOMAIN q /\ all[i] = q[i - 1]
    <3>1. i - 1 \in 1 .. Len(q) /\ (i - 1) + 1 = i
      BY <2>2
    <3> QED
      BY <2>1, <3>1
  <2>3. ASSUME NEW i \in 1 .. Len(q) + 1
        PROVE  Ascends(all[i], again)
    <3>1. CASE i = 1
      BY <1>7, <2>1, <3>1
    <3>2. CASE i # 1
      BY <1>7, <2>2, <3>2 DEF Flows
    <3> QED
      BY <3>1, <3>2
  <2>4. ASSUME NEW i \in 1 .. Len(q) + 1, NEW j \in 1 .. Len(q) + 1, i < j
        PROVE  Earlier(Ids(all[i]), Ids(all[j]), again)
    <3>1. j # 1 /\ j - 1 \in DOMAIN q /\ all[j] = q[j - 1]
      BY <2>2, <2>4
    <3>2. CASE i = 1
      <4>1. Ids(q[j - 1]) \subseteq IdsOf(q)
        BY <3>1 DEF IdsOf
      <4> QED
        BY <1>7, <2>1, <3>1, <3>2, <4>1 DEF Earlier
    <3>3. CASE i # 1
      <4>1. i - 1 \in DOMAIN q /\ all[i] = q[i - 1] /\ i - 1 < j - 1
        BY <2>2, <2>4, <3>3
      <4> QED
        BY <1>7, <3>1, <4>1 DEF Flows
    <3> QED
      BY <3>2, <3>3
  <2>5. Flows(all, again)
    BY <2>1, <2>3, <2>4 DEF Flows
  <2> QED
    BY <2>5 DEF all
<1> QED
  BY <1>1, <1>2, <1>3, <1>4, <1>5, <1>6, <1>7

\* The controls are handled in the order in which the operator gave them, once
\* each but for those a failed send delivered after all, however often the send
\* raises and the session drops (_session, requeue_controls, _receive_input).
THEOREM ControlsInOrder == Spec => []InOrder /\ []ControlsArriveInOrder
<1>1. Init => InOrder
  <2> SUFFICES ASSUME Init PROVE InOrder
    OBVIOUS
  <2>1. controls = <<>> /\ sending = <<>> /\ upstream = <<>> /\ events = <<>> /\ received = <<>>
    BY DEF Init, ClientInit
  <2>2. Ids(<<>>) = {} /\ Range(<<>>) = {}
    BY DEF Ids, Range
  <2>3. IdsOf(<<>>) = {}
    BY DEF IdsOf
  <2>4. Ascends(<<>>, redelivered) /\ Flows(<<>>, redelivered)
    BY DEF Ascends, Flows
  <2>5. ControlsArriveInOrder
    BY <2>1 DEF ControlsArriveInOrder
  <2> QED
    BY <2>1, <2>2, <2>3, <2>4, <2>5 DEF InOrder, Earlier
<1>2. Accounted /\ InOrder /\ [Next]_vars => InOrder'
  <2> SUFFICES ASSUME Accounted, InOrder, [Next]_vars PROVE InOrder'
    OBVIOUS
  <2>0. PICK S : Queues(S)
    BY DEF Accounted
  <2>m. \A m : m \in Messages(S) <=> m \in Seq(S) /\ m # <<>>
    BY DEF Messages
  <2>t. /\ controls \in Seq(S) /\ sending \in Seq(S)
        /\ upstream \in Seq(Messages(S)) /\ events \in Seq(Messages(S))
    BY <2>0 DEF Queues
  <2>e. Ids(<<>>) = {} /\ IdsOf(<<>>) = {}
    BY DEF Ids, IdsOf
  <2>o. Ascends(<<>>, redelivered) /\ Flows(<<>>, redelivered)
    BY DEF Ascends, Flows
  <2>1. CASE ClientStep /\ UNCHANGED <<linkVars, bridgeVars, historyVars>>
    <3>1. UNCHANGED <<sending, upstream, events, received, redelivered>>
      BY <2>1 DEF linkVars, bridgeVars, historyVars
    <3>2. CASE UNCHANGED <<controls, issued>>
      BY <3>1, <3>2 DEF InOrder, ControlsArriveInOrder
    <3>3. ASSUME NEW control, issued' = issued + 1,
                 controls' = Append(controls, [id |-> issued + 1, does |-> control])
          PROVE  InOrder'
      <4>0. PICK number : number = issued + 1
        OBVIOUS
      <4> DEFINE new == [id |-> number, does |-> control]
      <4> DEFINE T == S \cup {new}
      <4>1. controls \in Seq(T) /\ new \in T /\ new.id = number
        BY <2>t, SeqMonotonic
      <4> HIDE DEF T, new
      <4>2. controls' = Append(controls, new)
        BY <3>3, <4>0 DEF new
      <4>3. Ids(controls') = Ids(controls) \cup {number}
        BY <4>1, <4>2, IdsOfMessages
      <4> DEFINE known == Ids(controls) \cup Ids(sending) \cup IdsOf(upstream) \cup IdsOf(events)
                          \cup Range(received)
      <4>4. \A id \in known : id < number
        <5>1. known \subseteq 1 .. issued
          BY DEF Accounted, NoControlForgotten
        <5> HIDE DEF known
        <5> QED
          BY <4>0, <5>1 DEF Accounted
      <4>5. Earlier(known, {number}, redelivered)
        BY <4>4 DEF Earlier
      <4>6. Ascends(controls', redelivered)
        <5>1. Earlier(Ids(controls), {new.id}, redelivered)
          BY <4>1, <4>5 DEF Earlier
        <5> QED
          BY <4>1, <4>2, <5>1, OrderKept DEF InOrder
      <4> QED
        BY <3>1, <4>3, <4>5, <4>6 DEF InOrder, ControlsArriveInOrder, Earlier
    <3> QED
      BY <2>1, <3>2, <3>3, OperatorIssues
  <2>2. CASE Snapshot
    <3>1. /\ sending = <<>> /\ sending' = controls /\ controls' = <<>>
          /\ UNCHANGED <<upstream, events, received, redelivered>>
      BY <2>2 DEF Snapshot, bridgeVars, historyVars
    <3> QED
      BY <2>e, <2>o, <3>1 DEF InOrder, ControlsArriveInOrder, Earlier
  <2>3. CASE Send
    <3>1. /\ sending # <<>> /\ sending' = <<>> /\ upstream' = Append(upstream, sending)
          /\ UNCHANGED <<controls, events, received, redelivered>>
      BY <2>3 DEF Send, clientVars, queueVars, bridgeVars, historyVars
    <3>2. sending \in Messages(S)
      BY <2>m, <2>t, <3>1
    <3>3. IdsOf(upstream') = IdsOf(upstream) \cup Ids(sending)
      BY <2>t, <3>1, <3>2, IdsOfQueues
    <3>4. Flows(upstream', redelivered)
      <4>1. Earlier(IdsOf(upstream), Ids(sending), redelivered)
        BY DEF InOrder, Earlier
      <4>2. Flows(Append(upstream, sending), redelivered)
        BY <2>t, <3>2, <4>1, OrderKept DEF InOrder
      <4> QED
        BY <3>1, <4>2
    <3> QED
      BY <2>e, <2>o, <3>1, <3>3, <3>4 DEF InOrder, ControlsArriveInOrder, Earlier
  <2>4. CASE SendRaises
    <3>1. /\ sending # <<>> /\ sending' = <<>> /\ controls' = sending \o controls
          /\ \/ upstream' = upstream /\ redelivered' = redelivered
             \/ /\ upstream' = Append(upstream, sending)
                /\ redelivered' = redelivered \cup Ids(sending)
          /\ UNCHANGED <<events, received>>
      BY <2>4 DEF SendRaises, Requeued, bridgeVars
    <3>2. sending \in Messages(S)
      BY <2>m, <2>t, <3>1
    <3>3. Ids(controls') = Ids(sending) \cup Ids(controls)
      BY <2>t, <3>1, IdsOfMessages
    <3>4. Ascends(controls', redelivered)
      <4>1. /\ Ascends(sending, redelivered) /\ Ascends(controls, redelivered)
            /\ Earlier(Ids(sending), Ids(controls), redelivered)
        BY DEF InOrder
      <4>2. Ascends(sending \o controls, redelivered)
        BY <2>t, <3>2, <4>1, OrderKept
      <4> QED
        BY <3>1, <4>2
    <3>5. CASE upstream' = upstream /\ redelivered' = redelivered
      BY <2>e, <2>o, <3>1, <3>3, <3>4, <3>5 DEF InOrder, ControlsArriveInOrder, Earlier
    <3>6. CASE /\ upstream' = Append(upstream, sending)
               /\ redelivered' = redelivered \cup Ids(sending)
      <4>1. IdsOf(upstream') = IdsOf(upstream) \cup Ids(sending)
        BY <2>t, <3>2, <3>6, IdsOfQueues
      <4>2. Flows(upstream', redelivered)
        <5>1. Earlier(IdsOf(upstream), Ids(sending), redelivered)
          BY DEF InOrder, Earlier
        <5>2. Flows(Append(upstream, sending), redelivered)
          BY <2>t, <3>2, <5>1, OrderKept DEF InOrder
        <5> QED
          BY <3>6, <5>2
      <4>3. \A A, B : Earlier(A, B, redelivered) => Earlier(A, B, redelivered')
        BY <3>6 DEF Earlier
      <4>4. /\ Flows(events', redelivered') /\ Flows(upstream', redelivered')
            /\ Ascends(sending', redelivered') /\ Ascends(controls', redelivered')
        BY <2>o, <3>1, <3>4, <4>2, <4>3 DEF InOrder, Flows, Ascends
      <4>5. ControlsArriveInOrder'
        BY <3>1, <3>6 DEF InOrder, ControlsArriveInOrder
      <4> QED
        BY <2>e, <3>1, <3>3, <3>6, <4>1, <4>4, <4>5 DEF InOrder, Earlier
    <3> QED
      BY <3>1, <3>5, <3>6
  <2>5. CASE ReceiveInput
    <3>1. /\ upstream # <<>> /\ upstream' = Tail(upstream)
          /\ events' = Append(events, Head(upstream)) \/ events' = events
          /\ UNCHANGED <<controls, sending, received, redelivered>>
      BY <2>5 DEF ReceiveInput, clientVars, queueVars
    <3>2. Head(upstream) \in Messages(S)
      BY <2>t, <3>1, HeadTailProperties
    <3>3. IdsOf(upstream) = Ids(Head(upstream)) \cup IdsOf(upstream')
      BY <2>t, <3>1, IdsOfQueues
    <3>4. /\ Ascends(Head(upstream), redelivered) /\ Flows(upstream', redelivered)
          /\ Earlier(Ids(Head(upstream)), IdsOf(upstream'), redelivered)
      <4>1. Flows(upstream, redelivered)
        BY DEF InOrder
      <4>2. /\ Ascends(Head(upstream), redelivered) /\ Flows(Tail(upstream), redelivered)
            /\ Earlier(Ids(Head(upstream)), IdsOf(Tail(upstream)), redelivered)
        BY <2>t, <3>1, <3>2, <4>1, OrderKept
      <4> QED
        BY <3>1, <4>2
    <3>5. CASE events' = events
      BY <3>1, <3>3, <3>4, <3>5 DEF InOrder, ControlsArriveInOrder, Earlier
    <3>6. CASE events' = Append(events, Head(upstream))
      <4>1. IdsOf(events') = IdsOf(events) \cup Ids(Head(upstream))
        BY <2>t, <3>2, <3>6, IdsOfQueues
      <4>2. Earlier(IdsOf(events), Ids(Head(upstream)), redelivered)
        BY <3>3 DEF InOrder, Earlier
      <4>3. Flows(events', redelivered)
        <5>1. Flows(Append(events, Head(upstream)), redelivered)
          BY <2>t, <3>2, <3>4, <4>2, OrderKept DEF InOrder
        <5> QED
          BY <3>6, <5>1
      <4> QED
        BY <3>1, <3>3, <3>4, <4>1, <4>3 DEF InOrder, ControlsArriveInOrder, Earlier
    <3> QED
      BY <3>1, <3>5, <3>6
  <2>6. CASE SessionCloses
    <3>1. upstream' = <<>> /\ UNCHANGED <<controls, sending, events, received, redelivered>>
      BY <2>6 DEF SessionCloses, clientVars, queueVars, bridgeVars
    <3> QED
      BY <2>e, <2>o, <3>1 DEF InOrder, ControlsArriveInOrder, Earlier
  <2>7. CASE HandleControl
    <3> DEFINE first == Head(events)
    <3> DEFINE later == Tail(events)
    <3>1. /\ events # <<>>
          /\ events' = IF Len(first) = 1 THEN later ELSE <<Tail(first)>> \o later
          /\ received' = Append(received, Head(first).id)
          /\ UNCHANGED <<controls, sending, upstream, redelivered>>
      BY <2>7 DEF HandleControl, clientVars, queueVars
    <3>2. /\ first \in Messages(S) /\ later \in Seq(Messages(S))
          /\ first \in Seq(S) /\ first # <<>>
      BY <2>t, <2>m, <3>1, HeadTailProperties
    <3>3. Head(first) \in S /\ Head(first).id \in Nat /\ Tail(first) \in Seq(S)
      BY <2>0, <3>2, HeadTailProperties DEF Queues
    <3>4. /\ Ascends(first, redelivered) /\ Flows(later, redelivered)
          /\ Earlier(Ids(first), IdsOf(later), redelivered)
      <4>1. Flows(events, redelivered)
        BY DEF InOrder
      <4> QED
        BY <2>t, <3>1, <3>2, <4>1, OrderKept
    <3>5. IdsOf(events) = Ids(first) \cup IdsOf(later)
      BY <2>t, <3>1, IdsOfQueues
    <3> HIDE DEF first, later
    <3>6. Ids(first) = {Head(first).id} \cup Ids(Tail(first))
      BY <3>2, IdsOfMessages
    <3>7. /\ Ascends(Tail(first), redelivered)
          /\ Earlier({Head(first).id}, Ids(Tail(first)), redelivered)
      BY <3>2, <3>4, OrderKept
    <3>8. Flows(events', redelivered) /\ IdsOf(events') = Ids(Tail(first)) \cup IdsOf(later)
      <4>1. CASE Len(first) = 1
        <5>1. Tail(first) = <<>>
          <6>1. Len(Tail(first)) = 0
            BY <3>2, <4>1, HeadTailProperties
          <6> QED
            BY <3>3, <6>1, EmptySeq
        <5> QED
          BY <2>e, <3>1, <3>4, <4>1, <5>1
      <4>2. CASE Len(first) # 1
        <5>1. Tail(first) \in Messages(S)
          <6>1. Len(Tail(first)) # 0
            BY <3>2, <4>2, HeadTailProperties
          <6> QED
            BY <2>m, <3>3, <6>1, EmptySeq
        <5>2. events' = <<Tail(first)>> \o later
          BY <3>1, <4>2
        <5>3. IdsOf(<<Tail(first)>> \o later) = Ids(Tail(first)) \cup IdsOf(later)
          <6>1. \A m \in Messages(S) : IdsOf(<<m>> \o later) = Ids(m) \cup IdsOf(later)
            BY <3>2, IdsOfQueues
          <6> QED
            BY <5>1, <6>1
        <5>4. Earlier(Ids(Tail(first)), IdsOf(later), redelivered)
          BY <3>4, <3>6 DEF Earlier
        <5>5. Flows(<<Tail(first)>> \o later, redelivered)
          BY <3>2, <3>4, <3>7, <5>1, <5>4, OrderKept
        <5> QED
          BY <5>2, <5>3, <5>5
      <4> QED
        BY <4>1, <4>2
    <3>9. /\ Len(received) \in Nat /\ DOMAIN received = 1 .. Len(received)
          /\ DOMAIN received' = 1 .. Len(received) + 1
          /\ \A i \in 1 .. Len(received) : received'[i] = received[i]
          /\ received'[Len(received) + 1] = Head(first).id
      BY <3>1, <3>3, AppendProperties DEF Accounted
    <3>10. Range(received') = Range(received) \cup {Head(first).id}
      BY <3>9 DEF Range
    <3>11. Earlier(Range(received), {Head(first).id}, redelivered)
      BY <3>5, <3>6 DEF InOrder, Earlier
    <3>12. ControlsArriveInOrder'
      <4>1. SUFFICES ASSUME NEW i \in 1 .. Len(received) + 1, NEW j \in 1 .. Len(received) + 1, i < j
                     PROVE  \/ received'[i] < received'[j]
                            \/ {received'[i], received'[j]} \cap redelivered # {}
        BY <3>1, <3>9 DEF ControlsArriveInOrder
      <4>2. i \in DOMAIN received /\ received'[i] = received[i] /\ received[i] \in Range(received)
        BY <3>9, <4>1 DEF Range
      <4>3. CASE j \in DOMAIN received
        BY <3>9, <4>1, <4>2, <4>3 DEF InOrder, ControlsArriveInOrder
      <4>4. CASE j = Len(received) + 1
        BY <3>9, <3>11, <4>2, <4>4 DEF Earlier
      <4> QED
        BY <3>9, <4>3, <4>4
    <3>13. IdsOf(events') \subseteq IdsOf(events)
      BY <3>5, <3>6, <3>8
    <3>14. \A id \in IdsOf(events') \ redelivered :
             Head(first).id \in redelivered \/ Head(first).id < id
      BY <3>4, <3>6, <3>7, <3>8 DEF Earlier
    <3>15. Earlier(Range(received'), IdsOf(events') \cup IdsOf(upstream) \cup Ids(sending)
                                        \cup Ids(controls), redelivered)
      BY <3>5, <3>6, <3>10, <3>13, <3>14 DEF InOrder, Earlier
    <3>16. Earlier(IdsOf(events'), IdsOf(upstream) \cup Ids(sending) \cup Ids(controls), redelivered)
      BY <3>13 DEF InOrder, Earlier
    <3> QED
      BY <3>1, <3>8, <3>12, <3>15, <3>16 DEF InOrder
  <2>8. CASE \/ Connect \/ ClientDrops \/ ReceiveDisplay \/ ExecutionEnds \/ Greet
             \/ WatchdogTick \/ UNCHANGED vars
    <3>1. UNCHANGED <<controls, sending, upstream, events, received, redelivered>>
      BY <2>8 DEF Connect, ClientDrops, ReceiveDisplay, ApplyDisplay, ExecutionEnds, Greet,
                  WatchdogTick, vars, clientVars, queueVars, linkVars, bridgeVars, historyVars
    <3> QED
      BY <3>1 DEF InOrder, ControlsArriveInOrder
  <2>9. CASE SendUnread
    <3>1. sending' = <<>> /\ UNCHANGED <<controls, upstream, events, received, redelivered>>
      BY <2>9 DEF SendUnread, clientVars, queueVars, bridgeVars
    <3> QED
      BY <2>e, <2>o, <3>1 DEF InOrder, ControlsArriveInOrder, Earlier
  <2> QED
    BY <2>1, <2>2, <2>3, <2>4, <2>5, <2>6, <2>7, <2>8, <2>9 DEF Next
<1>3. InOrder => ControlsArriveInOrder
  BY DEF InOrder
<1> QED
  BY <1>1, <1>2, <1>3, ControlsAccounted, PTL DEF Spec
-------------------------------------------------------------------------------
(* Which recipe an execution runs.                                         *)

UnderWay == Ids(controls) \cup Ids(sending) \cup IdsOf(upstream) \cup IdsOf(events)

Changing(control) == control.does.action \in {"load_recipe", "clear_recipe"}
RecipeAfter(control) == IF control.does.action = "load_recipe" THEN control.does.name ELSE "none"

\* Nothing has happened yet that excuses an execution of something else.
Clean == ~loadFailed /\ ~lateAnswer /\ ~earlyAnswer /\ redelivered = {}

\* Every number was given once.
WereIssued(S) ==
    \A c, d \in S :
        /\ c.id <= issued /\ (c.id = d.id => c = d)
        /\ c.does.action \in {"load_recipe", "clear_recipe", "execute_recipe"} \cup OtherActions

\* expect[n] is the recipe the bridge will have loaded once it has handled the
\* controls up to number n, or none, for a plane that was set discards it. Only
\* a control still under way changes it, and an Execute was issued for it.
Expected(S, expect) ==
    /\ \A c \in S : c.id \in UnderWay =>
          /\ Changing(c) => expect[c.id] = RecipeAfter(c)
          /\ c.does.action = "execute_recipe" => expect[c.id] \in {c.does.shown, "none"}
    /\ \A j, k \in HandledUpTo .. issued :
          j <= k /\ expect[j] # expect[k] =>
             \E c \in S : c.id \in UnderWay /\ Changing(c) /\ j < c.id /\ c.id <= k
    /\ loadedRecipe \in {expect[HandledUpTo], "none"}

\* The display states, those in transit and the client's last one, in order.
Shown(D, expect) ==
    /\ downstream \in Seq(D) /\ display \in D
    /\ \A d \in D : /\ d.upTo \in Nat /\ d.upTo <= HandledUpTo
                    /\ d.preview \in {expect[d.upTo], "none"}
    /\ \A i, j \in DOMAIN downstream : i <= j => downstream[i].upTo <= downstream[j].upTo
    /\ \A i \in DOMAIN downstream : display.upTo <= downstream[i].upTo

\* The client awaits what the bridge will load, and gives up waiting only for a
\* display made after the load it asked for last.
Guessed(expect) ==
    /\ awaited \in Nat /\ awaited <= issued
    /\ recipePending # "none" => expect[issued] = recipePending
    /\ expect[issued] # "none" =>
          /\ \A k \in awaited .. issued : expect[k] = expect[issued]
          /\ recipePending = "none" => display.upTo >= awaited

Foresees(S, D, expect) ==
    Queues(S) /\ WereIssued(S) /\ Expected(S, expect) /\ Shown(D, expect) /\ Guessed(expect)

Foreseen == Clean => ~ranOther /\ \E S, D, expect : Foresees(S, D, expect)

\* The last control handled is one that was issued, or there is none.
LEMMA HandledIsIssued ==
    ASSUME Accounted
    PROVE  /\ HandledUpTo \in Nat /\ HandledUpTo <= issued
           /\ HandledUpTo = 0 \/ HandledUpTo \in Range(received)
<1>1. CASE received = <<>>
  BY <1>1 DEF HandledUpTo, Accounted
<1>2. CASE received # <<>>
  <2>1. Len(received) \in DOMAIN received /\ HandledUpTo = received[Len(received)]
    BY <1>2, EmptySeq DEF HandledUpTo, Last, Accounted
  <2>2. HandledUpTo \in Range(received) /\ HandledUpTo \in Nat
    BY <2>1 DEF Range, Accounted
  <2>3. HandledUpTo \in 1 .. issued
    BY <2>2 DEF Accounted, NoControlForgotten
  <2> QED
    BY <2>2, <2>3 DEF Accounted
<1> QED
  BY <1>1, <1>2

\* What the operator sees of the recipe is what will be loaded, if anything.
LEMMA ShownIsExpected ==
    ASSUME Accounted, NEW S, NEW D, NEW expect, Foresees(S, D, expect), RecipeLoaded # "none"
    PROVE  expect[issued] \in {RecipeLoaded, "none"}
<1>1. CASE recipePending # "none"
  BY <1>1 DEF Foresees, Guessed, RecipeLoaded
<1>2. CASE recipePending = "none"
  <2>1. RecipeLoaded = display.preview
    BY <1>2 DEF RecipeLoaded
  <2>2. /\ display.upTo \in Nat /\ display.upTo <= HandledUpTo
        /\ display.preview \in {expect[display.upTo], "none"}
    BY DEF Foresees, Shown
  <2>3. CASE expect[issued] # "none"
    <3>1. display.upTo \in awaited .. issued
      <4>1. display.upTo >= awaited
        BY <1>2, <2>3 DEF Foresees, Guessed
      <4> QED
        BY <2>2, <4>1, HandledIsIssued DEF Foresees, Guessed, Accounted
    <3>2. expect[display.upTo] = expect[issued]
      BY <2>3, <3>1 DEF Foresees, Guessed
    <3> QED
      BY <2>1, <2>2, <3>2
  <2> QED
    BY <2>3
<1> QED
  BY <1>1, <1>2

\* Controls other than loads and clearings may get lost.
LEMMA OthersMayGo ==
    ASSUME NEW S, NEW expect, Expected(S, expect), UnderWay' \subseteq UnderWay,
           UNCHANGED <<issued, received, loadedRecipe>>,
           \A c \in S : c.id \in UnderWay /\ c.id \notin UnderWay' => ~Changing(c)
    PROVE  Expected(S, expect)'
BY DEF Expected, HandledUpTo, Changing, RecipeAfter

\* A display state made now may follow those in transit.
LEMMA DisplayPushed ==
    ASSUME NEW D, NEW expect, Shown(D, expect), HandledUpTo \in Nat, HandledUpTo' \in Nat,
           HandledUpTo <= HandledUpTo', loadedRecipe' \in {expect[HandledUpTo'], "none"},
           UNCHANGED display, PushDisplay \/ UNCHANGED downstream
    PROVE  \E E : Shown(E, expect)'
<1> PICK state : state = DisplayState'
  OBVIOUS
<1>1. state.upTo = HandledUpTo' /\ state.preview = loadedRecipe'
  BY DEF DisplayState
<1> DEFINE E == D \cup {state}
<1>2. /\ downstream \in Seq(E) /\ state \in E /\ display \in E
  BY SeqMonotonic DEF Shown
<1>3. \A d \in E : /\ d.upTo \in Nat /\ d.upTo <= HandledUpTo'
                   /\ d.preview \in {expect[d.upTo], "none"}
  BY <1>1 DEF Shown
<1>4. CASE downstream' = downstream
  BY <1>2, <1>3, <1>4 DEF Shown
<1>5. CASE downstream' = Append(downstream, state)
  <2>1. /\ downstream' \in Seq(E)
        /\ DOMAIN downstream = 1 .. Len(downstream) /\ DOMAIN downstream' = 1 .. Len(downstream) + 1
        /\ \A i \in DOMAIN downstream : downstream'[i] = downstream[i]
        /\ downstream'[Len(downstream) + 1] = state
    BY <1>2, <1>5, AppendProperties
  <2>2. \A i \in DOMAIN downstream : downstream[i].upTo \in Nat /\ downstream[i].upTo <= state.upTo
    <3>1. \A i \in DOMAIN downstream : downstream[i] \in D
      BY DEF Shown
    <3> QED
      BY <1>1, <3>1 DEF Shown
  <2>3. display.upTo <= state.upTo /\ state.upTo <= state.upTo
    BY <1>1 DEF Shown
  <2>4. ASSUME NEW i \in DOMAIN downstream', NEW j \in DOMAIN downstream', i <= j
        PROVE  downstream'[i].upTo <= downstream'[j].upTo
    <3>1. CASE j \in DOMAIN downstream
      <4>1. i \in DOMAIN downstream
        BY <2>1, <2>4, <3>1
      <4> QED
        BY <2>1, <2>4, <3>1, <4>1 DEF Shown
    <3>2. CASE j = Len(downstream) + 1
      <4>1. i \in DOMAIN downstream \/ i = Len(downstream) + 1
        BY <2>1
      <4> QED
        BY <2>1, <2>2, <2>3, <3>2, <4>1
    <3> QED
      BY <2>1, <3>1, <3>2
  <2>5. ASSUME NEW i \in DOMAIN downstream'
        PROVE  display.upTo <= downstream'[i].upTo
    <3>1. i \in DOMAIN downstream \/ i = Len(downstream) + 1
      BY <2>1
    <3> QED
      BY <2>1, <2>3, <3>1 DEF Shown
  <2> HIDE DEF E
  <2> QED
    BY <1>2, <1>3, <2>1, <2>4, <2>5 DEF Shown
<1> QED
  BY <1>4, <1>5 DEF PushDisplay
\* The control just issued extends what is foreseen.
LEMMA IssueForeseen ==
    ASSUME Accounted, NEW S, NEW D, NEW expect, Foresees(S, D, expect),
           [Next]_vars, NEW new, NEW recipe, new.id = issued + 1, issued' = issued + 1,
           controls' = Append(controls, new),
           UNCHANGED <<sending, upstream, downstream, events, received, loadedRecipe, display>>,
           recipe = IF Changing(new) THEN RecipeAfter(new) ELSE expect[issued],
           Changing(new) \/ new.does.action \in {"execute_recipe"} \cup OtherActions,
           new.does.action = "execute_recipe" => recipe \in {new.does.shown, "none"},
           awaited' \in Nat, awaited' <= issued', recipePending' # "none" => recipe = recipePending',
           recipe # "none" =>
              \/ awaited' = issued' /\ recipePending' # "none"
              \/ recipe = expect[issued] /\ UNCHANGED <<awaited, recipePending>>
    PROVE  \E T, E, next : Foresees(T, E, next)'
<1> PICK number : number = issued + 1
  OBVIOUS
<1> DEFINE T == S \cup {new}
<1> DEFINE next == [k \in Nat |-> IF k = number THEN recipe ELSE expect[k]]
<1>0. issued \in Nat /\ number \in Nat /\ HandledUpTo \in Nat /\ HandledUpTo <= issued
  BY HandledIsIssued DEF Accounted
<1>1. next[number] = recipe /\ \A k \in 0 .. issued : next[k] = expect[k]
  BY <1>0
<1>2. new \in T /\ \A c \in T : c \in S \/ c = new
  OBVIOUS
<1>3. Queues(T)'
  <2>1. Queues(S)
    BY DEF Foresees
  <2> QED
    BY <1>0, <2>1, QueuesStay
<1>4. UnderWay' = UnderWay \cup {number}
  <2>1. controls \in Seq(T)
    BY SeqMonotonic DEF Foresees, Queues
  <2>2. Ids(Append(controls, new)) = Ids(controls) \cup {new.id}
    BY <1>2, <2>1, IdsOfMessages
  <2> QED
    BY <2>2 DEF UnderWay
<1>5. UnderWay \subseteq 0 .. issued
  BY <1>0 DEF Accounted, NoControlForgotten, UnderWay
<1> HIDE DEF T, next
<1>6. WereIssued(T)'
  <2>1. \A c \in S : c.id \in Nat /\ c.id <= issued
    BY DEF Foresees, WereIssued, Queues
  <2> QED
    BY <1>0, <1>2, <2>1 DEF Foresees, WereIssued, Changing
<1>7. HandledUpTo' = HandledUpTo
  BY DEF HandledUpTo
<1>8. Expected(T, next)'
  <2>e. Expected(S, expect) /\ \A c \in S : c.id \in Nat /\ c.id <= issued
    BY DEF Foresees, Queues, WereIssued
  <2>1. ASSUME NEW c \in T, c.id \in UnderWay'
        PROVE  /\ Changing(c) => next[c.id] = RecipeAfter(c)
               /\ c.does.action = "execute_recipe" => next[c.id] \in {c.does.shown, "none"}
    <3>1. CASE c \in S
      <4>1. c.id \in UnderWay /\ c.id \in 0 .. issued
        BY <1>0, <1>4, <2>1, <2>e, <3>1
      <4>2. next[c.id] = expect[c.id]
        BY <1>1, <4>1
      <4> QED
        BY <2>e, <3>1, <4>1, <4>2 DEF Expected
    <3>2. CASE c = new
      BY <1>1, <3>2
    <3> QED
      BY <1>2, <2>1, <3>1, <3>2
  <2>2. ASSUME NEW j \in HandledUpTo .. number, NEW k \in HandledUpTo .. number,
               j <= k, next[j] # next[k]
        PROVE  \E c \in T : c.id \in UnderWay' /\ Changing(c) /\ j < c.id /\ c.id <= k
    <3>1. j # k /\ j \in 0 .. issued /\ j \in HandledUpTo .. issued /\ next[j] = expect[j]
      BY <1>0, <1>1, <2>2
    <3>2. ASSUME NEW l \in HandledUpTo .. issued, j <= l, l <= k, expect[j] # expect[l]
          PROVE  \E c \in T : c.id \in UnderWay' /\ Changing(c) /\ j < c.id /\ c.id <= k
      <4>1. PICK c \in S : c.id \in UnderWay /\ Changing(c) /\ j < c.id /\ c.id <= l
        BY <2>e, <3>1, <3>2 DEF Expected
      <4>2. c \in T /\ c.id \in UnderWay' /\ c.id <= k
        BY <1>0, <1>4, <2>2, <2>e, <3>2, <4>1 DEF T
      <4> QED
        BY <4>1, <4>2
    <3>3. CASE k # number
      <4>1. k \in HandledUpTo .. issued /\ next[k] = expect[k]
        BY <1>0, <1>1, <2>2, <3>3
      <4> QED
        BY <1>0, <2>2, <3>1, <3>2, <4>1
    <3>4. CASE k = number /\ ~Changing(new)
      <4>1. next[k] = expect[issued]
        BY <1>1, <3>4
      <4>2. issued \in HandledUpTo .. issued /\ j <= issued /\ issued <= k
        BY <1>0, <3>1, <3>4
      <4> QED
        BY <2>2, <3>1, <3>2, <4>1, <4>2
    <3>5. CASE k = number /\ Changing(new)
      BY <1>0, <1>2, <1>4, <2>2, <3>1, <3>5
    <3> QED
      BY <3>3, <3>4, <3>5
  <2>3. loadedRecipe \in {next[HandledUpTo], "none"}
    BY <1>0, <1>1, <2>e DEF Expected
  <2>4. \A c \in T : /\ (c.id \in UnderWay)' <=> c.id \in UnderWay'
                     /\ Changing(c)' <=> Changing(c)
                     /\ RecipeAfter(c)' = RecipeAfter(c)
    BY DEF Changing, RecipeAfter
  <2>5. issued' = number
    OBVIOUS
  <2> HIDE DEF UnderWay, HandledUpTo, Changing, RecipeAfter
  <2> QED
    BY <1>7, <2>1, <2>2, <2>3, <2>4, <2>5 DEF Expected
<1>9. Shown(D, next)'
  <2>1. \A d \in D : d.upTo \in 0 .. issued /\ next[d.upTo] = expect[d.upTo]
    <3>1. \A d \in D : d.upTo \in Nat /\ d.upTo <= HandledUpTo
      BY DEF Foresees, Shown
    <3> QED
      BY <1>0, <1>1, <3>1
  <2> QED
    BY <1>7, <2>1 DEF Foresees, Shown
<1>10. Guessed(next)'
  <2>1. next[issued'] = recipe /\ issued' = number
    BY <1>1
  <2>2. ASSUME recipe # "none"
        PROVE  /\ \A k \in awaited' .. issued' : next[k] = recipe
               /\ recipePending' = "none" => display'.upTo >= awaited'
    <3>1. CASE awaited' = issued' /\ recipePending' # "none"
      <4>1. \A k \in awaited' .. issued' : k = number
        BY <1>0, <3>1
      <4> QED
        BY <1>1, <3>1, <4>1
    <3>2. CASE recipe = expect[issued] /\ UNCHANGED <<awaited, recipePending>>
      <4>1. /\ \A k \in awaited .. issued : expect[k] = expect[issued]
            /\ recipePending = "none" => display.upTo >= awaited
        BY <2>2, <3>2 DEF Foresees, Guessed
      <4>2. ASSUME NEW k \in awaited .. number
            PROVE  next[k] = recipe
        <5>1. CASE k = number
          BY <1>1, <5>1
        <5>2. CASE k # number
          <6>1. k \in awaited .. issued /\ k \in 0 .. issued
            BY <1>0, <3>2, <4>2, <5>2
          <6> QED
            BY <1>1, <3>2, <4>1, <6>1
        <5> QED
          BY <5>1, <5>2
      <4> QED
        BY <2>1, <3>2, <4>1, <4>2
    <3> QED
      BY <2>2, <3>1, <3>2
  <2> QED
    BY <2>1, <2>2 DEF Guessed
<1>11. Foresees(T, D, next)'
  BY <1>3, <1>6, <1>8, <1>9, <1>10 DEF Foresees
<1> QED
  BY <1>11
\* Execute runs the recipe the canvas showed when it was pressed, whatever else
\* the operator asks for and however the display states and the controls race:
\* only a load that failed or that no own preview answered, a lost load or
\* clearing, and a message delivered twice excuse another (recipe_loaded,
\* apply_state, _on_load_recipe, _on_execute_recipe).
THEOREM ExecutesWhatIsShown == Spec => []ExecuteRunsWhatIsShown
<1>1. Init => Foreseen
  <2> SUFFICES ASSUME Init PROVE Foreseen
    OBVIOUS
  <2> DEFINE expect == [k \in Nat |-> loadedRecipe]
  <2>1. /\ controls = <<>> /\ sending = <<>> /\ upstream = <<>> /\ downstream = <<>> /\ events = <<>>
        /\ issued = 0 /\ received = <<>> /\ awaited = 0 /\ recipePending = "none"
        /\ display = Nothing /\ ~ranOther
    BY DEF Init, ClientInit
  <2>2. HandledUpTo = 0 /\ \A k \in 0 .. 0 : k = 0 /\ expect[k] = loadedRecipe
    BY <2>1 DEF HandledUpTo
  <2>3. Nothing.upTo = 0 /\ Nothing.preview = "none" /\ expect[0] = loadedRecipe
    BY DEF Nothing
  <2> HIDE DEF expect
  <2>4. Queues({}) /\ WereIssued({})
    BY <2>1, EmptySeq DEF Queues, WereIssued
  <2>5. Expected({}, expect)
    BY <2>1, <2>2, <2>3 DEF Expected
  <2>6. Shown({Nothing}, expect)
    BY <2>1, <2>2, <2>3, EmptySeq DEF Shown
  <2>7. Guessed(expect)
    BY <2>1, <2>2, <2>3 DEF Guessed
  <2>8. Foresees({}, {Nothing}, expect)
    BY <2>4, <2>5, <2>6, <2>7 DEF Foresees
  <2> QED
    BY <2>1, <2>8 DEF Foreseen
<1>2. Accounted /\ InOrder /\ InOrder' /\ Foreseen /\ [Next]_vars => Foreseen'
  <2> SUFFICES ASSUME Accounted, InOrder, InOrder', Foreseen, [Next]_vars, Clean'
               PROVE  ~ranOther' /\ \E S, D, expect : Foresees(S, D, expect)'
    BY DEF Foreseen
  <2>c. Clean
    <3>1. CASE ClientStep /\ UNCHANGED <<linkVars, bridgeVars, historyVars>>
      BY <3>1, OperatorIssues DEF Clean, historyVars
    <3>2. CASE Snapshot \/ Send \/ SendRaises \/ ClientDrops \/ Connect \/ UNCHANGED vars
      BY <3>2 DEF Snapshot, Send, SendRaises, ClientDrops, Connect, vars, Clean, clientVars,
                  historyVars, recipeVars
    <3>3. CASE ReceiveDisplay
      BY <3>3 DEF ReceiveDisplay, ApplyDisplay, Clean, historyVars
    <3>4. CASE ReceiveInput \/ SendUnread \/ SessionCloses
      <4>1. /\ loadFailed => loadFailed'
            /\ UNCHANGED <<lateAnswer, earlyAnswer, redelivered>>
        BY <3>4 DEF ReceiveInput, SendUnread, SessionCloses, clientVars, recipeVars
      <4> QED
        BY <4>1 DEF Clean
    <3>5. CASE HandleControl
      BY <3>5 DEF HandleControl, Clean, clientVars, recipeVars
    <3>6. CASE ExecutionEnds \/ Greet \/ WatchdogTick
      <4>1. UNCHANGED <<loadFailed, lateAnswer, earlyAnswer, redelivered>>
        BY <3>6 DEF ExecutionEnds, Greet, WatchdogTick, clientVars, historyVars, recipeVars
      <4> QED
        BY <4>1 DEF Clean
    <3> QED
      BY <3>1, <3>2, <3>3, <3>4, <3>5, <3>6 DEF Next
  <2>0. PICK S, D, expect : Foresees(S, D, expect)
    BY <2>c DEF Foreseen
  <2>r. ~ranOther
    BY <2>c DEF Foreseen
  <2>n. /\ issued \in Nat /\ HandledUpTo \in Nat /\ HandledUpTo <= issued
        /\ UnderWay \subseteq 1 .. issued
    BY HandledIsIssued DEF Accounted, NoControlForgotten, UnderWay
  <2>f. /\ Queues(S) /\ WereIssued(S) /\ Expected(S, expect)
        /\ Shown(D, expect) /\ Guessed(expect)
    BY <2>0 DEF Foresees
  <2>q. ASSUME UNCHANGED issued
        PROVE  Queues(S)' /\ WereIssued(S)'
    BY <2>f, <2>n, <2>q, QueuesStay DEF WereIssued
  <2>1. CASE ClientStep /\ UNCHANGED <<linkVars, bridgeVars, historyVars>>
    <3>1. UNCHANGED <<sending, upstream, downstream, events, received, loadedRecipe, ranOther, display>>
      BY <2>1, OperatorIssues DEF linkVars, bridgeVars, historyVars
    <3>2. CASE UNCHANGED <<controls, issued>>
      <4>1. UNCHANGED <<awaited, recipePending>>
        BY <2>1, <2>n, <3>2, OperatorIssues DEF Clean, recipeVars
      <4>2. Expected(S, expect)' /\ Shown(D, expect)' /\ Guessed(expect)'
        BY <2>f, <3>1, <3>2, <4>1
           DEF Expected, Shown, Guessed, UnderWay, HandledUpTo, Changing, RecipeAfter
      <4> QED
        BY <2>q, <2>r, <3>1, <3>2, <4>2 DEF Foresees
    <3>3. CASE issued' = issued + 1
      <4>1. PICK control :
              /\ controls' = Append(controls, [id |-> issued + 1, does |-> control])
              /\ \/ /\ control.action \in OtherActions
                    /\ UNCHANGED recipeVars
                 \/ /\ control.action = "execute_recipe" /\ RecipeLoaded # "none"
                    /\ control.shown = RecipeLoaded
                    /\ UNCHANGED recipeVars
                 \/ /\ control.action = "clear_recipe" /\ recipePending' = "none"
                    /\ UNCHANGED <<awaited, lateAnswer, earlyAnswer>>
                 \/ /\ control.action = "load_recipe" /\ recipePending' = control.name
                    /\ awaited' = issued'
                    /\ UNCHANGED <<lateAnswer, earlyAnswer>>
        BY <2>1, <2>n, <3>3, OperatorIssues
      <4> DEFINE new == [id |-> issued + 1, does |-> control]
      <4>2. new.id = issued + 1 /\ new.does = control /\ controls' = Append(controls, new)
        BY <4>1
      <4> HIDE DEF new
      <4>3. PICK recipe : recipe = IF Changing(new) THEN RecipeAfter(new) ELSE expect[issued]
        OBVIOUS
      <4>g. /\ awaited \in Nat /\ awaited <= issued
            /\ recipePending # "none" => expect[issued] = recipePending
        BY <2>f DEF Guessed
      <4>4. /\ Changing(new) \/ new.does.action \in {"execute_recipe"} \cup OtherActions
            /\ new.does.action = "execute_recipe" => recipe \in {new.does.shown, "none"}
            /\ awaited' \in Nat /\ awaited' <= issued'
            /\ recipePending' # "none" => recipe = recipePending'
            /\ recipe # "none" =>
                 \/ awaited' = issued' /\ recipePending' # "none"
                 \/ recipe = expect[issued] /\ UNCHANGED <<awaited, recipePending>>
        <5>1. CASE /\ control.action \in OtherActions
                   /\ UNCHANGED recipeVars
          BY <2>n, <3>3, <4>2, <4>3, <4>g, <5>1 DEF Changing, recipeVars, OtherActions
        <5>2. CASE /\ control.action = "execute_recipe" /\ RecipeLoaded # "none"
                   /\ control.shown = RecipeLoaded
                   /\ UNCHANGED recipeVars
          <6>1. recipe = expect[issued] /\ recipe \in {RecipeLoaded, "none"}
            BY <2>0, <4>2, <4>3, <5>2, ShownIsExpected DEF Changing
          <6> QED
            BY <2>n, <3>3, <4>2, <4>g, <5>2, <6>1 DEF recipeVars
        <5>3. CASE /\ control.action = "clear_recipe" /\ recipePending' = "none"
                   /\ UNCHANGED <<awaited, lateAnswer, earlyAnswer>>
          BY <2>n, <3>3, <4>2, <4>3, <4>g, <5>3 DEF Changing, RecipeAfter
        <5>4. CASE /\ control.action = "load_recipe" /\ recipePending' = control.name
                   /\ awaited' = issued'
          BY <2>n, <3>3, <4>2, <4>3, <5>4 DEF Changing, RecipeAfter
        <5> QED
          BY <4>1, <5>1, <5>2, <5>3, <5>4
      <4>5. \E T, E, next : Foresees(T, E, next)'
        BY <2>0, <3>1, <3>3, <4>2, <4>3, <4>4, IssueForeseen
      <4> QED
        BY <2>r, <3>1, <4>5
    <3> QED
      BY <2>1, <3>2, <3>3, OperatorIssues
  <2>2. ASSUME UNCHANGED <<issued, received, loadedRecipe, recipePending, awaited, display, ranOther>>,
               downstream' \in {downstream, <<>>}, UnderWay' \subseteq UnderWay,
               \A c \in S : c.id \in UnderWay /\ c.id \notin UnderWay' => ~Changing(c)
        PROVE  ~ranOther' /\ \E T, E, next : Foresees(T, E, next)'
    <3>1. Expected(S, expect)'
      BY <2>2, <2>f, OthersMayGo
    <3>2. Guessed(expect)'
      BY <2>2, <2>f DEF Guessed
    <3>3. Shown(D, expect)'
      <4>1. HandledUpTo' = HandledUpTo
        BY <2>2 DEF HandledUpTo
      <4>2. CASE downstream' = downstream
        BY <2>2, <2>f, <4>1, <4>2 DEF Shown
      <4>3. CASE downstream' = <<>>
        BY <2>2, <2>f, <4>1, <4>3, EmptySeq DEF Shown
      <4> QED
        BY <2>2, <4>2, <4>3
    <3> QED
      BY <2>2, <2>q, <2>r, <3>1, <3>2, <3>3 DEF Foresees
  <2>m. ASSUME NEW m \in Messages(S), ~ChangesRecipe(m), NEW c \in S, c.id \in Ids(m)
        PROVE  ~Changing(c)
    <3>1. m \in Seq(S)
      BY <2>m DEF Messages
    <3>2. PICK i \in DOMAIN m : c.id = m[i].id
      BY <2>m DEF Ids
    <3>3. m[i] = c
      BY <2>f, <3>1, <3>2 DEF WereIssued
    <3> QED
      BY <2>m, <3>2, <3>3 DEF ChangesRecipe, Changing
  <2>k. \A m : m \in Messages(S) <=> m \in Seq(S) /\ m # <<>>
    BY DEF Messages
  <2>e. Ids(<<>>) = {} /\ IdsOf(<<>>) = {}
    BY DEF Ids, IdsOf
  <2>t. /\ controls \in Seq(S) /\ sending \in Seq(S)
        /\ upstream \in Seq(Messages(S)) /\ events \in Seq(Messages(S))
    BY <2>f DEF Queues
  <2>3. CASE Snapshot
    <3>1. /\ sending = <<>> /\ sending' = controls /\ controls' = <<>>
          /\ UNCHANGED <<upstream, events, issued, received, loadedRecipe, recipePending, awaited,
                         display, ranOther, downstream>>
      BY <2>3 DEF Snapshot, recipeVars, bridgeVars, historyVars
    <3>2. UnderWay' = UnderWay
      BY <2>e, <3>1 DEF UnderWay
    <3> QED
      BY <2>2, <3>1, <3>2
  <2>4. CASE Send
    <3>1. /\ sending # <<>> /\ sending' = <<>> /\ upstream' = Append(upstream, sending)
          /\ UNCHANGED <<controls, events, issued, received, loadedRecipe, recipePending, awaited,
                         display, ranOther, downstream>>
      BY <2>4 DEF Send, clientVars, queueVars, recipeVars, bridgeVars, historyVars
    <3>2. IdsOf(upstream') = IdsOf(upstream) \cup Ids(sending)
      BY <2>k, <2>t, <3>1, IdsOfQueues
    <3>3. UnderWay' = UnderWay
      BY <2>e, <3>1, <3>2 DEF UnderWay
    <3> QED
      BY <2>2, <3>1, <3>3
  <2>5. CASE SendRaises
    <3>1. /\ sending # <<>> /\ sending' = <<>> /\ controls' = sending \o controls
          /\ upstream' = upstream \/ redelivered' = redelivered \cup Ids(sending)
          /\ UNCHANGED <<events, issued, received, loadedRecipe, recipePending, awaited,
                         display, ranOther, downstream>>
      BY <2>5 DEF SendRaises, Requeued, recipeVars, bridgeVars
    <3>2. Ids(sending) = {Head(sending).id} \cup Ids(Tail(sending))
      BY <2>t, <3>1, IdsOfMessages
    <3>3. upstream' = upstream
      BY <3>1, <3>2 DEF Clean
    <3>4. Ids(controls') = Ids(sending) \cup Ids(controls)
      BY <2>t, <3>1, IdsOfMessages
    <3>5. UnderWay' = UnderWay
      BY <2>e, <3>1, <3>3, <3>4 DEF UnderWay
    <3> QED
      BY <2>2, <3>1, <3>5
  <2>6. CASE ReceiveInput
    <3>1. /\ upstream # <<>> /\ upstream' = Tail(upstream)
          /\ \/ events' = Append(events, Head(upstream))
             \/ events' = events /\ ~ChangesRecipe(Head(upstream))
          /\ UNCHANGED <<controls, sending, issued, received, loadedRecipe, recipePending, awaited,
                         display, ranOther, downstream>>
      BY <2>6 DEF ReceiveInput, clientVars, queueVars, recipeVars, Clean
    <3>2. Head(upstream) \in Messages(S)
      BY <2>t, <3>1, HeadTailProperties
    <3>3. /\ IdsOf(upstream) = Ids(Head(upstream)) \cup IdsOf(upstream')
          /\ IdsOf(Append(events, Head(upstream))) = IdsOf(events) \cup Ids(Head(upstream))
      BY <2>t, <3>1, <3>2, IdsOfQueues
    <3>4. UnderWay' \subseteq UnderWay
      BY <3>1, <3>3 DEF UnderWay
    <3>5. ASSUME NEW c \in S, c.id \in UnderWay, c.id \notin UnderWay'
          PROVE  ~Changing(c)
      <4>1. events' = events /\ c.id \in Ids(Head(upstream))
        BY <3>1, <3>3, <3>5 DEF UnderWay
      <4>2. ~ChangesRecipe(Head(upstream))
        BY <3>1, <3>3, <3>5 DEF UnderWay
      <4> QED
        BY <2>m, <3>2, <4>1, <4>2
    <3> QED
      BY <2>2, <3>1, <3>4, <3>5
  <2>7. CASE SessionCloses
    <3>1. /\ upstream' = <<>> /\ downstream' = <<>>
          /\ \A message \in Range(upstream) : ~ChangesRecipe(message)
          /\ UNCHANGED <<controls, sending, events, issued, received, loadedRecipe, recipePending,
                         awaited, display, ranOther>>
      BY <2>7 DEF SessionCloses, clientVars, queueVars, recipeVars, bridgeVars, Clean
    <3>2. UnderWay' \subseteq UnderWay
      BY <2>e, <3>1 DEF UnderWay
    <3>3. ASSUME NEW c \in S, c.id \in UnderWay, c.id \notin UnderWay'
          PROVE  ~Changing(c)
      <4>1. c.id \in IdsOf(upstream)
        BY <3>1, <3>3 DEF UnderWay
      <4>2. PICK i \in DOMAIN upstream : c.id \in Ids(upstream[i])
        BY <4>1 DEF IdsOf
      <4>3. upstream[i] \in Messages(S) /\ upstream[i] \in Range(upstream)
        BY <2>t, <4>2 DEF Range
      <4> QED
        BY <2>m, <3>1, <4>2, <4>3
    <3> QED
      BY <2>2, <3>1, <3>2, <3>3
  <2>8. CASE HandleControl
    <3> DEFINE c == Head(Head(events))
    <3>1. PICK answer \in Answer(c.does) :
            /\ mode' = answer.mode /\ loadedRecipe' = answer.recipe
            /\ received' = Append(received, c.id)
            /\ ranOther' = (ranOther \/ (/\ c.does.action = "execute_recipe"
                                         /\ mode = "batch" /\ answer.mode = "executing"
                                         /\ c.does.shown # loadedRecipe))
            /\ loadFailed' = (loadFailed \/ (/\ c.does.action = "load_recipe"
                                             /\ answer.recipe # c.does.name))
      BY <2>8 DEF HandleControl
    <3>2. /\ PushDisplay
          /\ UNCHANGED <<controls, sending, upstream, issued, recipePending, awaited, display>>
      BY <2>8 DEF HandleControl, clientVars, queueVars, recipeVars
    <3>3. c \in S /\ c.id \in Nat /\ IdsOf(events) = {c.id} \cup IdsOf(events')
      BY <2>8, <2>f, FirstLeaves
    <3> HIDE DEF c
    <3>4. c.id \in UnderWay /\ UnderWay \subseteq {c.id} \cup UnderWay' /\ UnderWay' \subseteq UnderWay
      BY <3>2, <3>3 DEF UnderWay
    <3>5. HandledUpTo < c.id
      <4>1. Earlier(Range(received), IdsOf(events), redelivered) /\ redelivered = {}
        BY <2>c DEF InOrder, Earlier, Clean
      <4> QED
        BY <2>n, <3>3, <3>4, <4>1, HandledIsIssued DEF Earlier
    <3>6. \A id \in UnderWay : id = c.id \/ (id \in UnderWay' /\ c.id < id)
      <4>1. received \in Seq(Nat) /\ Append(received, c.id)[Len(received) + 1] = c.id
            /\ Len(received) + 1 \in DOMAIN Append(received, c.id)
        BY <3>3, AppendProperties DEF Accounted
      <4>2. c.id \in Range(received')
        BY <3>1, <4>1 DEF Range
      <4>3. Earlier(Range(received'), UnderWay', redelivered') /\ redelivered' = {}
        BY DEF InOrder, Earlier, UnderWay, Clean
      <4> QED
        BY <3>4, <4>2, <4>3 DEF Earlier
    <3>7. ~Changing(c) => expect[HandledUpTo] = expect[c.id]
      <4>1. SUFFICES ASSUME expect[HandledUpTo] # expect[c.id]
                     PROVE  Changing(c)
        OBVIOUS
      <4>u. c.id \in 1 .. issued
        BY <2>n, <3>4
      <4>2. c.id \in HandledUpTo .. issued /\ HandledUpTo \in HandledUpTo .. issued
        BY <2>n, <3>5, <4>u
      <4>3. PICK d \in S : d.id \in UnderWay /\ Changing(d) /\ HandledUpTo < d.id /\ d.id <= c.id
        BY <2>f, <3>5, <4>1, <4>2 DEF Expected
      <4>4. d.id = c.id
        <5>1. d.id \in 1 .. issued /\ (d.id = c.id \/ c.id < d.id)
          BY <2>n, <3>6, <4>3
        <5> QED
          BY <2>n, <4>u, <4>3, <5>1
      <4> QED
        BY <2>f, <3>3, <4>3, <4>4 DEF WereIssued
    <3>8. HandledUpTo' = c.id
      <4>1. /\ Append(received, c.id) # <<>>
            /\ Append(received, c.id)[Len(Append(received, c.id))] = c.id
        BY <3>3, AppendProperties DEF Accounted
      <4> QED
        BY <3>1, <4>1 DEF HandledUpTo, Last
    <3>e. /\ loadedRecipe \in {expect[HandledUpTo], "none"}
          /\ Changing(c) => expect[c.id] = RecipeAfter(c)
          /\ c.does.action = "execute_recipe" => expect[c.id] \in {c.does.shown, "none"}
      BY <2>f, <3>3, <3>4 DEF Expected
    <3>9. loadedRecipe' \in {expect[c.id], "none"}
      <4>1. CASE c.does.action = "load_recipe"
        BY <3>1, <3>e, <4>1 DEF Clean, Changing, RecipeAfter
      <4>2. CASE c.does.action = "clear_recipe"
        BY <3>1, <4>2 DEF Answer
      <4>3. CASE c.does.action \in {"execute_recipe"} \cup OtherActions
        <5>1. loadedRecipe' \in {loadedRecipe, "none"}
          <6>1. CASE c.does.action \in {"execute_recipe", "execute", "stop", "set_plane"}
            BY <3>1, <6>1 DEF Answer
          <6>2. CASE c.does.action = "reset"
            <7> DEFINE keep == [mode |-> mode, stopped |-> stopped, recipe |-> loadedRecipe]
            <7> DEFINE next == IF stopped /\ mode = "executing" THEN "batch" ELSE mode
            <7>1. answer \in {keep, [keep EXCEPT !.stopped = FALSE, !.mode = next]}
              BY <3>1, <6>2 DEF Answer
            <7> HIDE DEF next
            <7>2. [keep EXCEPT !.stopped = FALSE, !.mode = next].recipe = loadedRecipe
              OBVIOUS
            <7> QED
              BY <3>1, <7>1, <7>2
          <6>3. CASE c.does.action = "mode"
            BY <3>1, <6>3 DEF Answer
          <6> QED
            BY <4>3, <6>1, <6>2, <6>3 DEF OtherActions
        <5>2. ~Changing(c)
          BY <4>3 DEF Changing, OtherActions
        <5> QED
          BY <3>7, <3>e, <5>1, <5>2
      <4> QED
        BY <2>f, <3>3, <4>1, <4>2, <4>3 DEF WereIssued
    <3>10. ~ranOther'
      <4>1. SUFFICES ASSUME c.does.action = "execute_recipe", mode = "batch", answer.mode = "executing"
                     PROVE  c.does.shown = loadedRecipe
        BY <2>r, <3>1
      <4>2. loadedRecipe # "none"
        BY <3>1, <4>1 DEF Answer
      <4>3. ~Changing(c)
        BY <4>1 DEF Changing
      <4> QED
        BY <3>7, <3>e, <4>1, <4>2, <4>3
    <3>11. Expected(S, expect)'
      <4>1. ASSUME NEW j \in c.id .. issued, NEW k \in c.id .. issued, j <= k, expect[j] # expect[k]
            PROVE  \E d \in S : d.id \in UnderWay' /\ Changing(d) /\ j < d.id /\ d.id <= k
        <5>1. j \in HandledUpTo .. issued /\ k \in HandledUpTo .. issued
          BY <2>n, <3>3, <3>5, <4>1
        <5>2. PICK d \in S : d.id \in UnderWay /\ Changing(d) /\ j < d.id /\ d.id <= k
          BY <2>f, <4>1, <5>1 DEF Expected
        <5>3. d.id # c.id
          BY <3>3, <4>1, <5>2
        <5> QED
          BY <3>6, <5>2, <5>3
      <4> HIDE DEF UnderWay, HandledUpTo
      <4>2. \A d \in S : d.id \in UnderWay' =>
               /\ Changing(d) => expect[d.id] = RecipeAfter(d)
               /\ d.does.action = "execute_recipe" => expect[d.id] \in {d.does.shown, "none"}
        BY <2>f, <3>4 DEF Expected
      <4> QED
        BY <3>2, <3>8, <3>9, <4>1, <4>2 DEF Expected, Changing, RecipeAfter
    <3>12. Guessed(expect)'
      BY <2>f, <3>2 DEF Guessed
    <3>13. \E E : Shown(E, expect)'
      <4>1. HandledUpTo <= HandledUpTo' /\ HandledUpTo' \in Nat
        BY <2>n, <3>3, <3>5, <3>8
      <4>2. loadedRecipe' \in {expect[HandledUpTo'], "none"}
        BY <3>8, <3>9
      <4> QED
        BY <2>f, <2>n, <3>2, <4>1, <4>2, DisplayPushed
    <3> QED
      BY <2>q, <3>2, <3>10, <3>11, <3>12, <3>13 DEF Foresees
  <2>9. CASE ReceiveDisplay
    <3> DEFINE state == Head(downstream)
    <3>1. /\ downstream # <<>> /\ downstream' = Tail(downstream) /\ display' = state
          /\ recipePending' = IF state.preview = recipePending THEN "none" ELSE recipePending
          /\ earlyAnswer' = (earlyAnswer \/ (/\ recipePending # "none" /\ state.preview = recipePending
                                             /\ state.upTo < awaited))
          /\ UNCHANGED <<controls, issued, sending, upstream, events, awaited, received,
                         loadedRecipe, ranOther>>
      BY <2>9 DEF ReceiveDisplay, ApplyDisplay, queueVars, bridgeVars, historyVars
    <3>2. /\ downstream \in Seq(D) /\ display \in D
          /\ \A i, j \in DOMAIN downstream : i <= j => downstream[i].upTo <= downstream[j].upTo
          /\ \A i \in DOMAIN downstream : display.upTo <= downstream[i].upTo
          /\ \A d \in D : d.upTo \in Nat
      BY <2>f DEF Shown
    <3>3. /\ state \in D /\ 1 \in DOMAIN downstream /\ state = downstream[1]
          /\ Tail(downstream) \in Seq(D)
          /\ DOMAIN Tail(downstream) = 1 .. Len(downstream) - 1
          /\ DOMAIN downstream = 1 .. Len(downstream)
          /\ \A i \in 1 .. Len(downstream) - 1 : Tail(downstream)[i] = downstream[i + 1]
      BY <3>1, <3>2, EmptySeq, HeadTailProperties
    <3> HIDE DEF state
    <3>4. Shown(D, expect)'
      <4>1. ASSUME NEW i \in DOMAIN downstream', NEW j \in DOMAIN downstream', i <= j
            PROVE  downstream'[i].upTo <= downstream'[j].upTo
        <5>1. /\ i + 1 \in DOMAIN downstream /\ j + 1 \in DOMAIN downstream /\ i + 1 <= j + 1
              /\ downstream'[i] = downstream[i + 1] /\ downstream'[j] = downstream[j + 1]
          BY <3>1, <3>3, <4>1
        <5> QED
          BY <3>2, <5>1
      <4>2. ASSUME NEW i \in DOMAIN downstream'
            PROVE  display'.upTo <= downstream'[i].upTo
        <5>1. i + 1 \in DOMAIN downstream /\ 1 <= i + 1 /\ downstream'[i] = downstream[i + 1]
          BY <3>1, <3>3, <4>2
        <5> QED
          BY <3>1, <3>2, <3>3, <5>1
      <4>3. HandledUpTo' = HandledUpTo
        BY <3>1 DEF HandledUpTo
      <4> HIDE DEF HandledUpTo
      <4>4. \A d \in D : /\ d.upTo \in Nat /\ d.upTo <= HandledUpTo'
                         /\ d.preview \in {expect[d.upTo], "none"}
        BY <2>f, <4>3 DEF Shown
      <4> QED
        BY <3>1, <3>3, <4>1, <4>2, <4>4 DEF Shown
    <3>5. Guessed(expect)'
      <4>1. awaited \in Nat /\ display.upTo \in Nat /\ state.upTo \in Nat /\ display.upTo <= state.upTo
        BY <2>f, <3>2, <3>3 DEF Guessed
      <4>2. ASSUME expect[issued] # "none", recipePending' = "none"
            PROVE  state.upTo >= awaited
        <5>1. CASE recipePending = "none"
          BY <2>f, <4>1, <4>2, <5>1 DEF Guessed
        <5>2. CASE recipePending # "none"
          <6>1. state.preview = recipePending
            BY <3>1, <4>2, <5>2
          <6>2. ~(state.upTo < awaited)
            BY <3>1, <5>2, <6>1 DEF Clean
          <6> QED
            BY <4>1, <6>2
        <5> QED
          BY <5>1, <5>2
      <4> QED
        BY <2>f, <3>1, <4>2 DEF Guessed
    <3>6. Expected(S, expect)'
      <4>1. UnderWay' = UnderWay
        BY <3>1 DEF UnderWay
      <4> QED
        BY <2>f, <3>1, <4>1, OthersMayGo
    <3> QED
      BY <2>q, <2>r, <3>1, <3>4, <3>5, <3>6 DEF Foresees
  <2>10. CASE Connect \/ ClientDrops \/ ExecutionEnds \/ Greet \/ WatchdogTick \/ UNCHANGED vars
    <3>1. /\ UNCHANGED <<controls, issued, sending, upstream, events, awaited, recipePending, received,
                         loadedRecipe, ranOther, display>>
          /\ PushDisplay \/ UNCHANGED downstream
      BY <2>10 DEF Connect, ClientDrops, ExecutionEnds, Greet, WatchdogTick, vars, clientVars,
                   queueVars, recipeVars, linkVars, bridgeVars, historyVars
    <3>2. UnderWay' = UnderWay /\ HandledUpTo' = HandledUpTo
      BY <3>1 DEF UnderWay, HandledUpTo
    <3>3. Expected(S, expect)'
      BY <2>f, <3>1, <3>2, OthersMayGo
    <3>4. Guessed(expect)'
      BY <2>f, <3>1 DEF Guessed
    <3>5. \E E : Shown(E, expect)'
      <4>1. loadedRecipe' \in {expect[HandledUpTo'], "none"} /\ HandledUpTo <= HandledUpTo'
        BY <2>f, <2>n, <3>1, <3>2 DEF Expected
      <4> QED
        BY <2>f, <2>n, <3>1, <3>2, <4>1, DisplayPushed
    <3> QED
      BY <2>q, <2>r, <3>1, <3>3, <3>4, <3>5 DEF Foresees
  <2>11. CASE SendUnread
    <3>1. /\ sending # <<>> /\ sending' = <<>> /\ ~ChangesRecipe(sending)
          /\ UNCHANGED <<controls, upstream, downstream, events, issued, received, loadedRecipe,
                         recipePending, awaited, display, ranOther>>
      BY <2>11 DEF SendUnread, clientVars, queueVars, recipeVars, bridgeVars, Clean
    <3>2. UnderWay' \subseteq UnderWay
      BY <2>e, <3>1 DEF UnderWay
    <3>3. ASSUME NEW c \in S, c.id \in UnderWay, c.id \notin UnderWay'
          PROVE  ~Changing(c)
      <4>1. c.id \in Ids(sending)
        BY <3>1, <3>3 DEF UnderWay
      <4>2. sending \in Messages(S)
        BY <2>t, <3>1 DEF Messages
      <4> QED
        BY <2>m, <3>1, <4>1, <4>2
    <3> QED
      BY <2>2, <3>1, <3>2, <3>3
  <2> QED
    BY <2>1, <2>3, <2>4, <2>5, <2>6, <2>7, <2>8, <2>9, <2>10, <2>11 DEF Next
<1>3. Foreseen => ExecuteRunsWhatIsShown
  BY DEF Foreseen, Clean, ExecuteRunsWhatIsShown
<1> QED
  BY <1>1, <1>2, <1>3, ControlsAccounted, ControlsInOrder, PTL DEF Spec

-------------------------------------------------------------------------------
(* Folds over sequences, and the drawing that is submitted.               *)

\* Conditioned takes one point at a time (remove_duplicates).
Keeps(kept, p) == IF kept # <<>> /\ Last(kept) = p THEN kept ELSE Append(kept, p)

\* What is conditioned is a sequence of points still.
LEMMA ConditionedIsPoints ==
    ASSUME NEW s \in Seq(Points)
    PROVE  Conditioned(s) \in Seq(Points)
<1> DEFINE n == Len(s)
           A == Seq(Points)
           step == [a \in A |-> [i \in 1 .. n |-> Keeps(a, s[i])]]
           Folded(f) == f = [t \in SUBSET (1 .. n) |->
                               IF t = {} THEN <<>> ELSE Keeps(f[t \ {Max(t)}], s[Max(t)])]
<1>1. n \in Nat /\ DOMAIN s = 1 .. n /\ <<>> \in A
  BY LenProperties, EmptySeq
<1>2. \A a \in A, i \in 1 .. n : Keeps(a, s[i]) \in A
  BY ElementOfSeq, AppendProperties DEF Keeps
<1>3. step \in [A -> [1 .. n -> A]]
  <2> HIDE DEF A
  <2> QED
    BY <1>2
<1>4. PICK g : IsFold(g, n, A, <<>>, step)
  <2> HIDE DEF step, n, A
  <2> QED
    BY <1>1, <1>3, FoldExists
<1>5. Folded(g)
  <2>1. ASSUME NEW t \in SUBSET (1 .. n), t # {}
        PROVE  step[g[t \ {Max(t)}]][Max(t)] = Keeps(g[t \ {Max(t)}], s[Max(t)])
    <3>1. g[t \ {Max(t)}] \in A /\ Max(t) \in 1 .. n
      BY <1>1, <1>4, <2>1, LargestIsIn DEF IsFold
    <3> HIDE DEF A
    <3> QED
      BY <3>1
  <2> HIDE DEF step, A
  <2> QED
    BY <1>4, <2>1 DEF IsFold
<1> DEFINE f == CHOOSE f : Folded(f)
<1>6. Folded(f)
  <2> HIDE DEF Folded
  <2> QED
    BY <1>5
<1>7. Conditioned(s) = f[1 .. n]
  BY <1>1 DEF Conditioned, FoldLeft, MapThenFoldSet, Keeps
<1> HIDE DEF f
<1>8. f[1 .. 0] = <<>>
  BY <1>6
<1>9. ASSUME NEW i \in 1 .. n
      PROVE  f[1 .. i] = Keeps(f[1 .. i - 1], s[i])
  <2>1. /\ 1 .. i \in SUBSET (1 .. n) /\ 1 .. i # {}
        /\ Max(1 .. i) = i /\ (1 .. i) \ {i} = 1 .. i - 1
    BY <1>1, FoldOfPrefix
  <2>2. f[1 .. i] = Keeps(f[(1 .. i) \ {Max(1 .. i)}], s[Max(1 .. i)])
    BY <1>6, <2>1
  <2> QED
    BY <2>1, <2>2
<1> DEFINE T == {i \in 0 .. n : f[1 .. i] \in A}
<1>10. f[1 .. n] \in A
  <2>1. 0 \in T
    <3>1. 0 \in 0 .. n /\ f[1 .. 0] \in A
      BY <1>1, <1>8
    <3> QED
      BY <3>1
  <2>2. \A i \in 1 .. n : i - 1 \in T => i \in T
    <3>1. ASSUME NEW i \in 1 .. n, i - 1 \in T
          PROVE  i \in T
      <4>1. f[1 .. i - 1] \in A /\ i \in 0 .. n
        BY <1>1, <3>1
      <4> HIDE DEF A
      <4> QED
        BY <1>2, <1>9, <4>1
    <3> HIDE DEF T
    <3> QED
      BY <3>1
  <2> HIDE DEF T
  <2>3. n \in T
    <3>1. n \in 0 .. n
      BY <1>1
    <3> QED
      BY <1>1, <2>1, <2>2, <3>1, UpTo
  <2> QED
    BY <2>3 DEF T
<1> QED
  BY <1>7, <1>10

-------------------------------------------------------------------------------
\* The lines of one stroke.
Lines(s) == {{s[k], s[k + 1]} : k \in 1 .. Len(s) - 1}
Trails == Seq(Points) \ {<<>>}
Strokes == [points : Trails, chained : BOOLEAN]

\* A stroke that begins where another ends adds its own lines to it.
LEMMA JoinedLines ==
    ASSUME NEW a \in Trails, NEW b \in Trails, Head(b) = Last(a)
    PROVE  /\ a \o Tail(b) \in Trails /\ Last(a \o Tail(b)) = Last(b)
           /\ Lines(a \o Tail(b)) = Lines(a) \cup Lines(b)
<1> DEFINE c == a \o Tail(b)
<1>1. /\ a \in Seq(Points) /\ b \in Seq(Points) /\ Len(a) \in Nat /\ Len(b) \in Nat
      /\ Len(a) >= 1 /\ Len(b) >= 1 /\ Last(a) = a[Len(a)] /\ Last(b) = b[Len(b)] /\ Head(b) = b[1]
  BY EmptySeq DEF Trails, Last
<1>2. /\ Tail(b) \in Seq(Points) /\ Len(Tail(b)) = Len(b) - 1
      /\ \A k \in 1 .. Len(b) - 1 : Tail(b)[k] = b[k + 1]
  BY <1>1, EmptySeq, HeadTailProperties
<1>3. /\ c \in Seq(Points) /\ Len(c) = Len(a) + (Len(b) - 1)
      /\ \A k \in 1 .. Len(a) : c[k] = a[k]
      /\ \A k \in 1 .. Len(b) - 1 : c[Len(a) + k] = Tail(b)[k]
  <2>1. \A k \in 1 .. Len(b) - 1 : k \in 1 .. Len(Tail(b))
    BY <1>2
  <2> QED
    BY <1>1, <1>2, <2>1, ConcatProperties
<1> HIDE DEF c
<1>4. ASSUME NEW k \in 0 .. Len(b) - 1
      PROVE  c[Len(a) + k] = b[k + 1]
  <2>1. CASE k = 0
    BY <1>1, <1>3, <2>1
  <2>2. CASE k # 0
    BY <1>1, <1>2, <1>3, <2>2
  <2> QED
    BY <2>1, <2>2
<1>5. c \in Trails /\ Last(c) = Last(b)
  <2>1. Len(b) - 1 \in 0 .. Len(b) - 1 /\ Len(a) + (Len(b) - 1) = Len(c) /\ Len(c) >= 1
    BY <1>1, <1>3
  <2>2. c[Len(c)] = b[Len(b)]
    <3>1. (Len(b) - 1) + 1 = Len(b)
      BY <1>1
    <3> QED
      BY <1>4, <2>1, <3>1
  <2>3. c # <<>>
    BY <2>1, EmptySeq
  <2> QED
    BY <1>1, <1>3, <2>2, <2>3 DEF Trails, Last
<1>6. ASSUME NEW l \in Lines(c)
      PROVE  l \in Lines(a) \cup Lines(b)
  <2>1. PICK k \in 1 .. Len(c) - 1 : l = {c[k], c[k + 1]}
    BY <1>6 DEF Lines
  <2>2. CASE k < Len(a)
    <3>1. k \in 1 .. Len(a) - 1 /\ c[k] = a[k] /\ c[k + 1] = a[k + 1]
      BY <1>1, <1>3, <2>1, <2>2
    <3> QED
      BY <2>1, <3>1 DEF Lines
  <2>3. CASE ~(k < Len(a))
    <3>1. PICK m \in Nat : k = Len(a) + m /\ m <= Len(b) - 2
      <4>1. k - Len(a) \in Nat /\ k = Len(a) + (k - Len(a)) /\ k - Len(a) <= Len(b) - 2
        BY <1>1, <1>3, <2>1, <2>3
      <4> QED
        BY <4>1
    <3>2. m \in 0 .. Len(b) - 1 /\ m + 1 \in 0 .. Len(b) - 1 /\ m + 1 \in 1 .. Len(b) - 1
          /\ k + 1 = Len(a) + (m + 1)
      BY <1>1, <3>1
    <3>3. c[k] = b[m + 1] /\ c[k + 1] = b[(m + 1) + 1]
      BY <1>4, <3>1, <3>2
    <3> QED
      BY <2>1, <3>2, <3>3 DEF Lines
  <2> QED
    BY <2>2, <2>3
<1>7. ASSUME NEW l \in Lines(a)
      PROVE  l \in Lines(c)
  <2>1. PICK k \in 1 .. Len(a) - 1 : l = {a[k], a[k + 1]}
    BY <1>7 DEF Lines
  <2>2. k \in 1 .. Len(c) - 1 /\ c[k] = a[k] /\ c[k + 1] = a[k + 1]
    BY <1>1, <1>3, <2>1
  <2> QED
    BY <2>1, <2>2 DEF Lines
<1>8. ASSUME NEW l \in Lines(b)
      PROVE  l \in Lines(c)
  <2>1. PICK m \in 1 .. Len(b) - 1 : l = {b[m], b[m + 1]}
    BY <1>8 DEF Lines
  <2>2. PICK k \in Nat : k = Len(a) + (m - 1)
    BY <1>1, <2>1
  <2>3. m - 1 \in 0 .. Len(b) - 1 /\ m \in 0 .. Len(b) - 1 /\ (m - 1) + 1 = m /\ k + 1 = Len(a) + m
        /\ k \in 1 .. Len(c) - 1
    BY <1>1, <1>3, <2>1, <2>2
  <2>4. c[k] = b[m] /\ c[k + 1] = b[m + 1]
    BY <1>4, <2>2, <2>3
  <2> QED
    BY <2>1, <2>3, <2>4 DEF Lines
<1>9. Lines(c) = Lines(a) \cup Lines(b)
  BY <1>6, <1>7, <1>8
<1> QED
  BY <1>5, <1>9 DEF c

\* The ink of strokes with one more, and with another in place of the last.
LEMMA InkOfSent ==
    ASSUME NEW sent \in Seq(Trails), NEW s \in Trails
    PROVE  /\ Append(sent, s) \in Seq(Trails) /\ Append(sent, s) # <<>> /\ Last(Append(sent, s)) = s
           /\ Ink(Append(sent, s)) = Ink(sent) \cup Lines(s)
           /\ sent # <<>> =>
                 LET joined == [sent EXCEPT ![Len(sent)] = s] IN
                 /\ Last(sent) \in Trails
                 /\ joined \in Seq(Trails) /\ joined # <<>> /\ Last(joined) = s
                 /\ Lines(Last(sent)) \subseteq Lines(s) =>
                       Ink(joined) = Ink(sent) \cup Lines(s)
<1>i. \A d, l : l \in Ink(d) <=> \E i \in DOMAIN d : l \in Lines(d[i])
  <2>1. \A d : Ink(d) = UNION {Lines(t) : t \in Range(d)}
    BY Zenon DEF Ink, Lines
  <2> QED
    BY <2>1 DEF Range
<1> DEFINE more == Append(sent, s)
<1>1. /\ more \in Seq(Trails) /\ Len(sent) \in Nat /\ DOMAIN sent = 1 .. Len(sent)
      /\ Len(more) = Len(sent) + 1 /\ DOMAIN more = 1 .. Len(sent) + 1
      /\ \A i \in 1 .. Len(sent) : more[i] = sent[i]
      /\ more[Len(sent) + 1] = s
  BY AppendProperties
<1> HIDE DEF more
<1>2. more # <<>> /\ Last(more) = s
  BY <1>1, EmptySeq DEF Last
<1>3. Ink(more) = Ink(sent) \cup Lines(s)
  <2>1. ASSUME NEW l \in Ink(more)
        PROVE  l \in Ink(sent) \cup Lines(s)
    <3>1. PICK i \in 1 .. Len(sent) + 1 : l \in Lines(more[i])
      BY <1>1, <1>i, <2>1
    <3>2. CASE i = Len(sent) + 1
      BY <1>1, <3>1, <3>2
    <3>3. CASE i # Len(sent) + 1
      <4>1. i \in DOMAIN sent /\ more[i] = sent[i]
        BY <1>1, <3>1, <3>3
      <4> QED
        BY <1>i, <3>1, <4>1
    <3> QED
      BY <3>2, <3>3
  <2>2. ASSUME NEW l \in Ink(sent)
        PROVE  l \in Ink(more)
    <3>1. PICK i \in DOMAIN sent : l \in Lines(sent[i])
      BY <1>i, <2>2
    <3>2. i \in DOMAIN more /\ more[i] = sent[i]
      BY <1>1, <3>1
    <3> QED
      BY <1>i, <3>1, <3>2
  <2>3. Lines(s) \subseteq Ink(more)
    <3>1. Len(sent) + 1 \in DOMAIN more
      BY <1>1
    <3> QED
      BY <1>1, <1>i, <3>1
  <2> QED
    BY <2>1, <2>2, <2>3
<1>4. ASSUME sent # <<>>
      PROVE  LET joined == [sent EXCEPT ![Len(sent)] = s] IN
             /\ Last(sent) \in Trails
             /\ joined \in Seq(Trails) /\ joined # <<>> /\ Last(joined) = s
             /\ Lines(Last(sent)) \subseteq Lines(s) => Ink(joined) = Ink(sent) \cup Lines(s)
  <2> DEFINE n == Len(sent)
             joined == [sent EXCEPT ![n] = s]
  <2>1. n \in Nat /\ n >= 1 /\ n \in 1 .. n /\ Last(sent) = sent[n] /\ sent \in [1 .. n -> Trails]
    BY <1>4, EmptySeq, LenProperties DEF Last
  <2>2. /\ joined \in [1 .. n -> Trails] /\ joined[n] = s
        /\ \A i \in 1 .. n : i # n => joined[i] = sent[i]
    BY <2>1
  <2> HIDE DEF joined, n
  <2>3. /\ joined \in Seq(Trails) /\ Len(joined) = n
    BY <2>1, <2>2, SeqDef, LenProperties
  <2>4. joined # <<>> /\ Last(joined) = s
    BY <2>1, <2>2, <2>3, EmptySeq DEF Last
  <2>5. ASSUME Lines(Last(sent)) \subseteq Lines(s)
        PROVE  Ink(joined) = Ink(sent) \cup Lines(s)
    <3>1. DOMAIN sent = 1 .. n /\ DOMAIN joined = 1 .. n
      BY <2>1, <2>2
    <3>2. ASSUME NEW l \in Ink(joined)
          PROVE  l \in Ink(sent) \cup Lines(s)
      <4>1. PICK i \in 1 .. n : l \in Lines(joined[i])
        BY <1>i, <3>1, <3>2
      <4>2. CASE i = n
        BY <2>2, <4>1, <4>2
      <4>3. CASE i # n
        BY <1>i, <2>2, <3>1, <4>1, <4>3
      <4> QED
        BY <4>2, <4>3
    <3>3. ASSUME NEW l \in Ink(sent)
          PROVE  l \in Ink(joined)
      <4>1. PICK i \in 1 .. n : l \in Lines(sent[i])
        BY <1>i, <3>1, <3>3
      <4>2. l \in Lines(joined[i])
        BY <2>1, <2>2, <2>5, <4>1
      <4> QED
        BY <1>i, <3>1, <4>2
    <3>4. Lines(s) \subseteq Ink(joined)
      BY <1>i, <2>1, <2>2, <3>1
    <3> QED
      BY <3>2, <3>3, <3>4
  <2>6. Last(sent) \in Trails
    BY <2>1
  <2> QED
    BY <2>3, <2>4, <2>5, <2>6 DEF joined, n
<1> QED
  BY <1>1, <1>2, <1>3, <1>4 DEF more

\* One stroke sent after those before it, merged when it continues the last.
Sends(sent, s) ==
    IF ~s.chained \/ sent = <<>> THEN Append(sent, s.points)
    ELSE [sent EXCEPT ![Len(sent)] =
             IF Head(s.points) = Last(@) THEN @ \o Tail(s.points) ELSE @ \o s.points]

\* Its ink is added, and nothing else if it meets the last one when it is chained.
LEMMA SendsInk ==
    ASSUME NEW sent \in Seq(Trails), NEW s \in Strokes
    PROVE  /\ Sends(sent, s) \in Seq(Trails)
           /\ (s.chained /\ sent # <<>> => Head(s.points) = Last(Last(sent))) =>
                 /\ Sends(sent, s) # <<>> /\ Last(Last(Sends(sent, s))) = Last(s.points)
                 /\ Ink(Sends(sent, s)) = Ink(sent) \cup Lines(s.points)
<1>1. s.points \in Trails /\ s.points \in Seq(Points)
  BY DEF Strokes, Trails
<1>2. CASE ~s.chained \/ sent = <<>>
  BY <1>1, <1>2, InkOfSent DEF Sends
<1>3. CASE s.chained /\ sent # <<>>
  <2> DEFINE n == Len(sent)
             b == s.points
             joined == IF Head(b) = Last(sent[n]) THEN sent[n] \o Tail(b) ELSE sent[n] \o b
  <2>1. n \in Nat /\ n \in 1 .. n /\ sent[n] = Last(sent) /\ sent \in [1 .. n -> Trails]
    BY <1>3, EmptySeq, LenProperties DEF Last
  <2>2. sent[n] \in Trails
    BY <2>1
  <2>3. Sends(sent, s) = [sent EXCEPT ![n] = joined]
    BY <1>3 DEF Sends
  <2>4. joined \in Trails
    <3>1. CASE Head(b) = Last(sent[n])
      BY <1>1, <2>2, <3>1, JoinedLines
    <3>2. CASE Head(b) # Last(sent[n])
      <4> DEFINE a == sent[n]
      <4> HIDE DEF a, b
      <4>1. a \in Seq(Points) /\ b \in Seq(Points) /\ Len(b) # 0 /\ Len(a) \in Nat /\ Len(b) \in Nat
        BY <1>1, <2>2, EmptySeq DEF Trails, a, b
      <4>2. a \o b \in Seq(Points) /\ Len(a \o b) # 0
        BY <4>1, ConcatProperties
      <4>3. a \o b \in Trails
        BY <4>2, EmptySeq DEF Trails
      <4> QED
        BY <3>2, <4>3 DEF a, b
    <3> QED
      BY <3>1, <3>2
  <2>5. ASSUME Head(b) = Last(Last(sent))
        PROVE  /\ joined = sent[n] \o Tail(b) /\ Last(joined) = Last(b)
               /\ Lines(joined) = Lines(sent[n]) \cup Lines(b)
    <3>1. Head(b) = Last(sent[n])
      BY <2>1, <2>5
    <3>2. joined = sent[n] \o Tail(b)
      BY <3>1
    <3> HIDE DEF joined
    <3> QED
      BY <1>1, <2>2, <3>1, <3>2, JoinedLines
  <2> HIDE DEF joined
  <2>6. /\ [sent EXCEPT ![n] = joined] \in Seq(Trails)
        /\ [sent EXCEPT ![n] = joined] # <<>> /\ Last([sent EXCEPT ![n] = joined]) = joined
        /\ Lines(Last(sent)) \subseteq Lines(joined) =>
              Ink([sent EXCEPT ![n] = joined]) = Ink(sent) \cup Lines(joined)
    BY <1>3, <2>4, InkOfSent
  <2>7. ASSUME Head(b) = Last(Last(sent))
        PROVE  /\ Sends(sent, s) # <<>> /\ Last(Last(Sends(sent, s))) = Last(b)
               /\ Ink(Sends(sent, s)) = Ink(sent) \cup Lines(b)
    <3>1. Lines(joined) = Lines(Last(sent)) \cup Lines(b) /\ Last(joined) = Last(b)
      BY <2>1, <2>5, <2>7
    <3>2. Ink(Sends(sent, s)) = Ink(sent) \cup Lines(joined)
      BY <2>3, <2>6, <3>1
    <3>3. Lines(Last(sent)) \subseteq Ink(sent)
      <4>1. n \in DOMAIN sent /\ Last(sent) \in Range(sent)
        BY <2>1 DEF Range
      <4>2. \A d : Ink(d) = UNION {Lines(t) : t \in Range(d)}
        BY Zenon DEF Ink, Lines
      <4> QED
        BY <4>1, <4>2
    <3> QED
      BY <2>3, <2>6, <3>1, <3>2, <3>3
  <2> HIDE DEF b
  <2> QED
    BY <1>3, <2>3, <2>6, <2>7 DEF b
<1> QED
  BY <1>2, <1>3 DEF Strokes

\* A chained stroke begins where the one before it ends.
Meets(strokes) ==
    \A i \in 2 .. Len(strokes) :
        strokes[i].chained => Head(strokes[i].points) = Last(strokes[i - 1].points)

\* Merging chained strokes that meet keeps their lines.
LEMMA PayloadInk ==
    ASSUME store \in Seq(Strokes), Meets(store)
    PROVE  Ink(Payload) = Ink(StoredStrokes)
<1> DEFINE n == Len(store)
           A == Seq(Trails)
           step == [a \in A |-> [i \in 1 .. n |-> Sends(a, store[i])]]
           Folded(f) == f = [t \in SUBSET (1 .. n) |->
                               IF t = {} THEN <<>> ELSE Sends(f[t \ {Max(t)}], store[Max(t)])]
<1>1. n \in Nat /\ DOMAIN store = 1 .. n /\ <<>> \in A /\ store \in [1 .. n -> Strokes]
  BY LenProperties, EmptySeq
<1>2. \A a \in A, i \in 1 .. n : Sends(a, store[i]) \in A
  BY <1>1, SendsInk
<1>3. step \in [A -> [1 .. n -> A]]
  <2> HIDE DEF A
  <2> QED
    BY <1>2
<1>4. PICK g : IsFold(g, n, A, <<>>, step)
  <2> HIDE DEF step, n, A
  <2> QED
    BY <1>1, <1>3, FoldExists
<1>5. Folded(g)
  <2>1. ASSUME NEW t \in SUBSET (1 .. n), t # {}
        PROVE  step[g[t \ {Max(t)}]][Max(t)] = Sends(g[t \ {Max(t)}], store[Max(t)])
    <3>1. g[t \ {Max(t)}] \in A /\ Max(t) \in 1 .. n
      BY <1>1, <1>4, <2>1, LargestIsIn DEF IsFold
    <3> HIDE DEF A
    <3> QED
      BY <3>1
  <2> HIDE DEF step, A
  <2> QED
    BY <1>4, <2>1 DEF IsFold
<1> DEFINE f == CHOOSE f : Folded(f)
<1>6. Folded(f)
  <2> HIDE DEF Folded
  <2> QED
    BY <1>5
<1>7. Payload = f[1 .. n]
  BY <1>1 DEF Payload, FoldLeft, MapThenFoldSet, Sends
<1> HIDE DEF f
<1>8. f[1 .. 0] = <<>>
  BY <1>6
<1>9. ASSUME NEW i \in 1 .. n
      PROVE  f[1 .. i] = Sends(f[1 .. i - 1], store[i])
  <2>1. /\ 1 .. i \in SUBSET (1 .. n) /\ 1 .. i # {}
        /\ Max(1 .. i) = i /\ (1 .. i) \ {i} = 1 .. i - 1
    BY <1>1, FoldOfPrefix
  <2>2. f[1 .. i] = Sends(f[(1 .. i) \ {Max(1 .. i)}], store[Max(1 .. i)])
    BY <1>6, <2>1
  <2> QED
    BY <2>1, <2>2
<1> DEFINE InkUpTo(i) == UNION {Lines(store[j].points) : j \in 1 .. i}
           Kept(i) == /\ f[1 .. i] \in A
                      /\ i # 0 => f[1 .. i] # <<>> /\ Last(Last(f[1 .. i])) = Last(store[i].points)
                      /\ Ink(f[1 .. i]) = InkUpTo(i)
           T == {i \in 0 .. n : Kept(i)}
<1>10. Kept(0)
  <2>1. Ink(<<>>) = {}
    <3>1. DOMAIN <<>> = {}
      OBVIOUS
    <3>2. Range(<<>>) = {}
      BY <3>1 DEF Range
    <3> QED
      BY <3>2 DEF Ink
  <2>2. InkUpTo(0) = {}
    OBVIOUS
  <2> QED
    BY <1>1, <1>8, <2>1, <2>2
<1>11. ASSUME NEW i \in 1 .. n, Kept(i - 1)
       PROVE  Kept(i)
  <2> DEFINE sent == f[1 .. i - 1]
             s == store[i]
  <2>1. s \in Strokes /\ sent \in Seq(Trails) /\ f[1 .. i] = Sends(sent, s)
    BY <1>1, <1>9, <1>11
  <2>2. s.chained /\ sent # <<>> => Head(s.points) = Last(Last(sent))
    <3>1. CASE i = 1
      BY <1>8, <3>1
    <3>2. CASE i # 1
      <4>1. i \in 2 .. n /\ i - 1 # 0
        BY <1>1, <3>2
      <4>2. s.chained => Head(s.points) = Last(store[i - 1].points)
        BY <4>1 DEF Meets
      <4> QED
        BY <1>11, <4>1, <4>2
    <3> QED
      BY <3>1, <3>2
  <2>3. InkUpTo(i) = InkUpTo(i - 1) \cup Lines(s.points)
    <3>1. \A j : j \in 1 .. i <=> j \in 1 .. i - 1 \/ j = i
      BY <1>1
    <3> QED
      BY <3>1
  <2>4. Ink(sent) = InkUpTo(i - 1)
    BY <1>11
  <2> HIDE DEF sent, InkUpTo
  <2> QED
    BY <2>1, <2>2, <2>3, <2>4, SendsInk
<1> HIDE DEF Kept
<1>12. Kept(n)
  <2>1. 0 \in T
    BY <1>1, <1>10
  <2>2. \A i \in 1 .. n : i - 1 \in T => i \in T
    <3>1. ASSUME NEW i \in 1 .. n, i - 1 \in T
          PROVE  i \in T
      <4>1. i \in 0 .. n
        BY <1>1
      <4> QED
        BY <1>11, <3>1, <4>1
    <3> HIDE DEF T
    <3> QED
      BY <3>1
  <2> HIDE DEF T
  <2>3. n \in T
    <3>1. n \in 0 .. n
      BY <1>1
    <3> QED
      BY <1>1, <2>1, <2>2, <3>1, UpTo
  <2> QED
    BY <2>3 DEF T
<1>13. Ink(StoredStrokes) = InkUpTo(n)
  <2>1. Range(StoredStrokes) = {store[j].points : j \in 1 .. n}
    BY <1>1 DEF StoredStrokes, Range
  <2>2. Ink(StoredStrokes) = UNION {Lines(t) : t \in Range(StoredStrokes)}
    BY Zenon DEF Ink, Lines
  <2> QED
    BY <2>1, <2>2
<1> QED
  BY <1>7, <1>12, <1>13 DEF Kept

\* A chained primitive being placed begins at the end of the drawing.
Seeded == seeded => store # <<>> /\ Head(clicks) = Last(Last(store).points)

\* A drawing is made of strokes; a chained one meets the one before it, and
\* one being placed meets the last, unless a stroke was undone under it.
Drawn ==
    /\ store \in Seq(Strokes) /\ capture \in Seq(Points) /\ clicks \in Seq(Points)
    /\ seeded => clicks # <<>> /\ tool # "freehand"
    /\ undoneSeam \/ (Meets(store) /\ Seeded)

\* A stroke that is retained is a stroke of the drawing, which it continues if
\* it is chained.
LEMMA StrokeRetained ==
    ASSUME store \in Seq(Strokes), NEW stroke \in Strokes, Retain(stroke)
    PROVE  /\ store' \in Seq(Strokes)
           /\ Meets(store) /\ (stroke.chained => store # <<>> /\ Head(stroke.points) = Last(Last(store).points))
                 => Meets(store')
<1>1. CASE store' = store
  BY <1>1 DEF Meets
<1>2. CASE store' = Append(store, stroke)
  <2>1. /\ store' \in Seq(Strokes) /\ Len(store) \in Nat /\ Len(store') = Len(store) + 1
        /\ \A i \in 1 .. Len(store) : store'[i] = store[i]
        /\ store'[Len(store) + 1] = stroke
    BY <1>2, AppendProperties
  <2>2. ASSUME Meets(store), stroke.chained => store # <<>> /\ Head(stroke.points) = Last(Last(store).points),
               NEW i \in 2 .. Len(store'), store'[i].chained
        PROVE  Head(store'[i].points) = Last(store'[i - 1].points)
    <3>1. CASE i = Len(store) + 1
      <4>1. i - 1 = Len(store) /\ i - 1 \in 1 .. Len(store) /\ Last(store) = store[Len(store)]
        BY <2>1, <2>2, <3>1 DEF Last
      <4> QED
        BY <2>1, <2>2, <3>1, <4>1
    <3>2. CASE i # Len(store) + 1
      <4>1. i \in 2 .. Len(store) /\ i \in 1 .. Len(store) /\ i - 1 \in 1 .. Len(store)
        BY <2>1, <2>2, <3>2
      <4> QED
        BY <2>1, <2>2, <4>1 DEF Meets
    <3> QED
      BY <3>1, <3>2
  <2> QED
    BY <2>1, <2>2 DEF Meets
<1> QED
  BY <1>1, <1>2 DEF Retain

\* A primitive begins at its first click.
LEMMA PrimitiveIsPlaced ==
    ASSUME NEW placed \in Trails
    PROVE  Primitive(placed) \in Trails /\ Head(Primitive(placed)) = Head(placed)
<1>1. placed \in Seq(Points) /\ Len(placed) \in Nat /\ Len(placed) >= 1 /\ Head(placed) = placed[1]
  BY EmptySeq DEF Trails
<1>2. Head(placed) \in Points /\ Last(placed) \in Points
  BY <1>1, ElementOfSeq DEF Last
<1> DEFINE a == Head(placed)
           b == Last(placed)
<1>3. /\ <<a>> \in Seq(Points) /\ <<a, b>> \in Seq(Points) /\ <<a>> # <<>> /\ <<a, b>> # <<>>
      /\ Head(<<a>>) = a /\ Head(<<a, b>>) = a
  <2> HIDE DEF a, b
  <2> QED
    BY <1>2 DEF a, b
<1> HIDE DEF a, b
<1>4. SampleLine(a, b) \in Trails /\ Head(SampleLine(a, b)) = a
  BY <1>3 DEF SampleLine, Trails
<1> QED
  BY <1>4 DEF Primitive, a, b

\* What Execute submits has the lines the operator drew, though chained strokes
\* are merged, unless a stroke was undone under one being placed (Payload).
THEOREM PayloadOfDrawing == Spec => []PayloadIsTheDrawing
<1>1. Init => Drawn
  BY DEF Init, ClientInit, Drawn, Meets, Seeded
<1>2. Drawn /\ [Next]_vars => Drawn'
  <2> SUFFICES ASSUME Drawn, [Next]_vars PROVE Drawn'
    OBVIOUS
  <2>t. /\ store \in Seq(Strokes) /\ capture \in Seq(Points) /\ clicks \in Seq(Points)
        /\ seeded => clicks # <<>> /\ tool # "freehand"
        /\ undoneSeam \/ (Meets(store) /\ Seeded)
    BY DEF Drawn
  <2>e. /\ <<>> \in Seq(Points) /\ <<>> \in Seq(Strokes) /\ Meets(<<>>)
    BY EmptySeq DEF Meets
  <2>u. ASSUME UNCHANGED drawingVars
        PROVE  Drawn'
    BY <2>t, <2>u DEF Drawn, drawingVars, Seeded
  <2>1. CASE ClientStep
    <3>1. CASE FreehandDown \/ Drag
      <4>1. /\ UNCHANGED <<store, tool, clicks, seeded, undoneSeam>>
            /\ capture' = capture \/ \E p \in Points : capture' = Append(capture, p)
        BY <3>1 DEF FreehandDown, Drag
      <4>2. capture' \in Seq(Points)
        <5>1. \A p \in Points : Append(capture, p) \in Seq(Points)
          BY <2>t, AppendProperties
        <5> QED
          BY <2>t, <4>1, <5>1
      <4> QED
        BY <2>t, <4>1, <4>2 DEF Drawn, Seeded
    <3>2. CASE FreehandUp
      <4> DEFINE points == Conditioned(capture)
                 stroke == [points |-> points, chained |-> Head(points) \in ChainAnchor]
      <4>1. /\ UNCHANGED <<tool, clicks, seeded, undoneSeam>> /\ tool = "freehand"
            /\ capture' \in {<<>>, capture}
            /\ \/ UNCHANGED store
               \/ Len(points) >= 2 /\ Retain(stroke)
        <5>1. Len(points) \in Nat
          BY <2>t, ConditionedIsPoints, LenProperties
        <5> QED
          BY <3>2, <5>1 DEF FreehandUp
      <4>2. ~seeded /\ ~seeded'
        BY <2>t, <4>1
      <4>3. CASE UNCHANGED store
        BY <2>t, <2>e, <4>1, <4>2, <4>3 DEF Drawn, Seeded
      <4>4. CASE Len(points) >= 2 /\ Retain(stroke)
        <5>1. points \in Trails
          <6>1. points \in Seq(Points)
            BY <2>t, ConditionedIsPoints
          <6> QED
            BY <4>4, <6>1 DEF Trails
        <5>2. stroke \in Strokes
          <6> HIDE DEF points
          <6> QED
            BY <5>1 DEF Strokes
        <5>3. stroke.chained => store # <<>> /\ Head(stroke.points) = Last(Last(store).points)
          BY DEF ChainAnchor
        <5> HIDE DEF stroke
        <5>4. store' \in Seq(Strokes) /\ (Meets(store) => Meets(store'))
          BY <2>t, <4>4, <5>2, <5>3, StrokeRetained
        <5> QED
          BY <2>t, <2>e, <4>1, <4>2, <5>4 DEF Drawn, Seeded
      <4> QED
        BY <4>1, <4>3, <4>4
    <3>3. CASE Click
      <4> DEFINE inherits == clicks = <<>> /\ ChainAnchor # {}
                 start == IF inherits THEN <<Last(Last(store).points)>> ELSE clicks
      <4>1. PICK p \in Points :
              LET placed == Append(start, p) IN
              \/ clicks' = placed /\ seeded' = (seeded \/ inherits) /\ UNCHANGED store
              \/ /\ clicks' = <<>> /\ seeded' = FALSE
                 /\ Retain([points |-> Primitive(placed), chained |-> seeded \/ inherits])
        BY <3>3 DEF Click
      <4>2. tool # "freehand" /\ UNCHANGED <<tool, capture, undoneSeam>>
        BY <3>3 DEF Click
      <4> DEFINE placed == Append(start, p)
                 follows == seeded \/ inherits
      <4>3. start \in Seq(Points) /\ (inherits => store # <<>> /\ start = <<Last(Last(store).points)>>)
        <5>1. CASE inherits
          <6>1. store # <<>>
            BY <5>1 DEF ChainAnchor
          <6>2. Last(store) \in Strokes
            BY <2>t, <6>1, EmptySeq, ElementOfSeq DEF Last
          <6>3. Last(store).points \in Trails
            BY <6>2 DEF Strokes
          <6>4. Last(Last(store).points) \in Points
            <7> DEFINE trail == Last(store).points
            <7> HIDE DEF trail
            <7>1. trail \in Seq(Points) /\ trail # <<>>
              BY <6>3 DEF Trails, trail
            <7>2. Last(trail) \in Points
              BY <7>1, EmptySeq, ElementOfSeq DEF Last
            <7> QED
              BY <7>2 DEF trail
          <6> QED
            BY <5>1, <6>1, <6>4
        <5>2. CASE ~inherits
          BY <2>t, <5>2
        <5> QED
          BY <5>1, <5>2
      <4>4. seeded => ~inherits /\ start = clicks
        BY <2>t
      <4>5. follows => start # <<>>
        BY <2>t, <4>3, <4>4
      <4>6. undoneSeam \/ (follows => store # <<>> /\ Head(start) = Last(Last(store).points))
        BY <2>t, <4>3, <4>4 DEF Seeded
      <4> HIDE DEF start, inherits
      <4>7. /\ placed \in Trails /\ (start # <<>> => Head(placed) = Head(start))
        <5>1. /\ placed \in Seq(Points) /\ Len(start) \in Nat /\ Len(placed) = Len(start) + 1
              /\ \A i \in 1 .. Len(start) : placed[i] = start[i]
          BY <4>3, AppendProperties
        <5>2. placed # <<>>
          BY <5>1, EmptySeq
        <5>3. start # <<>> => Len(start) >= 1
          BY <4>3, EmptySeq
        <5> HIDE DEF placed
        <5> QED
          BY <4>3, <5>1, <5>2, <5>3 DEF Trails
      <4> HIDE DEF placed
      <4>8. CASE clicks' = placed /\ seeded' = (seeded \/ inherits) /\ UNCHANGED store
        <5>1. clicks' \in Seq(Points) /\ clicks' # <<>>
          BY <4>7, <4>8 DEF Trails
        <5>2. undoneSeam \/ (seeded' => store # <<>> /\ Head(clicks') = Last(Last(store).points))
          BY <4>5, <4>6, <4>7, <4>8
        <5> QED
          BY <2>t, <4>2, <4>8, <5>1, <5>2 DEF Drawn, Seeded
      <4>9. CASE /\ clicks' = <<>> /\ seeded' = FALSE
                 /\ Retain([points |-> Primitive(placed), chained |-> seeded \/ inherits])
        <5> DEFINE stroke == [points |-> Primitive(placed), chained |-> seeded \/ inherits]
        <5>1. Primitive(placed) \in Trails /\ Head(Primitive(placed)) = Head(placed)
          BY <4>7, PrimitiveIsPlaced
        <5>2. stroke \in Strokes /\ stroke.points = Primitive(placed) /\ (stroke.chained <=> follows)
          BY <5>1 DEF Strokes
        <5> HIDE DEF stroke
        <5>3. undoneSeam \/ (stroke.chained => store # <<>> /\ Head(stroke.points) = Last(Last(store).points))
          BY <4>5, <4>6, <4>7, <5>1, <5>2
        <5>4. Retain(stroke)
          BY <4>9 DEF stroke
        <5>5. store' \in Seq(Strokes) /\ (undoneSeam \/ (Meets(store) => Meets(store')))
          BY <2>t, <5>2, <5>3, <5>4, StrokeRetained
        <5> QED
          BY <2>t, <2>e, <4>2, <4>9, <5>5 DEF Drawn, Seeded
      <4> QED
        BY <4>1, <4>8, <4>9 DEF placed
    <3>4. CASE SelectTool \/ SetChain \/ RequestMode
      <4>1. /\ UNCHANGED <<store, undoneSeam>> /\ clicks' = <<>> /\ seeded' = FALSE
            /\ capture' \in {capture, <<>>}
        BY <3>4 DEF SelectTool, SetChain, RequestMode
      <4> QED
        BY <2>t, <2>e, <4>1 DEF Drawn, Seeded
    <3>5. CASE Undo
      <4>1. /\ store # <<>> /\ store' = Front(store) /\ undoneSeam' = (undoneSeam \/ seeded)
            /\ UNCHANGED <<capture, tool, clicks, seeded>>
        BY <3>5 DEF Undo
      <4>2. /\ store' \in Seq(Strokes) /\ Len(store') = Len(store) - 1 /\ Len(store) \in Nat
            /\ \A i \in 1 .. Len(store) - 1 : store'[i] = store[i]
        <5>1. Len(store) \in Nat /\ Len(store) >= 1
          BY <2>t, <4>1, EmptySeq
        <5>2. \A i \in 1 .. Len(store) - 1 : store[i] \in Strokes
          BY <2>t, <5>1, ElementOfSeq
        <5>3. store' = SubSeq(store, 1, Len(store) - 1)
          BY <4>1 DEF Front
        <5>4. Len(store) - 1 \in Int /\ 1 \in Int /\ (Len(store) - 1) - 1 + 1 = Len(store) - 1
              /\ \A i \in 1 .. Len(store) - 1 : 1 + i - 1 = i
          BY <5>1
        <5>5. /\ SubSeq(store, 1, Len(store) - 1) \in Seq(Strokes)
              /\ Len(SubSeq(store, 1, Len(store) - 1)) = IF 1 <= Len(store) - 1 THEN (Len(store) - 1) - 1 + 1 ELSE 0
              /\ \A i \in 1 .. (Len(store) - 1) - 1 + 1 : SubSeq(store, 1, Len(store) - 1)[i] = store[1 + i - 1]
          BY <5>2, <5>4, SubSeqProperties
        <5> QED
          BY <5>1, <5>3, <5>4, <5>5
      <4>3. ASSUME Meets(store)
            PROVE  Meets(store')
        <5>1. ASSUME NEW i \in 2 .. Len(store'), store'[i].chained
              PROVE  Head(store'[i].points) = Last(store'[i - 1].points)
          <6>1. i \in 2 .. Len(store) /\ i \in 1 .. Len(store) - 1 /\ i - 1 \in 1 .. Len(store) - 1
            BY <4>2, <5>1
          <6> QED
            BY <4>2, <4>3, <5>1, <6>1 DEF Meets
        <5> QED
          BY <5>1 DEF Meets
      <4> QED
        BY <2>t, <4>1, <4>2, <4>3 DEF Drawn, Seeded
    <3>6. CASE Clear \/ RequestLoadRecipe
      <4>1. /\ UNCHANGED <<tool, undoneSeam>>
            /\ \/ store' = <<>> /\ clicks' = <<>> /\ seeded' = FALSE /\ capture' = <<>>
               \/ UNCHANGED <<store, clicks, seeded, capture>>
        BY <3>6 DEF Clear, RequestLoadRecipe, ClearDrawing
      <4>2. CASE UNCHANGED <<store, clicks, seeded, capture>>
        BY <2>t, <4>1, <4>2 DEF Drawn, Seeded
      <4>3. CASE store' = <<>> /\ clicks' = <<>> /\ seeded' = FALSE /\ capture' = <<>>
        BY <2>e, <4>3 DEF Drawn, Seeded
      <4> QED
        BY <4>1, <4>2, <4>3
    <3>7. CASE \/ RequestExecute \/ RequestStop \/ RequestSetPlane \/ RequestReset \/ LoadTimesOut
      <4>1. UNCHANGED drawingVars
        BY <3>7 DEF RequestExecute, RequestStop, RequestSetPlane, RequestReset, LoadTimesOut
      <4> QED
        BY <2>u, <4>1
    <3> QED
      BY <2>1, <3>1, <3>2, <3>3, <3>4, <3>5, <3>6, <3>7 DEF ClientStep
  <2>2. CASE ~ClientStep
    <3>1. UNCHANGED drawingVars
      BY <2>2 DEF Next, Connect, Snapshot, Send, SendUnread, SendRaises, ClientDrops, ReceiveDisplay, ApplyDisplay,
                  ReceiveInput, SessionCloses, HandleControl, ExecutionEnds, Greet, WatchdogTick,
                  vars, clientVars
    <3> QED
      BY <2>u, <3>1
  <2> QED
    BY <2>1, <2>2
<1>3. Drawn => PayloadIsTheDrawing
  BY PayloadInk DEF Drawn, PayloadIsTheDrawing
<1> QED
  BY <1>1, <1>2, <1>3, PTL DEF Spec
===============================================================================
