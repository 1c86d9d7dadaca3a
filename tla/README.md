# A formal model of rmp-ros2_control

TLA+ modules, TLC configurations and TLAPS proofs about the motion path of this repository, from
the operator's canvas to the RMP motion controller: what gets drawn and where, which thread may
move the arm, how goals are chained on one open firmware move, and what a stop, a reset, a fault, a
failed call or a lost connection does to each of these. Paths are relative to the repository root
unless they start with `src/src/`, as they do in PROJECT.json; short names:

| short | file |
|---|---|
| HW, HWH | `rapidcode_system_hardware.cpp`, `.hpp` (`src/rapidcode_system`) |
| CT, CTH | `passthrough_trajectory_controller.cpp`, `.hpp` (`src/rapidcode_passthrough_trajectory_controller`) |
| PR  | `src/rapidcode_trajectory_transfer/include/rapidcode_trajectory_transfer/protocol.hpp` |
| DI, BE, SS, LS, BR, UI, SC | `dispatcher.py`, `batch_executor.py`, `stroke_streamer.py`, `live_streamer.py`, `bridge.py`, `ui_comms.py`, `surface_client.py` (`src/rapidcode_draw_plane/rapidcode_draw_plane`) |
| SPS, SP | `send_cartesian_path_streamed.py`, `send_cartesian_path.py` (`src/rapidcode_bringup/scripts`) |

## 1. Inventory

```
 operator client        bridge (one process)                       controller            hardware plugin    RMP
 surface_client:        ui_comms thread > event queue              executor thread:      read(), write(),   firmware:
  canvas, store,         > coordination thread: dispatcher,        action, ~/stop,       host FIFO,         group state,
  recipe, controls         watchdog, display                       ~/reset_fault, timer  completion, stop   frame buffer,
       |                 > batch thread   --- goals -----------+->                  slot and fault          watchdog
       +-- websocket -->   > stroke thread  --- goals -----------+-> control thread: <--> handlers ------->
                         > live thread    --- poses > Servo        update()
```

| component | state | operations | interaction | hard behaviour | what makes it correct |
|---|---|---|---|---|---|
| mailbox (PR) | one command slot with a sequence number; ack, error code, completed id | emit, acknowledge | shared doubles between two components of one control loop | a slot overwritten before it was read | one command per acknowledge; nothing lost silently |
| plugin (HW) | FIFO of chunks, reopen latch, frame counters and thresholds, two stop recovery flags | `read`; `write`: drain, BEGIN, APPEND, STOP, RESET, ABORT | calls RapidCode, which may throw; the firmware runs concurrently | faults that do not throw, group states that change between two calls, deferred recovery | points fed in order and once; completion never early; a latched fault holds motion; a stop can be released |
| controller, action part (CT) | four goal queues, ids, stop and reset latches, mirrors | `update`, `HandleGoal`, `HandleAccepted`, services, timer | atomics and one mutex between executor and control thread | a stop, a reset or a goal inside `update()` | every goal ends once, in order; success means executed; a stop stays until it is released |
| controller, online stream (CT) | staged window, cursor, fill gate, stop tail | `ServiceOnlineStream`, topic callback | shares the slot with the action part | stale depth, producer silence, splices | bounded lookahead; always closes its move |
| dispatcher (DI, BR) | mode, Live sub-state, stopped flag, loaded recipe, plane | pointer samples, controls, route events, input loss | calls the three routes; waits for services of the controller | events still queued behind a stop; reset while a route winds down | stopped in Live means dead routes; a mode is left only when its route is done |
| batch route (BE) | queue, busy flag | execute, park, report | thread of its own; clears the latch, runs a sender | an exception; a stop at the start of an item | the mode lock is released whatever happens |
| stroke route (SS) | intake, five flags, pipeline | begin, add, end, hand-back, stop, reset; sessions of chains | locks and events with the coordination thread | request, busy and intake are looked at one by one; a wake swallowed by a cool-down; a successor that comes too late; a seam that is refused | the open move does not starve; the pen keeps to the polyline; a hand-back drains |
| live route (LS) | intents, target, active, at rest | set intent, release, rest, activate, deactivate; tick | publishes outside its lock | a rest between reading and publishing | at most one pose after silence |
| client (SC) and transport (UI) | drawing, capture, pending load, controls; event queue | canvas and control handlers; send loop; decode; watchdog | one websocket that may drop | re-queued controls, a session turned away, guesses older than the bridge's state | what is submitted is what was drawn; controls in order, each accounted for; a lost client stops its execution |
| drawings and recipes (`recipe_loader.py`, `linalg.py`, `file_manager.py`, SP) | plane, loaded recipe, file | frame, load, fit, save, calibrate | three files compute one frame | calibration changes under a loaded or saved drawing | preview, file and arm agree; the pen stays in the working area |
| senders (SPS, SP) | path, goals, seams | cut, retime, send | action goals and a parameter of the controller | a successor that does not plan; rounding at cuts | the goals follow the path; a carried speed can still be braked |
| lifecycles, launch files, remaining scripts | interfaces, configuration | start and stop | - | - | section 6 |

PROJECT.json lists each component with its status, and under `hazards` what is hard to test, at its
line, with the properties that cover it.

## 2. Modules

| module | what it is |
|---|---|
| `TransferProtocol` | the slot, its handshake and the turn of the control thread |
| `RapidCodeHardware` | the plugin, one action per branch of `read()` and `write()`, and the firmware |
| `HardwareUnderClient`, `MCHardware` | the plugin under an arbitrary client of the mailbox |
| `MotionStream` | abstract: accepted points form one stream, extended behind, executed in front, cut to a prefix |
| `PassthroughController` | `update()` without the online stream, and the executor's callbacks |
| `GoalContract` | abstract: what the action promises about each goal and their order |
| `TransferSystem`, `MCSystem` | controller and plugin on one loop, and the properties of the whole |
| `DocumentedClaims` | a comment of the plugin and one of the controller that the code does not keep |
| `RouteServices` | stop latch and route events, shared by the three routes |
| `BatchExecutor`, `LiveTargetStreamer`, `StrokeChainStreamer` | one route each: what the coordination thread calls, and the route's own thread |
| `Dispatcher` | the mode machine on the coordination thread, cut at its service calls |
| `DrawPlane` | dispatcher and routes together, fairness, and the properties of the whole |
| `StrokeIntake`, `GoalChain` | one chain of goals in discrete time: intake, windows, seams, pipeline, open move |
| `PlaneGeometry`, `RecipeFraming`, `GoalWindows` | pure operators: plane and calibration; recipes, framing and loading; cutting and retiming |
| `DrawingDesk`, `MCDesk` | what is drawn, saved, loaded, calibrated and sent, over those operators |
| `SurfaceClient` | the operator's canvas: drawing store, tools, recipe state, queue of controls |
| `ClientSession`, `MCClient` | the client, the connection, the bridge's event queue and watchdog |
| `ClientClaims` | a comment of the drawing store that the client does not keep |
| `*_proofs` | lemmas and theorems about the module they are named after; `TransferSystem_proofs` has the controller's too, the refinement of `GoalContract`, and that ids and frames agree on both sides |
| `FoldLemmas` | lemmas about folds, sums and flattened sequences that the client's and the desk's proofs share |

### Correspondence: controller and plugin

**The control thread.** `controller_manager` calls `read`, `update` and `write` in turn; `turn` says
which is next. `read` is one step. `update` is cut where it shares memory with the executor: `phase`
`begin` (read state, mirror the error, drain `incoming_`, retire goals), then one of the fault hold,
the operator hold and the action stream; a release stores to several latches and is cut between
them. `write` is cut where the firmware may run: the group check of `DrainQueue` (`drain`), each pass
of its loop (`feed`), the command (`command`), and for an AppendChunk the second `DrainQueue`
(`drainChunk`, `feedChunk`).

**The executor thread** serves one callback at a time. `~/stop` is two stores, so two steps;
`~/reset_fault` reads, then stores; accepting a goal is `HandleGoal` and then `HandleAccepted`; the
monitor flushes a goal and then looks at its `terminal` flag.

**The firmware** is external. Its group state, an axis frame buffer of two frames per point (and extra
closing frames after a final chunk), and the out-of-frames watchdog are modelled from the calls the
plugin makes and the comments that explain them. Three assumptions matter: a faulted group keeps its
unexecuted frames until its faults are cleared (this is how `UpdateCompletion` can be right, HW 1386);
`MovePVT` throws unless the group is idle or moving when it is called, which may be later than when the
reopen gate read its state; `EStop` closes a streamed move (HW 1437-1440), but may throw, and the
handler that called it then goes on with its own bookkeeping (HW 1454, 1538). An operator clears a fault
by hand only on a group in ERROR that the plugin has already seen.

**Data.** A chunk is its trajectory id, its number of points and its final flag; positions are left out,
so first-point continuity and goal tolerance are free choices. `cause` and `dropped` are history
variables: why the group is not running, or (`unstopped`) that it runs because an `EStop` threw, and
which trajectories lost a point. `overtaken` remembers that a latch was released between the two stores
of a `~/stop`.

### Correspondence: the draw plane's threads

**The coordination thread** makes passes: user events, then every route event, then the watchdog
(`phase`). A handler is one action; where it waits for a service of the controller, or asks the stroke
route how it stands, it stops and `serviceCall` says where, so that the three route threads run in
between: `active` is three looks at three flags under no common lock (`atBusy`, `atRequest`,
`atIntake`; SS 330-333). `overlooked` is history: a session was entered between the looks of a mode
change, or was ahead when an earlier session's drain report was handled. `stopped` is set
before the calls of a stop are made, as in `_enter_stopped`. A service answers, or with
`ServiceFaults` is unavailable, or times out after having been served.

**The batch thread** takes an item, sets busy, clears the latch, runs, clears busy and reports, one
step each. What an item sends is in `GoalChain` and `DrawingDesk`; here it may end at any time, by
an exception too.

**The live thread's tick** is cut where the code takes and leaves the lock: read, then publish and
advance, or hold, or trip the guard, then record. Poses are counted; `latePoses` is history: poses
published since the route went silent.

**The stroke thread** wakes up, checks, takes the request, enters the session, runs chains, leaves and
reports. Flags are separate variables because they are set at different times, and each assignment that
another thread can see is a step. `sessionBroke` is history: the last session ended by an exception. In
`StrokeChainStreamer` the intake is "holds points" or not, and a chain goes out goal by goal until it is
closed, stopped or refused.

**One chain in time.** `GoalChain` opens that chain: waypoints have a place in the polyline and a
height, a tick is the poll period, one waypoint is one tick of motion, planning takes up to
`PlanTicks`. Both clients that stream chains are there: the stroke thread, which cuts windows from an
intake that grows, and the batch thread, whose drawing is there from the start. They share the
controller's finalize parameter and keep one cache each. `motion` is what the controller has
accepted; an open move with nothing left to execute latches a fault, which is what the controller
and plugin models show. `shortGoal`, `windowLost`, `refused` and `served` are history: an open goal that is
shorter than planning may take was sent, a planned window was lost by a failing plan, setting
the parameter failed, and it failed although the controller had served it (a timeout).

### Correspondence: drawings, recipes and senders

Points lie on a grid of whole numbers and angles are quarter turns, so that rotation, translation,
clamping and the working area disc are exact; the centripetal curve's sample half-way between two points
is rounded to that grid, and the roots of its knots to quarters. `PlaneGeometry` and `RecipeFraming`
translate the functions of `linalg.py`, `recipe_loader.py`, `file_manager.py` and the sender's
`build_waypoints` one by one. `GoalWindows` keeps speeds squared, which makes the forward and the
backward pass exact. `DrawingDesk` is the operator at work: submit, save, load, calibrate, clear,
execute, replay a file by hand with any sender; the senders step by step, failing anywhere. `savedRuns`
is history: what the saved file was made of.

### Correspondence: the client

`SurfaceClient` has one action per handler of the canvas: press, drag, release, tools, undo, clear,
recipe and mode buttons. Two points are the same or far apart; strokes are sequences of points. A
control gets a number when it is issued. `ClientSession` adds the send loop (snapshot, send, or a send
that raises with its message gone or not), the connection, `decode_input` (which refuses a message as a
whole), the session that the bridge turns away after its handshake while it still holds the last one
(`turnedAway`; what the client sends into it nobody reads), the event queue, one control at a time on
the coordination thread, the display pushed after it, and the watchdog, which reports edges only.
History: `lateAnswer` (the client gave up on a load whose answer then came), `earlyAnswer` (it took a
preview made before the load it asked for last, `awaited`, for the answer; every display state carries
the number of the control handled last, `upTo`), `undoneSeam` (an undo took the stroke a placed
primitive had inherited its start from), `crossed` (the mode changed under a held pen), `redelivered` (a
message got away although its send raised), `loadFailed` (a load failed, or a load or a clearing was
lost, also in a session turned away, or refused with its message), `unseenInput` (input arrived that the
reported loss did not see), and the numbers of controls handled, refused and lost.

## 3. Runs

Mutants of the code, one or more for every property, stand beside the definitions they replace and
are listed in PROJECT.json.

| run | instance | distinct states | what it shows |
|---|---|---|---|
| `hw` | client of 4 commands, every token, chunks of 1 and beyond capacity; drive faults, throwing calls and e-stops, stops from outside; fair loop | 0.65 million | `StreamsMotion` (implements `MotionStream`), `ThresholdsAscend`, `DeferredResetRecovers` |
| `sys_safety` | one goal of two points, 2 stops, 2 resets, drive faults | 1.9 million | safety of controller and plugin |
| `sys_pipeline` | two goals of one point, a closing frame behind each move, 1 reset, drive faults | 1.4 million | `CompletionTracksGoals`, `KeepsGoalContract` (implements `GoalContract`) |
| `sys_live` | one goal of two points, 1 stop, 1 reset, drive faults, fair | 0.2 million | `EveryGoalEnds`, `ReleasedStopRecovers` |
| `draw_safety` | 2 presses, samples at will, every service and planning call may fail, the guard may trip | 2.6 million | safety of the draw plane's threads |
| `draw_live` | 3 presses, no queue of poses, the same failures, fair | 0.2 million | `ExecutionEnds`, `StrokesDrain` |
| `chain` | 9 waypoints, stroke and batch chains, planning of 0 to 2 ticks that may fail, a parameter that is refused or served unnoticed, 1 stop, fair | 0.4 million | a chain of goals, and that a hand-back drains |
| `desk` | 4 commands, 4 drawings, one of which leaves the disc, 1 bundled recipe, 3 senders | 35 thousand | drawings, recipes, calibration and senders |
| `client` | 3 points, 2 recipes, an effort of 12 (four loads or executions, say), 1 drop or silence | 1.9 million | the client's drawing, controls and session |
| `claim_stop_is_no_fault`, `claim_release_after_stop`, `claim_undone_seam` | two goals, 1 stop, 1 reset; one goal, 1 stop, 2 resets, throwing calls; nine inputs without recipes | - | the three claims below |

**Controller and plugin.** A successful goal was executed to its last point (`SucceededWasExecuted`);
once a Stop is consumed nothing is queued and the group does not move (`StoppedStaysStopped`); a Reset
never meets a moving group (`ResetFindsGroupAtRest`) and the reopen latch agrees with the firmware
(`ReopenLatchAgrees`), both unless a release overtook a stop; while a fault is latched nothing is set
moving (`LatchedFaultHoldsMotion`); an `EStop` that throws may leave the group moving, and these four
say so (`cause`); a command that was not consumed is overwritten only after a write fault
(`UnackedCommandSurvives`). `StreamsMotion` and `KeepsGoalContract` are refinements. The stream of the
first is what the firmware holds, without the closing frames it added itself, and behind it the FIFO; a
faulted group has none, and of a stopped one only the chunks queued behind a Reset that waits for it
count: what will be discarded is never continued.

**The draw plane's threads.** Silence lets one pose through (`AtMostOneLatePose`). While strokes are
drawn or drain, the pointer does not drive the arm (`ServoRestsWhileDrawing`). A stop in Live that
has been carried out leaves the flags of both live routes dead until a reset (`StoppedLiveHolds`); what is
already out, a late pose, goals at a controller whose stop service failed or a batch item, is not its
subject. A chain runs in Live only, and only while strokes are drawn or drained or a stop collapses it,
unless its session was overlooked (`ChainOnlyInLive`); a reset does not release the latch under one
(`ResetFindsNoChain`). An execution ends or is reported stopped (`ExecutionEnds`); drawn strokes
drain back to Servo, unless their wake fell into a cool-down or their session broke (`StrokesDrain`).

**A chain.** The open move starves only behind a goal shorter than planning may take
(`StarvesOnlyBehindShortGoal`); every goal's seam is what its retiming assumed (`SeamsMatchFinalize`),
both unless a `set_finalize` that timed out was served; nothing is left open however the chain ends
(`NoMoveLeftOpen`); the pen is down only along the polyline (`PenFollowsPolyline`); a hand-back drains
(`HandbackDrains`).

**Drawings.** What the loader previews is what the sender draws (`PreviewIsWhatRuns`); a saved drawing
comes out where it was drawn on a board that has moved (`SavedDrawingFollowsBoard`); the pen of an
execution stays in the working area: a loaded recipe with every sample, a submitted drawing with its
points, while a sample of its curve may leave it between two points that do not, and not far from their
middle (`PenStaysInWorkingArea`); the goals follow the path (`SentFollowsPath`); the speed carried over
a seam can be started from and braked, with or without a successor (`SeamSpeedIsFeasible`); two passes
find the fastest profile, compared with its definition as a minimum over all waypoints
(`ProfileIsFastest`).

**The client.** Merging chained strokes neither loses nor adds a line (`PayloadIsTheDrawing`); a
capture is one press (`CaptureIsOnePress`); controls are accounted for and in order
(`NoControlForgotten`, `ControlsArriveInOrder`); Execute runs the recipe the canvas showed
(`ExecuteRunsWhatIsShown`); an execution left alone is stopped (`LossStopsExecution`).

### Bounds

`MaxStops`, `MaxResets`, `MaxPresses`, `MaxCommands`, `MaxSteps` and `MaxDrops` bound only the
operator and the environment; `MaxWork`, `MaxEvents` and `MaxPoints` bound queues and inputs that the
code does not.

- Controller and plugin: two stops and two resets are what it takes for a request to be pending
  across another call; one goal of two points needs two chunks, so that a stop, a fault or a reset
  can fall before, between and after them; two goals are what pipelining needs. The buffer holds one
  chunk in the system runs, so the FIFO is used, and the out-of-frames threshold is 1. The FIFO cap
  is met in `hw` only: there the client ignores what it has been told, as no
  controller does.
- Controller and plugin, continued: calls throw, the e-stop among them, in `hw` and in the claim's run;
  the system runs leave that out, and the theorems do not. The closing frames the firmware adds are in
  `sys_pipeline`, where completion is told by counting frames. `sys_pipeline` has no `~/stop`: of stops
  `sys_safety` and the theorems `CompletionMatches` and `KeepsContract` speak.
- Threads: `draw_live` has three presses, which reach stop, reset and another start, or a mode change, an
  execution and a stop; no pose is queued in it, as neither of its properties is about poses. `draw_safety`
  has two, which reach a stop and its reset, and a mode change and a stop; there a live queue of one has
  "empty", "full" and "over the limit". Samples are unbounded. Two
  waiting route events are enough for one of them to be stale.
- Chain: goals of three waypoints and nine waypoints in all give three windows and remainders of one
  and two; the close margin of four ticks is above a goal's three and above the two that planning
  takes, as `chain_close_margin` (0.75 s) is above `stroke_goal_seconds` (0.25 s); two goals in flight
  are the code's default.
- Desk: an extent of 30 by 10. The start-up check wants it inside the working area; the disc is as tight
  as that allows (16 for corners at 15.8), so that the curve of a turn along the board's edge leaves it
  and a recipe scaled by four does. Three offsets, one out of reach; three of the four quarter turns;
  four commands are calibrate, save, calibrate, load, or load, calibrate, load, execute.
- Client: the operator and the environment share an effort of 12. A load, an execution or a clearing
  counts 3 and any other control 4, as the order of the former is what matters most; an input of the
  pointer counts 2, a drop or a silence 4. So the run has four controls of recipes, which is what it takes for
  an older preview to answer a load, or two controls, a drop and an input, or six inputs. The claim's run
  has an effort of 18, no recipes and no drop: nine inputs.

Symmetry is used for points and recipes of the client: they are compared for equality only, and no
temporal property is checked in these runs.

Deadlock is checked in the controller, plugin, draw plane and chain runs: there the clock, the loop or
the operator can always do something. In `desk` and `client`, and the client's claim, the operator stops
at the bound, and they say `CHECK_DEADLOCK FALSE`.

### Fairness

`sys_live`, `hw`: the control loop is periodic, the firmware executes frames, finishes moves and
settles, the executor finishes its callback; each is weakly fair because it is a clock or a thread that
nothing blocks. `draw_live`: the coordination thread goes on with its pass and with the handler it is
in, service calls return (they have timeouts), whatever they return, the batch and stroke threads keep
running (both loops catch every exception), the cool-down is a clock. Strongly fair is one thing: while
strokes drain no point arrives, each window takes its points from the intake, so one of them is the
last. The live thread owes nothing, as neither liveness property needs it. `chain`: planning calls
return and time passes. Operators, clients, drive faults, losses and the monitor's ticks owe nothing.

### Where the code does not do what it says

Each is a run that expects a counterexample.

1. `claim_stop_is_no_fault`. HW 1442: "error_code stays 0: this is an operator action, not a fault".
   Stop and reset are serviced while the group still decelerates; the next goal's BEGIN then makes
   `DrainQueue` read the plugin's own e-stop as a drive fault and forget the recovery it owed. The
   test at `src/rapidcode_system/test/test_rapidcode_system_passthrough_controller_motion.cpp:758`
   states the same expectation and waits long enough never to meet the case.
2. `claim_release_after_stop`. CTH 280: "ordered after the pending Stop so a release can never overtake
   the stop itself". A reset request is looked at when it is made and stored afterwards. In the run's
   counterexample a write fault is latched while a goal is being accepted: the fault's own drain of
   `incoming_` is over when the goal gets there. One `~/reset_fault` clears the fault; a second one, made
   while the fault was still to be seen, is stored after that. The goal is adopted and moves. Then comes
   the run's only `~/stop`, which stores the latch and then the request; the `update()` between the two
   finds a latch, no Stop owed and the stale request (CT 933), emits Reset and drops the latch. The Stop
   that is then requested is not looked at until the next latch; the goal is aborted, but the group keeps
   moving, and the Reset clears the FIFO under it. With two stops and no fault the claim holds: a goal
   accepted before the first stop is aborted by it. `overtaken` marks the behaviours in which this happened.
3. `claim_undone_seam`. `drawing_store.py` 50 says of a chained stroke that "its first point is the
   previous stroke's last". An undo between the clicks of a chained arc leaves the end it was
   seeded with in place; the arc is stored as chained to a stroke it does not touch, and what is
   submitted has a line nobody drew. (A chained line needs one click and cannot be interrupted.)

## 4. What holds only with an exception

Some properties carry a disjunct that says when the code does not keep them. These are the
behaviours behind them, and others met on the way for which there is no property, because none is
true and no comment promises one.

Controller and plugin:
- The flags of a commanded stop outlive it: a second Reset that finds ERROR clears it, and a stop on
  a group already in ERROR takes that fault for its own (HW 1445, 1506).
- With stops from outside (`ExternalStops`) the first of these breaks `SucceededWasExecuted`: a reset that
  comes too early is deferred, a second one clears the group but leaves `stopRecoverPending` set, and a
  later external stop of a running goal is cleared at once by `DrainQueue`. Its frames are gone, its
  counters run on, and the goal is reported as a success. The system runs leave external stops out.
- A reset request is one flag: accepted for one latch, a stop's or a fault's, and still pending, it
  releases the next (CT 893), and it may overtake it (`claim_release_after_stop`).
- An `EStop` that throws is taken to mean that the group is faulted already. If it is not, the handler
  goes on all the same: HW 1538 latches a fault and HW 1454 acknowledges a Stop over a group that moves
  until its frames run out (`cause = "unstopped"`).
- The monitor reads `terminal` after flushing, so a goal that ends in between is erased
  before its result is delivered (CT 662).

Stopping and resetting the draw plane:
- A stop outside Live is undone by the batch thread if it falls before `_clear_latch`; and an item
  that was waiting when the operator stopped runs on after a reset.
- The stroke route builds one `GoalPipeline` and never resets `failed`: once a stop has aborted a
  goal, every later chain is refused until the bridge restarts (SS 559).
- A stop whose service call failed is not tried again: `stopped` is set, the controller is not
  latched.
- `active` (SS 330-333) looks at busy, the request and the intake one after another. A session that is
  entered behind the first look, and whose chain has taken its window before the last, is missed: the mode
  changes to batch under a chain (`overlooked`).
- A drain report is stale when it is handled after a pen-down and a pen-up: DI 462-470 ignores it only if
  strokes are drawn again, not if they already drain again. Servo gets the arm back while the second
  session's chain runs (`overlooked`).
- In the cool-down after goal 0 did not plan, SS 343-346 consumes a wake and does nothing. Points wake the
  thread again, but a hand-back is the last wake there is: its strokes never report that they have
  drained, against SS 277-281 and DI 208-211, until the pen is put down again (`NobodyDrains`).
- A session that breaks by an exception while the pen is down empties the intake and reports drained at
  once, which is ignored then; the hand-back that follows asks for no session (SS 277-281), so nothing
  reports until the next stroke (`sessionBroke`).

Chains and senders:
- In the batch sender a refused `set_finalize` returns with the goal before it unfinished; the move
  starves (SPS 713). `ParamFaults` therefore names the stroke client only in `chain`, and the theorem
  `NothingLeftOpen` assumes the batch client is not in it.
- With one goal in flight the pipeline waits for the end of a goal before it sends the next, so every
  open move starves. The streamed sender accepts `--max-inflight 1` (SPS 379) and the bridge does not
  check its parameter; `NeverStarved` assumes two. It also assumes `CloseMargin > PlanTicks + 1`: the
  thread looks once per poll, so a margin of just the planning time may be seen a poll too late.
- A window cut short, because the pen was slow or a drawing ended, may be shorter than planning its
  successor takes; the move then starves (`shortGoal`). A window that does not plan is dropped and
  closes the chain; the next chain goes on behind it, straight and with the pen down (`windowLost`).
- If a chain were closed only a poll before its motion runs out, a stop could fall after the motion and
  before the poll that sees it end: it finds nothing to abort, `failed` stays clear, and the stroke route
  keeps a cached "false" while the next execution restores `true`; the next goal meant to flow on is then
  accepted as final. The default of 0.75 s against polls of tens of milliseconds excludes it;
  `SeamsMatch` assumes it (`CloseMargin > 1`).
- `set_finalize` waits five seconds and leaves its cache alone when nothing came (SPS 484-488), but the
  controller may have served the request. A chain closes with the cache at `true`, the next one's
  `false` times out though served and the chain fails; after a reset a chain of one goal, planned to end at
  rest, finds `true` in the cache, sends nothing, and its goal is accepted as open and starves (`served`).
- A refused parameter leaves `FinalizeSwitch.current` of the stroke route behind what an execution sets
  and restores in between; a goal meant to flow on may then rest (`refused`), never the other way round.
- A submitted drawing is clamped to the extent and cut at the disc point by point; the sender's curve
  through those points may overshoot both. On the board of `desk` the turn (19, 5), (-11, 5), (-11, -5),
  (19, -5) has a pen-down sample at (-12.6, 0), 16.6 from the centre of a disc of 16, which the start-up
  check accepts.
- A streamed drawing whose later goal does not plan is closed at rest and reported as a success
  (SPS 697-732): `SentFollowsPath` lets only the streamed sender do so.
- The cool-down of a second after goal 0 did not plan is looked at between sessions, not between the
  chains of one session.

Client:
- The capture outlives the press when the display changes the mode while the pen is held (`crossed`).
- A zero-length line or arc makes `decode_input` refuse the whole message, a stop in it included.
- Controls in transit when the connection drops are lost, without a word to the operator; a send
  that raises after its message got away delivers them twice.
- Controls are queued again after a failed send so that they are "delivered on reconnect instead of being
  lost" (SC 370). But the handshake of a new session always succeeds, and while the bridge holds the old
  one it closes the new one without reading (UI 71-75): the client's first message, those controls
  included, was sent without an exception and is lost.
- A recipe and a drawing exclude each other on the canvas only as long as no answer is late; an
  Execute while a load was refused or lost runs the recipe loaded earlier, and a clearing that was lost
  leaves the recipe loaded.
- An answer is recognised by its name alone (SC 458): load A, load B, load A again, and the preview the
  first load caused answers the last one. When the preview of B comes the canvas shows B, though A is
  what the bridge is about to load, and an Execute pressed then runs A (`earlyAnswer`). "The canvas
  shows one thing at a time, and Execute runs that thing" (`src/rapidcode_draw_plane/README.md:46`) then
  holds again only after A's own preview.
- The watchdog reports the edge only: input that arrives between the loss and the next session, and
  starts an execution, is not stopped (`unseenInput`).

## 5. Proofs

TLAPS checks these for every value of the constants; the `ASSUME`s of the modules are the only
assumptions (sizes are numbers, a chunk fits in the buffer, a goal has a point, coordinates and yaws are
whole numbers, scales are positive, the start-up check passed, the bundled recipes are recipes);
`SuccessIsExecution`, `NothingLeftOpen`, `SeamsMatch` and `NeverStarved` state more of their own.

| theorem | module | statement |
|---|---|---|
| `TypeCorrect` | `HardwareUnderClient_proofs` | the plugin keeps its types under every client |
| `ThresholdsAlwaysAscend` | `HardwareUnderClient_proofs` | completion thresholds ascend strictly under every client |
| `SystemTypeCorrect` | `TransferSystem_proofs` | the assembled system keeps its types |
| `FaultHoldsMotion` | `TransferSystem_proofs` | `LatchedFaultHoldsMotion`: while `error_code` is set nothing sets the group moving, and it moves only if the `EStop` threw |
| `StopHolds` | `TransferSystem_proofs` | `StoppedStaysStopped`, with the same exception |
| `ResetsFindRest`, `ReopenLatchFollowsMove` | `TransferSystem_proofs` | `ResetFindsGroupAtRest`, `ReopenLatchAgrees` |
| `CommandsSurvive` | `TransferSystem_proofs` | `UnackedCommandSurvives` (an action property) |
| `KeepsContract` | `TransferSystem_proofs` | `KeepsGoalContract`: the system implements `GoalContract` |
| `CompletionMatches` | `TransferSystem_proofs` | `CompletionTracksGoals` |
| `SuccessIsExecution` | `TransferSystem_proofs` | `SucceededWasExecuted`, if only the plugin stops the group (`ExternalStops = FALSE`) |
| `TypeCorrect` | `DrawPlane_proofs` | dispatcher, routes and services keep their types |
| `OneLatePose` | `DrawPlane_proofs` | `AtMostOneLatePose` |
| `ServoRests` | `DrawPlane_proofs` | `ServoRestsWhileDrawing` |
| `StopHolds` | `DrawPlane_proofs` | `StoppedLiveHolds`: the flags of the two live routes are dead, not that the arm is still |
| `ChainsInLive`, `ResetsFindNoChain` | `DrawPlane_proofs` | `ChainOnlyInLive`, `ResetFindsNoChain` (an action property) |
| `CaptureOfOnePress` | `ClientSession_proofs` | `CaptureIsOnePress` |
| `LossStopsWhatItSaw` | `ClientSession_proofs` | `LossStopsExecution` |
| `ControlsAccounted` | `ClientSession_proofs` | `NoControlForgotten` |
| `ControlsInOrder` | `ClientSession_proofs` | `ControlsArriveInOrder` |
| `ExecutesWhatIsShown` | `ClientSession_proofs` | `ExecuteRunsWhatIsShown` |
| `PayloadOfDrawing` | `ClientSession_proofs` | `PayloadIsTheDrawing` |
| `TypesHold` | `GoalChain_proofs` | a chain keeps its types, and no empty window is planned or sent |
| `NothingLeftOpen` | `GoalChain_proofs` | `NoMoveLeftOpen`, if the batch client's `set_finalize` is never refused |
| `SeamsMatch` | `GoalChain_proofs` | `SeamsMatchFinalize`, if a chain is closed more than one poll before its motion ends (`CloseMargin > 1`) |
| `NeverStarved` | `GoalChain_proofs` | `StarvesOnlyBehindShortGoal`, if the close margin covers a poll and a planning, two goals may be in flight and the batch client's `set_finalize` is never refused |
| `PenFollows` | `GoalChain_proofs` | `PenFollowsPolyline` |
| `DeskInvariant` | `DrawingDesk_proofs` | `DeskHolds`: what the desk's recipes and a sender's goals are |
| `SentGoalsFollowPath` | `DrawingDesk_proofs` | `SentFollowsPath` |
| `SeamSpeedFeasible` | `DrawingDesk_proofs` | `SeamSpeedIsFeasible` |
| `ProfileFastest` | `DrawingDesk_proofs` | `ProfileIsFastest` |
| `PreviewRuns` | `DrawingDesk_proofs` | `PreviewIsWhatRuns` |
| `SavedFollowsBoard` | `DrawingDesk_proofs` | `SavedDrawingFollowsBoard` |

**Controller and plugin.** `RapidCodeHardware_proofs` and the first part of `TransferSystem_proofs` hold
the lemmas: every step of the plugin and of the controller keeps the types whatever the other does, so
both theorems on types reuse them. The controller needs one strengthening, `PointsLeft`: the goal being
fed has a point left, or the length of the next chunk would not be a natural number.
`LatchedFaultHoldsMotion` is not inductive: a fault may be latched by the `DrainQueue` that runs first
in `write()`, and the command in the slot is consumed afterwards; it may even be a chunk. `FaultHoldInv`
says why this is harmless: `update()` took the branch that fits `error_code` (`BranchFitsError`), so a
write that starts latched has at most a Reset to consume (`OnlyResetWhileLatched`); a chunk consumed
after the latch finds the group faulted (`LateChunkFindsFault`); and the second `DrainQueue` empties the
FIFO again before that write ends (`QueueEmptyWhileLatched`).

`StopInv` does the same for stops. `MailboxKept`: a command waits in the slot across a read and an
update only after a write that faulted. `StopKept`: once the Stop of a latched stop is no longer owed
(requested, or waiting in the slot), nothing moves but what an `EStop` that threw left moving, and
nothing is on its way that could: no chunk in the FIFO and none in the slot (`Quiet`). `ReleaseKept`: a
release passes over such a latch only, or over a `~/stop` between its two stores (`overtaken`), so the
Reset it emits finds a group at rest or one left moving. `ReopenLatchAgrees` follows the move through
the plugin's commands.

`KeepsContract` maps every step of the assembled system to a step of `GoalContract` or to a stutter. The
goals in the controller's four queues, those that were begun before those that were not (`Order = Begun
\o Unfed`), are the contract's goals in their order of acceptance; `GoalsKept` says that each of them
was sent by a client, that a goal not yet sent has no result, and that the executor is about to accept
only such a goal. What `update()` ends is the front of that order (`FrontEnds`). The lemmas before it
say what taking a prefix, a head or a goal out of a sequence without repetition leaves.

`CompletionMatches` says that the two sides, which share no counter, still agree on which trajectories
are unfinished. `Numbered`: ids ascend through completions, thresholds, the BEGIN in the slot and the
goals begun, and a BEGIN is of the goal being fed (`Commands`). `Synced` is the agreement itself: the
first goals begun are completed and the rest have one threshold each, the last perhaps its BEGIN
instead (`InStep`); or no goal is begun and what makes the plugin forget its thresholds is on its way
(`StopUnderWay`). A BEGIN and its threshold change hands in `write()`, a retirement lags its
completion, and a stop clears the controller's queues a cycle or more before the plugin's: `UpdateKinds`
and `HardwareKinds` sort every step by what it does to either side, and `LatchFindsNone` says that
once the Stop of a latch is out, no goal is begun under it. That no goal is begun twice (`HeldOnce`)
is read back from `KeepsContract`. No assumption is needed: stops from outside, faults at any point and
refused calls included.

`SuccessIsExecution` is the longest argument of the project, because nothing in the code follows a
point: the controller compares ids, the plugin compares frame counts, and only the model's labels on
chunks and frames say whose they were. `Executed` ties the three together.
- `Flow` is about the counts. `Accounted`: frames fed, in the FIFO, in the slot and still owed by
  `update()` (`Outstanding`) never exceed `cumulativeExpectedFrames`, and each chunk in the FIFO has the
  threshold of its own trajectory at or behind the count at which it will have been fed. That count is
  a function `F` that exists, as a sum over the FIFO would need an induction. `Covered`: the same for a
  frame in the firmware; so what is not executed lies before a threshold that is not passed. `Counted` and
  `Rest` say that the counters are those of one move, and that a group at rest has no frames.
- `Labels`: what is on its way, or was discarded, is of a trajectory the controller has begun, never of
  one to come.
- `NotLost`: without a latched fault no goal that is still begun has lost a point. What is discarded
  belongs to a Stop, a Reset or a fault, and those find or leave no goal.
- `Settled`: nothing on its way is of a goal that has succeeded. `PassedIsGone` is the step that matters:
  a begun goal at or below `completedId` has no threshold left (`Numbered`), so by `Flow` nothing of it is
  in the slot, the FIFO or the firmware, and by `NotLost` nothing of it was discarded.

`HardwareMoves` and `UpdateKinds` sort the steps, so each conjunct is followed through a handful of
cases. The assumption cannot be dropped: with stops from outside the property is false (section 4).

**The draw plane's threads.** One inductive invariant, `IInv`, serves all five properties; each conjunct
that is not a property says what a thread that is under way still knows. `LatePoses`: one pose may be
late only while the tick is between reading and recording, so the tick in hand is the only one.
`StrokesServed` needs no dispatcher: what the intake holds, and a stroke that is open, is served by a
session that is asked for, about to be entered or running, so a stroke seen after three looks that found
nothing was entered between them. `Drawing`: strokes are in the intake or on the arm only where they may
be (`StrokesAllowed`: in Live, drawn, drained or stopped), but for those of a session that was
overlooked; a look that finds nothing has either seen what there is or a session was entered behind it.
`Stopping`: a stop in Live has silenced Servo before its first call and emptied the intake after its
second, whichever call it waits for now; a reset that is being served has found no chain, and none can
start as the intake is empty. One lemma per thread and per part keeps it.

**The client.** Six invariants. `OpenCapture`: a capture that is not of the present press was crossed by
a mode change. `SeenLoss`: after a reported loss that saw all input nothing is queued, and an execution
is stopped. `Accounted`: the controls numbered up to `issued` are those in the queues (`Queues`) and in
the history, those sent into a session that is turned away among the lost, and each queue is a sequence
of controls; the lemmas on `Ids` say what heads, tails and concatenations do to a queue's numbers.
`InOrder` strengthens `ControlsArriveInOrder` to the whole way of a control: what was handled is older
than what waits at the bridge, that than what is in transit, that than what is being sent, that than
what is queued, and each of them ascends by itself (`Ascends`, `Flows`). With `Accounted`, a control
just issued is younger than all of them. Re-queueing keeps the order because what failed goes to the
front; numbers that a failed send delivered after all are left out of it. `OrderKept` is the lemma on
queues. `Foreseen` strengthens `ExecuteRunsWhatIsShown` and rests on both: as long as nothing excuses
another recipe there is a function `expect` from control numbers to the recipe the bridge will have
loaded by then (`Expected`). Only a load or a clearing still under way changes it, so what other
controls do, or that they get lost, does not matter (`OthersMayGo`); the display states, which carry the
number they were made at, show what it says (`Shown`); and the client's guess, the load it awaits or
else the last preview, is its value for the control issued last (`Guessed`), for which a load must be
given up only for a preview made after it. This is where `earlyAnswer` was found: without it `Guessed`
is not inductive, and TLC reached the counterexample with four controls. `Drawn` is about the drawing
itself: a chained stroke starts where the one before it ended (`Meets`), in the list of strokes and, as
it will once retained, for the points being placed (`Seeded`), unless a stroke was undone under them.
What `Payload` merges is then a fold over the strokes, and `InkOfSent` follows it from stroke to stroke:
the lines sent so far are those of the strokes seen so far.

**Chains.** `Stages` says what a thread holds on its way to sending a goal: it plans a window that is
not empty, and a goal that is not the last has its successor planned. `Closing` strengthens
`NoMoveLeftOpen`: an open move has something to execute, a latched controller has nothing, and a failed
execution was aborted by a latch. The lemmas `Windows` and `StartTypes` say what cutting a window off a
sequence returns. `SeamInv` strengthens `SeamsMatchFinalize`: a client whose cache disagrees with the
controller's parameter has had a refusal, or a request served after its timeout (`Caches`), is not the
one whose execution is running, or cannot get a goal accepted as `failed` is latched (`Latched`,
`OpenRoute`). This is where the assumption comes from: a stop must find the chain's last goals still
running to be noticed. `Covered` gives each goal of the motion the number of ticks ahead of it, as a
function that exists, because a sum over a sequence would need an induction. `Traced` and `Following` do
the same for the polyline: what was sent, what is planned and what waits in the intake continue each
other (`Joined`), and `JoinedPaths` says that cutting and appending keeps that.

`NeverStarved` is a race between two clocks, the motion and the planner, as long as no request was
served after its timeout. `Fed` says how much motion is left at each stage of the thread: while it
plans, what is left and what has been planned make more than a planning; before a poll, a poll and a
planning more. `Covered` turns that into goals: the last tick of the last goal has no slack
(`SlackIsMotion`). The three assumptions are tight: with `CloseMargin = PlanTicks + 1`, with
`MaxInflight = 1`, or with refusals for the batch client TLC finds a move that starves (section 4).

**The desk.** `DeskHolds` has two parts. `Materials`: a loaded recipe is anchored and turned as the
present board is, and what is in the file is what `ToRecipeStructure` made of `savedRuns` on some
board. `Sending`: the goals cut the path at its waypoints (`Sliced`), those sent are the first of
them, and while one is planned or about to be sent it can be entered at the speed carried to it,
whether or not its successor plans (`CanStart`). That last conjunct is the strengthening
`SeamSpeedIsFeasible` needs: the property speaks of the stage before a send only, and the speed was
fixed a goal earlier. The rest follows from what the functions compute.

- The profile of a window: `FastestProfile` says that the two passes compute a feasible profile and that
  no feasible one is faster at any waypoint. `ProfileIsLeast` follows: the least of what all limits
  allow is itself feasible, and no feasible profile exceeds it. So does `SeamIs`: the tail of a
  profile behind a seam, followed by rest at the next one, is a feasible profile of the next window
  that starts with the carried speed, so the fastest one starts with it as well, however the
  successor's waypoints change the caps at the end (`SameSpeeds`).
- The preview: loader and sender each keep some points of one list by a fold. They keep the same ones
  (a height is below the travel height before the anchor is added or after), so two folds that keep the
  same elements stay in step (`GatherInStep`), and what each keeps of a point is one place on the
  board, since turning, scaling and turning again is scaling and turning by the sum (`TurnedTwice`, over
  the sixteen pairs of quarter turns).
- The saved drawing: each point of a run is drawn by a segment of its frame (`FrameIs`), the curve
  through a run keeps its points (`CurveIs`), a flattened list keeps the elements of its parts
  (`FlattenHolds`), and what a fold once kept is there at its end (`GatheredIsThere`).

Each invariant was first checked by TLC. Only model-checked are three things. The refinement of
`MotionStream`: its mapping filters and concatenates. `PenStaysInWorkingArea`: how far
the curve overshoots (section 4) is a matter of numbers, products and quotients of coordinates, of which
its last conjunct gives a bound. And everything temporal: liveness under fairness is
out of the prover's reach. The library's induction theorems take an operator, which the provers cannot
instantiate; an induction up to a number is possible all the same, over a set of numbers, as every
set of naturals has a least element (`LeastNatural`, `UpTo`); a fold, a sum or a flattened sequence
is then shown to be the value of a function that exists (`FoldExists`, `SumsExist`, `FlattenRuns`).
No module declares a recursive operator.

## 6. Not modelled

- The controller's online stream (`ServiceOnlineStream`, fill gate, splices, stop tails): it decides
  on sampled motion in floating point, which every module here abstracts from; without it the two
  atomics that arbitrate action and online streams have one user. Trajectory preparation
  (interpolation, `GateBandToPoints`) is floating point as well.
- The lifecycles of controller and plugin: callbacks between the loops modelled here. The handshake
  across a reloaded controller is the part that would be worth a model.
- In the modelled parts of the controller: `ReadStateValue` answering 0 when an interface cannot be
  locked (CT 491); `SetCommandValue`, which may fail for one interface and not for the next, so
  that a slot is written in part (CT 496-503): `Emit` writes it whole; the abort of a goal that
  `RemapTrajectory` refuses (CT 1326-1333), which none reaches: `HandleGoal` has checked the joints and the
  structure it looks at; a cancel request, which sets a flag nothing reads (CT 1318); the accepted point
  index, which nothing reads. `is_moving` is modelled, but only scripts read it.
- In the draw plane: joint and pose arithmetic, resampling, rounding in files, decimation of the
  preview, view state and readout of the client, ROS parameters, start and end of the process. The
  pointer samples a message carries are not followed in `ClientSession`: they change neither the mode
  nor a recipe (`DrawPlane` has them).
- A `set_finalize` that the controller serves only after the client's next one: `served` is one that was
  served before.
- Orientation, inverse kinematics, B-splines and the other segment kinds of the senders; the Pilz and
  single-trajectory senders; the scripted client, jog and inspection scripts; launch and deployment.

## 7. Plan

1. `ControllerLifecycle`: activate, deactivate (the Stop that overwrites the slot), reload, with the
   plugin's `on_activate`; the handshake across instances.
2. `OnlineStream` with depths as numbers: the fill gate and the arbitration, composed with the plugin.
3. Composition of `GoalChain` with `TransferSystem` through `GoalContract`, in place of the
   controller's four variables there.
