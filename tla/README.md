# Verification of the X1 inference stack

This directory holds TLA+ models of the control software of the AgiBot X1
humanoid (the modules under `src/src/module/`), the TLC configurations that
check them on small instances, and TLAPS proofs of their main properties for
every instance.

## 1. The system

The process is one AimRT runtime that loads modules. `x1_cfg.yaml` runs
JoyStick, Control and DcuDriver on the robot; `x1_cfg_sim.yaml` runs Control and
Sim. Modules talk over topics; a topic's callback runs in a thread of the
framework, the periodic loops in executors of their own.

| Component | State it keeps | Operations | Interacts with | What is hard |
|---|---|---|---|---|
| StateMachine (`state_machine.h`), Throttler (`utilities.cc`) | `current_state_name_`, `controllers_`, the time of the last trigger | `OnEvent`, `GetCurrentControllerNames` | called by the trigger callback and by MainLoop | the name and the list change in two steps; the throttle has a side effect also when the trigger is rejected |
| PDController, Interpolator | `start_joint_angles_`, `trans_mode_percent_`, `data_`, `current_row_`, `construct_flag_` | `RestartController` (callback thread), `Update`, `GetJointCmdData` (loop thread) | `joint_state_data_` from a third thread | all but the joint state is shared without a lock |
| RLController | `is_first_frame_`, `loop_count_`, filters, observation history, actions | the same three | onnxruntime | a restart only sets a flag; the next inference may be `decimation` cycles away |
| ControlModule | `run_flag_`, the message being filled | the trigger, joint state, imu and velocity callbacks, MainLoop at 1 kHz, Shutdown | all of the above; publishes `joint_cmd` | three kinds of threads over the controllers; a list replaced while it is being run |
| DcuDriverModule | `is_running_`, joint and actuator data spaces | InitDcu, Start, Shutdown, PublishLoop, JointCmdCallback | XyberController; publishes joint states and imu | a callback that overlaps Shutdown, a failure among many actuators |
| XyberController, Dcu, actuators | the send and receive buffer of every DCU | enable, disable, MIT commands, feedback | buffers shared with WorkLoop under two mutexes | requests and commands share frames and one control byte per channel; polling with a timeout |
| EthercatManager | `is_running_`, `wkc_error_`, the state of every slave | Start, Stop, WorkLoop, ErrorHandler | SOEM, the DCUs | start-up to OP, recovery of lost slaves, Stop against a pass of ErrorHandler |
| Transmissions, PowerFlow codec | `joint_data_space_`, `actuator_data_space_`, the ankle's table and matrix | joint to actuator and back; packing of commands | JointCmdCallback and PublishLoop | readings stored outside the lock; table edges; bit fields |
| JoyStickModule | `joy_msg_`, the state of the velocity limiter | event thread, MainLoop, Shutdown | SDL; publishes triggers and velocities, whose callbacks run in its thread | hot plugging, the handshake at shutdown, a held button in front of a throttle |
| SimModule | MuJoCo model and data | Start, command callback, render thread, Shutdown | the viewer | a load that two threads hand to each other, data freed in use |
| MuJoCo viewer (`simulate.cc`) | pending requests, history ring, camera, perturbation | frames: events, Sync, Render | SimModule, GLFW | requests applied frames later and in another order, one mutex for all |

What makes each correct:

* **Mode switching.** A published command is the work of one mode, never a
  mixture; an accepted trigger takes effect, is followed by a restart of the
  mode's controllers, and reaches the motors; ramps start at zero and end; every
  mode can be left for idle; a policy starts only from a standing pose.
* **Driver.** No motion before all actuators are enabled; no left-over request
  is sent as a command; after Shutdown the actuators are off; Shutdown returns.
* **Data path.** A network configuration that passes the checks of InitDcu serves
  every listed actuator; a joint command comes back in the joint states of the
  joint it was for.
* **Bus.** ErrorHandler stands down only when all nodes are in OP state; a node
  that is not is brought back or the link is reported; Stop ends, and no late
  request takes a slave back to OP.
* **Joystick.** The message mirrors the device; a held START reaches idle; a
  centred stick stops the policy in force; Shutdown ends.
* **Simulation.** Start ends and leaves a model; commands are answered while the
  user does anything; history, camera and panel show what is in force.

## 2. Modules

| Module | Models |
|---|---|
| `ControlConfig` | what Initialize reads from the yaml file, as constants with their assumptions |
| `StateMachine` | the throttle, `OnEvent` in its two halves, the restart loop of the trigger callback |
| `PDController`, `RLController` | the shared fields of the controllers and the steps of their methods |
| `ControlModule` | the three threads over them: callback steps, MainLoop steps, joint states, time, Shutdown |
| `ModeSwitch` | the abstract specification: what the user of the control module sees of a mode change |
| `X1Config` | the shipped mode graph, controller lists and joint groups (`rl_x1.yaml`) |
| `MCControlModule` | instances for TLC: parts of the X1 configuration |
| `ControlModuleProofs` | theorems about `ControlModule` |
| `Dcu` | the buffers of the DCUs, the actuators behind them, and every critical section on them |
| `DcuDriver` | the framework's thread (InitDcu, Start, Shutdown), PublishLoop, JointCmdCallback and WorkLoop over `Dcu` |
| `ActuatorLife` | the abstract specification: what the driver promises about the power of its actuators |
| `MCDcuDriver` | an instance of two DCUs |
| `DcuDriverProofs` | theorems about `DcuDriver` |
| `EthercatManager` | the bus: Start with InitMaster, WorkLoop, ErrorHandler, Stop, and the slaves |
| `EthercatManagerProofs` | theorems about `EthercatManager` |
| `JoyStick`, `MCJoyStick` | the event thread of `Joy`, MainLoop with the limiter, Shutdown; an instance |
| `Teleop`, `MCTeleop` | `JoyStick` composed with `StateMachine` and the velocity callback; the shipped buttons and mode graph |
| `JoyStickProofs`, `TeleopProofs` | theorems about the joystick alone and in the composition |
| `Viewer` | `mj::Simulate` and its UI adapter: frames, events, Sync, load |
| `SimModule` | the simulation module around `Viewer` |
| `SimModuleProofs` | theorems about `SimModule` with its viewer |
| `DriverSetup` | InitDcu: the checks of a configuration up to the enabled actuators |
| `DriverSetupProofs` | theorem about `DriverSetup` |
| `MitCodec` | the MIT command and status frames, as bit fields |
| `Transmissions`, `MCTransmissions` | the data spaces, the callback and PublishLoop over them, every transmission |
| `TransmissionsProofs` | theorems about `Transmissions` and `MitCodec` |

### How the control model corresponds to the code

A variable has the name of the field it stands for. `cbPc` and `loopPc` are the
places where the trigger callback and MainLoop can be interrupted. A method is
split exactly where accesses of the other thread can fall between two of its
own: `OnEvent` between the name and the list, `RestartController` between the
snapshot, the percentage and the three parts of `Interpolator::Init`, `Update`
between the load and the store of `trans_mode_percent_` and between the test,
the read and the increment of `GetNextPoint`.

Data is abstracted to what the properties tell apart. A pose is one value for
the whole vector of joint angles; a percentage counts control cycles up to
`RampSteps`; a slot of the message records which controller wrote it, from which
starting pose, how far along the ramp, and whether the controller had been
restarted for the mode. A read of an element of `data_` that has been cleared
yields `NoPose`, a value no pose has. `controllers_` is always the list of some
state and is represented by that state. What a policy computes, gains and the
shape of a trajectory are left out, as is tearing inside a vector.

The trigger callback handles one message at a time. All trigger topics call the
same function object; that the framework runs it serially is an assumption about
code outside the repository.

### How the driver model corresponds to the code

`mainPc` follows the framework's thread from the moment `XyberController::Start`
has returned: the enable loop, the motionless commands, Start, Shutdown up to the
end of `XyberController::Stop`. A channel's part of the send buffer is a control
byte (nobody, one actuator, everybody) and a frame per actuator (blank, a
request, a motionless or a motion command). `RequestState`, `SetMitCmd`,
`PushRecvData` and `PullSendData` are the critical sections of `send_mtx_` and
`recv_mtx_`, one DCU at a time. Between two polls the code sleeps 10 ms, ten
cycles of the work loop: `slept` requires that within a sleep the buffer has been
sent once and an answer been handed in after that.

`ActuatorLife` is what a user of the driver sees of all this: `starting` is
InitDcu up to Start, `serving` ends with Shutdown's join, `stopping` with
DisableAllActuator; `powered` and `commanded` are the managed actuators that are
on and whose frame is a motion command; a fault or a late callback disturbs.

The firmware is external: an actuator addressed alone obeys a request; under the
broadcast id frames are commands. A faulty actuator obeys nothing from some
moment on. Passive types (`POWER_FLOW_L28`, `OMNI_PICKER`) have no power state.
The orders of the code's unordered maps are a parameter (`DisableOrder`) or a
nondeterministic choice (the callback, the loop over the nodes).

### How the bus model corresponds to the code

`mainPc` is at a step of Start (each call of SOEM that can fail is one), in Stop,
or outside; `errPc` is where ErrorHandler is in a pass. `state` and `islost` are
ErrorHandler's view of a slave (`ec_slave[]`), `al` and `request` the slave
itself and what it has been asked for. A slave obeys later, or drops out, reboots
(`fresh`) or falls back with an error. SOEM is modelled from how
`ethercat_manager.cpp` uses its results. The data WorkLoop exchanges is in
`DcuDriver`; here it only yields the work counter.

### How the joystick model corresponds to the code

The operator presses and releases buttons, moves one axis (the three are treated
alike) and plugs the device in and out; SDL's queue lies between that and the
event thread. MainLoop publishes trigger by trigger and then the velocity.
In `Teleop` the subscriber's callback is part of the publisher's cycle: the
local backend of `x1_cfg.yaml` has no executor for subscribers, so the framework
calls them in the publishing thread and MainLoop goes on when they have returned. `joy_data_` is the velocity a policy was last
given; only the list in force is given it.

### How the simulation model corresponds to the code

`renderPc` follows a frame: `poll` is from taking `mtx` to the end of Sync, in
which the user's events happen one by one; `draw` is without it. The physical
state is a number, so that a reset, a step, a keyframe and an entry of the
history can be told apart; `log` is what the history ought to hold. Requests
(`pending_`) are applied by Sync in the code's order. `crashed` marks the use of a
null or freed pointer; nothing happens after it.

### How the data path model corresponds to the code

`DriverSetup` reads any configuration, entry by entry, with the checks, silent
drops and overwrites of XyberController, Dcu and EthercatManager as they are.
`Transmissions` goes on with any set of transmissions. Values are integers in
steps of the codec, which packs and unpacks them with their widths. The
transmissions run in the order they were registered and read nothing another one
writes, so each end is left as the last transmission that has it leaves it
(`LastOf`). The ankle's
trigonometry is replaced by two integer stand-ins, an invertible map of the
positions (`Motors`) and an invertible matrix that depends on the measured pose
(`Jacobian`); around them the code is kept: the table with its truncated index
and its missing last cells, the mirroring of the left ankle, the products of
matrices, which reading is used where. The half step by which a value differs
after encoding and decoding, and interpolation between the points of the table,
are left out: `JointFollows` says which value arrives at which joint, not with
which rounding.

## 3. Runs

| Run | Instance | Checks |
|---|---|---|
| `ControlWalk` | idle, zero, stand, walk_leg; two joint groups with overlapping lists; decimation 3 | `TypeOK`; `FrameOfOneMode`: a published message is the complete merge of one mode's list; `RlStaleBounded`: at most `Decimation` commands of a restarted policy are older than its restart |
| `ControlProgress` | idle, keep, keep_&_plan; ramp of 2; fair | `SettledMode`: when no callback runs, the list is that of the current state and all its PDControllers have been restarted; `ImplementsModes`: the module implements `ModeSwitch`; `ModeReachesCommand`: an entered mode reaches the command unless another replaces it or the module stops; `CommandsSettle`: once no trigger is accepted any more, ramps end and commands become fresh |
| `ControlHold` | idle, keep; two poses; fair | `KeepHolds`: a module that stays in keep ends up holding one pose, whatever is measured |
| `Teleop` | all buttons and modes of the X1; fair | `TypeOK`; `MirrorsDevice`: with an empty queue the message is the device; `EveryModeCanGoIdle`; `PolicyStartsFromStand`; `IdleWins`: START held to the end reaches idle in spite of the throttle; `CentredStops`: with the dead-man button held and the stick centred every policy in force ends with velocity zero; `JoyShutdownEnds` |
| `DcuLifecycle` | 2 DCUs, 4 actuators (two on one channel, one passive), 2 polls, up to 2 faults; fair | `TypeOK`; `MotionAfterEnable`; `BroadcastCarriesCommands`: no request is sent as a command while joint commands are accepted; `ShutdownDisables`; `ImplementsLife`: the driver implements `ActuatorLife`; `ShutdownEnds`: Shutdown returns |
| `Ethercat` | 2 nodes, a bus of up to 2 slaves, error count 2, 2 faults; fair | `TypeOK`; `StandsDown`: when no further pass is asked for, all nodes were seen in OP and none is taken for lost; `StoppedInInit`: after Stop nothing takes a slave out of INIT; `LinkRestoredOrReported`; `StopEnds` |
| `Sim` | history of 3, states 0 to 3, 2 bodies, 2 cameras, 3 events; fair | `TypeOK`; `OnceStarted`: between Start and Shutdown nothing invalid is used; `StartEnds`; `CommandAnswered`; `HistoryIsLog`, `ScrubShows`: the ring returns what was recorded; `CameraMatches`, `PanelFresh` |
| `Transmissions` | 2 DCUs, one channel of one place each, 2 actuators and a stray one, every type of transmission, 2 messages | `ServedWhenReady`: what passes InitDcu is served; `JointFollows`: a command carried out comes back to its joint |

Runs that are expected to fail state what a document of the repository says and
show a behaviour of the code that contradicts it (the findings of
`PROJECT.json` quote the lines):

| Run | The document | What TLC finds |
|---|---|---|
| `RampReset` | smooth interpolation over the transition time | the reset of the percentage falls between Update's load and store and is lost |
| `DcuLateCommand` | after Shutdown the actuators are disabled; late commands are dropped | a callback past its test overwrites the disable request, the poll times out, the loop over the actuators ends |
| `EthercatGivesUp` | ErrorHandler recovers lost slaves automatically | once the link is reported, recovery is skipped while the work counter is short, and it stays short |
| `VelocityLimit` | a held stick ends at most at the velocity limit | the limit bounds the change per second; the velocity goes on to the stick's value |

Observations met while modelling that have no run of their own:

* *Control.* The new list is in force before RestartController has taken its
  sample. GetNextPoint can read an element `Init` has just cleared
  (`utilities.cc:107`). A rejected trigger restarts the throttle too. The graph
  leads around zero to walking through keep and its plan mode. A mode that lists
  itself among its pre_states restarts at every accepted trigger, so commands
  settle only once triggers cease.
* *Driver.* DisableAllActuator stops at the first failure. After a failed
  enabling InitDcu goes on and throws at its end, where
  `module_dcu_driver_module.md:432` says the others are not enabled. A passive
  actuator on a DCU that lost its ecat id to another is not noticed. CAN ids are
  not checked for duplicates.
* *Data path.* The effort of the roll joint is computed from a velocity in the
  lumbar (`lumbar_transmission.cc:27`), the wrists (`wrist_transmission.cc:33`,
  `:90`) and the left ankle (`ankle_transmission.cc:135`); the right ankle is
  correct although `spec/bugs.md` lists it. Commands outside the range wrap in
  the bit fields. The last cells of the ankle's table are read as zero. The
  matrix of a command may come from readings of two samples, which
  `spec/l0_system_architecture.md:459` excludes.
* *Bus.* The wait for OP state is a single pass, since `is_running_` is still
  false (`ethercat_manager.cpp:195`). A failed start leaves the slaves as they
  are. A lost slave that is not registered is never recovered.
* *Joystick.* MainLoop indexes the buttons of an empty message before a device is
  open and after it is unplugged (`joy_stick_module.cc:106`).
* *Simulation.* Nobody reads `exitrequest` after the loop has ended, so the
  process goes on without a window (`module_sim_module.md:494` expects an end).
  A second dropped file spins with `mtx` held. A window closed during the load
  leaves Start waiting. A failed load is dereferenced (`spec/bugs.md:18`), as is
  the model by a command that comes after three seconds and before Start is over.
  Shutdown frees without the lock. A paused viewer does not stop CmdCallback's
  steps. PAGE_UP or a resize during a drag leaves the perturbation active. A reset
  and a scrub in one frame undo the reset.

### Bounds

* Three or four modes of the graph at a time, chosen so that lists overlap,
  shrink and grow, and that every kind of controller is entered and left; any
  two modes interact only through the controllers they share.
* A ramp of two cycles has a start, a middle and an end; decimation 3 has a
  phase that is neither first nor last; the throttle of one tick is open or
  closed. Two poses suffice to tell an old sample from a new one, and one where
  the pose is not the question. One waypoint gives a trajectory of three points.
* Two actuators on one channel contend for the control byte; another channel and
  another DCU are served in separate critical sections. Two polls give a first
  and a last one. Two faults allow one before and one after the first failure.
* Joint states and triggers are unbounded in number. Counters that the code lets
  grow (`loop_count_`, the clock) are kept modulo what is asked of them.
* Two nodes make one that is in OP and one that is not; the bus may turn out
  smaller than the configuration. Two faults allow a second one during the
  recovery of the first. `EthercatGivesUp` has a third, unregistered slave.
* An operator uses the buttons of one of two sessions (all mode buttons, or some
  of them and the dead-man button); a deflection and a limit of one step, with a
  queue of one event, make the message lag behind the device; the device is
  plugged in twice, so that events of the first instance meet the second.
* A history of three wraps within four steps; three events put a request, its
  contrary and a third in one frame. Commands and frames are not bounded.
* Two joints make every kind of coupled transmission; a channel with one place is
  full with the second actuator; one of the two messages names an unknown joint
  and a value outside the code. Two messages let one overtake the reading of the
  other. `Transmissions` is symmetric in the names of DCUs and ecat ids, which are
  only compared, and checks no liveness.

The deadlock check is off where the system may stop: after a Shutdown, Stop or
failed start of the driver, the bus, the joystick or the simulation, after a
crash in the model, and when the bounded events are used up.

### Fairness

`LoopStep`, `CallbackStep` and `TimePasses` of the control module are weakly
fair: MainLoop has an executor thread of its own and never waits for another
module, the framework's thread finishes a callback it has begun, the clock
advances. Triggers, joint states and Shutdown are not fair. In the driver,
the framework's thread inside InitDcu or Shutdown, a begun callback,
PublishLoop and WorkLoop are weakly fair, each a thread of the operating system;
Start, Shutdown, the arrival of commands and faults are not.

On the bus the threads are weakly fair, and so are slaves that have a request or
have dropped out: they obey or come back in the end; without that nothing could
be asked of the recovery. In `Teleop` MainLoop, the callback, the clock, the event
thread and a begun Shutdown are weakly fair; the operator is not, and the
properties about a held button speak of a button held for good. In the simulation
the render thread is weakly fair; Start and the command callback, which wait for
`mtx`, are strongly fair, since the render thread is without the mutex for as
long as it draws a frame.

## 4. Proofs

`ControlModuleProofs` proves, for every configuration that meets the named
assumptions of `ControlConfig`:

| Theorem | States |
|---|---|
| `TypeCorrect` | `Spec => []TypeOK` |
| `OneModePerFrame` | `Spec => []FrameOfOneMode` |
| `ModeSettles` | `Spec => []SettledMode` |
| `StaleActionsBounded` | `Spec => []RlStaleBounded` |
| `RefinesModeSwitch` | `Spec` implements the safety part of `ModeSwitch` |

The assumptions: `ConfigShape` (lists name known states and controllers, kinds
are disjoint), `ControllerParameters` (positive ramp, decimation and interval),
`ListsNotEmpty`, and `EveryJointCommanded`: every mode has a controller for every
joint. The last is what the shipped files do and what `FrameOfOneMode` rests on,
since MainLoop reuses its message and writes only the slots of the controllers
it runs.

The argument: types alone are not inductive, because the controller MainLoop or
the callback is at must be of the kind its place implies (`LoopAt`,
`CallbackAt`). On top of that `MergedSoFar` says that the slots written so far in
an iteration are those of the last controller of the copied list that commands
them, whatever the callback does to `controllers_` meanwhile; `RestartsPending`
that a PDController of the list not restarted yet is still in the callback's
list; `StaleBudget` that the stale commands a policy has given, those it will
still be asked for before its next inference and the one it is being asked for
together stay within `Decimation`. The refinement maps a mode change to the two
halves of `OnEvent` and a published message to `ModeSwitch`'s command.

`DcuDriverProofs` proves, for every wiring, order, number of polls and faults
(assumptions `Wiring` and `Lists`):

| Theorem | States |
|---|---|
| `DriverTypeCorrect` | `Spec => []TypeOK` |
| `NoMotionBeforeEnabled` | `Spec => []MotionAfterEnable` |
| `ShutdownSwitchesOff` | `Spec => []ShutdownDisables` |
| `NoRequestAsCommand` | `Spec => []BroadcastCarriesCommands` |
| `LifeImplemented` | `Spec => ImplementsLife`: the driver implements `ActuatorLife` |
| `DrivenIsPowered` | `Spec => []Life!CommandedIsOn`: undisturbed, what has a motion command is on |

For the second, `EnableSeen` carries through the loop that as long as `ret` stands
every managed actuator passed has been confirmed, and `QuietBeforeStart` that the
callback, the only source of motion, has not begun. For the third, `Asked`
follows one disable request through a cycle of the work loop: nobody touches the
frame, after the pull the actuator is off, after the next push it is reported
off; `Retired` says that an actuator passed is off and its frame can only disable
it again. For the fourth, `Caching` says that the motionless commands have
replaced the frames of all actuators the loop at the end of InitDcu has passed,
and `AllReplaced` that from then to the end of Shutdown's join no frame goes back
to a request.

The refinement needs all of these and `LifeInv`: `SeenIsOn` (while InitDcu enables,
what is reported on or was confirmed is on), `RequestsInPhase` (a request to
enable is gone when Start is called, none to disable is there before the join),
`OutlivesLate` (a callback beyond the join is a late one) and `AllSettled`, the
delicate one: whatever fails or is overwritten, a request to disable that the bus
still sends is one its actuator has obeyed, so power does not change any more
once DisableAllActuator has returned, although the work loop goes on until
StopBus. `DrivenIsPowered` is proved of the abstract life cycle alone and carried
over.

`EthercatManagerProofs` proves, for every number of slaves, set of nodes, error
count and number of faults (assumption `BusAssumption`):

| Theorem | States |
|---|---|
| `BusTypeCorrect` | `Spec => []TypeOK` |
| `StandsDownInOp` | `Spec => []StandsDown` |
| `StopLeavesInit` | `Spec => []StoppedInInit` |

`LifeInv` ties `is_running_` and ErrorHandler's place to the place of the
framework's thread. For the second theorem `OpSeen` covers the loop of Start that
waits for OP state and `PassSeen` a pass of ErrorHandler: unless a further pass is
asked for already, every node is still to be visited or was seen in OP, is not
lost, and was told. For the third `DeafInv` says that a slave that does not answer
has no request pending, so that it cannot come back to an old one.

`DriverSetupProofs` proves `InitDcuServes`, `SetupSpec => []ServedWhenReady`, for
every set of DCUs, ecat ids, channels, places on a channel and list of actuators
(assumption `SetupAssumption`: the list is a sequence). `SetupSpec` is InitDcu
followed by what ends it; `SetupImplemented` below says that the data path around
it adds no behaviour to it. `EnableInv` says that, as
long as `ret` stands, the actuators passed were served, and `NodesInv` that the
bus holds DCUs under their own ids, so that a DCU that is on the bus at all is
there under its id.

`TransmissionsProofs` proves, for every network, joint list, set of messages,
ranges of the ankle's table and any number of transmissions (assumption
`DataAssumption`: an entry names as many joints, actuators and directions as its
type has, directions are 1 and -1 as in all the shipped files, values are
integers):

| Theorem | States |
|---|---|
| `MitRoundTrip` | what an actuator that does a command in range reports is what the command said |
| `DataPathInvariant` | `Spec => []DataInv` |
| `JointsFollow` | `Spec => []JointFollows` |
| `SetupImplemented` | `Spec => SetupSpec` |
| `DriverServes` | `Spec => []ServedWhenReady` |

The proof of `JointsFollow` has three layers. The code: a field of 12 bits shares a
byte with its neighbour, and or-ing and shifting separate them again whatever
the neighbour holds (`ByteAndNibble`, `NibbleAndByte`). One transmission
(`Follows`): directions cancel; the table inverts `Motors` where it has the cells,
mirrored or not (`PositionBack`); both matrices are inverses at one pose
(`MatrixBack`), so velocities come back when the pose of the command is that of the
reading, and efforts where the code reads them. The threads (`DataInv`): `Sending`,
every frame not still to be sent is the code of its command; `Ordered`, every
command is what its transmission made of the joint command at the pose it read;
`Published`, between transformation and publishing the joint states are those of
the readings. `OnlyWriter` ties the three: an end that no other transmission has
is written by its own one only.

`SimModuleProofs` proves, for every length of the history, number of states,
bodies, cameras and events (assumption `ViewerAssumption`):

| Theorem | States |
|---|---|
| `SimTypeCorrect` | `Spec => []TypeOK` |
| `CameraIsNamed` | `Spec => []CameraMatches` |
| `RingBuffer` | `Spec => []HistoryIsLog` |
| `PanelAfterFrame` | `Spec => []PanelFresh` |
| `StartedIsUsable` | `Spec => []OnceStarted` |
| `ScrubLoadsRecorded` | `Spec => ScrubShows` (an action property) |

All follow from one inductive invariant, `SimInv` (theorem `SimInvariant`).
`RingIsLog` is the ring's content as a function of the cursor; the lemma on a
recorded state is modular arithmetic on the slots. `PanelInv` says that a panel
that is shown is out of date only in sections noted for Render, and that nothing
is noted outside the part of a frame that ends with Render. `StartInv` follows the
hand-over of the model between Start and the render thread, and says at which
places of either the model is there.

`JoyStickProofs` proves, for every button set, length of SDL's queue, limiter
bound and number of times the device is plugged in (assumption `JoyAssumption`):

| Theorem | States |
|---|---|
| `JoyTypeCorrect` | `JoySpec => []JoyTypeOK` |
| `JoyMirrorsDevice` | `JoySpec => []MirrorsDevice` |

`MirrorsDevice` speaks of an empty queue; its invariant `JoyInv` speaks of any
queue. `OrderInv`: the events of an instance lie between its addition and its
removal, and those of the instance that is plugged in come last. `LastInv`: the
last event about a button or the stick tells how it is now. `DeviceInv`: a device
that is still to be added has all its presses in the queue. `ShownInv`: when
buttons are shown, they are of the instance plugged in, or its removal comes
before the next addition; this is why `handleJoyDeviceAdded`, which does not clear
the buttons, never finds a press of an earlier instance. `MirrorInv`: about what
the queue has no event, `joy_msg_` is right.

`TeleopProofs` proves, with the assumptions of both components and
`TriggersSubscribed` (the joystick's trigger topics are topics of the mode graph,
as in the shipped files):

| Theorem | States |
|---|---|
| `JoyStickImplemented` | `Spec => JoySpec` |
| `StateMachineImplemented` | `Spec => SmSpec` |
| `TeleopMirrorsDevice` | `Spec => []MirrorsDevice` |
| `TeleopTypeCorrect` | `Spec => []TypeOK` |
| `ModeFollowsEdges` | `Spec => [][Along]_current_state_name_`: every change of mode is one along the graph |
| `X1PolicyStartsFromStand` | `Spec => PolicyStartsFromStand` (an action property) |
| `X1CanGoIdle` | `Spec => []EveryModeCanGoIdle` |

The last two are about the X1: the module extends `MCTeleop`, whose assumption
`X1Graph` says that states, topics, edges, lists and policies are those of
`rl_x1.yaml`; the throttle, the buttons and the operator stay arbitrary. They follow
from `ModeFollowsEdges` and the tables of `X1Config`.

The first two say that the composition adds no behaviour to its parts: a
callback may delay MainLoop but changes nothing of the joystick's, and a message
the throttle stops is a stuttering step of the state machine. The third follows
from the first, the fourth from both and from `ModeInv`, the state machine's own
inductive invariant: its restart loop runs only while something is left in its
list, which needs `ListsNotEmpty`.

Every safety invariant and action property of the passing runs is stated by a
theorem. Only model-checked, and why:

* liveness (`ModeReachesCommand`, `CommandsSettle`, `KeepHolds`, `IdleWins`,
  `CentredStops`, `LinkRestoredOrReported`, `StartEnds`, `CommandAnswered` and the
  properties about a Shutdown or Stop that ends) and the fairness part of
  `ImplementsModes`: fairness and ENABLED are beyond the prover;
* that the kinematics of the ankle is invertible and that the table holds its
  inverse: `Motors` and `Jacobian` stand for it, and the proofs are about them.

## 5. Plan

1. (done) Control: state machine, controllers, MainLoop, refinement, proofs.
2. (done) Driver life cycle: enabling, commands, Shutdown, proofs.
3. (done) The bus, the joystick with the state machine, the simulation with its
   viewer, the driver's set-up and data path.
4. (done) Proofs of the safety invariants of the bus, the simulation, the set-up
   and the joystick, alone and composed.
5. (done) Proofs of the data path and of the X1's mode graph; the abstract actuator
   life cycle that `DcuDriver` refines, with a proof.
6. The bus composed with `DcuDriver`, so that a lost slave meets a running poll.

## 6. Not modelled, and why

* Policy inference, observations and filters: floating point and a library. The
  imu callback only feeds them.
* The kinematics inside the ankle (Newton iteration, trigonometry) and rounding:
  real-valued; see section 2 for what stands for them.
* The controller of the distributed clock (`ethercat_manager.cpp:240-312`): it
  regulates a wake-up time, which no property depends on.
* Hats, rumble and dead zones of the joystick: no consumer in the repository.
* Drawing, plots, options and controls of the viewer, files it saves.
* The data of `OMNI_PICKER` actuators and a configuration with `enable_actuator`
  false: they bypass what is checked.
* SOEM, onnxruntime, ruckig, qpOASES and MuJoCo: third-party code.
* `assistant`, `pkg1`: launch files, example clients and registration.
* Parsing of configuration files; a malformed file is outside `ConfigShape`,
  `Wiring` and `Lists`. Known gaps of the shipped files that have no bearing on
  the modelled control flow (the gains of `pd_idle` cover 28 of 29 joints) are
  not represented.
