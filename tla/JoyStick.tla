------------------------------ MODULE JoyStick ------------------------------
(***************************************************************************)
(* The joystick module: Joy, whose event thread turns SDL events into      *)
(* joy_msg_, and JoyStickModule, whose MainLoop publishes a trigger for    *)
(* every held button and a rate-limited velocity while the dead-man button *)
(* is held.                                                                *)
(*                                                                         *)
(* The operator, the device and SDL's event queue are external.  A device  *)
(* has all the buttons and axes the configuration names.  Its instance id  *)
(* is the number of times it was plugged in before.  One axis stands for   *)
(* the three, which are treated alike.  is_update_ and publish_soon_ have  *)
(* no reader and rpc_clients is not configured: they are left out.         *)
(***************************************************************************)
EXTENDS Integers, Sequences, FiniteSets

CONSTANTS
  float_pubs,    \* a sequence of [topic |-> , buttons |-> ]
  TwistButtons,  \* the buttons of /cmd_vel
  FullScale,     \* a full deflection of the stick
  Bound,         \* velocity_limit_ub = - velocity_limit_lb
  freq_,
  Sessions,      \* bound: the sets of buttons an operator may use in a behaviour
  MaxQueue,      \* bound on SDL's event queue
  MaxPlugs       \* bound on the number of times the device is plugged in

ASSUME JoyAssumption ==
  /\ FullScale \in Nat /\ Bound \in Nat /\ freq_ \in Nat \ {0}
  /\ Bound % freq_ = 0
  /\ MaxQueue \in Nat \ {0} /\ MaxPlugs \in Nat \ {0}

VARIABLES
  session,                 \* the buttons the operator uses
  plugged, plugs,          \* the instance that is plugged in, and how many there were
  held, stick,             \* what the operator does with it
  queue,                   \* SDL's events
  joystick_,               \* a device is open
  joystick_instance_id_,
  sized, buttons, axis,    \* joy_msg_: its vectors are not empty; what they hold
  is_runnig_, eventPc,     \* the event thread
  mainPc,                  \* where the framework's thread is
  run_flag_, loopPc,
  pending, target,         \* what joy_data asks this cycle of MainLoop to publish
  state_                   \* of the limiter, and what /cmd_vel_limiter carries

userVars == <<session, plugged, plugs, held, stick>>
joyVars  == <<joystick_, joystick_instance_id_, sized, buttons, axis>>
loopVars == <<loopPc, pending, target, state_>>
mainVars == <<mainPc, run_flag_, is_runnig_>>
joystickVars == <<userVars, queue, joyVars, eventPc, loopVars, mainVars>>

None == -1
NoTarget == FullScale + 1
Buttons == UNION Sessions
PubTopics == {float_pubs[k].topic : k \in DOMAIN float_pubs}

JoyTypeOK ==
  /\ session \in Sessions
  /\ plugged \in None..(MaxPlugs - 1) /\ plugs \in 0..MaxPlugs
  /\ held \subseteq session /\ stick \in {0, FullScale}
  /\ Len(queue) <= MaxQueue
  /\ joystick_ \in BOOLEAN /\ joystick_instance_id_ \in None..(MaxPlugs - 1)
  /\ sized \in BOOLEAN /\ buttons \subseteq Buttons /\ axis \in {0, FullScale}
  /\ is_runnig_ \in BOOLEAN /\ eventPc \in {"loop", "done"}
  /\ mainPc \in {"init", "started", "wait", "destroy", "done"}
  /\ run_flag_ \in BOOLEAN
  /\ loopPc \in {"none", "loop", "publish", "ended", "crashed"}
  /\ pending \subseteq PubTopics
  /\ target \in {0, FullScale, NoTarget}
  /\ state_ \in 0..FullScale

JoyInit ==
  /\ session \in Sessions
  /\ plugged = None /\ plugs = 0 /\ held = {} /\ stick = 0
  /\ queue = <<>>
  /\ joystick_ = FALSE /\ joystick_instance_id_ = 0
  /\ sized = FALSE /\ buttons = {} /\ axis = 0
  /\ is_runnig_ = TRUE /\ eventPc = "loop"
  /\ mainPc = "init" /\ run_flag_ = TRUE
  /\ loopPc = "none" /\ pending = {} /\ target = NoTarget /\ state_ = 0

-----------------------------------------------------------------------------
\* The process has not crashed.
Alive == loopPc # "crashed"

(* The operator.                                                           *)

Event(type, arg) == [type |-> type, which |-> plugged, arg |-> arg]

Happens(e) ==
  /\ Alive /\ Len(queue) < MaxQueue
  /\ queue' = Append(queue, e)
  /\ UNCHANGED <<session, joyVars, eventPc, loopVars, mainVars>>

Plug ==
  /\ plugged = None /\ plugs < MaxPlugs
  /\ plugged' = plugs /\ plugs' = plugs + 1
  /\ Happens([type |-> "added", which |-> 0, arg |-> 0])
  /\ UNCHANGED <<held, stick>>

Unplug ==
  /\ plugged # None
  /\ plugged' = None /\ held' = {} /\ stick' = 0
  /\ Happens(Event("removed", 0))
  /\ UNCHANGED plugs

\* One button at a time.
Press(b) ==
  /\ plugged # None /\ held = {}
  /\ held' = {b}
  /\ Happens(Event("down", b))
  /\ UNCHANGED <<plugged, plugs, stick>>

Release(b) ==
  /\ b \in held
  /\ held' = held \ {b}
  /\ Happens(Event("up", b))
  /\ UNCHANGED <<plugged, plugs, stick>>

\* Only an operator who uses the dead-man button moves the stick.
MoveStick ==
  /\ plugged # None /\ TwistButtons \subseteq session
  /\ stick' = FullScale - stick
  /\ Happens(Event("axis", stick'))
  /\ UNCHANGED <<plugged, plugs, held>>

Operator ==
  Plug \/ Unplug \/ MoveStick \/ \E b \in session : Press(b) \/ Release(b)

-----------------------------------------------------------------------------
(* What plausible slips of the code would look like.                       *)

\* The button vector survives the removal of the device.
ClearedAxisOnly == /\ axis' = 0
                   /\ UNCHANGED <<sized, buttons>>

\* A centred stick has nothing to say.
TargetUnlessCentred == IF TwistButtons \subseteq buttons /\ axis # 0 THEN axis ELSE NoTarget

\* MainLoop ends without setting stop_sig_.
LoopDoneSilently == "none"

\* The limiter takes a full step also when the wanted velocity is nearer.
LimitedOvershoots(s, t) ==
  LET step == Bound \div freq_
  IN  IF t > s THEN s + step ELSE s - step

-----------------------------------------------------------------------------
(* Joy::eventThread: one event, handled under joy_msg_mutex_.              *)

Mine(e) == e.which = joystick_instance_id_

\* Index checks make events harmless while the vectors are empty.
handleJoyAxis(e) ==
  /\ e.type = "axis"
  /\ axis' = IF Mine(e) /\ sized THEN e.arg ELSE axis
  /\ UNCHANGED <<joystick_, joystick_instance_id_, sized, buttons>>

handleJoyButton(e) ==
  /\ e.type \in {"down", "up"}
  /\ buttons' = IF ~Mine(e) \/ ~sized THEN buttons
                ELSE IF e.type = "down" THEN buttons \cup {e.arg} ELSE buttons \ {e.arg}
  /\ UNCHANGED <<joystick_, joystick_instance_id_, sized, axis>>

\* The device with index 0 is opened, which is the one plugged in now.  Opening
\* it, asking for its id, or asking for its numbers can fail.
handleJoyDeviceAdded(e) ==
  /\ e.type = "added"
  /\ \/ /\ joystick_' = FALSE
        /\ joystick_instance_id_' \in {joystick_instance_id_, None, plugged}
        /\ UNCHANGED <<sized, buttons, axis>>
     \/ /\ plugged # None
        /\ joystick_' = TRUE /\ joystick_instance_id_' = plugged
        /\ sized' = TRUE /\ axis' = stick
        /\ UNCHANGED buttons

Cleared == sized' = FALSE /\ buttons' = {} /\ axis' = 0

handleJoyDeviceRemoved(e) ==
  /\ e.type = "removed"
  /\ IF Mine(e)
     THEN Cleared /\ joystick_' = FALSE
     ELSE UNCHANGED <<sized, buttons, axis, joystick_>>
  /\ UNCHANGED joystick_instance_id_

HandleEvent ==
  /\ Alive /\ eventPc = "loop" /\ is_runnig_ /\ queue # <<>>
  /\ LET e == Head(queue)
     IN  \/ handleJoyAxis(e)
         \/ handleJoyButton(e)
         \/ handleJoyDeviceAdded(e)
         \/ handleJoyDeviceRemoved(e)
  /\ queue' = Tail(queue)
  /\ UNCHANGED <<userVars, eventPc, loopVars, mainVars>>

\* The wait for an event times out and finds the flag cleared.
EventThreadEnd ==
  /\ eventPc = "loop" /\ ~is_runnig_
  /\ eventPc' = "done"
  /\ UNCHANGED <<userVars, queue, joyVars, loopVars, mainVars>>

-----------------------------------------------------------------------------
(* JoyStickModule.                                                         *)

Start ==
  /\ mainPc = "init"
  /\ mainPc' = "started" /\ loopPc' = "loop"
  /\ UNCHANGED <<userVars, queue, joyVars, eventPc, pending, target, state_, run_flag_,
                 is_runnig_>>

Shutdown ==
  /\ Alive /\ mainPc = "started"
  /\ run_flag_' = FALSE /\ mainPc' = "wait"
  /\ UNCHANGED <<userVars, queue, joyVars, eventPc, loopVars, is_runnig_>>

\* stop_sig_ is set: Shutdown returns, and Joy is destroyed with the module.
ShutdownReturns ==
  /\ mainPc = "wait" /\ loopPc = "ended"
  /\ mainPc' = "destroy" /\ is_runnig_' = FALSE
  /\ UNCHANGED <<userVars, queue, joyVars, eventPc, loopVars, run_flag_>>

DestroyJoy ==
  /\ mainPc = "destroy" /\ eventPc = "done"
  /\ mainPc' = "done" /\ joystick_' = FALSE
  /\ UNCHANGED <<userVars, queue, joystick_instance_id_, sized, buttons, axis, eventPc,
                 loopVars, run_flag_, is_runnig_>>

LoopDone == "ended"

\* The velocity that is asked for, if the dead-man button is held.
Target == IF TwistButtons \subseteq buttons THEN axis ELSE NoTarget

\* A copy of joy_msg_ is tested against every entry of the configuration.  The
\* copy of an empty vector has no memory, and indexing it ends the process.
LoopBegin ==
  /\ loopPc = "loop"
  /\ \/ /\ ~run_flag_
        /\ loopPc' = LoopDone /\ UNCHANGED <<pending, target>>
     \/ /\ run_flag_ /\ ~sized
        /\ loopPc' = "crashed" /\ UNCHANGED <<pending, target>>
     \/ /\ run_flag_ /\ sized
        /\ loopPc' = "publish"
        /\ pending' = {float_pubs[k].topic : k \in
                         {i \in DOMAIN float_pubs : float_pubs[i].buttons \subseteq buttons}}
        /\ target' = Target
  /\ UNCHANGED <<userVars, queue, joyVars, eventPc, state_, mainVars>>

\* The triggers go out in the order of float_pubs.
PublishTrigger(topic) ==
  /\ loopPc = "publish"
  /\ \E k \in DOMAIN float_pubs :
       /\ topic = float_pubs[k].topic /\ topic \in pending
       /\ \A i \in 1..(k - 1) : float_pubs[i].topic \notin pending
  /\ pending' = pending \ {topic}
  /\ UNCHANGED <<userVars, queue, joyVars, eventPc, loopPc, target, state_, mainVars>>

\* JoyVelLimiter::update: the optimal rate is the wanted one within the bounds,
\* and a cycle is 1/freq_ long.
Limited(s, t) ==
  LET step == Bound \div freq_
  IN  IF t - s > step THEN s + step ELSE IF s - t > step THEN s - step ELSE t

PublishTwist ==
  /\ loopPc = "publish" /\ pending = {}
  /\ state_' = IF target = NoTarget THEN state_ ELSE Limited(state_, target)
  /\ target' = NoTarget
  /\ loopPc' = "loop"
  /\ UNCHANGED <<userVars, queue, joyVars, eventPc, pending, mainVars>>

-----------------------------------------------------------------------------
EventThread == HandleEvent \/ EventThreadEnd

Framework == Start \/ Shutdown \/ ShutdownReturns \/ DestroyJoy

JoyNext ==
  \/ Operator \/ EventThread \/ Framework
  \/ LoopBegin \/ PublishTwist \/ \E t \in PubTopics : PublishTrigger(t)

JoySpec == JoyInit /\ [][JoyNext]_joystickVars

-----------------------------------------------------------------------------
(* Properties.                                                             *)

\* Once the events are used up, joy_msg_ shows the device that is open as it is:
\* no press of an earlier instance is left, however unplugging, plugging and
\* pressing overlapped with the event thread (joy.cc:141-201, 250-360).
MirrorsDevice ==
  (joystick_ /\ joystick_instance_id_ = plugged /\ queue = <<>>) =>
     sized /\ buttons = held /\ axis = stick

\* spec/module_joy_stick_module.md:442 (TC-JS-02): with the stick at its maximum
\* /cmd_vel_limiter stays within the configured limits.  The limiter bounds the
\* rate of change and not the velocity.
VelocityLimit == state_ <= Bound
=============================================================================
