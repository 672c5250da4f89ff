------------------------------- MODULE Teleop -------------------------------
(***************************************************************************)
(* The joystick module and the control module's inputs together.  MainLoop *)
(* of the joystick module publishes, and the callbacks of the control      *)
(* module run in its thread before Publish returns: the trigger callback   *)
(* with its throttle, and the velocity callback, which hands the velocity  *)
(* to the controllers of the current list.                                 *)
(***************************************************************************)
EXTENDS StateMachine, JoyStick

\* Each trigger topic of joy_x1.yaml is a trigger topic of rl_x1.yaml.
ASSUME TriggersSubscribed == PubTopics \subseteq Topics

VARIABLE joy_data_   \* of each policy: the last velocity SetCmdData gave it

teleopVars == <<smVars, joystickVars, joy_data_>>

TypeOK ==
  /\ SmTypeOK /\ JoyTypeOK
  /\ joy_data_ \in [RlControllers -> 0..FullScale]

Init ==
  /\ SmInit /\ JoyInit
  /\ joy_data_ = [c \in RlControllers |-> 0]

Listens(c) == \E k \in DOMAIN ControllerList[controllers_] : ControllerList[controllers_][k] = c

-----------------------------------------------------------------------------
(* What plausible slips of the code would look like.                       *)

\* Throttler restarts its interval at every message.
ThrottledRestarts == ~ThrottleOpen /\ elapsed' = 0
                     /\ UNCHANGED <<current_state_name_, controllers_, cbPc, todo>>

-----------------------------------------------------------------------------
\* Throttler stops the message.
Throttled == ~ThrottleOpen /\ UNCHANGED smVars

Trigger(topic) ==
  /\ cbPc = "idle"
  /\ PublishTrigger(topic)
  /\ Accept(topic) \/ Reject(topic) \/ Throttled
  /\ UNCHANGED joy_data_

Callback ==
  /\ SwapControllers \/ RestartWhole
  /\ UNCHANGED <<joystickVars, joy_data_>>

SetCmdData(v) ==
  joy_data_' = [c \in RlControllers |-> IF Listens(c) THEN v ELSE joy_data_[c]]

Velocity ==
  /\ cbPc = "idle"
  /\ PublishTwist
  /\ IF target = NoTarget THEN UNCHANGED joy_data_ ELSE SetCmdData(state_')
  /\ UNCHANGED smVars

Cycle == cbPc = "idle" /\ LoopBegin /\ UNCHANGED <<smVars, joy_data_>>

MainLoop == Cycle \/ Velocity \/ \E t \in PubTopics : Trigger(t)

TimePasses == Alive /\ Tick /\ UNCHANGED <<joystickVars, joy_data_>>

Outside(A) == A /\ UNCHANGED <<smVars, joy_data_>>

Next ==
  \/ MainLoop \/ Callback \/ TimePasses
  \/ Outside(Operator) \/ Outside(EventThread) \/ Outside(Framework)

Spec == Init /\ [][Next]_teleopVars

\* Threads run and time passes; the operator and the framework do as they like,
\* but a Shutdown that has begun goes on.
FairSpec ==
  /\ Spec
  /\ WF_teleopVars(MainLoop) /\ WF_teleopVars(Callback) /\ WF_teleopVars(TimePasses)
  /\ WF_teleopVars(Outside(EventThread))
  /\ WF_teleopVars(Outside(ShutdownReturns)) /\ WF_teleopVars(Outside(DestroyJoy))

-----------------------------------------------------------------------------
(* Properties.                                                             *)

\* The operator holds these buttons and no others, on a device that is open.
Holding(set) ==
  /\ held = set /\ joystick_ /\ joystick_instance_id_ = plugged
  /\ mainPc = "started" /\ Alive

\* doc/joy_stick_module/joy_stick_module.md:17: START switches to idle in all
\* states.  Held, it does so in the end, although each of the twenty messages a
\* second meets the throttle and an earlier trigger may still be at work.
IdleWins ==
  \A k \in DOMAIN float_pubs :
    float_pubs[k].topic = "/idle_mode" =>
      (<>[]Holding(float_pubs[k].buttons) => <>[](current_state_name_ = "idle"))

\* With the dead-man button held and the stick centred, the limiter runs down and
\* every policy in force ends up with velocity zero, also one that was entered
\* with the velocity of its last activation (control_module.cc:83-89).
CentredStops ==
  <>[](Holding(TwistButtons) /\ stick = 0) =>
    <>[](state_ = 0 /\ \A c \in RlControllers : Listens(c) => joy_data_[c] = 0)

\* Shutdown returns and the event thread is joined, wherever MainLoop is.
JoyShutdownEnds == (mainPc = "wait") ~> (mainPc = "done" \/ ~Alive)
=============================================================================
