----------------------------- MODULE StateMachine -----------------------------
(***************************************************************************)
(* The mode state machine of the control module (state_machine.h), the     *)
(* throttle in front of it (Throttler in utilities.cc) and the trigger     *)
(* callback that drives both (the lambda in ControlModule::Initialize).    *)
(*                                                                         *)
(* The framework runs one trigger callback at a time: on the robot the     *)
(* triggers come from the joystick module's only thread, in simulation     *)
(* from one ROS 2 callback group.  The callback is not atomic with respect *)
(* to the control loop: current_state_name_ is assigned first, controllers_*)
(* is replaced under the lock in a second step, and the controllers are    *)
(* restarted one after the other after that.                               *)
(*                                                                         *)
(* A controllers_ vector is always a copy of the list of some State, so it *)
(* is represented by that state; its elements are ControllerList of it.    *)
(***************************************************************************)
EXTENDS ControlConfig

VARIABLES
  current_state_name_,
  controllers_,   \* the state whose controller list was copied last
  elapsed,        \* now - last_trigger_time_, counted up to Interval
  cbPc,           \* where the trigger callback is
  todo            \* the controllers it still has to restart

smVars == <<current_state_name_, controllers_, elapsed, cbPc, todo>>

\* Positions of the callback: outside OnEvent, before the locked assignment,
\* and the steps of RestartController.
CallbackPoints == {"idle", "swap", "snapshot", "percent", "clear", "build", "arm"}

SmTypeOK ==
  /\ current_state_name_ \in States
  /\ controllers_ \in States
  /\ elapsed \in 0..Interval
  /\ cbPc \in CallbackPoints
  /\ todo \in Seq(Controllers)

SmInit ==
  /\ current_state_name_ = InitialState
  /\ controllers_ = InitialState
  /\ elapsed = 0
  /\ cbPc = "idle"
  /\ todo = <<>>

-----------------------------------------------------------------------------
(* What plausible slips of the code would look like.                       *)

\* OnEvent without the search in pre_states_.
LegalIgnoringPreStates(topic, s) == DOMAIN TopicStates[topic]

\* controllers_ is left alone when the name changes.
SwapControllersForgotten ==
  /\ cbPc = "swap"
  /\ todo' = ControllerList[controllers_]
  /\ cbPc' = "snapshot"
  /\ UNCHANGED <<current_state_name_, controllers_, elapsed>>

\* The restart loop is entered with the list fetched before OnEvent.
SwapControllersOldList ==
  /\ cbPc = "swap"
  /\ controllers_' = current_state_name_
  /\ todo' = ControllerList[controllers_]
  /\ cbPc' = "snapshot"
  /\ UNCHANGED <<current_state_name_, elapsed>>

-----------------------------------------------------------------------------
\* The positions in the topic's list of the states that may be entered from s.
Legal(topic, s) ==
  {i \in DOMAIN TopicStates[topic] : s \in PreStates[TopicStates[topic][i]]}

\* The loop in OnEvent takes the first one.
IsFirstLegal(topic, s, i) ==
  /\ i \in Legal(topic, s)
  /\ \A k \in Legal(topic, s) : i <= k

\* Throttler: the interval has passed; its side effect is elapsed' = 0.
ThrottleOpen == elapsed >= Interval

(***************************************************************************)
(* A trigger message that the throttle lets pass and OnEvent accepts.  A   *)
(* message the throttle stops changes nothing and is a stuttering step.    *)
(***************************************************************************)
Accept(topic) ==
  /\ cbPc = "idle"
  /\ ThrottleOpen
  /\ elapsed' = 0
  /\ \E i \in DOMAIN TopicStates[topic] :
       /\ IsFirstLegal(topic, current_state_name_, i)
       /\ current_state_name_' = TopicStates[topic][i]
  /\ cbPc' = "swap"
  /\ UNCHANGED <<controllers_, todo>>

\* The throttle lets the message pass and has restarted its interval; OnEvent
\* then finds no state that may be entered.
Reject(topic) ==
  /\ cbPc = "idle"
  /\ ThrottleOpen
  /\ elapsed' = 0
  /\ Legal(topic, current_state_name_) = {}
  /\ UNCHANGED <<current_state_name_, controllers_, cbPc, todo>>

(***************************************************************************)
(* The second half of OnEvent, under controllers_mutex_, and the callback  *)
(* fetching the list it has just written, to restart its controllers.      *)
(***************************************************************************)
SwapControllers ==
  /\ cbPc = "swap"
  /\ controllers_' = current_state_name_
  /\ todo' = ControllerList[current_state_name_]
  /\ cbPc' = "snapshot"
  /\ UNCHANGED <<current_state_name_, elapsed>>

\* RestartController of the first controller in todo has returned.
Restarted ==
  /\ todo' = Tail(todo)
  /\ cbPc' = IF Tail(todo) = <<>> THEN "idle" ELSE "snapshot"

\* The clock that Throttler reads.
Tick ==
  /\ elapsed < Interval
  /\ elapsed' = elapsed + 1
  /\ UNCHANGED <<current_state_name_, controllers_, cbPc, todo>>

-----------------------------------------------------------------------------
(* The state machine by itself: restarting a controller is one step.       *)

RestartWhole ==
  /\ cbPc = "snapshot"
  /\ Restarted
  /\ UNCHANGED <<current_state_name_, controllers_, elapsed>>

SmNext ==
  \/ \E topic \in Topics : Accept(topic) \/ Reject(topic)
  \/ SwapControllers
  \/ RestartWhole
  \/ Tick

SmSpec == SmInit /\ [][SmNext]_smVars
=============================================================================
