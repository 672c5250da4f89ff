---------------------------- MODULE TeleopProofs ----------------------------
(***************************************************************************)
(* What holds of the joystick module and the mode state machine together,  *)
(* for every configuration.  Each of the two behaves in the composition as *)
(* it does alone: what JoyStickProofs shows of the joystick carries over,  *)
(* although the trigger callback can keep its MainLoop waiting.            *)
(***************************************************************************)
EXTENDS MCTeleop, JoyStickProofs

-----------------------------------------------------------------------------
(* The joystick module.                                                    *)

\* Every step is one of the joystick module or leaves all its state alone: the
\* callbacks run inside Publish and touch nothing of Joy or JoyStickModule
\* (control_module.cc:31-44, 83-89; joy_stick_module.cc:97-201).
LEMMA JoyStickStep == [Next]_teleopVars => [JoyNext]_joystickVars
  <1> SUFFICES ASSUME [Next]_teleopVars PROVE [JoyNext]_joystickVars
    OBVIOUS
  <1>1. CASE MainLoop
    BY <1>1 DEF MainLoop, Cycle, Velocity, Trigger, JoyNext
  <1>2. CASE Callback \/ TimePasses
    BY <1>2 DEF Callback, TimePasses
  <1>3. CASE Outside(Operator) \/ Outside(EventThread) \/ Outside(Framework)
    BY <1>3 DEF Outside, JoyNext
  <1>4. CASE UNCHANGED teleopVars
    BY <1>4 DEF teleopVars
  <1> QED
    BY <1>1, <1>2, <1>3, <1>4 DEF Next

\* The composition implements the joystick module alone.
THEOREM JoyStickImplemented == Spec => JoySpec
  <1>1. Init => JoyInit
    BY DEF Init
  <1> QED
    BY <1>1, JoyStickStep, PTL DEF Spec, JoySpec

\* Once the events are used up, joy_msg_ shows the device that is open as it is,
\* with the control module attached (joy.cc:141-201, 250-360).
THEOREM TeleopMirrorsDevice == Spec => []MirrorsDevice
  BY JoyStickImplemented, JoyMirrorsDevice, PTL

-----------------------------------------------------------------------------
(* The mode state machine.                                                 *)

\* Every step is one of the state machine or leaves all its state alone.
LEMMA ModeStep == [Next]_teleopVars => [SmNext]_smVars
  <1> SUFFICES ASSUME [Next]_teleopVars PROVE [SmNext]_smVars
    OBVIOUS
  <1>1. CASE MainLoop
    <2>1. CASE Cycle \/ Velocity
      BY <2>1 DEF Cycle, Velocity
    <2>2. CASE \E t \in PubTopics : Trigger(t)
      BY <2>2, TriggersSubscribed DEF Trigger, Throttled, SmNext
    <2> QED
      BY <1>1, <2>1, <2>2 DEF MainLoop
  <1>2. CASE Callback \/ TimePasses
    BY <1>2 DEF Callback, TimePasses, SmNext
  <1>3. CASE Outside(Operator) \/ Outside(EventThread) \/ Outside(Framework)
    BY <1>3 DEF Outside
  <1>4. CASE UNCHANGED teleopVars
    BY <1>4 DEF teleopVars
  <1> QED
    BY <1>1, <1>2, <1>3, <1>4 DEF Next

\* The composition implements the mode state machine alone.
THEOREM StateMachineImplemented == Spec => SmSpec
  <1>1. Init => SmInit
    BY DEF Init
  <1> QED
    BY <1>1, ModeStep, PTL DEF Spec, SmSpec

\* The callback restarts a controller only while there is one to restart.
ModeInv ==
  /\ SmTypeOK
  /\ cbPc \in {"idle", "swap", "snapshot"}
  /\ cbPc = "snapshot" => todo # <<>>

\* Every step of the state machine keeps it: an accepted event names a configured
\* state, and the list copied under the lock is not empty.
LEMMA ModeInvStep == ModeInv /\ [SmNext]_smVars => ModeInv'
  <1> SUFFICES ASSUME ModeInv, [SmNext]_smVars PROVE ModeInv'
    OBVIOUS
  <1> USE DEF ModeInv, SmTypeOK, CallbackPoints
  <1>1. ASSUME NEW topic \in Topics, Accept(topic) \/ Reject(topic)
        PROVE  ModeInv'
    <2>1. TopicStates[topic] \in Seq(States) /\ 0 \in 0..Interval
      BY ConfigShape, ControllerParameters
    <2>2. CASE Accept(topic)
      <3>1. PICK i \in DOMAIN TopicStates[topic] : current_state_name_' = TopicStates[topic][i]
        BY <2>2 DEF Accept
      <3>2. current_state_name_' \in States
        BY <2>1, <3>1
      <3> QED
        BY <2>1, <2>2, <3>2 DEF Accept
    <2>3. CASE Reject(topic)
      BY <2>1, <2>3 DEF Reject
    <2> QED
      BY <1>1, <2>2, <2>3
  <1>2. CASE SwapControllers
    BY <1>2, ConfigShape, ListsNotEmpty DEF SwapControllers
  <1>3. CASE RestartWhole
    BY <1>3 DEF RestartWhole, Restarted
  <1>4. CASE Tick
    BY <1>4, ControllerParameters DEF Tick
  <1>5. CASE UNCHANGED smVars
    BY <1>5 DEF smVars
  <1> QED
    BY <1>1, <1>2, <1>3, <1>4, <1>5 DEF SmNext

\* The state machine keeps its types, and its restart loop never runs past the
\* end of the list it copied (control_module.cc:31-44).
THEOREM ModeInvariant == SmSpec => []ModeInv
  <1>1. SmInit => ModeInv
    BY ConfigShape, ControllerParameters
       DEF SmInit, ModeInv, SmTypeOK, CallbackPoints
  <1> QED
    BY <1>1, ModeInvStep, PTL DEF SmSpec

-----------------------------------------------------------------------------
(* The velocities the policies were given.                                 *)

\* A policy is given what the limiter holds and nothing else.
Given == joy_data_ \in [RlControllers -> 0..FullScale]

\* Only the velocity callback gives a policy a velocity, the limiter's new one
\* (control_module.cc:83-89).
LEMMA GivenStep ==
  ASSUME Given, JoyTypeOK', [Next]_teleopVars
  PROVE  Given'
  <1>1. CASE Velocity /\ target # NoTarget
    BY <1>1 DEF Velocity, SetCmdData, Given, JoyTypeOK
  <1>2. CASE UNCHANGED joy_data_
    BY <1>2 DEF Given
  <1> QED
    BY <1>1, <1>2 DEF Next, MainLoop, Cycle, Velocity, Trigger, Callback, TimePasses, Outside,
       teleopVars

\* All variables of the composition keep their types: the state machine stays
\* among the configured states, the restart loop among the known controllers, and
\* no policy is ever given a velocity beyond a full deflection of the stick
\* (control_module.cc:31-44, 83-89; joy_stick_module.cc:97-201).
THEOREM TeleopTypeCorrect == Spec => []TypeOK
  <1>1. Init => Given
    BY JoyAssumption DEF Init, Given
  <1>2. Spec => []JoyTypeOK
    BY JoyStickImplemented, JoyTypeCorrect, PTL
  <1>3. Spec => []ModeInv
    BY StateMachineImplemented, ModeInvariant, PTL
  <1>4. Given /\ JoyTypeOK' /\ [Next]_teleopVars => Given'
    BY GivenStep
  <1>5. ModeInv /\ JoyTypeOK /\ Given => TypeOK
    BY DEF ModeInv, TypeOK, Given
  <1> QED
    BY <1>1, <1>2, <1>3, <1>4, <1>5, PTL DEF Spec

-----------------------------------------------------------------------------
(* The mode graph.                                                         *)

\* The new mode has the old one among its pre_states.
Along == Edge(current_state_name_, current_state_name_')

\* The only step that changes the mode is an accepted trigger, which takes the first
\* legal state of its topic (state_machine.h: OnEvent).
LEMMA ChangesAlongEdge ==
  ASSUME ModeInv, [SmNext]_smVars, current_state_name_' # current_state_name_
  PROVE  /\ current_state_name_ \in States /\ current_state_name_' \in States
         /\ Along
  <1>1. PICK topic \in Topics : Accept(topic)
    BY DEF SmNext, Reject, SwapControllers, RestartWhole, Tick, smVars
  <1>2. PICK i \in DOMAIN TopicStates[topic] :
          /\ IsFirstLegal(topic, current_state_name_, i)
          /\ current_state_name_' = TopicStates[topic][i]
    BY <1>1 DEF Accept
  <1>3. current_state_name_ \in PreStates[current_state_name_']
    BY <1>2 DEF IsFirstLegal, Legal
  <1>4. TopicStates[topic] \in Seq(States)
    BY ConfigShape
  <1>5. current_state_name_' \in States
    BY <1>2, <1>4
  <1> QED
    BY <1>3, <1>5 DEF ModeInv, SmTypeOK, Edge, Along

\* Whatever the operator does, every change of mode is one its new state allows
\* (state_machine.h: OnEvent), for every configuration.
THEOREM ModeFollowsEdges == Spec => [][Along]_current_state_name_
  <1>1. ModeInv /\ [SmNext]_smVars => [Along]_current_state_name_
    BY ChangesAlongEdge
  <1> QED
    BY <1>1, ModeInvariant, StateMachineImplemented, PTL DEF SmSpec

-----------------------------------------------------------------------------
(* The X1 (rl_x1.yaml).                                                    *)

\* The elements of a list of the file.
LEMMA ListElements ==
  /\ \A a : ToSet(<<a>>) = {a}
  /\ \A a, b : ToSet(<<a, b>>) = {a, b}
  /\ \A a, b, c : ToSet(<<a, b, c>>) = {a, b, c}
  /\ \A a, b, c, d : ToSet(<<a, b, c, d>>) = {a, b, c, d}
  BY DEF ToSet

\* The controllers of every state.
LEMMA X1Lists ==
  /\ ToSet(X1ControllerList["idle"]) = {"pd_idle"}
  /\ ToSet(X1ControllerList["keep"]) = {"pd_keep"}
  /\ ToSet(X1ControllerList["zero"]) = {"pd_zero"}
  /\ ToSet(X1ControllerList["stand"]) = {"pd_zero", "pd_stand"}
  /\ ToSet(X1ControllerList["walk_leg"]) = {"pd_zero", "pd_stand", "rl_walk_leg"}
  /\ ToSet(X1ControllerList["walk_leg_arm"]) = {"pd_zero", "pd_stand", "rl_walk_leg_shoulder"}
  /\ ToSet(X1ControllerList["stand_&_plan"]) = {"pd_zero", "pd_stand", "pd_plan"}
  /\ ToSet(X1ControllerList["keep_&_plan"]) = {"pd_keep", "pd_plan"}
  /\ ToSet(X1ControllerList["walk_leg_&_plan"]) =
       {"pd_zero", "pd_stand", "rl_walk_leg", "pd_plan"}
  <1>1. /\ X1ControllerList["idle"] = <<"pd_idle">>
        /\ X1ControllerList["keep"] = <<"pd_keep">>
        /\ X1ControllerList["zero"] = <<"pd_zero">>
        /\ X1ControllerList["stand"] = <<"pd_zero", "pd_stand">>
        /\ X1ControllerList["walk_leg"] = <<"pd_zero", "pd_stand", "rl_walk_leg">>
        /\ X1ControllerList["walk_leg_arm"] = <<"pd_zero", "pd_stand", "rl_walk_leg_shoulder">>
        /\ X1ControllerList["stand_&_plan"] = <<"pd_zero", "pd_stand", "pd_plan">>
        /\ X1ControllerList["keep_&_plan"] = <<"pd_keep", "pd_plan">>
        /\ X1ControllerList["walk_leg_&_plan"] =
             <<"pd_zero", "pd_stand", "rl_walk_leg", "pd_plan">>
    BY DEF X1ControllerList, X1States
  <1> QED
    BY <1>1, ListElements

\* The states that run a policy.
LEMMA X1Walking ==
  ASSUME NEW s \in X1States, Walks(s)
  PROVE  s \in {"walk_leg", "walk_leg_arm", "walk_leg_&_plan"}
  BY X1Graph, X1Lists DEF X1States, Walks

\* A policy state is entered from a state that stands.
LEMMA X1StandsBefore ==
  ASSUME NEW s \in X1States, NEW s2 \in X1States, Edge(s, s2), Walks(s2)
  PROVE  "pd_stand" \in ToSet(ControllerList[s])
  <1>1. s \in PreStates[s2] /\ s2 \in {"walk_leg", "walk_leg_arm", "walk_leg_&_plan"}
    BY X1Walking DEF Edge
  <1>2. /\ X1PreStates["walk_leg"] = WalkLegPreStates
        /\ X1PreStates["walk_leg_arm"] = {"stand_&_plan", "walk_leg_&_plan", "stand", "walk_leg"}
        /\ X1PreStates["walk_leg_&_plan"] = {"walk_leg", "walk_leg_&_plan"}
    BY DEF X1PreStates, X1States
  <1>3. s \in {"stand_&_plan", "walk_leg_&_plan", "stand", "walk_leg", "walk_leg_arm"}
    BY X1Graph, <1>1, <1>2 DEF WalkLegPreStates
  <1> QED
    BY X1Graph, X1Lists, <1>3

\* A policy takes over only from a standing robot, however the triggers, the
\* throttle and the callback interleave (rl_x1.yaml: robot_states).
THEOREM X1PolicyStartsFromStand == Spec => PolicyStartsFromStand
  <1>1. ModeInv /\ [SmNext]_smVars =>
          [Walks(current_state_name_') =>
             "pd_stand" \in ToSet(ControllerList[current_state_name_])]_current_state_name_
    <2> SUFFICES ASSUME ModeInv, [SmNext]_smVars, current_state_name_' # current_state_name_,
                        Walks(current_state_name_')
                 PROVE  "pd_stand" \in ToSet(ControllerList[current_state_name_])
      OBVIOUS
    <2>1. PICK s, s2 : s = current_state_name_ /\ s2 = current_state_name_'
      OBVIOUS
    <2>2. s \in X1States /\ s2 \in X1States /\ Edge(s, s2) /\ Walks(s2)
      BY X1Graph, <2>1, ChangesAlongEdge DEF Along
    <2>3. "pd_stand" \in ToSet(ControllerList[s])
      BY <2>2, X1StandsBefore
    <2> QED
      BY <2>1, <2>3
  <1> QED
    BY <1>1, ModeInvariant, StateMachineImplemented, PTL DEF SmSpec, PolicyStartsFromStand

\* In every mode it can be in, the robot can be made limp by one idle trigger
\* (rl_x1.yaml: pre_states of idle).
THEOREM X1CanGoIdle == Spec => []EveryModeCanGoIdle
  <1>1. ASSUME NEW s \in X1States, s # "idle"
        PROVE  Legal("/idle_mode", s) # {}
    <2>1. TopicStates["/idle_mode"] = <<"idle">>
      BY X1Graph DEF X1TopicStates, X1Topics
    <2>2. PreStates["idle"] = IdlePreStates
      BY X1Graph DEF X1PreStates, X1States
    <2>3. s \in IdlePreStates
      BY <1>1 DEF X1States, IdlePreStates
    <2>4. 1 \in Legal("/idle_mode", s)
      BY <2>1, <2>2, <2>3 DEF Legal
    <2> QED
      BY <2>4
  <1>2. ModeInv => EveryModeCanGoIdle
    BY X1Graph, <1>1 DEF ModeInv, SmTypeOK, EveryModeCanGoIdle
  <1> QED
    BY <1>2, ModeInvariant, StateMachineImplemented, PTL

=============================================================================
