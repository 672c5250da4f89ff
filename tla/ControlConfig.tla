---------------------------- MODULE ControlConfig ----------------------------
(***************************************************************************)
(* The configuration of the control module: what ControlModule::Initialize *)
(* and StateMachine::Init read from rl_x1.yaml, and the compile-time       *)
(* constants of the controllers.  Every other module of the control        *)
(* component EXTENDS this one.                                             *)
(***************************************************************************)
EXTENDS Naturals, Sequences

CONSTANTS
  States,          \* the keys of robot_states
  Topics,          \* the trigger topics
  TopicStates,     \* trigger_state_map_: the states a topic may lead to, in file order
  PreStates,       \* pre_states of every state, as written (a name may be unknown)
  InitialState,    \* the first key of robot_states
  NoState,         \* stands for "no list has been fetched" and "nothing published"
  Controllers,     \* the keys of controller_map_
  ControllerList,  \* controllers of every state, in file order
  Joints,          \* joint_list
  JointsOf,        \* joint_list of every controller
  KeepControllers, \* PDControllers with is_keep_controller
  PlanControllers, \* PDControllers with plan_conf
  RlControllers,   \* RLControllers
  Poses,           \* measured joint positions
  ZeroPose,        \* the zeros joint_state_data_ is allocated with
  Waypoints,       \* the poses of trajectory_interpolator, in order
  NoPose,          \* a command that is no pose: a policy output, or undefined memory
  RampSteps,       \* control cycles in trans_mode_duration_s_
  Decimation,      \* control cycles per policy inference
  Interval         \* the throttle's 1000 ms, in clock ticks

(***************************************************************************)
(* What the yaml file and the parser guarantee: every state is listed      *)
(* under some topic's entry with known controllers, the file has a first   *)
(* state, and a controller is of one kind only.                            *)
(***************************************************************************)
ASSUME ConfigShape ==
  /\ InitialState \in States
  /\ NoState \notin States
  /\ TopicStates \in [Topics -> Seq(States)]
  /\ DOMAIN PreStates = States
  /\ ControllerList \in [States -> Seq(Controllers)]
  /\ JointsOf \in [Controllers -> SUBSET Joints]
  /\ KeepControllers \subseteq Controllers
  /\ PlanControllers \subseteq Controllers
  /\ RlControllers \subseteq Controllers
  /\ KeepControllers \cap PlanControllers = {}
  /\ (KeepControllers \cup PlanControllers) \cap RlControllers = {}

ASSUME ControllerParameters ==
  /\ ZeroPose \in Poses
  /\ NoPose \notin Poses
  /\ Waypoints \in Seq(Poses)
  /\ RampSteps \in Nat \ {0}
  /\ Decimation \in Nat \ {0}
  /\ Interval \in Nat \ {0}

(***************************************************************************)
(* MainLoop writes only the slots of the controllers it runs, so a joint   *)
(* no controller of a state commands would keep the previous state's       *)
(* command.  The shipped files give every state a controller for all       *)
(* joints; the lists are not empty.                                        *)
(***************************************************************************)
ASSUME EveryJointCommanded ==
  \A s \in States, j \in Joints :
    \E k \in 1..Len(ControllerList[s]) : j \in JointsOf[ControllerList[s][k]]

ASSUME ListsNotEmpty == \A s \in States : ControllerList[s] # <<>>

PdControllers    == Controllers \ RlControllers
TransControllers == PdControllers \ (KeepControllers \cup PlanControllers)

Min2(a, b) == IF a <= b THEN a ELSE b

\* State s lists a pre_state in which it may be entered.
Edge(from, to) == from \in PreStates[to]

(***************************************************************************)
(* Controller c is the last of the first n controllers of state s that     *)
(* commands joint j: the one whose command survives in the merged message. *)
(***************************************************************************)
Wins(s, n, j, c) ==
  \E k \in 1..n :
    /\ ControllerList[s][k] = c
    /\ j \in JointsOf[c]
    /\ \A l \in 1..n : l > k => j \notin JointsOf[ControllerList[s][l]]
=============================================================================
