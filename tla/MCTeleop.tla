------------------------------ MODULE MCTeleop ------------------------------
(***************************************************************************)
(* The joystick and the mode graph of the X1, as joy_x1.yaml and           *)
(* rl_x1.yaml configure them.                                              *)
(***************************************************************************)
EXTENDS Teleop, SequencesExt, X1Config

MCStates      == X1States
MCTopics      == X1Topics
MCControllers == DOMAIN X1JointsOf
MCWaypoints   == <<ZeroPose>>

MCSessions == {{0, 1, 2, 3, 5, 6, 7}, {0, 1, 2, 4}}

\* What follows is about the X1: its graph, its lists and its policies.
ASSUME X1Graph ==
  /\ States = X1States /\ TopicStates = X1TopicStates
  /\ PreStates = X1PreStates /\ ControllerList = X1ControllerList
  /\ RlControllers = {"rl_walk_leg", "rl_walk_leg_shoulder"}

\* The list of state s runs a policy.
Walks(s) == ToSet(ControllerList[s]) \cap RlControllers # {}

(***************************************************************************)
(* Whatever the robot is doing, one idle trigger that passes the throttle  *)
(* makes it limp: every state but idle is in idle's pre_states.            *)
(***************************************************************************)
EveryModeCanGoIdle ==
  current_state_name_ # "idle" => Legal("/idle_mode", current_state_name_) # {}

(***************************************************************************)
(* A policy takes over only from a standing robot: a state that walks is   *)
(* entered from a state whose list holds the standing pose in pd_stand.    *)
(***************************************************************************)
PolicyStartsFromStand ==
  [][Walks(current_state_name_') =>
       "pd_stand" \in ToSet(ControllerList[current_state_name_])]_current_state_name_
=============================================================================
