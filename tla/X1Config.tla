------------------------------- MODULE X1Config -------------------------------
(***************************************************************************)
(* The mode graph and the controllers of the X1 robot: the robot_states    *)
(* and controllers sections of rl_x1.yaml (rl_x1_sim.yaml has the same),   *)
(* and the buttons of its joystick, from joy_x1.yaml.                      *)
(*                                                                         *)
(* The 29 joints fall into eight groups whose members are commanded by the *)
(* same controllers; one name stands for each group.                       *)
(***************************************************************************)
EXTENDS TLC

X1Topics ==
  {"/idle_mode", "/keep_mode", "/zero_mode", "/stand_mode", "/walk_mode", "/walk_mode2",
   "/plan_mode"}

\* trigger_state_map_: only /plan_mode has more than one state.
X1TopicStates ==
  [topic \in X1Topics |->
     CASE topic = "/idle_mode"  -> <<"idle">>
       [] topic = "/keep_mode"  -> <<"keep">>
       [] topic = "/zero_mode"  -> <<"zero">>
       [] topic = "/stand_mode" -> <<"stand">>
       [] topic = "/walk_mode"  -> <<"walk_leg">>
       [] topic = "/walk_mode2" -> <<"walk_leg_arm">>
       [] topic = "/plan_mode"  -> <<"stand_&_plan", "keep_&_plan", "walk_leg_&_plan">>]

\* Plausible slips in the file.
IdlePreStatesNoPlan ==
  {"keep", "stand_&_plan", "keep_&_plan", "zero", "stand", "walk_leg", "walk_leg_arm"}

WalkLegPreStatesFromKeep == {"stand_&_plan", "keep_&_plan", "stand", "walk_leg_arm"}

IdlePreStates ==
  {"keep", "stand_&_plan", "keep_&_plan", "walk_leg_&_plan", "zero", "stand", "walk_leg",
   "walk_leg_arm"}

WalkLegPreStates == {"stand_&_plan", "walk_leg_&_plan", "stand", "walk_leg_arm"}

X1States ==
  {"idle", "keep", "zero", "stand", "walk_leg", "walk_leg_arm", "stand_&_plan", "keep_&_plan",
   "walk_leg_&_plan"}

\* wa_&_plan is what the file says; no state has that name.
X1PreStates ==
  [s \in X1States |->
     CASE s = "idle"            -> IdlePreStates
       [] s = "keep"            -> {"idle", "stand_&_plan", "keep_&_plan", "wa_&_plan", "zero",
                                    "stand", "walk_leg", "walk_leg_arm"}
       [] s = "zero"            -> {"idle", "keep", "stand", "stand_&_plan"}
       [] s = "stand"           -> {"zero", "stand_&_plan", "keep_&_plan", "walk_leg_&_plan",
                                    "walk_leg", "walk_leg_arm"}
       [] s = "walk_leg"        -> WalkLegPreStates
       [] s = "walk_leg_arm"    -> {"stand_&_plan", "walk_leg_&_plan", "stand", "walk_leg"}
       [] s = "stand_&_plan"    -> {"stand", "stand_&_plan"}
       [] s = "keep_&_plan"     -> {"keep", "keep_&_plan"}
       [] s = "walk_leg_&_plan" -> {"walk_leg", "walk_leg_&_plan"}]

X1ControllerList ==
  [s \in X1States |->
     CASE s = "idle"            -> <<"pd_idle">>
       [] s = "keep"            -> <<"pd_keep">>
       [] s = "zero"            -> <<"pd_zero">>
       [] s = "stand"           -> <<"pd_zero", "pd_stand">>
       [] s = "walk_leg"        -> <<"pd_zero", "pd_stand", "rl_walk_leg">>
       [] s = "walk_leg_arm"    -> <<"pd_zero", "pd_stand", "rl_walk_leg_shoulder">>
       [] s = "stand_&_plan"    -> <<"pd_zero", "pd_stand", "pd_plan">>
       [] s = "keep_&_plan"     -> <<"pd_keep", "pd_plan">>
       [] s = "walk_leg_&_plan" -> <<"pd_zero", "pd_stand", "rl_walk_leg", "pd_plan">>]

\* waist: the lumbar, elbow and shoulder yaw and wrist joints of one controller
\* layer; right_shoulder, right_yaw and right_elbow: the joints of pd_plan.
X1Joints ==
  {"waist", "left_shoulder", "arms", "right_shoulder", "right_yaw", "right_elbow",
   "legs", "ankle_roll"}

X1JointsOf ==
  "pd_idle"                 :> X1Joints
  @@ "pd_keep"              :> X1Joints
  @@ "pd_zero"              :> X1Joints
  @@ "pd_stand"             :> {"left_shoulder", "arms", "right_shoulder", "right_elbow",
                                "legs"}
  @@ "pd_plan"              :> {"right_shoulder", "right_yaw", "right_elbow"}
  @@ "rl_walk_leg"          :> {"legs", "ankle_roll"}
  @@ "rl_walk_leg_shoulder" :> {"legs", "ankle_roll", "left_shoulder", "right_shoulder"}

X1FloatPubs ==
  LET Pub(t, b) == [topic |-> t, buttons |-> {b}]
  IN  <<Pub("/idle_mode", 7), Pub("/zero_mode", 1), Pub("/stand_mode", 0), Pub("/walk_mode", 2),
        Pub("/walk_mode2", 3), Pub("/keep_mode", 6), Pub("/plan_mode", 5)>>
=============================================================================
