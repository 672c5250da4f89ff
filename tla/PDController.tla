----------------------------- MODULE PDController -----------------------------
(***************************************************************************)
(* The state of the PDControllers (pd_controller.cc, controller_base.cc)   *)
(* and of the Interpolator a plan controller owns (utilities.cc), and the  *)
(* steps of their methods.  Two threads call them: the trigger callback    *)
(* calls RestartController, the control loop calls Update and              *)
(* GetJointCmdData.  Only joint_state_data_ is behind a mutex; every other *)
(* field is shared without one, so a method is split where the other       *)
(* thread's accesses can fall between two of its own.                      *)
(*                                                                         *)
(* A pose stands for the whole vector of joint angles: every formula of    *)
(* the code acts on the joints one by one and alike.                       *)
(***************************************************************************)
EXTENDS ControlConfig

VARIABLES
  joint_state_data_,    \* the position vector last delivered to the controllers
  start_joint_angles_,  \* per PDController
  trans_mode_percent_,  \* per PDController, in steps of 1 / RampSteps
  to_interpolate_data_, \* per plan controller: the pose its trajectory starts and ends in
  data_,                \* per plan controller: the interpolated points
  current_row_,         \* per plan controller: points already taken
  construct_flag_       \* per plan controller

pdVars == <<joint_state_data_, start_joint_angles_, trans_mode_percent_,
            to_interpolate_data_, data_, current_row_, construct_flag_>>

PdTypeOK ==
  /\ joint_state_data_ \in Poses
  /\ start_joint_angles_ \in [PdControllers -> Poses \cup {NoPose}]
  /\ trans_mode_percent_ \in [PdControllers -> 0..RampSteps]
  /\ to_interpolate_data_ \in [PlanControllers -> Poses \cup {NoPose}]
  /\ data_ \in [PlanControllers -> Seq(Poses \cup {NoPose})]
  /\ current_row_ \in [PlanControllers -> Nat]
  /\ construct_flag_ \in [PlanControllers -> BOOLEAN]

\* Init of every PDController; the interpolator is empty until the first restart.
PdInit ==
  /\ joint_state_data_ = ZeroPose
  /\ start_joint_angles_ = [c \in PdControllers |-> ZeroPose]
  /\ trans_mode_percent_ = [c \in PdControllers |-> 0]
  /\ to_interpolate_data_ = [c \in PlanControllers |-> ZeroPose]
  /\ data_ = [c \in PlanControllers |-> <<>>]
  /\ current_row_ = [c \in PlanControllers |-> 0]
  /\ construct_flag_ = [c \in PlanControllers |-> FALSE]

-----------------------------------------------------------------------------
(* What plausible slips of the code would look like.                       *)

\* Update without std::min.
NextPercentUncapped(p) == p + 1

\* Update forgets to advance the percentage.
NextPercentStuck(p) == p

\* A keep controller commands what it measures.
PdCommandMeasured(c) ==
  [by   |-> c,
   from |-> joint_state_data_,
   pct  |-> IF c \in TransControllers THEN trans_mode_percent_[c] ELSE 0]

-----------------------------------------------------------------------------
\* SetJointStateData of all controllers.  Each takes its own mutex; no two
\* controllers' samples are compared anywhere, so one step stands for all.
SetJointStateData(pose) ==
  /\ joint_state_data_' = pose
  /\ UNCHANGED <<start_joint_angles_, trans_mode_percent_, to_interpolate_data_, data_,
                 current_row_, construct_flag_>>

-----------------------------------------------------------------------------
(* RestartController                                                       *)

\* The locked block: the measured pose becomes the starting pose.
RestartSnapshot(c) ==
  /\ start_joint_angles_' = [start_joint_angles_ EXCEPT ![c] = joint_state_data_]
  /\ UNCHANGED <<joint_state_data_, trans_mode_percent_, to_interpolate_data_, data_,
                 current_row_, construct_flag_>>

\* trans_mode_percent_ = 0 and, for a plan controller (whose percentage nobody
\* reads), the ends of the trajectory.
RestartPercent(c) ==
  /\ trans_mode_percent_' = [trans_mode_percent_ EXCEPT ![c] = 0]
  /\ to_interpolate_data_' = IF c \in PlanControllers
       THEN [to_interpolate_data_ EXCEPT ![c] = start_joint_angles_[c]]
       ELSE to_interpolate_data_
  /\ UNCHANGED <<joint_state_data_, start_joint_angles_, data_, current_row_,
                 construct_flag_>>

\* Interpolator::Init: construct_flag_ = false and data_.clear().
InterpolatorClear(c) ==
  /\ construct_flag_' = [construct_flag_ EXCEPT ![c] = FALSE]
  /\ data_' = [data_ EXCEPT ![c] = <<>>]
  /\ UNCHANGED <<joint_state_data_, start_joint_angles_, trans_mode_percent_,
                 to_interpolate_data_, current_row_>>

\* Interpolator::Init: the points, from the starting pose over the waypoints
\* and back.  One point stands for the points of one segment.
InterpolatorBuild(c) ==
  /\ data_' = [data_ EXCEPT
       ![c] = <<to_interpolate_data_[c]>> \o Waypoints \o <<to_interpolate_data_[c]>>]
  /\ UNCHANGED <<joint_state_data_, start_joint_angles_, trans_mode_percent_,
                 to_interpolate_data_, current_row_, construct_flag_>>

\* Interpolator::Init: current_row_ = 0 and construct_flag_ = true.
InterpolatorArm(c) ==
  /\ current_row_' = [current_row_ EXCEPT ![c] = 0]
  /\ construct_flag_' = [construct_flag_ EXCEPT ![c] = TRUE]
  /\ UNCHANGED <<joint_state_data_, start_joint_angles_, trans_mode_percent_,
                 to_interpolate_data_, data_>>

-----------------------------------------------------------------------------
(* Update                                                                  *)

\* The percentage after one control cycle, capped at 1.
NextPercent(p) == Min2(p + 1, RampSteps)

\* trans_mode_percent_ is loaded, advanced and stored; p is the value loaded.
\* A reset between the two assignments of the code ends as one after both.
UpdateStore(c, p) ==
  /\ trans_mode_percent_' = [trans_mode_percent_ EXCEPT ![c] = NextPercent(p)]
  /\ UNCHANGED <<joint_state_data_, start_joint_angles_, to_interpolate_data_, data_,
                 current_row_, construct_flag_>>

\* GetNextPoint: the test that admits the read.
HasNextPoint(c) == current_row_[c] < Len(data_[c]) /\ construct_flag_[c]

\* GetNextPoint: the read.  If data_ was cleared since the test, the element is
\* destroyed memory.
TakePoint(c) ==
  /\ start_joint_angles_' = [start_joint_angles_ EXCEPT
       ![c] = IF current_row_[c] < Len(data_[c])
              THEN data_[c][current_row_[c] + 1]
              ELSE NoPose]
  /\ UNCHANGED <<joint_state_data_, trans_mode_percent_, to_interpolate_data_, data_,
                 current_row_, construct_flag_>>

\* GetNextPoint: ++current_row_, from row r, the value used for the read or one
\* loaded again.
AdvanceRow(c, r) ==
  /\ current_row_' = [current_row_ EXCEPT ![c] = r + 1]
  /\ UNCHANGED <<joint_state_data_, start_joint_angles_, trans_mode_percent_,
                 to_interpolate_data_, data_, construct_flag_>>

(***************************************************************************)
(* GetJointCmdData: a keep or plan controller commands its starting pose,  *)
(* any other one the blend start * (1 - p) + init_state * p.               *)
(***************************************************************************)
PdCommand(c) ==
  [by   |-> c,
   from |-> start_joint_angles_[c],
   pct  |-> IF c \in TransControllers THEN trans_mode_percent_[c] ELSE 0]
=============================================================================
