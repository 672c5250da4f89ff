----------------------------- MODULE RLController -----------------------------
(***************************************************************************)
(* The control state of the RLControllers (rl_controller.cc): which cycles *)
(* run the policy, and whether the filters, the observation history and    *)
(* the actions in use date from the present activation.  What the policy   *)
(* computes is left out.                                                   *)
(***************************************************************************)
EXTENDS ControlConfig

VARIABLES
  is_first_frame_,
  loop_count_,     \* modulo decimation, which is all that Update asks of it
  primed           \* filters, history and actions were set since the last restart

rlVars == <<is_first_frame_, loop_count_, primed>>

RlTypeOK ==
  /\ is_first_frame_ \in [RlControllers -> BOOLEAN]
  /\ loop_count_ \in [RlControllers -> 0..(Decimation - 1)]
  /\ primed \in [RlControllers -> BOOLEAN]

RlInit ==
  /\ is_first_frame_ = [c \in RlControllers |-> TRUE]
  /\ loop_count_ = [c \in RlControllers |-> 0]
  /\ primed = [c \in RlControllers |-> FALSE]

-----------------------------------------------------------------------------
(* What plausible slips of the code would look like.                       *)

\* RestartController clears the flag it should set.
RlRestartNoFirstFrame(c) ==
  /\ is_first_frame_' = [is_first_frame_ EXCEPT ![c] = FALSE]
  /\ primed' = [primed EXCEPT ![c] = FALSE]
  /\ UNCHANGED loop_count_

-----------------------------------------------------------------------------
\* RestartController: the flag only; loop_count_ and the actions stay.
RlRestart(c) ==
  /\ is_first_frame_' = [is_first_frame_ EXCEPT ![c] = TRUE]
  /\ primed' = [primed EXCEPT ![c] = FALSE]
  /\ UNCHANGED loop_count_

(***************************************************************************)
(* Update.  Every Decimation-th call computes an observation and actions;  *)
(* the first observation after a restart resets the filters and fills the  *)
(* whole history.  It is one step: a RestartController between the test of *)
(* is_first_frame_ and its reset ends as if it had come just before the    *)
(* test, with filters and history set in the same cycle.                   *)
(***************************************************************************)
RlUpdate(c) ==
  /\ IF loop_count_[c] = 0
     THEN /\ is_first_frame_' = [is_first_frame_ EXCEPT ![c] = FALSE]
          /\ primed' = [primed EXCEPT ![c] = @ \/ is_first_frame_[c]]
     ELSE UNCHANGED <<is_first_frame_, primed>>
  /\ loop_count_' = [loop_count_ EXCEPT ![c] =
       IF @ = Decimation - 1 THEN 0 ELSE @ + 1]

\* GetJointCmdData: the filtered actions.
RlCommand(c) == [by |-> c, from |-> NoPose, pct |-> 0]
=============================================================================
