---------------------------- MODULE ControlModule ----------------------------
(***************************************************************************)
(* The control module (control_module.cc): the trigger callback, the joint *)
(* state callback and the 1 kHz MainLoop, over the state machine and the   *)
(* controllers they share.                                                 *)
(***************************************************************************)
EXTENDS StateMachine, PDController, RLController

VARIABLES
  run_flag_,
  loopPc,     \* where MainLoop is
  names,      \* its copy of controllers_, or NoState outside an iteration
  idx,        \* the controller of names it is at
  loaded,     \* the trans_mode_percent_ or current_row_ it has loaded
  cmd_msg,    \* the message it fills in, one slot per joint
  joint_cmd,  \* the message last published
  shown,      \* the mode whose list produced joint_cmd, or NoState
  restarted,  \* history: PDControllers restarted since controllers_ was replaced
  staleFrames \* history: per RLController, commands taken since its restart
              \* from filters and actions older than it

loopVars == <<run_flag_, loopPc, names, idx, loaded, cmd_msg, joint_cmd, shown>>
histVars == <<restarted, staleFrames>>
vars == <<smVars, pdVars, rlVars, loopVars, histVars>>

LoopPoints == {"test", "wake", "update", "store", "point", "row", "getcmd", "publish", "exit"}

\* A slot of the message: who wrote it, from which pose, how far along the ramp,
\* and whether its controller had been restarted for the active mode.
Slot == [by: Controllers \cup {NoState}, from: Poses \cup {NoPose},
         pct: 0..RampSteps, fresh: BOOLEAN]

Blank == [by |-> NoState, from |-> ZeroPose, pct |-> 0, fresh |-> TRUE]

TypeOK ==
  /\ SmTypeOK
  /\ PdTypeOK
  /\ RlTypeOK
  /\ run_flag_ \in BOOLEAN
  /\ loopPc \in LoopPoints
  /\ names \in States \cup {NoState}
  /\ idx \in Nat
  /\ loaded \in Nat
  /\ cmd_msg \in [Joints -> Slot]
  /\ joint_cmd \in [Joints -> Slot]
  /\ shown \in States \cup {NoState}
  /\ restarted \in SUBSET PdControllers
  /\ staleFrames \in [RlControllers -> 0..(Decimation + 1)]

Init ==
  /\ SmInit
  /\ PdInit
  /\ RlInit
  /\ run_flag_ = TRUE
  /\ loopPc = "test"
  /\ names = NoState
  /\ idx = 1
  /\ loaded = 0
  /\ cmd_msg = [j \in Joints |-> Blank]
  /\ joint_cmd = [j \in Joints |-> Blank]
  /\ shown = NoState
  /\ restarted = PdControllers
  /\ staleFrames = [c \in RlControllers |-> 0]

-----------------------------------------------------------------------------
(* The trigger callback.                                                   *)

Trigger(topic) ==
  /\ Accept(topic) \/ Reject(topic)
  /\ UNCHANGED <<pdVars, rlVars, loopVars, histVars>>

CallbackSwap ==
  /\ SwapControllers
  /\ restarted' = {}
  /\ UNCHANGED <<pdVars, rlVars, loopVars, staleFrames>>

\* RestartController of an RLController.
CallbackRestartRl ==
  /\ cbPc = "snapshot"
  /\ Head(todo) \in RlControllers
  /\ RlRestart(Head(todo))
  /\ Restarted
  /\ staleFrames' = [staleFrames EXCEPT ![Head(todo)] = 0]
  /\ UNCHANGED <<current_state_name_, controllers_, elapsed, pdVars, loopVars, restarted>>

\* RestartController of a PDController: start_joint_angles_, ...
CallbackSnapshot ==
  /\ cbPc = "snapshot"
  /\ Head(todo) \in PdControllers
  /\ RestartSnapshot(Head(todo))
  /\ cbPc' = "percent"
  /\ UNCHANGED <<current_state_name_, controllers_, elapsed, todo, rlVars, loopVars,
                 histVars>>

\* ... then trans_mode_percent_, ...
CallbackPercent ==
  /\ cbPc = "percent"
  /\ RestartPercent(Head(todo))
  /\ IF Head(todo) \in PlanControllers
     THEN cbPc' = "clear" /\ UNCHANGED <<todo, restarted>>
     ELSE Restarted /\ restarted' = restarted \cup {Head(todo)}
  /\ UNCHANGED <<current_state_name_, controllers_, elapsed, rlVars, loopVars, staleFrames>>

\* ... then, for a plan controller, Interpolator::Init.
CallbackClear ==
  /\ cbPc = "clear"
  /\ InterpolatorClear(Head(todo))
  /\ cbPc' = "build"
  /\ UNCHANGED <<current_state_name_, controllers_, elapsed, todo, rlVars, loopVars,
                 histVars>>

CallbackBuild ==
  /\ cbPc = "build"
  /\ InterpolatorBuild(Head(todo))
  /\ cbPc' = "arm"
  /\ UNCHANGED <<current_state_name_, controllers_, elapsed, todo, rlVars, loopVars,
                 histVars>>

CallbackArm ==
  /\ cbPc = "arm"
  /\ InterpolatorArm(Head(todo))
  /\ Restarted
  /\ restarted' = restarted \cup {Head(todo)}
  /\ UNCHANGED <<current_state_name_, controllers_, elapsed, rlVars, loopVars, staleFrames>>

CallbackStep ==
  \/ CallbackSwap \/ CallbackRestartRl \/ CallbackSnapshot \/ CallbackPercent
  \/ CallbackClear \/ CallbackBuild \/ CallbackArm

\* The joint state callback.
JointState(pose) ==
  /\ pose # joint_state_data_
  /\ SetJointStateData(pose)
  /\ UNCHANGED <<smVars, rlVars, loopVars, histVars>>

TimePasses ==
  /\ Tick
  /\ UNCHANGED <<pdVars, rlVars, loopVars, histVars>>

Shutdown ==
  /\ run_flag_
  /\ run_flag_' = FALSE
  /\ UNCHANGED <<smVars, pdVars, rlVars, loopPc, names, idx, loaded, cmd_msg, joint_cmd,
                 shown, histVars>>

-----------------------------------------------------------------------------
(* What plausible slips of the code would look like.                       *)

\* The loop asks the state machine again for every controller.
RunningLive == ControllerList[controllers_][Min2(idx, Len(ControllerList[controllers_]))]

-----------------------------------------------------------------------------
(* MainLoop.                                                               *)

\* The head of the while.
LoopTest ==
  /\ loopPc = "test"
  /\ loopPc' = IF run_flag_ THEN "wake" ELSE "exit"
  /\ UNCHANGED <<smVars, pdVars, rlVars, run_flag_, names, idx, loaded, cmd_msg,
                 joint_cmd, shown, histVars>>

\* sleep_until returns; GetCurrentControllerNames copies the list under the lock.
LoopWake ==
  /\ loopPc = "wake"
  /\ names' = controllers_
  /\ idx' = 1
  /\ loopPc' = "update"
  /\ UNCHANGED <<smVars, pdVars, rlVars, run_flag_, loaded, cmd_msg, joint_cmd, shown,
                 histVars>>

\* The controller the iteration is at.
Running == ControllerList[names][idx]

LoopNext ==
  /\ idx' = idx + 1
  /\ loopPc' = IF idx + 1 <= Len(ControllerList[names]) THEN "update" ELSE "publish"

\* PDController::Update of a keep controller, which does nothing.
LoopUpdateKeep ==
  /\ loopPc = "update"
  /\ Running \in KeepControllers
  /\ loopPc' = "getcmd"
  /\ UNCHANGED <<smVars, pdVars, rlVars, run_flag_, names, idx, loaded, cmd_msg,
                 joint_cmd, shown, histVars>>

\* PDController::Update of a plan controller: the test in GetNextPoint ...
LoopUpdatePlan ==
  /\ loopPc = "update"
  /\ Running \in PlanControllers
  /\ loopPc' = IF HasNextPoint(Running) THEN "point" ELSE "getcmd"
  /\ UNCHANGED <<smVars, pdVars, rlVars, run_flag_, names, idx, loaded, cmd_msg,
                 joint_cmd, shown, histVars>>

\* ... the point it takes ...
LoopPoint ==
  /\ loopPc = "point"
  /\ TakePoint(Running)
  /\ loaded' = current_row_[Running]
  /\ loopPc' = "row"
  /\ UNCHANGED <<smVars, rlVars, run_flag_, names, idx, cmd_msg, joint_cmd, shown,
                 histVars>>

\* ... and the row it goes on to.
LoopRow ==
  /\ loopPc = "row"
  /\ \E r \in {loaded, current_row_[Running]} : AdvanceRow(Running, r)
  /\ loopPc' = "getcmd"
  /\ UNCHANGED <<smVars, rlVars, run_flag_, names, idx, loaded, cmd_msg, joint_cmd,
                 shown, histVars>>

\* PDController::Update in transition mode: the load ...
LoopLoad ==
  /\ loopPc = "update"
  /\ Running \in TransControllers
  /\ loaded' = trans_mode_percent_[Running]
  /\ loopPc' = "store"
  /\ UNCHANGED <<smVars, pdVars, rlVars, run_flag_, names, idx, cmd_msg, joint_cmd,
                 shown, histVars>>

\* ... and the store.
LoopStore ==
  /\ loopPc = "store"
  /\ UpdateStore(Running, loaded)
  /\ loopPc' = "getcmd"
  /\ UNCHANGED <<smVars, rlVars, run_flag_, names, idx, loaded, cmd_msg, joint_cmd,
                 shown, histVars>>

\* RLController::Update.
LoopUpdateRl ==
  /\ loopPc = "update"
  /\ Running \in RlControllers
  /\ RlUpdate(Running)
  /\ loopPc' = "getcmd"
  /\ UNCHANGED <<smVars, pdVars, run_flag_, names, idx, loaded, cmd_msg, joint_cmd,
                 shown, histVars>>

\* The copy of one controller's command over the message: later ones win.
Merged(c, cmd) ==
  [j \in Joints |-> IF j \in JointsOf[c] THEN cmd ELSE cmd_msg[j]]

\* What GetJointCmdData of controller c returns, with the history flag added.
Command(c) ==
  LET cmd == IF c \in RlControllers THEN RlCommand(c) ELSE PdCommand(c)
  IN  [by |-> c, from |-> cmd.from, pct |-> cmd.pct,
       fresh |-> IF c \in RlControllers THEN primed[c] ELSE c \in restarted]

\* GetJointCmdData, and the loop that copies the command into cmd_msg.
LoopGetCmd ==
  /\ loopPc = "getcmd"
  /\ cmd_msg' = Merged(Running, Command(Running))
  /\ staleFrames' = IF Running \in RlControllers
                    THEN [staleFrames EXCEPT ![Running] =
                            IF primed[Running] THEN 0 ELSE Min2(@ + 1, Decimation + 1)]
                    ELSE staleFrames
  /\ LoopNext
  /\ UNCHANGED <<smVars, pdVars, rlVars, run_flag_, names, loaded, joint_cmd, shown,
                 restarted>>

LoopPublish ==
  /\ loopPc = "publish"
  /\ joint_cmd' = cmd_msg
  /\ shown' = names
  /\ names' = NoState
  /\ loopPc' = "test"
  /\ UNCHANGED <<smVars, pdVars, rlVars, run_flag_, idx, loaded, cmd_msg, histVars>>

LoopStep ==
  \/ LoopTest \/ LoopWake \/ LoopUpdateKeep \/ LoopUpdatePlan \/ LoopPoint \/ LoopRow
  \/ LoopLoad \/ LoopStore \/ LoopUpdateRl \/ LoopGetCmd \/ LoopPublish

-----------------------------------------------------------------------------
Next ==
  \/ \E topic \in Topics : Trigger(topic)
  \/ CallbackStep
  \/ LoopStep
  \/ \E pose \in Poses : JointState(pose)
  \/ TimePasses
  \/ Shutdown

Spec == Init /\ [][Next]_vars

(***************************************************************************)
(* The control loop and a callback that has begun are scheduled again and  *)
(* again, and time passes.  Nobody has to send triggers or joint states,   *)
(* or to shut the module down.                                             *)
(***************************************************************************)
FairSpec ==
  /\ Spec
  /\ WF_vars(LoopStep)
  /\ WF_vars(CallbackStep)
  /\ WF_vars(TimePasses)

-----------------------------------------------------------------------------
(* Properties that hold.                                                   *)

(***************************************************************************)
(* Every published command is the merge of the controllers of one mode: at *)
(* each joint stands the command of the last controller of that mode's     *)
(* list that has the joint, whatever mode changes ran while MainLoop was   *)
(* collecting it, and no slot is left over from an earlier mode.           *)
(***************************************************************************)
FrameOfOneMode ==
  shown # NoState =>
    \A j \in Joints : Wins(shown, Len(ControllerList[shown]), j, joint_cmd[j].by)

(***************************************************************************)
(* When no trigger callback is running, the list in use is that of the     *)
(* current state and each of its PDControllers has been restarted since    *)
(* the list was put in place.                                              *)
(***************************************************************************)
SettledMode ==
  cbPc = "idle" =>
    /\ controllers_ = current_state_name_
    /\ \A k \in 1..Len(ControllerList[controllers_]) :
         ControllerList[controllers_][k] \in PdControllers =>
           ControllerList[controllers_][k] \in restarted

(***************************************************************************)
(* After RestartController an RLController is asked for at most Decimation *)
(* commands before its filters and history are set afresh, although        *)
(* loop_count_ is never reset.                                             *)
(***************************************************************************)
RlStaleBounded == \A c \in RlControllers : staleFrames[c] <= Decimation

\* The modes the callbacks and the loop go through are those of ModeSwitch.
Modes == INSTANCE ModeSwitch WITH
  mode <- controllers_, picked <- names, shown <- shown, running <- loopPc # "exit"

\* The control module implements the abstract mode switch, its progress included.
ImplementsModes == Modes!MFairSpec

(***************************************************************************)
(* A state that OnEvent has entered shows in a published command, unless   *)
(* it is left before or the module is shut down.                           *)
(***************************************************************************)
ModeReachesCommand ==
  \A s \in States :
    current_state_name_ = s ~> (shown = s \/ current_state_name_ # s \/ ~run_flag_)

\* The module settles in state s: no trigger is accepted any more, not even one
\* that enters s from itself and so restarts its controllers.
SettlesIn(s) == <>[](current_state_name_ = s /\ cbPc = "idle" /\ run_flag_)

(***************************************************************************)
(* If the module settles in one mode, its commands settle too: every slot  *)
(* comes from a controller restarted (or, for a policy, initialised) for   *)
(* this activation, and every transition is at its target pose for good.   *)
(***************************************************************************)
CommandsSettle ==
  \A s \in States :
    SettlesIn(s) =>
      <>[](\A j \in Joints :
             /\ joint_cmd[j].fresh
             /\ joint_cmd[j].by \in TransControllers => joint_cmd[j].pct = RampSteps)

(***************************************************************************)
(* If the module settles in one mode, its keep controllers hold one pose   *)
(* for good, however the measured joint positions go on changing.          *)
(***************************************************************************)
KeepHolds ==
  \A s \in States :
    SettlesIn(s) =>
      \E p \in Poses :
        <>[](\A j \in Joints :
               joint_cmd[j].by \in KeepControllers => joint_cmd[j].from = p)

-----------------------------------------------------------------------------
(* What the documents say and the code does not keep.                      *)

(***************************************************************************)
(* A transition advances by at most one step at a time                     *)
(* (l0_system_architecture.md: smooth interpolation to the target within   *)
(* two seconds).  Update and RestartController write trans_mode_percent_   *)
(* from two threads, and Update's store can undo the reset.                *)
(***************************************************************************)
RampIsGradual ==
  [][\A c \in TransControllers :
       trans_mode_percent_'[c] <= trans_mode_percent_[c] + 1]_trans_mode_percent_
=============================================================================
