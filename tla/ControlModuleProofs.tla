------------------------- MODULE ControlModuleProofs -------------------------
(***************************************************************************)
(* Theorems about the control module, for every configuration that meets   *)
(* the assumptions of ControlConfig.                                       *)
(***************************************************************************)
EXTENDS ControlModule, TLAPS

-----------------------------------------------------------------------------
(* The inductive invariant.                                                *)

\* MainLoop is inside the for loop over its copy of the list.
Iterating == loopPc \in {"update", "store", "point", "row", "getcmd"}

\* Where MainLoop is, and what the controller it is at must be.
LoopAt ==
  /\ Iterating => names \in States /\ idx \in 1..Len(ControllerList[names])
  /\ loopPc = "publish" => names \in States /\ idx = Len(ControllerList[names]) + 1
  /\ loopPc \in {"test", "wake", "exit"} => names = NoState
  /\ loopPc = "store" => Running \in TransControllers
  /\ loopPc \in {"point", "row"} => Running \in PlanControllers

\* Where the trigger callback is: between the two halves of OnEvent the list is
\* that of a state the new one may be entered from.
CallbackAt ==
  /\ cbPc = "swap" => Edge(controllers_, current_state_name_)
  /\ cbPc # "swap" => controllers_ = current_state_name_
  /\ cbPc = "idle" => todo = <<>>
  /\ cbPc \in {"snapshot", "percent", "clear", "build", "arm"} => todo # <<>>
  /\ cbPc = "percent" => Head(todo) \in PdControllers
  /\ cbPc \in {"clear", "build", "arm"} => Head(todo) \in PlanControllers

\* The PDControllers of the list that are not restarted yet are in todo.
RestartsPending ==
  cbPc # "swap" =>
    \A k \in 1..Len(ControllerList[controllers_]) :
      ControllerList[controllers_][k] \in PdControllers =>
        \/ ControllerList[controllers_][k] \in restarted
        \/ \E m \in 1..Len(todo) : todo[m] = ControllerList[controllers_][k]

\* The message holds the merge of the controllers MainLoop has been through.
MergedSoFar ==
  (Iterating \/ loopPc = "publish") =>
    \A j \in Joints :
      (\E k \in 1..(idx - 1) : j \in JointsOf[ControllerList[names][k]])
        => Wins(names, idx - 1, j, cmd_msg[j].by)

\* The commands a policy will still be asked for before its next inference.
CyclesLeft(c) == IF loop_count_[c] = 0 THEN 0 ELSE Decimation - loop_count_[c]
Pending(c)    == IF loopPc = "getcmd" /\ Running = c THEN 1 ELSE 0

\* A policy that is not primed will be at its next inference, in time.
StaleBudget ==
  \A c \in RlControllers :
    ~primed[c] =>
      /\ is_first_frame_[c]
      /\ staleFrames[c] + CyclesLeft(c) + Pending(c) <= Decimation

Inv == TypeOK /\ LoopAt /\ CallbackAt

-----------------------------------------------------------------------------
(* The configuration.                                                      *)

\* The kinds of controllers, from the assumptions on the configuration.
LEMMA Kinds ==
  /\ PdControllers \subseteq Controllers
  /\ KeepControllers \subseteq PdControllers
  /\ PlanControllers \subseteq PdControllers
  /\ TransControllers \subseteq PdControllers
  /\ RlControllers \subseteq Controllers
  /\ RlControllers \cap PdControllers = {}
  /\ Controllers = KeepControllers \cup PlanControllers \cup TransControllers \cup RlControllers
BY ConfigShape DEF PdControllers, TransControllers

\* The capped percentage of Update is a percentage.
LEMMA NextPercentType ==
  ASSUME NEW p \in Nat
  PROVE  NextPercent(p) \in 0..RampSteps
BY ControllerParameters DEF NextPercent, Min2

\* The controller MainLoop is at exists.
LEMMA RunningType ==
  ASSUME LoopAt, Iterating
  PROVE  Running \in Controllers
BY ConfigShape DEF LoopAt, Iterating, Running

\* What RestartController leaves in todo.
LEMMA RestartedType ==
  ASSUME TypeOK, todo # <<>>, Restarted
  PROVE  /\ Head(todo) \in Controllers
         /\ todo' \in Seq(Controllers)
         /\ cbPc' \in {"idle", "snapshot"}
         /\ cbPc' = "idle" => todo' = <<>>
         /\ cbPc' = "snapshot" => todo' # <<>>
BY DEF TypeOK, SmTypeOK, Restarted

-----------------------------------------------------------------------------
(* Type correctness.                                                       *)

\* After Initialize the invariant holds.
LEMMA InitInv == Init => Inv
<1> SUFFICES ASSUME Init PROVE Inv
  OBVIOUS
<1>1. SmTypeOK
  BY ConfigShape, ControllerParameters DEF Init, SmInit, SmTypeOK, CallbackPoints
<1>2. PdTypeOK
  BY ConfigShape, ControllerParameters, Kinds DEF Init, PdInit, PdTypeOK
<1>3. RlTypeOK
  BY ControllerParameters DEF Init, RlInit, RlTypeOK
<1>4. TypeOK
  BY <1>1, <1>2, <1>3, ControllerParameters DEF Init, TypeOK, LoopPoints, Slot, Blank
<1>5. LoopAt
  BY DEF Init, LoopAt, Iterating
<1>6. CallbackAt
  BY DEF Init, SmInit, CallbackAt
<1> QED
  BY <1>4, <1>5, <1>6 DEF Inv

\* Every step keeps where MainLoop is consistent.
LEMMA LoopAtStep == Inv /\ [Next]_vars => LoopAt'
<1> SUFFICES ASSUME Inv, [Next]_vars PROVE LoopAt'
  OBVIOUS
<1> USE DEF Inv
<1>1. CASE UNCHANGED <<loopPc, names, idx>>
  BY <1>1 DEF LoopAt, Iterating, Running
<1>2. CASE LoopTest
  BY <1>2 DEF LoopAt, LoopTest, Iterating
<1>3. CASE LoopWake
  <2>1. names' \in States /\ idx' = 1 /\ Len(ControllerList[names']) >= 1
    BY <1>3, ConfigShape, ListsNotEmpty DEF LoopWake, TypeOK, SmTypeOK
  <2> QED
    BY <2>1, <1>3, ConfigShape DEF LoopAt, LoopWake, Iterating
<1>4. CASE LoopUpdateKeep
  BY <1>4 DEF LoopAt, LoopUpdateKeep, Iterating
<1>5. CASE LoopUpdatePlan
  BY <1>5 DEF LoopAt, LoopUpdatePlan, Iterating, Running
<1>6. CASE LoopPoint
  BY <1>6 DEF LoopAt, LoopPoint, Iterating, Running
<1>7. CASE LoopRow
  BY <1>7 DEF LoopAt, LoopRow, Iterating
<1>8. CASE LoopLoad
  BY <1>8 DEF LoopAt, LoopLoad, Iterating, Running
<1>9. CASE LoopStore
  BY <1>9 DEF LoopAt, LoopStore, Iterating
<1>10. CASE LoopUpdateRl
  BY <1>10 DEF LoopAt, LoopUpdateRl, Iterating
<1>11. CASE LoopGetCmd
  <2>1. names \in States /\ idx \in 1..Len(ControllerList[names]) /\ names' = names
    BY <1>11 DEF LoopAt, LoopGetCmd, Iterating
  <2>2. Len(ControllerList[names]) \in Nat
    BY <2>1, ConfigShape
  <2> QED
    BY <2>1, <2>2, <1>11 DEF LoopAt, LoopGetCmd, LoopNext, Iterating
<1>12. CASE LoopPublish
  BY <1>12 DEF LoopAt, LoopPublish, Iterating
<1> QED
  BY <1>1, <1>2, <1>3, <1>4, <1>5, <1>6, <1>7, <1>8, <1>9, <1>10, <1>11, <1>12
  DEF Next, vars, loopVars, Trigger, CallbackStep, CallbackSwap, CallbackRestartRl,
      CallbackSnapshot, CallbackPercent, CallbackClear, CallbackBuild, CallbackArm,
      JointState, TimePasses, Shutdown, LoopStep

\* Every step keeps where the trigger callback is consistent.
LEMMA CallbackAtStep == Inv /\ [Next]_vars => CallbackAt'
<1> SUFFICES ASSUME Inv, [Next]_vars PROVE CallbackAt'
  OBVIOUS
<1> USE DEF Inv
<1>1. CASE UNCHANGED <<current_state_name_, controllers_, cbPc, todo>>
  BY <1>1 DEF CallbackAt, Edge
<1>2. ASSUME NEW topic \in Topics, Accept(topic) PROVE CallbackAt'
  <2>1. cbPc = "idle" /\ cbPc' = "swap" /\ controllers_' = controllers_ /\ todo' = todo
    BY <1>2 DEF Accept
  <2>2. controllers_ = current_state_name_
    BY <2>1 DEF CallbackAt
  <2>3. PICK i \in DOMAIN TopicStates[topic] :
          /\ IsFirstLegal(topic, current_state_name_, i)
          /\ current_state_name_' = TopicStates[topic][i]
    BY <1>2 DEF Accept
  <2>4. Edge(controllers_', current_state_name_')
    BY <2>1, <2>2, <2>3 DEF IsFirstLegal, Legal, Edge
  <2> QED
    BY <2>1, <2>4 DEF CallbackAt
<1>3. CASE SwapControllers
  BY <1>3, ListsNotEmpty DEF SwapControllers, CallbackAt, TypeOK, SmTypeOK
<1>4. CASE CallbackRestartRl
  BY <1>4, RestartedType DEF CallbackRestartRl, CallbackAt
<1>5. CASE CallbackSnapshot
  BY <1>5 DEF CallbackSnapshot, CallbackAt
<1>6. CASE CallbackPercent
  BY <1>6, RestartedType DEF CallbackPercent, CallbackAt
<1>7. CASE CallbackClear
  BY <1>7 DEF CallbackClear, CallbackAt
<1>8. CASE CallbackBuild
  BY <1>8 DEF CallbackBuild, CallbackAt
<1>9. CASE CallbackArm
  BY <1>9, RestartedType DEF CallbackArm, CallbackAt
<1> QED
  BY <1>1, <1>2, <1>3, <1>4, <1>5, <1>6, <1>7, <1>8, <1>9
  DEF Next, vars, smVars, Trigger, Reject, CallbackStep, CallbackSwap, JointState,
      TimePasses, Tick, Shutdown, LoopStep, LoopTest, LoopWake, LoopUpdateKeep,
      LoopUpdatePlan, LoopPoint, LoopRow, LoopLoad, LoopStore, LoopUpdateRl, LoopGetCmd,
      LoopPublish

\* Every step of the trigger callback keeps the types.
LEMMA CallbackTypeStep == Inv /\ CallbackStep => TypeOK'
<1> SUFFICES ASSUME Inv, CallbackStep PROVE TypeOK'
  OBVIOUS
<1> USE DEF Inv, CallbackPoints
<1>1. CASE CallbackSwap
  <2>1. SmTypeOK'
    BY <1>1, ConfigShape DEF CallbackSwap, SwapControllers, TypeOK, SmTypeOK
  <2> QED
    BY <2>1, <1>1 DEF CallbackSwap, TypeOK, PdTypeOK, RlTypeOK, pdVars, rlVars, loopVars
<1>2. CASE CallbackRestartRl
  <2>1. todo # <<>> /\ Restarted
    BY <1>2 DEF CallbackRestartRl, CallbackAt
  <2>2. SmTypeOK'
    BY <1>2, <2>1, RestartedType DEF CallbackRestartRl, TypeOK, SmTypeOK
  <2>3. RlTypeOK'
    BY <1>2 DEF CallbackRestartRl, RlRestart, TypeOK, RlTypeOK
  <2>4. staleFrames' \in [RlControllers -> 0..(Decimation + 1)]
    BY <1>2, ControllerParameters DEF CallbackRestartRl, TypeOK
  <2> QED
    BY <2>2, <2>3, <2>4, <1>2 DEF CallbackRestartRl, TypeOK, PdTypeOK, pdVars, loopVars
<1>3. CASE CallbackSnapshot
  <2>1. SmTypeOK'
    BY <1>3 DEF CallbackSnapshot, TypeOK, SmTypeOK
  <2>2. PdTypeOK'
    BY <1>3 DEF CallbackSnapshot, RestartSnapshot, TypeOK, PdTypeOK
  <2> QED
    BY <2>1, <2>2, <1>3
    DEF CallbackSnapshot, TypeOK, RlTypeOK, rlVars, loopVars, histVars
<1>4. CASE CallbackPercent
  <2>1. todo # <<>> /\ Head(todo) \in PdControllers
    BY <1>4 DEF CallbackPercent, CallbackAt
  <2>2. SmTypeOK'
    BY <1>4, <2>1, RestartedType DEF CallbackPercent, TypeOK, SmTypeOK
  <2>3. start_joint_angles_[Head(todo)] \in Poses \cup {NoPose}
    BY <2>1 DEF TypeOK, PdTypeOK
  <2>4. PdTypeOK'
    <3>1. trans_mode_percent_' \in [PdControllers -> 0..RampSteps]
      <4>1. trans_mode_percent_' = [trans_mode_percent_ EXCEPT ![Head(todo)] = 0]
        BY <1>4 DEF CallbackPercent, RestartPercent
      <4>2. 0 \in 0..RampSteps
        BY ControllerParameters
      <4> QED
        BY <4>1, <4>2 DEF TypeOK, PdTypeOK
    <3>2. to_interpolate_data_' \in [PlanControllers -> Poses \cup {NoPose}]
      <4>1. \/ to_interpolate_data_' = to_interpolate_data_
            \/ to_interpolate_data_' = [to_interpolate_data_ EXCEPT
                 ![Head(todo)] = start_joint_angles_[Head(todo)]]
        BY <1>4 DEF CallbackPercent, RestartPercent
      <4> QED
        BY <4>1, <2>3 DEF TypeOK, PdTypeOK
    <3> QED
      BY <1>4, <3>1, <3>2 DEF CallbackPercent, RestartPercent, TypeOK, PdTypeOK
  <2>5. restarted' \in SUBSET PdControllers
    BY <1>4, <2>1 DEF CallbackPercent, TypeOK
  <2> QED
    BY <2>2, <2>4, <2>5, <1>4 DEF CallbackPercent, TypeOK, RlTypeOK, rlVars, loopVars
<1>5. CASE CallbackClear
  <2>1. SmTypeOK'
    BY <1>5 DEF CallbackClear, TypeOK, SmTypeOK
  <2>2. PdTypeOK'
    <3>1. construct_flag_' \in [PlanControllers -> BOOLEAN]
      BY <1>5 DEF CallbackClear, InterpolatorClear, TypeOK, PdTypeOK
    <3>2. <<>> \in Seq(Poses \cup {NoPose})
      OBVIOUS
    <3>3. data_' \in [PlanControllers -> Seq(Poses \cup {NoPose})]
      BY <1>5, <3>2 DEF CallbackClear, InterpolatorClear, TypeOK, PdTypeOK
    <3> QED
      BY <1>5, <3>1, <3>3 DEF CallbackClear, InterpolatorClear, TypeOK, PdTypeOK
  <2> QED
    BY <2>1, <2>2, <1>5 DEF CallbackClear, TypeOK, RlTypeOK, rlVars, loopVars, histVars
<1>6. CASE CallbackBuild
  <2>1. SmTypeOK'
    BY <1>6 DEF CallbackBuild, TypeOK, SmTypeOK
  <2>2. Head(todo) \in PlanControllers
    BY <1>6 DEF CallbackBuild, CallbackAt
  <2> DEFINE end == to_interpolate_data_[Head(todo)]
  <2>3. end \in Poses \cup {NoPose}
    BY <2>2 DEF TypeOK, PdTypeOK
  <2>4. <<end>> \o Waypoints \o <<end>> \in Seq(Poses \cup {NoPose})
    <3>1. Waypoints \in Seq(Poses \cup {NoPose})
      BY ControllerParameters
    <3> QED
      BY <3>1, <2>3
  <2>5. PdTypeOK'
    BY <1>6, <2>4 DEF CallbackBuild, InterpolatorBuild, TypeOK, PdTypeOK
  <2> QED
    BY <2>1, <2>5, <1>6 DEF CallbackBuild, TypeOK, RlTypeOK, rlVars, loopVars, histVars
<1>7. CASE CallbackArm
  <2>1. todo # <<>> /\ Head(todo) \in PdControllers
    BY <1>7, Kinds DEF CallbackArm, CallbackAt
  <2>2. SmTypeOK'
    BY <1>7, <2>1, RestartedType DEF CallbackArm, TypeOK, SmTypeOK
  <2>3. PdTypeOK'
    BY <1>7 DEF CallbackArm, InterpolatorArm, TypeOK, PdTypeOK
  <2> QED
    BY <2>1, <2>2, <2>3, <1>7 DEF CallbackArm, TypeOK, RlTypeOK, rlVars, loopVars
<1> QED
  BY <1>1, <1>2, <1>3, <1>4, <1>5, <1>6, <1>7 DEF CallbackStep

\* What GetJointCmdData returns is a slot of the message.
LEMMA CommandType ==
  ASSUME TypeOK, NEW c \in Controllers
  PROVE  Command(c) \in Slot /\ Command(c).by = c
<1>1. CASE c \in RlControllers
  BY <1>1, ControllerParameters DEF Command, RlCommand, Slot, TypeOK, RlTypeOK
<1>2. CASE c \in PdControllers
  <2>1. start_joint_angles_[c] \in Poses \cup {NoPose} /\ trans_mode_percent_[c] \in 0..RampSteps
    BY <1>2 DEF TypeOK, PdTypeOK
  <2> QED
    <3>1. c \notin RlControllers
      BY <1>2 DEF PdControllers
    <3> DEFINE pct == IF c \in TransControllers THEN trans_mode_percent_[c] ELSE 0
    <3>2. pct \in 0..RampSteps
      BY <2>1, ControllerParameters
    <3>3. Command(c) = [by |-> c, from |-> start_joint_angles_[c], pct |-> pct,
                        fresh |-> c \in restarted]
      BY <3>1 DEF Command, PdCommand
    <3>4. (c \in restarted) \in BOOLEAN
      OBVIOUS
    <3> HIDE DEF pct
    <3> QED
      BY <2>1, <3>2, <3>3, <3>4 DEF Slot
<1> QED
  BY <1>1, <1>2 DEF PdControllers

\* Every step of MainLoop keeps the types.
LEMMA LoopTypeStep == Inv /\ LoopStep => TypeOK'
<1> SUFFICES ASSUME Inv, LoopStep PROVE TypeOK'
  OBVIOUS
<1> USE DEF Inv, LoopPoints
<1>1. CASE LoopTest \/ LoopUpdateKeep \/ LoopUpdatePlan
  BY <1>1 DEF LoopTest, LoopUpdateKeep, LoopUpdatePlan, TypeOK, SmTypeOK, PdTypeOK, RlTypeOK,
     smVars, pdVars, rlVars, histVars
<1>2. CASE LoopWake
  BY <1>2 DEF LoopWake, TypeOK, SmTypeOK, PdTypeOK, RlTypeOK, smVars, pdVars, rlVars, histVars
<1>3. CASE LoopPoint
  <2>1. Running \in PlanControllers
    BY <1>3 DEF LoopPoint, LoopAt
  <2>2. current_row_[Running] \in Nat /\ data_[Running] \in Seq(Poses \cup {NoPose})
    BY <2>1 DEF TypeOK, PdTypeOK
  <2>3. current_row_[Running] < Len(data_[Running]) =>
          data_[Running][current_row_[Running] + 1] \in Poses \cup {NoPose}
    BY <2>2
  <2>4. PdTypeOK'
    BY <1>3, <2>3 DEF LoopPoint, TakePoint, TypeOK, PdTypeOK
  <2> QED
    BY <2>2, <2>4, <1>3 DEF LoopPoint, TypeOK, SmTypeOK, RlTypeOK, smVars, rlVars, histVars
<1>4. CASE LoopRow
  <2>1. current_row_[Running] \in Nat
    BY <1>4 DEF LoopRow, LoopAt, TypeOK, PdTypeOK
  <2>2. PICK r \in {loaded, current_row_[Running]} : AdvanceRow(Running, r)
    BY <1>4 DEF LoopRow
  <2>3. PdTypeOK'
    <3>1. r + 1 \in Nat
      BY <2>1, <2>2 DEF TypeOK
    <3>2. current_row_' \in [PlanControllers -> Nat]
      BY <2>2, <3>1 DEF AdvanceRow, TypeOK, PdTypeOK
    <3> QED
      BY <2>2, <3>2 DEF AdvanceRow, TypeOK, PdTypeOK
  <2> QED
    BY <2>3, <1>4 DEF LoopRow, TypeOK, SmTypeOK, RlTypeOK, smVars, rlVars, histVars
<1>5. CASE LoopLoad
  <2>1. trans_mode_percent_[Running] \in Nat
    BY <1>5, Kinds, ControllerParameters DEF LoopLoad, TypeOK, PdTypeOK
  <2> QED
    BY <2>1, <1>5 DEF LoopLoad, TypeOK, SmTypeOK, PdTypeOK, RlTypeOK, smVars, pdVars, rlVars,
       histVars
<1>6. CASE LoopStore
  <2>1. NextPercent(loaded) \in 0..RampSteps
    BY NextPercentType DEF TypeOK
  <2>2. PdTypeOK'
    BY <1>6, <2>1 DEF LoopStore, UpdateStore, TypeOK, PdTypeOK
  <2> QED
    BY <2>2, <1>6 DEF LoopStore, TypeOK, SmTypeOK, RlTypeOK, smVars, rlVars, histVars
<1>7. CASE LoopUpdateRl
  <2>1. RlTypeOK'
    <3>1. loop_count_' \in [RlControllers -> 0..(Decimation - 1)]
      <4> DEFINE n == IF loop_count_[Running] = Decimation - 1 THEN 0
                      ELSE loop_count_[Running] + 1
      <4>1. loop_count_[Running] \in 0..(Decimation - 1)
        BY <1>7 DEF LoopUpdateRl, TypeOK, RlTypeOK
      <4>2. n \in 0..(Decimation - 1)
        BY <4>1, ControllerParameters
      <4>3. loop_count_' = [loop_count_ EXCEPT ![Running] = n]
        BY <1>7 DEF LoopUpdateRl, RlUpdate
      <4> HIDE DEF n
      <4> QED
        BY <4>2, <4>3 DEF TypeOK, RlTypeOK
    <3>2. is_first_frame_' \in [RlControllers -> BOOLEAN]
      BY <1>7 DEF LoopUpdateRl, RlUpdate, TypeOK, RlTypeOK
    <3>3. primed' \in [RlControllers -> BOOLEAN]
      <4> DEFINE ready == primed[Running] \/ is_first_frame_[Running]
      <4>1. ready \in BOOLEAN
        OBVIOUS
      <4>2. primed' = [primed EXCEPT ![Running] = ready] \/ primed' = primed
        BY <1>7 DEF LoopUpdateRl, RlUpdate
      <4> HIDE DEF ready
      <4> QED
        BY <4>1, <4>2 DEF TypeOK, RlTypeOK
    <3> QED
      BY <3>1, <3>2, <3>3 DEF RlTypeOK
  <2> QED
    BY <2>1, <1>7 DEF LoopUpdateRl, TypeOK, SmTypeOK, PdTypeOK, smVars, pdVars, histVars
<1>8. CASE LoopGetCmd
  <2>1. Running \in Controllers
    BY <1>8, RunningType DEF LoopGetCmd, Iterating
  <2>2. cmd_msg' \in [Joints -> Slot]
    BY <1>8, <2>1, CommandType DEF LoopGetCmd, Merged, TypeOK
  <2>3. staleFrames' \in [RlControllers -> 0..(Decimation + 1)]
    BY <1>8, ControllerParameters DEF LoopGetCmd, Min2, TypeOK
  <2> QED
    BY <2>2, <2>3, <1>8 DEF LoopGetCmd, LoopNext, TypeOK, SmTypeOK, PdTypeOK, RlTypeOK, smVars,
       pdVars, rlVars
<1>9. CASE LoopPublish
  BY <1>9 DEF LoopPublish, TypeOK, SmTypeOK, PdTypeOK, RlTypeOK, smVars, pdVars, rlVars,
     histVars
<1> QED
  BY <1>1, <1>2, <1>3, <1>4, <1>5, <1>6, <1>7, <1>8, <1>9 DEF LoopStep

\* Every step keeps the types.
LEMMA TypeStep == Inv /\ [Next]_vars => TypeOK'
<1> SUFFICES ASSUME Inv, [Next]_vars PROVE TypeOK'
  OBVIOUS
<1> USE DEF Inv
<1>1. ASSUME NEW topic \in Topics, Trigger(topic) PROVE TypeOK'
  <2>1. SmTypeOK'
    BY <1>1, ConfigShape, ControllerParameters
    DEF Trigger, Accept, Reject, TypeOK, SmTypeOK, CallbackPoints
  <2> QED
    BY <2>1, <1>1 DEF Trigger, TypeOK, PdTypeOK, RlTypeOK, pdVars, rlVars, loopVars, histVars
<1>2. CASE CallbackStep
  BY <1>2, CallbackTypeStep
<1>3. CASE LoopStep
  BY <1>3, LoopTypeStep
<1>4. ASSUME NEW pose \in Poses, JointState(pose) PROVE TypeOK'
  BY <1>4 DEF JointState, SetJointStateData, TypeOK, SmTypeOK, PdTypeOK, RlTypeOK, smVars,
     rlVars, loopVars, histVars
<1>5. CASE TimePasses
  BY <1>5, ControllerParameters DEF TimePasses, Tick, TypeOK, SmTypeOK, PdTypeOK, RlTypeOK,
     pdVars, rlVars, loopVars, histVars
<1>6. CASE Shutdown
  BY <1>6 DEF Shutdown, TypeOK, SmTypeOK, PdTypeOK, RlTypeOK, smVars, pdVars, rlVars, histVars
<1>7. CASE UNCHANGED vars
  BY <1>7 DEF vars, TypeOK, SmTypeOK, PdTypeOK, RlTypeOK, smVars, pdVars, rlVars, loopVars,
     histVars
<1> QED
  BY <1>1, <1>2, <1>3, <1>4, <1>5, <1>6, <1>7 DEF Next

\* The invariant the other proofs start from.
LEMMA Invariance == Spec => []Inv
<1>1. Inv /\ [Next]_vars => Inv'
  BY TypeStep, LoopAtStep, CallbackAtStep DEF Inv
<1> QED
  BY InitInv, <1>1, PTL DEF Spec

(***************************************************************************)
(* Type correctness: whatever the interleaving of MainLoop, the trigger    *)
(* callback and the joint state callback, every field of the state         *)
(* machine, the controllers and the message keeps its type, the ramp       *)
(* percentages stay in 0..1 and the policy counters in range.              *)
(***************************************************************************)
THEOREM TypeCorrect == Spec => []TypeOK
<1>1. Inv => TypeOK
  BY DEF Inv
<1> QED
  BY Invariance, <1>1, PTL

-----------------------------------------------------------------------------
(* One mode per command.                                                   *)

\* Of the controllers before position n + 1 a joint's winner is the last one:
\* running controller n + 1 makes it the winner of its joints and leaves the
\* winners of the others.
LEMMA WinsStep ==
  ASSUME NEW s \in States, NEW n \in Nat, n + 1 <= Len(ControllerList[s]),
         NEW j \in Joints, NEW c,
         IF j \in JointsOf[ControllerList[s][n + 1]]
         THEN c = ControllerList[s][n + 1]
         ELSE Wins(s, n, j, c)
  PROVE  Wins(s, n + 1, j, c)
<1>1. CASE j \in JointsOf[ControllerList[s][n + 1]]
  BY <1>1 DEF Wins
<1>2. CASE j \notin JointsOf[ControllerList[s][n + 1]]
  <2>1. PICK k \in 1..n :
          /\ ControllerList[s][k] = c
          /\ j \in JointsOf[c]
          /\ \A l \in 1..n : l > k => j \notin JointsOf[ControllerList[s][l]]
    BY <1>2 DEF Wins
  <2>2. \A l \in 1..(n + 1) : l > k => j \notin JointsOf[ControllerList[s][l]]
    BY <2>1, <1>2
  <2> QED
    BY <2>1, <2>2 DEF Wins
<1> QED
  BY <1>1, <1>2

\* Every step keeps the message the merge of the controllers run so far.
LEMMA MergedStep == Inv /\ MergedSoFar /\ [Next]_vars => MergedSoFar'
<1> SUFFICES ASSUME Inv, MergedSoFar, [Next]_vars PROVE MergedSoFar'
  OBVIOUS
<1> USE DEF Inv
<1>1. CASE UNCHANGED <<loopPc, names, idx, cmd_msg>>
  BY <1>1 DEF MergedSoFar, Iterating, Wins
<1>2. CASE /\ Iterating
           /\ UNCHANGED <<names, idx, cmd_msg>>
  BY <1>2 DEF MergedSoFar, Wins
<1>3. CASE LoopTest \/ LoopPublish
  BY <1>3 DEF LoopTest, LoopPublish, MergedSoFar, Iterating
<1>4. CASE LoopWake
  BY <1>4 DEF LoopWake, MergedSoFar
<1>5. CASE LoopGetCmd
  <2> DEFINE n == idx - 1
  <2>1. /\ Iterating
        /\ names \in States
        /\ idx \in 1..Len(ControllerList[names])
    BY <1>5 DEF LoopGetCmd, LoopAt, Iterating
  <2>2. /\ n \in Nat
        /\ n + 1 = idx
        /\ n + 1 <= Len(ControllerList[names])
    BY <2>1, ConfigShape
  <2>3. names' = names /\ idx' - 1 = n + 1
    BY <1>5, <2>1 DEF LoopGetCmd, LoopNext
  <2>4. Running \in Controllers /\ Running = ControllerList[names][n + 1]
    BY <2>1, <2>2, RunningType DEF Running
  <2>5. ASSUME NEW j \in Joints,
               \E k \in 1..(n + 1) : j \in JointsOf[ControllerList[names][k]]
        PROVE  Wins(names, n + 1, j, cmd_msg'[j].by)
    <3>1. CASE j \in JointsOf[Running]
      <4>1. cmd_msg'[j].by = Running
        BY <1>5, <3>1, <2>4, CommandType DEF LoopGetCmd, Merged
      <4> QED
        BY <4>1, <3>1, <2>1, <2>2, <2>4, WinsStep
    <3>2. CASE j \notin JointsOf[Running]
      <4>1. cmd_msg'[j] = cmd_msg[j]
        BY <1>5, <3>2 DEF LoopGetCmd, Merged
      <4>2. \E k \in 1..n : j \in JointsOf[ControllerList[names][k]]
        <5>1. PICK k \in 1..(n + 1) : j \in JointsOf[ControllerList[names][k]]
          BY <2>5
        <5>2. k # n + 1
          BY <5>1, <3>2, <2>4
        <5> QED
          BY <5>1, <5>2, <2>2
      <4>3. Wins(names, n, j, cmd_msg[j].by)
        BY <4>2, <2>1 DEF MergedSoFar
      <4> QED
        BY <4>1, <4>3, <3>2, <2>1, <2>2, <2>4, WinsStep
    <3> QED
      BY <3>1, <3>2
  <2> HIDE DEF n
  <2> QED
    BY <2>3, <2>5 DEF MergedSoFar, Wins
<1> QED
  BY <1>1, <1>2, <1>3, <1>4, <1>5
  DEF Next, vars, loopVars, Trigger, CallbackStep, CallbackSwap, CallbackRestartRl,
      CallbackSnapshot, CallbackPercent, CallbackClear, CallbackBuild, CallbackArm,
      JointState, TimePasses, Shutdown, LoopStep, LoopUpdateKeep, LoopUpdatePlan, LoopPoint,
      LoopRow, LoopLoad, LoopStore, LoopUpdateRl, Iterating

\* A command that is published has been through the whole list.
LEMMA FrameStep == Inv /\ MergedSoFar /\ FrameOfOneMode /\ [Next]_vars => FrameOfOneMode'
<1> SUFFICES ASSUME Inv, MergedSoFar, FrameOfOneMode, [Next]_vars PROVE FrameOfOneMode'
  OBVIOUS
<1> USE DEF Inv
<1>1. CASE UNCHANGED <<shown, joint_cmd>>
  BY <1>1 DEF FrameOfOneMode, Wins
<1>2. CASE LoopPublish
  <2>1. /\ names \in States
        /\ idx - 1 = Len(ControllerList[names])
    BY <1>2, ConfigShape DEF LoopPublish, LoopAt
  <2>2. \A j \in Joints : Wins(names, idx - 1, j, cmd_msg[j].by)
    BY <1>2, <2>1, EveryJointCommanded DEF LoopPublish, MergedSoFar
  <2> QED
    BY <1>2, <2>1, <2>2 DEF LoopPublish, FrameOfOneMode, Wins
<1> QED
  BY <1>1, <1>2
  DEF Next, vars, loopVars, Trigger, CallbackStep, CallbackSwap, CallbackRestartRl,
      CallbackSnapshot, CallbackPercent, CallbackClear, CallbackBuild, CallbackArm,
      JointState, TimePasses, Shutdown, LoopStep, LoopTest, LoopWake, LoopUpdateKeep,
      LoopUpdatePlan, LoopPoint, LoopRow, LoopLoad, LoopStore, LoopUpdateRl, LoopGetCmd

(***************************************************************************)
(* Every command MainLoop publishes is the complete merge of one mode's    *)
(* controllers, the later ones of the list winning, whatever mode changes  *)
(* the trigger callback makes while the loop is collecting it.             *)
(***************************************************************************)
THEOREM OneModePerFrame == Spec => []FrameOfOneMode
<1>1. Init => MergedSoFar /\ FrameOfOneMode
  BY DEF Init, MergedSoFar, FrameOfOneMode, Iterating
<1>2. Inv /\ MergedSoFar /\ FrameOfOneMode /\ [Next]_vars
        => (MergedSoFar /\ FrameOfOneMode)'
  BY MergedStep, FrameStep
<1> QED
  BY Invariance, <1>1, <1>2, PTL DEF Spec

-----------------------------------------------------------------------------
(* The restarts of a mode change.                                          *)

\* Once RestartController of the first controller in todo has returned, the
\* others are still in todo.
LEMMA RestartedShift ==
  ASSUME TypeOK, todo # <<>>, Restarted, NEW m \in 1..Len(todo)
  PROVE  todo[m] = Head(todo) \/ \E l \in 1..Len(todo') : todo'[l] = todo[m]
<1>1. CASE m = 1
  BY <1>1 DEF TypeOK, SmTypeOK
<1>2. CASE m # 1
  <2>1. /\ m - 1 \in 1..Len(todo')
        /\ todo'[m - 1] = todo[m]
    BY <1>2 DEF TypeOK, SmTypeOK, Restarted
  <2> QED
    BY <2>1
<1> QED
  BY <1>1, <1>2

\* Every step keeps the controllers that wait for their restart in todo.
LEMMA RestartsStep == Inv /\ RestartsPending /\ [Next]_vars => RestartsPending'
<1> SUFFICES ASSUME Inv, RestartsPending, [Next]_vars PROVE RestartsPending'
  OBVIOUS
<1> USE DEF Inv
<1>1. CASE UNCHANGED <<controllers_, cbPc, todo, restarted>>
  BY <1>1 DEF RestartsPending
<1>2. CASE /\ cbPc # "swap"
           /\ UNCHANGED <<controllers_, todo, restarted>>
  BY <1>2 DEF RestartsPending
<1>3. CASE SwapControllers
  BY <1>3, ConfigShape DEF SwapControllers, RestartsPending, TypeOK, SmTypeOK
<1>4. ASSUME /\ cbPc # "swap" /\ todo # <<>>
             /\ Restarted
             /\ controllers_' = controllers_
             /\ restarted \subseteq restarted'
             /\ Head(todo) \in PdControllers => Head(todo) \in restarted'
      PROVE  RestartsPending'
  <2>1. ASSUME NEW k \in 1..Len(ControllerList[controllers_]),
               ControllerList[controllers_][k] \in PdControllers
        PROVE  \/ ControllerList[controllers_][k] \in restarted'
               \/ \E m \in 1..Len(todo') : todo'[m] = ControllerList[controllers_][k]
    <3>1. CASE ControllerList[controllers_][k] \in restarted
      BY <3>1, <1>4
    <3>2. CASE \E m \in 1..Len(todo) : todo[m] = ControllerList[controllers_][k]
      <4>1. PICK m \in 1..Len(todo) : todo[m] = ControllerList[controllers_][k]
        BY <3>2
      <4>2. todo[m] = Head(todo) \/ \E l \in 1..Len(todo') : todo'[l] = todo[m]
        BY <1>4, RestartedShift
      <4> QED
        BY <4>1, <4>2, <2>1, <1>4
    <3> QED
      BY <3>1, <3>2, <2>1, <1>4 DEF RestartsPending
  <2> QED
    BY <2>1, <1>4 DEF RestartsPending
<1>5. CASE CallbackRestartRl
  <2>1. Head(todo) \notin PdControllers
    BY <1>5, Kinds DEF CallbackRestartRl
  <2> QED
    BY <1>5, <2>1, <1>4 DEF CallbackRestartRl, CallbackAt
<1>6. CASE CallbackPercent
  <2>1. CASE Head(todo) \in PlanControllers
    BY <1>6, <2>1, <1>2 DEF CallbackPercent
  <2>2. CASE Head(todo) \notin PlanControllers
    BY <1>6, <2>2, <1>4 DEF CallbackPercent, CallbackAt
  <2> QED
    BY <2>1, <2>2
<1>7. CASE CallbackArm
  BY <1>7, <1>4 DEF CallbackArm, CallbackAt
<1>8. CASE CallbackSnapshot \/ CallbackClear \/ CallbackBuild
  BY <1>8, <1>2 DEF CallbackSnapshot, CallbackClear, CallbackBuild, histVars
<1>9. ASSUME NEW topic \in Topics, Trigger(topic) PROVE RestartsPending'
  BY <1>9, <1>2 DEF Trigger, Accept, Reject, histVars
<1>10. CASE CallbackSwap
  BY <1>10, <1>3 DEF CallbackSwap
<1> QED
  BY <1>1, <1>5, <1>6, <1>7, <1>8, <1>9, <1>10
  DEF Next, vars, smVars, histVars, CallbackStep, JointState, TimePasses, Tick, Shutdown,
      LoopStep, LoopTest, LoopWake, LoopUpdateKeep, LoopUpdatePlan, LoopPoint, LoopRow,
      LoopLoad, LoopStore, LoopUpdateRl, LoopGetCmd, LoopPublish

(***************************************************************************)
(* When no trigger callback is running, controllers_ is the list of        *)
(* current_state_name_ and every PDController in it has been restarted     *)
(* since OnEvent put the list in place.                                    *)
(***************************************************************************)
THEOREM ModeSettles == Spec => []SettledMode
<1>1. Init => RestartsPending
  BY ConfigShape DEF Init, SmInit, RestartsPending
<1>2. Inv /\ RestartsPending => SettledMode
  BY DEF Inv, CallbackAt, RestartsPending, SettledMode
<1> QED
  BY Invariance, RestartsStep, <1>1, <1>2, PTL DEF Spec

-----------------------------------------------------------------------------
(* The refinement.                                                         *)

\* Every step of the control module is a step of ModeSwitch or leaves the mode,
\* the command being computed and the one published alone.
LEMMA ModesStep == Inv /\ [Next]_vars => [Modes!MNext]_(Modes!modeVars)
<1> SUFFICES ASSUME Inv, [Next]_vars PROVE [Modes!MNext]_(Modes!modeVars)
  OBVIOUS
<1> USE DEF Inv, Modes!modeVars
<1>1. CASE UNCHANGED <<controllers_, names, shown, loopPc>>
  BY <1>1
<1>2. CASE CallbackSwap
  <2>1. Edge(controllers_, current_state_name_) /\ current_state_name_ \in States
    BY <1>2 DEF CallbackSwap, SwapControllers, CallbackAt, TypeOK, SmTypeOK
  <2>2. Modes!Switch
    BY <1>2, <2>1
    DEF CallbackSwap, SwapControllers, loopVars, Modes!Switch, Modes!Edge, Edge
  <2> QED
    BY <2>2 DEF Modes!MNext
<1>3. CASE LoopTest
  <2>1. CASE run_flag_
    BY <1>3, <2>1 DEF LoopTest, smVars
  <2>2. CASE ~run_flag_
    <3>1. Modes!Stop
      BY <1>3, <2>2 DEF LoopTest, LoopAt, smVars, Modes!Stop
    <3> QED
      BY <3>1 DEF Modes!MNext
  <2> QED
    BY <2>1, <2>2
<1>4. CASE LoopWake
  <2>1. Modes!Pick
    BY <1>4 DEF LoopWake, LoopAt, smVars, Modes!Pick
  <2> QED
    BY <2>1 DEF Modes!MNext
<1>5. CASE LoopPublish
  <2>1. names # NoState
    BY <1>5, ConfigShape DEF LoopPublish, LoopAt
  <2>2. Modes!Show
    BY <1>5, <2>1 DEF LoopPublish, smVars, Modes!Show
  <2> QED
    BY <2>2 DEF Modes!MNext
<1>6. CASE LoopUpdateKeep \/ LoopUpdatePlan \/ LoopPoint \/ LoopRow \/ LoopLoad
             \/ LoopStore \/ LoopUpdateRl
  BY <1>6 DEF LoopUpdateKeep, LoopUpdatePlan, LoopPoint, LoopRow, LoopLoad, LoopStore,
     LoopUpdateRl, smVars
<1>7. CASE LoopGetCmd
  BY <1>7 DEF LoopGetCmd, LoopNext, smVars
<1>8. ASSUME NEW topic \in Topics, Trigger(topic)
      PROVE  UNCHANGED <<controllers_, names, shown, loopPc>>
  BY <1>8 DEF Trigger, Accept, Reject, loopVars
<1> QED
  BY <1>1, <1>2, <1>3, <1>4, <1>5, <1>6, <1>7, <1>8
  DEF Next, vars, smVars, loopVars, CallbackStep, CallbackRestartRl, CallbackSnapshot,
      CallbackPercent, CallbackClear, CallbackBuild, CallbackArm, JointState, TimePasses,
      Tick, Shutdown, LoopStep

(***************************************************************************)
(* The control module implements ModeSwitch: the list MainLoop works from  *)
(* changes only along the configured edges, and each command it publishes  *)
(* belongs to the list that was in place when its iteration began.         *)
(***************************************************************************)
THEOREM RefinesModeSwitch == Spec => Modes!MSpec
<1>1. Init => Modes!MInit
  BY DEF Init, SmInit, Modes!MInit
<1> QED
  BY Invariance, ModesStep, <1>1, PTL DEF Spec, Modes!MSpec

-----------------------------------------------------------------------------
(* The policies.                                                           *)

\* Update of a policy: the budget loses a cycle and gains the pending command,
\* or the inference primes the policy.
LEMMA BudgetUpdate == Inv /\ StaleBudget /\ LoopUpdateRl => StaleBudget'
<1> SUFFICES ASSUME Inv, StaleBudget, LoopUpdateRl, NEW c \in RlControllers, ~primed'[c]
             PROVE  /\ is_first_frame_'[c]
                    /\ staleFrames'[c] + CyclesLeft(c)' + Pending(c)' <= Decimation
  BY DEF StaleBudget
<1> USE DEF Inv
<1>1. /\ loopPc = "update" /\ loopPc' = "getcmd"
      /\ Running \in RlControllers /\ Running' = Running
      /\ staleFrames' = staleFrames
  BY DEF LoopUpdateRl, Running, histVars
<1>2. /\ loop_count_[c] \in 0..(Decimation - 1)
      /\ staleFrames[c] \in Nat
      /\ Decimation \in Nat \ {0}
  BY ControllerParameters DEF TypeOK, RlTypeOK
<1>3. CASE Running # c
  <2>1. /\ primed'[c] = primed[c]
        /\ is_first_frame_'[c] = is_first_frame_[c]
        /\ loop_count_'[c] = loop_count_[c]
    BY <1>1, <1>3 DEF LoopUpdateRl, RlUpdate, TypeOK, RlTypeOK
  <2> QED
    BY <2>1, <1>1, <1>2, <1>3 DEF StaleBudget, CyclesLeft, Pending
<1>4. CASE Running = c
  <2>1. ~primed[c] /\ loop_count_[c] # 0
    <3>1. CASE loop_count_[c] = 0
      <4>1. primed'[c] = (primed[c] \/ is_first_frame_[c])
        BY <1>1, <1>4, <3>1 DEF LoopUpdateRl, RlUpdate, TypeOK, RlTypeOK
      <4> QED
        BY <4>1 DEF StaleBudget
    <3>2. CASE loop_count_[c] # 0
      BY <1>4, <3>2 DEF LoopUpdateRl, RlUpdate
    <3> QED
      BY <3>1, <3>2
  <2>2. /\ is_first_frame_' = is_first_frame_
        /\ loop_count_'[c] = IF loop_count_[c] = Decimation - 1 THEN 0 ELSE loop_count_[c] + 1
    BY <2>1, <1>1, <1>4 DEF LoopUpdateRl, RlUpdate, TypeOK, RlTypeOK
  <2>3. /\ is_first_frame_[c]
        /\ staleFrames[c] + CyclesLeft(c) + Pending(c) <= Decimation
    BY <2>1 DEF StaleBudget
  <2> QED
    BY <2>1, <2>2, <2>3, <1>1, <1>2, <1>4 DEF CyclesLeft, Pending
<1> QED
  BY <1>3, <1>4

\* GetJointCmdData of a policy: the pending command is taken.
LEMMA BudgetGetCmd ==
  Inv /\ StaleBudget /\ RlStaleBounded /\ LoopGetCmd => (StaleBudget /\ RlStaleBounded)'
<1> SUFFICES ASSUME Inv, StaleBudget, RlStaleBounded, LoopGetCmd, NEW c \in RlControllers
             PROVE  /\ staleFrames'[c] <= Decimation
                    /\ ~primed'[c] =>
                         /\ is_first_frame_'[c]
                         /\ staleFrames'[c] + CyclesLeft(c)' + Pending(c)' <= Decimation
  BY DEF StaleBudget, RlStaleBounded
<1> USE DEF Inv
<1>1. /\ loopPc = "getcmd" /\ loopPc' # "getcmd"
      /\ UNCHANGED rlVars
  BY DEF LoopGetCmd, LoopNext
<1>2. /\ loop_count_[c] \in 0..(Decimation - 1)
      /\ staleFrames[c] \in Nat /\ staleFrames[c] <= Decimation
      /\ Decimation \in Nat \ {0}
  BY ControllerParameters DEF TypeOK, RlTypeOK, RlStaleBounded
<1>3. CASE Running # c
  <2>1. staleFrames'[c] = staleFrames[c]
    BY <1>3 DEF LoopGetCmd, TypeOK
  <2> QED
    BY <2>1, <1>1, <1>2, <1>3 DEF StaleBudget, CyclesLeft, Pending, rlVars
<1>4. CASE Running = c /\ primed[c]
  <2>1. staleFrames'[c] = 0
    BY <1>4 DEF LoopGetCmd, TypeOK
  <2> QED
    BY <2>1, <1>1, <1>2, <1>4 DEF rlVars
<1>5. CASE Running = c /\ ~primed[c]
  <2>1. staleFrames'[c] = Min2(staleFrames[c] + 1, Decimation + 1)
    BY <1>5 DEF LoopGetCmd, TypeOK
  <2>2. /\ is_first_frame_[c]
        /\ staleFrames[c] + CyclesLeft(c) + 1 <= Decimation
    BY <1>5, <1>1 DEF StaleBudget, Pending
  <2> QED
    BY <2>1, <2>2, <1>1, <1>2 DEF CyclesLeft, Pending, Min2, rlVars
<1> QED
  BY <1>3, <1>4, <1>5

\* RestartController of a policy: the budget starts anew.
LEMMA BudgetRestart ==
  Inv /\ StaleBudget /\ RlStaleBounded /\ CallbackRestartRl => (StaleBudget /\ RlStaleBounded)'
<1> SUFFICES ASSUME Inv, StaleBudget, RlStaleBounded, CallbackRestartRl, NEW c \in RlControllers
             PROVE  /\ staleFrames'[c] <= Decimation
                    /\ ~primed'[c] =>
                         /\ is_first_frame_'[c]
                         /\ staleFrames'[c] + CyclesLeft(c)' + Pending(c)' <= Decimation
  BY DEF StaleBudget, RlStaleBounded
<1> USE DEF Inv
<1>1. /\ Head(todo) \in RlControllers
      /\ loop_count_' = loop_count_
      /\ UNCHANGED <<loopPc, names, idx>>
  BY DEF CallbackRestartRl, RlRestart, loopVars
<1>2. /\ loop_count_[c] \in 0..(Decimation - 1)
      /\ staleFrames[c] \in Nat /\ staleFrames[c] <= Decimation
      /\ Decimation \in Nat \ {0}
  BY ControllerParameters DEF TypeOK, RlTypeOK, RlStaleBounded
<1>3. CASE Head(todo) # c
  <2>1. /\ primed'[c] = primed[c]
        /\ is_first_frame_'[c] = is_first_frame_[c]
        /\ staleFrames'[c] = staleFrames[c]
    BY <1>3 DEF CallbackRestartRl, RlRestart, TypeOK, RlTypeOK
  <2> QED
    BY <2>1, <1>1, <1>2 DEF StaleBudget, CyclesLeft, Pending, Running
<1>4. CASE Head(todo) = c
  <2>1. is_first_frame_'[c] /\ staleFrames'[c] = 0
    BY <1>4 DEF CallbackRestartRl, RlRestart, TypeOK, RlTypeOK
  <2> QED
    BY <2>1, <1>1, <1>2 DEF CyclesLeft, Pending
<1> QED
  BY <1>3, <1>4

\* Every step keeps the budget.
LEMMA BudgetStep ==
  Inv /\ StaleBudget /\ RlStaleBounded /\ [Next]_vars => (StaleBudget /\ RlStaleBounded)'
<1> SUFFICES ASSUME Inv, StaleBudget, RlStaleBounded, [Next]_vars
             PROVE  (StaleBudget /\ RlStaleBounded)'
  OBVIOUS
<1> USE DEF Inv
<1>1. CASE UNCHANGED <<rlVars, staleFrames, loopPc, names, idx>>
  BY <1>1 DEF StaleBudget, RlStaleBounded, CyclesLeft, Pending, Running, rlVars
\* A step of MainLoop that leaves no policy's command pending.
<1>2. ASSUME UNCHANGED <<rlVars, staleFrames>>,
             \A c \in RlControllers : Pending(c)' = 0
      PROVE  (StaleBudget /\ RlStaleBounded)'
  <2>1. \A c \in RlControllers : CyclesLeft(c)' = CyclesLeft(c) /\ Pending(c)' <= Pending(c)
    BY <1>2 DEF CyclesLeft, Pending, rlVars
  <2>2. \A c \in RlControllers :
          /\ staleFrames[c] \in Nat /\ CyclesLeft(c) \in Nat /\ Decimation \in Nat
          /\ Pending(c) \in Nat
    BY ControllerParameters DEF TypeOK, RlTypeOK, CyclesLeft, Pending
  <2>3. RlStaleBounded'
    BY <1>2 DEF RlStaleBounded
  <2>4. ASSUME NEW c \in RlControllers, ~primed'[c]
        PROVE  /\ is_first_frame_'[c]
               /\ staleFrames'[c] + CyclesLeft(c)' + Pending(c)' <= Decimation
    <3>1. /\ is_first_frame_[c]
          /\ staleFrames[c] + CyclesLeft(c) + Pending(c) <= Decimation
      BY <1>2, <2>4 DEF StaleBudget, rlVars
    <3> QED
      BY <3>1, <2>1, <2>2, <1>2 DEF rlVars
  <2> QED
    BY <2>3, <2>4 DEF StaleBudget
<1>3. CASE LoopUpdateRl
  <2>1. staleFrames' = staleFrames
    BY <1>3 DEF LoopUpdateRl, histVars
  <2> QED
    BY <1>3, <2>1, BudgetUpdate DEF RlStaleBounded
<1>4. CASE LoopGetCmd
  BY <1>4, BudgetGetCmd
<1>5. CASE CallbackRestartRl
  BY <1>5, BudgetRestart
<1>6. CASE LoopUpdateKeep \/ LoopUpdatePlan \/ LoopRow \/ LoopStore
  <2>1. Running \notin RlControllers /\ Running' = Running
    BY <1>6, Kinds
    DEF LoopUpdateKeep, LoopUpdatePlan, LoopRow, LoopStore, LoopAt, Running
  <2>2. UNCHANGED <<rlVars, staleFrames>>
    BY <1>6 DEF LoopUpdateKeep, LoopUpdatePlan, LoopRow, LoopStore, histVars
  <2> QED
    BY <2>1, <2>2, <1>2 DEF Pending
<1>7. CASE LoopTest \/ LoopWake \/ LoopPoint \/ LoopLoad \/ LoopPublish
  BY <1>7, <1>2 DEF LoopTest, LoopWake, LoopPoint, LoopLoad, LoopPublish, histVars, Pending
<1> QED
  BY <1>1, <1>3, <1>4, <1>5, <1>6, <1>7
  DEF Next, vars, loopVars, histVars, Trigger, CallbackStep, CallbackSwap, CallbackSnapshot,
      CallbackPercent, CallbackClear, CallbackBuild, CallbackArm, JointState, TimePasses,
      Shutdown, LoopStep

(***************************************************************************)
(* After RestartController a policy commands at most Decimation cycles     *)
(* from filters and actions older than the restart, although loop_count_   *)
(* runs on: Update and RestartController race only in where the counter    *)
(* stands.                                                                 *)
(***************************************************************************)
THEOREM StaleActionsBounded == Spec => []RlStaleBounded
<1>1. Init => StaleBudget /\ RlStaleBounded
  BY ControllerParameters
  DEF Init, RlInit, StaleBudget, RlStaleBounded, CyclesLeft, Pending
<1> QED
  BY Invariance, BudgetStep, <1>1, PTL DEF Spec
=============================================================================
