------------------------- MODULE DriverSetupProofs -------------------------
(***************************************************************************)
(* What InitDcu guarantees for every configuration: any DCUs, ecat ids,    *)
(* channels, places on a channel and list of actuators.                    *)
(***************************************************************************)
EXTENDS DriverSetup, TLAPS

\* What the enabling has found of one actuator.
Served(a) ==
  /\ a \in DOMAIN actuator_dcu_map_ /\ a \in DOMAIN actuator_map_
  /\ actuator_map_[a].type = "POWER_FLOW_R" =>
       LET d == actuator_dcu_map_[a]
       IN  dcu_map_[d] \in DOMAIN nodes_map_ /\ nodes_map_[dcu_map_[d]] = d

\* The actuators are attached to DCUs that were created.
AttachInv ==
  /\ dcu # NoDcu => dcu \in DOMAIN dcu_map_
  /\ \A a \in DOMAIN actuator_dcu_map_ : actuator_dcu_map_[a] \in DOMAIN dcu_map_

\* Once the bus is up, its nodes are DCUs under their own ecat ids.
NodesInv ==
  pc \notin {"network", "failed"} =>
    \A id \in DOMAIN nodes_map_ : dcu_map_[nodes_map_[id]] = id

\* The actuators of the list before position at have been enabled, unless one
\* has failed, and InitDcu goes on only when all have.
EnableInv ==
  /\ at \in Nat \ {0}
  /\ pc = "network" => at = 1
  /\ (pc \in {"enable", "transmissions", "running"} /\ ret) =>
       \A k \in DOMAIN actuator_name_list_ : k < at => Served(actuator_name_list_[k])
  /\ pc \notin {"network", "enable", "failed"} =>
       pc \in {"transmissions", "running"} /\ ret /\ at > Len(actuator_name_list_)

SetupInv == AttachInv /\ NodesInv /\ EnableInv

SetupStep == SetupNext \/ \E next \in {"failed", "running"} : SetupOver(next)

-----------------------------------------------------------------------------
\* An actuator that is enabled now is one InitDcu serves: OnBus leaves no other
\* DCU under its ecat id.
LEMMA EnabledIsServed ==
  ASSUME NodesInv, pc = "enable", NEW a, NEW answers, EnableActuator(a, answers)
  PROVE  Served(a)
  <1>1. a \in DOMAIN actuator_dcu_map_ /\ a \in DOMAIN actuator_map_
    BY DEF EnableActuator
  <1>2. ASSUME actuator_map_[a].type = "POWER_FLOW_R"
        PROVE  LET d == actuator_dcu_map_[a]
               IN  dcu_map_[d] \in DOMAIN nodes_map_ /\ nodes_map_[dcu_map_[d]] = d
    <2>1. PICK id \in DOMAIN nodes_map_ : nodes_map_[id] = actuator_dcu_map_[a]
      BY <1>2 DEF EnableActuator, OnBus
    <2>2. dcu_map_[nodes_map_[id]] = id
      BY <2>1 DEF NodesInv
    <2> QED
      BY <2>1, <2>2
  <1> QED
    BY <1>1, <1>2 DEF Served

\* Attaching an actuator whose DCU is full still leaves it with a DCU.
LEMMA AttachStep ==
  ASSUME AttachInv, [SetupStep]_setupVars
  PROVE  AttachInv'
  <1>1. CASE \E d \in Dcus, id \in EcatIds : CreateDcu(d, id)
    BY <1>1 DEF CreateDcu, Stored, AttachInv
  <1>2. ASSUME NEW a, NEW ch, NEW t, NEW id, AttachActuator(a, ch, t, id)
        PROVE  AttachInv'
    BY <1>2 DEF AttachActuator, Stored, AttachInv
  <1>3. CASE UNCHANGED <<dcu, dcu_map_, actuator_dcu_map_>>
    BY <1>3 DEF AttachInv
  <1> QED
    BY <1>1, <1>2, <1>3 DEF SetupStep, SetupNext, StartBus, EnableNext, EnableEnd, SetupOver,
       setupVars

\* Of the DCUs with one ecat id the bus keeps one, under that id.
LEMMA NodesStep ==
  ASSUME NodesInv, [SetupStep]_setupVars
  PROVE  NodesInv'
  <1>1. CASE StartBus
    <2>1. nodes_map_' \in Registrations /\ dcu_map_' = dcu_map_
      BY <1>1 DEF StartBus
    <2> QED
      BY <2>1 DEF Registrations, NodesInv
  <1>2. ASSUME NEW d, NEW id, CreateDcu(d, id)
        PROVE  NodesInv'
    BY <1>2 DEF CreateDcu, Fail, NodesInv
  <1>3. ASSUME NEW a, NEW ch, NEW t, NEW id, AttachActuator(a, ch, t, id)
        PROVE  NodesInv'
    BY <1>3 DEF AttachActuator, Fail, NodesInv
  <1>4. CASE (\E answers \in BOOLEAN : EnableNext(answers)) \/ EnableEnd
             \/ (\E next \in {"failed", "running"} : SetupOver(next)) \/ UNCHANGED setupVars
    BY <1>4 DEF EnableNext, EnableEnd, SetupOver, setupVars, NodesInv
  <1> QED
    BY <1>1, <1>2, <1>3, <1>4 DEF SetupStep, SetupNext

\* Enabling keeps to the list: an actuator is passed only after it answered.
LEMMA EnableStep ==
  ASSUME NodesInv, EnableInv, [SetupStep]_setupVars
  PROVE  EnableInv'
  <1>0. at \in Nat \ {0} /\ Len(actuator_name_list_) \in Nat
        /\ DOMAIN actuator_name_list_ = 1..Len(actuator_name_list_)
    BY SetupAssumption DEF EnableInv
  <1>1. CASE StartBus
    BY <1>0, <1>1 DEF StartBus, Fail, EnableInv
  <1>2. ASSUME NEW d, NEW id, CreateDcu(d, id)
        PROVE  EnableInv'
    BY <1>2 DEF CreateDcu, Fail, EnableInv
  <1>3. ASSUME NEW a, NEW ch, NEW t, NEW id, AttachActuator(a, ch, t, id)
        PROVE  EnableInv'
    BY <1>3 DEF AttachActuator, Fail, EnableInv
  <1>4. ASSUME NEW answers, EnableNext(answers)
        PROVE  EnableInv'
    <2>1. /\ pc = "enable" /\ pc' = "enable" /\ at' = at + 1 /\ at <= Len(actuator_name_list_)
          /\ UNCHANGED <<dcu_map_, actuator_dcu_map_, actuator_map_, nodes_map_>>
      BY <1>4 DEF EnableNext
    <2>2. ASSUME ret', NEW k \in DOMAIN actuator_name_list_, k < at'
          PROVE  Served(actuator_name_list_[k])'
      <3>1. ret /\ EnableActuator(actuator_name_list_[at], answers)
        BY <1>4, <2>2 DEF EnableNext
      <3>2. k < at \/ k = at
        BY <1>0, <2>1, <2>2
      <3>3. Served(actuator_name_list_[k])
        BY <2>1, <3>1, <3>2, EnabledIsServed DEF EnableInv
      <3> QED
        BY <2>1, <3>3 DEF Served
    <2>3. at' \in Nat \ {0}
      BY <1>0, <2>1
    <2> QED
      BY <2>1, <2>2, <2>3 DEF EnableInv
  <1>5. CASE EnableEnd
    BY <1>0, <1>5 DEF EnableEnd, EnableInv, Served
  <1>6. CASE \E next \in {"failed", "running"} : SetupOver(next)
    BY <1>0, <1>6 DEF SetupOver, EnableInv, Served
  <1>7. CASE UNCHANGED setupVars
    BY <1>7 DEF setupVars, EnableInv, Served
  <1> QED
    BY <1>1, <1>2, <1>3, <1>4, <1>5, <1>6, <1>7 DEF SetupStep, SetupNext

\* Past InitDcu every actuator of the list is served, although RegisterActuator
\* and RegisterNode lose actuators and DCUs without an error: ServedWhenReady for
\* every configuration (dcu_driver_module.cc:82-142).
THEOREM InitDcuServes == SetupSpec => []ServedWhenReady
  <1>1. SetupInit => SetupInv
    BY DEF SetupInit, Nothing, SetupInv, AttachInv, NodesInv, EnableInv
  <1>2. SetupInv /\ [SetupStep]_setupVars => SetupInv'
    BY AttachStep, NodesStep, EnableStep DEF SetupInv
  <1>3. SetupInv => ServedWhenReady
    <2> SUFFICES ASSUME SetupInv, pc \notin {"network", "enable", "failed"}, NEW a \in Listed
                 PROVE  Served(a)
      BY DEF ServedWhenReady, Served, SetupInv, AttachInv
    <2>1. PICK k \in DOMAIN actuator_name_list_ : actuator_name_list_[k] = a
      BY DEF Listed, ToSet
    <2>2. k < at
      BY <2>1, SetupAssumption DEF SetupInv, EnableInv
    <2> QED
      BY <2>1, <2>2 DEF SetupInv, EnableInv
  <1> QED
    BY <1>1, <1>2, <1>3, PTL DEF SetupSpec, SetupStep
=============================================================================
