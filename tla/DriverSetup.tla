---------------------------- MODULE DriverSetup ----------------------------
(***************************************************************************)
(* DcuDriverModule::InitDcu up to the enabled actuators: the DCUs and      *)
(* actuators of the configuration are created, attached and registered     *)
(* with XyberController, the Dcus and the EthercatManager, each of which   *)
(* checks a part of it.  The configuration is any: every entry is chosen   *)
(* when it is read.  enable_actuator is true.                              *)
(***************************************************************************)
EXTENDS Integers, Sequences, FiniteSets, TLC, SequencesExt

CONSTANTS
  Dcus,                  \* names
  EcatIds,
  Channels,
  MAX_CHANNEL_DEVICES,
  actuator_name_list_,
  Stray,                 \* an actuator that is not in the list
  NoDcu

ASSUME SetupAssumption == actuator_name_list_ \in Seq(ToSet(actuator_name_list_))

VARIABLES
  pc,                 \* where the framework's thread is
  dcu,                \* the DCU whose entry is being read
  dcu_map_,           \* XyberController: the ecat id of every DCU created
  actuator_dcu_map_,  \* XyberController: the DCU of every actuator attached
  actuator_map_,      \* the Dcus: the actuators registered, with channel and type
  nodes_map_,         \* EthercatManager: the DCU registered under an ecat id
  at,                 \* the list entry being enabled
  ret

setupVars == <<pc, dcu, dcu_map_, actuator_dcu_map_, actuator_map_, nodes_map_, at, ret>>

Listed  == ToSet(actuator_name_list_)
Nothing == << >>

\* PowerFlowR stands for the R52 and the R86, whose states are managed.
Types == {"POWER_FLOW_R", "POWER_FLOW_L28"}

SetupInit ==
  /\ pc = "network"
  /\ dcu = NoDcu
  /\ dcu_map_ = Nothing /\ actuator_dcu_map_ = Nothing /\ actuator_map_ = Nothing
  /\ nodes_map_ = Nothing
  /\ at = 1
  /\ ret = TRUE

Fail == pc' = "failed"

\* map[key] = value
Stored(map, key, value) == [k \in DOMAIN map \cup {key} |-> IF k = key THEN value ELSE map[k]]

-----------------------------------------------------------------------------
\* An enabled DCU of the network; one that is not enabled is skipped.
CreateDcu(name, id) ==
  /\ pc = "network"
  /\ IF name \in DOMAIN dcu_map_
     THEN Fail /\ UNCHANGED <<dcu, dcu_map_>>
     ELSE /\ dcu_map_' = Stored(dcu_map_, name, id)
          /\ dcu' = name
          /\ UNCHANGED pc
  /\ UNCHANGED <<actuator_dcu_map_, actuator_map_, nodes_map_, at, ret>>

\* Dcu::RegisterActuator: a channel that is full only logs it.
HasRoom(ch) ==
  Cardinality({a \in DOMAIN actuator_map_ :
                 actuator_dcu_map_[a] = dcu /\ actuator_map_[a].ch = ch}) < MAX_CHANNEL_DEVICES

RegisterActuator(a, ch, type) ==
  IF HasRoom(ch)
  THEN actuator_map_' = Stored(actuator_map_, a, [ch |-> ch, type |-> type])
  ELSE UNCHANGED actuator_map_

\* An actuator of the entry, on one of its channels.
AttachActuator(a, ch, type, id) ==
  /\ pc = "network" /\ dcu # NoDcu
  /\ \/ /\ a \notin Listed
        /\ UNCHANGED <<pc, actuator_dcu_map_, actuator_map_>>
     \/ /\ a \in Listed
        /\ id = 0 \/ a \in DOMAIN actuator_dcu_map_ \/ type \notin Types
        /\ Fail /\ UNCHANGED <<actuator_dcu_map_, actuator_map_>>
     \/ /\ a \in Listed \ DOMAIN actuator_dcu_map_ /\ id # 0 /\ type \in Types
        /\ RegisterActuator(a, ch, type)
        /\ actuator_dcu_map_' = Stored(actuator_dcu_map_, a, dcu)
        /\ UNCHANGED pc
  /\ UNCHANGED <<dcu, dcu_map_, nodes_map_, at, ret>>

\* RegisterNode for every DCU, in the order of an unordered map: of two with one
\* ecat id the later one stays.
Registrations ==
  {f \in [{dcu_map_[d] : d \in DOMAIN dcu_map_} -> DOMAIN dcu_map_] :
     \A id \in DOMAIN f : dcu_map_[f[id]] = id}

\* XyberController::Start; EthercatManager::Start refuses an empty bus and may
\* fail for its own reasons.
StartBus ==
  /\ pc = "network"
  /\ nodes_map_' \in Registrations
  /\ \/ dcu_map_ # Nothing /\ pc' = "enable"
     \/ Fail
  /\ UNCHANGED <<dcu, dcu_map_, actuator_dcu_map_, actuator_map_, at, ret>>

-----------------------------------------------------------------------------
\* The frames of a DCU are exchanged.
OnBus(d) == d \in {nodes_map_[id] : id \in DOMAIN nodes_map_}

\* A slip: an actuator nobody knows needs no enabling.
EnableActuatorUnknown(a, answers) ==
  a \in DOMAIN actuator_map_ =>
    \/ actuator_map_[a].type # "POWER_FLOW_R"
    \/ OnBus(actuator_dcu_map_[a]) /\ answers

\* XyberController's and the Dcu's EnableActuator: unknown to either is a
\* failure, an actuator without a power state a success, and a managed one must
\* report STATE_ENABLE.
EnableActuator(a, answers) ==
  /\ a \in DOMAIN actuator_dcu_map_
  /\ a \in DOMAIN actuator_map_
  /\ \/ actuator_map_[a].type # "POWER_FLOW_R"
     \/ OnBus(actuator_dcu_map_[a]) /\ answers

EnableNext(answers) ==
  /\ pc = "enable" /\ at <= Len(actuator_name_list_)
  /\ ret' = (ret /\ EnableActuator(actuator_name_list_[at], answers))
  /\ at' = at + 1
  /\ UNCHANGED <<pc, dcu, dcu_map_, actuator_dcu_map_, actuator_map_, nodes_map_>>

\* The throw leaves the actuators that were enabled as they are.
EnableEnd ==
  /\ pc = "enable" /\ at > Len(actuator_name_list_)
  /\ pc' = IF ret THEN "transmissions" ELSE "failed"
  /\ UNCHANGED <<dcu, dcu_map_, actuator_dcu_map_, actuator_map_, nodes_map_, at, ret>>

SetupNext ==
  \/ \E d \in Dcus, id \in EcatIds : CreateDcu(d, id)
  \/ \E a \in Listed \cup {Stray}, ch \in Channels, t \in Types \cup {"UNKOWN"}, id \in {0, 1} :
       AttachActuator(a, ch, t, id)
  \/ StartBus
  \/ \E answers \in BOOLEAN : EnableNext(answers)
  \/ EnableEnd

\* InitDcu has returned: the rest of Initialize throws, or Start begins the loop.
SetupOver(next) ==
  /\ pc = "transmissions"
  /\ pc' = next
  /\ UNCHANGED <<dcu, dcu_map_, actuator_dcu_map_, actuator_map_, nodes_map_, at, ret>>

SetupSpec ==
  SetupInit /\ [][SetupNext \/ \E next \in {"failed", "running"} : SetupOver(next)]_setupVars

-----------------------------------------------------------------------------
\* Past InitDcu every actuator of the list is attached to a DCU that exists and
\* has it registered, and the DCU of a managed one is the bus node of its ecat
\* id: what RegisterActuator (dcu.cpp:53) and RegisterNode
\* (ethercat_manager.cpp:28) lose without an error, a full channel's actuator and
\* one of two DCUs with the same ecat id, is caught by the enabling.
ServedWhenReady ==
  pc \notin {"network", "enable", "failed"} =>
    \A a \in Listed :
      /\ a \in DOMAIN actuator_dcu_map_ /\ a \in DOMAIN actuator_map_
      /\ actuator_dcu_map_[a] \in DOMAIN dcu_map_
      /\ actuator_map_[a].type = "POWER_FLOW_R" =>
           LET d == actuator_dcu_map_[a]
           IN  dcu_map_[d] \in DOMAIN nodes_map_ /\ nodes_map_[dcu_map_[d]] = d
=============================================================================
