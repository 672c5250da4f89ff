--------------------------------- MODULE Dcu ---------------------------------
(***************************************************************************)
(* The domain controller units (dcu.cpp, power_flow.cpp, ethercat_node.h): *)
(* the send and receive buffers the driver's threads share with the        *)
(* EtherCAT work loop, and the actuators behind them.                      *)
(*                                                                         *)
(* A channel is a CAN channel of one DCU.  Its part of the send buffer is  *)
(* one control byte, which says whom the channel's frames are for, and one *)
(* frame per actuator.  Every operation below is one critical section of   *)
(* the send_mtx_ or the recv_mtx_ of one DCU.                              *)
(***************************************************************************)
EXTENDS Naturals, Sequences

CONSTANTS
  Actuators,
  Channels,
  Dcus,
  ChannelOf,    \* the channel an actuator is attached to
  DcuOf,        \* the DCU a channel belongs to
  Passive,      \* actuators without a power state: PowerFlowL and OmniPicker
  NoOne,        \* the control byte is 0
  Everyone      \* the control byte is CHANNEL_BROADCAST_ID

ASSUME Wiring ==
  /\ ChannelOf \in [Actuators -> Channels]
  /\ DcuOf \in [Channels -> Dcus]
  /\ Passive \subseteq Actuators
  /\ NoOne \notin Actuators /\ Everyone \notin Actuators
  /\ NoOne # Everyone

VARIABLES
  ctrl,         \* send_buf_: the control byte of every channel
  frame,        \* send_buf_: the frame of every actuator
  recv_buf_,    \* the power state every actuator last reported
  power,        \* the actuators themselves
  faulty        \* the actuators that no longer obey

dcuVars == <<ctrl, frame, recv_buf_, power, faulty>>

\* A frame is blank, a request for a power state, the motionless command of
\* InitDcu, or a motion command.
Requests == {"enable", "disable"}
Commands == {"still", "motion"}
Managed  == Actuators \ Passive

DcuTypeOK ==
  /\ ctrl \in [Channels -> Actuators \cup {NoOne, Everyone}]
  /\ frame \in [Actuators -> {"blank"} \cup Requests \cup Commands]
  /\ recv_buf_ \in [Actuators -> {"off", "on"}]
  /\ power \in [Actuators -> {"off", "on"}]
  /\ faulty \subseteq Managed

\* The constructor clears both buffers; STATE_DISABLE is 0.
DcuInit ==
  /\ ctrl = [ch \in Channels |-> NoOne]
  /\ frame = [a \in Actuators |-> "blank"]
  /\ recv_buf_ = [a \in Actuators |-> "off"]
  /\ power = [a \in Actuators |-> "off"]
  /\ faulty = {}

-----------------------------------------------------------------------------
\* EnableActuator and DisableActuator: the request, for this actuator alone.
\* Passive actuators have no RequestState: only the control byte changes.
RequestState(a, request) ==
  /\ frame' = IF a \in Passive THEN frame ELSE [frame EXCEPT ![a] = request]
  /\ ctrl' = [ctrl EXCEPT ![ChannelOf[a]] = a]
  /\ UNCHANGED <<recv_buf_, power, faulty>>

\* SetMitCmd: the command, and the whole channel is addressed.
SetMitCmd(a, command) ==
  /\ frame' = [frame EXCEPT ![a] = command]
  /\ ctrl' = [ctrl EXCEPT ![ChannelOf[a]] = Everyone]
  /\ UNCHANGED <<recv_buf_, power, faulty>>

\* GetPowerState; a passive actuator always reports STATE_DISABLE.
GetPowerState(a) == IF a \in Passive THEN "off" ELSE recv_buf_[a]

\* Whether an actuator is behind this DCU.
Behind(a, dcu) == DcuOf[ChannelOf[a]] = dcu

\* The work loop hands the reports of a DCU's actuators in.
PushRecvData(dcu) ==
  /\ recv_buf_' = [a \in Actuators |-> IF Behind(a, dcu) THEN power[a] ELSE recv_buf_[a]]
  /\ UNCHANGED <<ctrl, frame, power, faulty>>

(***************************************************************************)
(* The work loop takes the send buffer of a DCU and sends it.  An actuator *)
(* that is addressed alone obeys a request; under the broadcast id the     *)
(* frames are commands and no power state changes.                         *)
(***************************************************************************)
Obeys(a, request) ==
  a \in Managed \ faulty /\ ctrl[ChannelOf[a]] = a /\ frame[a] = request

PullSendData(dcu) ==
  /\ power' = [a \in Actuators |->
       IF ~Behind(a, dcu) THEN power[a]
       ELSE IF Obeys(a, "enable") THEN "on"
       ELSE IF Obeys(a, "disable") THEN "off"
       ELSE power[a]]
  /\ UNCHANGED <<ctrl, frame, recv_buf_, faulty>>

\* An actuator stops obeying.
Fault(a) ==
  /\ a \in Managed \ faulty
  /\ faulty' = faulty \cup {a}
  /\ UNCHANGED <<ctrl, frame, recv_buf_, power>>
=============================================================================
