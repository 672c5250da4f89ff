---------------------------- MODULE ActuatorLife ----------------------------
(***************************************************************************)
(* What the DCU driver promises about the power of its actuators: power    *)
(* comes on only before the driver serves, service begins only with every  *)
(* actuator on, power goes off only while the driver stops and then never  *)
(* from an actuator that still has a motion command, and a stop that       *)
(* nothing disturbs ends with no command left and everything off.          *)
(*                                                                         *)
(* A disturbance is an actuator that no longer obeys, or a joint command   *)
(* that is still being handed out when the driver stops.                   *)
(***************************************************************************)
CONSTANTS
  Drives,       \* the actuators that have a power state
  PowersUp      \* whether the driver is configured to enable them

VARIABLES
  phase,        \* "starting", "serving", "stopping", "stopped"
  powered,      \* the actuators that are on
  commanded,    \* the actuators that have a motion command
  disturbed

lifeVars == <<phase, powered, commanded, disturbed>>

LInit ==
  /\ phase = "starting"
  /\ powered = {} /\ commanded = {}
  /\ disturbed = FALSE

PowerOn ==
  /\ phase = "starting"
  /\ \E more \in SUBSET Drives : powered' = powered \cup more
  /\ UNCHANGED <<phase, commanded, disturbed>>

Serve ==
  /\ phase = "starting"
  /\ PowersUp => powered = Drives
  /\ phase' = "serving"
  /\ UNCHANGED <<powered, commanded, disturbed>>

Command(a) ==
  /\ phase = "serving" \/ (phase \in {"stopping", "stopped"} /\ disturbed)
  /\ commanded' = commanded \cup {a}
  /\ UNCHANGED <<phase, powered, disturbed>>

\* The command being handed out, if there is one, is left to go on.
Leave ==
  /\ phase = "serving"
  /\ phase' = "stopping"
  /\ disturbed' \in {disturbed, TRUE}
  /\ UNCHANGED <<powered, commanded>>

Withdraw(a) ==
  /\ phase = "stopping"
  /\ commanded' = commanded \ {a}
  /\ UNCHANGED <<phase, powered, disturbed>>

PowerOff ==
  /\ phase = "stopping"
  /\ \E fewer \in SUBSET (Drives \ commanded) : powered' = powered \ fewer
  /\ UNCHANGED <<phase, commanded, disturbed>>

Halt ==
  /\ phase = "stopping"
  /\ ~disturbed => powered = {} /\ commanded = {}
  /\ phase' = "stopped"
  /\ UNCHANGED <<powered, commanded, disturbed>>

Disturb ==
  /\ disturbed' = TRUE
  /\ UNCHANGED <<phase, powered, commanded>>

LNext ==
  \/ PowerOn \/ Serve \/ Leave \/ PowerOff \/ Halt \/ Disturb
  \/ \E a \in Drives : Command(a) \/ Withdraw(a)

LSpec == LInit /\ [][LNext]_lifeVars

\* What follows from these promises: without a disturbance every actuator that has
\* a motion command is on (dcu_driver_module.cc:65-80).
CommandedIsOn == PowersUp /\ ~disturbed => commanded \subseteq powered
=============================================================================
