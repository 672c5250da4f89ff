------------------------------ MODULE ModeSwitch ------------------------------
(***************************************************************************)
(* What the control module promises about modes: the mode changes only     *)
(* along the configured edges, and every joint command that is published   *)
(* belongs as a whole to one mode, the one that was active at some moment  *)
(* since the command before it.                                            *)
(***************************************************************************)
EXTENDS ControlConfig

VARIABLES
  mode,     \* the active mode
  picked,   \* the mode whose command is being computed, or NoState
  shown,    \* the mode of the last command published, or NoState
  running   \* commands are still produced

modeVars == <<mode, picked, shown, running>>

MInit ==
  /\ mode = InitialState
  /\ picked = NoState
  /\ shown = NoState
  /\ running = TRUE

Switch ==
  /\ \E s \in States : Edge(mode, s) /\ mode' = s
  /\ UNCHANGED <<picked, shown, running>>

Pick ==
  /\ running
  /\ picked = NoState
  /\ picked' = mode
  /\ UNCHANGED <<mode, shown, running>>

Show ==
  /\ picked # NoState
  /\ shown' = picked
  /\ picked' = NoState
  /\ UNCHANGED <<mode, running>>

Stop ==
  /\ picked = NoState
  /\ running' = FALSE
  /\ UNCHANGED <<mode, picked, shown>>

MNext == Switch \/ Pick \/ Show \/ Stop

MSpec == MInit /\ [][MNext]_modeVars

\* Commands keep coming while the module runs.
MFairSpec == MSpec /\ WF_modeVars(Pick \/ Show)
=============================================================================
