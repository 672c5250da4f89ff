----------------------------- MODULE MCJoyStick -----------------------------
(***************************************************************************)
(* The joystick with the velocity output only: a full deflection is twice  *)
(* the limit, as in joy_x1.yaml.                                           *)
(***************************************************************************)
EXTENDS JoyStick

MCNoTriggers == <<>>
=============================================================================
