----------------------------- MODULE MCDcuDriver -----------------------------
(***************************************************************************)
(* A robot of two DCUs: two managed actuators that share a channel, a      *)
(* passive one on the DCU's other channel and a managed one on the second  *)
(* DCU.                                                                    *)
(***************************************************************************)
EXTENDS DcuDriver

CONSTANTS hip, knee, claw, neck, ch1, ch2, ch3, body, head

MCChannelOf == [a \in Actuators |->
                 IF a = claw THEN ch2 ELSE IF a = neck THEN ch3 ELSE ch1]
MCDcuOf     == [ch \in Channels |-> IF ch = ch3 THEN head ELSE body]
MCNames     == <<hip, knee, claw, neck>>
MCDisable   == <<neck, claw, knee, hip>>
=============================================================================
