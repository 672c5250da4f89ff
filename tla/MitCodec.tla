------------------------------ MODULE MitCodec ------------------------------
(***************************************************************************)
(* The MIT command and the feedback of a PowerFlowR actuator as bytes      *)
(* (power_flow.cpp).                                                       *)
(*                                                                         *)
(* Values are counted in steps of their code: position has 16 bits, the    *)
(* others 12, and 0 stands for the code that 0 is converted to, in the     *)
(* middle of a symmetric range.  The gains' ranges begin at 0.             *)
(***************************************************************************)
EXTENDS Integers, Sequences

Zero(bits) == 2^(bits - 1) - 1

\* Converted without a clamp: a value outside the range has no code of its own.
MitFloatToUint(x, bits) == x + Zero(bits)
MitUintToFloat(n, bits) == n - Zero(bits)

Byte(n) == n % 256
Shr(n, k) == n \div 2^k
Low4(n) == (n % 16) * 16

\* x | y of two bytes, bit by bit.
OrBit(x, y, w) == IF 1 \in {(x \div w) % 2, (y \div w) % 2} THEN w ELSE 0
Or(x, y) ==
  OrBit(x, y, 1) + OrBit(x, y, 2) + OrBit(x, y, 4) + OrBit(x, y, 8)
  + OrBit(x, y, 16) + OrBit(x, y, 32) + OrBit(x, y, 64) + OrBit(x, y, 128)

-----------------------------------------------------------------------------
\* The eight bytes of a command.  kp and toq are not cut to 12 bits: what is
\* above them is or-ed into the low bits of vel and kd.
SetMitCmd(c) ==
  LET pos == MitFloatToUint(c.position, 16)
      vel == MitFloatToUint(c.velocity, 12)
      toq == MitFloatToUint(c.effort, 12)
  IN  <<Byte(Shr(pos, 8)), Byte(pos),
        Byte(Shr(vel, 4)), Or(Low4(vel), Byte(Shr(c.kp, 8))), Byte(c.kp),
        Byte(Shr(c.kd, 4)), Or(Low4(c.kd), Byte(Shr(toq, 8))), Byte(toq)>>

GetPosition(b) == MitUintToFloat(b[1] * 256 + b[2], 16)
GetVelocity(b) == MitUintToFloat(b[3] * 16 + Shr(b[4], 4), 12)
GetEffort(b)   == MitUintToFloat((b[4] % 16) * 256 + b[5], 12)

\* What the code can carry.
Fits(n, bits) == 0 <= n /\ n < 2^bits
InRange(c) ==
  /\ Fits(MitFloatToUint(c.position, 16), 16)
  /\ Fits(MitFloatToUint(c.velocity, 12), 12) /\ Fits(MitFloatToUint(c.effort, 12), 12)
  /\ Fits(c.kp, 12) /\ Fits(c.kd, 12)

-----------------------------------------------------------------------------
\* The actuator's side: the command it reads, and the feedback it sends when it
\* does what it is told.
Commanded(b) ==
  [position |-> MitUintToFloat(b[1] * 256 + b[2], 16),
   velocity |-> MitUintToFloat(b[3] * 16 + Shr(b[4], 4), 12),
   effort   |-> MitUintToFloat((b[7] % 16) * 256 + b[8], 12)]

Report(s) ==
  LET pos == MitFloatToUint(s.position, 16)
      vel == MitFloatToUint(s.velocity, 12)
      cur == MitFloatToUint(s.effort, 12)
  IN  <<Shr(pos, 8), Byte(pos), Shr(vel, 4), Low4(vel) + Shr(cur, 8), Byte(cur)>>
=============================================================================
