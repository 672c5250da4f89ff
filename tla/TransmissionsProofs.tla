------------------------ MODULE TransmissionsProofs ------------------------
(***************************************************************************)
(* What holds of the driver's data path for every configuration, every     *)
(* joint command, every interleaving of JointCmdCallback with PublishLoop  *)
(* and every value the MIT code can carry.                                 *)
(***************************************************************************)
EXTENDS Transmissions, DriverSetupProofs

-----------------------------------------------------------------------------
(* The MIT code (power_flow.cpp).  The provers take bounds as comparisons. *)

\* Zero is converted to the code in the middle of a range.
LEMMA Zeros == Zero(16) = 32767 /\ Zero(12) = 2047
  <1>1. 16 - 1 = 15 /\ 12 - 1 = 11
    OBVIOUS
  <1>2. 2^15 = 32768 /\ 2^11 = 2048
    OBVIOUS
  <1> QED
    BY <1>1, <1>2 DEF Zero

\* The shifts of SetMitCmd and of the getters are divisions.
LEMMA Shifts ==
  ASSUME NEW n
  PROVE  Shr(n, 8) = n \div 256 /\ Shr(n, 4) = n \div 16
  <1>1. 2^8 = 256 /\ 2^4 = 16
    OBVIOUS
  <1> QED
    BY <1>1 DEF Shr

\* Or-ing a high and a low nibble puts them side by side.
LEMMA Nibbles ==
  ASSUME NEW h \in Int, 0 <= h, h <= 15, NEW l \in Int, 0 <= l, l <= 15
  PROVE  Or(16 * h, l) = 16 * h + l
  BY DEF Or, OrBit

\* A code of 16 bits is the one of its two bytes, cut to bytes or not.
LEMMA TwoBytes ==
  ASSUME NEW n \in Int, 0 <= n, n <= 65535
  PROVE  /\ Byte(Shr(n, 8)) * 256 + Byte(n) = n
         /\ Shr(n, 8) * 256 + Byte(n) = n
  <1>1. /\ ((n \div 256) % 256) * 256 + (n % 256) = n
        /\ (n \div 256) * 256 + (n % 256) = n
    OBVIOUS
  <1> QED
    BY <1>1, Shifts DEF Byte

\* The arithmetic of a code of 12 bits in a byte and the nibble after it, as the
\* velocity has it.
LEMMA HighByte ==
  ASSUME NEW n \in Int, 0 <= n, n <= 4095, NEW l \in Int, 0 <= l, l <= 15
  PROVE  /\ ((n \div 16) % 256) * 16 + ((16 * (n % 16) + l) \div 16) = n
         /\ (n \div 16) * 16 + ((16 * (n % 16) + l) \div 16) = n
  OBVIOUS

\* The same in a nibble and the byte after it, as torque and current have it.
LEMMA LowByte ==
  ASSUME NEW n \in Int, 0 <= n, n <= 4095, NEW h \in Int, 0 <= h, h <= 15
  PROVE  /\ ((16 * h + (n \div 256)) % 16) * 256 + (n % 256) = n
         /\ n \div 256 \in Int /\ 0 <= n \div 256 /\ n \div 256 <= 15
         /\ (n \div 256) % 256 = n \div 256
  OBVIOUS

\* What Low4 keeps of a code is a nibble in the high half of its byte.
LEMMA HighNibble ==
  ASSUME NEW m \in Int
  PROVE  /\ m % 16 \in Int /\ 0 <= m % 16 /\ m % 16 <= 15
         /\ Low4(m) = 16 * (m % 16)
  <1>1. m % 16 \in Int /\ 0 <= m % 16 /\ m % 16 <= 15 /\ (m % 16) * 16 = 16 * (m % 16)
    OBVIOUS
  <1> QED
    BY <1>1 DEF Low4

\* A velocity: a byte and the high nibble of the next, whose low nibble is
\* another value's.
LEMMA ByteAndNibble ==
  ASSUME NEW n \in Int, 0 <= n, n <= 4095, NEW l \in Int, 0 <= l, l <= 15
  PROVE  /\ Byte(Shr(n, 4)) * 16 + Shr(Or(Low4(n), l), 4) = n
         /\ Shr(n, 4) * 16 + Shr(Low4(n) + l, 4) = n
  <1>1. n % 16 \in Int /\ 0 <= n % 16 /\ n % 16 <= 15 /\ Low4(n) = 16 * (n % 16)
    BY HighNibble
  <1>2. Or(16 * (n % 16), l) = 16 * (n % 16) + l
    BY <1>1, Nibbles
  <1> QED
    BY <1>1, <1>2, HighByte, Shifts DEF Byte

\* A torque or a current: a low nibble, whatever value has the high one, and a byte.
LEMMA NibbleAndByte ==
  ASSUME NEW n \in Int, 0 <= n, n <= 4095, NEW m \in Int
  PROVE  /\ (Or(Low4(m), Byte(Shr(n, 8))) % 16) * 256 + Byte(n) = n
         /\ ((Low4(m) + Shr(n, 8)) % 16) * 256 + Byte(n) = n
         /\ Byte(Shr(n, 8)) \in Int /\ 0 <= Byte(Shr(n, 8)) /\ Byte(Shr(n, 8)) <= 15
         /\ Shr(n, 8) \in Int /\ 0 <= Shr(n, 8) /\ Shr(n, 8) <= 15
  <1>1. m % 16 \in Int /\ 0 <= m % 16 /\ m % 16 <= 15 /\ Low4(m) = 16 * (m % 16)
    BY HighNibble
  <1>2. /\ n \div 256 \in Int /\ 0 <= n \div 256 /\ n \div 256 <= 15
        /\ (n \div 256) % 256 = n \div 256
    BY LowByte
  <1>3. Shr(n, 8) = n \div 256 /\ Byte(Shr(n, 8)) = n \div 256
    BY <1>2, Shifts DEF Byte
  <1>4. Or(16 * (m % 16), n \div 256) = 16 * (m % 16) + (n \div 256)
    BY <1>1, <1>2, Nibbles
  <1>5. ((16 * (m % 16) + (n \div 256)) % 16) * 256 + (n % 256) = n
    BY <1>1, LowByte
  <1> QED
    BY <1>1, <1>2, <1>3, <1>4, <1>5 DEF Byte

\* What InRange says of the codes.
LEMMA Codes ==
  ASSUME NEW n \in Int
  PROVE  /\ Fits(n, 16) => 0 <= n /\ n <= 65535
         /\ Fits(n, 12) => 0 <= n /\ n <= 4095
  <1>1. 2^16 = 65536 /\ 2^12 = 4096
    OBVIOUS
  <1> QED
    BY <1>1 DEF Fits

\* What an actuator does when it does what it is told, and what it reports of it.
Done(c) == Commanded(SetMitCmd(c))

\* A position in range comes back exactly, whatever the other values of the
\* command are.
LEMMA PositionComesBack ==
  ASSUME NEW c, c.position \in Int, InRange(c)
  PROVE  GetPosition(Report(Done(c))) = c.position
  <1> DEFINE pos == c.position + 32767
             b == SetMitCmd(c)
             s == Commanded(b)
             r == Report(s)
  <1>1. pos \in Int /\ 0 <= pos /\ pos <= 65535
    BY Zeros, Codes DEF InRange, MitFloatToUint
  <1>2. b[1] = Byte(Shr(pos, 8)) /\ b[2] = Byte(pos)
    BY Zeros DEF SetMitCmd, MitFloatToUint
  <1>3. s.position = (b[1] * 256 + b[2]) - 32767
    BY Zeros DEF Commanded, MitUintToFloat
  <1>4. r[1] = Shr(s.position + 32767, 8) /\ r[2] = Byte(s.position + 32767)
    BY Zeros DEF Report, MitFloatToUint
  <1>5. GetPosition(r) = (r[1] * 256 + r[2]) - 32767
    BY Zeros DEF GetPosition, MitUintToFloat
  <1>6. pos - 32767 = c.position
    OBVIOUS
  <1> HIDE DEF pos, b, s, r
  <1>7. s.position + 32767 = pos
    BY <1>1, <1>2, <1>3, TwoBytes
  <1>8. GetPosition(r) = pos - 32767
    BY <1>1, <1>4, <1>5, <1>7, TwoBytes
  <1> QED
    BY <1>6, <1>8 DEF b, s, r, Done

\* Velocities and efforts, which share bytes with kp and kd, come back too.
LEMMA VelocityAndEffortComeBack ==
  ASSUME NEW c, InRange(c),
         c.velocity \in Int, c.effort \in Int, c.kp \in Int, c.kd \in Int
  PROVE  /\ GetVelocity(Report(Done(c))) = c.velocity
         /\ GetEffort(Report(Done(c))) = c.effort
  <1> DEFINE vel == c.velocity + 2047
             toq == c.effort + 2047
             b == SetMitCmd(c)
             s == Commanded(b)
             r == Report(s)
  <1>1. /\ vel \in Int /\ 0 <= vel /\ vel <= 4095
        /\ toq \in Int /\ 0 <= toq /\ toq <= 4095
        /\ 0 <= c.kp /\ c.kp <= 4095
    BY Zeros, Codes DEF InRange, MitFloatToUint
  <1>2. /\ b[3] = Byte(Shr(vel, 4)) /\ b[4] = Or(Low4(vel), Byte(Shr(c.kp, 8)))
        /\ b[7] = Or(Low4(c.kd), Byte(Shr(toq, 8))) /\ b[8] = Byte(toq)
    BY Zeros DEF SetMitCmd, MitFloatToUint
  <1>3. /\ s.velocity = (b[3] * 16 + Shr(b[4], 4)) - 2047
        /\ s.effort = ((b[7] % 16) * 256 + b[8]) - 2047
    BY Zeros DEF Commanded, MitUintToFloat
  <1>4. /\ r[3] = Shr(s.velocity + 2047, 4)
        /\ r[4] = Low4(s.velocity + 2047) + Shr(s.effort + 2047, 8)
        /\ r[5] = Byte(s.effort + 2047)
    BY Zeros DEF Report, MitFloatToUint
  <1>5. /\ GetVelocity(r) = (r[3] * 16 + Shr(r[4], 4)) - 2047
        /\ GetEffort(r) = ((r[4] % 16) * 256 + r[5]) - 2047
    BY Zeros DEF GetVelocity, GetEffort, MitUintToFloat
  <1>6. vel - 2047 = c.velocity /\ toq - 2047 = c.effort
    OBVIOUS
  <1> HIDE DEF vel, toq, b, s, r
  <1>7. /\ Byte(Shr(c.kp, 8)) \in Int /\ 0 <= Byte(Shr(c.kp, 8)) /\ Byte(Shr(c.kp, 8)) <= 15
        /\ Shr(toq, 8) \in Int /\ 0 <= Shr(toq, 8) /\ Shr(toq, 8) <= 15
    BY <1>1, NibbleAndByte
  <1>8. s.velocity + 2047 = vel
    BY <1>1, <1>2, <1>3, <1>7, ByteAndNibble
  <1>9. s.effort + 2047 = toq
    BY <1>1, <1>2, <1>3, NibbleAndByte
  <1>10. GetVelocity(r) = vel - 2047
    BY <1>1, <1>4, <1>5, <1>7, <1>8, <1>9, ByteAndNibble
  <1>11. GetEffort(r) = toq - 2047
    BY <1>1, <1>4, <1>5, <1>8, <1>9, NibbleAndByte
  <1> QED
    BY <1>6, <1>10, <1>11 DEF b, s, r, Done

\* Whatever a command within the ranges is, an actuator that does it reports it, by
\* SetMitCmd and the getters of power_flow.cpp.
THEOREM MitRoundTrip ==
  ASSUME NEW c \in Cmd, InRange(c)
  PROVE  LET r == Report(Commanded(SetMitCmd(c)))
         IN  GetPosition(r) = c.position /\ GetVelocity(r) = c.velocity /\ GetEffort(r) = c.effort
  BY PositionComesBack, VelocityAndEffortComeBack DEF Done, Cmd

-----------------------------------------------------------------------------
(* What one transmission computes, of the joint commands jc, the readings  *)
(* as and the pose p that it has read.                                     *)

Wanted(t, jc, f) == [i \in 1..2 |-> jc[t.joints[i]][f]]
Read(t, as, f) ==
  [i \in 1..2 |-> as[t.actuators[Drives(t)[i]]][f] * t.directions[Drives(t)[i]]]

\* The matrix of a pose, as Pose gives it.
Matrix(t, q, qm) == IF t.type = "LeftAnkle" THEN LeftJacobian(q, qm) ELSE Jacobian(q, qm)
MatrixOf(t, p) ==
  Matrix(t, p[1], [i \in 1..2 |-> p[2][Drives(t)[i]] * t.directions[Drives(t)[i]]])

\* What is desired of the drives.
AimPosition(t, jc) ==
  LET q == Wanted(t, jc, "position")
  IN  IF t.type = "LeftAnkle" THEN LeftMotors(q)
      ELSE IF t.type = "RightAnkle" THEN Motors(q) ELSE q
AimVelocity(t, p, jc) ==
  IF IsAnkle(t) THEN VelocityToMotor(MatrixOf(t, p), Wanted(t, jc, "velocity"))
  ELSE Wanted(t, jc, "velocity")
AimEffort(t, p, jc) ==
  IF IsAnkle(t) THEN EffortToMotor(MatrixOf(t, p), Wanted(t, jc, "effort"))
  ELSE Wanted(t, jc, "effort")

\* The command of the i-th drive.
Aim(t, p, jc, i) ==
  LET d == t.directions[Drives(t)[i]]
  IN  [position |-> AimPosition(t, jc)[i] * d, velocity |-> AimVelocity(t, p, jc)[i] * d,
       effort |-> AimEffort(t, p, jc)[i] * d,
       kp |-> jc[t.joints[i]].kp, kd |-> jc[t.joints[i]].kd]

\* What is seen of the joints.
SeenPosition(t, as) ==
  LET qm == Read(t, as, "position")
  IN  IF t.type = "LeftAnkle" THEN LeftLookup(qm)
      ELSE IF t.type = "RightAnkle" THEN Lookup(qm) ELSE qm
SeenVelocity(t, as) ==
  IF IsAnkle(t)
  THEN VelocityToJoint(Matrix(t, SeenPosition(t, as), Read(t, as, "position")),
                       Read(t, as, "velocity"))
  ELSE Read(t, as, "velocity")
SeenEffort(t, as) ==
  LET mixed == <<Read(t, as, "effort")[1], Read(t, as, "velocity")[2]>>
  IN  CASE t.type = "LeftAnkle"  -> EffortToJoint(Matrix(t, SeenPosition(t, as),
                                                       Read(t, as, "position")), mixed)
        [] t.type = "RightAnkle" -> EffortToJoint(Matrix(t, SeenPosition(t, as),
                                                       Read(t, as, "position")),
                                                Read(t, as, "effort"))
        [] OTHER -> mixed
Seen(t, as, i) ==
  [position |-> SeenPosition(t, as)[i], velocity |-> SeenVelocity(t, as)[i],
   effort |-> SeenEffort(t, as)[i]]

\* A transmission whose two ends are different joints and different actuators.
Apart(t) == t.joints[1] # t.joints[2] /\ t.actuators[1] # t.actuators[2]

\* The two drives of a transmission are its two actuators.
LEMMA DrivesOf ==
  ASSUME NEW t
  PROVE  /\ Drives(t)[1] \in 1..2 /\ Drives(t)[2] \in 1..2
         /\ Drives(t)[1] # Drives(t)[2]
         /\ \A n \in 1..2 : \E i \in 1..2 : Drives(t)[i] = n
  BY DEF Drives

\* States assigns each joint its own values: its index is the one of the joint.
LEMMA StatesOf ==
  ASSUME NEW t, DOMAIN t.joints = 1..2, Apart(t), NEW i \in 1..2
  PROVE  /\ t.joints[i] \in ToSet(t.joints)
         /\ (CHOOSE n \in 1..2 : /\ t.joints[n] = t.joints[i]
                                 /\ \A m \in 1..2 : t.joints[m] = t.joints[i] => m <= n) = i
  <1>1. t.joints[i] \in ToSet(t.joints)
    BY DEF ToSet
  <1> QED
    BY <1>1 DEF Apart

\* Orders gives each actuator the command of its own drive.
LEMMA OrdersOf ==
  ASSUME NEW t, DOMAIN t.actuators = 1..2, Apart(t), NEW i \in 1..2
  PROVE  LET a == t.actuators[Drives(t)[i]]
         IN  /\ a \in ToSet(t.actuators)
             /\ (CHOOSE n \in 1..2 :
                   /\ t.actuators[Drives(t)[n]] = a
                   /\ \A m \in 1..2 : t.actuators[Drives(t)[m]] = a => m <= n) = i
  <1> DEFINE a == t.actuators[Drives(t)[i]]
  <1>1. a \in ToSet(t.actuators)
    BY DrivesOf DEF ToSet
  <1>2. \A n \in 1..2 : t.actuators[Drives(t)[n]] = a => n = i
    BY DrivesOf DEF Apart
  <1> HIDE DEF a
  <1>3. (CHOOSE n \in 1..2 : /\ t.actuators[Drives(t)[n]] = a
                             /\ \A m \in 1..2 : t.actuators[Drives(t)[m]] = a => m <= n) = i
    BY <1>2 DEF a
  <1> QED
    BY <1>1, <1>3 DEF a

\* The ends of a transmission of two joints.
LEMMA PairEnds ==
  ASSUME NEW t \in Transmissible, Pair(t)
  PROVE  /\ DOMAIN t.joints = 1..2 /\ DOMAIN t.actuators = 1..2
         /\ \A n \in 1..2 : t.directions[n] \in {1, -1}
  BY DataAssumption DEF Pair

\* What the two transformations read.
LEMMA Inputs ==
  ASSUME NEW t, NEW f
  PROVE  /\ Desired(t, f) = Wanted(t, joint_cmd, f)
         /\ Readings(t, f) = Read(t, actuator_state, f)
  BY DEF Desired, Wanted, Readings, Reading, Read

\* The pose a transmission reads is that of its matrix.
LEMMA PoseMatrix ==
  ASSUME NEW t, DOMAIN t.joints = 1..2, DOMAIN t.actuators = 1..2
  PROVE  MatrixOf(t, Pose(t)) =
           Matrix(t, JointPair(t, "position"), Read(t, actuator_state, "position"))
  <1> DEFINE p == Pose(t)
  <1>1. p[1] = JointPair(t, "position")
    BY DEF Pose, JointPair
  <1>2. \A n \in 1..2 : p[2][n] = actuator_state[t.actuators[n]].position
    BY DEF Pose
  <1> HIDE DEF p
  <1>3. [i \in 1..2 |-> p[2][Drives(t)[i]] * t.directions[Drives(t)[i]]]
          = Read(t, actuator_state, "position")
    BY <1>2, DrivesOf DEF Read
  <1> QED
    BY <1>1, <1>3 DEF MatrixOf, p

\* The types of transmission, one by one.
LEMMA PairTypes ==
  ASSUME NEW t, Pair(t)
  PROVE  /\ t.type = "LeftAnkle" \/ t.type = "RightAnkle" \/ (~IsAnkle(t) /\ Pair(t))
         /\ t.type # "Simple"
  BY DEF Pair, IsAnkle

\* The wrists and the lumbar share one transformation each way
\* (wrist_transmission.cc, lumbar_transmission.cc).
LEMMA Plain ==
  ASSUME NEW t, Pair(t), ~IsAnkle(t)
  PROVE  ToActuator(t) = LumbarToActuator(t) /\ ToJoint(t) = LumbarToJoint(t)
  BY DEF Pair, IsAnkle, ToActuator, ToJoint, LeftWristToActuator, RightWristToActuator,
     LeftWristToJoint, RightWristToJoint

\* TransformJointToActuator gives each drive what is aimed at
\* (ankle_, wrist_, lumbar_transmission.cc).
LEMMA ToActuatorIs ==
  ASSUME NEW t \in Transmissible, Pair(t), Apart(t), NEW i \in 1..2
  PROVE  ToActuator(t)[t.actuators[Drives(t)[i]]] = Aim(t, Pose(t), joint_cmd, i)
  <1>1. DOMAIN t.joints = 1..2 /\ DOMAIN t.actuators = 1..2
    BY PairEnds
  <1>2. MatrixOf(t, Pose(t)) =
          Matrix(t, JointPair(t, "position"), Readings(t, "position"))
    BY <1>1, PoseMatrix, Inputs
  <1>3. ToActuator(t) = Orders(t, AimPosition(t, joint_cmd), AimVelocity(t, Pose(t), joint_cmd),
                               AimEffort(t, Pose(t), joint_cmd))
    <2>1. CASE t.type = "LeftAnkle"
      <3>1. ToActuator(t) = LeftAnkleToActuator(t) /\ IsAnkle(t)
        BY <2>1 DEF ToActuator, IsAnkle
      <3> QED
        BY <1>2, <2>1, <3>1, Inputs
           DEF LeftAnkleToActuator, Matrix, AimPosition, AimVelocity, AimEffort
    <2>2. CASE t.type = "RightAnkle"
      <3>1. ToActuator(t) = RightAnkleToActuator(t) /\ IsAnkle(t)
        BY <2>2 DEF ToActuator, IsAnkle
      <3> QED
        BY <1>2, <2>2, <3>1, Inputs
           DEF RightAnkleToActuator, Matrix, AimPosition, AimVelocity, AimEffort
    <2>3. CASE ~IsAnkle(t)
      <3>1. ToActuator(t) = LumbarToActuator(t)
        BY <2>3, Plain
      <3>2. t.type # "LeftAnkle" /\ t.type # "RightAnkle"
        BY <2>3 DEF IsAnkle
      <3> QED
        BY <2>3, <3>1, <3>2, Inputs DEF LumbarToActuator, AimPosition, AimVelocity, AimEffort
    <2> QED
      BY <2>1, <2>2, <2>3, PairTypes
  <1> DEFINE d == t.directions[Drives(t)[i]]
  <1>0. PICK q, qd, tau : /\ q = AimPosition(t, joint_cmd)
                          /\ qd = AimVelocity(t, Pose(t), joint_cmd)
                          /\ tau = AimEffort(t, Pose(t), joint_cmd)
    OBVIOUS
  <1>4. Aim(t, Pose(t), joint_cmd, i) =
          [position |-> q[i] * d, velocity |-> qd[i] * d, effort |-> tau[i] * d,
           kp |-> joint_cmd[t.joints[i]].kp, kd |-> joint_cmd[t.joints[i]].kd]
    BY <1>0 DEF Aim
  <1>5. Orders(t, q, qd, tau)[t.actuators[Drives(t)[i]]] =
          [position |-> q[i] * d, velocity |-> qd[i] * d, effort |-> tau[i] * d,
           kp |-> joint_cmd[t.joints[i]].kp, kd |-> joint_cmd[t.joints[i]].kd]
    BY <1>1, OrdersOf DEF Orders
  <1> QED
    BY <1>0, <1>3, <1>4, <1>5

\* TransformActuatorToJoint gives each joint what is seen of it.
LEMMA ToJointIs ==
  ASSUME NEW t \in Transmissible, Pair(t), Apart(t), NEW i \in 1..2
  PROVE  ToJoint(t)[t.joints[i]] = Seen(t, actuator_state, i)
  <1>1. DOMAIN t.joints = 1..2 /\ DOMAIN t.actuators = 1..2
    BY PairEnds
  <1>2. ToJoint(t) = States(t, SeenPosition(t, actuator_state), SeenVelocity(t, actuator_state),
                            SeenEffort(t, actuator_state))
    <2>1. CASE t.type = "LeftAnkle"
      <3>1. ToJoint(t) = LeftAnkleToJoint(t) /\ IsAnkle(t)
        BY <2>1 DEF ToJoint, IsAnkle
      <3> QED
        BY <2>1, <3>1, Inputs
           DEF LeftAnkleToJoint, Matrix, SeenPosition, SeenVelocity, SeenEffort
    <2>2. CASE t.type = "RightAnkle"
      <3>1. ToJoint(t) = RightAnkleToJoint(t) /\ IsAnkle(t)
        BY <2>2 DEF ToJoint, IsAnkle
      <3> QED
        BY <2>2, <3>1, Inputs
           DEF RightAnkleToJoint, Matrix, SeenPosition, SeenVelocity, SeenEffort
    <2>3. CASE ~IsAnkle(t)
      <3>1. ToJoint(t) = LumbarToJoint(t)
        BY <2>3, Plain
      <3>2. t.type # "LeftAnkle" /\ t.type # "RightAnkle"
        BY <2>3 DEF IsAnkle
      <3> QED
        BY <2>3, <3>1, <3>2, Inputs DEF LumbarToJoint, SeenPosition, SeenVelocity, SeenEffort
    <2> QED
      BY <2>1, <2>2, <2>3, PairTypes
  <1>0. PICK q, qd, tau : /\ q = SeenPosition(t, actuator_state)
                          /\ qd = SeenVelocity(t, actuator_state)
                          /\ tau = SeenEffort(t, actuator_state)
    OBVIOUS
  <1>3. Seen(t, actuator_state, i) = [position |-> q[i], velocity |-> qd[i], effort |-> tau[i]]
    BY <1>0 DEF Seen
  <1>4. States(t, q, qd, tau)[t.joints[i]] =
          [position |-> q[i], velocity |-> qd[i], effort |-> tau[i]]
    BY <1>1, StatesOf DEF States
  <1> QED
    BY <1>0, <1>2, <1>3, <1>4

-----------------------------------------------------------------------------
(* There and back through one transmission.                                *)

\* A direction applied twice is none.
LEMMA Turned ==
  ASSUME NEW x \in Int, NEW d \in {1, -1}
  PROVE  x * d \in Int /\ (x * d) * d = x
  <1>1. CASE d = 1
    BY <1>1
  <1>2. CASE d = -1
    BY <1>2
  <1> QED
    BY <1>1, <1>2

\* The two ends of a transmission.
LEMMA OneTwo == 1 \in 1..2 /\ 2 \in 1..2 /\ \A n \in 1..2 : n = 1 \/ n = 2
  OBVIOUS

\* What is wanted of the joints is integers.
LEMMA WantedInt ==
  ASSUME NEW t, NEW jc, \A i \in 1..2 : jc[t.joints[i]] \in Cmd
  PROVE  \A f \in {"position", "velocity", "effort"} :
           Wanted(t, jc, f)[1] \in Int /\ Wanted(t, jc, f)[2] \in Int
  BY DEF Wanted, Cmd

\* The table gives back the joints from the motors it covers.
LEMMA LookupMotors ==
  ASSUME NEW m, NEW x \in Int, NEW y \in Int, m[1] = x + y, m[2] = x + 2 * y,
         InTable(m[1], Qm5Angle), InTable(m[2], Qm6Angle)
  PROVE  Lookup(m)[1] = x /\ Lookup(m)[2] = y
  <1>1. 2 * (x + y) - (x + 2 * y) = x /\ (x + 2 * y) - (x + y) = y
    OBVIOUS
  <1> QED
    BY <1>1 DEF Lookup

\* Covered, of the joint commands jc.
Reaches(t, jc) ==
  IsAnkle(t) =>
    LET q  == Wanted(t, jc, "position")
        qm == IF t.type = "LeftAnkle" THEN Motors(<<q[1], -q[2]>>) ELSE Motors(q)
    IN  InTable(qm[1], Qm5Angle) /\ InTable(qm[2], Qm6Angle)

\* The position that is aimed at, as the table of an ankle gets it.
LEMMA PositionBack ==
  ASSUME NEW t, Pair(t), NEW jc, \A i \in 1..2 : jc[t.joints[i]] \in Cmd,
         NEW as,
         \A n \in 1..2 : Read(t, as, "position")[n] = AimPosition(t, jc)[n],
         Reaches(t, jc)
  PROVE  \A n \in 1..2 : SeenPosition(t, as)[n] = Wanted(t, jc, "position")[n]
  <1> SUFFICES /\ SeenPosition(t, as)[1] = Wanted(t, jc, "position")[1]
               /\ SeenPosition(t, as)[2] = Wanted(t, jc, "position")[2]
    BY OneTwo
  <1>2. /\ Read(t, as, "position")[1] = AimPosition(t, jc)[1]
        /\ Read(t, as, "position")[2] = AimPosition(t, jc)[2]
    BY OneTwo, Zenon
  <1>0. PICK q, qm : q = Wanted(t, jc, "position") /\ qm = Read(t, as, "position")
    OBVIOUS
  <1>1. PICK x \in Int, y \in Int : x = q[1] /\ y = q[2]
    BY <1>0, WantedInt
  <1>3. CASE t.type = "LeftAnkle"
    <2>1. SeenPosition(t, as) = LeftLookup(qm) /\ AimPosition(t, jc) = LeftMotors(q) /\ IsAnkle(t)
      BY <1>0, <1>3 DEF SeenPosition, AimPosition, IsAnkle
    <2>2. PICK z \in Int : z = -y
      OBVIOUS
    <2>3. Motors(<<x, z>>)[1] = x + z /\ Motors(<<x, z>>)[2] = x + 2 * z
      BY DEF Motors
    <2>4. InTable(x + z, Qm5Angle) /\ InTable(x + 2 * z, Qm6Angle)
      BY <1>0, <1>1, <1>3, <2>1, <2>2, <2>3 DEF Reaches
    <2>5. qm[1] = -(x + z) /\ qm[2] = -(x + 2 * z)
      <3>1. LeftMotors(q)[1] = -(x + z) /\ LeftMotors(q)[2] = -(x + 2 * z)
        BY <1>1, <2>2, <2>3 DEF LeftMotors
      <3>2. qm[1] = LeftMotors(q)[1] /\ qm[2] = LeftMotors(q)[2]
        BY <1>0, <1>2, <2>1
      <3> QED
        BY <3>1, <3>2
    <2>6. PICK m : m = <<-qm[1], -qm[2]>>
      OBVIOUS
    <2>7. m[1] = x + z /\ m[2] = x + 2 * z
      BY <2>5, <2>6
    <2>8. Lookup(m)[1] = x /\ Lookup(m)[2] = z
      BY <2>4, <2>7, LookupMotors
    <2>9. LeftLookup(qm)[1] = x /\ LeftLookup(qm)[2] = -z
      BY <2>6, <2>8 DEF LeftLookup
    <2>10. QED
      <3>1. -z = y
        BY <2>2
      <3> QED
        BY <1>0, <1>1, <2>1, <2>9, <3>1
  <1>4. CASE t.type = "RightAnkle"
    <2>1. SeenPosition(t, as) = Lookup(qm) /\ AimPosition(t, jc) = Motors(q) /\ IsAnkle(t)
      BY <1>0, <1>4 DEF SeenPosition, AimPosition, IsAnkle
    <2>2. qm[1] = x + y /\ qm[2] = x + 2 * y /\ Motors(q)[1] = x + y /\ Motors(q)[2] = x + 2 * y
      <3>1. Motors(q)[1] = x + y /\ Motors(q)[2] = x + 2 * y
        BY <1>1 DEF Motors
      <3>2. qm[1] = Motors(q)[1] /\ qm[2] = Motors(q)[2]
        BY <1>0, <1>2, <2>1
      <3> QED
        BY <3>1, <3>2
    <2>3. InTable(qm[1], Qm5Angle) /\ InTable(qm[2], Qm6Angle)
      BY <1>0, <1>4, <2>1, <2>2 DEF Reaches
    <2>4. Lookup(qm)[1] = x /\ Lookup(qm)[2] = y
      BY <2>2, <2>3, LookupMotors
    <2> QED
      BY <1>0, <1>1, <2>1, <2>4
  <1>5. CASE ~IsAnkle(t)
    BY <1>2, <1>5 DEF SeenPosition, AimPosition, IsAnkle
  <1> QED
    BY <1>3, <1>4, <1>5 DEF IsAnkle

\* The matrix of an ankle at a pose.
LEMMA MatrixForm ==
  ASSUME NEW t, NEW q, NEW qm, q[1] \in Int, qm[2] \in Int
  PROVE  \E b \in Int, e \in {1, -1} :
           LET f == Matrix(t, q, qm)
           IN  f[1] = 1 /\ f[2] = b /\ f[3] = 0 /\ f[4] = e
  <1>1. PICK b \in Int : b = q[1] + qm[2]
    OBVIOUS
  <1>2. PICK g : g = Jacobian(q, qm)
    OBVIOUS
  <1>3. g[1] = 1 /\ g[2] = b /\ g[3] = 0 /\ g[4] = 1
    BY <1>1, <1>2 DEF Jacobian
  <1>4. PICK h : h = LeftJacobian(q, qm)
    OBVIOUS
  <1>5. h[1] = 1 /\ h[2] = b /\ h[3] = 0 /\ h[4] = -1
    BY <1>2, <1>3, <1>4 DEF LeftJacobian
  <1>6. CASE t.type = "LeftAnkle"
    <2>1. Matrix(t, q, qm) = h
      BY <1>4, <1>6 DEF Matrix
    <2> QED
      BY <1>5, <2>1
  <1>7. CASE t.type # "LeftAnkle"
    <2>1. Matrix(t, q, qm) = g
      BY <1>2, <1>7 DEF Matrix
    <2> QED
      BY <1>3, <2>1
  <1> QED
    BY <1>6, <1>7

\* Velocities and efforts through such a matrix, and back through it.
LEMMA MatrixBack ==
  ASSUME NEW f, NEW b \in Int, NEW e \in {1, -1},
         f[1] = 1, f[2] = b, f[3] = 0, f[4] = e,
         NEW x, x[1] \in Int, x[2] \in Int, NEW y
  PROVE  /\ (/\ y[1] = VelocityToMotor(f, x)[1]
             /\ y[2] = VelocityToMotor(f, x)[2])
              => VelocityToJoint(f, y)[1] = x[1] /\ VelocityToJoint(f, y)[2] = x[2]
         /\ (/\ y[1] = EffortToMotor(f, x)[1]
             /\ y[2] = EffortToMotor(f, x)[2])
              => EffortToJoint(f, y)[1] = x[1] /\ EffortToJoint(f, y)[2] = x[2]
         /\ VelocityToMotor(f, x)[1] \in Int /\ VelocityToMotor(f, x)[2] \in Int
         /\ EffortToMotor(f, x)[1] \in Int /\ EffortToMotor(f, x)[2] \in Int
  <1>1. PICK u \in Int, v \in Int : u = x[1] /\ v = x[2]
    OBVIOUS
  <1>2. PICK bu \in Int, bv \in Int : bu = b * u /\ bv = b * v
    OBVIOUS
  <1>3. Det(f) = e /\ e * e = 1
    BY DEF Det
  <1>4. VelocityToMotor(f, x)[1] = u /\ VelocityToMotor(f, x)[2] = bu + e * v
    BY <1>1, <1>2 DEF VelocityToMotor
  <1>5. EffortToMotor(f, x)[1] = (e * u - bv) * e /\ EffortToMotor(f, x)[2] = v * e
    BY <1>1, <1>2, <1>3 DEF EffortToMotor
  <1>6. ASSUME y[1] = u, y[2] = bu + e * v
        PROVE  VelocityToJoint(f, y)[1] = u /\ VelocityToJoint(f, y)[2] = v
    <2>1. /\ VelocityToJoint(f, y)[1] = (e * u) * e
          /\ VelocityToJoint(f, y)[2] = ((bu + e * v) - bu) * e
      BY <1>2, <1>3, <1>6 DEF VelocityToJoint
    <2>2. CASE e = 1
      BY <2>1, <2>2
    <2>3. CASE e = -1
      BY <2>1, <2>3
    <2> QED
      BY <2>2, <2>3
  <1>7. ASSUME y[1] = (e * u - bv) * e, y[2] = v * e
        PROVE  EffortToJoint(f, y)[1] = u /\ EffortToJoint(f, y)[2] = v
    <2>1. /\ EffortToJoint(f, y)[1] = (e * u - bv) * e + b * (v * e)
          /\ EffortToJoint(f, y)[2] = e * (v * e)
      BY <1>7 DEF EffortToJoint
    <2>2. CASE e = 1
      BY <1>2, <2>1, <2>2
    <2>3. CASE e = -1
      BY <1>2, <2>1, <2>3
    <2> QED
      BY <2>2, <2>3
  <1>8. u \in Int /\ bu + e * v \in Int /\ (e * u - bv) * e \in Int /\ v * e \in Int
    OBVIOUS
  <1> QED
    BY <1>1, <1>4, <1>5, <1>6, <1>7, <1>8

\* The i-th drive has carried out what was aimed at, and its reading is in as.
Reached(t, p, jc, as, i) ==
  LET c == Aim(t, p, jc, i)
      s == as[t.actuators[Drives(t)[i]]]
  IN  /\ InRange(c)
      /\ s.position = GetPosition(Report(Done(c)))
      /\ s.velocity = GetVelocity(Report(Done(c)))
      /\ s.effort = GetEffort(Report(Done(c)))

\* The positions of the drives, turned back by their directions, are those that
\* were aimed at.
LEMMA ReadPosition ==
  ASSUME NEW t \in Transmissible, Pair(t), NEW jc, \A n \in 1..2 : jc[t.joints[n]] \in Cmd,
         NEW p, NEW as, NEW i \in 1..2, Reached(t, p, jc, as, i)
  PROVE  Read(t, as, "position")[i] = AimPosition(t, jc)[i] /\ AimPosition(t, jc)[i] \in Int
  <1>1. AimPosition(t, jc)[i] \in Int
    <2>1. PICK q : q = Wanted(t, jc, "position")
      OBVIOUS
    <2>2. q[1] \in Int /\ q[2] \in Int
      BY <2>1, WantedInt
    <2>3. LeftMotors(q)[i] \in Int /\ Motors(q)[i] \in Int /\ q[i] \in Int
      BY <2>2 DEF LeftMotors, Motors
    <2> QED
      BY <2>1, <2>3 DEF AimPosition
  <1>2. PICK d \in {1, -1} : d = t.directions[Drives(t)[i]]
    BY DrivesOf, PairEnds
  <1>3. PICK c : c = Aim(t, p, jc, i)
    OBVIOUS
  <1>4. c.position = AimPosition(t, jc)[i] * d
    BY <1>2, <1>3 DEF Aim
  <1>5. c.position \in Int /\ c.position * d = AimPosition(t, jc)[i]
    BY <1>1, <1>4, Turned
  <1>6. as[t.actuators[Drives(t)[i]]].position = c.position
    BY <1>3, <1>5, PositionComesBack DEF Reached
  <1> QED
    BY <1>1, <1>2, <1>5, <1>6 DEF Read

\* The same of velocities and efforts, when they are integers.
LEMMA ReadOthers ==
  ASSUME NEW t \in Transmissible, Pair(t), NEW jc, \A n \in 1..2 : jc[t.joints[n]] \in Cmd,
         NEW p, NEW as, NEW i \in 1..2, Reached(t, p, jc, as, i),
         AimVelocity(t, p, jc)[i] \in Int, AimEffort(t, p, jc)[i] \in Int
  PROVE  /\ Read(t, as, "velocity")[i] = AimVelocity(t, p, jc)[i]
         /\ Read(t, as, "effort")[i] = AimEffort(t, p, jc)[i]
  <1>1. PICK d \in {1, -1} : d = t.directions[Drives(t)[i]]
    BY DrivesOf, PairEnds
  <1>2. PICK c : c = Aim(t, p, jc, i)
    OBVIOUS
  <1>3. /\ c.velocity = AimVelocity(t, p, jc)[i] * d /\ c.effort = AimEffort(t, p, jc)[i] * d
        /\ c.kp = jc[t.joints[i]].kp /\ c.kd = jc[t.joints[i]].kd
    BY <1>1, <1>2 DEF Aim
  <1>4. c.kp \in Int /\ c.kd \in Int
    BY <1>3 DEF Cmd
  <1>5. /\ c.velocity \in Int /\ c.velocity * d = AimVelocity(t, p, jc)[i]
        /\ c.effort \in Int /\ c.effort * d = AimEffort(t, p, jc)[i]
    BY <1>3, Turned
  <1>6. /\ as[t.actuators[Drives(t)[i]]].velocity = c.velocity
        /\ as[t.actuators[Drives(t)[i]]].effort = c.effort
    BY <1>2, <1>4, <1>5, VelocityAndEffortComeBack DEF Reached
  <1> QED
    BY <1>1, <1>5, <1>6 DEF Read

\* The matrix was taken at the pose that is seen.
AtPose(t, p, as) ==
  /\ p[1][1] = SeenPosition(t, as)[1]
  /\ \A n \in 1..2 : p[2][n] = as[t.actuators[n]].position

\* What a transmission of two joints was told to do is done, and read.
Obeyed(t, p, jc, as) ==
  /\ Pair(t) /\ \A i \in 1..2 : jc[t.joints[i]] \in Cmd
  /\ Reaches(t, jc) /\ \A i \in 1..2 : Reached(t, p, jc, as, i)

\* The positions: both are where they were told to be.
LEMMA PairPositions ==
  ASSUME NEW t \in Transmissible, NEW jc, NEW p, NEW as, Obeyed(t, p, jc, as)
  PROVE  \A i \in 1..2 : /\ Read(t, as, "position")[i] \in Int
                         /\ SeenPosition(t, as)[i] = jc[t.joints[i]].position
                         /\ SeenPosition(t, as)[i] \in Int
  <1>1. \A n \in 1..2 : Read(t, as, "position")[n] = AimPosition(t, jc)[n]
                        /\ Read(t, as, "position")[n] \in Int
    BY ReadPosition DEF Obeyed
  <1>2. \A n \in 1..2 : SeenPosition(t, as)[n] = Wanted(t, jc, "position")[n]
    <2>1. Pair(t) /\ (\A i \in 1..2 : jc[t.joints[i]] \in Cmd) /\ Reaches(t, jc)
      BY DEF Obeyed
    <2> QED
      BY <1>1, <2>1, PositionBack, Zenon
  <1>3. \A i \in 1..2 : /\ Wanted(t, jc, "position")[i] = jc[t.joints[i]].position
                        /\ jc[t.joints[i]].position \in Int
    BY DEF Wanted, Obeyed, Cmd
  <1> QED
    BY <1>1, <1>2, <1>3

\* An ankle at the pose its matrix was taken at.
LEMMA AnkleFollows ==
  ASSUME NEW t \in Transmissible, NEW jc, NEW p, NEW as, Obeyed(t, p, jc, as),
         IsAnkle(t), AtPose(t, p, as), NEW i \in 1..2
  PROVE  /\ SeenVelocity(t, as)[i] = Wanted(t, jc, "velocity")[i]
         /\ t.type = "RightAnkle" => SeenEffort(t, as)[i] = Wanted(t, jc, "effort")[i]
  <1>1. PICK q, qm, f : q = SeenPosition(t, as) /\ qm = Read(t, as, "position")
                        /\ f = Matrix(t, q, qm)
    OBVIOUS
  <1>2. PICK b \in Int, e \in {1, -1} : f[1] = 1 /\ f[2] = b /\ f[3] = 0 /\ f[4] = e
    <2>1. \A n \in 1..2 : q[n] \in Int /\ qm[n] \in Int
      BY <1>1, PairPositions, Zenon
    <2>2. 1 \in 1..2 /\ 2 \in 1..2
      OBVIOUS
    <2>3. q[1] \in Int /\ qm[2] \in Int
      BY <2>1, <2>2, Zenon
    <2>4. \E b \in Int, e \in {1, -1} :
            LET g == Matrix(t, q, qm)
            IN  g[1] = 1 /\ g[2] = b /\ g[3] = 0 /\ g[4] = e
      BY <2>3, MatrixForm
    <2> QED
      BY <1>1, <2>4
  <1>3. MatrixOf(t, p) = f
    <2>1. PICK m : m = [n \in 1..2 |-> p[2][Drives(t)[n]] * t.directions[Drives(t)[n]]]
      OBVIOUS
    <2>2. PICK k \in 1..2 : k = Drives(t)[2]
      BY DrivesOf
    <2>3. m[2] = p[2][k] * t.directions[k]
      BY <2>1, <2>2
    <2>4. qm[2] = as[t.actuators[k]].position * t.directions[k]
      BY <1>1, <2>2 DEF Read
    <2>5. p[2][k] = as[t.actuators[k]].position /\ p[1][1] = q[1]
      BY <1>1 DEF AtPose
    <2>6. Jacobian(p[1], m) = Jacobian(q, qm)
      BY <2>3, <2>4, <2>5 DEF Jacobian
    <2>7. Matrix(t, p[1], m) = Matrix(t, q, qm)
      BY <2>6 DEF Matrix, LeftJacobian
    <2> QED
      BY <1>1, <2>1, <2>7 DEF MatrixOf
  <1>4. PICK v, w, y, z :
          /\ v = Wanted(t, jc, "velocity") /\ w = Wanted(t, jc, "effort")
          /\ y = Read(t, as, "velocity") /\ z = Read(t, as, "effort")
    OBVIOUS
  <1>5. v[1] \in Int /\ v[2] \in Int /\ w[1] \in Int /\ w[2] \in Int
    BY <1>4, WantedInt DEF Obeyed
  <1>6. AimVelocity(t, p, jc) = VelocityToMotor(f, v) /\ AimEffort(t, p, jc) = EffortToMotor(f, w)
    BY <1>3, <1>4 DEF AimVelocity, AimEffort
  <1>7. /\ VelocityToMotor(f, v)[1] \in Int /\ VelocityToMotor(f, v)[2] \in Int
        /\ EffortToMotor(f, w)[1] \in Int /\ EffortToMotor(f, w)[2] \in Int
    BY <1>2, <1>5, MatrixBack
  <1>8. \A n \in 1..2 : AimVelocity(t, p, jc)[n] \in Int /\ AimEffort(t, p, jc)[n] \in Int
    BY <1>6, <1>7
  <1>9. \A n \in 1..2 : y[n] = AimVelocity(t, p, jc)[n] /\ z[n] = AimEffort(t, p, jc)[n]
    <2>1. Pair(t) /\ (\A n \in 1..2 : jc[t.joints[n]] \in Cmd)
          /\ \A n \in 1..2 : Reached(t, p, jc, as, n)
      BY DEF Obeyed
    <2>2. \A n \in 1..2 : /\ Read(t, as, "velocity")[n] = AimVelocity(t, p, jc)[n]
                          /\ Read(t, as, "effort")[n] = AimEffort(t, p, jc)[n]
      BY <1>8, <2>1, ReadOthers
    <2> QED
      BY <1>4, <2>2
  <1>10. /\ y[1] = VelocityToMotor(f, v)[1] /\ y[2] = VelocityToMotor(f, v)[2]
         /\ z[1] = EffortToMotor(f, w)[1] /\ z[2] = EffortToMotor(f, w)[2]
    BY <1>6, <1>9
  <1>11. VelocityToJoint(f, y)[1] = v[1] /\ VelocityToJoint(f, y)[2] = v[2]
    BY <1>2, <1>5, <1>10, MatrixBack
  <1>12. EffortToJoint(f, z)[1] = w[1] /\ EffortToJoint(f, z)[2] = w[2]
    BY <1>2, <1>5, <1>10, MatrixBack
  <1>13. SeenVelocity(t, as) = VelocityToJoint(f, y)
    BY <1>1, <1>4 DEF SeenVelocity
  <1>14. t.type = "RightAnkle" => SeenEffort(t, as) = EffortToJoint(f, z)
    BY <1>1, <1>4 DEF SeenEffort
  <1>15. i = 1 \/ i = 2
    OBVIOUS
  <1> QED
    BY <1>4, <1>11, <1>12, <1>13, <1>14, <1>15

\* A wrist or the lumbar reads what was aimed at.
LEMMA PlainFollows ==
  ASSUME NEW t \in Transmissible, NEW jc, NEW p, NEW as, Obeyed(t, p, jc, as),
         ~IsAnkle(t), NEW i \in 1..2
  PROVE  /\ Read(t, as, "velocity")[i] = Wanted(t, jc, "velocity")[i]
         /\ Read(t, as, "effort")[i] = Wanted(t, jc, "effort")[i]
  <1>1. AimVelocity(t, p, jc) = Wanted(t, jc, "velocity")
        /\ AimEffort(t, p, jc) = Wanted(t, jc, "effort")
    BY DEF AimVelocity, AimEffort
  <1>2. \A n \in 1..2 : Wanted(t, jc, "velocity")[n] \in Int /\ Wanted(t, jc, "effort")[n] \in Int
    BY DEF Wanted, Obeyed, Cmd
  <1>3. \A n \in 1..2 : /\ Read(t, as, "velocity")[n] = AimVelocity(t, p, jc)[n]
                        /\ Read(t, as, "effort")[n] = AimEffort(t, p, jc)[n]
    BY <1>1, <1>2, ReadOthers DEF Obeyed
  <1> QED
    BY <1>1, <1>3

\* What is seen of a joint is what was commanded: its position, and its velocity
\* and effort when an ankle's matrix was taken at the pose it still has.  The code
\* reads no effort of the roll of wrists and lumbar nor of the left ankle.
AsTold(t, p, as, i, s, c) ==
  LET atPose == IsAnkle(t) => AtPose(t, p, as)
  IN  /\ s.position = c.position
      /\ atPose => s.velocity = c.velocity
      /\ (atPose /\ (t.type \in {"Simple", "RightAnkle"} \/ (i = 1 /\ ~IsAnkle(t))))
           => s.effort = c.effort

\* A transmission of two joints publishes what it was told to do, but for the
\* effort of roll of a wrist or the lumbar, which is not read (spec/bugs.md BUG-01).
LEMMA PairFollows ==
  ASSUME NEW t \in Transmissible, NEW jc, NEW p, NEW as, Obeyed(t, p, jc, as), NEW i \in 1..2
  PROVE  AsTold(t, p, as, i, Seen(t, as, i), jc[t.joints[i]])
  <1>1. SeenPosition(t, as)[i] = jc[t.joints[i]].position
    BY PairPositions
  <1>2. /\ Wanted(t, jc, "velocity")[i] = jc[t.joints[i]].velocity
        /\ Wanted(t, jc, "effort")[i] = jc[t.joints[i]].effort
    BY DEF Wanted
  <1>3. /\ Seen(t, as, i).position = SeenPosition(t, as)[i]
        /\ Seen(t, as, i).velocity = SeenVelocity(t, as)[i]
        /\ Seen(t, as, i).effort = SeenEffort(t, as)[i]
    BY DEF Seen
  <1>4. CASE IsAnkle(t)
    <2>1. AtPose(t, p, as) =>
            /\ SeenVelocity(t, as)[i] = Wanted(t, jc, "velocity")[i]
            /\ t.type = "RightAnkle" => SeenEffort(t, as)[i] = Wanted(t, jc, "effort")[i]
      BY <1>4, AnkleFollows, Zenon
    <2>2. t.type # "Simple"
      BY <1>4 DEF IsAnkle
    <2> QED
      BY <1>1, <1>2, <1>3, <1>4, <2>1, <2>2 DEF AsTold
  <1>5. CASE ~IsAnkle(t)
    <2>1. /\ Read(t, as, "velocity")[i] = Wanted(t, jc, "velocity")[i]
          /\ Read(t, as, "effort")[i] = Wanted(t, jc, "effort")[i]
      BY <1>5, PlainFollows, Zenon
    <2>3. SeenVelocity(t, as) = Read(t, as, "velocity")
      BY <1>5 DEF SeenVelocity
    <2>4. SeenEffort(t, as)[1] = Read(t, as, "effort")[1]
      BY <1>5 DEF SeenEffort, IsAnkle
    <2>2. t.type # "RightAnkle" /\ t.type # "Simple"
      BY <1>5 DEF IsAnkle, Obeyed, Pair
    <2> QED
      BY <1>1, <1>2, <1>3, <1>5, <2>1, <2>2, <2>3, <2>4 DEF AsTold
  <1> QED
    BY <1>4, <1>5

-----------------------------------------------------------------------------
(* Any transmission: a simple one has one end, with a drive of its own.    *)

Drive(t, i) == IF Pair(t) THEN Drives(t)[i] ELSE i

SimpleAim(t, jc) ==
  LET c == jc[t.joints[1]]
      d == t.directions[1]
  IN  [position |-> c.position * d, velocity |-> c.velocity * d, effort |-> c.effort * d,
       kp |-> c.kp, kd |-> c.kd]
SimpleSeen(t, as) ==
  LET s == as[t.actuators[1]]
      d == t.directions[1]
  IN  [position |-> s.position * d, velocity |-> s.velocity * d, effort |-> s.effort * d]

Order(t, p, jc, i) == IF Pair(t) THEN Aim(t, p, jc, i) ELSE SimpleAim(t, jc)
Sight(t, as, i) == IF Pair(t) THEN Seen(t, as, i) ELSE SimpleSeen(t, as)

\* The ends of any transmission.
LEMMA Ends ==
  ASSUME NEW t \in Transmissible
  PROVE  /\ Pair(t) => DOMAIN t.joints = 1..2 /\ DOMAIN t.actuators = 1..2
         /\ ~Pair(t) => /\ t.type = "Simple" /\ DOMAIN t.joints = {1} /\ DOMAIN t.actuators = {1}
                        /\ t.directions[1] \in {1, -1} /\ ~IsAnkle(t)
  <1>1. CASE Pair(t)
    BY <1>1, DataAssumption
  <1>2. CASE ~Pair(t)
    <2>1. 1..1 = {1}
      OBVIOUS
    <2>2. t.type = "Simple" /\ DOMAIN t.joints = {1} /\ DOMAIN t.actuators = {1}
          /\ t.directions[1] \in {1, -1}
      BY <1>2, <2>1, DataAssumption
    <2> QED
      BY <1>2, <2>2 DEF IsAnkle
  <1> QED
    BY <1>1, <1>2

\* Every drive is one of the actuators and every actuator one of the drives.
LEMMA DriveOf ==
  ASSUME NEW t \in Transmissible
  PROVE  /\ \A i \in DOMAIN t.joints : Drive(t, i) \in DOMAIN t.actuators
         /\ \A n \in DOMAIN t.actuators : \E i \in DOMAIN t.joints : Drive(t, i) = n
  BY Ends, DrivesOf DEF Drive

\* TransformJointToActuator, for every type.
LEMMA ToActuatorOrder ==
  ASSUME NEW t \in Transmissible, Pair(t) => Apart(t), NEW i \in DOMAIN t.joints
  PROVE  ToActuator(t)[t.actuators[Drive(t, i)]] = Order(t, Pose(t), joint_cmd, i)
  <1>1. CASE Pair(t)
    BY <1>1, Ends, ToActuatorIs DEF Drive, Order
  <1>2. CASE ~Pair(t)
    <2>1. t.type = "Simple" /\ i = 1 /\ Drive(t, i) = 1
      BY <1>2, Ends DEF Drive
    <2>2. ToActuator(t) = SimpleToActuator(t)
      BY <2>1 DEF ToActuator
    <2>3. SimpleToActuator(t)[t.actuators[1]] = SimpleAim(t, joint_cmd)
      BY DEF SimpleToActuator, SimpleAim
    <2> QED
      BY <1>2, <2>1, <2>2, <2>3 DEF Order
  <1> QED
    BY <1>1, <1>2

\* TransformActuatorToJoint, for every type.
LEMMA ToJointSight ==
  ASSUME NEW t \in Transmissible, Pair(t) => Apart(t), NEW i \in DOMAIN t.joints
  PROVE  ToJoint(t)[t.joints[i]] = Sight(t, actuator_state, i)
  <1>1. CASE Pair(t)
    BY <1>1, Ends, ToJointIs DEF Sight
  <1>2. CASE ~Pair(t)
    <2>1. t.type = "Simple" /\ i = 1
      BY <1>2, Ends
    <2>2. ToJoint(t) = SimpleToJoint(t)
      BY <2>1 DEF ToJoint
    <2>3. SimpleToJoint(t)[t.joints[1]] = SimpleSeen(t, actuator_state)
      BY DEF SimpleToJoint, SimpleSeen, Reading
    <2> QED
      BY <1>2, <2>1, <2>2, <2>3 DEF Sight
  <1> QED
    BY <1>1, <1>2

\* The drives of a transmission have carried out what was aimed at of jc.
Told(t, p, jc, as) ==
  /\ \A i \in DOMAIN t.joints : jc[t.joints[i]] \in Cmd
  /\ Reaches(t, jc)
  /\ \A i \in DOMAIN t.joints :
       LET c == Order(t, p, jc, i)
           s == as[t.actuators[Drive(t, i)]]
       IN  /\ InRange(c)
           /\ s.position = GetPosition(Report(Done(c)))
           /\ s.velocity = GetVelocity(Report(Done(c)))
           /\ s.effort = GetEffort(Report(Done(c)))

\* There and back, for every type.
LEMMA Follows ==
  ASSUME NEW t \in Transmissible, NEW p, NEW jc, NEW as, Told(t, p, jc, as),
         NEW i \in DOMAIN t.joints
  PROVE  AsTold(t, p, as, i, Sight(t, as, i), jc[t.joints[i]])
  <1>1. CASE Pair(t)
    <2>1. Obeyed(t, p, jc, as) /\ i \in 1..2
      BY <1>1, Ends DEF Told, Obeyed, Reached, Order, Drive
    <2>2. Sight(t, as, i) = Seen(t, as, i)
      BY <1>1 DEF Sight
    <2> QED
      BY <2>1, <2>2, PairFollows, Zenon
  <1>2. CASE ~Pair(t)
    <2>1. i = 1 /\ ~IsAnkle(t) /\ t.type = "Simple" /\ Drive(t, i) = 1
      BY <1>2, Ends DEF Drive
    <2>2. PICK d \in {1, -1} : d = t.directions[1]
      BY <1>2, Ends
    <2>3. PICK c, s, o : c = jc[t.joints[1]] /\ s = as[t.actuators[1]] /\ o = SimpleAim(t, jc)
      OBVIOUS
    <2>4. /\ c.position \in Int /\ c.velocity \in Int /\ c.effort \in Int
          /\ c.kp \in Int /\ c.kd \in Int
      BY <2>1, <2>3 DEF Told, Cmd
    <2>5. /\ o.position = c.position * d /\ o.velocity = c.velocity * d
          /\ o.effort = c.effort * d /\ o.kp = c.kp /\ o.kd = c.kd
      BY <2>2, <2>3 DEF SimpleAim
    <2>6. /\ o.position \in Int /\ o.position * d = c.position
          /\ o.velocity \in Int /\ o.velocity * d = c.velocity
          /\ o.effort \in Int /\ o.effort * d = c.effort
      BY <2>4, <2>5, Turned
    <2>7. InRange(o) /\ s.position = GetPosition(Report(Done(o)))
          /\ s.velocity = GetVelocity(Report(Done(o))) /\ s.effort = GetEffort(Report(Done(o)))
      BY <1>2, <2>1, <2>3 DEF Told, Order
    <2>8. s.position = o.position /\ s.velocity = o.velocity /\ s.effort = o.effort
      BY <2>4, <2>5, <2>6, <2>7, PositionComesBack, VelocityAndEffortComeBack
    <2>9. PICK z : z = SimpleSeen(t, as)
      OBVIOUS
    <2>10. z.position = s.position * d /\ z.velocity = s.velocity * d /\ z.effort = s.effort * d
      BY <2>2, <2>3, <2>9 DEF SimpleSeen
    <2>11. Sight(t, as, i) = z
      BY <1>2, <2>9 DEF Sight
    <2> QED
      BY <2>1, <2>3, <2>6, <2>8, <2>10, <2>11 DEF AsTold
  <1> QED
    BY <1>1, <1>2

-----------------------------------------------------------------------------
(* The two threads.                                                        *)

\* Alone, of the registered transmissions.
AloneIn(trans, k) ==
  LET t == trans[k]
  IN  \A n \in DOMAIN trans :
        LET u == trans[n]
        IN  /\ \A i \in DOMAIN t.joints, m \in DOMAIN u.joints :
                 t.joints[i] = u.joints[m] => n = k /\ m = i
            /\ \A i \in DOMAIN t.actuators, m \in DOMAIN u.actuators :
                 t.actuators[i] = u.actuators[m] => n = k /\ m = i

\* Only entries of known joints and actuators are registered.
Shape ==
  /\ transmissions_ \in Seq(Transmissible)
  /\ \A k \in DOMAIN transmissions_ :
       /\ ToSet(transmissions_[k].joints) \subseteq Joints
       /\ ToSet(transmissions_[k].actuators) \subseteq Listed

\* Nothing runs before Start has returned.
Life ==
  /\ commands \in Nat
  /\ pc # "running" => commands = 0 /\ cbPc = "idle" /\ pubPc = "begin"

\* The callback has the cached commands on their way: an actuator's frame is its
\* command, unless the callback has still to send it.
Sending ==
  /\ joint_cmd \in [Joints -> Cmd] /\ DOMAIN frame = Listed
  /\ cbPc # "send" => cbLeft = {}
  /\ (commands > 0 /\ cbPc # "transform") =>
       \A a \in Listed \ cbLeft : frame[a] = SetMitCmd(actuator_cmd[a])

\* Once the transmissions have run, the command of an actuator that belongs to one
\* transmission is what that one aims at, at the pose it has read.
Ordered ==
  (commands > 0 /\ cbPc # "transform") =>
    \A k \in DOMAIN transmissions_ :
      AloneIn(transmissions_, k) =>
        \A i \in DOMAIN transmissions_[k].joints :
          actuator_cmd[transmissions_[k].actuators[Drive(transmissions_[k], i)]] =
            Order(transmissions_[k], used[k], joint_cmd, i)

\* What is about to be published is what the transmissions see in the readings.
Published ==
  pubPc = "publish" =>
    \A k \in DOMAIN transmissions_ :
      AloneIn(transmissions_, k) =>
        \A i \in DOMAIN transmissions_[k].joints :
          joint_state[transmissions_[k].joints[i]] = Sight(transmissions_[k], actuator_state, i)

DataInv == Shape /\ Life /\ Sending /\ Ordered /\ Published

\* InitDcu, InitTransmission and Start leave the data alone, and registering adds
\* at most one entry of known names (dcu_driver_module.cc:82-180).
Setting ==
  \/ SetupNext /\ UNCHANGED <<transmissions_, dataVars, deviceVars, cbVars, pubVars>>
  \/ \E t \in Transmissible : Register(t)
  \/ UnknownType
  \/ Start

\* Every step of InitDcu is one before Start.
LEMMA SettingIsEarly ==
  ASSUME Setting
  PROVE  /\ pc # "running"
         /\ UNCHANGED <<dataVars, deviceVars, cbVars, pubVars>>
         /\ \/ UNCHANGED transmissions_
            \/ \E t \in Transmissible :
                 /\ ToSet(t.joints) \subseteq Joints /\ ToSet(t.actuators) \subseteq Listed
                 /\ transmissions_' = Append(transmissions_, t)
  <1>1. SetupNext => pc # "running"
    BY DEF SetupNext, CreateDcu, AttachActuator, StartBus, EnableNext, EnableEnd
  <1>2. CASE SetupNext /\ UNCHANGED <<transmissions_, dataVars, deviceVars, cbVars, pubVars>>
    BY <1>1, <1>2
  <1>3. ASSUME NEW t \in Transmissible, Register(t)
        PROVE  /\ pc # "running"
               /\ UNCHANGED <<dataVars, deviceVars, cbVars, pubVars>>
               /\ \/ UNCHANGED transmissions_
                  \/ /\ ToSet(t.joints) \subseteq Joints /\ ToSet(t.actuators) \subseteq Listed
                     /\ transmissions_' = Append(transmissions_, t)
    BY <1>3 DEF Register
  <1>4. CASE UnknownType \/ Start
    BY <1>4 DEF UnknownType, Start, SetupOver
  <1> QED
    BY <1>2, <1>3, <1>4 DEF Setting

\* The entries stay as they were registered.
LEMMA ShapeStep ==
  ASSUME Shape, [Next]_vars
  PROVE  Shape'
  <1>1. CASE UNCHANGED transmissions_
    BY <1>1 DEF Shape
  <1>2. ASSUME NEW t \in Transmissible, transmissions_' = Append(transmissions_, t),
               ToSet(t.joints) \subseteq Joints, ToSet(t.actuators) \subseteq Listed
        PROVE  Shape'
    <2>1. transmissions_' \in Seq(Transmissible)
      BY <1>2 DEF Shape
    <2>2. ASSUME NEW k \in DOMAIN transmissions_'
          PROVE  /\ ToSet(transmissions_'[k].joints) \subseteq Joints
                 /\ ToSet(transmissions_'[k].actuators) \subseteq Listed
      <3>1. transmissions_'[k] = t \/ (k \in DOMAIN transmissions_
                                       /\ transmissions_'[k] = transmissions_[k])
        BY <1>2, <2>2 DEF Shape
      <3> QED
        BY <1>2, <3>1 DEF Shape
    <2> QED
      BY <2>1, <2>2 DEF Shape
  <1>3. UNCHANGED transmissions_ \/ Setting
    BY DEF Next, Setting, CallbackCache, TransformJointToActuator, CallbackSend, Move, PublishBegin,
       Refresh, TransformActuatorToJoint, Publish, vars
  <1> QED
    BY <1>1, <1>2, <1>3, SettingIsEarly

\* What runs runs after Start, and Start is not undone.
LEMMA LifeStep ==
  ASSUME Life, [Next]_vars
  PROVE  Life'
  <1>1. CASE Setting
    BY <1>1, SettingIsEarly DEF Life, cbVars, pubVars
  <1>2. CASE \E m \in Messages : CallbackCache(m)
    BY <1>2 DEF CallbackCache, Life, setupVars, pubVars
  <1>3. CASE TransformJointToActuator \/ (\E a \in Listed : CallbackSend(a) \/ Move(a))
    BY <1>3 DEF TransformJointToActuator, CallbackSend, Move, Life, setupVars, cbVars, pubVars
  <1>4. CASE PublishBegin \/ Refresh \/ TransformActuatorToJoint \/ Publish
    BY <1>4 DEF PublishBegin, Refresh, TransformActuatorToJoint, Publish, Life, setupVars, cbVars
  <1>5. CASE UNCHANGED vars
    BY <1>5 DEF vars, Life, setupVars, cbVars, pubVars
  <1> QED
    BY <1>1, <1>2, <1>3, <1>4, <1>5 DEF Next, Setting

\* The frames follow the commands (dcu_driver_module.cc: JointCmdCallback).
LEMMA SendingStep ==
  ASSUME Life, Sending, [Next]_vars
  PROVE  Sending'
  <1>1. CASE Setting
    <2>1. UNCHANGED <<joint_cmd, frame, cbPc, cbLeft, commands, actuator_cmd>>
      BY <1>1, SettingIsEarly DEF dataVars, deviceVars, cbVars
    <2> QED
      BY <2>1 DEF Sending
  <1>2. ASSUME NEW m \in Messages, CallbackCache(m)
        PROVE  Sending'
    <2>1. joint_cmd' \in [Joints -> Cmd]
      BY <1>2, DataAssumption DEF CallbackCache, Sending
    <2> QED
      BY <1>2, <2>1 DEF CallbackCache, Sending, deviceVars
  <1>3. CASE TransformJointToActuator
    BY <1>3 DEF TransformJointToActuator, Sending, deviceVars
  <1>4. ASSUME NEW a \in Listed, CallbackSend(a)
        PROVE  Sending'
    <2>1. /\ frame' = [frame EXCEPT ![a] = SetMitCmd(actuator_cmd[a])]
          /\ cbLeft' = cbLeft \ {a} /\ cbPc = "send"
          /\ cbPc' = IF cbLeft = {a} THEN "idle" ELSE "send"
          /\ UNCHANGED <<joint_cmd, actuator_cmd, commands>>
      BY <1>4 DEF CallbackSend, dataVars
    <2>2. DOMAIN frame' = Listed /\ (cbPc' # "send" => cbLeft' = {})
      BY <2>1 DEF Sending
    <2>3. ASSUME commands' > 0, NEW b \in Listed \ cbLeft'
          PROVE  frame'[b] = SetMitCmd(actuator_cmd'[b])
      BY <2>1, <2>3 DEF Sending
    <2> QED
      BY <2>1, <2>2, <2>3 DEF Sending
  <1>5. CASE \/ \E a \in Listed : Move(a)
             \/ PublishBegin \/ Refresh \/ TransformActuatorToJoint \/ Publish \/ UNCHANGED vars
    <2>1. UNCHANGED <<joint_cmd, frame, cbPc, cbLeft, commands, actuator_cmd>>
      BY <1>5 DEF Move, PublishBegin, Refresh, TransformActuatorToJoint, Publish, vars,
         dataVars, deviceVars, cbVars
    <2> QED
      BY <2>1 DEF Sending
  <1> QED
    BY <1>1, <1>2, <1>3, <1>4, <1>5 DEF Next, Setting

\* The transmission of an end that no other has is the one that writes it.
LEMMA OnlyWriter ==
  ASSUME Shape, NEW k \in DOMAIN transmissions_, AloneIn(transmissions_, k)
  PROVE  LET t == transmissions_[k]
         IN  /\ t \in Transmissible /\ (Pair(t) => Apart(t))
             /\ \A i \in DOMAIN t.joints :
                  t.joints[i] \in Joints /\ MovedBy(t.joints[i]) = {k}
             /\ \A n \in DOMAIN t.actuators :
                  t.actuators[n] \in Listed /\ DrivenBy(t.actuators[n]) = {k}
             /\ LastOf({k}) = t
  <1>1. PICK t \in Transmissible : t = transmissions_[k]
    BY DEF Shape
  <1>2. Pair(t) => Apart(t)
    <2>1. ASSUME Pair(t) PROVE Apart(t)
      <3>1. DOMAIN t.joints = 1..2 /\ DOMAIN t.actuators = 1..2
        BY <2>1, Ends
      <3> QED
        BY <1>1, <3>1 DEF AloneIn, Apart
    <2> QED
      BY <2>1
  <1>3. ASSUME NEW i \in DOMAIN t.joints
        PROVE  t.joints[i] \in Joints /\ MovedBy(t.joints[i]) = {k}
    <2>1. t.joints[i] \in ToSet(t.joints)
      BY DEF ToSet
    <2>2. ASSUME NEW n \in DOMAIN transmissions_, t.joints[i] \in ToSet(transmissions_[n].joints)
          PROVE  n = k
      BY <1>1, <2>2 DEF ToSet, AloneIn
    <2> QED
      BY <1>1, <2>1, <2>2 DEF MovedBy, Shape
  <1>4. ASSUME NEW n \in DOMAIN t.actuators
        PROVE  t.actuators[n] \in Listed /\ DrivenBy(t.actuators[n]) = {k}
    <2>1. t.actuators[n] \in ToSet(t.actuators)
      BY DEF ToSet
    <2>2. ASSUME NEW m \in DOMAIN transmissions_,
                 t.actuators[n] \in ToSet(transmissions_[m].actuators)
          PROVE  m = k
      BY <1>1, <2>2 DEF ToSet, AloneIn
    <2> QED
      BY <1>1, <2>1, <2>2 DEF DrivenBy, Shape
  <1>5. LastOf({k}) = t
    <2>1. k \in Nat
      BY DEF Shape
    <2>2. Max({k}) = k
      BY <2>1 DEF Max
    <2> QED
      BY <1>1, <2>2 DEF LastOf
  <1> QED
    BY <1>1, <1>2, <1>3, <1>4, <1>5

\* TransformJointToActuator leaves every actuator with what its transmission aims
\* at; sending, moving and publishing change none of it.
LEMMA OrderedStep ==
  ASSUME Shape, Life, Ordered, [Next]_vars
  PROVE  Ordered'
  <1>1. CASE Setting
    <2>1. commands' = 0
      BY <1>1, SettingIsEarly DEF Life, cbVars
    <2> QED
      BY <2>1 DEF Ordered
  <1>2. CASE \E m \in Messages : CallbackCache(m)
    BY <1>2 DEF CallbackCache, Ordered
  <1>3. CASE TransformJointToActuator
    <2>1. /\ actuator_cmd' = [a \in Listed |-> IF DrivenBy(a) = {} THEN actuator_cmd[a]
                                               ELSE ToActuator(LastOf(DrivenBy(a)))[a]]
          /\ used' = [k \in DOMAIN transmissions_ |-> Pose(transmissions_[k])]
          /\ transmissions_' = transmissions_ /\ joint_cmd' = joint_cmd
      BY <1>3 DEF TransformJointToActuator
    <2>2. ASSUME NEW k \in DOMAIN transmissions_, AloneIn(transmissions_, k),
                 NEW i \in DOMAIN transmissions_[k].joints
          PROVE  actuator_cmd'[transmissions_[k].actuators[Drive(transmissions_[k], i)]] =
                   Order(transmissions_[k], used'[k], joint_cmd, i)
      <3>1. PICK t \in Transmissible : t = transmissions_[k]
        BY <2>2, OnlyWriter
      <3>2. PICK a : a = t.actuators[Drive(t, i)]
        OBVIOUS
      <3>3. Drive(t, i) \in DOMAIN t.actuators
        BY <2>2, <3>1, DriveOf
      <3>4. a \in Listed /\ DrivenBy(a) = {k} /\ LastOf({k}) = t /\ (Pair(t) => Apart(t))
        BY <2>2, <3>1, <3>2, <3>3, OnlyWriter
      <3>5. DrivenBy(a) # {}
        BY <3>4
      <3>6. actuator_cmd'[a] = ToActuator(t)[a]
        BY <2>1, <3>4, <3>5
      <3>7. ToActuator(t)[a] = Order(t, Pose(t), joint_cmd, i)
        BY <2>2, <3>1, <3>2, <3>4, ToActuatorOrder
      <3>8. used'[k] = Pose(t)
        BY <2>1, <2>2, <3>1
      <3> QED
        BY <3>1, <3>2, <3>6, <3>7, <3>8
    <2> QED
      BY <2>1, <2>2 DEF Ordered
  <1>4. CASE \/ \E a \in Listed : CallbackSend(a) \/ Move(a)
             \/ PublishBegin \/ Refresh \/ TransformActuatorToJoint \/ Publish \/ UNCHANGED vars
    <2>1. /\ UNCHANGED <<transmissions_, joint_cmd, actuator_cmd, used, commands>>
          /\ cbPc # "transform" => cbPc' # "transform"
          /\ cbPc = "transform" => cbPc' = "transform"
      BY <1>4 DEF CallbackSend, Move, PublishBegin, Refresh, TransformActuatorToJoint, Publish,
         vars, dataVars, cbVars
    <2> QED
      BY <2>1 DEF Ordered
  <1> QED
    BY <1>1, <1>2, <1>3, <1>4 DEF Next, Setting

\* TransformActuatorToJoint leaves every joint with what is seen of it, and until
\* the message is out no reading is taken (dcu_driver_module.cc: PublishLoop).
LEMMA PublishedStep ==
  ASSUME Shape, Life, Published, [Next]_vars
  PROVE  Published'
  <1>1. CASE Setting
    <2>1. pubPc' = "begin"
      BY <1>1, SettingIsEarly DEF Life, pubVars
    <2> QED
      BY <2>1 DEF Published
  <1>2. CASE TransformActuatorToJoint
    <2>1. /\ joint_state' = [j \in Joints |-> IF MovedBy(j) = {} THEN joint_state[j]
                                              ELSE ToJoint(LastOf(MovedBy(j)))[j]]
          /\ transmissions_' = transmissions_ /\ actuator_state' = actuator_state
      BY <1>2 DEF TransformActuatorToJoint
    <2>2. ASSUME NEW k \in DOMAIN transmissions_, AloneIn(transmissions_, k),
                 NEW i \in DOMAIN transmissions_[k].joints
          PROVE  joint_state'[transmissions_[k].joints[i]] =
                   Sight(transmissions_[k], actuator_state, i)
      <3>1. PICK t \in Transmissible : t = transmissions_[k]
        BY <2>2, OnlyWriter
      <3>2. PICK j : j = t.joints[i]
        OBVIOUS
      <3>3. j \in Joints /\ MovedBy(j) = {k} /\ LastOf({k}) = t /\ (Pair(t) => Apart(t))
        BY <2>2, <3>1, <3>2, OnlyWriter
      <3>4. MovedBy(j) # {}
        BY <3>3
      <3>5. joint_state'[j] = ToJoint(t)[j]
        BY <2>1, <3>3, <3>4
      <3>6. ToJoint(t)[j] = Sight(t, actuator_state, i)
        BY <2>2, <3>1, <3>2, <3>3, ToJointSight
      <3> QED
        BY <3>1, <3>2, <3>5, <3>6
    <2> QED
      BY <2>1, <2>2 DEF Published
  <1>3. CASE PublishBegin \/ Refresh \/ Publish
    <2>1. pubPc' # "publish"
      BY <1>3 DEF PublishBegin, Refresh, Publish
    <2> QED
      BY <2>1 DEF Published
  <1>4. CASE \/ \E m \in Messages : CallbackCache(m)
             \/ TransformJointToActuator
             \/ \E a \in Listed : CallbackSend(a) \/ Move(a)
             \/ UNCHANGED vars
    <2>1. UNCHANGED <<transmissions_, joint_state, actuator_state, pubPc>>
      BY <1>4 DEF CallbackCache, TransformJointToActuator, CallbackSend, Move,
         vars, dataVars, pubVars
    <2> QED
      BY <2>1 DEF Published
  <1> QED
    BY <1>1, <1>2, <1>3, <1>4 DEF Next, Setting

\* The bookkeeping of the two threads holds throughout.
THEOREM DataPathInvariant == Spec => []DataInv
  <1>1. Init => DataInv
    <2> SUFFICES ASSUME Init PROVE DataInv
      OBVIOUS
    <2>1. NoCmd \in Cmd
      BY DEF NoCmd, Cmd
    <2>2. Shape
      BY DEF Init, Shape
    <2>3. Life /\ Ordered /\ Published
      BY DEF Init, Life, Ordered, Published
    <2>4. Sending
      BY <2>1 DEF Init, Sending
    <2> QED
      BY <2>2, <2>3, <2>4 DEF DataInv
  <1>2. DataInv /\ [Next]_vars => DataInv'
    BY ShapeStep, LifeStep, SendingStep, OrderedStep, PublishedStep DEF DataInv
  <1> QED
    BY <1>1, <1>2, PTL DEF Spec

\* At the moment of publishing, an actuator that has carried out its command shows
\* what is aimed at.
LEMMA DriveReached ==
  ASSUME DataInv, pubPc = "publish", cbPc = "idle", commands > 0,
         NEW k \in DOMAIN transmissions_, AloneIn(transmissions_, k),
         Covered(transmissions_[k]),
         \A a \in ToSet(transmissions_[k].actuators) : CarriedOut(a)
  PROVE  Told(transmissions_[k], used[k], joint_cmd, actuator_state)
  <1>1. PICK t \in Transmissible : t = transmissions_[k]
    BY OnlyWriter DEF DataInv
  <1>2. \A i \in DOMAIN t.joints : joint_cmd[t.joints[i]] \in Cmd
    BY <1>1, OnlyWriter DEF DataInv, Sending
  <1>3. Reaches(t, joint_cmd)
    BY <1>1, Inputs DEF Covered, Reaches
  <1>4. ASSUME NEW i \in DOMAIN t.joints
        PROVE  LET c == Order(t, used[k], joint_cmd, i)
                   s == actuator_state[t.actuators[Drive(t, i)]]
               IN  /\ InRange(c)
                   /\ s.position = GetPosition(Report(Done(c)))
                   /\ s.velocity = GetVelocity(Report(Done(c)))
                   /\ s.effort = GetEffort(Report(Done(c)))
    <2>1. PICK a, c : a = t.actuators[Drive(t, i)] /\ c = Order(t, used[k], joint_cmd, i)
      OBVIOUS
    <2>2. Drive(t, i) \in DOMAIN t.actuators
      BY DriveOf
    <2>3. a \in Listed /\ a \in ToSet(t.actuators)
      BY <1>1, <2>1, <2>2, OnlyWriter DEF DataInv, ToSet
    <2>4. actuator_cmd[a] = c
      BY <1>1, <2>1 DEF DataInv, Ordered
    <2>5. frame[a] = SetMitCmd(c)
      BY <2>3, <2>4 DEF DataInv, Sending
    <2>6. CarriedOut(a)
      BY <1>1, <2>3
    <2>7. InRange(c) /\ moved[a] = Done(c)
      BY <2>4, <2>5, <2>6 DEF CarriedOut, Done
    <2>8. "position" \in ToSet(Fields) /\ "velocity" \in ToSet(Fields) /\ "effort" \in ToSet(Fields)
      BY DEF Fields, ToSet
    <2>9. /\ Get(a, "position") = GetPosition(Report(moved[a]))
          /\ Get(a, "velocity") = GetVelocity(Report(moved[a]))
          /\ Get(a, "effort") = GetEffort(Report(moved[a]))
      BY DEF Get
    <2>10. /\ actuator_state[a].position = Get(a, "position")
           /\ actuator_state[a].velocity = Get(a, "velocity")
           /\ actuator_state[a].effort = Get(a, "effort")
      BY <2>6, <2>8 DEF CarriedOut
    <2> QED
      BY <2>1, <2>7, <2>9, <2>10
  <1> QED
    BY <1>1, <1>2, <1>3, <1>4 DEF Told

\* When the poses agree, the matrix of the command is that of the reading.
LEMMA PoseIsSeen ==
  ASSUME NEW t \in Transmissible, IsAnkle(t), NEW p, p = Pose(t),
         joint_state[t.joints[1]] = Sight(t, actuator_state, 1)
  PROVE  AtPose(t, p, actuator_state)
  <1>1. Pair(t)
    BY DEF IsAnkle, Pair
  <1>2. DOMAIN t.joints = 1..2 /\ DOMAIN t.actuators = 1..2
    BY <1>1, Ends
  <1>3. p[1][1] = joint_state[t.joints[1]].position
    BY <1>2 DEF Pose
  <1>4. \A n \in 1..2 : p[2][n] = actuator_state[t.actuators[n]].position
    BY <1>2 DEF Pose
  <1>5. Sight(t, actuator_state, 1).position = SeenPosition(t, actuator_state)[1]
    BY <1>1 DEF Sight, Seen
  <1> QED
    BY <1>3, <1>4, <1>5 DEF AtPose

\* TC-DCU-01, -05 and -07 for every configuration: the joints are published where
\* they were told to be, through the transmissions of every type, the MIT code and
\* the two threads (JointFollows).
THEOREM JointsFollow == Spec => []JointFollows
  <1>1. DataInv => JointFollows
    <2> SUFFICES ASSUME DataInv, pubPc = "publish", cbPc = "idle", commands > 0,
                        NEW k \in DOMAIN transmissions_,
                        Alone(k), Covered(transmissions_[k]),
                        \A a \in ToSet(transmissions_[k].actuators) : CarriedOut(a),
                        NEW i \in DOMAIN transmissions_[k].joints
                 PROVE  LET t == transmissions_[k]
                            Same(f) == joint_state[t.joints[i]][f] = joint_cmd[t.joints[i]][f]
                            SamePose == IsAnkle(t) => used[k] = Pose(t)
                        IN  /\ Same("position")
                            /\ SamePose => Same("velocity")
                            /\ (SamePose /\ (t.type \in {"Simple", "RightAnkle"}
                                             \/ (i = 1 /\ ~IsAnkle(t))))
                                 => Same("effort")
      BY DEF JointFollows
    <2>1. PICK t \in Transmissible : t = transmissions_[k]
      BY DEF DataInv, Shape
    <2>2. AloneIn(transmissions_, k)
      BY DEF Alone, AloneIn
    <2>3. Told(t, used[k], joint_cmd, actuator_state)
      BY <2>1, <2>2, DriveReached
    <2>4. \A n \in DOMAIN t.joints : joint_state[t.joints[n]] = Sight(t, actuator_state, n)
      BY <2>1, <2>2 DEF DataInv, Published
    <2>5. AsTold(t, used[k], actuator_state, i, joint_state[t.joints[i]], joint_cmd[t.joints[i]])
      BY <2>1, <2>3, <2>4, Follows
    <2>6. ASSUME IsAnkle(t), used[k] = Pose(t)
          PROVE  AtPose(t, used[k], actuator_state)
      <3>1. 1 \in DOMAIN t.joints
        BY <2>6, Ends
      <3> QED
        BY <2>4, <2>6, <3>1, PoseIsSeen
    <2> QED
      BY <2>1, <2>5, <2>6 DEF AsTold
  <1> QED
    BY <1>1, DataPathInvariant, PTL

-----------------------------------------------------------------------------
\* With the transmissions, the commands and the loop around it, InitDcu behaves as
\* it does alone.
THEOREM SetupImplemented == Spec => SetupSpec
  <1>1. Init => SetupInit
    BY DEF Init
  <1>2. [Next]_vars => [SetupStep]_setupVars
    BY DEF Next, Register, UnknownType, Start, CallbackCache, TransformJointToActuator,
       CallbackSend, Move, PublishBegin, Refresh, TransformActuatorToJoint, Publish, vars, SetupStep
  <1> QED
    BY <1>1, <1>2, PTL DEF Spec, SetupSpec, SetupStep

\* So the joint commands only ever go to actuators that InitDcu serves.
THEOREM DriverServes == Spec => []ServedWhenReady
  BY SetupImplemented, InitDcuServes, PTL

=============================================================================
