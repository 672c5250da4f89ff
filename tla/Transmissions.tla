--------------------------- MODULE Transmissions ---------------------------
(***************************************************************************)
(* The data spaces of the DCU driver: InitTransmission binds joints to     *)
(* actuators, JointCmdCallback turns joint commands into actuator commands *)
(* and PublishLoop actuator readings into joint states                     *)
(* (dcu_driver_module.cc, transmission.h, ankle_, wrist_ and               *)
(* lumbar_transmission.cc).  rw_mtx_ covers the two transformations only,  *)
(* each of which is one step here; the readings are stored outside it.     *)
(*                                                                         *)
(* Values are integers.  The ankle's trigonometry is replaced by Motors    *)
(* and Jacobian below: an invertible map, and an invertible matrix that    *)
(* depends on the measured pose.  What the code does around them (the      *)
(* table, the mirroring of the left ankle, the matrix algebra, who is      *)
(* read) is kept.                                                          *)
(***************************************************************************)
EXTENDS DriverSetup, MitCodec

CONSTANTS
  Joints,
  Transmissible,  \* the transmission entries a configuration may have
  Messages,       \* joint commands: functions on names, some not in Joints
  MaxMessages,    \* bound on the joint commands of a behaviour
  MaxBound,       \* bound on the joints that are bound
  Qm5Angle,       \* QM5_ANGLE_MIN and _MAX, QM6_ANGLE_MIN and _MAX in table steps
  Qm6Angle

\* What the configuration and the messages are made of: a transmission has its
\* ends, and the directions of the shipped files are 1 and -1.
Cmd == [position : Int, velocity : Int, effort : Int, kp : Int, kd : Int]

Pair(t) == t.type \in {"Lumbar", "LeftWrist", "RightWrist", "LeftAnkle", "RightAnkle"}

ASSUME DataAssumption ==
  /\ \A t \in Transmissible :
       /\ t.type = "Simple" \/ Pair(t)
       /\ LET ends == IF Pair(t) THEN 1..2 ELSE 1..1
          IN  /\ DOMAIN t.joints = ends /\ DOMAIN t.actuators = ends
              /\ t.directions \in [ends -> {1, -1}]
  /\ \A m \in Messages : \A j \in DOMAIN m : m[j] \in Cmd
  /\ Qm5Angle \in Int \X Int /\ Qm6Angle \in Int \X Int

VARIABLES
  transmissions_,
  joint_cmd, joint_state,        \* joint_data_space_
  actuator_cmd, actuator_state,  \* actuator_data_space_
  frame,       \* the bytes last sent to an actuator
  moved,       \* what the actuator does
  cbPc,        \* where JointCmdCallback is
  cbLeft,      \* the actuators it has still to command
  pubPc,       \* where PublishLoop is
  pubTodo,     \* the readings it has still to take
  commands,    \* counts the joint commands
  used         \* history: the poses TransformJointToActuator has read

dataVars == <<joint_cmd, joint_state, actuator_cmd, actuator_state>>
deviceVars == <<frame, moved>>
cbVars == <<cbPc, cbLeft, commands, used>>
pubVars == <<pubPc, pubTodo>>
vars == <<setupVars, transmissions_, dataVars, deviceVars, cbVars, pubVars>>

Fields == <<"effort", "velocity", "position">>
Rest   == [position |-> 0, velocity |-> 0, effort |-> 0]
NoCmd  == [position |-> 0, velocity |-> 0, effort |-> 0, kp |-> 0, kd |-> 0]

\* InitDcu has sent every actuator the motionless command.
Init ==
  /\ SetupInit
  /\ transmissions_ = << >>
  /\ joint_cmd = [j \in Joints |-> NoCmd] /\ joint_state = [j \in Joints |-> Rest]
  /\ actuator_cmd = [a \in Listed |-> NoCmd] /\ actuator_state = [a \in Listed |-> Rest]
  /\ frame = [a \in Listed |-> SetMitCmd(NoCmd)]
  /\ moved = [a \in Listed |-> Rest]
  /\ cbPc = "idle" /\ cbLeft = {} /\ commands = 0 /\ used = << >>
  /\ pubPc = "begin" /\ pubTodo = << >>

-----------------------------------------------------------------------------
(* InitTransmission.  An entry is                                          *)
(* [type, joints, actuators, directions], with the joints <<pitch, roll>>  *)
(* and the actuators <<left, right>>, or one of each.                      *)

BoundJoints == FlattenSeq([k \in DOMAIN transmissions_ |-> transmissions_[k].joints])

\* An entry that names an unknown joint or actuator is ignored.
Register(t) ==
  /\ pc = "transmissions"
  /\ Len(BoundJoints) + Len(t.joints) <= MaxBound
  /\ IF ToSet(t.joints) \subseteq Joints /\ ToSet(t.actuators) \subseteq Listed
     THEN transmissions_' = Append(transmissions_, t)
     ELSE UNCHANGED transmissions_
  /\ UNCHANGED <<setupVars, dataVars, deviceVars, cbVars, pubVars>>

\* A type that is not supported throws, with the actuators already enabled.
UnknownType ==
  /\ SetupOver("failed")
  /\ UNCHANGED <<transmissions_, dataVars, deviceVars, cbVars, pubVars>>

\* Initialize has returned and Start begins PublishLoop.
Start ==
  /\ SetupOver("running")
  /\ UNCHANGED <<transmissions_, dataVars, deviceVars, cbVars, pubVars>>

-----------------------------------------------------------------------------
(* The ankle.  q is <<pitch, roll>> = <<q5, q6>>, qm is <<qm5, qm6>>.      *)

\* The inverse kinematics of the right ankle, and the left ankle's, which has
\* the y offsets and the signs of acos and of the mounting angle the other way.
Motors(q) == <<q[1] + q[2], q[1] + 2 * q[2]>>
LeftMotors(q) == LET m == Motors(<<q[1], -q[2]>>) IN <<-m[1], -m[2]>>

\* actuator_to_joint_data_ has an entry for every step but the last of a range;
\* the cell of a reading needs the entry at its upper corner too.
Entries(range) == 1..(range[2] - range[1])
InTable(x, range) == {x - range[1] + 1, x - range[1] + 2} \subseteq Entries(range)

\* The joints of a reading on a table point; outside the table they are 0.
Lookup(qm) ==
  IF InTable(qm[1], Qm5Angle) /\ InTable(qm[2], Qm6Angle)
  THEN <<2 * qm[1] - qm[2], qm[2] - qm[1]>>
  ELSE <<0, 0>>

\* A slip: the roll angle of the table is not mirrored back.
LeftLookupUnmirrored(qm) == Lookup(<<-qm[1], -qm[2]>>)

\* The table is the right ankle's; the left one mirrors the reading and the roll.
LeftLookup(qm) == LET q == Lookup(<<-qm[1], -qm[2]>>) IN <<q[1], -q[2]>>

\* f1a, f1b, f2a, f2b of the measured pose.
Jacobian(q, qm) == <<1, q[1] + qm[2], 0, 1>>
LeftJacobian(q, qm) == LET f == Jacobian(q, qm) IN <<f[1], f[2], -f[3], -f[4]>>

Det(f) == f[4] * f[1] - f[2] * f[3]

\* Efforts and velocities through the matrix f, and back.  Dividing by a
\* determinant of 1 or -1 is multiplying by it.
EffortToJoint(f, x) == <<f[1] * x[1] + f[2] * x[2], f[3] * x[1] + f[4] * x[2]>>
EffortToMotor(f, x) ==
  <<(f[4] * x[1] - f[2] * x[2]) * Det(f), (f[1] * x[2] - f[3] * x[1]) * Det(f)>>
VelocityToJoint(f, x) ==
  <<(f[4] * x[1] - f[3] * x[2]) * Det(f), (f[1] * x[2] - f[2] * x[1]) * Det(f)>>
VelocityToMotor(f, x) == <<f[1] * x[1] + f[3] * x[2], f[2] * x[1] + f[4] * x[2]>>

-----------------------------------------------------------------------------
(* One transmission.                                                       *)

\* The actuators of qm5 and qm6: right and left, on the right ankle the reverse.
Drives(t) == IF t.type = "RightAnkle" THEN <<1, 2>> ELSE <<2, 1>>

\* A reading of the k-th actuator, in the direction of the transmission.
Reading(t, k, f) == actuator_state[t.actuators[k]][f] * t.directions[k]
Readings(t, f)   == [i \in 1..2 |-> Reading(t, Drives(t)[i], f)]
JointPair(t, f)  == [i \in 1..2 |-> joint_state[t.joints[i]][f]]
Desired(t, f)    == [i \in 1..2 |-> joint_cmd[t.joints[i]][f]]

\* The joints' states from positions, velocities and efforts.
States(t, q, qd, tau) ==
  [j \in ToSet(t.joints) |->
     LET i == CHOOSE n \in 1..2 : t.joints[n] = j /\ \A m \in 1..2 : t.joints[m] = j => m <= n
     IN  [position |-> q[i], velocity |-> qd[i], effort |-> tau[i]]]

\* The actuators' commands from what is desired of the drives.
Orders(t, q, qd, tau) ==
  [a \in ToSet(t.actuators) |->
     LET i == CHOOSE n \in 1..2 : t.actuators[Drives(t)[n]] = a
                                  /\ \A m \in 1..2 : t.actuators[Drives(t)[m]] = a => m <= n
         d == t.directions[Drives(t)[i]]
     IN  [position |-> q[i] * d, velocity |-> qd[i] * d, effort |-> tau[i] * d,
          kp |-> joint_cmd[t.joints[i]].kp, kd |-> joint_cmd[t.joints[i]].kd]]

SimpleToJoint(t) ==
  [j \in {t.joints[1]} |-> [position |-> Reading(t, 1, "position"),
                             velocity |-> Reading(t, 1, "velocity"),
                             effort |-> Reading(t, 1, "effort")]]

SimpleToActuator(t) ==
  LET c == joint_cmd[t.joints[1]]
      d == t.directions[1]
  IN  [a \in {t.actuators[1]} |->
        [position |-> c.position * d, velocity |-> c.velocity * d, effort |-> c.effort * d,
         kp |-> c.kp, kd |-> c.kd]]

\* The wrists and the lumbar pass the values on; the effort of roll is its
\* actuator's velocity.
LumbarToJoint(t) ==
  States(t, Readings(t, "position"), Readings(t, "velocity"),
         <<Readings(t, "effort")[1], Readings(t, "velocity")[2]>>)
LumbarToActuator(t) ==
  Orders(t, Desired(t, "position"), Desired(t, "velocity"), Desired(t, "effort"))
LeftWristToJoint(t)     == LumbarToJoint(t)
LeftWristToActuator(t)  == LumbarToActuator(t)
RightWristToJoint(t)    == LumbarToJoint(t)
RightWristToActuator(t) == LumbarToActuator(t)

\* The left ankle, too, takes a velocity for the effort of qm6.
LeftAnkleToJoint(t) ==
  LET qm == Readings(t, "position")
      q  == LeftLookup(qm)
      f  == LeftJacobian(q, qm)
  IN  States(t, q, VelocityToJoint(f, Readings(t, "velocity")),
             EffortToJoint(f, <<Readings(t, "effort")[1], Readings(t, "velocity")[2]>>))

RightAnkleToJoint(t) ==
  LET qm == Readings(t, "position")
      q  == Lookup(qm)
      f  == Jacobian(q, qm)
  IN  States(t, q, VelocityToJoint(f, Readings(t, "velocity")),
             EffortToJoint(f, Readings(t, "effort")))

\* The matrix is the one of the joint states of PublishLoop's last
\* transformation and of the readings it has stored since.
LeftAnkleToActuator(t) ==
  LET f == LeftJacobian(JointPair(t, "position"), Readings(t, "position"))
  IN  Orders(t, LeftMotors(Desired(t, "position")), VelocityToMotor(f, Desired(t, "velocity")),
             EffortToMotor(f, Desired(t, "effort")))

RightAnkleToActuator(t) ==
  LET f == Jacobian(JointPair(t, "position"), Readings(t, "position"))
  IN  Orders(t, Motors(Desired(t, "position")), VelocityToMotor(f, Desired(t, "velocity")),
             EffortToMotor(f, Desired(t, "effort")))

ToJoint(t) ==
  CASE t.type = "Simple"     -> SimpleToJoint(t)
    [] t.type = "Lumbar"     -> LumbarToJoint(t)
    [] t.type = "LeftWrist"  -> LeftWristToJoint(t)
    [] t.type = "RightWrist" -> RightWristToJoint(t)
    [] t.type = "LeftAnkle"  -> LeftAnkleToJoint(t)
    [] t.type = "RightAnkle" -> RightAnkleToJoint(t)

ToActuator(t) ==
  CASE t.type = "Simple"     -> SimpleToActuator(t)
    [] t.type = "Lumbar"     -> LumbarToActuator(t)
    [] t.type = "LeftWrist"  -> LeftWristToActuator(t)
    [] t.type = "RightWrist" -> RightWristToActuator(t)
    [] t.type = "LeftAnkle"  -> LeftAnkleToActuator(t)
    [] t.type = "RightAnkle" -> RightAnkleToActuator(t)

\* The transmissions run one after the other and none reads what another writes:
\* of those that have an end in common the last one stays.
LastOf(trans) == transmissions_[Max(trans)]
DrivenBy(a) == {k \in DOMAIN transmissions_ : a \in ToSet(transmissions_[k].actuators)}
MovedBy(j)  == {k \in DOMAIN transmissions_ : j \in ToSet(transmissions_[k].joints)}

-----------------------------------------------------------------------------
(* JointCmdCallback: the message is cached, the transmissions run in the   *)
(* order they were registered, every actuator gets its command.            *)

CallbackCache(m) ==
  /\ pc = "running" /\ cbPc = "idle" /\ commands < MaxMessages
  /\ joint_cmd' = [j \in Joints |-> IF j \in DOMAIN m THEN m[j] ELSE joint_cmd[j]]
  /\ commands' = commands + 1
  /\ cbPc' = "transform"
  /\ UNCHANGED <<setupVars, transmissions_, joint_state, actuator_cmd, actuator_state,
                 deviceVars, cbLeft, used, pubVars>>

\* What a transmission reads of the measured pose.
Pose(t) ==
  <<[i \in DOMAIN t.joints |-> joint_state[t.joints[i]].position],
    [i \in DOMAIN t.actuators |-> actuator_state[t.actuators[i]].position]>>

TransformJointToActuator ==
  /\ cbPc = "transform"
  /\ actuator_cmd' = [a \in Listed |-> IF DrivenBy(a) = {} THEN actuator_cmd[a]
                                       ELSE ToActuator(LastOf(DrivenBy(a)))[a]]
  /\ used' = [k \in DOMAIN transmissions_ |-> Pose(transmissions_[k])]
  /\ cbPc' = "send" /\ cbLeft' = Listed
  /\ UNCHANGED <<setupVars, transmissions_, joint_cmd, joint_state, actuator_state,
                 deviceVars, commands, pubVars>>

CallbackSend(a) ==
  /\ cbPc = "send" /\ a \in cbLeft
  /\ frame' = [frame EXCEPT ![a] = SetMitCmd(actuator_cmd[a])]
  /\ cbLeft' = cbLeft \ {a}
  /\ cbPc' = IF cbLeft = {a} THEN "idle" ELSE "send"
  /\ UNCHANGED <<setupVars, transmissions_, dataVars, moved, commands, used, pubVars>>

\* The bus carries the frame, and the actuator does what it is told.  An L28
\* takes the position only.
Move(a) ==
  /\ pc = "running" /\ OnBus(actuator_dcu_map_[a])
  /\ moved' = [moved EXCEPT ![a] =
       IF actuator_map_[a].type = "POWER_FLOW_R"
       THEN Commanded(frame[a])
       ELSE [Rest EXCEPT !.position = Commanded(frame[a]).position]]
  /\ UNCHANGED <<setupVars, transmissions_, dataVars, frame, cbVars, pubVars>>

-----------------------------------------------------------------------------
(* PublishLoop.                                                            *)

\* GetEffort, GetVelocity, GetPosition.
Get(a, f) ==
  CASE f = "effort"   -> GetEffort(Report(moved[a]))
    [] f = "velocity" -> GetVelocity(Report(moved[a]))
    [] f = "position" -> GetPosition(Report(moved[a]))

\* The actuators come in the order of an unordered map.
PublishBegin ==
  /\ pc = "running" /\ pubPc = "begin"
  /\ \E order \in SetToSeqs(Listed) :
       pubTodo' = [n \in 1..(3 * Len(order)) |->
                     <<order[(n + 2) \div 3], Fields[1 + ((n - 1) % 3)]>>]
  /\ pubPc' = "refresh"
  /\ UNCHANGED <<setupVars, transmissions_, dataVars, deviceVars, cbVars>>

\* One reading, outside rw_mtx_.
Refresh ==
  /\ pubPc = "refresh"
  /\ LET a == Head(pubTodo)[1] f == Head(pubTodo)[2]
     IN  actuator_state' = [actuator_state EXCEPT ![a][f] = Get(a, f)]
  /\ pubTodo' = Tail(pubTodo)
  /\ pubPc' = IF Len(pubTodo) = 1 THEN "transform" ELSE "refresh"
  /\ UNCHANGED <<setupVars, transmissions_, joint_cmd, joint_state, actuator_cmd,
                 deviceVars, cbVars>>

TransformActuatorToJoint ==
  /\ pubPc = "transform"
  /\ joint_state' = [j \in Joints |-> IF MovedBy(j) = {} THEN joint_state[j]
                                     ELSE ToJoint(LastOf(MovedBy(j)))[j]]
  /\ pubPc' = "publish"
  /\ UNCHANGED <<setupVars, transmissions_, joint_cmd, actuator_cmd, actuator_state,
                 deviceVars, cbVars, pubTodo>>

\* The message is the joint states; the thread then sleeps.
Publish ==
  /\ pubPc = "publish"
  /\ pubPc' = "begin"
  /\ UNCHANGED <<setupVars, transmissions_, dataVars, deviceVars, cbVars, pubTodo>>

-----------------------------------------------------------------------------
Next ==
  \/ SetupNext /\ UNCHANGED <<transmissions_, dataVars, deviceVars, cbVars, pubVars>>
  \/ \E t \in Transmissible : Register(t)
  \/ UnknownType
  \/ Start
  \/ \E m \in Messages : CallbackCache(m)
  \/ TransformJointToActuator
  \/ \E a \in Listed : CallbackSend(a) \/ Move(a)
  \/ PublishBegin \/ Refresh \/ TransformActuatorToJoint \/ Publish

Spec == Init /\ [][Next]_vars

-----------------------------------------------------------------------------
(* Properties.                                                             *)

\* No other transmission, and no other end of this one, has its joints or
\* actuators.
Alone(k) ==
  LET t == transmissions_[k]
  IN  \A n \in DOMAIN transmissions_ :
        LET u == transmissions_[n]
        IN  /\ \A i \in DOMAIN t.joints, m \in DOMAIN u.joints :
                 t.joints[i] = u.joints[m] => n = k /\ m = i
            /\ \A i \in DOMAIN t.actuators, m \in DOMAIN u.actuators :
                 t.actuators[i] = u.actuators[m] => n = k /\ m = i

\* The command is within the code's range, sent, carried out and read back.
CarriedOut(a) ==
  /\ actuator_map_[a].type = "POWER_FLOW_R"
  /\ InRange(actuator_cmd[a])
  /\ moved[a] = Commanded(frame[a])
  /\ \A f \in ToSet(Fields) : actuator_state[a][f] = Get(a, f)

IsAnkle(t) == t.type \in {"LeftAnkle", "RightAnkle"}

\* The table covers what the ankle is told to do.
Covered(t) ==
  IsAnkle(t) =>
    LET q  == Desired(t, "position")
        qm == IF t.type = "LeftAnkle" THEN Motors(<<q[1], -q[2]>>) ELSE Motors(q)
    IN  InTable(qm[1], Qm5Angle) /\ InTable(qm[2], Qm6Angle)

\* TC-DCU-01, -05 and -07: when the actuators have carried out the commands of a
\* joint command, the joints are published where they were told to be and with
\* the velocity they were told to have, for every transmission, both directions,
\* and the callback and PublishLoop interleaved; the velocity of an ankle when
\* the pose its matrix was taken at is still the pose.  Efforts come back where
\* the code reads them: not for the roll of wrists and lumbar nor for the left
\* ankle (spec/bugs.md BUG-01).
JointFollows ==
  (pubPc = "publish" /\ cbPc = "idle" /\ commands > 0) =>
    \A k \in DOMAIN transmissions_ :
      LET t == transmissions_[k]
          Same(f, i) == joint_state[t.joints[i]][f] = joint_cmd[t.joints[i]][f]
          SamePose == IsAnkle(t) => used[k] = Pose(t)
      IN  (Alone(k) /\ Covered(t) /\ \A a \in ToSet(t.actuators) : CarriedOut(a)) =>
            \A i \in DOMAIN t.joints :
              /\ Same("position", i)
              /\ SamePose => Same("velocity", i)
              /\ (SamePose /\ (t.type \in {"Simple", "RightAnkle"} \/ (i = 1 /\ ~IsAnkle(t))))
                   => Same("effort", i)
=============================================================================
