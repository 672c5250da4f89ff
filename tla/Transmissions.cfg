SPECIFICATION Spec
CHECK_DEADLOCK FALSE
CONSTANTS
  Dcus = {d1, d2}
  EcatIds = {e1, e2}
  Channels = {1}
  MAX_CHANNEL_DEVICES = 1
  actuator_name_list_ <- MCList
  Stray = "C"
  NoDcu = "none"
  Joints = {"pitch", "roll"}
  Transmissible <- MCTransmissible
  Messages <- MCMessages
  MaxMessages = 2
  MaxBound = 2
  Qm5Angle <- MCQm5
  Qm6Angle <- MCQm6
SYMMETRY MCSymmetry
INVARIANT ServedWhenReady
INVARIANT JointFollows
