SPECIFICATION FairSpec
CHECK_DEADLOCK FALSE
CONSTANTS
  hip = hip
  knee = knee
  claw = claw
  neck = neck
  ch1 = ch1
  ch2 = ch2
  ch3 = ch3
  body = body
  head = head
  NoOne = NoOne
  Everyone = Everyone
  Actuators = {hip, knee, claw, neck}
  Channels = {ch1, ch2, ch3}
  Dcus = {body, head}
  ChannelOf <- MCChannelOf
  DcuOf <- MCDcuOf
  Passive = {claw}
  actuator_name_list_ <- MCNames
  DisableOrder <- MCDisable
  enable_actuator_ = TRUE
  Polls = 2
  MaxFaults = 2
INVARIANT TypeOK
INVARIANT MotionAfterEnable
INVARIANT BroadcastCarriesCommands
INVARIANT ShutdownDisables
PROPERTY ShutdownEnds
PROPERTY ImplementsLife
