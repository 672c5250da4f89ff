SPECIFICATION FairSpec
CHECK_DEADLOCK FALSE

CONSTANTS
  States <- MCStates
  Topics <- MCTopics
  TopicStates <- X1TopicStates
  PreStates <- X1PreStates
  InitialState = "idle"
  NoState = "none"
  Controllers <- MCControllers
  ControllerList <- X1ControllerList
  Joints <- X1Joints
  JointsOf <- X1JointsOf
  KeepControllers = {"pd_keep"}
  PlanControllers = {"pd_plan"}
  RlControllers = {"rl_walk_leg", "rl_walk_leg_shoulder"}
  Poses = {"p0"}
  ZeroPose = "p0"
  Waypoints <- MCWaypoints
  NoPose = "nopose"
  RampSteps = 1
  Decimation = 1
  Interval = 2

  float_pubs <- X1FloatPubs
  TwistButtons = {4}
  FullScale = 1
  Bound = 1
  freq_ = 1
  Sessions <- MCSessions
  MaxQueue = 1
  MaxPlugs = 2

INVARIANT TypeOK
 
INVARIANT EveryModeCanGoIdle
PROPERTY PolicyStartsFromStand
PROPERTY IdleWins
PROPERTY CentredStops
PROPERTY JoyShutdownEnds
