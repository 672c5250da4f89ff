SPECIFICATION FairSpec

CONSTANTS
  MCOnly = {"idle", "keep"}
  MCJoints = {"waist"}
  States <- MCOnly
  Topics <- MCTopics
  TopicStates <- MCTopicStates
  PreStates <- MCPreStates
  InitialState = "idle"
  NoState = "none"
  Controllers <- MCControllers
  ControllerList <- MCControllerList
  Joints <- MCJoints
  JointsOf <- MCJointsOf
  KeepControllers <- MCKeep
  PlanControllers <- MCPlan
  RlControllers <- MCRl
  Poses = {"p0", "p1"}
  ZeroPose = "p0"
  Waypoints <- MCWaypoints
  NoPose = "nopose"
  RampSteps = 1
  Decimation = 1
  Interval = 1

PROPERTIES KeepHolds
