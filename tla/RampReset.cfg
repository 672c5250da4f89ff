SPECIFICATION Spec

CONSTANTS
  MCOnly = {"idle", "zero"}
  MCJoints = {"waist"}
  States <- MCOnly
  Topics <- MCTopics
  TopicStates <- MCTopicStates
  PreStates <- MCPreStates
  InitialState = "idle"
  NoState = "none"
  Controllers <- MCControllers
  ControllerList <- MCControllerList
  Joints <- MCJoints
  JointsOf <- MCJointsOf
  KeepControllers <- MCKeep
  PlanControllers <- MCPlan
  RlControllers <- MCRl
  Poses = {"p0"}
  ZeroPose = "p0"
  Waypoints <- MCWaypoints
  NoPose = "nopose"
  RampSteps = 3
  Decimation = 1
  Interval = 1

PROPERTY RampIsGradual
