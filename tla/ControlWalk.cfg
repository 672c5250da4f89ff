SPECIFICATION Spec

CONSTANTS
  MCOnly = {"idle", "zero", "stand", "walk_leg"}
  MCJoints = {"legs", "arms"}
  States <- MCOnly
  Topics <- MCTopics
  TopicStates <- MCTopicStates
  PreStates <- MCPreStates
  InitialState = "idle"
  NoState = "none"
  Controllers <- MCControllers
  ControllerList <- MCControllerList
  Joints <- MCJoints
  JointsOf <- MCJointsOf
  KeepControllers <- MCKeep
  PlanControllers <- MCPlan
  RlControllers <- MCRl
  Poses = {"p0"}
  ZeroPose = "p0"
  Waypoints <- MCWaypoints
  NoPose = "nopose"
  RampSteps = 1
  Decimation = 3
  Interval = 1

INVARIANTS TypeOK FrameOfOneMode RlStaleBounded
