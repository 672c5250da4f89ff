SPECIFICATION JoySpec
CHECK_DEADLOCK FALSE
CONSTANTS
  float_pubs <- MCNoTriggers
  TwistButtons = {4}
  FullScale = 4
  Bound = 2
  freq_ = 2
  Sessions = {{4}}
  MaxQueue = 2
  MaxPlugs = 2
INVARIANT VelocityLimit
