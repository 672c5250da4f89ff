SPECIFICATION FairSpec
CHECK_DEADLOCK FALSE

CONSTANTS
  nhistory_ = 3
  MaxState = 3
  nbody = 2
  ncam_ = 2
  MaxEvents = 3

INVARIANT TypeOK
INVARIANT CameraMatches
INVARIANT PanelFresh
INVARIANT HistoryIsLog
INVARIANT OnceStarted
PROPERTY ScrubShows
PROPERTY StartEnds
PROPERTY CommandAnswered
