SPECIFICATION FairSpec
CONSTANTS
  Interval = 12
  Bound = 2
  Window = 36
INVARIANTS OneLostBeatTolerated DeadServerShows
PROPERTIES StoppedGoesOffline
