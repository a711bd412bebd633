SPECIFICATION FairSpec
CONSTANTS
  Worker = {a, b}
  Owner = o
  MaxClosures = 3
INVARIANTS TypeOK SafeDestruction DestructorWakesUp
PROPERTIES FlushWaits DestructorReturns
CHECK_DEADLOCK FALSE
