SPECIFICATION FairSpec
CONSTANTS
  Horizon = 4
  MaxCap = 3
INVARIANTS TypeOK SegmentStartsFromItsState SuccessReportsTheGrid StoppedReportsWhatItReached
PROPERTIES ProgressNeverRestarts RunEnds
CHECK_DEADLOCK FALSE
