CONSTANTS
  Workers = {w1, w2}
  MaxCalls = 2
  MaxTime = 1
  MaxPasses = 2
SPECIFICATION FairSpec
INVARIANTS TypeOK StackAgrees NoCallLost QuietTimesExact WallTimeBounded
PROPERTIES Accumulates FinishReturns
CHECK_DEADLOCK FALSE
