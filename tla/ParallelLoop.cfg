CONSTANTS
  Workers = {t1, t2}
  MaxIndex = 5
  MaxWanted = 3
  MaxCalls = 2
SPECIFICATION LoopFairSpec
INVARIANTS LoopTypeOK FrameAlive
PROPERTIES RunsEachOnce CallReturns
CHECK_DEADLOCK FALSE
