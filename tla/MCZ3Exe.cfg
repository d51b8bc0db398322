CONSTANTS
  easy = easy
  hard = hard
  wrong = wrong
  silent = silent
  odd = odd
  double = double
  models = models
  warns = warns
  Texts = {easy, hard, wrong, silent, odd, double, models, warns}
  Scripts <- MCScripts
  TextSize = 3
  Capacity = 2
  MaxCalls = 3
SPECIFICATION FairSpec
INVARIANTS TypeOK VerdictFits NothingLeft
PROPERTIES CallEnds
CHECK_DEADLOCK FALSE
