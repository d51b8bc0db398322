CONSTANTS
  ImmBits = 4
  Bytes = 2
  Codes <- MCCodes
  Bases <- MCBases
  Numbers <- MCNumbers
  Sizes = {0, 1, 2, 3, 4, 5}
SPECIFICATION Spec
INVARIANTS TypeOK SizeFits PrintsTarget HeapReady FreesOwn
CHECK_DEADLOCK FALSE
