CONSTANTS
  any = any
  fixed = fixed
  other = other
  Chars <- MCChars
  Threads = {t1, t2}
  Files = {any, fixed, other}
  Smt2 = {any, fixed}
  Disks <- MCDisks
  Written = {fixed}
  Rewrites <- MCRewrites
  MaxWrites = 1
SPECIFICATION FairSpec
INVARIANTS TypeOK PrintsFiles
PROPERTIES Ends
CHECK_DEADLOCK FALSE
