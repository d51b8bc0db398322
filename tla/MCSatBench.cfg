CONSTANTS
  Main = main
  Helpers = {h1}
  Tree <- MCTree
  Smt2 <- MCSmt2
  ChunkSizes <- MCChunkSizes
  Passes <- MCPasses
  sat = sat
  unsat = unsat
  Programs = {sat, unsat}
  Malformed = {}
  Answer <- MCAnswer
  Says <- MCSays
  Flooding = {unsat}
SPECIFICATION FairSpec
INVARIANTS TypeOK
PROPERTIES KeepsInterface JudgesEach PassEnds
CHECK_DEADLOCK FALSE
