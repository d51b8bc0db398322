CONSTANTS
  Callers = {t1, t2}
  Ctxs = {c1, c2}
  sat = sat
  unsat = unsat
  garbage = garbage
  Programs = {sat, unsat, garbage}
  Malformed = {garbage}
  Answer <- MCAnswer
SPECIFICATION Spec
SYMMETRY Symmetry
INVARIANTS TypeOK VerdictIsolated NoObjectLost ModelFits
PROPERTIES ScopesBounded
CHECK_DEADLOCK FALSE
