------------------------------ MODULE MCZ3Mini ------------------------------
(* An instance of Z3Mini for TLC: a satisfiable, an unsatisfiable and a    *)
(* malformed program.                                                      *)
EXTENDS Z3Mini, TLC

CONSTANTS sat, unsat, garbage

MCAnswer == [p \in Programs |-> IF p = unsat THEN "False" ELSE "True"]
Symmetry == Permutations(Ctxs) \union Permutations(Callers)
=============================================================================
