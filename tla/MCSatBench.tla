----------------------------- MODULE MCSatBench -----------------------------
(* An instance of SatBench for TLC: each directory has two programs, one of *)
(* them unsatisfiable, or one and a file of another kind; the program for   *)
(* the solver may be answered by an error message or flood a pipe.  A       *)
(* chunk_size of -1 stands for chunks of one, 2 keeps the range whole.      *)
EXTENDS SatBench

CONSTANTS sat, unsat

MCPasses ==
  <<Subproc, Subproc, Subproc, Subproc, "check_sat", "reset_push", "reset_push_pop">>
MCTree ==
  [root \in {"root_dir", "root_non_api_dir"} |->
     IF root = "root_dir" THEN [p \in {"a.smt2", "b.smt2"} |-> IF p = "b.smt2" THEN unsat ELSE sat]
     ELSE [p \in {"c.smt2", "d.txt"} |-> IF p = "c.smt2" THEN unsat ELSE sat]]
MCSmt2 == {"a.smt2", "b.smt2", "c.smt2"}
MCAnswer == [p \in {sat, unsat} |-> IF p = sat THEN "True" ELSE "False"]
MCSays == [p \in {sat, unsat} |-> IF p = sat THEN {"sat"} ELSE {"unsat", "text"}]
MCChunkSizes == {-1, 2}
=============================================================================
