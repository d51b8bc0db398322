------------------------------- MODULE Batch -------------------------------
(***************************************************************************)
(* What the passes over the programs promise: a pass judges each program   *)
(* of its directory once, with a verdict of the program's own, and closes  *)
(* only when all are judged.                                               *)
(***************************************************************************)
EXTENDS Naturals, Sequences

CONSTANTS Over,     \* the programs of each pass, in the order of the passes
          Fitting   \* program -> the verdicts that are right for it

VARIABLES pass,     \* passes begun
          open,     \* one is under way
          res       \* program -> its verdict in this pass, or "Uninit"

vars == <<pass, open, res>>

Init == pass = 0 /\ ~open /\ res = << >>

Open ==
  /\ ~open /\ open'
  /\ pass' = pass + 1 /\ pass' \in DOMAIN Over
  /\ res' = [p \in Over[pass'] |-> "Uninit"]

Judge(p) ==
  /\ open /\ res[p] = "Uninit"
  /\ \E v \in Fitting[p] : res' = [res EXCEPT ![p] = v]
  /\ UNCHANGED <<pass, open>>

Close ==
  /\ open /\ ~open'
  /\ \A p \in Over[pass] : res[p] \in Fitting[p]
  /\ UNCHANGED <<pass, res>>

Next == Open \/ Close \/ \E p \in DOMAIN res : Judge(p)

Spec == Init /\ [][Next]_vars
=============================================================================
