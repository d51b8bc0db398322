------------------------------ MODULE ForkJoin ------------------------------
(***************************************************************************)
(* What a parallel loop promises its caller: between Fork and Join every   *)
(* index of the call is run exactly once, no other index is run, and       *)
(* nothing runs while no call is open.                                     *)
(***************************************************************************)
EXTENDS Integers

CONSTANT Indices

VARIABLES open,   \* a call is in progress
          todo,   \* the indices of the last call that have not run
          ran     \* the indices of the last call that have run

vars == <<open, todo, ran>>

Init == ~open /\ todo = {} /\ ran = {}

Fork == /\ ~open /\ open'
        /\ ran' = {} /\ todo' \subseteq Indices

Run == /\ open
       /\ todo' \subseteq todo
       /\ ran' = ran \union (todo \ todo')
       /\ UNCHANGED open

Join == /\ open /\ todo = {}
        /\ ~open'
        /\ UNCHANGED <<todo, ran>>

Next == Fork \/ Run \/ Join

Spec == Init /\ [][Next]_vars
=============================================================================
