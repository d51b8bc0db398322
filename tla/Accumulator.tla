---------------------------- MODULE Accumulator ----------------------------
(***************************************************************************)
(* What a set of profiling counters promises, whatever the number of       *)
(* writers: an amount a writer owes is added to each counter exactly once, *)
(* in one indivisible step, and a reset happens only when nobody owes      *)
(* anything.  Profile is shown to implement it.                            *)
(***************************************************************************)
EXTENDS Integers

CONSTANTS Workers,  \* the writers
          Fields    \* the counters

VARIABLES total,    \* Fields -> value of the counter
          owed      \* Workers -> Fields -> measured but not yet added

vars == <<total, owed>>

Nothing == [f \in Fields |-> 0]

Init == /\ total = Nothing
        /\ owed = [w \in Workers |-> Nothing]

(* A writer that owes nothing has measured the same amount for every field. *)
Incur(w) ==
  /\ owed[w] = Nothing
  /\ owed' = [owed EXCEPT ![w] = owed'[w]]
  /\ owed'[w] \in [Fields -> Nat]
  /\ \A f, g \in Fields : owed'[w][f] = owed'[w][g]
  /\ UNCHANGED total

(* The indivisible addition. *)
Credit(w, f) ==
  /\ total' = [total EXCEPT ![f] = @ + owed[w][f]]
  /\ owed'  = [owed EXCEPT ![w][f] = 0]

Reset ==
  /\ owed = [w \in Workers |-> Nothing]
  /\ total' = Nothing
  /\ UNCHANGED owed

Next == \/ \E w \in Workers : Incur(w)
        \/ \E w \in Workers, f \in Fields : Credit(w, f)
        \/ Reset

Spec == Init /\ [][Next]_vars
=============================================================================
