------------------------------ MODULE Profile ------------------------------
(***************************************************************************)
(* The SMT profiling counters of bin/profile.ml.                           *)
(*                                                                         *)
(* Worker domains bracket every solver call with start_smt and finish_smt. *)
(* Both go through update_profile, which reads the mutable list            *)
(* profile_stack, works on the atomics of its head and stores a list back. *)
(* The read, every operation on an atomic and the store are separate       *)
(* steps, interleaved with the other domains'.                             *)
(*                                                                         *)
(* A profile record is the identity of its six atomics: `{p with ...}`     *)
(* copies the record but shares the atomics.  Floats are abstracted to     *)
(* integers, and Unix.times and Unix.gettimeofday to one clock that does   *)
(* not run backwards.                                                      *)
(***************************************************************************)
EXTENDS Integers, Sequences, FiniteSets

CONSTANTS Workers,   \* the domains that run solver calls
          MaxCalls,  \* bound: calls per worker
          MaxTime,   \* bound: readings of the clock
          MaxPasses  \* bound: Profile.start / Profile.finish pairs

ASSUME WorkersAssumption == IsFiniteSet(Workers)
ASSUME BoundsAssumption == MaxCalls \in Nat /\ MaxTime \in Nat /\ MaxPasses \in Nat

(* smt_utime, smt_stime, smt_cutime, smt_cstime, smt_wtime, in the order   *)
(* in which finish_smt adds to them.                                       *)
Fields == 1..5
wtime  == 5

Profiles == 1..MaxPasses

VARIABLES
  profile_stack,  \* list of profiles
  smt_calls,      \* profile -> its counter of calls
  smt_time,       \* profile -> field -> its accumulated time
  holders,        \* profile -> field -> workers whose old_t is the box now in the atomic
  passes,         \* profiles allocated so far
  now,            \* the clock
  pc, seen, start, delta, field, old,  \* the locals of each worker
  made,           \* calls a worker has begun
  begun,          \* history: calls begun since the last Profile.start
  measured,       \* history: time measured since the last Profile.start
  opened          \* history: the clock at the last Profile.start

vars == <<profile_stack, smt_calls, smt_time, holders, passes, now, pc, seen,
          start, delta, field, old, made, begun, measured, opened>>

shared == <<profile_stack, smt_calls, smt_time, holders, passes>>
locals == <<seen, start, delta, field, old>>
history == <<begun, measured, opened>>
-----------------------------------------------------------------------------
Zeros == [f \in Fields |-> 0]

Init ==
  /\ profile_stack = << >>
  /\ smt_calls = [p \in Profiles |-> 0]
  /\ smt_time  = [p \in Profiles |-> Zeros]
  /\ holders   = [p \in Profiles |-> [f \in Fields |-> {}]]
  /\ passes = 0 /\ now = 0 /\ opened = 0
  /\ pc    = [w \in Workers |-> "idle"]
  /\ seen  = [w \in Workers |-> << >>]
  /\ start = [w \in Workers |-> 0]
  /\ delta = [w \in Workers |-> 0]
  /\ field = [w \in Workers |-> 1]
  /\ old   = [w \in Workers |-> 0]
  /\ made  = [w \in Workers |-> 0]
  /\ begun = 0 /\ measured = 0

Goto(w, from, to) == pc[w] = from /\ pc' = [pc EXCEPT ![w] = to]

(* update_profile: match !profile_stack with [] -> () | p :: ps -> ... *)
ReadStack(w, from, ifEmpty, ifProfile) ==
  /\ Goto(w, from, IF profile_stack = << >> THEN ifEmpty ELSE ifProfile)
  /\ seen' = [seen EXCEPT ![w] = profile_stack]
  /\ UNCHANGED <<shared, now, start, delta, field, old, opened>>

(* Mutant: stores f p in front of the whole list. *)
StoreStackPushes(w, from, to) ==
  /\ Goto(w, from, to)
  /\ profile_stack' = <<Head(seen[w])>> \o seen[w]
  /\ UNCHANGED <<smt_calls, smt_time, holders, passes, now, locals, made, history>>

(* update_profile: profile_stack := f p :: ps.  f returns p, or a copy     *)
(* that shares its atomics.                                                *)
StoreStack(w, from, to) ==
  /\ Goto(w, from, to)
  /\ profile_stack' = <<Head(seen[w])>> \o Tail(seen[w])
  /\ UNCHANGED <<smt_calls, smt_time, holders, passes, now, locals, made, history>>

(* start_smt *)
StartRead(w) ==
  /\ made[w] < MaxCalls
  /\ made' = [made EXCEPT ![w] = @ + 1]
  /\ begun' = IF profile_stack = << >> THEN begun ELSE begun + 1
  /\ UNCHANGED measured
  /\ ReadStack(w, "idle", "clock", "incr")

(* Mutant: incr on a plain reference, losing the update of a racing worker. *)
StartIncrLossy(w) ==
  /\ Goto(w, "incr", "restack")
  /\ smt_calls' = IF \E v \in Workers \ {w} : pc[v] = "incr" THEN smt_calls
                  ELSE [smt_calls EXCEPT ![Head(seen[w])] = @ + 1]
  /\ UNCHANGED <<profile_stack, smt_time, holders, passes, now, locals, made, history>>

StartIncr(w) ==
  /\ Goto(w, "incr", "restack")
  /\ smt_calls' = [smt_calls EXCEPT ![Head(seen[w])] = @ + 1]
  /\ UNCHANGED <<profile_stack, smt_time, holders, passes, now, locals, made, history>>

StartStore(w) == StoreStack(w, "restack", "clock")

StartClock(w) ==
  /\ Goto(w, "clock", "smt")
  /\ start' = [start EXCEPT ![w] = now]
  /\ UNCHANGED <<shared, now, seen, delta, field, old, made, history>>

(* finish_smt *)
FinishRead(w) ==
  /\ ReadStack(w, "smt", "idle", "measure")
  /\ UNCHANGED <<made, begun, measured>>

(* Mutant: adds the clock itself, not the time since start_smt. *)
FinishClockAbsolute(w) ==
  /\ Goto(w, "measure", "get")
  /\ delta' = [delta EXCEPT ![w] = now]
  /\ field' = [field EXCEPT ![w] = 1]
  /\ measured' = measured + now
  /\ UNCHANGED <<shared, now, seen, start, old, made, begun, opened>>

FinishClock(w) ==
  /\ Goto(w, "measure", "get")
  /\ delta' = [delta EXCEPT ![w] = now - start[w]]
  /\ field' = [field EXCEPT ![w] = 1]
  /\ measured' = measured + now - start[w]
  /\ UNCHANGED <<shared, now, seen, start, old, made, begun, opened>>

(* Mutant: compares with a box of its own, which nobody put in the atomic. *)
GetCopy(w) ==
  /\ Goto(w, "get", "cas")
  /\ old' = [old EXCEPT ![w] = smt_time[Head(seen[w])][field[w]]]
  /\ UNCHANGED <<shared, now, seen, start, delta, field, made, history>>

(* let old_t = Atomic.get p.smt_... *)
Get(w) ==
  LET p == Head(seen[w]) IN
  /\ Goto(w, "get", "cas")
  /\ old' = [old EXCEPT ![w] = smt_time[p][field[w]]]
  /\ holders' = [holders EXCEPT ![p][field[w]] = @ \union {w}]
  /\ UNCHANGED <<profile_stack, smt_calls, smt_time, passes, now, seen, start, delta,
                 field, made, history>>

(* Puts a new box in the atomic and moves on to the next counter. *)
PutBox(w, next) ==
  LET p == Head(seen[w])
      f == field[w]
  IN
  /\ Goto(w, "cas", IF f = wtime THEN "putback" ELSE "get")
  /\ smt_time' = [smt_time EXCEPT ![p][f] = old[w] + delta[w]]
  /\ holders' = [holders EXCEPT ![p][f] = {}]
  /\ field' = [field EXCEPT ![w] = next]
  /\ UNCHANGED <<profile_stack, smt_calls, passes, now, seen, start, delta, old, made, history>>

NextField(w) == IF field[w] = wtime THEN 1 ELSE field[w] + 1

(* Mutants: Atomic.set, whoever else has written; no return to the first field. *)
PlainSet(w) == PutBox(w, NextField(w))
CompareAndSetRunsOn(w) ==
  PutBox(w, field[w] + 1) /\ w \in holders[Head(seen[w])][field[w]]

(* Atomic.compare_and_set compares the boxed floats physically: it         *)
(* succeeds as long as nobody has put another box there since Get, even    *)
(* one with an equal value.                                                *)
CompareAndSet(w) ==
  /\ PutBox(w, NextField(w))
  /\ w \in holders[Head(seen[w])][field[w]]

CompareAndSetFails(w) ==
  /\ Goto(w, "cas", "get")
  /\ w \notin holders[Head(seen[w])][field[w]]
  /\ UNCHANGED <<shared, now, locals, made, history>>

FinishStore(w) == StoreStack(w, "putback", "idle")

(* Mutant: a pass starts or ends before Task.run has joined the workers. *)
Unjoined == TRUE

(* Profile.start and Profile.finish are called by the main program between *)
(* two parallel passes: Task.run has joined every worker.                  *)
Quiet == \A w \in Workers : pc[w] = "idle"

Start ==
  /\ Quiet
  /\ passes < MaxPasses
  /\ passes' = passes + 1
  /\ profile_stack' = <<passes'>>
  /\ smt_calls' = [smt_calls EXCEPT ![passes'] = 0]
  /\ smt_time'  = [smt_time EXCEPT ![passes'] = Zeros]
  /\ holders'   = [holders EXCEPT ![passes'] = [f \in Fields |-> {}]]
  /\ begun' = 0 /\ measured' = 0
  /\ opened' = now
  /\ UNCHANGED <<now, pc, locals, made>>

Finish ==
  /\ Quiet
  /\ profile_stack # << >>
  /\ profile_stack' = Tail(profile_stack)
  /\ UNCHANGED <<smt_calls, smt_time, holders, passes, now, pc, locals, made, history>>

Tick ==
  /\ now < MaxTime
  /\ now' = now + 1
  /\ UNCHANGED <<shared, pc, locals, made, history>>

Step(w) ==
  \/ StartRead(w) \/ StartIncr(w) \/ StartStore(w) \/ StartClock(w)
  \/ FinishRead(w) \/ FinishClock(w) \/ Get(w) \/ CompareAndSet(w)
  \/ CompareAndSetFails(w) \/ FinishStore(w)

Next == (\E w \in Workers : Step(w)) \/ Start \/ Finish \/ Tick

Spec == Init /\ [][Next]_vars

(* The operating system runs every domain. *)
FairSpec == Spec /\ \A w \in Workers : WF_vars(Step(w))
-----------------------------------------------------------------------------
PCs == {"idle", "incr", "restack", "clock", "smt", "measure", "get", "cas", "putback"}

TypeOK ==
  /\ profile_stack \in Seq(Profiles)
  /\ smt_calls \in [Profiles -> Nat]
  /\ smt_time \in [Profiles -> [Fields -> Nat]]
  /\ holders \in [Profiles -> [Fields -> SUBSET Workers]]
  /\ passes \in 0..MaxPasses
  /\ now \in Nat /\ opened \in Nat
  /\ pc \in [Workers -> PCs]
  /\ seen \in [Workers -> Seq(Profiles)]
  /\ start \in [Workers -> Nat]
  /\ delta \in [Workers -> Nat]
  /\ field \in [Workers -> Fields]
  /\ old \in [Workers -> Nat]
  /\ made \in [Workers -> Nat]
  /\ begun \in Nat /\ measured \in Nat

(* A worker inside update_profile, between the read and the store. *)
InUpdate(w) == pc[w] \in {"incr", "restack", "measure", "get", "cas", "putback"}

(* The concurrent stores of update_profile never lose or resurrect a       *)
(* profile: the list every worker holds is the list that is there, so      *)
(* storing it back changes nothing, and it is at most one deep.            *)
StackAgrees ==
  /\ profile_stack \in {<< >>, <<passes>>}
  /\ \A w \in Workers : InUpdate(w) => seen[w] = profile_stack /\ profile_stack # << >>

(* No call is lost, whatever the interleaving of start_smt's reads,        *)
(* increments and stores: the open profile has counted every call begun    *)
(* since Profile.start, except those that have not reached Atomic.incr.    *)
NoCallLost ==
  profile_stack # << >> =>
    smt_calls[Head(profile_stack)] + Cardinality({w \in Workers : pc[w] = "incr"})
      = begun

(* No time is lost or added twice: when no worker is inside a call, each   *)
(* of the five times Profile.finish is about to print is the sum of the    *)
(* durations finish_smt has measured since Profile.start.                  *)
QuietTimesExact ==
  Quiet /\ profile_stack # << >> =>
    \A f \in Fields : smt_time[Head(profile_stack)][f] = measured

(* A compare-and-set that would succeed has read the value it replaces.    *)
HolderIsCurrent ==
  \A p \in Profiles, f \in Fields : \A w \in holders[p][f] :
    pc[w] = "cas" /\ field[w] = f /\ seen[w] = <<p>> /\ old[w] = smt_time[p][f]

(* A worker measures disjoint intervals, all inside the pass: the wall     *)
(* time a pass reports is at most the workers times the time it took.      *)
WallTimeBounded ==
  profile_stack # << >> =>
    smt_time[Head(profile_stack)][wtime] <= Cardinality(Workers) * (now - opened)

(* The compare-and-set loops end: finish_smt returns. *)
FinishReturns == \A w \in Workers : pc[w] = "get" ~> pc[w] = "idle"

Total == IF profile_stack = << >> THEN Zeros ELSE smt_time[Head(profile_stack)]

Owed == [w \in Workers |-> [f \in Fields |->
          IF pc[w] \in {"get", "cas"} /\ f >= field[w] THEN delta[w] ELSE 0]]

Acc == INSTANCE Accumulator WITH total <- Total, owed <- Owed
(* finish_smt's five compare-and-set loops add each measured duration to   *)
(* each counter exactly once, as if in one indivisible step, and no pass   *)
(* starts or ends with a duration still to be added.                       *)
Accumulates == Acc!Spec
=============================================================================
