--------------------------- MODULE ProfileProofs ----------------------------
(***************************************************************************)
(* Profile.tla for any number of workers, calls, passes and any clock:     *)
(* the inductive invariant, the count of calls, and the implementation of  *)
(* Accumulator.                                                            *)
(***************************************************************************)
EXTENDS Profile, FiniteSetTheorems, TLAPS

(* A call's start time has passed. *)
StartInPast == \A w \in Workers : start[w] <= now

(* What the list holds and what the workers read are only right together   *)
(* with who may still compare-and-set.                                     *)
IInv == TypeOK /\ StackAgrees /\ HolderIsCurrent /\ StartInPast

USE BoundsAssumption DEF history

LEMMA FieldsFacts ==
  1 \in Fields /\ wtime \in Fields /\ \A f \in Fields : f # wtime => f + 1 \in Fields
  BY DEF Fields, wtime

(* Inside update_profile a worker works on the profile that is open. *)
LEMMA UpdateSees ==
  ASSUME IInv, NEW w \in Workers, InUpdate(w)
  PROVE  /\ seen[w] = profile_stack /\ profile_stack = <<passes>>
         /\ Head(seen[w]) = passes /\ passes \in Profiles
  BY DEF IInv, TypeOK, StackAgrees, InUpdate, Profiles

(* A worker about to compare-and-set has read the counter's value. *)
LEMMA HolderFacts ==
  ASSUME IInv, NEW p \in Profiles, NEW f \in Fields, NEW v \in holders[p][f]
  PROVE  /\ v \in Workers /\ pc[v] = "cas" /\ field[v] = f
         /\ seen[v] = <<p>> /\ old[v] = smt_time[p][f]
<1>1. holders \in [Profiles -> [Fields -> SUBSET Workers]] BY DEF IInv, TypeOK
<1>2. v \in Workers BY <1>1
<1>3. HolderIsCurrent BY DEF IInv
<1>. QED BY <1>2, <1>3 DEF HolderIsCurrent

(* A step that leaves the counters alone, and the locals of their holders. *)
LEMMA HoldersKept ==
  ASSUME IInv, UNCHANGED <<smt_time, holders>>,
         \A p \in Profiles, f \in Fields : \A v \in holders[p][f] :
           pc'[v] = pc[v] /\ field'[v] = field[v] /\ seen'[v] = seen[v] /\ old'[v] = old[v]
  PROVE  HolderIsCurrent'
<1>1. HolderIsCurrent BY DEF IInv
<1>. QED BY <1>1 DEF HolderIsCurrent

LEMMA InitIInv == Init => IInv
<1>. SUFFICES ASSUME Init PROVE IInv OBVIOUS
<1>1. TypeOK
  <2>1. smt_time \in [Profiles -> [Fields -> Nat]] BY DEF Init, Zeros
  <2>2. holders \in [Profiles -> [Fields -> SUBSET Workers]] BY DEF Init
  <2>3. pc \in [Workers -> PCs] /\ field \in [Workers -> Fields] BY FieldsFacts DEF Init, PCs
  <2>4. profile_stack \in Seq(Profiles) /\ seen \in [Workers -> Seq(Profiles)] BY DEF Init
  <2>. QED BY <2>1, <2>2, <2>3, <2>4 DEF Init, TypeOK
<1>2. StackAgrees BY DEF Init, StackAgrees, InUpdate
<1>3. HolderIsCurrent BY DEF Init, HolderIsCurrent
<1>4. StartInPast BY DEF Init, StartInPast
<1>. QED BY <1>1, <1>2, <1>3, <1>4 DEF IInv

LEMMA StepStartRead ==
  ASSUME IInv, NEW w \in Workers, StartRead(w) PROVE IInv'
<1>. USE DEF StartRead, ReadStack, Goto, shared
<1>1. TypeOK'
  <2>1. pc' \in [Workers -> PCs] BY DEF IInv, TypeOK, PCs
  <2>2. seen' \in [Workers -> Seq(Profiles)] BY DEF IInv, TypeOK
  <2>3. made' \in [Workers -> Nat] /\ begun' \in Nat BY DEF IInv, TypeOK
  <2>. QED BY <2>1, <2>2, <2>3 DEF IInv, TypeOK
<1>2. StackAgrees' BY DEF IInv, TypeOK, StackAgrees, InUpdate, PCs
<1>3. HolderIsCurrent'
  <2>. SUFFICES ASSUME NEW p \in Profiles, NEW f \in Fields, NEW v \in holders[p][f]
                PROVE  /\ pc'[v] = pc[v] /\ field'[v] = field[v]
                       /\ seen'[v] = seen[v] /\ old'[v] = old[v]
    BY HoldersKept
  <2>1. v \in Workers /\ pc[v] = "cas" BY HolderFacts
  <2>. QED BY <2>1 DEF IInv, TypeOK
<1>4. StartInPast' BY DEF IInv, TypeOK, StartInPast
<1>. QED BY <1>1, <1>2, <1>3, <1>4 DEF IInv

LEMMA StepStartIncr ==
  ASSUME IInv, NEW w \in Workers, StartIncr(w) PROVE IInv'
<1>. USE DEF StartIncr, Goto, locals
<1>0. Head(seen[w]) = passes /\ passes \in Profiles BY UpdateSees DEF InUpdate
<1>1. TypeOK'
  <2>1. pc' \in [Workers -> PCs] BY DEF IInv, TypeOK, PCs
  <2>2. smt_calls' \in [Profiles -> Nat] BY <1>0 DEF IInv, TypeOK
  <2>. QED BY <2>1, <2>2 DEF IInv, TypeOK
<1>2. StackAgrees' BY DEF IInv, TypeOK, StackAgrees, InUpdate, PCs
<1>3. HolderIsCurrent'
  <2>. SUFFICES ASSUME NEW p \in Profiles, NEW f \in Fields, NEW v \in holders[p][f]
                PROVE  /\ pc'[v] = pc[v] /\ field'[v] = field[v]
                       /\ seen'[v] = seen[v] /\ old'[v] = old[v]
    BY HoldersKept
  <2>1. v \in Workers /\ pc[v] = "cas" BY HolderFacts
  <2>. QED BY <2>1 DEF IInv, TypeOK
<1>4. StartInPast' BY DEF IInv, TypeOK, StartInPast
<1>. QED BY <1>1, <1>2, <1>3, <1>4 DEF IInv

(* The list a worker stores is the list that is there. *)
LEMMA StepStore ==
  ASSUME IInv, NEW w \in Workers, StartStore(w) \/ FinishStore(w)
  PROVE  IInv' /\ profile_stack' = profile_stack
<1>. USE DEF StartStore, FinishStore, StoreStack, Goto, locals
<1>1. seen[w] = <<passes>> /\ profile_stack = <<passes>> BY UpdateSees DEF InUpdate
<1>2. profile_stack' = profile_stack BY <1>1
<1>3. TypeOK'
  <2>1. pc' \in [Workers -> PCs] BY DEF IInv, TypeOK, PCs
  <2>. QED BY <1>2, <2>1 DEF IInv, TypeOK
<1>4. StackAgrees' BY <1>2 DEF IInv, TypeOK, StackAgrees, InUpdate
<1>5. HolderIsCurrent'
  <2>. SUFFICES ASSUME NEW p \in Profiles, NEW f \in Fields, NEW v \in holders[p][f]
                PROVE  /\ pc'[v] = pc[v] /\ field'[v] = field[v]
                       /\ seen'[v] = seen[v] /\ old'[v] = old[v]
    BY HoldersKept
  <2>1. v \in Workers /\ pc[v] = "cas" BY HolderFacts
  <2>. QED BY <2>1 DEF IInv, TypeOK
<1>6. StartInPast' BY DEF IInv, TypeOK, StartInPast
<1>. QED BY <1>2, <1>3, <1>4, <1>5, <1>6 DEF IInv

LEMMA StepStartClock ==
  ASSUME IInv, NEW w \in Workers, StartClock(w) PROVE IInv'
<1>. USE DEF StartClock, Goto, shared
<1>1. TypeOK'
  <2>1. pc' \in [Workers -> PCs] BY DEF IInv, TypeOK, PCs
  <2>2. start' \in [Workers -> Nat] BY DEF IInv, TypeOK
  <2>. QED BY <2>1, <2>2 DEF IInv, TypeOK
<1>2. StackAgrees' BY DEF IInv, TypeOK, StackAgrees, InUpdate
<1>3. HolderIsCurrent'
  <2>. SUFFICES ASSUME NEW p \in Profiles, NEW f \in Fields, NEW v \in holders[p][f]
                PROVE  /\ pc'[v] = pc[v] /\ field'[v] = field[v]
                       /\ seen'[v] = seen[v] /\ old'[v] = old[v]
    BY HoldersKept
  <2>1. v \in Workers /\ pc[v] = "cas" BY HolderFacts
  <2>. QED BY <2>1 DEF IInv, TypeOK
<1>4. StartInPast' BY DEF IInv, TypeOK, StartInPast
<1>. QED BY <1>1, <1>2, <1>3, <1>4 DEF IInv

LEMMA StepFinishRead ==
  ASSUME IInv, NEW w \in Workers, FinishRead(w) PROVE IInv'
<1>. USE DEF FinishRead, ReadStack, Goto, shared
<1>1. TypeOK'
  <2>1. pc' \in [Workers -> PCs] BY DEF IInv, TypeOK, PCs
  <2>2. seen' \in [Workers -> Seq(Profiles)] BY DEF IInv, TypeOK
  <2>. QED BY <2>1, <2>2 DEF IInv, TypeOK
<1>2. StackAgrees' BY DEF IInv, TypeOK, StackAgrees, InUpdate, PCs
<1>3. HolderIsCurrent'
  <2>. SUFFICES ASSUME NEW p \in Profiles, NEW f \in Fields, NEW v \in holders[p][f]
                PROVE  /\ pc'[v] = pc[v] /\ field'[v] = field[v]
                       /\ seen'[v] = seen[v] /\ old'[v] = old[v]
    BY HoldersKept
  <2>1. v \in Workers /\ pc[v] = "cas" BY HolderFacts
  <2>. QED BY <2>1 DEF IInv, TypeOK
<1>4. StartInPast' BY DEF IInv, TypeOK, StartInPast
<1>. QED BY <1>1, <1>2, <1>3, <1>4 DEF IInv

LEMMA StepFinishClock ==
  ASSUME IInv, NEW w \in Workers, FinishClock(w) PROVE IInv'
<1>. USE DEF FinishClock, Goto, shared
<1>0. now - start[w] \in Nat BY DEF IInv, TypeOK, StartInPast
<1>1. TypeOK'
  <2>1. pc' \in [Workers -> PCs] BY DEF IInv, TypeOK, PCs
  <2>2. delta' \in [Workers -> Nat] BY <1>0 DEF IInv, TypeOK
  <2>3. field' \in [Workers -> Fields] BY FieldsFacts DEF IInv, TypeOK
  <2>4. measured' \in Nat BY <1>0 DEF IInv, TypeOK
  <2>. QED BY <2>1, <2>2, <2>3, <2>4 DEF IInv, TypeOK
<1>2. StackAgrees' BY DEF IInv, TypeOK, StackAgrees, InUpdate
<1>3. HolderIsCurrent'
  <2>. SUFFICES ASSUME NEW p \in Profiles, NEW f \in Fields, NEW v \in holders[p][f]
                PROVE  /\ pc'[v] = pc[v] /\ field'[v] = field[v]
                       /\ seen'[v] = seen[v] /\ old'[v] = old[v]
    BY HoldersKept
  <2>1. v \in Workers /\ pc[v] = "cas" BY HolderFacts
  <2>. QED BY <2>1 DEF IInv, TypeOK
<1>4. StartInPast' BY DEF IInv, TypeOK, StartInPast
<1>. QED BY <1>1, <1>2, <1>3, <1>4 DEF IInv

LEMMA StepGet ==
  ASSUME IInv, NEW w \in Workers, Get(w) PROVE IInv'
<1>. USE DEF Get, Goto
<1>0. seen[w] = <<passes>> /\ Head(seen[w]) = passes /\ passes \in Profiles
  BY UpdateSees DEF InUpdate
<1>a. field[w] \in Fields BY DEF IInv, TypeOK
<1>1. TypeOK'
  <2>1. pc' \in [Workers -> PCs] BY DEF IInv, TypeOK, PCs
  <2>2. old' \in [Workers -> Nat] BY <1>0, <1>a DEF IInv, TypeOK
  <2>3. holders' \in [Profiles -> [Fields -> SUBSET Workers]] BY <1>0, <1>a DEF IInv, TypeOK
  <2>. QED BY <2>1, <2>2, <2>3 DEF IInv, TypeOK
<1>2. StackAgrees' BY DEF IInv, TypeOK, StackAgrees, InUpdate
<1>3. HolderIsCurrent'
  <2>. SUFFICES ASSUME NEW p \in Profiles, NEW f \in Fields, NEW v \in holders'[p][f]
                PROVE  /\ pc'[v] = "cas" /\ field[v] = f /\ seen[v] = <<p>>
                       /\ old'[v] = smt_time[p][f]
    BY DEF HolderIsCurrent
  <2>1. \/ v = w /\ p = passes /\ f = field[w]
        \/ v # w /\ v \in holders[p][f]
    <3>1. \A q \in Profiles, g \in Fields :
            holders'[q][g] = IF q = passes /\ g = field[w] THEN holders[q][g] \union {w}
                                                          ELSE holders[q][g]
      BY <1>0, <1>a DEF IInv, TypeOK
    <3>2. w \notin holders[p][f]
      <4>1. pc[w] = "get" OBVIOUS
      <4>. HIDE DEF Get, Goto
      <4>. QED BY <4>1, HolderFacts
    <3>3. v \in holders[p][f] \/ (v = w /\ p = passes /\ f = field[w])
      <4>1. v \in IF p = passes /\ f = field[w] THEN holders[p][f] \union {w} ELSE holders[p][f]
        BY <3>1, Zenon
      <4>. HIDE DEF Get, Goto
      <4>. QED BY <4>1
    <3>. QED BY <3>2, <3>3
  <2>2. CASE v = w /\ p = passes /\ f = field[w] BY <2>2, <1>0, <1>a DEF IInv, TypeOK
  <2>3. CASE v # w /\ v \in holders[p][f]
    <3>1. /\ pc[v] = "cas" /\ field[v] = f /\ seen[v] = <<p>> /\ old[v] = smt_time[p][f]
          /\ v \in Workers
      BY <2>3, HolderFacts
    <3>. QED BY <2>3, <3>1 DEF IInv, TypeOK
  <2>. QED BY <2>1, <2>2, <2>3
<1>4. StartInPast' BY DEF IInv, TypeOK, StartInPast
<1>. QED BY <1>1, <1>2, <1>3, <1>4 DEF IInv

(* Whoever loses the race is no longer a holder of the field it lost. *)
LEMMA StepCompareAndSet ==
  ASSUME IInv, NEW w \in Workers, CompareAndSet(w) PROVE IInv'
<1>. USE DEF CompareAndSet, PutBox, NextField, Goto
<1>0. seen[w] = <<passes>> /\ Head(seen[w]) = passes /\ passes \in Profiles
  BY UpdateSees DEF InUpdate
<1>a. field[w] \in Fields BY DEF IInv, TypeOK
<1>1. TypeOK'
  <2>1. pc' \in [Workers -> PCs] BY DEF IInv, TypeOK, PCs
  <2>2. field' \in [Workers -> Fields] BY FieldsFacts, <1>a DEF IInv, TypeOK
  <2>3. old[w] + delta[w] \in Nat BY DEF IInv, TypeOK
  <2>4. smt_time' \in [Profiles -> [Fields -> Nat]] BY <1>0, <1>a, <2>3 DEF IInv, TypeOK
  <2>5. holders' \in [Profiles -> [Fields -> SUBSET Workers]] BY <1>0, <1>a DEF IInv, TypeOK
  <2>. QED BY <2>1, <2>2, <2>4, <2>5 DEF IInv, TypeOK
<1>2. StackAgrees' BY DEF IInv, TypeOK, StackAgrees, InUpdate
<1>3. HolderIsCurrent'
  <2>. SUFFICES ASSUME NEW p \in Profiles, NEW f \in Fields, NEW v \in holders'[p][f]
                PROVE  /\ pc'[v] = "cas" /\ field'[v] = f /\ seen[v] = <<p>>
                       /\ old[v] = smt_time'[p][f]
    BY DEF HolderIsCurrent
  <2>1. \A q \in Profiles, g \in Fields :
          /\ holders'[q][g] = IF q = passes /\ g = field[w] THEN {} ELSE holders[q][g]
          /\ ~(q = passes /\ g = field[w]) => smt_time'[q][g] = smt_time[q][g]
    BY <1>0, <1>a DEF IInv, TypeOK
  <2>2. v \in holders[p][f] /\ smt_time'[p][f] = smt_time[p][f] /\ ~(p = passes /\ f = field[w])
    BY <2>1
  <2>3. /\ pc[v] = "cas" /\ field[v] = f /\ seen[v] = <<p>> /\ old[v] = smt_time[p][f]
        /\ v \in Workers
    BY <2>2, HolderFacts
  <2>4. v # w
    <3>. SUFFICES ASSUME v = w PROVE FALSE OBVIOUS
    <3>1. Head(seen[v]) = p BY <2>3
    <3>. QED BY <3>1, <2>2, <2>3, <1>0
  <2>. QED BY <2>2, <2>3, <2>4 DEF IInv, TypeOK
<1>4. StartInPast' BY DEF IInv, TypeOK, StartInPast
<1>. QED BY <1>1, <1>2, <1>3, <1>4 DEF IInv

LEMMA StepCompareAndSetFails ==
  ASSUME IInv, NEW w \in Workers, CompareAndSetFails(w) PROVE IInv'
<1>. USE DEF CompareAndSetFails, Goto, shared, locals
<1>0. seen[w] = <<passes>> /\ Head(seen[w]) = passes /\ passes \in Profiles
  BY UpdateSees DEF InUpdate
<1>1. TypeOK'
  <2>1. pc' \in [Workers -> PCs] BY DEF IInv, TypeOK, PCs
  <2>. QED BY <2>1 DEF IInv, TypeOK
<1>2. StackAgrees' BY DEF IInv, TypeOK, StackAgrees, InUpdate
<1>3. HolderIsCurrent'
  <2>. SUFFICES ASSUME NEW p \in Profiles, NEW f \in Fields, NEW v \in holders[p][f]
                PROVE  pc'[v] = pc[v]
    BY HoldersKept
  <2>1. field[v] = f /\ seen[v] = <<p>> /\ v \in Workers BY HolderFacts
  <2>2. Head(seen[v]) = p BY <2>1
  <2>3. v # w BY <2>1, <2>2
  <2>. QED BY <2>1, <2>3 DEF IInv, TypeOK
<1>4. StartInPast' BY DEF IInv, TypeOK, StartInPast
<1>. QED BY <1>1, <1>2, <1>3, <1>4 DEF IInv

(* Between two passes nobody holds a field. *)
LEMMA StepStart ==
  ASSUME IInv, Start PROVE IInv'
<1>. USE DEF Start, Quiet, locals
<1>0. passes' \in Profiles BY DEF IInv, TypeOK, Profiles
<1>1. TypeOK'
  <2>1. passes' \in 0..MaxPasses BY DEF IInv, TypeOK
  <2>2. profile_stack' \in Seq(Profiles) BY <1>0
  <2>3. smt_calls' \in [Profiles -> Nat] BY <1>0 DEF IInv, TypeOK
  <2>4. smt_time' \in [Profiles -> [Fields -> Nat]] BY <1>0 DEF IInv, TypeOK, Zeros
  <2>5. holders' \in [Profiles -> [Fields -> SUBSET Workers]] BY <1>0 DEF IInv, TypeOK
  <2>. QED BY <2>1, <2>2, <2>3, <2>4, <2>5 DEF IInv, TypeOK
<1>2. StackAgrees' BY DEF IInv, TypeOK, StackAgrees, InUpdate
<1>3. HolderIsCurrent'
  <2>1. \A p \in Profiles, f \in Fields : holders[p][f] = {}
    <3>. SUFFICES ASSUME NEW p \in Profiles, NEW f \in Fields, NEW v \in holders[p][f]
                  PROVE  FALSE
      OBVIOUS
    <3>. QED BY HolderFacts
  <2>2. \A p \in Profiles, f \in Fields : holders'[p][f] = {}
    BY <1>0, <2>1 DEF IInv, TypeOK
  <2>. QED BY <2>2 DEF HolderIsCurrent
<1>4. StartInPast' BY DEF IInv, TypeOK, StartInPast
<1>. QED BY <1>1, <1>2, <1>3, <1>4 DEF IInv

LEMMA StepFinish ==
  ASSUME IInv, Finish PROVE IInv' /\ profile_stack' = << >>
<1>. USE DEF Finish, Quiet, locals
<1>0. profile_stack' = << >>
  <2>1. profile_stack = <<passes>> BY DEF IInv, StackAgrees
  <2>. QED BY <2>1
<1>1. TypeOK' BY <1>0 DEF IInv, TypeOK
<1>2. StackAgrees' BY <1>0 DEF IInv, TypeOK, StackAgrees, InUpdate
<1>3. HolderIsCurrent' BY HoldersKept
<1>4. StartInPast' BY DEF IInv, TypeOK, StartInPast
<1>. QED BY <1>0, <1>1, <1>2, <1>3, <1>4 DEF IInv

LEMMA StepTick ==
  ASSUME IInv, Tick PROVE IInv'
<1>. USE DEF Tick, shared, locals
<1>1. TypeOK'
  <2>1. now' \in Nat BY DEF IInv, TypeOK
  <2>. QED BY <2>1 DEF IInv, TypeOK
<1>2. StackAgrees' BY DEF IInv, TypeOK, StackAgrees, InUpdate
<1>3. HolderIsCurrent' BY HoldersKept
<1>4. StartInPast' BY DEF IInv, TypeOK, StartInPast
<1>. QED BY <1>1, <1>2, <1>3, <1>4 DEF IInv

LEMMA StepIInv == IInv /\ [Next]_vars => IInv'
<1>. SUFFICES ASSUME IInv, [Next]_vars PROVE IInv' OBVIOUS
<1>1. ASSUME NEW w \in Workers, Step(w) PROVE IInv'
  BY <1>1, StepStartRead, StepStartIncr, StepStore, StepStartClock, StepFinishRead,
     StepFinishClock, StepGet, StepCompareAndSet, StepCompareAndSetFails DEF Step
<1>2. CASE Start \/ Finish \/ Tick BY <1>2, StepStart, StepFinish, StepTick
<1>3. CASE UNCHANGED vars
  BY <1>3 DEF vars, IInv, TypeOK, StackAgrees, InUpdate, HolderIsCurrent, StartInPast
<1>. QED BY <1>1, <1>2, <1>3 DEF Next

LEMMA Invariance == Spec => []IInv
  BY InitIInv, StepIInv, PTL DEF Spec

(* Every variable keeps its type (bin/profile.ml, update_profile and its    *)
(* callers).                                                                *)
THEOREM TypeCorrect == Spec => []TypeOK
  BY Invariance, PTL DEF IInv

(* The unsynchronised stores of update_profile never lose or resurrect a   *)
(* profile (bin/profile.ml:70-71), for any number of domains.              *)
THEOREM StackSafe == Spec => []StackAgrees
  BY Invariance, PTL DEF IInv

(* A compare-and-set of finish_smt that would succeed has read the value   *)
(* it replaces (bin/profile.ml:93-121).                                    *)
THEOREM CasSafe == Spec => []HolderIsCurrent
  BY Invariance, PTL DEF IInv
-----------------------------------------------------------------------------
(* The count of calls.  Incrementing == the calls that are counted next.   *)
Incrementing == {w \in Workers : pc[w] = "incr"}

LEMMA IncrementingFinite ==
  /\ IsFiniteSet(Incrementing) /\ Cardinality(Incrementing) \in Nat
  /\ IsFiniteSet(Incrementing)' /\ Cardinality(Incrementing)' \in Nat
<1>1. Incrementing \subseteq Workers /\ Incrementing' \subseteq Workers BY DEF Incrementing
<1>. QED BY <1>1, WorkersAssumption, FS_Subset, FS_CardinalityType

(* A step that neither takes a worker to Atomic.incr nor from it. *)
LEMMA CountKept ==
  ASSUME IInv, NoCallLost, Incrementing' = Incrementing, UNCHANGED <<smt_calls, begun>>,
         profile_stack' \in {profile_stack, << >>}
  PROVE  NoCallLost'
<1>1. NoCallLost = (profile_stack # << >> =>
                     smt_calls[Head(profile_stack)] + Cardinality(Incrementing) = begun)
  BY DEF NoCallLost, Incrementing
<1>2. NoCallLost' = (profile_stack' # << >> =>
                     smt_calls'[Head(profile_stack')] + Cardinality(Incrementing') = begun')
  BY DEF NoCallLost, Incrementing
<1>. QED BY <1>1, <1>2

LEMMA CountStep == IInv /\ NoCallLost /\ [Next]_vars => NoCallLost'
<1>. SUFFICES ASSUME IInv, NoCallLost, [Next]_vars PROVE NoCallLost' OBVIOUS
<1>0. pc \in [Workers -> PCs] BY DEF IInv, TypeOK
<1>1. ASSUME NEW w \in Workers, StartRead(w) PROVE NoCallLost'
  <2>. USE <1>1 DEF StartRead, ReadStack, Goto, shared
  <2>1. CASE profile_stack = << >> BY <2>1 DEF NoCallLost
  <2>2. CASE profile_stack # << >>
    <3>1. w \notin Incrementing /\ Incrementing' = Incrementing \union {w}
      BY <2>2, <1>0 DEF Incrementing, PCs
    <3>2. Cardinality(Incrementing') = Cardinality(Incrementing) + 1
      BY <3>1, IncrementingFinite, FS_AddElement
    <3>3. smt_calls[Head(profile_stack)] + Cardinality(Incrementing) = begun
      BY <2>2 DEF NoCallLost, Incrementing
    <3>4. smt_calls[Head(profile_stack)] \in Nat
      <4>1. Head(profile_stack) \in Profiles BY <2>2 DEF IInv, TypeOK
      <4>. QED BY <4>1 DEF IInv, TypeOK
    <3>5. smt_calls'[Head(profile_stack')] + Cardinality(Incrementing') = begun'
      <4>1. begun' = begun + 1 /\ profile_stack' = profile_stack /\ smt_calls' = smt_calls
        BY <2>2
      <4>2. begun \in Nat BY DEF IInv, TypeOK
      <4>. HIDE <1>1
      <4>. QED BY <3>2, <3>3, <3>4, <4>1, <4>2, IncrementingFinite
    <3>. QED BY <3>5 DEF NoCallLost, Incrementing
  <2>. QED BY <2>1, <2>2
<1>2. ASSUME NEW w \in Workers, StartIncr(w) PROVE NoCallLost'
  <2>. USE <1>2 DEF StartIncr, Goto, locals
  <2>1. profile_stack = <<passes>> /\ Head(seen[w]) = passes /\ passes \in Profiles
    BY UpdateSees DEF InUpdate
  <2>2. w \in Incrementing /\ Incrementing' = Incrementing \ {w} BY <1>0 DEF Incrementing
  <2>3. Cardinality(Incrementing') = Cardinality(Incrementing) - 1
    BY <2>2, IncrementingFinite, FS_RemoveElement
  <2>4. smt_calls'[passes] = smt_calls[passes] + 1 /\ smt_calls[passes] \in Nat
    BY <2>1 DEF IInv, TypeOK
  <2>5. smt_calls[passes] + Cardinality(Incrementing) = begun
    BY <2>1 DEF NoCallLost, Incrementing
  <2>6. smt_calls'[passes] + Cardinality(Incrementing') = begun'
    BY <2>3, <2>4, <2>5, IncrementingFinite
  <2>. QED BY <2>1, <2>6 DEF NoCallLost, Incrementing
<1>3. ASSUME NEW w \in Workers, StartStore(w) \/ FinishStore(w) PROVE NoCallLost'
  <2>1. Incrementing' = Incrementing
    BY <1>3, <1>0 DEF Incrementing, StartStore, FinishStore, StoreStack, Goto
  <2>. QED BY <1>3, <2>1, CountKept, StepStore DEF StartStore, FinishStore, StoreStack
<1>4. ASSUME NEW w \in Workers,
             \/ StartClock(w) \/ FinishRead(w) \/ FinishClock(w) \/ Get(w)
             \/ CompareAndSet(w) \/ CompareAndSetFails(w)
      PROVE  NoCallLost'
  <2>. USE <1>4 DEF StartClock, FinishRead, ReadStack, FinishClock, Get, CompareAndSet,
                    CompareAndSetFails, PutBox, Goto, shared
  <2>1. Incrementing' = Incrementing BY <1>0 DEF Incrementing
  <2>2. UNCHANGED <<smt_calls, begun, profile_stack>> OBVIOUS
  <2>. QED BY <2>1, <2>2, CountKept
<1>5. CASE Start
  <2>. USE <1>5 DEF Start, Quiet
  <2>1. Incrementing' = {} BY DEF Incrementing
  <2>2. Cardinality(Incrementing') = 0 BY <2>1, FS_EmptySet
  <2>3. passes' \in Profiles BY DEF IInv, TypeOK, Profiles
  <2>4. smt_calls'[passes'] = 0 BY <2>3 DEF IInv, TypeOK
  <2>. QED BY <2>2, <2>4 DEF NoCallLost, Incrementing
<1>6. CASE Finish BY <1>6, StepFinish DEF NoCallLost
<1>7. CASE Tick \/ UNCHANGED vars BY <1>7 DEF Tick, shared, vars, NoCallLost
<1>. QED BY <1>1, <1>2, <1>3, <1>4, <1>5, <1>6, <1>7 DEF Next, Step

(* No call is lost (bin/profile.ml:73-77), for any number of domains and   *)
(* any interleaving.                                                       *)
THEOREM CallsExact == Spec => []NoCallLost
<1>1. Init => NoCallLost BY DEF Init, NoCallLost
<1>. QED BY <1>1, CountStep, Invariance, PTL DEF Spec
-----------------------------------------------------------------------------
(* The refinement: FinishClock incurs, a successful CompareAndSet credits, *)
(* Start and Finish reset, everything else stutters.                       *)
LEMMA AccStart == ASSUME IInv, Quiet PROVE Owed = [w \in Workers |-> Zeros]
  BY DEF IInv, TypeOK, Quiet, Owed, Zeros

LEMMA AccCredit ==
  ASSUME IInv, NEW w \in Workers, CompareAndSet(w)
  PROVE  Acc!Credit(w, field[w])
<1>. USE DEF CompareAndSet, PutBox, NextField, Goto
<1>0. seen[w] = <<passes>> /\ Head(seen[w]) = passes /\ passes \in Profiles
      /\ profile_stack = <<passes>>
  BY UpdateSees DEF InUpdate
<1>a. field[w] \in Fields BY DEF IInv, TypeOK
<1>1. old[w] = smt_time[passes][field[w]] BY <1>0, <1>a, HolderFacts
<1>2. Total = smt_time[passes] /\ Total' = smt_time'[passes] BY <1>0 DEF Total
<1>3. Owed[w][field[w]] = delta[w] BY <1>a DEF Owed, Fields
<1>4. Total' = [Total EXCEPT ![field[w]] = @ + Owed[w][field[w]]]
  BY <1>0, <1>a, <1>1, <1>2, <1>3 DEF IInv, TypeOK
<1>5. Owed' = [Owed EXCEPT ![w][field[w]] = 0]
  <2>1. \A v \in Workers, f \in Fields :
          Owed'[v][f] = IF v = w /\ f = field[w] THEN 0 ELSE Owed[v][f]
    BY <1>a DEF Owed, IInv, TypeOK, Fields, wtime
  <2>. QED BY <2>1, <1>a DEF Owed
<1>. QED BY <1>4, <1>5 DEF Acc!Credit

LEMMA AccIncur ==
  ASSUME IInv, NEW w \in Workers, FinishClock(w)
  PROVE  /\ Total' = Total /\ Owed[w] = Acc!Nothing
         /\ delta'[w] \in Nat /\ measured' = measured + delta'[w]
         /\ Owed'[w] = [f \in Fields |-> delta'[w]]
         /\ Owed' = [Owed EXCEPT ![w] = Owed'[w]]
         /\ Owed'[w] \in [Fields -> Nat] /\ \A f, g \in Fields : Owed'[w][f] = Owed'[w][g]
<1>. USE DEF FinishClock, Goto, shared
<1>0. pc \in [Workers -> PCs] /\ field \in [Workers -> Fields] BY DEF IInv, TypeOK
<1>1. Total' = Total BY DEF Total
<1>2. delta'[w] \in Nat /\ measured' = measured + delta'[w] BY DEF IInv, TypeOK, StartInPast
<1>3. Owed[w] = Acc!Nothing BY DEF Owed, Acc!Nothing
<1>4. Owed'[w] = [f \in Fields |-> delta'[w]] BY <1>0 DEF Owed, Fields
<1>5. Owed' = [Owed EXCEPT ![w] = Owed'[w]]
  <2>1. \A v \in Workers : v # w => Owed'[v] = Owed[v] BY <1>0 DEF Owed, IInv, TypeOK
  <2>2. Owed = [v \in Workers |-> Owed[v]] /\ Owed' = [v \in Workers |-> Owed'[v]] BY DEF Owed
  <2>. HIDE DEF FinishClock
  <2>. QED BY <2>1, <2>2
<1>. QED BY <1>1, <1>2, <1>3, <1>4, <1>5

(* The steps of a worker that neither measure nor add. *)
Elsewhere(w) ==
  \/ StartRead(w) \/ StartIncr(w) \/ StartStore(w) \/ StartClock(w)
  \/ FinishRead(w) \/ Get(w) \/ CompareAndSetFails(w) \/ FinishStore(w)

LEMMA AccElsewhere ==
  ASSUME IInv, NEW w \in Workers, Elsewhere(w)
  PROVE  UNCHANGED <<profile_stack, Total, Owed, measured, now, opened>>
<1>0. pc \in [Workers -> PCs] /\ field \in [Workers -> Fields] BY DEF IInv, TypeOK
<1>1. CASE \/ StartRead(w) \/ StartIncr(w) \/ StartClock(w) \/ FinishRead(w)
           \/ Get(w) \/ CompareAndSetFails(w)
  <2>. USE <1>1 DEF StartRead, StartIncr, StartClock, FinishRead, ReadStack, Get,
                    CompareAndSetFails, Goto, shared, locals
  <2>1. Total' = Total BY DEF Total
  <2>2. \A v \in Workers : /\ delta'[v] = delta[v] /\ field'[v] = field[v]
                           /\ pc'[v] \in {"get", "cas"} <=> pc[v] \in {"get", "cas"}
    BY <1>0 DEF PCs
  <2>3. Owed' = Owed BY <2>2 DEF Owed
  <2>. QED BY <2>1, <2>3
<1>2. CASE StartStore(w) \/ FinishStore(w)
  <2>. USE <1>2 DEF StartStore, FinishStore, StoreStack, Goto, locals
  <2>1. profile_stack' = profile_stack /\ Total' = Total BY StepStore DEF Total
  <2>2. \A v \in Workers : /\ delta'[v] = delta[v] /\ field'[v] = field[v]
                           /\ pc'[v] \in {"get", "cas"} <=> pc[v] \in {"get", "cas"}
    BY <1>0 DEF PCs
  <2>3. Owed' = Owed BY <2>2 DEF Owed
  <2>. QED BY <2>1, <2>3
<1>. QED BY <1>1, <1>2 DEF Elsewhere

LEMMA AccStep == IInv /\ [Next]_vars => [Acc!Next]_(Acc!vars)
<1>. SUFFICES ASSUME IInv, [Next]_vars PROVE [Acc!Next]_(Acc!vars) OBVIOUS
<1>0. pc \in [Workers -> PCs] /\ field \in [Workers -> Fields] BY DEF IInv, TypeOK
<1>1. ASSUME NEW w \in Workers, CompareAndSet(w) PROVE Acc!Next
  BY <1>0, <1>1, AccCredit DEF Acc!Next
<1>2. ASSUME NEW w \in Workers, FinishClock(w) PROVE Acc!Next
  BY <1>2, AccIncur DEF Acc!Next, Acc!Incur
<1>3. ASSUME NEW w \in Workers, Elsewhere(w) PROVE UNCHANGED Acc!vars
  BY <1>3, AccElsewhere DEF Acc!vars
<1>5. CASE Start
  <2>1. Total' = Zeros
    <3>1. passes' \in Profiles BY <1>5 DEF Start, IInv, TypeOK, Profiles
    <3>2. profile_stack' = <<passes'>> BY <1>5 DEF Start
    <3>3. smt_time'[passes'] = Zeros BY <1>5, <3>1 DEF Start, IInv, TypeOK
    <3>. QED BY <3>2, <3>3 DEF Total
  <2>2. Owed' = Owed BY <1>5 DEF Start, Owed, locals
  <2>. QED BY <1>5, <2>1, <2>2, AccStart DEF Start, Acc!Next, Acc!Reset, Acc!Nothing, Zeros
<1>6. CASE Finish
  <2>1. Total' = Zeros BY <1>6, StepFinish DEF Total
  <2>2. Owed' = Owed BY <1>6 DEF Finish, Owed, locals
  <2>. QED BY <1>6, <2>1, <2>2, AccStart DEF Finish, Acc!Next, Acc!Reset, Acc!Nothing, Zeros
<1>7. CASE Tick \/ UNCHANGED vars
  <2>1. Total' = Total BY <1>7 DEF Tick, shared, vars, Total
  <2>2. Owed' = Owed BY <1>7 DEF Tick, locals, vars, Owed
  <2>. QED BY <2>1, <2>2 DEF Acc!vars
<1>. QED BY <1>1, <1>2, <1>3, <1>5, <1>6, <1>7 DEF Next, Step, Elsewhere

(* The counters of finish_smt (bin/profile.ml:79-122) are indivisible      *)
(* accumulators for any number of domains: no duration is lost, added      *)
(* twice or added to another pass.                                         *)
THEOREM CountersAccumulate == Spec => Accumulates
<1>1. Init => Acc!Init
  BY DEF Init, Acc!Init, Acc!Nothing, Total, Owed, Zeros
<1>. QED BY <1>1, AccStep, Invariance, PTL DEF Spec, Accumulates, Acc!Spec
-----------------------------------------------------------------------------
(* Sums over the workers.  The units of a: a[w] of them for each w.        *)
Units(a) == {u \in Workers \X (Nat \ {0}) : u[2] <= a[u[1]]}
SumOf(a) == Cardinality(Units(a))

LEMMA RowFacts ==
  ASSUME NEW w \in Workers, NEW n \in Nat
  PROVE  IsFiniteSet({w} \X (1 .. n)) /\ Cardinality({w} \X (1 .. n)) = n
<1>1. IsFiniteSet({w}) /\ Cardinality({w}) = 1 BY FS_Singleton
<1>2. IsFiniteSet(1 .. n) /\ Cardinality(1 .. n) = n BY FS_Interval
<1>3. IsFiniteSet({w} \X (1 .. n)) /\ Cardinality({w} \X (1 .. n)) = Cardinality({w}) * Cardinality(1 .. n)
  BY <1>1, <1>2, FS_Product
<1>. QED BY <1>1, <1>2, <1>3

LEMMA SumFinite ==
  ASSUME NEW a \in [Workers -> Nat]
  PROVE  IsFiniteSet(Units(a)) /\ SumOf(a) \in Nat
<1>. DEFINE row == [w \in Workers |-> {w} \X (1 .. a[w])]
            rows == {row[w] : w \in Workers}
<1>1. row \in Surjection(Workers, rows) BY DEF Surjection
<1>2. IsFiniteSet(rows) BY <1>1, WorkersAssumption, FS_Surjection
<1>3. \A T \in rows : IsFiniteSet(T) BY RowFacts
<1>4. IsFiniteSet(UNION rows) BY <1>2, <1>3, FS_UNION
<1>5. Units(a) \subseteq UNION rows BY DEF Units
<1>. QED BY <1>4, <1>5, FS_Subset, FS_CardinalityType DEF SumOf

LEMMA SumZero ==
  ASSUME NEW a, \A w \in Workers : a[w] = 0 PROVE SumOf(a) = 0
<1>1. Units(a) = {} BY DEF Units
<1>. QED BY <1>1, FS_EmptySet DEF SumOf

(* What one worker contributes. *)
LEMMA SumSplit ==
  ASSUME NEW a \in [Workers -> Nat], NEW w \in Workers
  PROVE  SumOf(a) = SumOf([a EXCEPT ![w] = 0]) + a[w]
<1>. DEFINE rest == [a EXCEPT ![w] = 0]
            R == Units(rest)
            T == {w} \X (1 .. a[w])
<1>0. rest \in [Workers -> Nat] /\ a[w] \in Nat OBVIOUS
<1>1. Units(a) = R \union T
  <2>1. \A u \in Workers \X (Nat \ {0}) :
          u[2] <= a[u[1]] <=> (u[2] <= rest[u[1]] \/ u \in T)
    <3>. SUFFICES ASSUME NEW v \in Workers, NEW k \in Nat \ {0}
                  PROVE  k <= a[v] <=> (k <= rest[v] \/ <<v, k>> \in T)
      OBVIOUS
    <3>1. CASE v = w
      <4>1. rest[v] = 0 BY <3>1
      <4>2. <<v, k>> \in T <=> k \in 1 .. a[w] BY <3>1
      <4>. QED BY <1>0, <3>1, <4>1, <4>2
    <3>2. CASE v # w
      <4>1. rest[v] = a[v] /\ <<v, k>> \notin T BY <3>2
      <4>. QED BY <4>1
    <3>. QED BY <3>1, <3>2
  <2>2. T \subseteq Workers \X (Nat \ {0}) OBVIOUS
  <2>. QED BY <2>1, <2>2 DEF Units
<1>2. R \intersect T = {}
  <2>. SUFFICES ASSUME NEW u \in R, u \in T PROVE FALSE OBVIOUS
  <2>1. u[1] = w /\ u[2] \in Nat \ {0} /\ u[2] <= rest[u[1]] BY DEF Units
  <2>2. rest[w] = 0 OBVIOUS
  <2>. QED BY <2>1, <2>2
<1>3. /\ IsFiniteSet(R) /\ Cardinality(R) \in Nat /\ IsFiniteSet(T) /\ Cardinality(T) = a[w]
  BY <1>0, SumFinite, RowFacts DEF SumOf
<1>. HIDE DEF R, T
<1>4. Cardinality(R \union T) = Cardinality(R) + Cardinality(T) - Cardinality({})
  BY <1>2, <1>3, FS_Union
<1>5. Cardinality(R \union T) = Cardinality(R) + a[w] BY <1>0, <1>3, <1>4, FS_EmptySet
<1>. QED BY <1>1, <1>5 DEF SumOf, R

LEMMA SumChange ==
  ASSUME NEW a \in [Workers -> Nat], NEW w \in Workers, NEW n \in Nat
  PROVE  SumOf([a EXCEPT ![w] = n]) + a[w] = SumOf(a) + n
<1>. DEFINE b == [a EXCEPT ![w] = n]
<1>1. b \in [Workers -> Nat] /\ b[w] = n /\ [b EXCEPT ![w] = 0] = [a EXCEPT ![w] = 0] OBVIOUS
<1>2. SumOf(a) = SumOf([a EXCEPT ![w] = 0]) + a[w] BY SumSplit
<1>. HIDE DEF b
<1>3. SumOf(b) = SumOf([b EXCEPT ![w] = 0]) + b[w] BY <1>1, SumSplit
<1>4. [a EXCEPT ![w] = 0] \in [Workers -> Nat] /\ a[w] \in Nat OBVIOUS
<1>5. SumOf([a EXCEPT ![w] = 0]) \in Nat BY <1>4, SumFinite
<1>6. SumOf(b) + a[w] = SumOf(a) + n BY <1>1, <1>2, <1>3, <1>4, <1>5
<1>. QED BY <1>6 DEF b

(* One more for some of the workers is at most one more for each. *)
LEMMA SumTick ==
  ASSUME NEW a \in [Workers -> Nat], NEW b \in [Workers -> Nat],
         \A w \in Workers : b[w] <= a[w] + 1
  PROVE  SumOf(b) <= SumOf(a) + Cardinality(Workers)
<1>. DEFINE last == [w \in Workers |-> <<w, a[w] + 1>>]
            L == {last[w] : w \in Workers}
<1>1. last \in Surjection(Workers, L) BY DEF Surjection
<1>2. IsFiniteSet(L) /\ Cardinality(L) <= Cardinality(Workers)
  BY <1>1, WorkersAssumption, FS_Surjection
<1>3. Units(b) \subseteq Units(a) \union L
  <2>. SUFFICES ASSUME NEW v \in Workers, NEW k \in Nat \ {0}, k <= b[v], ~(k <= a[v])
                PROVE  <<v, k>> \in L
    BY DEF Units
  <2>1. k = a[v] + 1
    <3>1. a[v] \in Nat /\ b[v] \in Nat /\ b[v] <= a[v] + 1 OBVIOUS
    <3>. QED BY <3>1
  <2>2. <<v, k>> = last[v] BY <2>1
  <2>. QED BY <2>2
<1>4. IsFiniteSet(Units(a)) /\ Cardinality(Units(a)) \in Nat BY SumFinite DEF SumOf
<1>5. Cardinality(Workers) \in Nat BY WorkersAssumption, FS_CardinalityType
<1>. HIDE DEF L
<1>6. IsFiniteSet(L) /\ Cardinality(L) \in Nat /\ Cardinality(Units(a) \intersect L) \in Nat
  BY <1>2, <1>4, FS_CardinalityType, FS_Intersection
<1>7. /\ IsFiniteSet(Units(a) \union L)
      /\ Cardinality(Units(a) \union L) =
           Cardinality(Units(a)) + Cardinality(L) - Cardinality(Units(a) \intersect L)
  BY <1>4, <1>6, FS_Union
<1>8. Cardinality(Units(b)) <= Cardinality(Units(a) \union L) BY <1>3, <1>7, FS_Subset
<1>9. Cardinality(Units(b)) \in Nat BY SumFinite DEF SumOf
<1>. QED BY <1>2, <1>4, <1>5, <1>6, <1>7, <1>8, <1>9 DEF SumOf
-----------------------------------------------------------------------------
(* The times.  What a field has and what is still owed to it make up what  *)
(* was measured since the pass began.                                      *)
OwedTo(f) == [w \in Workers |-> Owed[w][f]]

TimesAddUp ==
  profile_stack # << >> => \A f \in Fields : Total[f] + SumOf(OwedTo(f)) = measured

LEMMA OwedType == ASSUME IInv PROVE \A f \in Fields : OwedTo(f) \in [Workers -> Nat]
BY DEF IInv, TypeOK, OwedTo, Owed

LEMMA TotalType == ASSUME IInv PROVE Total \in [Fields -> Nat]
<1>1. CASE profile_stack = << >> BY <1>1 DEF Total, Zeros
<1>2. CASE profile_stack # << >>
  <2>1. Head(profile_stack) \in Profiles BY <1>2 DEF IInv, TypeOK
  <2>. QED BY <1>2, <2>1 DEF IInv, TypeOK, Total
<1>. QED BY <1>1, <1>2

LEMMA TimesStep == IInv /\ TimesAddUp /\ [Next]_vars => TimesAddUp'
<1>. SUFFICES ASSUME IInv, TimesAddUp, [Next]_vars PROVE TimesAddUp' OBVIOUS
<1>1. ASSUME NEW w \in Workers, CompareAndSet(w) PROVE TimesAddUp'
  <2>. DEFINE g == field[w]
  <2>1. Acc!Credit(w, g) /\ UNCHANGED <<profile_stack, measured>>
    BY <1>1, AccCredit DEF CompareAndSet, PutBox
  <2>2. profile_stack # << >> BY <1>1, UpdateSees DEF CompareAndSet, PutBox, Goto, InUpdate
  <2>3. g \in Fields BY DEF IInv, TypeOK
  <2>. SUFFICES ASSUME NEW f \in Fields PROVE Total'[f] + SumOf(OwedTo(f)') = measured
    BY <2>1 DEF TimesAddUp
  <2>4. Total[f] + SumOf(OwedTo(f)) = measured BY <2>2 DEF TimesAddUp
  <2>5. /\ Total \in [Fields -> Nat] /\ OwedTo(f) \in [Workers -> Nat]
        /\ Owed' = [Owed EXCEPT ![w][g] = 0] /\ Total' = [Total EXCEPT ![g] = @ + Owed[w][g]]
        /\ Owed = [v \in Workers |-> [h \in Fields |-> Owed[v][h]]]
    BY <2>1, TotalType, OwedType DEF Acc!Credit, Owed
  <2>. HIDE DEF g
  <2>6. CASE f = g
    <3>1. OwedTo(f)' = [OwedTo(f) EXCEPT ![w] = 0] BY <2>5, <2>6 DEF OwedTo
    <3>2. SumOf(OwedTo(f)') + OwedTo(f)[w] = SumOf(OwedTo(f)) BY <2>5, <3>1, SumSplit
    <3>3. Total'[f] = Total[f] + OwedTo(f)[w] BY <2>3, <2>5, <2>6 DEF OwedTo
    <3>4. SumOf(OwedTo(f)') \in Nat
      <4>1. OwedTo(f)' \in [Workers -> Nat] BY <2>5, <3>1
      <4>. QED BY <4>1, SumFinite
    <3>5. OwedTo(f)[w] \in Nat /\ Total[f] \in Nat /\ SumOf(OwedTo(f)) \in Nat BY <2>5, SumFinite
    <3>. QED BY <2>4, <3>2, <3>3, <3>4, <3>5
  <2>7. CASE f # g
    <3>1. OwedTo(f)' = OwedTo(f) BY <2>5, <2>7 DEF OwedTo
    <3>2. Total'[f] = Total[f] BY <2>5, <2>7
    <3>. QED BY <2>4, <3>1, <3>2
  <2>. QED BY <2>6, <2>7
<1>2. ASSUME NEW w \in Workers, FinishClock(w) PROVE TimesAddUp'
  <2>1. profile_stack # << >> /\ profile_stack' = profile_stack
    BY <1>2, UpdateSees DEF FinishClock, Goto, InUpdate, shared
  <2>. SUFFICES ASSUME NEW f \in Fields PROVE Total'[f] + SumOf(OwedTo(f)') = measured'
    BY DEF TimesAddUp
  <2>2. Total[f] + SumOf(OwedTo(f)) = measured BY <2>1 DEF TimesAddUp
  <2>3. /\ Total' = Total /\ Owed[w] = Acc!Nothing /\ delta'[w] \in Nat
        /\ measured' = measured + delta'[w]
        /\ Owed'[w] = [h \in Fields |-> delta'[w]] /\ Owed' = [Owed EXCEPT ![w] = Owed'[w]]
    BY <1>2, AccIncur
  <2>4. Total[f] \in Nat /\ OwedTo(f) \in [Workers -> Nat] BY TotalType, OwedType
  <2>5. Owed'[w][f] = delta'[w] /\ OwedTo(f)[w] = 0 BY <2>3 DEF Acc!Nothing, OwedTo
  <2>6. OwedTo(f)' = [OwedTo(f) EXCEPT ![w] = delta'[w]] BY <2>3, <2>5 DEF OwedTo, Owed
  <2>7. SumOf(OwedTo(f)') + OwedTo(f)[w] = SumOf(OwedTo(f)) + delta'[w]
    <3>1. \A n \in Nat : SumOf([OwedTo(f) EXCEPT ![w] = n]) + OwedTo(f)[w] = SumOf(OwedTo(f)) + n
      BY <2>4, SumChange
    <3>. QED BY <2>3, <2>6, <3>1
  <2>8. OwedTo(f)' \in [Workers -> Nat] BY <2>3, <2>4, <2>6
  <2>9. SumOf(OwedTo(f)) \in Nat /\ SumOf(OwedTo(f)') \in Nat BY <2>4, <2>8, SumFinite
  <2>. QED BY <2>2, <2>3, <2>4, <2>5, <2>7, <2>9
<1>3. ASSUME NEW w \in Workers, Elsewhere(w) PROVE TimesAddUp'
  <2>1. UNCHANGED <<profile_stack, Total, Owed, measured>> BY <1>3, AccElsewhere
  <2>. QED BY <2>1 DEF TimesAddUp, OwedTo
<1>4. CASE Start
  <2>1. measured' = 0 /\ Owed' = [v \in Workers |-> Zeros]
    BY <1>4, AccStart DEF Start, Owed, locals
  <2>2. Total' = Zeros
    <3>1. passes' \in Profiles BY <1>4 DEF Start, IInv, TypeOK, Profiles
    <3>2. profile_stack' = <<passes'>> BY <1>4 DEF Start
    <3>3. smt_time'[passes'] = Zeros BY <1>4, <3>1 DEF Start, IInv, TypeOK
    <3>. QED BY <3>2, <3>3 DEF Total
  <2>. SUFFICES ASSUME NEW f \in Fields PROVE Total'[f] + SumOf(OwedTo(f)') = measured'
    BY DEF TimesAddUp
  <2>3. \A v \in Workers : OwedTo(f)'[v] = 0 BY <2>1 DEF OwedTo, Zeros
  <2>4. SumOf(OwedTo(f)') = 0 BY <2>3, SumZero
  <2>. QED BY <2>1, <2>2, <2>4 DEF Zeros
<1>5. CASE Finish BY <1>5, StepFinish DEF TimesAddUp
<1>6. CASE Tick \/ UNCHANGED vars
  <2>1. UNCHANGED <<profile_stack, Total, Owed, measured>>
    BY <1>6 DEF Tick, shared, locals, vars, Total, Owed
  <2>. QED BY <2>1 DEF TimesAddUp, OwedTo
<1>. QED BY <1>1, <1>2, <1>3, <1>4, <1>5, <1>6 DEF Next, Step, Elsewhere

LEMMA TimesInvariant == Spec => []TimesAddUp
<1>1. Init => TimesAddUp BY DEF Init, TimesAddUp
<1>. QED BY <1>1, TimesStep, Invariance, PTL DEF Spec

(* Whenever no call is in progress the five times of the open profile are  *)
(* the durations measured since Profile.start (bin/profile.ml, finish_smt  *)
(* and print), for any number of domains and any interleaving.             *)
THEOREM TimesExact == Spec => []QuietTimesExact
<1>1. ASSUME IInv, TimesAddUp, Quiet, profile_stack # << >>, NEW f \in Fields
      PROVE  smt_time[Head(profile_stack)][f] = measured
  <2>1. Total[f] + SumOf(OwedTo(f)) = measured BY <1>1 DEF TimesAddUp
  <2>2. \A v \in Workers : OwedTo(f)[v] = 0 BY <1>1, AccStart DEF OwedTo, Zeros
  <2>3. SumOf(OwedTo(f)) = 0 BY <2>2, SumZero
  <2>4. Total[f] \in Nat /\ Total[f] = smt_time[Head(profile_stack)][f]
    BY <1>1, TotalType DEF Total
  <2>. QED BY <2>1, <2>3, <2>4
<1>2. IInv /\ TimesAddUp => QuietTimesExact BY <1>1 DEF QuietTimesExact
<1>. QED BY <1>2, Invariance, TimesInvariant, PTL
-----------------------------------------------------------------------------
(* The wall time.  A call being measured began inside the pass; with the   *)
(* calls that are being measured, no more can have been measured than the  *)
(* time since the pass began for each worker.                              *)
Clocked(w) == pc[w] \in {"smt", "measure"}
Elapsed == [w \in Workers |-> IF Clocked(w) THEN now - start[w] ELSE 0]
Workforce == Cardinality(Workers)

InsidePass ==
  /\ opened <= now
  /\ \A w \in Workers : Clocked(w) => opened <= start[w]

MeasuredBounded ==
  profile_stack # << >> => measured + SumOf(Elapsed) <= Workforce * (now - opened)

LEMMA ElapsedType ==
  ASSUME IInv, InsidePass
  PROVE  Elapsed \in [Workers -> Nat] /\ SumOf(Elapsed) \in Nat /\ Workforce \in Nat
<1>1. \A w \in Workers : now - start[w] \in Nat BY DEF IInv, TypeOK, StartInPast
<1>2. Elapsed \in [Workers -> Nat] BY <1>1 DEF Elapsed
<1>. QED BY <1>2, SumFinite, WorkersAssumption, FS_CardinalityType DEF Workforce

LEMMA InsideStep == IInv /\ InsidePass /\ [Next]_vars => InsidePass'
<1>. SUFFICES ASSUME IInv, InsidePass, [Next]_vars PROVE InsidePass' OBVIOUS
<1>0. pc \in [Workers -> PCs] /\ start \in [Workers -> Nat] /\ now \in Nat /\ opened \in Nat
  BY DEF IInv, TypeOK
<1>1. ASSUME NEW w \in Workers, Step(w), ~StartClock(w) PROVE InsidePass'
  <2>1. UNCHANGED <<now, opened, start>> /\ \A v \in Workers : Clocked(v)' => Clocked(v)
    BY <1>0, <1>1 DEF Step, StartRead, StartIncr, StartStore, FinishRead, FinishClock, Get,
       CompareAndSet, CompareAndSetFails, FinishStore, ReadStack, StoreStack, PutBox, Goto,
       shared, locals, Clocked, PCs
  <2>. QED BY <2>1 DEF InsidePass
<1>2. ASSUME NEW w \in Workers, StartClock(w) PROVE InsidePass'
  <2>1. /\ UNCHANGED <<now, opened>> /\ start'[w] = now
        /\ \A v \in Workers : v # w => start'[v] = start[v] /\ (Clocked(v)' <=> Clocked(v))
    BY <1>0, <1>2 DEF StartClock, Goto, Clocked, shared
  <2>. QED BY <2>1 DEF InsidePass
<1>3. CASE Start
  <2>1. opened' = now /\ now' = now /\ \A v \in Workers : ~Clocked(v)'
    BY <1>3 DEF Start, Quiet, Clocked
  <2>. QED BY <1>0, <2>1 DEF InsidePass
<1>4. CASE Finish \/ UNCHANGED vars
  BY <1>4 DEF Finish, vars, locals, InsidePass, Clocked
<1>5. CASE Tick
  <2>1. now' = now + 1 /\ UNCHANGED <<opened, start, pc>> BY <1>5 DEF Tick, locals
  <2>. QED BY <1>0, <2>1 DEF InsidePass, Clocked
<1>. QED BY <1>1, <1>2, <1>3, <1>4, <1>5 DEF Next

LEMMA BoundStep == IInv /\ InsidePass /\ MeasuredBounded /\ [Next]_vars => MeasuredBounded'
<1>. SUFFICES ASSUME IInv, InsidePass, MeasuredBounded, [Next]_vars PROVE MeasuredBounded' OBVIOUS
<1>0. /\ pc \in [Workers -> PCs] /\ start \in [Workers -> Nat] /\ now \in Nat /\ opened \in Nat
      /\ measured \in Nat /\ opened <= now
  BY DEF IInv, TypeOK, InsidePass
<1>e. Elapsed \in [Workers -> Nat] /\ SumOf(Elapsed) \in Nat /\ Workforce \in Nat BY ElapsedType
<1>1. ASSUME NEW w \in Workers, Elsewhere(w) PROVE MeasuredBounded'
  <2>1. UNCHANGED <<profile_stack, measured, now, opened>> BY <1>1, AccElsewhere
  <2>2. ASSUME profile_stack # << >> PROVE Elapsed' = Elapsed
    <3>1. CASE StartClock(w)
      <4>1. start'[w] = now /\ ~Clocked(w) /\ now' = now
            /\ \A v \in Workers : v # w => start'[v] = start[v] /\ (Clocked(v)' <=> Clocked(v))
        BY <1>0, <3>1 DEF StartClock, Goto, Clocked, shared
      <4>2. \A v \in Workers : (IF Clocked(v)' THEN now' - start'[v] ELSE 0)
                                = (IF Clocked(v) THEN now - start[v] ELSE 0)
        BY <1>0, <4>1
      <4>. QED BY <4>2 DEF Elapsed
    <3>2. CASE ~StartClock(w)
      <4>1. UNCHANGED <<now, start>> /\ \A v \in Workers : Clocked(v)' <=> Clocked(v)
        BY <1>0, <1>1, <2>2, <3>2 DEF Elsewhere, StartRead, StartIncr, StartStore, FinishRead, Get,
           CompareAndSetFails, FinishStore, ReadStack, StoreStack, Goto, shared, locals,
           Clocked, PCs
      <4>. QED BY <4>1 DEF Elapsed
    <3>. QED BY <3>1, <3>2
  <2>. QED BY <2>1, <2>2 DEF MeasuredBounded
<1>2. ASSUME NEW w \in Workers, FinishClock(w) PROVE MeasuredBounded'
  <2>1. /\ UNCHANGED <<profile_stack, now, opened, start>> /\ Clocked(w) /\ ~Clocked(w)'
        /\ measured' = measured + (now - start[w])
        /\ \A v \in Workers : v # w => (Clocked(v)' <=> Clocked(v))
    BY <1>0, <1>2 DEF FinishClock, Goto, Clocked, shared
  <2>2. Elapsed[w] = now - start[w] /\ Elapsed' = [Elapsed EXCEPT ![w] = 0] BY <2>1 DEF Elapsed
  <2>3. SumOf(Elapsed) = SumOf(Elapsed') + Elapsed[w] BY <1>e, <2>2, SumSplit
  <2>4. SumOf(Elapsed') \in Nat /\ Elapsed[w] \in Nat
    <3>1. Elapsed' \in [Workers -> Nat] BY <1>e, <2>2
    <3>. QED BY <1>e, <3>1, SumFinite
  <2>5. measured' + SumOf(Elapsed') = measured + SumOf(Elapsed) BY <1>0, <1>e, <2>1, <2>2, <2>3, <2>4
  <2>. QED BY <2>1, <2>5 DEF MeasuredBounded
<1>3. ASSUME NEW w \in Workers, CompareAndSet(w) PROVE MeasuredBounded'
  <2>1. UNCHANGED <<profile_stack, measured, now, opened, start>>
        /\ \A v \in Workers : Clocked(v)' <=> Clocked(v)
    BY <1>0, <1>3 DEF CompareAndSet, PutBox, Goto, Clocked
  <2>2. Elapsed' = Elapsed BY <2>1 DEF Elapsed
  <2>. QED BY <2>1, <2>2 DEF MeasuredBounded
<1>4. CASE Start
  <2>1. /\ opened' = now /\ now' = now /\ measured' = 0 /\ \A v \in Workers : ~Clocked(v)'
    BY <1>4 DEF Start, Quiet, Clocked
  <2>2. SumOf(Elapsed') = 0
    <3>1. \A v \in Workers : Elapsed'[v] = 0 BY <2>1 DEF Elapsed
    <3>. QED BY <3>1, SumZero
  <2>3. measured' + SumOf(Elapsed') <= Workforce * (now' - opened')
    BY <1>0, <1>e, <2>1, <2>2
  <2>. QED BY <2>3 DEF MeasuredBounded, Workforce
<1>5. CASE Finish BY <1>5, StepFinish DEF MeasuredBounded
<1>6. CASE Tick
  <2>1. now' = now + 1 /\ UNCHANGED <<opened, start, pc, measured, profile_stack>>
    BY <1>6 DEF Tick, locals, shared
  <2>2. Elapsed' \in [Workers -> Nat] /\ \A v \in Workers : Elapsed'[v] <= Elapsed[v] + 1
    BY <1>0, <1>e, <2>1 DEF Elapsed, Clocked, IInv, StartInPast
  <2>3. SumOf(Elapsed') <= SumOf(Elapsed) + Workforce BY <1>e, <2>2, SumTick DEF Workforce
  <2>4. SumOf(Elapsed') \in Nat BY <2>2, SumFinite
  <2>5. Workforce * (now' - opened') = Workforce * (now - opened) + Workforce BY <1>0, <1>e, <2>1
  <2>6. Workforce * (now - opened) \in Nat BY <1>0, <1>e
  <2>7. ASSUME profile_stack # << >>
        PROVE  measured' + SumOf(Elapsed') <= Workforce * (now' - opened')
    <3>1. measured + SumOf(Elapsed) <= Workforce * (now - opened) BY <2>7 DEF MeasuredBounded
    <3>. QED BY <1>0, <1>e, <2>1, <2>3, <2>4, <2>5, <2>6, <3>1
  <2>. QED BY <2>1, <2>7 DEF MeasuredBounded, Workforce
<1>7. CASE UNCHANGED vars
  <2>1. Elapsed' = Elapsed BY <1>7 DEF vars, Elapsed, Clocked
  <2>. QED BY <1>7, <2>1 DEF vars, MeasuredBounded
<1>. QED BY <1>1, <1>2, <1>3, <1>4, <1>5, <1>6, <1>7 DEF Next, Step, Elsewhere

(* The wall time a pass reports is at most the number of workers times the *)
(* time the pass took (bin/profile.ml, finish_smt), for any number of      *)
(* domains, interleaving and clock.                                        *)
THEOREM WallTimeSafe == Spec => []WallTimeBounded
<1>1. Init => InsidePass /\ MeasuredBounded
  BY DEF Init, InsidePass, MeasuredBounded, Clocked
<1>2. ASSUME IInv, TimesAddUp, InsidePass, MeasuredBounded, profile_stack # << >>
      PROVE  smt_time[Head(profile_stack)][wtime] <= Cardinality(Workers) * (now - opened)
  <2>1. Total[wtime] + SumOf(OwedTo(wtime)) = measured BY <1>2, FieldsFacts DEF TimesAddUp
  <2>2. Total[wtime] \in Nat /\ SumOf(OwedTo(wtime)) \in Nat
    BY <1>2, FieldsFacts, TotalType, OwedType, SumFinite
  <2>3. Total[wtime] = smt_time[Head(profile_stack)][wtime] BY <1>2 DEF Total
  <2>4. measured + SumOf(Elapsed) <= Workforce * (now - opened) BY <1>2 DEF MeasuredBounded
  <2>5. SumOf(Elapsed) \in Nat /\ Workforce \in Nat /\ measured \in Nat /\ now \in Nat /\ opened \in Nat
    BY <1>2, ElapsedType DEF IInv, TypeOK
  <2>6. Workforce * (now - opened) \in Int BY <2>5
  <2>7. Total[wtime] <= Workforce * (now - opened) BY <2>1, <2>2, <2>4, <2>5, <2>6
  <2>. QED BY <2>3, <2>7 DEF Workforce
<1>3. IInv /\ TimesAddUp /\ InsidePass /\ MeasuredBounded => WallTimeBounded
  BY <1>2 DEF WallTimeBounded
<1>. QED BY <1>1, <1>3, InsideStep, BoundStep, Invariance, TimesInvariant, PTL DEF Spec
=============================================================================
