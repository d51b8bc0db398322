---------------------------- MODULE Z3MiniProofs ----------------------------
(***************************************************************************)
(* Z3Mini.tla for any number of callers, contexts and programs, and any    *)
(* answers of Z3: whatever is called in whatever order, and whichever call *)
(* into Z3 fails, a verdict and a model are those of the program asked     *)
(* about, the solver's stack stays two scopes deep and nothing but the     *)
(* block of a failed mk is lost.  The one premise is Exclusive: a context  *)
(* is used by one caller at a time.                                        *)
(***************************************************************************)
EXTENDS Z3Mini, SequenceTheorems, TLAPS

(* Two callers at work do not work on the same context. *)
Apart ==
  \A t, u \in Callers : pc[t] # "idle" /\ pc[u] # "idle" /\ on[t] = on[u] => t = u

(* What mk has allocated before each of its steps. *)
Before ==
  [malloc |-> {}, config |-> {"block"}, context |-> {"block", "config"},
   solver |-> {"block", "context"}]

MakingOK(t) ==
  pc[t] \in MakePCs => stage[on[t]] = "making" /\ held[on[t]] = Before[pc[t]]

(* The stack while a function is at work: the base is empty under a push,  *)
(* and the program is in the scope on top once it is parsed.               *)
Stack(f, ps) == IF Pushes(f) THEN << {}, ps >> ELSE << ps >>

ScopesOK(t) ==
  /\ pc[t] = "push" => scopes[on[t]] = << {} >> /\ Pushes(fn[t])
  /\ pc[t] = "parse" => scopes[on[t]] = Stack(fn[t], {})
  /\ pc[t] \in {"check", "pop", "model", "copy"} =>
       scopes[on[t]] = Stack(fn[t], Asserted(smt2[t]))

CheckingOK(t) ==
  /\ pc[t] \in CheckPCs => stage[on[t]] = "ready" /\ model[t] = {}
  /\ pc[t] = "pop" => fn[t] = "reset_push_pop"
  /\ pc[t] \in {"model", "copy"} => fn[t] = "get_model" /\ result[t] = "True"
  /\ pc[t] = "copy" => buffer[on[t]] = Asserted(smt2[t])

(* A model stays until its caller's next call. *)
ModelOK(t) ==
  model[t] # {} => fn[t] = "get_model" /\ result[t] = "True" /\ model[t] = {Asserted(smt2[t])}

CallerOK(t) == MakingOK(t) /\ ScopesOK(t) /\ CheckingOK(t) /\ ModelOK(t)

ContextOK(c) ==
  /\ stage[c] # "making" => held[c] \in Owns[stage[c]]
  /\ IF stage[c] = "ready" THEN Len(scopes[c]) \in 1 .. 2 ELSE scopes[c] = << >>

IInv ==
  /\ TypeOK /\ Apart
  /\ \A t \in Callers : CallerOK(t)
  /\ \A c \in Ctxs : ContextOK(c)

USE AnswerAssumption
-----------------------------------------------------------------------------
LEMMA AssertedIsPrograms ==
  ASSUME NEW p \in Programs PROVE Asserted(p) \in SUBSET Programs
BY DEF Asserted

LEMMA PossibleIsVerdicts ==
  ASSUME NEW ps \in SUBSET Programs PROVE Possible(ps) \subseteq Verdicts
<1>1. CASE \E p \in ps : ps = {p}
  <2>1. PICK p \in ps : ps = {p} BY <1>1
  <2>2. (CHOOSE q \in ps : TRUE) \in Programs BY <2>1
  <2>. QED BY <2>1, <2>2 DEF Possible, Verdicts
<1>2. CASE ~ \E p \in ps : ps = {p} BY <1>2 DEF Possible, Verdicts
<1>. QED BY <1>1, <1>2

(* All of the stack counts, and in these stacks that is the program. *)
LEMMA VisibleInStack ==
  ASSUME NEW c \in Ctxs, NEW f, NEW ps, scopes[c] = Stack(f, ps)
  PROVE  Visible(c) = ps
<1>1. CASE scopes[c] = << ps >>
  <2>1. Len(scopes[c]) = 1 /\ scopes[c][1] = ps BY <1>1
  <2>. QED BY <2>1 DEF Visible
<1>2. CASE scopes[c] = << {}, ps >>
  <2>1. Len(scopes[c]) = 2 /\ scopes[c][1] = {} /\ scopes[c][2] = ps BY <1>2
  <2>. QED BY <2>1 DEF Visible
<1>. QED BY <1>1, <1>2 DEF Stack

LEMMA StackLen == \A f, ps : Len(Stack(f, ps)) \in 1 .. 2
BY DEF Stack

LEMMA AppendToOne == \A a, b : Append(<< a >>, b) = << a, b >>
<1>. SUFFICES ASSUME NEW a, NEW b PROVE Append(<< a >>, b) = << a, b >> OBVIOUS
<1>1. << a >> \in Seq({a, b}) /\ << a, b >> \in Seq({a, b}) OBVIOUS
<1>2. Append(<< a >>, b) \in Seq({a, b}) /\ Len(Append(<< a >>, b)) = 2 BY <1>1
<1>3. Append(<< a >>, b)[1] = a /\ Append(<< a >>, b)[2] = b BY <1>1
<1>4. \A i \in 1 .. 2 : Append(<< a >>, b)[i] = << a, b >>[i] BY <1>3
<1>. QED BY <1>1, <1>2, <1>4, SeqEqual

LEMMA FirstOfTwo == \A a, b : SubSeq(<< a, b >>, 1, 1) = << a >>
<1>. SUFFICES ASSUME NEW a, NEW b PROVE SubSeq(<< a, b >>, 1, 1) = << a >> OBVIOUS
<1>1. << a >> \in Seq({a, b}) /\ << a, b >> \in Seq({a, b}) OBVIOUS
<1>2. /\ SubSeq(<< a, b >>, 1, 1) \in Seq({a, b})
      /\ Len(SubSeq(<< a, b >>, 1, 1)) = 1 /\ SubSeq(<< a, b >>, 1, 1)[1] = a
  BY <1>1
<1>3. \A i \in 1 .. 1 : SubSeq(<< a, b >>, 1, 1)[i] = << a >>[i] BY <1>2
<1>. QED BY <1>1, <1>2, <1>3, SeqEqual

(* A context mk has just made. *)
LEMMA ReadyContext ==
  ASSUME NEW c \in Ctxs, stage'[c] = "ready", held'[c] = {"block", "context", "solver"},
         scopes'[c] = << {} >>
  PROVE  ContextOK(c)'
<1>1. Len(scopes'[c]) = 1 OBVIOUS
<1>2. held'[c] \in Owns["ready"] BY DEF Owns
<1>. QED BY <1>1, <1>2 DEF ContextOK

(* A caller keeps its invariant when neither it nor the context it works   *)
(* on has changed.                                                         *)
LEMMA OtherCaller ==
  ASSUME NEW t \in Callers, CallerOK(t),
         pc'[t] = pc[t], on'[t] = on[t], fn'[t] = fn[t], smt2'[t] = smt2[t],
         result'[t] = result[t], model'[t] = model[t],
         pc[t] # "idle" => /\ stage'[on[t]] = stage[on[t]] /\ held'[on[t]] = held[on[t]]
                           /\ scopes'[on[t]] = scopes[on[t]]
                           /\ buffer'[on[t]] = buffer[on[t]]
  PROVE  CallerOK(t)'
BY DEF CallerOK, MakingOK, ScopesOK, CheckingOK, ModelOK, MakePCs, CheckPCs

(* So does a context. *)
LEMMA OtherContext ==
  ASSUME NEW c \in Ctxs, ContextOK(c),
         stage'[c] = stage[c], held'[c] = held[c], scopes'[c] = scopes[c]
  PROVE  ContextOK(c)'
BY DEF ContextOK

(* A caller at work that takes a step on its context: what is left to show *)
(* is that it and its context are right after it.                          *)
LEMMA StepOnContext ==
  ASSUME IInv, TypeOK', NEW t \in Callers, pc[t] # "idle",
         on' = on, fn' = fn, smt2' = smt2,
         \A u \in Callers \ {t} : pc'[u] = pc[u] /\ result'[u] = result[u] /\ model'[u] = model[u],
         \A c \in Ctxs \ {on[t]} : /\ stage'[c] = stage[c] /\ held'[c] = held[c]
                                   /\ scopes'[c] = scopes[c] /\ buffer'[c] = buffer[c],
         CallerOK(t)', ContextOK(on[t])'
  PROVE  IInv'
<1>1. Apart' BY DEF IInv, Apart
<1>2. ASSUME NEW u \in Callers PROVE CallerOK(u)'
  <2>1. CASE u = t BY <2>1
  <2>2. CASE u # t
    <3>1. pc[u] # "idle" => on[u] \in Ctxs \ {on[t]} BY <2>2 DEF IInv, Apart, TypeOK
    <3>2. CallerOK(u) BY DEF IInv
    <3>. QED BY <2>2, <3>1, <3>2, OtherCaller
  <2>. QED BY <2>1, <2>2
<1>3. ASSUME NEW c \in Ctxs PROVE ContextOK(c)'
  <2>1. CASE c = on[t] BY <2>1
  <2>2. CASE c # on[t] BY <2>2, OtherContext DEF IInv
  <2>. QED BY <2>1, <2>2
<1>. QED BY <1>1, <1>2, <1>3 DEF IInv
-----------------------------------------------------------------------------
LEMMA InitIInv == Init => IInv
<1>. SUFFICES ASSUME Init PROVE IInv OBVIOUS
<1>1. TypeOK BY DEF Init, TypeOK, Fns, Verdicts, MakePCs
<1>2. Apart BY DEF Init, Apart
<1>3. \A t \in Callers : CallerOK(t)
  BY DEF Init, CallerOK, MakingOK, ScopesOK, CheckingOK, ModelOK, MakePCs, CheckPCs
<1>4. \A c \in Ctxs : ContextOK(c) BY DEF Init, ContextOK, Owns
<1>. QED BY <1>1, <1>2, <1>3, <1>4 DEF IInv

LEMMA StepMake ==
  ASSUME IInv, NEW t \in Callers, NEW c \in Ctxs, Make(t, c) PROVE IInv'
<1>. USE DEF Make, Goto
<1>1. TypeOK' BY DEF IInv, TypeOK, MakePCs
<1>2. \A u \in Callers : pc[u] # "idle" => on[u] # c
  BY DEF IInv, CallerOK, MakingOK, CheckingOK, TypeOK
<1>3. Apart' BY <1>2 DEF IInv, Apart, TypeOK
<1>4. ASSUME NEW u \in Callers PROVE CallerOK(u)'
  <2>1. CASE u = t
    <3>1. held[c] = {} BY DEF IInv, ContextOK, Owns
    <3>2. pc'[t] = "malloc" /\ on'[t] = c /\ stage'[c] = "making" /\ held' = held
      BY DEF IInv, TypeOK
    <3>3. MakingOK(t)'
      <4>1. Before["malloc"] = {} BY DEF Before
      <4>2. held'[on'[t]] = Before[pc'[t]] BY <3>1, <3>2, <4>1
      <4>. HIDE DEF Make, Goto
      <4>. QED BY <3>2, <4>2 DEF MakingOK
    <3>4. ScopesOK(t)' /\ CheckingOK(t)' BY <3>2 DEF ScopesOK, CheckingOK, CheckPCs
    <3>5. ModelOK(t)' BY DEF IInv, CallerOK, ModelOK
    <3>. QED BY <2>1, <3>3, <3>4, <3>5 DEF CallerOK
  <2>2. CASE u # t
    <3>1. CallerOK(u) /\ pc'[u] = pc[u] /\ on'[u] = on[u] BY <2>2 DEF IInv, TypeOK
    <3>2. pc[u] # "idle" => stage'[on[u]] = stage[on[u]] BY <1>2 DEF IInv, TypeOK
    <3>. QED BY <3>1, <3>2, OtherCaller
  <2>. QED BY <2>1, <2>2
<1>5. ASSUME NEW d \in Ctxs PROVE ContextOK(d)'
  BY DEF IInv, TypeOK, ContextOK
<1>. QED BY <1>1, <1>3, <1>4, <1>5 DEF IInv

LEMMA StepDelete ==
  ASSUME IInv, NEW t \in Callers, NEW c \in Ctxs, Exclusive(t, c), Delete(t, c) PROVE IInv'
<1>. USE DEF Delete, caller
<1>1. TypeOK' BY DEF IInv, TypeOK
<1>2. \A u \in Callers : pc[u] # "idle" => on[u] # c BY DEF Exclusive
<1>3. Apart' BY DEF IInv, Apart
<1>4. ASSUME NEW u \in Callers PROVE CallerOK(u)'
  <2>1. pc[u] # "idle" => /\ stage'[on[u]] = stage[on[u]] /\ held'[on[u]] = held[on[u]]
                          /\ scopes'[on[u]] = scopes[on[u]]
    BY <1>2 DEF IInv, TypeOK
  <2>. QED BY <2>1, OtherCaller DEF IInv
<1>5. ASSUME NEW d \in Ctxs PROVE ContextOK(d)'
  <2>1. CASE d = c
    <3>1. held[c] = {"block", "context", "solver"} BY DEF IInv, ContextOK, Owns
    <3>. QED BY <2>1, <3>1 DEF IInv, TypeOK, ContextOK, Owns
  <2>2. CASE d # c BY <2>2, OtherContext DEF IInv, TypeOK
  <2>. QED BY <2>1, <2>2
<1>. QED BY <1>1, <1>3, <1>4, <1>5 DEF IInv

LEMMA StepCall ==
  ASSUME IInv, NEW t \in Callers, NEW c \in Ctxs, NEW f \in Fns, NEW p \in Programs,
         Call(t, c, f, p)
  PROVE  IInv'
<1>. USE DEF Call, Enter, Goto, solver
<1>1. TypeOK' BY DEF IInv, TypeOK, CheckPCs
<1>2. Apart' BY DEF IInv, Apart, TypeOK, Exclusive
<1>3. ASSUME NEW u \in Callers PROVE CallerOK(u)'
  <2>1. CASE u = t
    BY <2>1 DEF IInv, TypeOK, CallerOK, MakingOK, ScopesOK, CheckingOK, ModelOK, MakePCs, CheckPCs
  <2>2. CASE u # t
    <3>1. CallerOK(u) /\ pc'[u] = pc[u] /\ on'[u] = on[u] /\ fn'[u] = fn[u]
          /\ smt2'[u] = smt2[u] /\ model'[u] = model[u]
      BY <2>2 DEF IInv, TypeOK
    <3>. QED BY <3>1, OtherCaller
  <2>. QED BY <2>1, <2>2
<1>4. ASSUME NEW d \in Ctxs PROVE ContextOK(d)' BY DEF IInv, ContextOK
<1>. QED BY <1>1, <1>2, <1>3, <1>4 DEF IInv
(* The steps of mk: to the next step, or back to the caller with NULL. *)
LEMMA StepMaking ==
  ASSUME IInv, NEW t \in Callers, Making(t) PROVE IInv'
<1>. DEFINE c == on[t]
<1>. USE DEF Goto, caller
<1>0. /\ c \in Ctxs /\ pc[t] \in MakePCs /\ stage[c] = "making" /\ scopes[c] = << >>
      /\ held[c] = Before[pc[t]] /\ ModelOK(t)
  BY DEF IInv, TypeOK, CallerOK, MakingOK, ContextOK, MakePCs, Making, Malloc, MkConfig,
         MkContext, MkSolver, Made, ReturnsNull
<1>1. ASSUME NEW from \in MakePCs, NEW to \in MakePCs, NEW now \in SUBSET Things,
             Made(t, from, to, now), now = Before[to]
      PROVE  IInv'
  <2>. USE DEF Made
  <2>1. TypeOK' BY <1>1 DEF IInv, TypeOK
  <2>2. pc'[t] = to /\ held'[c] = now BY <1>1 DEF IInv, TypeOK
  <2>3. MakingOK(t)' BY <1>0, <1>1, <2>2 DEF MakingOK
  <2>4. ScopesOK(t)' /\ CheckingOK(t)' /\ ModelOK(t)'
    BY <1>0, <1>1, <2>2 DEF ScopesOK, CheckingOK, ModelOK, MakePCs, CheckPCs
  <2>5. ContextOK(c)' BY <1>0, <1>1 DEF ContextOK
  <2>. QED BY <1>0, <1>1, <2>1, <2>3, <2>4, <2>5, StepOnContext DEF CallerOK, IInv, TypeOK, MakePCs
<1>2. ASSUME NEW from \in MakePCs, NEW now \in {{}, {"block"}}, ReturnsNull(t, from, now)
      PROVE  IInv'
  <2>. USE DEF ReturnsNull
  <2>1. TypeOK' BY <1>2 DEF IInv, TypeOK, Things
  <2>2. pc'[t] = "idle" /\ held'[c] = now /\ stage'[c] = "nil" BY <1>2 DEF IInv, TypeOK
  <2>3. CallerOK(t)'
    BY <1>0, <1>2, <2>2
       DEF CallerOK, MakingOK, ScopesOK, CheckingOK, ModelOK, MakePCs, CheckPCs
  <2>4. ContextOK(c)' BY <1>0, <1>2, <2>2 DEF ContextOK, Owns
  <2>. QED BY <1>0, <1>2, <2>1, <2>3, <2>4, StepOnContext DEF IInv, TypeOK, MakePCs
<1>3. CASE Malloc(t)
  BY <1>1, <1>2, <1>3 DEF Malloc, Before, MakePCs, Things
<1>4. CASE MkConfig(t)
  <2>1. held[c] = {"block"} BY <1>0, <1>4 DEF MkConfig, Made, ReturnsNull, Before
  <2>. QED BY <1>1, <1>2, <1>4, <2>1 DEF MkConfig, Before, MakePCs, Things
<1>5. CASE MkContext(t)
  <2>1. held[c] = {"block", "config"} BY <1>0, <1>5 DEF MkContext, Made, ReturnsNull, Before
  <2>2. held[c] \ {"config"} = {"block"} BY <2>1
  <2>. QED BY <1>1, <1>2, <1>5, <2>2 DEF MkContext, Before, MakePCs, Things
<1>6. CASE MkSolver(t)
  <2>1. held[c] = {"block", "context"} BY <1>0, <1>6 DEF MkSolver, ReturnsNull, Before
  <2>2. held[c] \ {"context"} = {"block"} BY <2>1
  <2>3. CASE ReturnsNull(t, "solver", held[c] \ {"context"}) BY <1>2, <2>2, <2>3 DEF MakePCs
  <2>4. CASE ~ReturnsNull(t, "solver", held[c] \ {"context"})
    <3>. USE <1>6, <2>4 DEF MkSolver
    <3>0. << {} >> \in Seq(SUBSET Programs) OBVIOUS
    <3>1. TypeOK'
      <4>1. /\ pc' = [pc EXCEPT ![t] = "idle"] /\ stage' = [stage EXCEPT ![c] = "ready"]
            /\ held' = [held EXCEPT ![c] = @ \union {"solver"}]
            /\ scopes' = [scopes EXCEPT ![c] = << {} >>]
            /\ UNCHANGED <<buffer, on, fn, smt2, result, model>>
        OBVIOUS
      <4>. QED BY <1>0, <3>0, <4>1, IInv DEF IInv, TypeOK, Things
    <3>2. /\ pc'[t] = "idle" /\ stage'[c] = "ready" /\ scopes'[c] = << {} >>
          /\ held'[c] = {"block", "context", "solver"}
      BY <1>0, <2>1 DEF IInv, TypeOK
    <3>3. CallerOK(t)'
      BY <1>0, <3>2 DEF CallerOK, MakingOK, ScopesOK, CheckingOK, ModelOK, MakePCs, CheckPCs
    <3>4. ContextOK(c)' BY <1>0, <3>2, ReadyContext
    <3>. QED BY <1>0, <3>1, <3>3, <3>4, StepOnContext DEF IInv, TypeOK, MakePCs
  <2>. QED BY <2>3, <2>4
<1>. QED BY <1>3, <1>4, <1>5, <1>6 DEF Making

(* The steps of a check up to the parse: what they do to the stack. *)
LEMMA StepReset ==
  ASSUME IInv, NEW t \in Callers, Reset(t) PROVE IInv'
<1>. DEFINE c == on[t]
<1>. USE DEF Reset, Goto, caller
<1>0. c \in Ctxs /\ stage[c] = "ready" /\ model[t] = {} /\ CallerOK(t) /\ ContextOK(c)
  BY DEF IInv, TypeOK, CallerOK, CheckingOK, CheckPCs
<1>1. TypeOK' BY <1>0 DEF IInv, TypeOK, CheckPCs
<1>2. /\ pc'[t] = (IF Pushes(fn[t]) THEN "push" ELSE "parse")
      /\ scopes'[c] = << {} >>
  BY <1>0 DEF IInv, TypeOK
<1>3. CallerOK(t)'
  <2>0. on' = on /\ fn' = fn /\ pc'[t] \in {"push", "parse"} BY <1>2
  <2>1. ScopesOK(t)'
    <3>. HIDE DEF Reset, Goto
    <3>. QED BY <1>2, <2>0 DEF ScopesOK, Stack
  <2>. QED BY <1>0, <1>2, <2>1 DEF CallerOK, MakingOK, CheckingOK, ModelOK, MakePCs
<1>4. ContextOK(c)' BY <1>0, <1>2 DEF ContextOK
<1>. QED BY <1>0, <1>1, <1>3, <1>4, StepOnContext DEF IInv, TypeOK

LEMMA StepPush ==
  ASSUME IInv, NEW t \in Callers, Push(t) PROVE IInv'
<1>. DEFINE c == on[t]
<1>. USE DEF Push, Goto, caller
<1>0. /\ c \in Ctxs /\ stage[c] = "ready" /\ model[t] = {} /\ CallerOK(t) /\ ContextOK(c)
      /\ scopes[c] = << {} >> /\ Pushes(fn[t])
  BY DEF IInv, TypeOK, CallerOK, CheckingOK, ScopesOK, CheckPCs
<1>1. TypeOK'
  <2>1. Append(scopes[c], {}) \in Seq(SUBSET Programs) BY <1>0 DEF IInv, TypeOK
  <2>. QED BY <1>0, <2>1 DEF IInv, TypeOK, CheckPCs
<1>2. pc'[t] = "parse" /\ scopes'[c] = << {}, {} >>
  <2>1. pc'[t] = "parse" /\ scopes'[c] = Append(scopes[c], {}) BY <1>0 DEF IInv, TypeOK
  <2>. QED BY <1>0, <2>1, AppendToOne
<1>3. CallerOK(t)'
  <2>1. ScopesOK(t)' BY <1>0, <1>2 DEF ScopesOK, Stack
  <2>. QED BY <1>0, <1>2, <2>1 DEF CallerOK, MakingOK, CheckingOK, ModelOK, MakePCs
<1>4. ContextOK(c)' BY <1>0, <1>2 DEF ContextOK
<1>. QED BY <1>0, <1>1, <1>3, <1>4, StepOnContext DEF IInv, TypeOK

LEMMA StepParse ==
  ASSUME IInv, NEW t \in Callers, Parse(t) PROVE IInv'
<1>. DEFINE c == on[t]
            ps == Asserted(smt2[t])
<1>. USE DEF Parse, Goto, caller
<1>0. /\ c \in Ctxs /\ stage[c] = "ready" /\ model[t] = {} /\ CallerOK(t) /\ ContextOK(c)
      /\ scopes[c] = Stack(fn[t], {}) /\ ps \in SUBSET Programs
  BY AssertedIsPrograms DEF IInv, TypeOK, CallerOK, CheckingOK, ScopesOK, CheckPCs
<1>1. pc'[t] = "check" /\ scopes'[c] = Stack(fn[t], ps)
  <2>1. scopes'[c] = [scopes[c] EXCEPT ![Len(scopes[c])] = @ \union ps]
    BY <1>0 DEF IInv, TypeOK
  <2>2. CASE Pushes(fn[t]) BY <1>0, <2>1, <2>2 DEF Stack, IInv, TypeOK
  <2>3. CASE ~Pushes(fn[t]) BY <1>0, <2>1, <2>3 DEF Stack, IInv, TypeOK
  <2>4. pc'[t] = "check" BY DEF IInv, TypeOK
  <2>. QED BY <2>2, <2>3, <2>4
<1>2. TypeOK'
  <2>1. Stack(fn[t], ps) \in Seq(SUBSET Programs)
    <3>1. << ps >> \in Seq(SUBSET Programs) /\ << {}, ps >> \in Seq(SUBSET Programs) BY <1>0
    <3>. QED BY <3>1 DEF Stack
  <2>2. \A d \in Ctxs : scopes'[d] \in Seq(SUBSET Programs)
    BY <1>0, <1>1, <2>1 DEF IInv, TypeOK
  <2>3. scopes' = [d \in Ctxs |-> scopes'[d]] BY DEF IInv, TypeOK
  <2>. QED BY <2>2, <2>3 DEF IInv, TypeOK, CheckPCs
<1>3. CallerOK(t)'
  <2>1. ScopesOK(t)' BY <1>1 DEF ScopesOK
  <2>. QED BY <1>0, <1>1, <2>1 DEF CallerOK, MakingOK, CheckingOK, ModelOK, MakePCs
<1>4. ContextOK(c)' BY <1>0, <1>1, StackLen DEF ContextOK
<1>. QED BY <1>0, <1>1, <1>2, <1>3, <1>4, StepOnContext DEF IInv, TypeOK

LEMMA StepCheck ==
  ASSUME IInv, NEW t \in Callers, Check(t) PROVE IInv'
<1>. DEFINE c == on[t]
            ps == Asserted(smt2[t])
<1>. USE DEF Goto, solver
<1>0. /\ c \in Ctxs /\ pc[t] = "check" /\ stage[c] = "ready" /\ model[t] = {}
      /\ CallerOK(t) /\ ContextOK(c)
      /\ scopes[c] = Stack(fn[t], ps) /\ ps \in SUBSET Programs
  BY AssertedIsPrograms DEF IInv, TypeOK, CallerOK, CheckingOK, ScopesOK, CheckPCs, Check
<1>1. Visible(c) = ps BY <1>0, VisibleInStack
<1>2. PICK v \in Verdicts : /\ pc' = [pc EXCEPT ![t] = AfterCheck(fn[t], v)]
                            /\ result' = [result EXCEPT ![t] = v]
                            /\ UNCHANGED <<solver, on, fn, smt2, model>>
  BY <1>0, <1>1, PossibleIsVerdicts DEF Check
<1>3. AfterCheck(fn[t], v) \in {"idle", "pop", "model"} BY DEF AfterCheck
<1>4. TypeOK' BY <1>0, <1>2, <1>3 DEF IInv, TypeOK, CheckPCs
<1>5. pc'[t] = AfterCheck(fn[t], v) /\ result'[t] = v BY <1>2 DEF IInv, TypeOK
<1>6. CallerOK(t)'
  <2>1. MakingOK(t)' /\ ScopesOK(t)' /\ ModelOK(t)'
    BY <1>0, <1>2, <1>3, <1>5 DEF MakingOK, ScopesOK, ModelOK, MakePCs
  <2>2. CheckingOK(t)' BY <1>0, <1>2, <1>3, <1>5 DEF CheckingOK, AfterCheck, CheckPCs
  <2>. QED BY <2>1, <2>2 DEF CallerOK
<1>7. ContextOK(c)' BY <1>0, <1>2 DEF ContextOK
<1>. QED BY <1>0, <1>2, <1>4, <1>6, <1>7, StepOnContext DEF IInv, TypeOK

(* reset_push_pop pops the scope it pushed, and the base is empty. *)
LEMMA PopEmpties ==
  ASSUME IInv, NEW t \in Callers, Pop(t) PROVE scopes'[on[t]] = << {} >>
<1>. DEFINE c == on[t]
            ps == Asserted(smt2[t])
<1>0. c \in Ctxs /\ scopes[c] = << {}, ps >>
  BY DEF Pop, Goto, IInv, TypeOK, CallerOK, CheckingOK, ScopesOK, Stack, Pushes
<1>1. scopes'[c] = SubSeq(scopes[c], 1, Len(scopes[c]) - 1)
  BY <1>0 DEF Pop, Goto, IInv, TypeOK
<1>2. SubSeq(<< {}, ps >>, 1, 1) = << {} >> BY FirstOfTwo
<1>3. Len(scopes[c]) - 1 = 1 BY <1>0
<1>. QED BY <1>0, <1>1, <1>2, <1>3

LEMMA StepPop ==
  ASSUME IInv, NEW t \in Callers, Pop(t) PROVE IInv'
<1>. DEFINE c == on[t]
<1>. USE DEF Pop, Goto, caller
<1>0. /\ c \in Ctxs /\ pc[t] = "pop" /\ stage[c] = "ready" /\ model[t] = {}
      /\ CallerOK(t) /\ ContextOK(c)
  BY DEF IInv, TypeOK, CallerOK, CheckingOK, CheckPCs
<1>1. pc'[t] = "idle" /\ scopes'[c] = << {} >> BY <1>0, PopEmpties DEF IInv, TypeOK
<1>2. TypeOK'
  <2>1. << {} >> \in Seq(SUBSET Programs) OBVIOUS
  <2>2. \A d \in Ctxs : scopes'[d] \in Seq(SUBSET Programs) BY <1>1, <2>1 DEF IInv, TypeOK
  <2>3. scopes' = [d \in Ctxs |-> scopes'[d]] BY DEF IInv, TypeOK
  <2>. QED BY <2>2, <2>3 DEF IInv, TypeOK, CheckPCs
<1>3. CallerOK(t)'
  BY <1>0, <1>1 DEF CallerOK, MakingOK, ScopesOK, CheckingOK, ModelOK, MakePCs, CheckPCs
<1>4. ContextOK(c)'
  <2>1. stage' = stage /\ held' = held /\ Len(scopes'[c]) = 1 BY <1>1
  <2>. QED BY <1>0, <2>1 DEF ContextOK
<1>. QED BY <1>0, <1>2, <1>3, <1>4, StepOnContext DEF IInv, TypeOK

LEMMA StepGetModel ==
  ASSUME IInv, NEW t \in Callers, GetModel(t) PROVE IInv'
<1>. DEFINE c == on[t]
            ps == Asserted(smt2[t])
<1>. USE DEF GetModel, Goto, caller
<1>0. /\ c \in Ctxs /\ pc[t] = "model" /\ stage[c] = "ready" /\ model[t] = {}
      /\ CallerOK(t) /\ ContextOK(c)
      /\ scopes[c] = Stack(fn[t], ps) /\ ps \in SUBSET Programs
  BY AssertedIsPrograms DEF IInv, TypeOK, CallerOK, CheckingOK, ScopesOK, CheckPCs
<1>1. Visible(c) = ps BY <1>0, VisibleInStack
<1>2. TypeOK' BY <1>0, <1>1 DEF IInv, TypeOK, CheckPCs
<1>3. pc'[t] = "copy" /\ buffer'[c] = ps BY <1>0, <1>1 DEF IInv, TypeOK
<1>4. CallerOK(t)'
  BY <1>0, <1>3 DEF CallerOK, MakingOK, ScopesOK, CheckingOK, ModelOK, MakePCs, CheckPCs
<1>5. ContextOK(c)' BY <1>0 DEF ContextOK
<1>. QED BY <1>0, <1>2, <1>4, <1>5, StepOnContext DEF IInv, TypeOK

LEMMA StepCopyModel ==
  ASSUME IInv, NEW t \in Callers, CopyModel(t) PROVE IInv'
<1>. DEFINE c == on[t]
<1>. USE DEF CopyModel, Goto, solver
<1>0. /\ c \in Ctxs /\ pc[t] = "copy" /\ CallerOK(t) /\ ContextOK(c)
      /\ buffer[c] = Asserted(smt2[t]) /\ fn[t] = "get_model" /\ result[t] = "True"
  BY DEF IInv, TypeOK, CallerOK, CheckingOK
<1>1. TypeOK' BY <1>0 DEF IInv, TypeOK
<1>2. pc'[t] = "idle" /\ model'[t] = {Asserted(smt2[t])} BY <1>0 DEF IInv, TypeOK
<1>3. CallerOK(t)'
  <2>1. ModelOK(t)' BY <1>0, <1>2 DEF ModelOK
  <2>. QED BY <1>2, <2>1 DEF CallerOK, MakingOK, ScopesOK, CheckingOK, MakePCs, CheckPCs
<1>4. ContextOK(c)' BY <1>0 DEF ContextOK
<1>. QED BY <1>0, <1>1, <1>3, <1>4, StepOnContext DEF IInv, TypeOK
-----------------------------------------------------------------------------
LEMMA NextIInv == IInv /\ [Next]_vars => IInv'
<1>. SUFFICES ASSUME IInv, [Next]_vars PROVE IInv' OBVIOUS
<1>1. ASSUME NEW t \in Callers, NEW c \in Ctxs, Make(t, c) PROVE IInv' BY <1>1, StepMake
<1>2. ASSUME NEW t \in Callers, NEW c \in Ctxs, Exclusive(t, c), Delete(t, c) PROVE IInv'
  BY <1>2, StepDelete
<1>3. ASSUME NEW t \in Callers, NEW c \in Ctxs, NEW f \in Fns, NEW p \in Programs,
             Call(t, c, f, p)
      PROVE  IInv'
  BY <1>3, StepCall
<1>4. ASSUME NEW t \in Callers, Making(t) PROVE IInv' BY <1>4, StepMaking
<1>5. ASSUME NEW t \in Callers, Checking(t) PROVE IInv'
  BY <1>5, StepReset, StepPush, StepParse, StepCheck, StepPop, StepGetModel, StepCopyModel
     DEF Checking
<1>6. CASE UNCHANGED vars
  <2>1. TypeOK' BY <1>6 DEF IInv, TypeOK, vars
  <2>2. Apart' BY <1>6 DEF IInv, Apart, vars
  <2>3. ASSUME NEW t \in Callers PROVE CallerOK(t)' BY <1>6, OtherCaller DEF IInv, vars
  <2>4. ASSUME NEW c \in Ctxs PROVE ContextOK(c)' BY <1>6, OtherContext DEF IInv, vars
  <2>. QED BY <2>1, <2>2, <2>3, <2>4 DEF IInv
<1>. QED BY <1>1, <1>2, <1>3, <1>4, <1>5, <1>6 DEF Next

LEMMA Invariant == Spec => []IInv
BY InitIInv, NextIInv, PTL DEF Spec

(* Every variable keeps its type. *)
THEOREM TypeCorrect == Spec => []TypeOK
<1>1. IInv => TypeOK BY DEF IInv
<1>. QED BY <1>1, Invariant, PTL

(* When Z3_solver_check runs exactly the program of this call is asserted, *)
(* whatever the context was used for before: z3_mini.c's reset, or reset   *)
(* and push, isolates the calls.                                           *)
THEOREM Isolation == Spec => []VerdictIsolated
<1>1. IInv => VerdictIsolated
  BY VisibleInStack DEF IInv, TypeOK, CallerOK, ScopesOK, VerdictIsolated
<1>. QED BY <1>1, Invariant, PTL

(* The solver of a context never holds more than one scope on top of the   *)
(* base, although reset_push does not pop.  Whatever is called before it   *)
(* or at the same time on other contexts, reset_push_pop returns with the  *)
(* solver empty: it pops the one scope it pushed, and the program was      *)
(* asserted in that scope.                                                 *)
THEOREM Scopes == Spec => ScopesBounded
<1>0. ASSUME IInv', NEW c \in Ctxs PROVE Len(scopes'[c]) <= 2
  <2>1. CASE stage'[c] = "ready"
    <3>1. \E n \in 1 .. 2 : Len(scopes'[c]) = n BY <1>0, <2>1 DEF IInv, ContextOK
    <3>. QED BY <3>1
  <2>2. CASE stage'[c] # "ready"
    <3>1. scopes'[c] = << >> BY <1>0, <2>2 DEF IInv, ContextOK
    <3>. QED BY <3>1
  <2>. QED BY <2>1, <2>2
<1>1. ASSUME IInv, [Next]_vars, NEW t \in Callers, pc[t] = "pop", pc'[t] # "pop"
      PROVE  scopes'[on[t]] = << {} >>
  <2>1. ASSUME NEW u \in Callers, NEW c \in Ctxs, Make(u, c) PROVE FALSE
    BY <1>1, <2>1 DEF Make, Goto, IInv, TypeOK
  <2>2. ASSUME NEW u \in Callers, NEW c \in Ctxs, Delete(u, c) PROVE FALSE
    BY <1>1, <2>2 DEF Delete
  <2>3. ASSUME NEW u \in Callers, NEW c \in Ctxs, NEW f \in Fns, NEW p \in Programs,
               Call(u, c, f, p)
        PROVE  FALSE
    BY <1>1, <2>3 DEF Call, Enter, Goto, IInv, TypeOK
  <2>4. ASSUME NEW u \in Callers, Making(u) PROVE FALSE
    BY <1>1, <2>4 DEF Making, Malloc, MkConfig, MkContext, MkSolver, Made, ReturnsNull, Goto,
                      IInv, TypeOK
  <2>5. ASSUME NEW u \in Callers, Checking(u) PROVE Pop(t)
    BY <1>1, <2>5 DEF Checking, Reset, Push, Parse, Check, Pop, GetModel, CopyModel, Goto,
                      IInv, TypeOK
  <2>6. ~ UNCHANGED vars BY <1>1 DEF vars
  <2>7. Pop(t) BY <1>1, <2>1, <2>2, <2>3, <2>4, <2>5, <2>6 DEF Next
  <2>. QED BY <1>1, <2>7, PopEmpties
<1>2. IInv /\ IInv' /\ [Next]_vars =>
        [/\ \A c \in Ctxs : Len(scopes'[c]) <= 2
         /\ \A t \in Callers :
              pc[t] = "pop" /\ pc'[t] # "pop" => scopes'[on[t]] = << {} >>]_vars
  BY <1>0, <1>1
<1>. QED BY <1>2, Invariant, PTL DEF Spec, ScopesBounded

(* mk_context returns NULL without leaving an object of Z3 behind, only    *)
(* its own block, whichever of its calls fails; del_context releases all.  *)
THEOREM NothingLost == Spec => []NoObjectLost
<1>1. IInv => NoObjectLost BY DEF IInv, ContextOK, NoObjectLost
<1>. QED BY <1>1, Invariant, PTL

(* The string get_model copies out of the context's buffer is a model of   *)
(* the program it was asked about, found satisfiable in this very call.    *)
THEOREM ModelSafe == Spec => []ModelFits
<1>1. IInv => ModelFits BY DEF IInv, CallerOK, ModelOK, ModelFits
<1>. QED BY <1>1, Invariant, PTL
=============================================================================
