------------------------------- MODULE Z3Mini -------------------------------
(***************************************************************************)
(* The C layer over Z3, z3_mini/z3_mini.c, and the copy of the model that  *)
(* z3_mini/z3_mini.ml makes: contexts are made, used by callers and        *)
(* deleted; every call into Z3 is a step, and any call that makes an       *)
(* object of Z3 may fail.                                                  *)
(*                                                                         *)
(* Z3 itself is outside the repository.  A solver is a stack of scopes,    *)
(* each the set of programs asserted in it.  A program that does not parse *)
(* asserts nothing (or, as no error handler is installed, ends the process:*)
(* then no step follows).  Alone in the solver a program has the verdict   *)
(* Answer gives it, or Undef when the 1000 ms of line 27 run out; several  *)
(* at once may have any verdict, for they may declare the same names.      *)
(***************************************************************************)
EXTENDS Integers, Sequences

CONSTANTS Callers,    \* threads that use the interface
          Ctxs,       \* the contexts they may make
          Programs,   \* SMT-LIB texts
          Malformed,  \* the programs Z3_solver_from_string rejects
          Answer      \* program -> "True" or "False"

Verdicts == {"False", "Undef", "True"}

ASSUME AnswerAssumption ==
  Malformed \subseteq Programs /\ Answer \in [Programs -> {"True", "False"}]

Fns == {"check_sat", "reset_push", "reset_push_pop", "get_model"}

VARIABLES
  stage,   \* context -> "unused", "making", "ready", "nil" (mk returned NULL) or "deleted"
  held,    \* context -> what has been allocated for it and not released
  scopes,  \* context -> the solver's stack of sets of programs
  buffer,  \* context -> the programs whose model its string buffer shows
  pc,      \* caller -> the next call into Z3 or malloc it makes
  on,      \* caller -> the context it works on
  fn,      \* caller -> the function it is in
  smt2,    \* caller -> that function's program
  result,  \* caller -> the last verdict
  model    \* caller -> the models its last call gave it, each by the programs it is of

vars == <<stage, held, scopes, buffer, pc, on, fn, smt2, result, model>>

solver == <<stage, held, scopes, buffer>>
caller == <<on, fn, smt2, result, model>>
-----------------------------------------------------------------------------
Init ==
  /\ stage = [c \in Ctxs |-> "unused"]
  /\ held = [c \in Ctxs |-> {}]
  /\ scopes = [c \in Ctxs |-> << >>]
  /\ buffer = [c \in Ctxs |-> {}]
  /\ pc = [t \in Callers |-> "idle"]
  /\ on \in [Callers -> Ctxs]
  /\ fn = [t \in Callers |-> "check_sat"]
  /\ smt2 \in [Callers -> Programs]
  /\ result = [t \in Callers |-> "Undef"]
  /\ model = [t \in Callers |-> {}]

Goto(t, from, to) == pc[t] = from /\ pc' = [pc EXCEPT ![t] = to]

(* Z3_mini_mk_context *)
Make(t, c) ==
  /\ stage[c] = "unused"
  /\ Goto(t, "idle", "malloc")
  /\ stage' = [stage EXCEPT ![c] = "making"]
  /\ on' = [on EXCEPT ![t] = c]
  /\ UNCHANGED <<held, scopes, buffer, fn, smt2, result, model>>

(* A step of mk_context or init_context that succeeds, and one that makes  *)
(* it return NULL.                                                         *)
Made(t, from, to, now) ==
  /\ Goto(t, from, to)
  /\ held' = [held EXCEPT ![on[t]] = now]
  /\ UNCHANGED <<stage, scopes, buffer, caller>>

ReturnsNull(t, from, now) ==
  /\ Goto(t, from, "idle")
  /\ held' = [held EXCEPT ![on[t]] = now]
  /\ stage' = [stage EXCEPT ![on[t]] = "nil"]
  /\ UNCHANGED <<scopes, buffer, caller>>

Malloc(t) ==
  \/ Made(t, "malloc", "config", {"block"})
  \/ ReturnsNull(t, "malloc", {})

MkConfig(t) ==
  \/ Made(t, "config", "context", held[on[t]] \union {"config"})
  \/ ReturnsNull(t, "config", held[on[t]])

(* Mutant: Z3_del_config only once Z3_mk_context has succeeded. *)
MkContextKeepsConfig(t) ==
  \/ Made(t, "context", "solver", (held[on[t]] \ {"config"}) \union {"context"})
  \/ ReturnsNull(t, "context", held[on[t]])

(* Z3_mk_context; Z3_del_config follows whether it succeeds or not. *)
MkContext(t) ==
  \/ Made(t, "context", "solver", (held[on[t]] \ {"config"}) \union {"context"})
  \/ ReturnsNull(t, "context", held[on[t]] \ {"config"})

(* Z3_mk_solver and Z3_solver_inc_ref, or Z3_del_context. *)
MkSolver(t) ==
  \/ /\ Goto(t, "solver", "idle")
     /\ held' = [held EXCEPT ![on[t]] = @ \union {"solver"}]
     /\ stage' = [stage EXCEPT ![on[t]] = "ready"]
     /\ scopes' = [scopes EXCEPT ![on[t]] = << {} >>]
     /\ UNCHANGED <<buffer, caller>>
  \/ ReturnsNull(t, "solver", held[on[t]] \ {"context"})

(* Z3_mini_del_context: dec_ref, del_context, free *)
Delete(t, c) ==
  /\ stage[c] = "ready" /\ pc[t] = "idle"
  /\ stage' = [stage EXCEPT ![c] = "deleted"]
  /\ held' = [held EXCEPT ![c] = @ \ {"solver", "context", "block"}]
  /\ scopes' = [scopes EXCEPT ![c] = << >>]
  /\ UNCHANGED <<buffer, pc, caller>>

(* A call of one of the three checks or of get_model on context c. *)
Enter(t, c, f, p) ==
  /\ Goto(t, "idle", "reset")
  /\ on' = [on EXCEPT ![t] = c]
  /\ fn' = [fn EXCEPT ![t] = f]
  /\ smt2' = [smt2 EXCEPT ![t] = p]
  /\ model' = [model EXCEPT ![t] = {}]
  /\ UNCHANGED <<solver, result>>

Pushes(f) == f \in {"reset_push", "reset_push_pop"}

(* Mutant: the functions that push do not reset. *)
ResetUnlessPushes(t) ==
  /\ Goto(t, "reset", IF Pushes(fn[t]) THEN "push" ELSE "parse")
  /\ scopes' = IF Pushes(fn[t]) THEN scopes ELSE [scopes EXCEPT ![on[t]] = << {} >>]
  /\ UNCHANGED <<stage, held, buffer, caller>>

(* Z3_solver_reset *)
Reset(t) ==
  /\ Goto(t, "reset", IF Pushes(fn[t]) THEN "push" ELSE "parse")
  /\ scopes' = [scopes EXCEPT ![on[t]] = << {} >>]
  /\ UNCHANGED <<stage, held, buffer, caller>>

(* Z3_solver_push *)
Push(t) ==
  /\ Goto(t, "push", "parse")
  /\ scopes' = [scopes EXCEPT ![on[t]] = Append(@, {})]
  /\ UNCHANGED <<stage, held, buffer, caller>>

(* What Z3_solver_from_string asserts. *)
Asserted(p) == IF p \in Malformed THEN {} ELSE {p}

Parse(t) ==
  LET c == on[t] IN
  /\ Goto(t, "parse", "check")
  /\ scopes' = [scopes EXCEPT ![c][Len(scopes[c])] = @ \union Asserted(smt2[t])]
  /\ UNCHANGED <<stage, held, buffer, caller>>

(* Z3_solver_check: what is asserted in any scope counts. *)
Visible(c) == UNION {scopes[c][i] : i \in 1..Len(scopes[c])}

(* Mutant: a timeout is reported as Uninit. *)
PossibleUninit(ps) ==
  IF ps = {} THEN {"True"} ELSE {"True", "False", "Uninit"}

Possible(ps) ==
  IF ps = {} THEN {"True"}
  ELSE IF \E p \in ps : ps = {p} THEN {Answer[CHOOSE p \in ps : TRUE], "Undef"}
  ELSE Verdicts

(* Mutant: get_model does not look at the verdict. *)
AfterCheckUnsure(f, v) ==
  IF f = "reset_push_pop" THEN "pop" ELSE IF f = "get_model" THEN "model" ELSE "idle"

AfterCheck(f, v) ==
  IF f = "reset_push_pop" THEN "pop"
  ELSE IF f = "get_model" /\ v = "True" THEN "model" ELSE "idle"

Check(t) ==
  \E v \in Possible(Visible(on[t])) :
    /\ Goto(t, "check", AfterCheck(fn[t], v))
    /\ result' = [result EXCEPT ![t] = v]
    /\ UNCHANGED <<solver, on, fn, smt2, model>>

(* Mutant: reset_push_pop does not pop. *)
PopLost(t) == Goto(t, "pop", "idle") /\ UNCHANGED <<solver, caller>>

(* Z3_solver_pop(ctx, solver, 1) *)
Pop(t) ==
  LET c == on[t] IN
  /\ Goto(t, "pop", "idle")
  /\ scopes' = [scopes EXCEPT ![c] = SubSeq(@, 1, Len(@) - 1)]
  /\ UNCHANGED <<stage, held, buffer, caller>>

(* Z3_solver_get_model and Z3_model_to_string; the string is the context's. *)
GetModel(t) ==
  /\ Goto(t, "model", "copy")
  /\ buffer' = [buffer EXCEPT ![on[t]] = Visible(on[t])]
  /\ UNCHANGED <<stage, held, scopes, caller>>

(* strlen and string_from_ptr *)
CopyModel(t) ==
  /\ Goto(t, "copy", "idle")
  /\ model' = [model EXCEPT ![t] = {buffer[on[t]]}]
  /\ UNCHANGED <<solver, on, fn, smt2, result>>

Making(t) == Malloc(t) \/ MkConfig(t) \/ MkContext(t) \/ MkSolver(t)
Checking(t) == \/ Reset(t) \/ Push(t) \/ Parse(t) \/ Check(t) \/ Pop(t)
               \/ GetModel(t) \/ CopyModel(t)

(* What the interface asks of its callers, for a context of Z3 is not      *)
(* thread-safe: a context in use by one caller is left alone by the others.*)
Exclusive(t, c) == \A u \in Callers \ {t} : pc[u] # "idle" => on[u] # c

Call(t, c, f, p) == stage[c] = "ready" /\ Exclusive(t, c) /\ Enter(t, c, f, p)

Next ==
  \E t \in Callers :
    \/ \E c \in Ctxs : Make(t, c) \/ (Exclusive(t, c) /\ Delete(t, c))
    \/ \E c \in Ctxs, f \in Fns, p \in Programs : Call(t, c, f, p)
    \/ Making(t)
    \/ Checking(t)

Spec == Init /\ [][Next]_vars
-----------------------------------------------------------------------------
MakePCs == {"malloc", "config", "context", "solver"}
CheckPCs == {"reset", "push", "parse", "check", "pop", "model", "copy"}
Things == {"block", "config", "context", "solver"}

TypeOK ==
  /\ stage \in [Ctxs -> {"unused", "making", "ready", "nil", "deleted"}]
  /\ held \in [Ctxs -> SUBSET Things]
  /\ scopes \in [Ctxs -> Seq(SUBSET Programs)]
  /\ buffer \in [Ctxs -> SUBSET Programs]
  /\ pc \in [Callers -> {"idle"} \union MakePCs \union CheckPCs]
  /\ on \in [Callers -> Ctxs]
  /\ fn \in [Callers -> Fns]
  /\ smt2 \in [Callers -> Programs]
  /\ result \in [Callers -> Verdicts]
  /\ model \in [Callers -> SUBSET SUBSET Programs]

(* A verdict depends on the program checked and on nothing that was        *)
(* checked before it in the same context, by whichever function: when Z3   *)
(* is asked, exactly the program of this call is asserted.                 *)
VerdictIsolated ==
  \A t \in Callers : pc[t] \in {"check", "model"} => Visible(on[t]) = Asserted(smt2[t])

(* However long a context is used its solver never holds more than one     *)
(* scope on top of the base, although reset_push does not pop; and         *)
(* reset_push_pop leaves nothing behind: the step with which it returns    *)
(* leaves the base, and nothing asserted in it.                            *)
ScopesBounded ==
  [][/\ \A c \in Ctxs : Len(scopes'[c]) <= 2
     /\ \A t \in Callers :
          pc[t] = "pop" /\ pc'[t] # "pop" => scopes'[on[t]] = << {} >>]_vars

(* A context that is ready owns its block, Z3's context and the solver;    *)
(* when mk_context returns NULL no object of Z3 is left (but the block     *)
(* is, unless it is malloc that failed), and del_context leaves nothing.   *)
Owns ==
  [ready   |-> {{"block", "context", "solver"}},
   nil     |-> {{}, {"block"}},
   unused  |-> {{}},
   deleted |-> {{}}]

NoObjectLost == \A c \in Ctxs : stage[c] # "making" => held[c] \in Owns[stage[c]]

(* The string get_model copies is a model of the program it was asked      *)
(* about, and there is one only when that program was found satisfiable    *)
(* (of a malformed program: a model of what is asserted of it, nothing).   *)
ModelFits ==
  \A t \in Callers : pc[t] = "idle" /\ model[t] # {} =>
    fn[t] = "get_model" /\ result[t] = "True" /\ model[t] = {Asserted(smt2[t])}
=============================================================================
