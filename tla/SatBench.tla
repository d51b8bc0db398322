------------------------------ MODULE SatBench ------------------------------
(***************************************************************************)
(* The passes of bin/z3_ocaml_sandbox_demo.ml over the same programs:      *)
(* z3_subproc_parse_test, which runs z3_exe_check_sat, and then            *)
(* z3_mini_parse_test with each of the three check functions.              *)
(*                                                                         *)
(* A pass sets up a pool of domains, in which the main domain takes part,  *)
(* checks every program in parallel and tears the pool down.  A domain     *)
(* makes its Z3 context when it first asks domain-local storage for it.    *)
(* The steps inside a check are those of Z3Mini; z3_exe_check_sat, whose   *)
(* steps are in Z3Exe, is one step: the verdict of the solver's first      *)
(* line, an exception, which nothing catches, or no return at all when     *)
(* the solver floods a pipe.  Before the passes, the programs are          *)
(* collected from two directories: one for z3_exe_check_sat, one for the   *)
(* others.                                                                 *)
(*                                                                         *)
(* Domainslib is outside the repository: parallel_for halves the range     *)
(* until a part is at most a chunk long, any domain of the pool takes any  *)
(* part, and Task.run returns when all parts are done.                     *)
(***************************************************************************)
EXTENDS Integers, Sequences, FiniteSets, SequencesExt

CONSTANTS Main,       \* the main domain
          Helpers,    \* the domains a pool adds to it
          Tree,       \* directory -> path, however deep -> the program there
          Smt2,       \* the paths that end in .smt2
          ChunkSizes, \* the integers that may be given as chunk_size
          Passes,     \* what the passes check with, in their order
          Programs, Malformed, Answer,
          Says,       \* program -> the first lines z3 may print for it, exiting with 0
          Flooding    \* programs for which z3 may print more than a pipe holds (Z3Exe's Flood)

Domains == {Main} \union Helpers

Roots == {"root_dir", "root_non_api_dir"}
Paths(root) == DOMAIN Tree[root]
MaxFiles == CHOOSE n \in {Cardinality(Paths(root)) : root \in Roots} :
              \A root \in Roots : Cardinality(Paths(root)) <= n

Subproc == "subproc"
MiniPasses(n) == {k \in 1 .. n : Passes[k] # Subproc}

(* dls_make_key makes at most this many contexts. *)
MaxCtxs == 1 + Cardinality(MiniPasses(Len(Passes))) * Cardinality(Helpers)
Ctxs == 1 .. MaxCtxs
NoCtx == 0

Lines == {"sat", "unsat", "unknown", "text"}  \* "text": any other line; no line is "unknown"

ASSUME SatBenchAssumption ==
  /\ IsFiniteSet(Helpers) /\ Main \notin Helpers
  /\ ChunkSizes \subseteq Int
  /\ Passes \in Seq({Subproc, "check_sat", "reset_push", "reset_push_pop"})
  /\ DOMAIN Tree = Roots
  /\ \A root \in Roots : IsFiniteSet(Paths(root)) /\ Tree[root] \in [Paths(root) -> Programs]
  /\ Paths("root_dir") \intersect Paths("root_non_api_dir") = {}
  /\ Malformed \subseteq Programs /\ Answer \in [Programs -> {"True", "False"}]
  /\ Says \in [Programs -> SUBSET Lines] /\ Flooding \subseteq Programs

VARIABLES stage, held, scopes, buffer, pc, on, fn, smt2, result, model  \* see Z3Mini

VARIABLES
  chunk_size, \* as given on the command line
  unread,   \* directory -> paths that collect_files_as_map has not come to
  file_map, \* directory -> path -> program
  blobs,    \* of a pass: the paths of its programs, in the order of the array
  pass,     \* passes begun
  running,  \* inside Task.run
  work,     \* parts of the range that wait for a domain, as <<first, last>>
  part,     \* domain -> what is left of the part it is working on
  at,       \* domain -> "free", "body" (at the start of the body), "store" or "stuck"
  dls,      \* domain -> its context, or NoCtx
  made,     \* contexts made
  verdict,  \* domain -> what z3_exe_check_sat has just returned to it
  res,      \* index -> verdict or "Uninit"
  crashed   \* a failed assert(ctx), an exception or an exit has ended the program

zvars == <<stage, held, scopes, buffer, pc, on, fn, smt2, result, model>>
collected == <<chunk_size, unread, file_map>>
bvars == <<collected, blobs, pass, running, work, part, at, dls, made, verdict, res, crashed>>
vars == <<zvars, bvars>>

Z == INSTANCE Z3Mini WITH Callers <- Domains

Nothing == <<0, -1>>
-----------------------------------------------------------------------------
(* The locals of a domain that has not called anything have one value.     *)
Init ==
  /\ Z!Init
  /\ on = [d \in Domains |-> 1]
  /\ smt2 = [d \in Domains |-> CHOOSE p \in Programs : TRUE]
  /\ chunk_size \in ChunkSizes
  /\ unread = [root \in Roots |-> Paths(root)]
  /\ file_map = [root \in Roots |-> << >>]
  /\ blobs = << >>
  /\ pass = 0 /\ running = FALSE /\ crashed = FALSE /\ made = 0
  /\ work = {}
  /\ part = [d \in Domains |-> Nothing]
  /\ at = [d \in Domains |-> "free"]
  /\ dls = [d \in Domains |-> NoCtx]
  /\ verdict = [d \in Domains |-> "Uninit"]
  /\ res = << >>

(* Mutant: every file is taken for a program. *)
CollectedAny(root, path) == [p \in DOMAIN file_map[root] \union {path} |-> Tree[root][p]]

Collected(root, path) ==
  [p \in DOMAIN file_map[root] \union ({path} \intersect Smt2) |-> Tree[root][p]]

(* collect_files_as_map, first for root_dir: directories are read in any   *)
(* order.  check_dir may find that the argument is no directory, or a file *)
(* may not be readable.                                                    *)
Collect(root) ==
  /\ root = "root_dir" \/ unread["root_dir"] = {}
  /\ \/ \E path \in unread[root] :
          /\ unread' = [unread EXCEPT ![root] = @ \ {path}]
          /\ file_map' = [file_map EXCEPT ![root] = Collected(root, path)]
          /\ UNCHANGED crashed
     \/ /\ unread[root] # {} /\ crashed' = TRUE
        /\ UNCHANGED <<unread, file_map>>
  /\ UNCHANGED <<zvars, chunk_size, blobs, pass, running, work, part, at, dls, made, verdict, res>>

(* The table that a pass is given. *)
RootOf(k) == IF Passes[k] = Subproc THEN "root_non_api_dir" ELSE "root_dir"

(* setup_pool: the helpers are new domains, the main domain is the old one.*)
(* Hashtbl.data comes in some order; Task.run and parallel_for begin.      *)
BeginPass(start, finish) ==
  /\ ~running /\ pass < Len(Passes)
  /\ \A root \in Roots : unread[root] = {}
  /\ running' = TRUE
  /\ pass' = pass + 1
  /\ blobs' \in SetToSeqs(DOMAIN file_map[RootOf(pass')])
  /\ res' = [i \in 0 .. Len(blobs') - 1 |-> "Uninit"]
  /\ dls' = [d \in Domains |-> IF d = Main THEN dls[d] ELSE NoCtx]
  /\ work' = {<<start, Len(blobs') + finish>>}
  /\ UNCHANGED <<zvars, collected, part, at, made, verdict, crashed>>

(* Mutant: finish is total_files. *)
StartPassFencepost == BeginPass(0, 0)

StartPass == BeginPass(0, -1)

Blob(i) == file_map[RootOf(pass)][blobs[i + 1]]

(* Mutant: parallel_for takes any chunk_size as it is. *)
ChunkAsGiven == chunk_size

(* A chunk_size that is not positive stands for one of parallel_for's own. *)
Chunk ==
  LET own == Len(blobs) \div (8 * Cardinality(Domains)) IN
  IF chunk_size > 0 THEN chunk_size
  ELSE IF Helpers = {} THEN Len(blobs)
  ELSE IF own > 1 THEN own ELSE 1

Long(w) == w[2] - w[1] >= Chunk

(* parallel_for halves a part that is too long ... *)
Split(d) ==
  \E w \in work :
    LET mid == w[1] + (w[2] - w[1]) \div 2 IN
    /\ at[d] = "free" /\ Long(w)
    /\ work' = (work \ {w}) \union {<<w[1], mid>>, <<mid + 1, w[2]>>}
    /\ UNCHANGED <<zvars, collected, blobs, pass, running, part, at, dls, made, verdict, res, crashed>>

(* ... and runs the body for each index of another. *)
TakePart(d) ==
  \E w \in work :
    /\ at[d] = "free" /\ ~Long(w)
    /\ work' = work \ {w}
    /\ part' = [part EXCEPT ![d] = w]
    /\ at' = [at EXCEPT ![d] = IF w[1] <= w[2] THEN "body" ELSE "free"]
    /\ UNCHANGED <<zvars, collected, blobs, pass, running, dls, made, verdict, res, crashed>>

(* Domain.DLS.get dls_make_key, the first time in this domain. *)
MakeCtx(d) ==
  /\ at[d] = "body" /\ Passes[pass] # Subproc /\ dls[d] = NoCtx
  /\ Z!Make(d, made + 1)
  /\ dls' = [dls EXCEPT ![d] = made + 1]
  /\ made' = made + 1
  /\ UNCHANGED <<collected, blobs, pass, running, work, part, at, verdict, res, crashed>>

(* Mutant: one context, made by whichever domain is first, for all. *)
CtxOfAll(d) == IF made = 0 THEN NoCtx ELSE 1

CtxOf(d) == dls[d]

(* smt_check_fn ctx blob *)
CallCheck(d) ==
  /\ at[d] = "body" /\ Passes[pass] # Subproc /\ CtxOf(d) # NoCtx /\ stage[CtxOf(d)] = "ready"
  /\ Z!Enter(d, CtxOf(d), Passes[pass], Blob(part[d][1]))
  /\ at' = [at EXCEPT ![d] = "store"]
  /\ UNCHANGED <<collected, blobs, pass, running, work, part, dls, made, verdict, res, crashed>>

(* The check asserts that its context is not NULL. *)
AssertFails(d) ==
  /\ at[d] = "body" /\ Passes[pass] # Subproc /\ CtxOf(d) # NoCtx /\ stage[CtxOf(d)] = "nil"
  /\ crashed' = TRUE
  /\ UNCHANGED <<zvars, collected, blobs, pass, running, work, part, at, dls, made, verdict, res>>

(* List.find "unsat", else List.filter "unknown": an error message is True.*)
VerdictOf(l) ==
  IF l = "unsat" THEN "False" ELSE IF l = "unknown" THEN "Undef" ELSE "True"

ExeVerdicts(p) == {VerdictOf(l) : l \in Says[p]}

(* z3_exe_check_sat z3_bin_path no_tmp blob: a verdict, an exception, or   *)
(* caller and solver wait for each other.                                  *)
RunExe(d) ==
  LET p == Blob(part[d][1]) IN
  /\ at[d] = "body" /\ Passes[pass] = Subproc
  /\ \/ /\ \E v \in ExeVerdicts(p) : verdict' = [verdict EXCEPT ![d] = v]
        /\ at' = [at EXCEPT ![d] = "store"]
        /\ UNCHANGED crashed
     \/ crashed' = TRUE /\ UNCHANGED <<verdict, at>>
     \/ /\ p \in Flooding
        /\ at' = [at EXCEPT ![d] = "stuck"]
        /\ UNCHANGED <<verdict, crashed>>
  /\ UNCHANGED <<zvars, collected, blobs, pass, running, work, part, dls, made, res>>

ZStep(d) == (Z!Making(d) \/ Z!Checking(d)) /\ UNCHANGED bvars

(* res.(i) <- sat; the body's own verdict is dead then. *)
Store(d) ==
  /\ at[d] = "store" /\ pc[d] = "idle"
  /\ res' = [res EXCEPT ![part[d][1]] = IF Passes[pass] = Subproc THEN verdict[d] ELSE result[d]]
  /\ verdict' = [verdict EXCEPT ![d] = "Uninit"]
  /\ part' = [part EXCEPT ![d] = <<@[1] + 1, @[2]>>]
  /\ at' = [at EXCEPT ![d] = IF part[d][1] < part[d][2] THEN "body" ELSE "free"]
  /\ UNCHANGED <<zvars, collected, blobs, pass, running, work, dls, made, crashed>>

(* Task.run returns, teardown_pool joins the helpers, and the verdicts are *)
(* counted and printed.                                                    *)
EndPass ==
  /\ running /\ work = {} /\ \A d \in Domains : at[d] = "free"
  /\ running' = FALSE
  /\ UNCHANGED <<zvars, collected, blobs, pass, work, part, at, dls, made, verdict, res, crashed>>

DomainStep(d) ==
  /\ ~crashed
  /\ \/ Split(d) \/ TakePart(d) \/ MakeCtx(d) \/ CallCheck(d) \/ AssertFails(d)
     \/ RunExe(d) \/ ZStep(d) \/ Store(d)

MainStep == ~crashed /\ (StartPass \/ EndPass \/ \E root \in Roots : Collect(root))

Next == MainStep \/ \E d \in Domains : DomainStep(d)

Spec == Init /\ [][Next]_vars

(* The operating system runs every domain of the pool. *)
FairSpec == Spec /\ WF_vars(MainStep) /\ \A d \in Domains : WF_vars(DomainStep(d))
-----------------------------------------------------------------------------
TypeOK ==
  /\ chunk_size \in ChunkSizes
  /\ \A root \in Roots : unread[root] \subseteq Paths(root) /\ DOMAIN file_map[root] \subseteq Paths(root)
  /\ pass \in 0 .. Len(Passes) /\ running \in BOOLEAN /\ crashed \in BOOLEAN
  /\ work \subseteq (0 .. MaxFiles) \X (-1 .. Len(blobs) - 1)
  /\ part \in [Domains -> (0 .. MaxFiles) \X (-1 .. MaxFiles - 1)]
  /\ at \in [Domains -> {"free", "body", "store", "stuck"}]
  /\ dls \in [Domains -> Ctxs \union {NoCtx}]
  /\ made \in 0 .. MaxCtxs
  /\ verdict \in [Domains -> Z!Verdicts \union {"Uninit"}]
  /\ res \in [0 .. Len(blobs) - 1 -> Z!Verdicts \union {"Uninit"}]

(* The passes keep the rules of z3_mini.c: a context is used by one domain *)
(* at a time and only when mk has made it.                                 *)
KeepsInterface == Z!Spec

(* The verdicts that are right for the program of a path: what Z3 may      *)
(* answer about it, or what its solver's first line says.                  *)
Fits ==
  [path \in Smt2 |->
     IF path \in Paths("root_dir") THEN Z!Possible(Z!Asserted(Tree["root_dir"][path]))
     ELSE ExeVerdicts(Tree["root_non_api_dir"][path])]

(* A pass judges every program of the directory it is meant for, once, by  *)
(* a verdict that is the program's own whichever domain checked it and     *)
(* whatever else that domain's context was used for, in this pass or an    *)
(* earlier one.                                                            *)
Index(path) == CHOOSE i \in DOMAIN res : blobs[i + 1] = path
B == INSTANCE Batch WITH
       Over <- [k \in DOMAIN Passes |-> Paths(RootOf(k)) \intersect Smt2],
       Fitting <- Fits,
       open <- running,
       res <- [path \in {blobs[k] : k \in DOMAIN blobs} |-> res[Index(path)]]
JudgesEach == B!Spec

(* A pass comes to an end, or the program does, whatever chunk_size is     *)
(* given, unless a domain is blocked for ever in z3_exe_check_sat by a     *)
(* solver that floods a pipe: Task.run then waits for it for ever.         *)
Stuck == \E d \in Domains : at[d] = "stuck"
PassEnds == running ~> (~running \/ crashed \/ Stuck)
=============================================================================
