------------------------------ MODULE Z3Bench ------------------------------
(***************************************************************************)
(* main_task of tools/z3-bench/z3-bench.cpp: search_directory has a pool   *)
(* of threads read the .smt2 files, which append them to one vector under  *)
(* a mutex; then the main thread parses each program, expression by        *)
(* expression.                                                             *)
(*                                                                         *)
(* The file system and BS::thread_pool are outside the repository: files   *)
(* are visited in any order, somebody may write them meanwhile, and wait   *)
(* returns when no task is queued or running.                              *)
(***************************************************************************)
EXTENDS SExpr, SequencesExt

CONSTANTS Chars,     \* the characters of a file
          Threads,   \* of the pool
          Files,     \* the regular files under the directory
          Smt2,      \* those whose name ends in .smt2
          Disks,     \* what the files may hold: functions from Files to texts
          Written,   \* those that somebody may overwrite meanwhile,
          Rewrites,  \* with these texts,
          MaxWrites  \* bound: this often

NoThread == "none"
NoFile == "none"

ASSUME Z3BenchAssumption ==
  /\ IsFiniteSet(Files) /\ Smt2 \subseteq Files /\ Written \subseteq Smt2
  /\ Delimiters \subseteq Chars
  /\ Disks \subseteq [Files -> Seq(Chars)] /\ Rewrites \subseteq Seq(Chars)
  /\ MaxWrites \in Nat /\ NoThread \notin Threads

VARIABLES
  held,        \* file -> the texts it has held, the last of them now
  unvisited,   \* files the iterator has not come to
  queue,       \* tasks detached and not taken
  thread,      \* thread -> "free", "fstat", "read", "lock", "size", "put" or "unlock"
  job,         \* thread -> file of its task
  sz,          \* thread -> sz of slurp_file
  content,     \* thread -> content of read_smt2
  size,        \* thread -> the vector's size as push_back found it
  mutex,       \* smt2_progs_mutex: who holds it
  smt2_progs,  \* the vector
  pc,          \* the main thread: "main", "search", "wait", "parse", "done", "usage" or "aborted"
  prog, pos,   \* the program being parsed, and pos_ of its parser
  lists,       \* what each active parse_list has read, the outermost first
  printed      \* program -> the expressions printed of it

slurping == <<sz, content>>
reading == <<unvisited, queue, thread, job, size, slurping, mutex, smt2_progs>>
parsing == <<prog, pos, lists, printed>>
vars == <<held, reading, pc, parsing>>
-----------------------------------------------------------------------------
Init ==
  /\ \E d \in Disks : held = [f \in Files |-> <<d[f]>>]
  /\ unvisited = Files /\ queue = {}
  /\ thread = [t \in Threads |-> "free"]
  /\ job = [t \in Threads |-> NoFile]
  /\ size = [t \in Threads |-> 0]
  /\ sz = [t \in Threads |-> 0]
  /\ content = [t \in Threads |-> << >>]
  /\ mutex = NoThread
  /\ smt2_progs = << >>
  /\ pc = "main" /\ prog = 1 /\ pos = 1
  /\ lists = << >> /\ printed = << >>

(* z3_bench_main: arguments that do not parse end the program, and so does *)
(* the assertion of set_thread_priority_11.                                *)
Arguments ==
  /\ pc = "main" /\ pc' \in {"search", "usage", "aborted"}
  /\ UNCHANGED <<held, reading, parsing>>

(* search_directory: a task for every .smt2 file. *)
Visit(f) ==
  /\ pc = "search" /\ f \in unvisited
  /\ unvisited' = unvisited \ {f}
  /\ queue' = IF f \in Smt2 THEN queue \union {f} ELSE queue
  /\ UNCHANGED <<held, thread, job, size, slurping, mutex, smt2_progs, pc, parsing>>

(* The iterator's filesystem_error is not one that z3_bench_main catches.  *)
SearchFails ==
  /\ pc = "search" /\ pc' = "aborted"
  /\ UNCHANGED <<held, reading, parsing>>

EndSearch ==
  /\ pc = "search" /\ unvisited = {}
  /\ pc' = "wait"
  /\ UNCHANGED <<held, reading, parsing>>

(* parser{smt2_prog} for the k-th program, if there is one *)
Begin(k) ==
  /\ prog' = k /\ lists' = << >>
  /\ pc' = IF k <= Len(smt2_progs) THEN "parse" ELSE "done"
  /\ pos' = IF k <= Len(smt2_progs) THEN SkipWhitespace(smt2_progs[k], 1) ELSE 1

(* pool.wait(), and the pool is destroyed. *)
PoolWait ==
  /\ pc = "wait" /\ queue = {} /\ \A t \in Threads : thread[t] = "free"
  /\ Begin(1)
  /\ printed' = [k \in DOMAIN smt2_progs |-> << >>]
  /\ UNCHANGED <<held, reading>>

Goto(t, from, to) == thread[t] = from /\ thread' = [thread EXCEPT ![t] = to]

Take(t) ==
  /\ Goto(t, "free", "fstat")
  /\ \E f \in queue : queue' = queue \ {f} /\ job' = [job EXCEPT ![t] = f]
  /\ UNCHANGED <<held, unvisited, size, slurping, mutex, smt2_progs, pc, parsing>>

Now(f) == Last(held[f])

(* slurp_file asks for the size of the file, ... *)
Fstat(t) ==
  /\ Goto(t, "fstat", "read")
  /\ sz' = [sz EXCEPT ![t] = Len(Now(job[t]))]
  /\ UNCHANGED <<held, unvisited, queue, job, size, content, mutex, smt2_progs, pc, parsing>>

Got(t) == SubSeq(Now(job[t]), 1, Min({sz[t], Len(Now(job[t]))}))

(* Mutant: takes the buffer as it is, zeroed where nothing was read. *)
ReadUnchecked(t) ==
  /\ Goto(t, "read", "lock")
  /\ content' = [content EXCEPT ![t] = Got(t) \o [k \in 1 .. sz[t] - Len(Got(t)) |-> "0"]]
  /\ UNCHANGED <<held, unvisited, queue, job, size, sz, mutex, smt2_progs, pc, parsing>>

(* ... then reads as much, ...                                             *)
Read(t) ==
  /\ Goto(t, "read", "lock")
  /\ Len(Got(t)) = sz[t]
  /\ content' = [content EXCEPT ![t] = Got(t)]
  /\ UNCHANGED <<held, unvisited, queue, job, size, sz, mutex, smt2_progs, pc, parsing>>

(* ... asserting that open, fstat and close succeed and that read has got  *)
(* as much as it asked for.                                                *)
AssertionFails(t) ==
  /\ thread[t] \in {"fstat", "read"}
  /\ pc' = "aborted"
  /\ UNCHANGED <<held, reading, parsing>>

(* Mutant: no lock. *)
LockNot(t) ==
  /\ Goto(t, "lock", "size")
  /\ mutex' = t
  /\ UNCHANGED <<held, unvisited, queue, job, size, slurping, smt2_progs, pc, parsing>>

(* std::lock_guard lock{smt2_progs_mutex} *)
Lock(t) ==
  /\ mutex = NoThread
  /\ Goto(t, "lock", "size")
  /\ mutex' = t
  /\ UNCHANGED <<held, unvisited, queue, job, size, slurping, smt2_progs, pc, parsing>>

(* smt2_progs.push_back(content), which is not atomic *)
PushSize(t) ==
  /\ Goto(t, "size", "put")
  /\ size' = [size EXCEPT ![t] = Len(smt2_progs)]
  /\ UNCHANGED <<held, unvisited, queue, job, slurping, mutex, smt2_progs, pc, parsing>>

PushPut(t) ==
  /\ Goto(t, "put", "unlock")
  /\ smt2_progs' = Append(SubSeq(smt2_progs, 1, size[t]), content[t])
  /\ UNCHANGED <<held, unvisited, queue, job, size, slurping, mutex, pc, parsing>>

Release(t, holder) ==
  /\ Goto(t, "unlock", "free")
  /\ mutex' = holder
  /\ job' = [job EXCEPT ![t] = NoFile]
  /\ size' = [size EXCEPT ![t] = 0] /\ sz' = [sz EXCEPT ![t] = 0]
  /\ content' = [content EXCEPT ![t] = << >>]
  /\ UNCHANGED <<held, unvisited, queue, smt2_progs, pc, parsing>>

(* Mutant: the mutex stays locked. *)
UnlockNot(t) == Release(t, t)

Unlock(t) == Release(t, NoThread)

Text == smt2_progs[prog]
AtEnd == Eof(Text, pos)
Within == lists # << >>
AtClose == ~AtEnd /\ Text[pos] = Close

(* An expression that ends before p is an element of the innermost of the  *)
(* lists being read, or printed.                                           *)
Return(e, outer, p) ==
  /\ pos' = SkipWhitespace(Text, p)
  /\ IF outer = << >>
     THEN /\ lists' = outer
          /\ printed' = [printed EXCEPT ![prog] = @ \o e]
     ELSE /\ lists' = Append(Front(outer), Last(outer) \o e)
          /\ UNCHANGED printed

(* parse_list *)
OpenList ==
  /\ pc = "parse" /\ ~AtEnd /\ Text[pos] = Open
  /\ lists' = Append(lists, << >>)
  /\ pos' = SkipWhitespace(Text, pos + 1)
  /\ UNCHANGED <<held, reading, pc, prog, printed>>

CloseList ==
  /\ pc = "parse" /\ Within /\ (AtEnd \/ AtClose)
  /\ Return(List(Last(lists)), Front(lists), IF AtEnd THEN pos ELSE pos + 1)
  /\ UNCHANGED <<held, reading, pc, prog>>

(* parse_atom *)
ParseAtom ==
  /\ pc = "parse" /\ ~AtEnd /\ Text[pos] \notin {Open, Close}
  /\ Return(AtomAt(Text, pos), lists, EndOfAtom(Text, pos))
  /\ UNCHANGED <<held, reading, pc, prog>>

(* Mutant: the next program starts where this one ended. *)
NextProgramRunsOn ==
  /\ pc = "parse" /\ ~Within /\ (AtEnd \/ AtClose)
  /\ prog' = prog + 1
  /\ pc' = IF prog < Len(smt2_progs) THEN "parse" ELSE "done"
  /\ UNCHANGED <<held, reading, pos, lists, printed>>

(* An empty atom: at the end, or at a ")" that closes nothing, which       *)
(* parse_atom does not consume.                                            *)
NextProgram ==
  /\ pc = "parse" /\ ~Within /\ (AtEnd \/ AtClose)
  /\ Begin(prog + 1)
  /\ UNCHANGED <<held, reading, printed>>

Parse == OpenList \/ CloseList \/ ParseAtom \/ NextProgram

MainThread ==
  \/ Arguments \/ (\E f \in Files : Visit(f)) \/ SearchFails \/ EndSearch
  \/ PoolWait \/ Parse

PoolThread(t) ==
  /\ pc # "aborted"
  /\ \/ Take(t) \/ Fstat(t) \/ Read(t) \/ AssertionFails(t)
     \/ Lock(t) \/ PushSize(t) \/ PushPut(t) \/ Unlock(t)

(* Somebody else overwrites a file that is being read. *)
Overwrite(f) ==
  /\ \E t \in Threads : thread[t] \in {"fstat", "read"} /\ job[t] = f
  /\ Len(held[f]) <= MaxWrites
  /\ \E text \in Rewrites : held' = [held EXCEPT ![f] = Append(@, text)]
  /\ UNCHANGED <<reading, pc, parsing>>

Next == MainThread \/ (\E t \in Threads : PoolThread(t)) \/ \E f \in Written : Overwrite(f)

Spec == Init /\ [][Next]_vars

(* The operating system runs every thread, and a mutex that is free again  *)
(* and again is had by whoever waits for it: each locks it finitely often. *)
FairSpec == Spec /\ WF_vars(MainThread) /\ \A t \in Threads : WF_vars(PoolThread(t))
-----------------------------------------------------------------------------
TypeOK ==
  /\ held \in [Files -> Seq(Seq(Chars))]
  /\ \A f \in Files : Len(held[f]) \in 1 .. MaxWrites + 1
  /\ unvisited \subseteq Files /\ queue \subseteq Smt2
  /\ thread \in [Threads -> {"free", "fstat", "read", "lock", "size", "put", "unlock"}]
  /\ job \in [Threads -> Smt2 \union {NoFile}]
  /\ size \in [Threads -> Nat] /\ sz \in [Threads -> Nat]
  /\ content \in [Threads -> Seq(Chars)]
  /\ mutex \in Threads \union {NoThread}
  /\ smt2_progs \in Seq(Seq(Chars))
  /\ pc \in {"main", "search", "usage", "wait", "parse", "done", "aborted"}
  /\ prog \in 1 .. Len(smt2_progs) + 1
  /\ pc = "parse" => prog <= Len(smt2_progs) /\ pos \in 1 .. Len(smt2_progs[prog]) + 1
  /\ lists \in Seq(Seq(Seq(Chars))) /\ (pc # "parse" => lists = << >>)
  /\ printed \in Seq(Seq(Seq(Chars))) /\ Len(printed) <= Len(smt2_progs)

(* What main_task prints is what its files hold: for every .smt2 file, in  *)
(* some order, exactly the tokens before the first ")" that closes         *)
(* nothing, lists left open being closed; nothing of what comes after.     *)
(* Of a file written meanwhile, it is a text that the file held, or as     *)
(* much of it as an earlier text was long.                                 *)
Texts(f) == {held[f][j] : j \in DOMAIN held[f]}
PrintsFiles ==
  pc = "done" =>
    /\ Len(printed) = Cardinality(Smt2)
    /\ \E order \in [DOMAIN printed -> Smt2] :
         /\ \A j, k \in DOMAIN printed : order[j] = order[k] => j = k
         /\ \A k \in DOMAIN printed : \E text, other \in Texts(order[k]) :
              Len(other) <= Len(text) /\ Reads(SubSeq(text, 1, Len(other)), printed[k])

(* Whatever the files hold, the program ends. *)
Ends == <>(pc \in {"usage", "done", "aborted"})
=============================================================================
