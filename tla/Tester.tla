------------------------------- MODULE Tester -------------------------------
(***************************************************************************)
(* The process of mimalloc-tester-trick: dyld-interposing.c gets mimalloc  *)
(* ready before anything allocates, mimalloc-tester-exe.c and -dylib-c.c   *)
(* then allocate on two threads.                                           *)
(*                                                                         *)
(* What each thread has still to do is a sequence of calls, each with the  *)
(* image it is compiled into.  Calls that only print leave it alone, but   *)
(* for the address that set_program_vars prints (Interposing).             *)
(* dyld, libsystem and mimalloc are outside the repository.  The kernel    *)
(* starts new threads at the function registered with it; a process that   *)
(* main returns from is over, whatever its threads still had to do.        *)
(***************************************************************************)
EXTENDS Interposing

Threads == {"main", "t"}  \* and the one that mimalloc_tester_main creates
None == "none"

VARIABLES
  todo,    \* thread -> the calls to come
  environ, \* _program_vars_init has run
  loaded,  \* _mi_process_load: "no", "without environ" or "yes"
  start,   \* what is registered as the start of threads
  slot,    \* thread -> HEAP_DEFAULT of its TSD: None, "empty" (_mi_heap_empty) or "own"
  p,       \* thread -> the p of its function: a block or NoBlock
  live     \* the blocks allocated: [by |-> allocator, of |-> thread, via |-> function]

process == <<todo, environ, loaded, start, slot, p, live>>
-----------------------------------------------------------------------------
Blocks == [by : {"mimalloc", "libsystem"}, of : Threads, via : {"malloc", "strdup"}]
NoBlock == [by |-> None, of |-> None, via |-> None]

Names == {"set_program_vars", "_mi_process_load", "heap_empty", "__pthread_init", "malloc", "free",
          "strdup", "pthread_create", "pthread_join", "join_garbage", "crashed"}

Call(f, image) == [f |-> f, image |-> image]
Calls(fs, image) == [k \in DOMAIN fs |-> Call(fs[k], image)]

(* Mutant: mimalloc is loaded before the program variables are there. *)
pthread_init_load_first ==
  <<"_mi_process_load", "set_program_vars", "heap_empty", "__pthread_init">>

my_pthread_init ==
  <<"set_program_vars", "_mi_process_load", "heap_empty", "__pthread_init">>

main == <<"malloc", "free">>
mimalloc_tester_main == <<"malloc", "free", "strdup", "pthread_create", "pthread_join">>

(* Mutant: with the `free` that the FIXME has commented out. *)
pthread_test_frees == <<"malloc", "free", "strdup", "free">>

pthread_test == <<"malloc", "free", "strdup">>

Init ==
  /\ PrintInit
  /\ todo = [t \in Threads |->
              IF t = "main" THEN Calls(my_pthread_init, "lib") \o Calls(main, "exe")
                                   \o Calls(mimalloc_tester_main, "lib")
              ELSE << >>]
  /\ environ = FALSE /\ loaded = "no" /\ start = None
  /\ slot = [t \in Threads |-> None]
  /\ p = [t \in Threads |-> NoBlock] /\ live = {}

(* The functions of mimalloc-extern.c that DYLD_INTERPOSE names. *)
Interposed == {"malloc", "free", "calloc", "malloc_size"}

(* Who serves a call of malloc or free.  The library is compiled with      *)
(* these names defined as mimalloc's, and dyld rebinds those of the other  *)
(* images, but not in libsystem itself ("malloc in strdup not interposed").*)
Server(f, image) ==
  IF image = "lib" \/ (image = "exe" /\ f \in Interposed) THEN "mimalloc" ELSE "libsystem"

Current(t) == Head(todo[t])
At(t, f) == todo[t] # << >> /\ Current(t).f = f /\ pc = "idle"
Done(t) == todo' = [todo EXCEPT ![t] = Tail(@)]

set_program_vars ==
  /\ At("main", "set_program_vars")
  /\ \/ /\ called # <<"set_program_vars">>
        /\ \E c \in Codes, b \in Bases : SetProgramVars(c, b)
        /\ UNCHANGED process
     \/ /\ called = <<"set_program_vars">>  \* and the address is printed: it is called
        /\ environ' = TRUE
        /\ Done("main")
        /\ UNCHANGED <<vars, loaded, start, slot, p, live>>

_mi_process_load ==
  /\ At("main", "_mi_process_load") /\ Done("main")
  /\ loaded' = IF environ THEN "yes" ELSE "without environ"
  /\ UNCHANGED <<vars, environ, start, slot, p, live>>

(* The assignment of my_pthread_init, and that of my_thread_start. *)
SetHeap(t) ==
  /\ At(t, "heap_empty") /\ Done(t)
  /\ slot' = [slot EXCEPT ![t] = "empty"]
  /\ UNCHANGED <<vars, environ, loaded, start, p, live>>

(* Mutant: what libpthread passes is passed on. *)
bsdthread_register_given(threadstart) == threadstart

my_bsdthread_register(threadstart) == "my_thread_start"

(* libpthread's own __pthread_init registers thread_start. *)
__pthread_init ==
  /\ At("main", "__pthread_init") /\ Done("main")
  /\ start' = my_bsdthread_register("thread_start")
  /\ UNCHANGED <<vars, environ, loaded, slot, p, live>>

(* The first allocation of a thread in mimalloc gives it a heap. *)
malloc(t) ==
  LET b == [by |-> Server("malloc", Current(t).image), of |-> t, via |-> "malloc"] IN
  /\ At(t, "malloc") /\ Done(t)
  /\ slot' = IF b.by = "mimalloc" THEN [slot EXCEPT ![t] = "own"] ELSE slot
  /\ p' = [p EXCEPT ![t] = b] /\ live' = live \union {b}
  /\ UNCHANGED <<vars, environ, loaded, start>>

strdup(t) ==
  LET b == [by |-> Server("malloc", "libsystem"), of |-> t, via |-> "strdup"] IN
  /\ At(t, "strdup") /\ Done(t)
  /\ p' = [p EXCEPT ![t] = b] /\ live' = live \union {b}
  /\ UNCHANGED <<vars, environ, loaded, start, slot>>

free(t) ==
  /\ At(t, "free") /\ Done(t)
  /\ live' = live \ {p[t]}
  /\ UNCHANGED <<vars, environ, loaded, start, slot, p>>

(* It may fail, and main does not look at the result before the join. *)
pthread_create ==
  /\ At("main", "pthread_create")
  /\ \E ok \in BOOLEAN :
       todo' = [todo EXCEPT
         !["main"] = IF ok THEN Tail(@) ELSE <<Call("join_garbage", "lib")>>,
         !["t"] = IF ~ok THEN @
                  ELSE Calls((IF start = "my_thread_start" THEN <<"heap_empty">> ELSE << >>)
                               \o pthread_test, "lib")]
  /\ UNCHANGED <<vars, environ, loaded, start, slot, p, live>>

pthread_join ==
  /\ At("main", "pthread_join") /\ todo["t"] = << >> /\ Done("main")
  /\ UNCHANGED <<vars, environ, loaded, start, slot, p, live>>

(* pthread_join of a t that was never written returns an error or crashes. *)
pthread_join_garbage ==
  /\ At("main", "join_garbage")
  /\ \/ Done("main")
     \/ todo' = [todo EXCEPT !["main"] = <<Call("crashed", "lib")>>]
  /\ UNCHANGED <<vars, environ, loaded, start, slot, p, live>>

Step(t) == SetHeap(t) \/ malloc(t) \/ strdup(t) \/ free(t)

(* write_size_to_strbuf is used by dump_tsd, which nothing calls: it is    *)
(* tried on its own, in a process that has not begun.                      *)
TryWriteSize ==
  /\ At("main", "set_program_vars")
  /\ \E v \in Numbers, sz \in Sizes : WriteSize(v, sz)

Next ==
  \/ Running /\ UNCHANGED process
  \/ TryWriteSize /\ UNCHANGED process
  \/ set_program_vars \/ _mi_process_load \/ __pthread_init
  \/ \E t \in Threads : Step(t)
  \/ pthread_create \/ pthread_join \/ pthread_join_garbage

Spec == Init /\ [][Next]_<<vars, process>>
-----------------------------------------------------------------------------
TypeOK ==
  /\ PrintingOK
  /\ todo \in [Threads -> Seq([f : Names, image : {"exe", "lib"}])]
  /\ environ \in BOOLEAN /\ loaded \in {"no", "without environ", "yes"}
  /\ start \in {None, "my_thread_start", "thread_start"}
  /\ slot \in [Threads -> {None, "empty", "own"}]
  /\ p \in [Threads -> Blocks \union {NoBlock}] /\ live \subseteq Blocks

(* Whenever mimalloc is asked for memory, on whichever thread, it has been *)
(* loaded with the program's environment there to be read ("needed for     *)
(* mimalloc getenv"), and the thread's heap is set.                        *)
HeapReady ==
  \A t \in Threads : At(t, "malloc") /\ Server("malloc", Current(t).image) = "mimalloc" =>
    loaded = "yes" /\ slot[t] # None

(* A block goes back, once, to the allocator that made it, and the end of  *)
(* the process finds only what strdup made.                                *)
FreesOwn ==
  /\ \A t \in Threads : At(t, "free") =>
       p[t] \in live /\ p[t].by = Server("free", Current(t).image)
  /\ \A b \in live : \A t \in Threads : todo[t] = << >> /\ b.of = t => b.via = "strdup"
=============================================================================
