# A formal model of z3-ocaml-sandbox

The repository measures three ways of asking Z3 whether the SMT-LIB programs of
a directory are satisfiable: through an OCaml FFI over a thin C layer, through a
`z3` process per program, and (as an experiment in C++) through a thread pool of
its own, with the allocator replaced at run time. This directory holds TLA+
models of those parts, TLC configurations that check them on small instances,
and proofs, checked by the TLA+ proof system, of what matters most about them
for instances of any size.

`PROJECT.json` is the machine-readable side of this file: the components, the
runs, a mutant for every property checked (a plausible mistake in the code that
makes the property fail), the source lines each definition stands for, the
hazards, the findings and the theorems.

## 1. The system

| Part | Source | State it keeps | Operations |
| --- | --- | --- | --- |
| SMT profiling counters | `bin/profile.ml` | a mutable list of profiles, six atomics in each | `start`, `start_smt`, `finish_smt`, `finish` |
| z3_mini C interface | `z3_mini/z3_mini.c`, `z3_mini.ml` | a context: config, Z3 context, solver with its scopes, Z3's string buffer | `mk`, `del`, three `check_sat`s, `get_model` |
| Collecting the programs | `bin/z3_ocaml_sandbox_demo.ml` 178-193, 371-429 | two tables from paths to programs | `check_dir`, `collect_files_as_map` for each directory |
| Benchmark passes | the same, 250-351, 403-429 | a domain pool, domain-local contexts, the verdict array | `z3_subproc_parse_test` four times, `z3_mini_parse_test` three times |
| Solver process | the same, 65-175 | a child process, three pipes, a temporary file | `z3_exe_check_sat` |
| Thread pool loop | `tools/z3-bench/z3-bench.cpp` 60-206 | a waiter and the blocks, in the caller's frame | `parallelize_indexed_loop`, `wait_on_n_tasks`, `AtomicWaiter` |
| Reading and parsing in z3-bench | `z3-bench.cpp` 228-314, `sexpr.h` | a vector under a mutex; the parser's position | `z3_bench_main`, `search_directory`, `read_smt2`, `slurp_file`, `SExprParser`, `main_task` |
| dyld interposition and its printing | `tools/z3-bench/dyld-interposing.c`, `noalloc-stdio.c`, `mimalloc-tester-exe.c`, `mimalloc-tester-dylib-c.c` | a heap slot per thread, the registered start of threads, the blocks allocated, fixed buffers | `my_pthread_init`, `set_program_vars`, `my_bsdthread_register`, `my_thread_start`, the tester's two threads, `write_ptr_to_strbuf`, `write_size_to_strbuf` |
| Hooks of the mimalloc test | `junk/mimalloc-test.cpp`, `junk/mimalloc-test-helper.cpp`, `junk/fishhook.c` | a list in malloc's memory, the slots of the images, each hook's original | `rebind_symbols`, `rebind_symbols_image`, the dyld callback; the hooks on `malloc`, `free`, `rand` |
| fishhook | `tools/z3-bench/fishhook.c` | a list of rebindings, a bump heap, the slots of the loaded images | `rebind_symbols`, `rebind_symbols_image`, the dyld callback |

How they interact. The benchmark's `main` reads the programs of two directories,
one for the solver processes and one for the FFI, and then runs one pass after
another: it opens a profile, sets up a pool of domains, lets `parallel_for`
check every program, tears the pool down and closes the profile. In a pass each
domain brackets each check with `start_smt` and `finish_smt` (shared state: the
profile list and its atomics), uses its own Z3 context from domain-local
storage, and writes a verdict into an array all domains share. `z3_mini.c` is
called through generated stubs; a subprocess is talked to over pipes. In
z3-bench, pool threads append to a vector the main thread reads later, and a
caller of `parallelize_indexed_loop` is woken by the tasks it posted, which hold
references into its stack frame. fishhook is called back by dyld, in whatever
thread loads an image. In mimalloc-tester-trick the library's replacements run
inside libSystem's start-up, before anything else of the process, and get
mimalloc ready for the allocations of the executable, the library and the
threads to come. In the mimalloc test the hooks call the functions they
replaced, which call `malloc` through hooked slots.

What is hard about it, beyond what a unit test reaches:

- reads and stores of shared state with other domains in between
  (`profile.ml` 70-71), compare-and-set loops, and the few places that keep
  passes apart (joins in `Task.run` and `teardown_pool`);
- a stack frame that outlives its waiter or does not (`AtomicWaiter`), lost
  wake-ups, block arithmetic at its edges;
- a context used again and again, so that each program's assertions, scopes and
  models must not reach the next; failures halfway through making one;
- a child process and its caller waiting for each other; what an exception
  leaves behind; a verdict from a solver that did not get to its end;
- rebindings that accumulate, are applied again to every image, and race with
  images coming and going; hooks that come to be called by what they call;
- an allocator used before it is ready, on a thread nobody prepared, or given
  back a block of another one;
- files that change between being measured and being read.

`PROJECT.json` lists each of these as a hazard at its line, with the properties
that would show it going wrong, or with a note where no property covers it.

## 2. The modules

| Module | What it is |
| --- | --- |
| `Profile` | `profile.ml`, every access to shared state a step |
| `Accumulator` | abstract: counters to which an addition is one indivisible step |
| `ProfileProofs` | theorems about `Profile` |
| `Blocks` | `blocks`: how a range is divided |
| `ParallelLoop` | `parallelize_indexed_loop` with `AtomicWaiter` |
| `ForkJoin` | abstract: each index is run once before the call returns |
| `Z3Mini`, `Z3MiniProofs` | `z3_mini.c`, and theorems about it |
| `SatBench` | collecting the programs, and the seven passes of `main`; composes the steps of `Z3Mini` with the pool and the domain-local contexts, and takes a call of `z3_exe_check_sat` as one step |
| `Batch` | abstract: each pass judges each program of its directory once, with its own verdict |
| `SatBenchProofs` | theorems about `SatBench`; uses the invariant of `Z3MiniProofs` |
| `Z3Exe`, `Z3ExeProofs` | `z3_exe_check_sat` and the solver process at the other end of its pipes, and theorems about it |
| `SExpr` | texts and expressions of `sexpr.h`, and an independent reading of a text |
| `Z3Bench` | `z3_bench_main`: reading files on a pool, then parsing them |
| `Z3BenchProofs` | theorems about the two parts of `z3-bench.cpp`: `Z3Bench` with `SExpr`; `Blocks` (the division is a partition, for all integers) and `ParallelLoop`, whose state and specification have names of their own (`LoopInit`, `LoopSpec`, `worker`...) so that one module can extend both |
| `Fishhook`, `FishhookProofs` | `fishhook.c`, and theorems about it |
| `Interposing` | `set_program_vars` of `dyld-interposing.c`, and the number conversions of `noalloc-stdio.c` |
| `Tester` | the process `mimalloc-tester-trick`, from the replaced `__pthread_init` to the return of `main`; extends `Interposing` by who calls which allocator when |
| `TesterProofs` | theorems about `Interposing` and `Tester` |
| `MimallocTest`, `MimallocTestProofs` | `junk/mimalloc-test.cpp` with its hooks, over `junk/fishhook.c`, and theorems about it |
| `MC...` | instances for TLC (constants that a `.cfg` cannot write) |

How state and actions correspond to the code:

- **`Profile`**. `profile_stack` is the list, a profile is the number of its six
  atomics (`{p with ...}` copies the record and shares the atomics, so it is the
  same profile). A float box is represented by who still holds it: `holders`
  says for which domains a physical `compare_and_set` would find the box it
  read. `ReadStack`, `StoreStack`, `StartIncr`, `Get`, `CompareAndSet`... are
  the separate accesses; `Start` and `Finish` are the main domain between
  passes, and `Tick` is the clock. `begun`, `measured` and `opened` are history
  variables. Floats are integers; the two clocks are one and do not run
  backwards; the five time counters share a duration.
- **`Blocks`/`ParallelLoop`**. The frame of the current call is
  `first, last, num, m_cnt`; tasks carry the call they belong to, so that a task
  of an earlier call that touched the frame would be seen to. `Load`, `Wait`,
  `release` and `Notify` are the load of the count, the test inside
  `std::atomic::wait`, the decrement and `notify_all`, each a step.
  `wait_on_n_tasks(n)` is a call with n blocks of one index: its task i stands
  for index i.
- **`Z3Mini`**. A solver is a stack of sets of programs; each call into Z3 is a
  step; each that makes an object may fail where the code tests it. What Z3 says
  of one program alone is `Answer` or `Undef`; of several programs together it
  may be anything, which is what isolation has to rule out. Who may use a
  context at the same time is the guard `Exclusive`, Z3's own rule; that the
  benchmark keeps it is a property of `SatBench`.
- **`SatBench`**. `Collect` reads a file of a directory tree (a path stands for
  its place however deep), in any order, or ends the program; `StartPass`,
  `Split`, `TakePart`, `MakeCtx`, `CallCheck`, `Store`, `EndPass` around the
  steps of an instance of `Z3Mini`, and `RunExe` in the passes that run a solver
  process. That step has the outcomes that a call has in `Z3Exe`: the verdict of
  the first line (`Says`, by program, which may be an error message: for such a
  line the code's answer is True), an exception, which ends the program, or no
  return, for a program whose output floods a pipe (`Flooding`, `stuck`).
  Domainslib is modelled from how it is used: any domain may take any part of
  the range. `blobs` is the order in which `Hashtbl.data` gives the programs,
  which may be any. `Chunk` is what `parallel_for` makes of the option
  `chunk_size`, which is any integer.
- **`Z3Exe`**. One call at a time; pipes hold `Capacity` units, a writer to a
  full one and a reader of an empty one wait. The solver may read when it likes,
  print its script's lines in order and die at any step. SIGPIPE ends the
  program (`pc = "dead"`). Whatever may raise does so in a step: making the
  file, starting the process, `List.combine`, `Sys.remove` (the file stays).
- **`SExpr`/`Z3Bench`**. The parser's recursion is an explicit stack, `lists`:
  what each active `parse_list` has collected. Each step consumes one token or
  ends a program. An expression is its tokens in the order in which the
  formatter prints them, which with the parentheses among them determine it.
  `push_back` is two steps (find the size, store), so that the mutex is what
  makes it one. `Fstat` and `Read` are the two looks of `slurp_file` at a file;
  `Overwrite` is somebody writing it in between, `held` the history of what it
  has held. `SearchFails` is the exception of the directory iterator,
  `AssertionFails` an assertion of `slurp_file`; both end the program.
- **`Interposing`**. Each turn of the loops is a step: over the instructions of
  `_libc_initializer`, over the bytes of an address, over the digits of a
  number. Characters are ASCII codes, integers have their width (`ImmBits`,
  `Bytes`) and wrap as in the code.
- **`Tester`**. What a thread has still to do, `todo`, is a sequence of calls,
  each with the image it is compiled into: `Server` says whose function that
  call reaches (the library is compiled with `malloc` defined as `mi_malloc`,
  dyld rebinds the executable's calls, libSystem's own stay). `slot` is the
  thread's TSD slot that mimalloc reads, `start` what the kernel starts threads
  at. `set_program_vars` hands over to the steps of `Interposing` and goes on
  when its address is printed. `pthread_create` may fail: the tester joins a
  thread that it has not got, which ends in an error or a crash.
- **`MimallocTest`**. `stack` is the active functions, each with the calls it
  has still to make; a call by name goes through a slot of the caller's image,
  if it has one. Every pointer of every section is a step of `RebindPointer`.
  Instead of the lines of `main` in their order, any calls of it in any order,
  so that what holds does not hang on the order written there; only the first
  line, by which `printf` gets its buffer, comes first. `want` is a history of
  what the successful calls asked for. Each name has one hook, as in the source:
  which of two hooks of a name is the later one is a question of `Fishhook`.
  What would stop the program in `my_rand` (its `call_once`, `dlsym` and the
  assertion on the pointer) is left out.
- **`Fishhook`**. A slot holds the genuine function or a hook. A walk over an
  image writes the hook's saved original and the slot in separate steps; the
  list used by a walk is the one its caller had when it began. The static heap
  counts in units of 24 bytes, the size of one rebinding and of a list entry.
  The images that are there from the start stay; with `Concurrent`, others come
  and go during calls and shift dyld's list, so that an index may have no
  header. The header and the slide of an index are two looks at the list:
  `WrongSlide` is an image that goes between them, which ends the program unless
  the slides are equal. A hook comes with one call only (`Fresh`), as it has one
  variable for what it replaced. An image is not unmapped while its slots are
  rewritten.

## 3. What is checked

Every run finishes in well under five minutes with two workers. Deadlock is
checked in `mimalloc_test`, where the calls of `main` go on for ever, and not in
the others, because each instance has an end (bounded calls and passes), and
some parts may stop for good (fishhook aborts, SIGPIPE). That nothing stops too
early is what the liveness property of a run says.

| Run | Bounds | Distinct states |
| --- | --- | --- |
| `profile` | 2 domains, 2 calls each, 1 tick, 2 passes | 118 k |
| `parallel_loop` | 2 threads, every range in 0..5, 0 to 3 blocks asked for, 2 calls, of either entry | 259 k |
| `z3_mini` | 2 callers, 2 contexts, 3 programs; symmetric callers and contexts | 689 k |
| `sat_bench` | 2 domains, a directory of 2 programs and one of a program and another file, the 7 passes of `main`, a `chunk_size` of -1 (chunks of one program) or 2 (the whole range); a program may be answered by an error message, or flood a pipe | 156 k |
| `fishhook` | 4 images (one skipped, one read-only, one that comes and goes), 3 calls for all images and 1 for one, heap of 7 units | 109 k |
| `fishhook_unloads` | 4 images, of which 2 come and go during the calls, 3 calls for all images, heap of 5 units | 112 k |
| `z3_exe` | 8 texts, both ways, 3 calls, pipes of 2 units, programs of 3 | 23 k |
| `z3_bench` | 2 threads, a file with any text of up to 4 characters of 4 kinds, one with a longer text that may be overwritten once, one of another type | 1.58 M |
| `tester` | 2 threads; distances of 4 bits, addresses of 2 bytes, 1 or 2 instructions; 142 numbers, buffers of 0 to 5 | 10 k |
| `mimalloc_test` | 5 images (3 there at the start, one without a symbol table, one read-only), 11 pointers, 2 successful calls of either entry, any number that fail | 18 k |

**`profile`**. `StackAgrees`: the unsynchronised read and store in
`update_profile` never change the list, because between `start` and `finish` all
domains see and store the same one. `NoCallLost`: the open profile has counted
each call begun. `QuietTimesExact`: when nobody is inside, each counter is the
sum of what was measured. `WallTimeBounded`: no pass reports more wall time than
its domains had. `Accumulates`: the compare-and-set loops implement
`Accumulator`. `FinishReturns`: the loops end, for calls are bounded and a
failed compare-and-set means another succeeded. Two domains are enough for every
conflict, which is always between a read and a store of two; two passes show
what a late domain could do to the next profile.

**`parallel_loop`**. `FrameAlive`: no task reads the waiter, the blocks or the
loop body of a call that has returned (all that is left to a late task is
`notify_all` on the address of the count: C++ leaves open whether that is
defined, and this property does not speak of it; if it wakes the caller of the
next call, `RunsEachOnce` says that this caller looks at the count again).
`RunsEachOnce`: refinement of `ForkJoin`, each index of the range run once
before the return. `CallReturns`: no wake-up is lost. The second call uses the
frame of the first; ranges up to five indices in three blocks have uneven
divisions with a remainder of one and two, ranges that are empty, reversed or
shorter than the number of blocks.

**`z3_mini`**. `VerdictIsolated`: when Z3 is asked, exactly the program of the
call is asserted, whichever functions ran before in that context.
`ScopesBounded`: no solver is ever more than one scope above its base, however
often its context is used, and the step with which `check_sat_reset_push_pop`
returns leaves it at its base with nothing asserted. `NoObjectLost`: each
failure path of `mk`, and `del`, releases all objects of Z3 (`mk` does not free
the block of the context itself when `init_context` fails, `z3_mini.c` 47).
`ModelFits`: the model given to a caller is one of the program it asked about,
found satisfiable; that of the empty set of assertions would not do. Safety
only: the callers are free.

**`sat_bench`**. `KeepsInterface`: the passes use `Z3Mini` as it may be used
(each step is one of its steps, no context is shared, nothing is asked of a
context that could not be made). `JudgesEach`: refinement of `Batch`: a pass
judges every `.smt2` file of the directory meant for it and no other, once, by
the program's own verdict. `PassEnds`: each pass ends, or an assertion or an
exception has ended the program, or a domain is blocked for ever in a call of
`z3_exe_check_sat` by a solver that floods a pipe (`Stuck`); for any integer as
`chunk_size`, which nobody checks: one below 1 would halve a range for ever if
`parallel_for` did not take a chunk of its own instead. The two directories hold
different programs with different verdicts, so that a pass over the wrong table
shows.

**`fishhook`**. `LatestWins`: when no walk is under way, an image that is not
skipped has, for each name rebound, the newest hook. `OriginalReached`: from
each hook the saved originals lead to the genuine function, without a cycle.
This run has images come and go only between calls, and rebinds for a single
image only a name that is not rebound otherwise. The images that the code skips
by name (`fishhook.c` 212-216) keep their bindings, although the header speaks
of "each image": `LatestWins` leaves them out.

**`fishhook_unloads`** has images come and go during the calls, so that the
count of images that the loop took is of an earlier list, an index may have no
header any more, and an image may have moved to an index that is past.
`CallReturns`: a call returns all the same, unless the program ends.
`ResidentLatest`: the images that stay, which are those the program started
with, hold the newest hook of each name whenever no call is under way; those
that come and go may be missed.

Two violation runs show what happens beyond the conditions of `fishhook`, each
against what `fishhook.h` promises; they are findings:

- `fishhook_overlap`: after `rebind_symbols_image`, a later `rebind_symbols` for
  any name puts the image's slot back to an older hook, against "the later
  rebinding will take precedence";
- `fishhook_race`: an image loaded by another thread during a call is left with
  the older of two rebindings, against the same sentence.

**`z3_exe`**. `VerdictFits`: a verdict is given only if the solver got to its
end with status 0, is that of its first line, and in the way with a file there
was no other line; so the two ways agree on each text answered by one line.
`NothingLeft`: files and processes are left only by calls that raised, at most
one of each per call; the removal of the file is one of the things that may
raise. `CallEnds`: as long as the solver's output fits the pipes the caller is
not reading (`~Flood`), the call ends. The exclusion is needed: both ways read
standard output before standard error, and the one without a file reads nothing
before it has written all and only one line after, and the instance has texts
that flood each pipe, whose calls block. A pipe of two units against programs of
three and outputs of up to four lines has every relation between the two sizes.
A solver that dies early makes the caller's write raise SIGPIPE, which ends the
program: the model has this, and no property forbids it.

**`z3_bench`**. `PrintsFiles`: at the end, for each `.smt2` file the tokens
printed are exactly those of its text before the first `)` that closes nothing,
with a `)` for each list left open. Of a file written meanwhile it is a text
that the file held, or as much of it as an earlier text was long. The right side
is stated without a parser (`Reads`, by counting parentheses). `Ends`: whatever
the files hold, the program ends, be it by an assertion of `slurp_file` or an
exception of the search. All texts of up to four characters hold each local
situation of the parser (an atom ended by each of the delimiters or the end,
empty and nested lists, lists left open, surplus parentheses, white space
anywhere); the longer texts add deeper nesting and what comes after a surplus
parenthesis.

**`tester`**. `HeapReady`: whenever mimalloc is asked for memory, on whichever
thread, its load hook has run with the environment there and the thread's heap
slot is set; for the second thread this hangs on the registration that
libpthread makes being the replaced one. `FreesOwn`: each block goes back once,
to the allocator that made it, and only what `strdup` made is left, which the
two commented-out `free`s would give to the wrong allocator. `PrintsTarget`: the
text printed, read as a hexadecimal number, is the address to which the first
branch with link goes, its own plus the signed distance, modulo the address
space. `SizeFits`: a number is written right-aligned in decimal, without leading
zeros, or the program aborts because the buffer is too short. All distances of
four bits, forward and backward, at addresses where the sum wraps, stand for the
26 bits of the code; the numbers lie around each power of ten and the buffers
are shorter, equal and longer. No liveness is claimed: threads are joined after
one run each, and the join of a thread that was not made may crash.

**`mimalloc_test`**. `AllOrNothing`: between calls, the pointers that can be
found and written hold what the last successful call about them asked for, the
others what dyld bound them to, and the memory kept is that of the list, however
many calls failed halfway. `HooksReturn`: a hook's call reaches the function it
replaced, and no function comes to be called from within itself, by way of
hooks, originals and the buffer that the first `printf` allocates: calling
`printf` before hooking `malloc` is needed for that. Two successful calls, of
either entry, with one or three names, before and after images are loaded, have
a name rebound again, a slot that holds the hook already, and an image that
comes with the callback registered or not.

Fairness is weak fairness for each thread, domain or process: the operating
system runs them. It is not assumed of actions of the environment (failing,
dying, images coming and going, the clock, new calls). In `Z3Exe` the solver's
`-t` option is the reason why it goes on to answer; in `Z3Bench` weak fairness
of a thread that waits for the mutex is enough, since each thread locks it
finitely often.

## 4. What is proved

For every value of the constants (any number of domains, threads, contexts,
programs, files, calls, images, indices; any width, number and buffer):

| Theorem | Says |
| --- | --- |
| `ProfileProofs!TypeCorrect`, `StackSafe`, `CallsExact`, `CountersAccumulate`, `TimesExact`, `WallTimeSafe` | `TypeOK`, `StackAgrees`, `NoCallLost`, `Accumulates`, `QuietTimesExact`, `WallTimeBounded` |
| `ProfileProofs!CasSafe` | a compare-and-set that succeeds replaces the value it read |
| `Z3BenchProofs!TypeCorrect`, `PrintsItsFiles` | `TypeOK`, `PrintsFiles` |
| `Z3BenchProofs!BlocksPartition` | the blocks partition the range, none empty, balanced, for all integers |
| `Z3BenchProofs!LoopTypeCorrect`, `LoopCorrect`, `CountCorrect`, `FrameSafe` | `LoopTypeOK`, `RunsEachOnce`, `CountExact` (the count is the number of releases to come, and never negative), `FrameAlive` |
| `Z3MiniProofs!TypeCorrect`, `Isolation`, `Scopes`, `NothingLost`, `ModelSafe` | the five properties of the run `z3_mini` |
| `SatBenchProofs!TypeCorrect`, `Interface`, `BatchRefined` | `TypeOK`, and the two refinements `KeepsInterface` and `JudgesEach` |
| `Z3ExeProofs!TypeCorrect`, `VerdictSafe`, `LeavesNothing` | `TypeOK`, `VerdictFits`, `NothingLeft` |
| `FishhookProofs!TypeCorrect` | `TypeOK`, with or without images coming and going during calls |
| `FishhookProofs!BoundAsAsked`, `ChainsEnd` | `LatestWins` and `OriginalReached`, under the two conditions below |
| `FishhookProofs!ResidentBound` | `ResidentLatest`, with images coming and going during calls, under the second condition |
| `TesterProofs!TypeCorrect`, `SizesFit`, `PrintsTheTarget`, `ReadyForHeap`, `BlocksGoBack` | `TypeOK`, `SizeFits`, `PrintsTarget`, `HeapReady`, `FreesOwn` |
| `MimallocTestProofs!TypeCorrect`, `CallsAllOrNothing`, `HooksGetThrough` | `TypeOK`, `AllOrNothing`, `HooksReturn` |

The assumptions are those the modules name. Sets of workers, helpers and files
are finite, bounds are naturals; the two directories have no path in common;
malformed programs are programs and each program has an answer; `chunk_size` is
any integer, and any programs may flood a pipe or be answered by any line; what
a solver prints is a sequence of answers and complaints; a hook is not a symbol;
the code that `set_program_vars` is given holds a branch with link (without one
the loop of the source runs off the end of the function). `MimallocTest` takes
from its source that only `rand` is interposed, and that the executable is there
from the start. `Z3Bench` assumes that files hold sequences of characters, the
delimiters among them, and that no thread is called "none".

Why each invariant is what it is:

- *Profile*. `IInv` = `TypeOK`, `StackAgrees`, `HolderIsCurrent` (whoever is
  registered as a holder of a box has read the value now in it) and
  `StartInPast` (no call began after now, so durations are naturals).
  `StackAgrees` is inductive only with the main domain starting and finishing a
  pass when all workers are idle. `NoCallLost` is a second induction over the
  number of domains about to increment. For `Accumulates` each step is mapped: a
  compare-and-set that succeeds is the abstract addition and needs
  `HolderIsCurrent`; everything else stutters. The sums over domains in
  `TimesAddUp` and `MeasuredBounded` are cardinalities of sets of pairs (a
  domain and a unit of its time), which the theorems on finite sets can reason
  about: what a counter holds and what domains still owe it add up to what was
  measured; and a tick adds at most one unit for each domain, which is also what
  it adds to the time of the pass.
- *Z3Bench*. The invariant has two halves. Reading: a file is waited for, queued
  or read by one thread at most (`TasksOK`), who is in `push_back` has the mutex
  (`LockOK`), so the size it found is still the vector's (`SizeOK`), what was
  read is all or as much as an earlier text was long (`ContentOK`), and the
  vector is an enumeration of the files that a task was finished with
  (`VectorOK`). After the wait these are all files (`QuietOK`), and nothing
  moves any more. Parsing: `Parsed` says that the tokens before `pos_` are, in
  order, what has been printed, then for each active `parse_list` a `(` and what
  it has collected (`Holds`, with the places where the lists begin). Each step
  of the parser appends one token on the left side of this and moves a
  parenthesis or an expression on the right (`HoldsToken`, `HoldsOpen`,
  `HoldsClose`, `HoldsReturn`). The left side is stated by counting, as `Reads`
  is: the k-th token is the one that starts at the k-th start of a token
  (`SoFar`), and there are as many active lists as the text is deep there; so a
  `)` outside of lists is one that closes nothing, and the depth was never
  negative before. At the end of the text each open list adds a `)` on both
  sides (`AddClose`). That the stack needs no induction over its nesting is why
  expressions are their tokens here.
- *ParallelLoop*. Besides `LoopTypeOK` and `CountExact`, `LoopInv` says that the
  blocks are those of the call (`BlksOK`), that tasks in the pool or in a thread
  are distinct, posted and of this call unless only the notification is left
  (`LoopTasksOK`), that a caller past the wait has a count of zero (`CallerOK`),
  and that an index has been run exactly if its block is past the loop body
  (`RunsOK`). A count of zero then means that all blocks are done, and
  `BlocksPartition` turns blocks done once into indices run once.
- *Z3Mini*. `IInv` = `TypeOK`, `Apart` (a context is used by one caller),
  `CallerOK` (what is asserted in the solver at each point of each function) and
  `ContextOK` (what a context that nobody is inside looks like, one scope at
  most). The proof has a lemma per step and factors out what a step on one
  context leaves alone.
- *SatBench*. `Inv` holds the invariant of `Z3Mini`, carried over step by step
  because every step of the benchmark is one of its steps (`StepKeeps`); that in
  turn needs `CtxsOK` (contexts of different domains differ, and one is left for
  each domain that has still to make its own) and `DomainOK` (a domain is inside
  its own context only). For `JudgesEach` the parts of the range are disjoint
  and each index without a verdict is in one of them (`PartsOK`), each index
  with one has a verdict of its program (`ResOK`), and the array lists each
  program of the directory once (`BlobsOK`), so verdicts by index are verdicts
  by program (`ByProgram`).
- *Z3Exe*. What has been read followed by what is in the pipe is what the solver
  has printed for standard output: as many lines, with the same first one
  (`OutputOK`). A solver that exited with its own status is through with its
  script (`SolverOK`), so a verdict with status 0 is that of a complete output.
  `LeftOK` counts a file or a process left as one of a failed call or of the
  present one.
- *Fishhook*. `LatestWins` is not inductive: during a call, a slot that does not
  hold what was asked for last has to be one still to be rewritten
  (`PendingOK`), and the walk under way has to write that very hook (`WalkOK`).
  `OriginalReached` needs the age of a hook: what a slot holds is no younger
  than what was asked for last (`SlotsOK`), what a hook saved is older than the
  hook (`AgesOK`), so chains of originals fall and end. Both are proved under
  `Conditions`: images come and go between calls only (`~Concurrent`), and no
  name is rebound both everywhere and in one image (`Separate`). With the first,
  one walk at a time is under way; what is interleaved are the steps of a walk
  with what happens between them and the readers of slots. Under `Concurrent`
  nothing is claimed of the chains: two walks that write the same slot can leave
  two hooks as each other's original. The runs `fishhook_race` and
  `fishhook_overlap` show that `LatestWins` fails without the one and without
  the other; `fishhook` is an instance of both. `ResidentLatest` is proved with
  `Separate` only, by an invariant of its own (`StaysInv`): images that stay are
  in front of dyld's list (`FirstInList`), so their index never changes however
  the list is shifted behind them; a callback is never about one of them
  (`StaysWalk`); so a name that is not as asked is in the caller's hands or
  still to come in its loop (`StaysPending`).
- *MimallocTest*. A slot holds what dyld bound or the hook of its own name
  (`SlotsOK`), a hook once bound has an original, which is genuine
  (`ReplacedOK`), and a pointer that is not as asked is still to be visited
  (`PendingOK`). For `HooksReturn`, functions have a rank (`main` above the
  hooks, the hooks above what they call) that falls strictly along the stack
  (`StackOK`). `printf` above `malloc` in the rank is true only as long as no
  slot is hooked when it allocates its buffer, hence `BegunOK`: the first line
  of `main` is part of the argument.
- *Tester*. `PInv`, about the printing: after i turns of `write_size_to_strbuf`
  the last i characters are those of the digits, `value` is the number without
  them, and `done` says that it is zero; after i bytes of `write_ptr_to_strbuf`
  the first i pairs are the nibbles. `Numeral` says that a text with the digits
  of a number spells the number, for any radix. `Spelled` and `Power` are
  recursive functions: that they have the values their equations say is
  `NatRecursion`, proved here by taking the union of the finite beginnings, and
  inductions are done on sets of numbers. `CInv`, about the threads: both are
  straight lines of calls, so what is true follows from how far they are;
  `MainAt(n)` and `ThreadAt(m)` say what holds n and m calls on, and the second
  thread moves only when the first has got to creating it. The join of a thread
  that could not be created is the one branch. `HeapReady` hangs on `start`
  being the replaced one when the thread is made, which the fourth call of
  `main` sees to.

Trying to prove them corrected two type invariants, each false for instances
that the runs do not have: that of `SatBench` for directories without any
program, and that of `MimallocTest` when a called name has a slot in no image.
Some definitions were put into a form that can be reasoned about, with the same
meaning: the lines read in `Z3Exe` by sets of positions, dyld's list without an
unloaded image in `Fishhook` (`Without`), the calls in `MimallocTest` without a
recursive concatenation, `Power` for `^` with a variable exponent and `Names`
for the type of `todo` in `Tester`, expressions as their tokens in `SExpr`
(nested ones were made flat by a recursive operator) and `Reads` by the rank of
a token instead of a sorted sequence of starts.

Only model-checked: the liveness properties (`FinishReturns`, `CallReturns`,
`PassEnds`, `CallEnds`, `Ends`), as fairness and `ENABLED` are out of the
prover's reach. The two violation runs are counterexamples, which need no
proof.

## 5. What is not modelled

- Code that is compiled out or never called: the calls in `mimalloc-fishhook.c`
  (under `#if 0`), `malloc-wrapped.c` (interposed by commented-out lines only),
  `link_in_symbols_dummy`, `sexpr.cpp`, `to_string` in `z3-bench.cpp`,
  `parallel_count_newlines`. `parallelize_indexed_loop` and `wait_on_n_tasks`
  have no caller in the repository either (`z3_bench_main` uses the pool's
  `detach_task` and `wait`); they are modelled because the pool offers them, and
  the calls of `ParallelLoop` are those that a user could make.
- Declarations and macros: `z3_mini/hedley.h` (a vendored header of compiler
  macros, 2061 of the repository's 4619 lines of C and C++), `types-bare.h`,
  `mimalloc-types.h`, `clear-macros.h`. They have no behaviour of their own, so
  the share of lines that a model can stand for is bounded by the rest.
- `bindings.c` and `bindings-oneshot.c`: one context, straight through, the same
  calls of Z3 that `Z3Mini` has; `junk/tlp.c` and `fbsv.cpp`: reads of thread
  storage and sizes of types.
- bindings generator, scripts, CodeQL queries, build files, samples: no state of
  this system's own.
- In the modelled parts: arguments that are no numbers and a count of domains
  that `setup_pool` refuses (the program ends before the first pass); an
  exception in a pass ends the program (`crashed` in `SatBench`), so what it
  leaves in the profile's counters is never printed and not modelled; two
  threads inside `rebind_symbols`; nested profiles and nested parallel loops (no
  caller in the repository); the layout of Mach-O files, but for what decides
  whether a pointer is found; integer width in `blocks` (`size_t` arithmetic on
  sizes that fit); lines of two threads mixing on the terminal
  (`noalloc-stdio.c` 42-43 writes a line in two calls); a hook of `fishhook`
  bound by two calls.

## 6. Plan

Done: every component is modelled and model-checked, and every safety property
of every passing run is a theorem, the three refinements included. Left, in this
order:

1. `Fishhook`: two callers at once (the hazard without a property).
2. `FishhookProofs`: `LatestWins` also for images that come during a call if no
   call is made while a callback is under way, a weaker condition than
   `~Concurrent`.
