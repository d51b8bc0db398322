---------------------------- MODULE ParallelLoop ----------------------------
(***************************************************************************)
(* ThreadPool's parallelize_indexed_loop and wait_on_n_tasks, and          *)
(* AtomicWaiter, of tools/z3-bench/z3-bench.cpp, called again and again by *)
(* one thread.                                                             *)
(*                                                                         *)
(* The waiter, the blocks and the loop body live in the caller's frame and *)
(* the tasks hold references to it, so every access to it is a step of its *)
(* own: the loop body, the decrement, the notification, and on the other   *)
(* side the load of the count, the test in std::atomic::wait and the       *)
(* return.  The next call's frame is where the last one was.               *)
(*                                                                         *)
(* BS::thread_pool is outside the repository: detach_task puts a task in a *)
(* pool from which the pool's threads take them in any order.              *)
(***************************************************************************)
EXTENDS Blocks, FiniteSets

CONSTANTS Workers,     \* the pool's threads
          MaxIndex,    \* bound: indices are 0 .. MaxIndex - 1
          MaxWanted,   \* bound: num_blocks a caller asks for; 0 stands for the thread count
          MaxCalls     \* bound: calls

ASSUME WorkersAssumption == IsFiniteSet(Workers) /\ Workers # {}
ASSUME LoopBoundsAssumption == MaxIndex \in Nat /\ MaxWanted \in Nat /\ MaxCalls \in Nat

Indices == 0 .. MaxIndex - 1

VARIABLES
  calls,             \* calls made so far; names the frame of the current one
  first, last, num,  \* blks: the call's range and its number of blocks
  m_cnt,             \* the AtomicWaiter in the frame
  posted,            \* i of the caller's loop: tasks detached
  caller,            \* where the calling thread is
  cur,               \* wait's local
  pool,              \* tasks detached and not taken, as <<call, block>>
  worker,            \* where each pool thread is
  task,              \* the task each pool thread has taken
  runs               \* history: index -> times the loop body has run on it

loop_vars == <<calls, first, last, num, m_cnt, posted, caller, cur, pool, worker, task, runs>>

blks == <<calls, first, last, num>>

None == <<0, 0>>
-----------------------------------------------------------------------------
LoopInit ==
  /\ calls = 0 /\ first = 0 /\ last = 0 /\ num = 0
  /\ m_cnt = 0 /\ posted = 0 /\ cur = 0
  /\ caller = "out"
  /\ pool = {}
  /\ worker = [t \in Workers |-> "free"]
  /\ task = [t \in Workers |-> None]
  /\ runs = [x \in Indices |-> 0]

(* num_blocks, and what it is when the caller does not say. *)
Wanted(wanted) == IF wanted = 0 THEN Cardinality(Workers) ELSE wanted

(* blocks blks(...); AtomicWaiter waiter(count) *)
OpenFrame(f, l, n, count) ==
  /\ caller = "out" /\ calls < MaxCalls
  /\ calls' = calls + 1
  /\ first' = f /\ last' = l /\ num' = n
  /\ m_cnt' = count
  /\ posted' = 0
  /\ caller' = "post"
  /\ runs' = [x \in Indices |-> 0]
  /\ UNCHANGED <<cur, pool, worker, task>>

(* Mutant: the waiter counts the blocks asked for. *)
CallWanted(f, l, wanted) == OpenFrame(f, l, NumBlocks(f, l, Wanted(wanted)), Wanted(wanted))

Call(f, l, wanted) ==
  LET n == NumBlocks(f, l, Wanted(wanted)) IN OpenFrame(f, l, n, n)

(* Another entry: task i for each i below n, which is a block of one index. *)
wait_on_n_tasks(n) == OpenFrame(0, n, n, n)

(* detach_task for block i *)
Post ==
  /\ caller = "post" /\ posted < num
  /\ pool' = pool \union {<<calls, posted>>}
  /\ posted' = posted + 1
  /\ UNCHANGED <<blks, m_cnt, caller, cur, worker, task, runs>>

(* Mutant: returns one release early. *)
LoadLoose ==
  /\ (caller = "post" /\ posted = num) \/ caller = "load"
  /\ cur' = m_cnt
  /\ caller' = IF m_cnt <= 1 THEN "out" ELSE "wait"
  /\ UNCHANGED <<blks, m_cnt, posted, pool, worker, task, runs>>

(* cur = m_cnt; while (cur) ...: the caller returns when it reads zero. *)
Load ==
  /\ (caller = "post" /\ posted = num) \/ caller = "load"
  /\ cur' = m_cnt
  /\ caller' = IF m_cnt = 0 THEN "out" ELSE "wait"
  /\ UNCHANGED <<blks, m_cnt, posted, pool, worker, task, runs>>

(* Mutant: blocks without comparing the count with the value last read. *)
WaitBlind ==
  /\ caller = "wait" /\ caller' = "blocked"
  /\ UNCHANGED <<blks, m_cnt, posted, cur, pool, worker, task, runs>>

(* m_cnt.wait(cur): blocks only while the count is still cur. *)
Wait ==
  /\ caller = "wait"
  /\ caller' = IF m_cnt = cur THEN "blocked" ELSE "load"
  /\ UNCHANGED <<blks, m_cnt, posted, cur, pool, worker, task, runs>>

TakeTask(t) ==
  /\ worker[t] = "free"
  /\ \E p \in pool :
       /\ pool' = pool \ {p}
       /\ task' = [task EXCEPT ![t] = p]
  /\ worker' = [worker EXCEPT ![t] = "loop"]
  /\ UNCHANGED <<blks, m_cnt, posted, caller, cur, runs>>

(* loop(i, blks.start(i), blks.end(i)) *)
RunLoop(t) ==
  /\ worker[t] = "loop"
  /\ worker' = [worker EXCEPT ![t] = "release"]
  /\ runs' = [x \in Indices |->
                runs[x] + IF x \in Block(first, last, num, task[t][2]) THEN 1 ELSE 0]
  /\ UNCHANGED <<blks, m_cnt, posted, caller, cur, pool, task>>

(* waiter.release(): m_cnt -= 1 ... *)
release(t) ==
  /\ worker[t] = "release"
  /\ worker' = [worker EXCEPT ![t] = "notify"]
  /\ m_cnt' = m_cnt - 1
  /\ UNCHANGED <<blks, posted, caller, cur, pool, task, runs>>

(* ... m_cnt.notify_all(): wakes whoever waits at that address, be it the  *)
(* caller's next call.                                                     *)
Notify(t) ==
  /\ worker[t] = "notify"
  /\ worker' = [worker EXCEPT ![t] = "free"]
  /\ caller' = IF caller = "blocked" THEN "wait" ELSE caller
  /\ UNCHANGED <<blks, m_cnt, posted, cur, pool, task, runs>>

Caller == Post \/ Load \/ Wait
Worker(t) == TakeTask(t) \/ RunLoop(t) \/ release(t) \/ Notify(t)

LoopNext ==
  \/ \E f \in 0 .. MaxIndex, l \in 0 .. MaxIndex, wanted \in 0 .. MaxWanted : Call(f, l, wanted)
  \/ \E n \in 0 .. MaxIndex : wait_on_n_tasks(n)
  \/ Caller
  \/ \E t \in Workers : Worker(t)

LoopSpec == LoopInit /\ [][LoopNext]_loop_vars

(* The operating system runs the caller and every thread of the pool. *)
LoopFairSpec == LoopSpec /\ WF_loop_vars(Caller) /\ \A t \in Workers : WF_loop_vars(Worker(t))
-----------------------------------------------------------------------------
LoopTypeOK ==
  /\ calls \in Nat
  /\ first \in 0 .. MaxIndex /\ last \in 0 .. MaxIndex /\ num \in 0 .. MaxIndex
  /\ m_cnt \in Nat /\ posted \in 0 .. num /\ cur \in Nat
  /\ caller \in {"out", "post", "load", "wait", "blocked"}
  /\ pool \subseteq Nat \X Nat
  /\ worker \in [Workers -> {"free", "loop", "release", "notify"}]
  /\ task \in [Workers -> Nat \X Nat]
  /\ runs \in [Indices -> Nat]

Active(t) == worker[t] \in {"loop", "release"}
Running == {t \in Workers : Active(t)}

(* Every access to the waiter, the blocks or the loop body is to the frame *)
(* of a call that has not returned: only a notification may come after the *)
(* return, and it does not look at the count.                              *)
FrameAlive ==
  /\ caller = "out" => pool = {}
  /\ \A p \in pool : p[1] = calls
  /\ \A t \in Workers : Active(t) => task[t][1] = calls /\ caller # "out"

(* The count is what is still to be released, while a call is open: tasks  *)
(* to detach, tasks in the pool and tasks being run.                       *)
CountExact ==
  m_cnt = (num - posted) + Cardinality(pool) + Cardinality(Running)

(* No notification is lost: a call that has been made returns. *)
CallReturns == caller = "post" ~> caller = "out"

(* parallelize_indexed_loop runs each index of its range exactly once and  *)
(* returns when all have run.                                              *)
FJ == INSTANCE ForkJoin WITH
        open <- caller # "out",
        todo <- {x \in first .. last - 1 : runs[x] = 0},
        ran  <- {x \in Indices : runs[x] = 1}
RunsEachOnce == FJ!Spec
=============================================================================
