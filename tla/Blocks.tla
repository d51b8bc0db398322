------------------------------- MODULE Blocks -------------------------------
(***************************************************************************)
(* How ThreadPool::blocks of tools/z3-bench/z3-bench.cpp divides the       *)
(* indices first .. last - 1 among tasks.  Indices and sizes are integers  *)
(* here: a size_t large enough to overflow would need an array to match.   *)
(***************************************************************************)
EXTENDS Integers

Least(a, b) == IF a < b THEN a ELSE b

TotalSize(first, last) == last - first

(* Mutant: an empty range is not told apart. *)
NumBlocksUnguarded(first, last, wanted) == Least(wanted, TotalSize(first, last))

(* get_num_blocks: the constructor's num_blocks, at least one per call.  Its *)
(* `block_size == 0` branch cannot be taken once num_blocks <= total_size. *)
NumBlocks(first, last, wanted) ==
  IF last > first THEN Least(wanted, TotalSize(first, last)) ELSE 0

BlockSize(first, last, n) == TotalSize(first, last) \div n
Remainder(first, last, n) == TotalSize(first, last) % n

Start(first, last, n, b) ==
  first + b * BlockSize(first, last, n) + Least(b, Remainder(first, last, n))

(* Mutant: end is inclusive. *)
EndInclusive(first, last, n, b) ==
  IF b = n - 1 THEN last ELSE Start(first, last, n, b + 1) - 1

End(first, last, n, b) == IF b = n - 1 THEN last ELSE Start(first, last, n, b + 1)

Block(first, last, n, b) == Start(first, last, n, b) .. End(first, last, n, b) - 1
=============================================================================
