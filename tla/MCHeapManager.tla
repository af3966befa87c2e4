---------------------------- MODULE MCHeapManager ----------------------------
(* A few instances, one worker besides the main task, one or two promises, a static
   and an instance cell. *)
EXTENDS HeapManager, TLC

CONSTANTS o1, o2, o3, main, w, p1, p2, static, singleton

AnyNames == Permutations(Objects) \cup Permutations(Promises)
=============================================================================
