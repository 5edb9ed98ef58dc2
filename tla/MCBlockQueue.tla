---------------------------- MODULE MCBlockQueue ----------------------------
(* Model-checking instances of BlockQueue.  The operations a run uses are    *)
(* picked in its cfg: the wakeup invariants need that no call absorbs a      *)
(* notification without taking an item, so they are checked without Peek.    *)
EXTENDS BlockQueue, TLC

ThreadSymmetry == Permutations(Threads)

=============================================================================
