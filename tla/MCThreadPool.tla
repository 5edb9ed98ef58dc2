---------------------------- MODULE MCThreadPool ----------------------------
(* Model-checking instances of ThreadPool. *)
EXTENDS ThreadPool, TLC

PoolSymmetry == Permutations(WorkerIds) \cup Permutations(Clients)
                  \cup Permutations(Tasks)

=============================================================================
