-------------------------- MODULE MCSignalManager --------------------------
(* Model-checking instances of SignalManager. *)
EXTENDS SignalManager, TLC

SignalSymmetry == Permutations(Clients) \cup Permutations(Sigs)

=============================================================================
