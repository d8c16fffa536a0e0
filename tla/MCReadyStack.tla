---------------------------- MODULE MCReadyStack ----------------------------
(* Instances of ReadyStack for TLC. *)
EXTENDS ReadyStack, TLC

\* The threads and the values are interchangeable.
Symmetry == Permutations(Threads) \cup Permutations(Values)
=============================================================================
