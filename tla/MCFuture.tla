------------------------------ MODULE MCFuture ------------------------------
(***************************************************************************)
(* Instances of Future: see the .cfg files.                                *)
(***************************************************************************)
EXTENDS Future, TLC

\* Nothing tells one future from another.
FutureSymmetry == Permutations(Futures)
=============================================================================
