-------------------------- MODULE MCActorScheduler --------------------------
(* Instances of ActorScheduler for TLC. *)
EXTENDS ActorScheduler, TLC

\* The workers, the messages and the actors are interchangeable.
Symmetry == Permutations(Workers) \cup Permutations(Msgs) \cup Permutations(Actors)

\* For the runs with liveness, where symmetry is unsound: the messages are sent
\* in a fixed order, since which envelope a send takes is immaterial.
InOrder ==
    \A m \in Msgs : target[m] = NoActor /\ target'[m] # NoActor
                     => \A k \in Msgs : k < m => target[k] # NoActor
=============================================================================
