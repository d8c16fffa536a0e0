--------------------------- MODULE MCWaitHelping ----------------------------
(* Instances of WaitHelping for TLC. *)
EXTENDS WaitHelping, TLC

CONSTANTS t1, t2

\* Two workers whose methods suspend when they wait, and one worker whose methods
\* wait inside blocks.
Apart == [pool |-> {t1, t2}, blocking |-> {}, waits |-> 1]
Together == [pool |-> {t1}, blocking |-> {1, 2}, waits |-> 2]
SeparateSetups == {Apart, Together}

\* Two workers and one method that waits inside a block.
BuriedSetups == {[pool |-> {t1, t2}, blocking |-> {1}, waits |-> 1]}

\* One worker, and every method waits inside a block.
DeepSetups == {[pool |-> {t1}, blocking |-> {1, 2, 3}, waits |-> 1]}

\* Of the instance with BuriedSetups, and only for its invariant.
Symmetry == Permutations({t1, t2})

\* The messages are sent in a fixed order, those that wait inside blocks apart, and to
\* actors in the order of their first message: which envelope a send takes, and what
\* the actors are called, is immaterial.
InOrder ==
    \A m \in Messages : state[m] = "unsent" /\ state'[m] = "queued" =>
        /\ \A k \in Messages : state[k] = "unsent" /\ (k \in setup.blocking <=> m \in setup.blocking) => m <= k
        /\ \A a \in Actors : a < target'[m] => \E k \in Messages : target[k] = a
=============================================================================
