---------------------------- MODULE SerialActors ----------------------------
(***************************************************************************)
(* What protoST promises of its actors, with no threads, flags or queues:  *)
(* every actor handles the messages sent to it one at a time, in the order *)
(* in which they arrived, a message it waits in keeps every later one      *)
(* waiting, and the future of every message is settled once.               *)
(***************************************************************************)
EXTENDS Naturals, Sequences

CONSTANTS Actors, Msgs, NoActor, NoMsg

VARIABLES
    inbox,    \* messages that have arrived and not been started, in order
    current,  \* the message an actor is handling
    target,   \* the receiver of each message; NoActor until it is sent
    settled   \* whether a message's future has been settled

vars == <<inbox, current, target, settled>>

Init ==
    /\ inbox = [a \in Actors |-> <<>>]
    /\ current = [a \in Actors |-> NoMsg]
    /\ target = [m \in Msgs |-> NoActor]
    /\ settled = {}

Send(m, a) ==
    /\ target[m] = NoActor
    /\ target' = [target EXCEPT ![m] = a]
    /\ inbox' = [inbox EXCEPT ![a] = Append(@, m)]
    /\ UNCHANGED <<current, settled>>

Start(a) ==
    /\ current[a] = NoMsg
    /\ inbox[a] # <<>>
    /\ current' = [current EXCEPT ![a] = Head(inbox[a])]
    /\ inbox' = [inbox EXCEPT ![a] = Tail(@)]
    /\ UNCHANGED <<target, settled>>

Finish(a) ==
    /\ current[a] # NoMsg
    /\ settled' = settled \cup {current[a]}
    /\ current' = [current EXCEPT ![a] = NoMsg]
    /\ UNCHANGED <<inbox, target>>

Next ==
    \E a \in Actors : (\E m \in Msgs : Send(m, a)) \/ Start(a) \/ Finish(a)

Spec == Init /\ [][Next]_vars

\* Every message that has arrived is started, and every one started finishes.
FairSpec == Spec /\ \A a \in Actors : WF_vars(Start(a)) /\ WF_vars(Finish(a))
=============================================================================
