----------------------------- MODULE LifoStack ------------------------------
(***************************************************************************)
(* What ReadyStack promises: a stack on which every push and every pop     *)
(* takes effect at one moment between its call and its return.             *)
(***************************************************************************)
EXTENDS Sequences

CONSTANTS Threads, Values, NoValue

VARIABLES
    stack,  \* the values, from the top
    in,     \* the value a thread has yet to push
    out     \* the value a thread has popped and not yet returned

vars == <<stack, in, out>>

Init ==
    /\ stack = <<>>
    /\ in = [t \in Threads |-> NoValue]
    /\ out = [t \in Threads |-> NoValue]

CallPush(t, v) ==
    /\ in[t] = NoValue /\ out[t] = NoValue
    /\ in' = [in EXCEPT ![t] = v]
    /\ UNCHANGED <<stack, out>>

DoPush(t) ==
    /\ in[t] # NoValue
    /\ stack' = <<in[t]>> \o stack
    /\ in' = [in EXCEPT ![t] = NoValue]
    /\ UNCHANGED out

\* No memory: the value is not pushed and the caller is told so.
FailPush(t) ==
    /\ in[t] # NoValue
    /\ in' = [in EXCEPT ![t] = NoValue]
    /\ UNCHANGED <<stack, out>>

DoPop(t) ==
    /\ in[t] = NoValue /\ out[t] = NoValue
    /\ stack # <<>>
    /\ out' = [out EXCEPT ![t] = Head(stack)]
    /\ stack' = Tail(stack)
    /\ UNCHANGED in

ReturnPop(t) ==
    /\ out[t] # NoValue
    /\ out' = [out EXCEPT ![t] = NoValue]
    /\ UNCHANGED <<stack, in>>

Next ==
    \E t \in Threads :
      \/ \E v \in Values : CallPush(t, v)
      \/ DoPush(t) \/ FailPush(t) \/ DoPop(t) \/ ReturnPop(t)

Spec == Init /\ [][Next]_vars
=============================================================================
