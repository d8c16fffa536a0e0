---------------------------- MODULE WaitHelping -----------------------------
(***************************************************************************)
(* Future>>wait inside an actor: detectWaitCycle, the wait that suspends   *)
(* the actor (FutureYield), and the wait inside a block that a primitive   *)
(* evaluates (waitHelping), which keeps the thread and runs other actors'  *)
(* messages on top of the waiting method.                                  *)
(*                                                                         *)
(* A message stands for its future too: the future of a send carries the   *)
(* actor that will settle it (__target_actor__).  How an actor comes to be *)
(* queued and woken, and that it runs one message at a time, is the        *)
(* subject of ActorScheduler; here any message of an actor that runs none  *)
(* may be started, and a suspended one resumes once its future is settled. *)
(***************************************************************************)
EXTENDS Naturals, Sequences, FiniteSets

CONSTANTS
    Actors,
    Messages,
    Threads,      \* the worker threads
    Setups,       \* what a program runs with: the threads in the pool, the
                  \* messages whose method waits inside a block of a primitive,
                  \* and the bound on how often one method waits
    WalkLimit,    \* detectWaitCycle follows at most 256 futures
    MaxHelping,   \* kMaxHelpingDepth
    NoMessage,    \* nil in __waiting_on__
    NoActor

ASSUME NoMessageAssumption == NoMessage \notin Messages
ASSUME NoActorAssumption == NoActor \notin Actors
ASSUME SetupsAssumption == 
    \A s \in Setups : s.pool \subseteq Threads /\ s.blocking \subseteq Messages /\ s.waits \in Nat
ASSUME LimitsAssumption == WalkLimit \in Nat /\ MaxHelping \in Nat

VARIABLES
    setup,       \* the one the program runs with
    target,      \* __target_actor__ of the message's future
    state,       \* "unsent", "queued", "active" or "settled"
    awaited,     \* the future the message's method waits for
    suspended,   \* the messages whose method has yielded
    waitingOn,   \* __waiting_on__ of every actor
    stack,       \* the messages on a thread's stack, the running one last
    pc,
    at,          \* detectWaitCycle: fut
    steps,       \* detectWaitCycle: step
    waits        \* how often a method has waited

msgVars == <<target, state, awaited, suspended, waits>>
vars == <<setup, msgVars, waitingOn, stack, pc, at, steps>>

TypeOK ==
    /\ setup \in Setups
    /\ target \in [Messages -> Actors \cup {NoActor}]
    /\ state \in [Messages -> {"unsent", "queued", "active", "settled"}]
    /\ awaited \in [Messages -> Messages \cup {NoMessage}]
    /\ suspended \in SUBSET Messages
    /\ waitingOn \in [Actors -> Messages \cup {NoMessage}]
    /\ stack \in [Threads -> Seq(Messages)]
    /\ pc \in [Threads -> {"idle", "run", "record", "walk", "next", "park", "help"}]
    /\ at \in [Threads -> Messages \cup {NoMessage}]
    /\ steps \in [Threads -> 0 .. WalkLimit]
    /\ waits \in [Messages -> 0 .. setup.waits]

Init ==
    /\ setup \in Setups
    /\ target = [m \in Messages |-> NoActor]
    /\ state = [m \in Messages |-> "unsent"]
    /\ awaited = [m \in Messages |-> NoMessage]
    /\ suspended = {}
    /\ waitingOn = [a \in Actors |-> NoMessage]
    /\ stack = [t \in Threads |-> <<>>]
    /\ pc = [t \in Threads |-> "idle"]
    /\ at = [t \in Threads |-> NoMessage]
    /\ steps = [t \in Threads |-> 0]
    /\ waits = [m \in Messages |-> 0]

Goto(t, from, to) == pc[t] = from /\ pc' = [pc EXCEPT ![t] = to]

Top(t) == stack[t][Len(stack[t])]
Self(t) == target[Top(t)]        \* currentActor
Settled(m) == state[m] = "settled"
Push(t, m) == stack' = [stack EXCEPT ![t] = Append(@, m)]
Pop(t) == stack' = [stack EXCEPT ![t] = SubSeq(@, 1, Len(@) - 1)]

\* Actors buried on thread t under a message it runs for another one.
Buried(t) == {target[stack[t][i]] : i \in 1 .. (Len(stack[t]) - 1)}

-----------------------------------------------------------------------------
(* Messages: a send, the turn that takes it, its end.                      *)

\* By the main program, or by a method that is running.
Send(m, a) ==
    /\ state[m] = "unsent"
    /\ state' = [state EXCEPT ![m] = "queued"]
    /\ target' = [target EXCEPT ![m] = a]
    /\ UNCHANGED <<awaited, suspended, waits, waitingOn, stack, pc, at, steps>>

\* drainOne, called by workerLoop or, while the awaited future is pending and the
\* nesting is not at its cap, by waitHelping.
CanDrain(t) ==
    \/ pc[t] = "idle" /\ t \in setup.pool
    \/ /\ pc[t] = "help"
       /\ ~Settled(awaited[Top(t)])
       /\ Len(stack[t]) <= MaxHelping

Start(t, m) ==
    /\ CanDrain(t)
    /\ state[m] = "queued"
    /\ \A n \in Messages : state[n] = "active" => target[n] # target[m]
    /\ state' = [state EXCEPT ![m] = "active"]
    /\ Push(t, m)
    /\ pc' = [pc EXCEPT ![t] = "run"]
    /\ UNCHANGED <<target, awaited, suspended, waits, waitingOn, at, steps>>

Resume(t, m) ==
    /\ CanDrain(t)
    /\ m \in suspended
    /\ Settled(awaited[m])
    /\ suspended' = suspended \ {m}
    /\ awaited' = [awaited EXCEPT ![m] = NoMessage]
    /\ waitingOn' = [waitingOn EXCEPT ![target[m]] = NoMessage]
    /\ Push(t, m)
    /\ pc' = [pc EXCEPT ![t] = "run"]
    /\ UNCHANGED <<target, state, waits, at, steps>>

\* The method returns, or throws: its future is settled and the thread goes back
\* to its loop or to the method it was helping.
End(t) ==
    /\ Goto(t, "run", IF Len(stack[t]) = 1 THEN "idle" ELSE "help")
    /\ state' = [state EXCEPT ![Top(t)] = "settled"]
    /\ Pop(t)
    /\ UNCHANGED <<target, awaited, suspended, waits, waitingOn, at, steps>>

-----------------------------------------------------------------------------
(* prim_Future_wait on a pending future.                                   *)

BeginWait(t, f) ==
    /\ Goto(t, "run", "record")
    /\ state[f] \in {"queued", "active"}
    /\ waits[Top(t)] < setup.waits
    /\ waits' = [waits EXCEPT ![Top(t)] = @ + 1]
    /\ awaited' = [awaited EXCEPT ![Top(t)] = f]
    /\ UNCHANGED <<target, state, suspended, waitingOn, stack, at, steps>>

\* Leaves the record to the suspension of the actor.
RecordAfterWalk(t) ==
    /\ Goto(t, "record", "walk")
    /\ at' = [at EXCEPT ![t] = awaited[Top(t)]]
    /\ steps' = [steps EXCEPT ![t] = 0]
    /\ UNCHANGED <<msgVars, stack, waitingOn>>

\* detectWaitCycle: first the record, then the walk.
Record(t) ==
    /\ Goto(t, "record", "walk")
    /\ waitingOn' = [waitingOn EXCEPT ![Self(t)] = awaited[Top(t)]]
    /\ at' = [at EXCEPT ![t] = awaited[Top(t)]]
    /\ steps' = [steps EXCEPT ![t] = 0]
    /\ UNCHANGED <<msgVars, stack>>

\* Does not look at the actors buried on this thread.
ClosesDirectly(t, a) == a = Self(t)

Closes(t, a) == a = Self(t) \/ a \in Buried(t)

Following(t) == at[t] # NoMessage /\ steps[t] < WalkLimit /\ ~Settled(at[t])

\* A pending future of an actor that waits for this one: the error is raised in
\* the method, which may handle it and go on.
WalkCloses(t) ==
    /\ Goto(t, "walk", "run")
    /\ Following(t)
    /\ Closes(t, target[at[t]])
    /\ waitingOn' = [waitingOn EXCEPT ![Self(t)] = NoMessage]
    /\ awaited' = [awaited EXCEPT ![Top(t)] = NoMessage]
    /\ at' = [at EXCEPT ![t] = NoMessage]
    /\ UNCHANGED <<target, state, suspended, waits, stack, steps>>

WalkOn(t) ==
    /\ Goto(t, "walk", "next")
    /\ Following(t)
    /\ ~Closes(t, target[at[t]])
    /\ UNCHANGED <<msgVars, waitingOn, stack, at, steps>>

WalkNext(t) ==
    /\ Goto(t, "next", "walk")
    /\ at' = [at EXCEPT ![t] = waitingOn[target[at[t]]]]
    /\ steps' = [steps EXCEPT ![t] = @ + 1]
    /\ UNCHANGED <<msgVars, waitingOn, stack>>

\* The end of the chain, a settled future, or too many steps: no cycle.
WalkEnds(t) ==
    /\ Goto(t, "walk", "park")
    /\ ~Following(t)
    /\ at' = [at EXCEPT ![t] = NoMessage]
    /\ UNCHANGED <<msgVars, waitingOn, stack, steps>>

\* With a single engine on the thread the actor is suspended (FutureYield) ...
Yields(t) == Len(stack[t]) = 1 /\ Top(t) \notin setup.blocking

Yield(t) ==
    /\ Goto(t, "park", "idle")
    /\ Yields(t)
    /\ suspended' = suspended \cup {Top(t)}
    /\ waitingOn' = [waitingOn EXCEPT ![Self(t)] = awaited[Top(t)]]
    /\ Pop(t)
    /\ UNCHANGED <<target, state, awaited, waits, at, steps>>

\* ... and otherwise the thread helps until the future is settled.
Help(t) ==
    /\ Goto(t, "park", "help")
    /\ ~Yields(t)
    /\ UNCHANGED <<msgVars, waitingOn, stack, at, steps>>

\* Without ClearWaiting.
HelpEndsRecorded(t) ==
    /\ Goto(t, "help", "run")
    /\ Settled(awaited[Top(t)])
    /\ awaited' = [awaited EXCEPT ![Top(t)] = NoMessage]
    /\ UNCHANGED <<target, state, suspended, waits, waitingOn, stack, at, steps>>

HelpEnds(t) ==
    /\ Goto(t, "help", "run")
    /\ Settled(awaited[Top(t)])
    /\ waitingOn' = [waitingOn EXCEPT ![Self(t)] = NoMessage]
    /\ awaited' = [awaited EXCEPT ![Top(t)] = NoMessage]
    /\ UNCHANGED <<target, state, suspended, waits, stack, at, steps>>

-----------------------------------------------------------------------------
Step(t) ==
  /\ UNCHANGED setup
  /\ \/ \E m \in Messages : Start(t, m) \/ Resume(t, m)
     \/ End(t) \/ Record(t) \/ WalkCloses(t) \/ WalkOn(t) \/ WalkNext(t) \/ WalkEnds(t)
     \/ Yield(t) \/ Help(t) \/ HelpEnds(t)

Next ==
    \/ UNCHANGED setup /\ \E m \in Messages, a \in Actors : Send(m, a)
    \/ UNCHANGED setup /\ \E t \in Threads, f \in Messages : BeginWait(t, f)
    \/ \E t \in Threads : Step(t)

Spec == Init /\ [][Next]_vars

\* Every thread keeps running and methods end; no message need be sent or waited for.
FairSpec == Spec /\ \A t \in Threads : WF_vars(Step(t))

-----------------------------------------------------------------------------
(* Properties.                                                             *)

\* __waiting_on__ is never stale: an actor that has one is in the middle of a
\* message whose method waits, or is about to wait, for just that future.  A record
\* that outlived its wait would make others report cycles that do not exist.
RecordsAreCurrent ==
    \A a \in Actors : waitingOn[a] # NoMessage =>
        \E m \in Messages : /\ target[m] = a /\ state[m] = "active"
                            /\ awaited[m] = waitingOn[a]

\* The message is in its wait, with the check for a cycle behind it.
Waits(m) ==
    \/ m \in suspended
    \/ \E t \in Threads : \E i \in 1 .. Len(stack[t]) :
          stack[t][i] = m /\ (i < Len(stack[t]) \/ pc[t] = "help")

Above(m, n) ==
    \E t \in Threads : \E i, j \in 1 .. Len(stack[t]) : i < j /\ stack[t][i] = m /\ stack[t][j] = n

\* Message m cannot go on before message n is settled: m waits for n, m is buried
\* under n, or the actor of m is in the middle of n.
BlockedBy(m, n) ==
    \/ Waits(m) /\ awaited[m] = n /\ ~Settled(n)
    \/ Above(m, n)
    \/ state[m] = "queued" /\ state[n] = "active" /\ target[m] = target[n]

\* README.md: a cycle of actors waiting on each other is reported as an error.
\* No set of messages, all past their check, can be blocked by one another.
NoSilentCycle ==
    ~ \E ms \in (SUBSET Messages) \ {{}} : \A m \in ms : \E n \in ms : BlockedBy(m, n)

\* Whatever waits for whatever, every message that is sent is settled.
EveryMessageSettles ==
    \A m \in Messages : (state[m] = "queued") ~> Settled(m)

=============================================================================
