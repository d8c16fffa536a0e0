------------------------------- MODULE Future -------------------------------
(***************************************************************************)
(* future_prims.cpp: settling a future (resolve:, rejectWith:, the end of  *)
(* an actor's message), registering thenDo: and catch: callbacks, the wait *)
(* of a thread that runs no actor, and the record of rejections nobody has *)
(* observed.  The __waiters__ of a future belong to ActorScheduler.        *)
(*                                                                         *)
(* A step is one access to an attribute that several threads use.  An      *)
(* outcome is "value" or "error"; what the value is does not matter.       *)
(***************************************************************************)
EXTENDS Naturals, FiniteSets

CONSTANTS
    Futures,
    Main,        \* the main thread
    Workers,     \* threads of the pool
    Callbacks,   \* the blocks given to thenDo: and catch:, each given once
    Waiting,     \* the callbacks whose block may itself wait for a future
    NoFuture,    \* nullptr in mainWaitingOn
    NoCallback

Threads == Workers \cup {Main}

ASSUME MainAssumption == Main \notin Workers
ASSUME WaitingAssumption == Waiting \subseteq Callbacks
ASSUME NoCallbackAssumption == NoCallback \notin Callbacks

Outcomes == {"value", "error"}
\* The list a thenDo: registers in and the list a catch: registers in, named by
\* the outcome that fires them.
Lists == Outcomes

ASSUME NoFutureAssumption == NoFuture \notin Futures \cup (Futures \X Lists)

VARIABLES
    open,         \* futures of messages that no turn has finished yet
    settling,     \* futures whose __settling__ is set
    outcome,      \* __value__ or __error__, whichever has been written
    state,        \* __state__: "pending", "value" (1) or "error" (2)
    cbs,          \* __then_cbs__ and __catch_cbs__
    drained,      \* the lists that are the sentinel
    observed,     \* futures whose __observed__ is set
    recorded,     \* g_unobservedRejections
    mainWaitingOn,
    mainWaitSem,
    \* callbacks
    on,           \* the future and list a callback was given to
    ran,          \* how often its block has run to the end
    half,         \* those with frames in some actor's __suspended_frame__
    \* threads
    pc,
    context,      \* what prim_Future_wait finds in a callback that the thread runs
    fut,          \* the future the thread settles or registers with
    kind,         \* the outcome it settles with, or the list it registers in
    cb,           \* the callback it registers or runs
    firing,       \* fireCallbackList: the callbacks still to be run
    awaited,      \* Future>>wait: the future waited for
    ret,          \* where the call of the callback or of the wait returns to
    held,         \* the callbacks suspended by the turn the thread is still running
    \* history
    intruded      \* a thread other than Main has written mainWaitingOn

futureVars == <<open, settling, outcome, state, cbs, drained>>
obsVars    == <<observed, recorded>>
mainVars   == <<mainWaitingOn, mainWaitSem, intruded>>
callVars   == <<on, ran, half, held>>
threadVars == <<context, fut, kind, cb, firing, awaited, ret>>
vars == <<futureVars, obsVars, mainVars, callVars, pc, threadVars>>

\* No current actor; a current actor and another engine live below the callback's; or
\* a current actor and the callback's engine alone.
Contexts == {"none", "nested", "alone"}

PCs == {"idle", "checkObserved", "record", "claim", "write", "drainCbs", "fire",
        "publish", "notify", "observe", "forget", "read", "append", "run",
        "observeWait", "forgetWait", "help", "mark", "poll", "acquire", "unmark"}

TypeOK ==
    /\ open \in SUBSET Futures
    /\ settling \in SUBSET Futures
    /\ outcome \in [Futures -> Outcomes \cup {"none"}]
    /\ state \in [Futures -> Outcomes \cup {"pending"}]
    /\ cbs \in [Futures \X Lists -> SUBSET Callbacks]
    /\ drained \in SUBSET (Futures \X Lists)
    /\ observed \in SUBSET Futures
    /\ recorded \in SUBSET Futures
    /\ mainWaitingOn \in Futures \cup {NoFuture}
    /\ mainWaitSem \in Nat
    /\ on \in [Callbacks -> (Futures \X Lists) \cup {NoFuture}]
    /\ ran \in [Callbacks -> Nat]
    /\ half \in SUBSET Callbacks
    /\ held \in [Threads -> SUBSET Callbacks]
    /\ pc \in [Threads -> PCs]
    /\ context \in [Threads -> Contexts]
    /\ fut \in [Threads -> Futures \cup {NoFuture}]
    /\ kind \in [Threads -> Outcomes]
    /\ cb \in [Threads -> Callbacks \cup {NoCallback}]
    /\ firing \in [Threads -> SUBSET Callbacks]
    /\ awaited \in [Threads -> Futures \cup {NoFuture}]
    /\ ret \in [Threads -> {"idle", "fire"}]
    /\ intruded \in BOOLEAN

Init ==
    /\ open = Futures
    /\ settling = {}
    /\ outcome = [f \in Futures |-> "none"]
    /\ state = [f \in Futures |-> "pending"]
    /\ cbs = [l \in Futures \X Lists |-> {}]
    /\ drained = {}
    /\ observed = {}
    /\ recorded = {}
    /\ mainWaitingOn = NoFuture
    /\ mainWaitSem = 0
    /\ on = [c \in Callbacks |-> NoFuture]
    /\ ran = [c \in Callbacks |-> 0]
    /\ half = {}
    /\ held = [t \in Threads |-> {}]
    /\ pc = [t \in Threads |-> "idle"]
    /\ context = [t \in Threads |-> "none"]
    /\ fut = [t \in Threads |-> NoFuture]
    /\ kind = [t \in Threads |-> "value"]
    /\ cb = [t \in Threads |-> NoCallback]
    /\ firing = [t \in Threads |-> {}]
    /\ awaited = [t \in Threads |-> NoFuture]
    /\ ret = [t \in Threads |-> "idle"]
    /\ intruded = FALSE

Goto(t, from, to) == pc[t] = from /\ pc' = [pc EXCEPT ![t] = to]

\* The thread's call returns.
Return(t, from) ==
    /\ Goto(t, from, "idle")
    /\ context' = [context EXCEPT ![t] = "none"]
    /\ fut' = [fut EXCEPT ![t] = NoFuture]
    /\ kind' = [kind EXCEPT ![t] = "value"]
    /\ cb' = [cb EXCEPT ![t] = NoCallback]
    /\ awaited' = [awaited EXCEPT ![t] = NoFuture]
    /\ UNCHANGED <<firing, ret>>

-----------------------------------------------------------------------------
(* settleFuture and its callers.                                           *)

\* A primitive that a method calls: on a worker, the method of its current actor, whose
\* engine is below that of any callback the primitive runs.
Enter(t) ==
    context' = [context EXCEPT ![t] = IF t \in Workers THEN "nested" ELSE "none"]

CallSettle(t, f, k, first) ==
    /\ Goto(t, "idle", first)
    /\ fut' = [fut EXCEPT ![t] = f]
    /\ kind' = [kind EXCEPT ![t] = k]
    /\ UNCHANGED <<settling, outcome, state, cbs, drained, obsVars, mainVars, callVars,
                   cb, firing, awaited, ret>>

\* Future>>resolve: and Future>>rejectWith:, from any thread and at any time.
Resolve(t, f, k) == CallSettle(t, f, k, "claim") /\ Enter(t) /\ UNCHANGED open

\* The end of a message: resolveFutureFromDrain, or rejectFutureFromDrain,
\* which first looks whether anybody has observed the future.  drainOne settles a
\* resumed message after setCurrentActor(nullptr), and one that ran in one piece with
\* the actor still current and the method's engine gone: the callback's is alone, or
\* the turn itself is run inside a wait of another actor (waitHelping).
SettleFromDrain(t, f, k) ==
    /\ t \in Workers
    /\ f \in open
    /\ open' = open \ {f}
    /\ CallSettle(t, f, k, IF k = "error" THEN "checkObserved" ELSE "claim")
    /\ \E x \in Contexts : context' = [context EXCEPT ![t] = x]

CheckObserved(t) ==
    /\ Goto(t, "checkObserved", IF fut[t] \in observed THEN "claim" ELSE "record")
    /\ UNCHANGED <<futureVars, obsVars, mainVars, callVars, threadVars>>

Record(t) ==
    /\ Goto(t, "record", "claim")
    /\ recorded' = recorded \cup {fut[t]}
    /\ UNCHANGED <<futureVars, observed, mainVars, callVars, threadVars>>

\* 1. One caller wins the CAS on __settling__ ...
Claim(t) ==
    /\ Goto(t, "claim", "write")
    /\ fut[t] \notin settling
    /\ settling' = settling \cup {fut[t]}
    /\ UNCHANGED <<open, outcome, state, cbs, drained, obsVars, mainVars, callVars,
                   threadVars>>

\* Mutant: the flag is read and then set.
ClaimLostNever(t) ==
    /\ Goto(t, "claim", "write")
    /\ fut[t] \in settling
    /\ UNCHANGED <<futureVars, obsVars, mainVars, callVars, threadVars>>

\* ... and every other returns.
ClaimLost(t) ==
    /\ Return(t, "claim")
    /\ fut[t] \in settling
    /\ UNCHANGED <<futureVars, obsVars, mainVars, callVars>>

\* 2. The result, before __state__.
WriteOutcome(t) ==
    /\ Goto(t, "write", "drainCbs")
    /\ outcome' = [outcome EXCEPT ![fut[t]] = kind[t]]
    /\ UNCHANGED <<open, settling, state, cbs, drained, obsVars, mainVars, callVars,
                   threadVars>>

\* 3. The list of this outcome becomes the sentinel ...
DrainCallbacks(t) ==
    /\ Goto(t, "drainCbs", "fire")
    /\ LET l == <<fut[t], kind[t]>> IN
       /\ firing' = [firing EXCEPT ![t] = cbs[l]]
       /\ cbs' = [cbs EXCEPT ![l] = {}]
       /\ drained' = drained \cup {l}
    /\ UNCHANGED <<open, settling, outcome, state, obsVars, mainVars, callVars, context, fut,
                   kind, cb, awaited, ret>>

\* ... and its callbacks are run one after the other.
Fire(t, c) ==
    /\ Goto(t, "fire", "run")
    /\ c \in firing[t]
    /\ firing' = [firing EXCEPT ![t] = @ \ {c}]
    /\ cb' = [cb EXCEPT ![t] = c]
    /\ ret' = [ret EXCEPT ![t] = "fire"]
    /\ UNCHANGED <<futureVars, obsVars, mainVars, callVars, context, fut, kind, awaited>>

Fired(t) ==
    /\ Goto(t, "fire", "publish")
    /\ firing[t] = {}
    /\ UNCHANGED <<futureVars, obsVars, mainVars, callVars, threadVars>>

\* 4. __state__ is published after the callbacks have run.
Publish(t) ==
    /\ Goto(t, "publish", "notify")
    /\ state' = [state EXCEPT ![fut[t]] = kind[t]]
    /\ UNCHANGED <<open, settling, outcome, cbs, drained, obsVars, mainVars, callVars,
                   threadVars>>

\* Mutant: the settler does not look for the main thread.
NotifyNobody(t) ==
    /\ Return(t, "notify")
    /\ UNCHANGED <<futureVars, obsVars, mainVars, callVars>>

\* 4b. notifyMainWaiterIfFor
Notify(t) ==
    /\ Return(t, "notify")
    /\ mainWaitSem' = mainWaitSem + (IF mainWaitingOn = fut[t] THEN 1 ELSE 0)
    /\ UNCHANGED <<futureVars, obsVars, mainWaitingOn, intruded, callVars>>

-----------------------------------------------------------------------------
(* Future>>thenDo: and Future>>catch:                                      *)

Register(t, f, k, c) ==
    /\ Goto(t, "idle", "observe")
    /\ on[c] = NoFuture
    /\ on' = [on EXCEPT ![c] = <<f, k>>]
    /\ fut' = [fut EXCEPT ![t] = f]
    /\ kind' = [kind EXCEPT ![t] = k]
    /\ cb' = [cb EXCEPT ![t] = c]
    /\ Enter(t)
    /\ UNCHANGED <<futureVars, obsVars, mainVars, ran, half, held, firing, awaited, ret>>

\* markFutureObserved stamps the future ...
Observe(t) ==
    /\ Goto(t, "observe", "forget")
    /\ observed' = observed \cup {fut[t]}
    /\ UNCHANGED <<futureVars, recorded, mainVars, callVars, threadVars>>

\* ... and then discards its record.
Forget(t) ==
    /\ Goto(t, "forget", "read")
    /\ recorded' = recorded \ {fut[t]}
    /\ UNCHANGED <<futureVars, observed, mainVars, callVars, threadVars>>

\* Mutant: any settled outcome runs the block.
ReadStateAny(t) ==
    /\ Goto(t, "read", IF state[fut[t]] = "pending" THEN "append" ELSE "run")
    /\ UNCHANGED <<futureVars, obsVars, mainVars, callVars, threadVars>>

\* Not settled: register.  Settled with the outcome of this list: run it now.
ReadState(t) ==
    /\ Goto(t, "read", IF state[fut[t]] = "pending" THEN "append" ELSE "run")
    /\ state[fut[t]] \in {"pending", kind[t]}
    /\ UNCHANGED <<futureVars, obsVars, mainVars, callVars, threadVars>>

\* Settled with the other outcome: the block is never run.
ReadOther(t) ==
    /\ Return(t, "read")
    /\ state[fut[t]] \notin {"pending", kind[t]}
    /\ UNCHANGED <<futureVars, obsVars, mainVars, callVars>>

\* appendOrDrained appends the block ...
Append(t) ==
    /\ Return(t, "append")
    /\ <<fut[t], kind[t]>> \notin drained
    /\ cbs' = [cbs EXCEPT ![<<fut[t], kind[t]>>] = @ \cup {cb[t]}]
    /\ UNCHANGED <<open, settling, outcome, state, drained, obsVars, mainVars, callVars>>

\* Mutant: what appendOrDrained answers is ignored.
AppendDrainedIgnored(t) ==
    /\ Return(t, "append")
    /\ <<fut[t], kind[t]>> \in drained
    /\ UNCHANGED <<futureVars, obsVars, mainVars, callVars>>

\* ... or finds the sentinel: the settle has taken the list, so this thread runs
\* the block itself.
AppendDrained(t) ==
    /\ Goto(t, "append", "run")
    /\ <<fut[t], kind[t]>> \in drained
    /\ UNCHANGED <<futureVars, obsVars, mainVars, callVars, threadVars>>

\* invokeCallback comes back, with whatever the block raised reported and
\* dropped: to fireCallbackList, or to the method that registered the block.
EndCallback(t, from) ==
    /\ pc[t] = from
    /\ ran' = [ran EXCEPT ![cb[t]] = @ + 1]
    /\ \/ /\ ret[t] = "fire"
          /\ Goto(t, from, "fire")
          /\ cb' = [cb EXCEPT ![t] = NoCallback]
          /\ awaited' = [awaited EXCEPT ![t] = NoFuture]
          /\ ret' = [ret EXCEPT ![t] = "idle"]
          /\ UNCHANGED <<context, fut, kind, firing>>
       \/ ret[t] = "idle" /\ Return(t, from)

Run(t) ==
    /\ EndCallback(t, "run")
    /\ UNCHANGED <<futureVars, obsVars, mainVars, on, half, held>>

\* A block that waits for f.
RunWaiting(t, f) ==
    /\ Goto(t, "run", "observeWait")
    /\ cb[t] \in Waiting
    /\ awaited' = [awaited EXCEPT ![t] = f]
    /\ UNCHANGED <<futureVars, obsVars, mainVars, callVars, context, fut, kind, cb, firing, ret>>

-----------------------------------------------------------------------------
(* Future>>wait on the main thread or in a callback: prim_Future_wait,     *)
(* markMainWaitingOn, acquireMainWait.                                     *)

Wait(f) ==
    /\ Goto(Main, "idle", "observeWait")
    /\ awaited' = [awaited EXCEPT ![Main] = f]
    /\ UNCHANGED <<futureVars, obsVars, mainVars, callVars, context, fut, kind, cb, firing, ret>>

ObserveWait(t) ==
    /\ Goto(t, "observeWait", "forgetWait")
    /\ observed' = observed \cup {awaited[t]}
    /\ UNCHANGED <<futureVars, recorded, mainVars, callVars, threadVars>>

ForgetWait(t) ==
    /\ Goto(t, "forgetWait", IF context[t] = "none" THEN "mark" ELSE "help")
    /\ recorded' = recorded \ {awaited[t]}
    /\ UNCHANGED <<futureVars, observed, mainVars, callVars, threadVars>>

\* With a current actor the wait does not touch mainWaitingOn.  The future is settled, or
\* waitHelping has run other actors until it was.
Help(t) ==
    /\ pc[t] = "help"
    /\ state[awaited[t]] # "pending"
    /\ EndCallback(t, "help")
    /\ UNCHANGED <<futureVars, obsVars, mainVars, on, half, held>>

\* detectWaitCycle reports a deadlock, the block's error.
WaitError(t) ==
    /\ pc[t] = "help"
    /\ state[awaited[t]] = "pending"
    /\ EndCallback(t, "help")
    /\ UNCHANGED <<futureVars, obsVars, mainVars, on, half, held>>

\* Mutant: the engine drops its frames and takes no snapshot.
SuspendDropped(t) ==
    /\ Goto(t, "help", "fire")
    /\ context[t] = "alone" /\ ret[t] = "fire"
    /\ state[awaited[t]] = "pending" /\ awaited[t] # fut[t]
    /\ cb' = [cb EXCEPT ![t] = NoCallback]
    /\ awaited' = [awaited EXCEPT ![t] = NoFuture]
    /\ ret' = [ret EXCEPT ![t] = "idle"]
    /\ UNCHANGED <<futureVars, obsVars, mainVars, callVars, context, fut, kind, firing>>

\* Alone on the thread, the block throws FutureYield: its engine saves the frames in the
\* actor and rethrows, invokeCallback drops the exception and fireCallbackList goes on to
\* the next block.  Its own message's future, which the actor is to settle, is a cycle.
Suspend(t) ==
    /\ Goto(t, "help", "fire")
    /\ context[t] = "alone" /\ ret[t] = "fire"
    /\ state[awaited[t]] = "pending" /\ awaited[t] # fut[t]
    /\ half' = half \cup {cb[t]}
    /\ held' = [held EXCEPT ![t] = @ \cup {cb[t]}]
    /\ cb' = [cb EXCEPT ![t] = NoCallback]
    /\ awaited' = [awaited EXCEPT ![t] = NoFuture]
    /\ ret' = [ret EXCEPT ![t] = "idle"]
    /\ UNCHANGED <<futureVars, obsVars, mainVars, on, ran, context, fut, kind, firing>>

\* The actor's turn ends: another turn can find the frames.
EndTurn(t) ==
    /\ pc[t] = "idle"
    /\ held[t] # {}
    /\ held' = [held EXCEPT ![t] = {}]
    /\ UNCHANGED <<futureVars, obsVars, mainVars, on, ran, half, pc, threadVars>>

\* Mutant: the turn that resumes the block leaves __suspended_frame__ as it is.
ResumeHalfUncleared(t, c) ==
    /\ t \in Workers
    /\ pc[t] = "idle"
    /\ c \in half
    /\ \A u \in Threads : c \notin held[u]
    /\ ran' = [ran EXCEPT ![c] = @ + 1]
    /\ UNCHANGED <<futureVars, obsVars, mainVars, on, half, held, pc, threadVars>>

\* A later turn of the actor resumes the block, which runs to its end.  What it waits for
\* need not be settled: other waits of the turn that suspended it share __waiting_on__.
ResumeHalf(t, c) ==
    /\ t \in Workers
    /\ pc[t] = "idle"
    /\ c \in half
    /\ \A u \in Threads : c \notin held[u]
    /\ half' = half \ {c}
    /\ ran' = [ran EXCEPT ![c] = @ + 1]
    /\ UNCHANGED <<futureVars, obsVars, mainVars, on, held, pc, threadVars>>

\* Without one (the main thread, or a worker at the end of a resumed message) it
\* is the wait of the main thread.
Mark(t) ==
    /\ Goto(t, "mark", "poll")
    /\ mainWaitingOn' = awaited[t]
    /\ intruded' = (intruded \/ t # Main)
    /\ UNCHANGED <<futureVars, obsVars, mainWaitSem, callVars, threadVars>>

Poll(t) ==
    /\ Goto(t, "poll", IF state[awaited[t]] = "pending" THEN "acquire" ELSE "unmark")
    /\ UNCHANGED <<futureVars, obsVars, mainVars, callVars, threadVars>>

Acquire(t) ==
    /\ Goto(t, "acquire", "poll")
    /\ mainWaitSem > 0
    /\ mainWaitSem' = mainWaitSem - 1
    /\ UNCHANGED <<futureVars, obsVars, mainWaitingOn, intruded, callVars, threadVars>>

\* The wait is over; a block that made it ends with it.
Unmark(t) ==
    /\ pc[t] = "unmark"
    /\ mainWaitingOn' = NoFuture
    /\ \/ cb[t] = NoCallback /\ Return(t, "unmark") /\ UNCHANGED ran
       \/ cb[t] # NoCallback /\ EndCallback(t, "unmark")
    /\ UNCHANGED <<futureVars, obsVars, mainWaitSem, intruded, on, half, held>>

-----------------------------------------------------------------------------
Step(t) ==
    \/ CheckObserved(t) \/ Record(t) \/ Claim(t) \/ ClaimLost(t) \/ WriteOutcome(t)
    \/ DrainCallbacks(t) \/ (\E c \in Callbacks : Fire(t, c)) \/ Fired(t)
    \/ Publish(t) \/ Notify(t)
    \/ Observe(t) \/ Forget(t) \/ ReadState(t) \/ ReadOther(t)
    \/ Append(t) \/ AppendDrained(t) \/ Run(t)
    \/ ObserveWait(t) \/ ForgetWait(t) \/ Help(t) \/ WaitError(t) \/ Suspend(t)
    \/ EndTurn(t) \/ (\E c \in Callbacks : ResumeHalf(t, c))
    \/ Mark(t) \/ Poll(t) \/ Acquire(t) \/ Unmark(t)

Call(t) ==
    \/ \E f \in Futures, k \in Outcomes : Resolve(t, f, k) \/ SettleFromDrain(t, f, k)
    \/ \E f \in Futures, k \in Outcomes, c \in Callbacks : Register(t, f, k, c)
    \/ \E f \in Futures : RunWaiting(t, f)

Next == (\E t \in Threads : Step(t) \/ Call(t)) \/ \E f \in Futures : Wait(f)

Spec == Init /\ [][Next]_vars

-----------------------------------------------------------------------------
(* Properties.                                                             *)

\* A future is settled once: its outcome never changes, and a reader that sees
\* a settled __state__ finds the result that belongs to it.
SettledOnce ==
    [][\A f \in Futures :
         /\ outcome[f] # "none" => outcome'[f] = outcome[f]
         /\ state'[f] # state[f] => state[f] = "pending" /\ state'[f] = outcome'[f]]_vars

\* A callback runs at most once, and only when the future it was given to got
\* the outcome it was given for.
RunsOnce ==
    \A c \in Callbacks :
      /\ ran[c] <= 1
      /\ ran[c] = 1 => outcome[on[c][1]] = on[c][2]

\* The future of c is seen settled with the outcome c was given for.
Due(c) == on[c] # NoFuture /\ state[on[c][1]] = on[c][2]

\* The thread that has c to register has not finished: it runs c itself if it comes late.
BeingRegistered(c) == \E t \in Threads : cb[t] = c /\ ret[t] = "idle"

\* What the head of future_prims.cpp promises: a thread that sees __state__ settled knows
\* that every callback registered before the settle has run.
CallbacksComeFirst == \A c \in Callbacks : Due(c) => ran[c] = 1 \/ BeingRegistered(c)

\* thenDo: and catch: blocks against the settle: whichever comes first, the block is not
\* forgotten, and before anybody can see the future settled a block registered in time has
\* run to the end, or else its wait has left it in the hands of the settling actor.
CallbacksAreRun ==
    \A c \in Callbacks : Due(c) => ran[c] = 1 \/ BeingRegistered(c) \/ c \in half

\* When the main thread sleeps on the semaphore and its future is settled, it is
\* about to be released: a permit is there, or the settler has yet to look at
\* mainWaitingOn and will find the future there.
WakeIsOnTheWay ==
    pc[Main] = "acquire" /\ state[awaited[Main]] # "pending"
      => \/ mainWaitSem > 0
         \/ \E t \in Threads : pc[t] = "notify" /\ fut[t] = mainWaitingOn
                                               /\ mainWaitingOn = awaited[Main]

\* The same as long as no block that waits has taken the main thread's path: the
\* mark, the poll and the notify of the settle leave no gap between them.
MainIsWoken == ~intruded => WakeIsOnTheWay

\* A rejection that somebody has observed is not reported at exit: its record
\* is discarded, or the thread that observed it has yet to do so.
ObservedIsNotReported ==
    \A f \in observed \cap recorded :
      \E t \in Threads :
        \/ fut[t] = f /\ pc[t] = "forget"
        \/ awaited[t] = f /\ pc[t] = "forgetWait"
=============================================================================
