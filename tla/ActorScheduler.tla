--------------------------- MODULE ActorScheduler ---------------------------
(***************************************************************************)
(* The actor scheduler of protoST: how a send reaches an actor's mailbox,  *)
(* how the three-state __sched__ flag decides who queues the actor, how a  *)
(* worker drains it for one turn, how a wait parks the actor in the middle *)
(* of a message and how a settled future brings it back.                   *)
(*                                                                         *)
(* A thread is a worker of the pool or a client: the main thread, which    *)
(* sends and never drains.  Every step is one access to state that several *)
(* threads share: a compare-and-swap on __sched__, a mailbox push, a       *)
(* takeAll, the publication of a future's state, the drain of its waiters. *)
(* A read followed by a CAS of the value read, retried on failure          *)
(* (schedule, casSchedState, appendOrDrained, drainList), is one step: a   *)
(* failed CAS has no effect and the code retries it at once.               *)
(*                                                                         *)
(* Abstracted: the order of the ready stack (module ReadyStack), the       *)
(* sleeping of idle workers (module WorkerPool), values and callbacks of   *)
(* futures (module Future), and what a method computes.  A method is any   *)
(* finite sequence of sends and waits followed by its end.                 *)
(***************************************************************************)
EXTENDS Naturals, Sequences, FiniteSets

CONSTANTS
    Actors,     \* objects made by asActor
    Workers,    \* threads of the pool, each running workerLoop
    Clients,    \* threads that send but never drain (the main thread)
    Msgs,       \* message envelopes; a message also names its own Future
    WalkLimit,  \* 256 in detectWaitCycle: futures followed before it gives up
    NoActor,    \* PROTO_NONE where an actor is expected
    NoMsg       \* PROTO_NONE where a message or a future is expected

Threads == Workers \cup Clients

ASSUME ThreadsDisjoint == Workers \cap Clients = {}
ASSUME NoActorAssumption == NoActor \notin Actors
ASSUME NoMsgAssumption == NoMsg \notin Msgs
ASSUME WalkLimitAssumption == WalkLimit \in Nat

VARIABLES
    \* attributes of an actor
    sched,      \* __sched__: 0 idle, 1 queued or running, 2 with a wakeup marked
    mailbox,    \* __mailbox__, the MPSC queue
    pending,    \* __pending__, the tail of a batch an earlier turn did not finish
    frame,      \* __suspended_frame__ with __suspended_future__: the parked message
    waitingOn,  \* __waiting_on__: the future the actor awaits
    anchored,   \* the actors whose __anchored__ is set
    \* the runtime's shared structures
    ready,      \* how often each actor occurs on the ready stacks
    flagged,    \* the actors whose __live__ is set
    live,       \* __live_actors__
    registry,   \* suspended actors held by the live registry
    \* attributes of a future
    target,     \* __target_actor__; NoActor until the message is sent
    settled,    \* the futures whose __state__ is no longer 0
    waiters,    \* __waiters__
    drained,    \* the futures whose __waiters__ is the drained sentinel
    \* what each thread holds in its C++ frames
    pc,         \* the next step of the thread
    ret,        \* where schedule() returns to
    tgt,        \* the actor schedule() is called for
    cur,        \* the actor whose turn the thread runs
    msg,        \* the message the thread runs or settles
    batch,      \* MailboxCursor: the messages ahead of the cursor
    loaded,     \* the threads whose MailboxCursor has pendingLoaded_ set
    dirty,      \* ... and pendingDirty_
    susp,       \* the threads whose DrainGuard has suspended set
    wake        \* settleFuture: drained waiters still to be scheduled

actorVars  == <<sched, mailbox, pending, frame, waitingOn, anchored>>
liveVars   == <<flagged, live>>
sharedVars == <<ready, liveVars, registry>>
futureVars == <<target, settled, waiters, drained>>
turnVars   == <<cur, msg, batch, loaded, dirty, susp, wake>>
vars       == <<actorVars, sharedVars, futureVars, pc, ret, tgt, turnVars>>

\* Steps of a turn in which the thread owns its actor (dequeueReady has handed
\* it over and finishDrain has not yet given __sched__ back).
DrainPC  == {"entry", "next", "run", "walk", "check", "append", "settle",
             "drainWaiters", "wakeWaiters", "spill"}
OwnPC    == DrainPC \cup {"finish", "claimed", "stale"}
\* Steps of finishDrain after the flag has been released.
AfterPC  == {"peekPending", "peekMailbox", "reclaim", "anchor", "anchorFlag",
             "unanchor", "unanchorFlag"}
\* Steps of enqueueReady, and of schedule() with it.
PushPC   == {"push", "appendLive"}
CallPC   == PushPC \cup {"schedule"}
PCs      == {"idle"} \cup OwnPC \cup AfterPC \cup CallPC

TypeOK ==
    /\ sched \in [Actors -> {0, 1, 2}]
    /\ mailbox \in [Actors -> Seq(Msgs)]
    /\ pending \in [Actors -> Seq(Msgs)]
    /\ frame \in [Actors -> Msgs \cup {NoMsg}]
    /\ waitingOn \in [Actors -> Msgs \cup {NoMsg}]
    /\ anchored \in SUBSET Actors
    /\ ready \in [Actors -> Nat]
    /\ flagged \in SUBSET Actors
    /\ live \in SUBSET Actors
    /\ registry \in SUBSET Actors
    /\ target \in [Msgs -> Actors \cup {NoActor}]
    /\ settled \in SUBSET Msgs
    /\ waiters \in [Msgs -> SUBSET Actors]
    /\ drained \in SUBSET Msgs
    /\ pc \in [Threads -> PCs]
    /\ ret \in [Threads -> {"idle", "run", "wakeWaiters", "spill", "unanchor"}]
    /\ tgt \in [Threads -> Actors \cup {NoActor}]
    /\ cur \in [Threads -> Actors \cup {NoActor}]
    /\ msg \in [Threads -> Msgs \cup {NoMsg}]
    /\ batch \in [Threads -> Seq(Msgs)]
    /\ loaded \in SUBSET Threads
    /\ dirty \in SUBSET Threads
    /\ susp \in SUBSET Threads
    /\ wake \in [Threads -> SUBSET Actors]

Init ==
    /\ sched = [a \in Actors |-> 0]
    /\ mailbox = [a \in Actors |-> <<>>]
    /\ pending = [a \in Actors |-> <<>>]
    /\ frame = [a \in Actors |-> NoMsg]
    /\ waitingOn = [a \in Actors |-> NoMsg]
    /\ anchored = {}
    /\ ready = [a \in Actors |-> 0]
    /\ flagged = {}
    /\ live = {}
    /\ registry = {}
    /\ target = [m \in Msgs |-> NoActor]
    /\ settled = {}
    /\ waiters = [m \in Msgs |-> {}]
    /\ drained = {}
    /\ pc = [t \in Threads |-> "idle"]
    /\ ret = [t \in Threads |-> "idle"]
    /\ tgt = [t \in Threads |-> NoActor]
    /\ cur = [t \in Threads |-> NoActor]
    /\ msg = [t \in Threads |-> NoMsg]
    /\ batch = [t \in Threads |-> <<>>]
    /\ loaded = {}
    /\ dirty = {}
    /\ susp = {}
    /\ wake = [t \in Threads |-> {}]

Goto(t, from, to) == pc[t] = from /\ pc' = [pc EXCEPT ![t] = to]

\* A call of schedule(a) that continues at r.
CallSchedule(t, from, a, r) ==
    /\ Goto(t, from, "schedule")
    /\ tgt' = [tgt EXCEPT ![t] = a]
    /\ ret' = [ret EXCEPT ![t] = r]

-----------------------------------------------------------------------------
(* schedule and enqueueReady: STRuntime::schedule, STRuntime::enqueueReady *)

\* Mutant: the marked state 2 is not recognised as final.
ScheduleFlagUncapped(s) == s + 1

\* One pass of schedule's loop that succeeds: 0 -> 1 and the caller must queue
\* the actor, 1 -> 2 marks a wakeup for finishDrain, 2 already says so.
ScheduleFlag(s) == IF s = 0 THEN 1 ELSE 2

Schedule(t) ==
    /\ pc[t] = "schedule"
    /\ LET a == tgt[t] IN
       /\ sched' = [sched EXCEPT ![a] = ScheduleFlag(sched[a])]
       /\ pc' = [pc EXCEPT ![t] = IF sched[a] = 0 THEN "push" ELSE ret[t]]
    /\ UNCHANGED <<mailbox, pending, frame, waitingOn, anchored, sharedVars,
                   futureVars, ret, tgt, turnVars>>

\* The first time an actor is queued its __live__ is set, and the thread that has
\* set it ...
FlagLive(t) ==
    /\ Goto(t, "push", "appendLive")
    /\ tgt[t] \notin flagged
    /\ flagged' = flagged \cup {tgt[t]}
    /\ UNCHANGED <<actorVars, ready, live, registry, futureVars, ret, tgt, turnVars>>

\* ... appends the actor to __live_actors__.
AppendLive(t) ==
    /\ Goto(t, "appendLive", "push")
    /\ live' = live \cup {tgt[t]}
    /\ UNCHANGED <<actorVars, ready, flagged, registry, futureVars, ret, tgt, turnVars>>

\* Whoever finds __live__ set does not look at the list: it pushes the actor on the
\* ready stack of its band.
EnqueueReady(t) ==
    /\ Goto(t, "push", ret[t])
    /\ tgt[t] \in flagged
    /\ ready' = [ready EXCEPT ![tgt[t]] = @ + 1]
    /\ UNCHANGED <<actorVars, liveVars, registry, futureVars, ret, tgt, turnVars>>

-----------------------------------------------------------------------------
(* A send to an actor: the SEND instruction of ExecutionEngine.            *)

\* A fresh envelope with a fresh future is pushed on the mailbox, and only
\* then is the receiver scheduled.
SendTo(t, from, m, a, r) ==
    /\ target[m] = NoActor
    /\ target' = [target EXCEPT ![m] = a]
    /\ mailbox' = [mailbox EXCEPT ![a] = Append(@, m)]
    /\ CallSchedule(t, from, a, r)
    /\ UNCHANGED <<sched, pending, frame, waitingOn, anchored, sharedVars,
                   settled, waiters, drained, turnVars>>

ClientSend(t, m, a) == t \in Clients /\ SendTo(t, "idle", m, a, "idle")

MethodSend(t, m, a) == SendTo(t, "run", m, a, "run")

-----------------------------------------------------------------------------
(* One turn: STRuntime::drainOne and MailboxCursor.                        *)

\* dequeueReady: some actor leaves the ready stacks and this worker owns it.
DequeueReady(t, a) ==
    /\ t \in Workers
    /\ Goto(t, "idle", "entry")
    /\ ready[a] > 0
    /\ ready' = [ready EXCEPT ![a] = @ - 1]
    /\ cur' = [cur EXCEPT ![t] = a]
    /\ UNCHANGED <<actorVars, liveVars, registry, futureVars, ret, tgt, msg, batch,
                   loaded, dirty, susp, wake>>

\* No suspended frame: go straight to the drain loop.
FreshTurn(t) ==
    /\ Goto(t, "entry", "next")
    /\ frame[cur[t]] = NoMsg
    /\ UNCHANGED <<actorVars, sharedVars, futureVars, ret, tgt, turnVars>>

\* S13: the awaited future is still pending, so this wakeup was not its settle.
\* The actor stays suspended and the turn ends.
DeferResume(t) ==
    /\ Goto(t, "entry", "finish")
    /\ frame[cur[t]] # NoMsg
    /\ waitingOn[cur[t]] \notin settled
    /\ susp' = susp \cup {t}
    /\ UNCHANGED <<actorVars, sharedVars, futureVars, ret, tgt, cur, msg, batch,
                   loaded, dirty, wake>>

\* The awaited future is settled: clear the suspension and continue the frame.
ResumeTurn(t) ==
    /\ Goto(t, "entry", "run")
    /\ LET a == cur[t] IN
       /\ frame[a] # NoMsg
       /\ waitingOn[a] \in settled
       /\ msg' = [msg EXCEPT ![t] = frame[a]]
       /\ frame' = [frame EXCEPT ![a] = NoMsg]
       /\ waitingOn' = [waitingOn EXCEPT ![a] = NoMsg]
    /\ UNCHANGED <<sched, mailbox, pending, anchored, sharedVars, futureVars,
                   ret, tgt, cur, batch, loaded, dirty, susp, wake>>

\* MailboxCursor::next with messages left in the batch.
NextMessage(t) ==
    /\ Goto(t, "next", "run")
    /\ batch[t] # <<>>
    /\ msg' = [msg EXCEPT ![t] = Head(batch[t])]
    /\ batch' = [batch EXCEPT ![t] = Tail(@)]
    /\ UNCHANGED <<actorVars, sharedVars, futureVars, ret, tgt, cur, loaded,
                   dirty, susp, wake>>

\* Mutant: pendingLoaded_ is never set.
LoadPendingAgain(t) ==
    /\ Goto(t, "next", "next")
    /\ batch[t] = <<>>
    /\ t \notin loaded
    /\ batch' = [batch EXCEPT ![t] = pending[cur[t]]]
    /\ dirty' = IF pending[cur[t]] # <<>> THEN dirty \cup {t} ELSE dirty
    /\ UNCHANGED <<actorVars, sharedVars, futureVars, ret, tgt, cur, msg, loaded,
                   susp, wake>>

\* MailboxCursor::loadPending, tried once per turn.  The attribute keeps its
\* value until spill.
LoadPending(t) ==
    /\ Goto(t, "next", "next")
    /\ batch[t] = <<>>
    /\ t \notin loaded
    /\ loaded' = loaded \cup {t}
    /\ batch' = [batch EXCEPT ![t] = pending[cur[t]]]
    /\ dirty' = IF pending[cur[t]] # <<>> THEN dirty \cup {t} ELSE dirty
    /\ UNCHANGED <<actorVars, sharedVars, futureVars, ret, tgt, cur, msg, susp, wake>>

\* MailboxCursor::loadQueueBatch: takeAll, an empty batch ends the loop.
TakeAll(t) ==
    /\ pc[t] = "next"
    /\ batch[t] = <<>>
    /\ t \in loaded
    /\ LET a == cur[t] IN
       /\ pc' = [pc EXCEPT ![t] = IF mailbox[a] = <<>> THEN "spill" ELSE "next"]
       /\ batch' = [batch EXCEPT ![t] = mailbox[a]]
       /\ mailbox' = [mailbox EXCEPT ![a] = <<>>]
    /\ UNCHANGED <<sched, pending, frame, waitingOn, anchored, sharedVars,
                   futureVars, ret, tgt, cur, msg, loaded, dirty, susp, wake>>

\* Mutant: a consumed __pending__ is not cleared.
SpillUncleared(t) ==
    /\ Goto(t, "spill", "finish")
    /\ pending' = [pending EXCEPT ![cur[t]] = IF batch[t] # <<>> THEN batch[t] ELSE @]
    /\ batch' = [batch EXCEPT ![t] = <<>>]
    /\ loaded' = loaded \ {t}
    /\ dirty' = dirty \ {t}
    /\ UNCHANGED <<sched, mailbox, frame, waitingOn, anchored, sharedVars,
                   futureVars, ret, tgt, cur, msg, susp, wake>>

\* ~MailboxCursor: the unread tail goes to __pending__, a consumed one is cleared.
Spill(t) ==
    /\ Goto(t, "spill", "finish")
    /\ pending' = [pending EXCEPT ![cur[t]] =
                     IF batch[t] # <<>> THEN batch[t]
                     ELSE IF t \in dirty THEN <<>> ELSE @]
    /\ batch' = [batch EXCEPT ![t] = <<>>]
    /\ loaded' = loaded \ {t}
    /\ dirty' = dirty \ {t}
    /\ UNCHANGED <<sched, mailbox, frame, waitingOn, anchored, sharedVars,
                   futureVars, ret, tgt, cur, msg, susp, wake>>

-----------------------------------------------------------------------------
(* Future>>wait inside an actor's method: prim_Future_wait, detectWaitCycle,*)
(* the engine's FutureYield handler and appendFutureWaiter.  The wait is   *)
(* made directly by the method (one live engine), so it suspends.          *)

\* The future is pending: record what this actor awaits before the walk.
BeginWait(t, f) ==
    /\ Goto(t, "run", "walk")
    /\ target[f] # NoActor
    /\ f \notin settled
    /\ waitingOn' = [waitingOn EXCEPT ![cur[t]] = f]
    /\ UNCHANGED <<sched, mailbox, pending, frame, anchored, sharedVars,
                   futureVars, ret, tgt, turnVars>>

\* The future the walk from f looks at in step n, NoMsg once it has ended.
WalkFrom(f) ==
    LET at[n \in 0 .. WalkLimit] ==
          IF n = 0 THEN f
          ELSE LET g == at[n - 1] IN
               IF g = NoMsg \/ g \in settled THEN NoMsg ELSE waitingOn[target[g]]
    IN  at

WaitCycle(a, f) ==
    \E n \in 0 .. (WalkLimit - 1) :
        LET g == WalkFrom(f)[n] IN g # NoMsg /\ g \notin settled /\ target[g] = a

\* The error "deadlock: ..." ends the method, or a handler in it catches it.
WaitError(t) ==
    /\ \E p \in {"run", "settle"} : Goto(t, "walk", p)
    /\ WaitCycle(cur[t], waitingOn[cur[t]])
    /\ waitingOn' = [waitingOn EXCEPT ![cur[t]] = NoMsg]
    /\ UNCHANGED <<sched, mailbox, pending, frame, anchored, sharedVars,
                   futureVars, ret, tgt, turnVars>>

\* No cycle: FutureYield unwinds, the snapshot goes to the actor and drainOne
\* keeps the message's future in __suspended_future__.
Yield(t) ==
    /\ Goto(t, "walk", "check")
    /\ ~WaitCycle(cur[t], waitingOn[cur[t]])
    /\ frame' = [frame EXCEPT ![cur[t]] = msg[t]]
    /\ msg' = [msg EXCEPT ![t] = NoMsg]
    /\ susp' = susp \cup {t}
    /\ UNCHANGED <<sched, mailbox, pending, waitingOn, anchored, sharedVars,
                   futureVars, ret, tgt, cur, batch, loaded, dirty, wake>>

\* Mutant: the handler ignores that appendFutureWaiter did not park the actor.
WaiterSettledIgnored(t) ==
    /\ Goto(t, "check", "spill")
    /\ waitingOn[cur[t]] \in settled
    /\ UNCHANGED <<actorVars, sharedVars, futureVars, ret, tgt, turnVars>>

\* appendFutureWaiter's fast path: a settled future is not parked on, and the
\* handler schedules the actor itself.
WaiterSettled(t) ==
    /\ CallSchedule(t, "check", cur[t], "spill")
    /\ waitingOn[cur[t]] \in settled
    /\ UNCHANGED <<actorVars, sharedVars, futureVars, turnVars>>

WaiterPending(t) ==
    /\ Goto(t, "check", "append")
    /\ waitingOn[cur[t]] \notin settled
    /\ UNCHANGED <<actorVars, sharedVars, futureVars, ret, tgt, turnVars>>

\* appendOrDrained finds the drained sentinel: the settle has passed.
AppendDrained(t) ==
    /\ CallSchedule(t, "append", cur[t], "spill")
    /\ waitingOn[cur[t]] \in drained
    /\ UNCHANGED <<actorVars, sharedVars, futureVars, turnVars>>

\* Mutant: the append is not written back.
AppendWaiterDropped(t) ==
    /\ Goto(t, "append", "spill")
    /\ waitingOn[cur[t]] \notin drained
    /\ UNCHANGED <<actorVars, sharedVars, futureVars, ret, tgt, turnVars>>

\* Otherwise the actor joins the list.
AppendWaiter(t) ==
    /\ Goto(t, "append", "spill")
    /\ waitingOn[cur[t]] \notin drained
    /\ waiters' = [waiters EXCEPT ![waitingOn[cur[t]]] = @ \cup {cur[t]}]
    /\ UNCHANGED <<actorVars, sharedVars, target, settled, drained, ret, tgt, turnVars>>

-----------------------------------------------------------------------------
(* The end of a method: settleFuture, from resolveFutureFromDrain or       *)
(* rejectFutureFromDrain.                                                  *)

\* The method returned, raised or was not found; its future is to be settled.
MethodEnd(t) ==
    /\ Goto(t, "run", "settle")
    /\ UNCHANGED <<actorVars, sharedVars, futureVars, ret, tgt, turnVars>>

\* Publish __state__.
PublishState(t) ==
    /\ Goto(t, "settle", "drainWaiters")
    /\ settled' = settled \cup {msg[t]}
    /\ UNCHANGED <<actorVars, sharedVars, target, waiters, drained, ret, tgt, turnVars>>

\* drainList on __waiters__.
DrainWaiters(t) ==
    /\ Goto(t, "drainWaiters", "wakeWaiters")
    /\ wake' = [wake EXCEPT ![t] = waiters[msg[t]]]
    /\ waiters' = [waiters EXCEPT ![msg[t]] = {}]
    /\ drained' = drained \cup {msg[t]}
    /\ msg' = [msg EXCEPT ![t] = NoMsg]
    /\ UNCHANGED <<actorVars, sharedVars, target, settled, ret, tgt, cur, batch,
                   loaded, dirty, susp>>

\* Schedule the drained waiters one after the other.
WakeWaiter(t, a) ==
    /\ a \in wake[t]
    /\ wake' = [wake EXCEPT ![t] = @ \ {a}]
    /\ CallSchedule(t, "wakeWaiters", a, "wakeWaiters")
    /\ UNCHANGED <<actorVars, sharedVars, futureVars, cur, msg, batch, loaded,
                   dirty, susp>>

\* Back to the drain loop for the next message.
WakeDone(t) ==
    /\ Goto(t, "wakeWaiters", "next")
    /\ wake[t] = {}
    /\ UNCHANGED <<actorVars, sharedVars, futureVars, ret, tgt, turnVars>>

-----------------------------------------------------------------------------
(* The end of a turn: STRuntime::finishDrain.                              *)

MailboxHasWork(a) == pending[a] # <<>> \/ mailbox[a] # <<>>

\* Flag 2: a wakeup was marked.  Take it down to 1 before looking at the mailbox.
ClaimWakeup(t) ==
    /\ Goto(t, "finish", "claimed")
    /\ sched[cur[t]] = 2
    /\ sched' = [sched EXCEPT ![cur[t]] = 1]
    /\ UNCHANGED <<mailbox, pending, frame, waitingOn, anchored, sharedVars,
                   futureVars, ret, tgt, turnVars>>

\* Flag 1: give the actor back.
Release(t) ==
    /\ Goto(t, "finish", IF t \in susp THEN "anchor" ELSE "peekPending")
    /\ sched[cur[t]] = 1
    /\ sched' = [sched EXCEPT ![cur[t]] = 0]
    /\ UNCHANGED <<mailbox, pending, frame, waitingOn, anchored, sharedVars,
                   futureVars, ret, tgt, turnVars>>

\* The thread's locals at the end of drainOne.
EndTurn(t) ==
    /\ cur' = [cur EXCEPT ![t] = NoActor]
    /\ susp' = susp \ {t}

\* A real wakeup: queue the actor again.
Requeue(t) ==
    /\ Goto(t, "claimed", "push")
    /\ MailboxHasWork(cur[t]) \/ t \in susp
    /\ tgt' = [tgt EXCEPT ![t] = cur[t]]
    /\ ret' = [ret EXCEPT ![t] = "idle"]
    /\ EndTurn(t)
    /\ UNCHANGED <<actorVars, sharedVars, futureVars, msg, batch, loaded, dirty, wake>>

\* A stale one: the turn has already consumed the message that marked it.
StaleWakeup(t) ==
    /\ Goto(t, "claimed", "stale")
    /\ ~MailboxHasWork(cur[t]) /\ t \notin susp
    /\ UNCHANGED <<actorVars, sharedVars, futureVars, ret, tgt, turnVars>>

\* CAS 1 -> 0 ...
ReleaseStale(t) ==
    /\ Goto(t, "stale", "unanchor")
    /\ sched[cur[t]] = 1
    /\ sched' = [sched EXCEPT ![cur[t]] = 0]
    /\ UNCHANGED <<mailbox, pending, frame, waitingOn, anchored, sharedVars,
                   futureVars, ret, tgt, turnVars>>

\* ... which fails when a send has marked a wakeup meanwhile: start over.
StaleAgain(t) ==
    /\ Goto(t, "stale", "finish")
    /\ sched[cur[t]] = 2
    /\ UNCHANGED <<actorVars, sharedVars, futureVars, ret, tgt, turnVars>>

\* mailboxHasWork after the release, when the thread no longer owns the actor.
PeekPending(t) ==
    /\ Goto(t, "peekPending", IF pending[cur[t]] # <<>> THEN "reclaim" ELSE "peekMailbox")
    /\ UNCHANGED <<actorVars, sharedVars, futureVars, ret, tgt, turnVars>>

PeekMailbox(t) ==
    /\ Goto(t, "peekMailbox", IF mailbox[cur[t]] # <<>> THEN "reclaim" ELSE "unanchor")
    /\ UNCHANGED <<actorVars, sharedVars, futureVars, ret, tgt, turnVars>>

\* Mutant: a plain store of 1 instead of the CAS.
ReclaimStore(t) ==
    /\ Goto(t, "reclaim", "push")
    /\ sched' = [sched EXCEPT ![cur[t]] = 1]
    /\ tgt' = [tgt EXCEPT ![t] = cur[t]]
    /\ ret' = [ret EXCEPT ![t] = "unanchor"]
    /\ UNCHANGED <<mailbox, pending, frame, waitingOn, anchored, sharedVars,
                   futureVars, turnVars>>

\* Backlog: CAS 0 -> 1 and queue the actor ...
Reclaim(t) ==
    /\ Goto(t, "reclaim", "push")
    /\ sched[cur[t]] = 0
    /\ sched' = [sched EXCEPT ![cur[t]] = 1]
    /\ tgt' = [tgt EXCEPT ![t] = cur[t]]
    /\ ret' = [ret EXCEPT ![t] = "unanchor"]
    /\ UNCHANGED <<mailbox, pending, frame, waitingOn, anchored, sharedVars,
                   futureVars, turnVars>>

\* ... unless somebody else already has.
ReclaimLost(t) ==
    /\ Goto(t, "reclaim", "unanchor")
    /\ sched[cur[t]] # 0
    /\ UNCHANGED <<actorVars, sharedVars, futureVars, ret, tgt, turnVars>>

\* anchorActor does nothing when __anchored__ is set; otherwise it adds the
\* actor to the registry and then sets the flag.
AnchorSkip(t) ==
    /\ Goto(t, "anchor", "idle")
    /\ cur[t] \in anchored
    /\ EndTurn(t)
    /\ UNCHANGED <<actorVars, sharedVars, futureVars, ret, tgt, msg, batch,
                   loaded, dirty, wake>>

Anchor(t) ==
    /\ Goto(t, "anchor", "anchorFlag")
    /\ cur[t] \notin anchored
    /\ registry' = registry \cup {cur[t]}
    /\ UNCHANGED <<actorVars, ready, liveVars, futureVars, ret, tgt, turnVars>>

AnchorFlag(t) ==
    /\ Goto(t, "anchorFlag", "idle")
    /\ anchored' = anchored \cup {cur[t]}
    /\ EndTurn(t)
    /\ UNCHANGED <<sched, mailbox, pending, frame, waitingOn, sharedVars,
                   futureVars, ret, tgt, msg, batch, loaded, dirty, wake>>

\* unanchorActor is its mirror image.
UnanchorSkip(t) ==
    /\ Goto(t, "unanchor", "idle")
    /\ cur[t] \notin anchored
    /\ EndTurn(t)
    /\ UNCHANGED <<actorVars, sharedVars, futureVars, ret, tgt, msg, batch,
                   loaded, dirty, wake>>

\* Mutant: the actor leaves __live_actors__ too, and keeps its __live__.
UnanchorLive(t) ==
    /\ Goto(t, "unanchor", "unanchorFlag")
    /\ cur[t] \in anchored
    /\ registry' = registry \ {cur[t]}
    /\ live' = live \ {cur[t]}
    /\ UNCHANGED <<actorVars, ready, flagged, futureVars, ret, tgt, turnVars>>

Unanchor(t) ==
    /\ Goto(t, "unanchor", "unanchorFlag")
    /\ cur[t] \in anchored
    /\ registry' = registry \ {cur[t]}
    /\ UNCHANGED <<actorVars, ready, liveVars, futureVars, ret, tgt, turnVars>>

UnanchorFlag(t) ==
    /\ Goto(t, "unanchorFlag", "idle")
    /\ anchored' = anchored \ {cur[t]}
    /\ EndTurn(t)
    /\ UNCHANGED <<sched, mailbox, pending, frame, waitingOn, sharedVars,
                   futureVars, ret, tgt, msg, batch, loaded, dirty, wake>>

-----------------------------------------------------------------------------
FinishDrain(t) ==
    \/ ClaimWakeup(t) \/ Release(t) \/ Requeue(t)
    \/ StaleWakeup(t) \/ ReleaseStale(t) \/ StaleAgain(t)
    \/ PeekPending(t) \/ PeekMailbox(t) \/ Reclaim(t) \/ ReclaimLost(t)
    \/ AnchorSkip(t) \/ Anchor(t) \/ AnchorFlag(t)
    \/ UnanchorSkip(t) \/ Unanchor(t) \/ UnanchorFlag(t)

Cursor(t) == NextMessage(t) \/ LoadPending(t) \/ TakeAll(t) \/ Spill(t)

Park(t) ==
    \/ WaitError(t) \/ Yield(t)
    \/ WaiterSettled(t) \/ WaiterPending(t) \/ AppendDrained(t) \/ AppendWaiter(t)

SettleFuture(t) ==
    \/ PublishState(t) \/ DrainWaiters(t)
    \/ \E a \in Actors : WakeWaiter(t, a)
    \/ WakeDone(t)

Resume(t) == FreshTurn(t) \/ DeferResume(t) \/ ResumeTurn(t)

\* The steps the runtime takes by itself once it has started.
Runtime(t) ==
    \/ Schedule(t) \/ FlagLive(t) \/ AppendLive(t) \/ EnqueueReady(t)
    \/ \E a \in Actors : DequeueReady(t, a)
    \/ Resume(t) \/ Cursor(t) \/ Park(t) \/ SettleFuture(t) \/ FinishDrain(t)

\* The steps a running method chooses.
Method(t) ==
    \/ \E m \in Msgs, a \in Actors : MethodSend(t, m, a)
    \/ \E f \in Msgs : BeginWait(t, f)
    \/ MethodEnd(t)

Client(t) == \E m \in Msgs, a \in Actors : ClientSend(t, m, a)

\* Every message that was sent has been settled and every thread is at rest.
Quiescent ==
    /\ \A t \in Threads : pc[t] = "idle"
    /\ \A a \in Actors : ready[a] = 0
    /\ \A m \in Msgs : target[m] # NoActor /\ m \in settled

Done == Quiescent /\ UNCHANGED vars

Next == (\E t \in Threads : Runtime(t) \/ Method(t) \/ Client(t)) \/ Done

Spec == Init /\ [][Next]_vars

(***************************************************************************)
(* Fairness.  A worker that can take a step of the runtime takes it: the   *)
(* operating system runs every thread, and every loop of the runtime is    *)
(* lock-free.  A method that is running ends or waits (strong, since it    *)
(* may be resumed and wait again): endless user code is not the            *)
(* scheduler's to prevent.  Clients owe nothing.                           *)
(***************************************************************************)
Fairness ==
    \A t \in Threads : WF_vars(Runtime(t)) /\ SF_vars(MethodEnd(t))

FairSpec == Spec /\ Fairness

-----------------------------------------------------------------------------
(* Properties.                                                             *)

\* Thread t runs a turn of actor a and has not given the flag back; t has
\* claimed the flag and is about to push a; either.
Owns(t, a) ==
    /\ cur[t] = a
    /\ pc[t] \in OwnPC \/ (pc[t] \in CallPC /\ ret[t] \in DrainPC)
Pushing(t, a) == pc[t] \in PushPC /\ tgt[t] = a
Holds(t, a) == Owns(t, a) \/ Pushing(t, a)

\* One worker per actor: while __sched__ is 0 nobody holds the actor and it is
\* not queued; otherwise it is on the ready stacks exactly once, or else held
\* by exactly one thread, which either runs its turn or is about to queue it.
OneOwner ==
    \A a \in Actors :
      /\ ready[a] <= 1
      /\ sched[a] # 0 <=> (ready[a] = 1 \/ \E t \in Threads : Holds(t, a))
      /\ ready[a] = 1 => \A t \in Threads : ~Holds(t, a)
      /\ \A t, u \in Threads : Holds(t, a) /\ Holds(u, a) => t = u
      /\ \A t \in Threads : ~(Owns(t, a) /\ Pushing(t, a))

\* A thread has yet to call schedule(a), or is in the call.
WillSchedule(a) ==
    \E t \in Threads :
      \/ pc[t] = "schedule" /\ tgt[t] = a
      \/ a \in wake[t]
      \/ /\ pc[t] = "drainWaiters"
         /\ msg[t] = waitingOn[a]
         /\ a \in waiters[msg[t]]

\* No wakeup is lost: when an actor's flag is 0 although it has work, some
\* thread is about to schedule it.  Work is a message, unless the actor is
\* suspended; for a suspended actor it is the settled future it waited for.
NoLostWakeup ==
    \A a \in Actors : sched[a] = 0 =>
      /\ frame[a] = NoMsg /\ MailboxHasWork(a) => WillSchedule(a)
      /\ frame[a] # NoMsg /\ waitingOn[a] \in settled => WillSchedule(a)

\* An actor suspended in the middle of a message, with the future it awaits
\* still pending, is registered with that future, or its own turn is about to
\* register it: the settle will find it.
ParkedIsRegistered ==
    \A a \in Actors :
      frame[a] # NoMsg /\ waitingOn[a] \notin settled
        => \/ a \in waiters[waitingOn[a]]
           \/ \E t \in Threads : cur[t] = a /\ pc[t] \in {"check", "append"}

\* The collector does not trace the ready stack: an actor that is queued, or parked with
\* nothing running it, is in __live_actors__.  Its __live__ says so too early: between
\* FlagLive and AppendLive nobody else may push it, which only __sched__ prevents.
QueuedIsRooted ==
    \A a \in Actors :
      ready[a] > 0 \/ (frame[a] # NoMsg /\ ~\E t \in Threads : cur[t] = a)
        => a \in live

\* What finishDrain's comment promises: a suspended actor off the ready queue
\* is anchored in the live registry until the settle reschedules it.
SuspendedIsAnchored ==
    \A a \in Actors :
      /\ frame[a] # NoMsg
      /\ sched[a] = 0
      /\ waitingOn[a] \notin settled
      /\ ~\E t \in Threads : cur[t] = a
      => a \in registry

-----------------------------------------------------------------------------
(* The scheduler implements SerialActors.                                  *)

\* What is left of an actor's input, in order: the rest of the batch its turn
\* walks, the tail an earlier turn left (already part of the batch once this
\* turn has loaded it), and the queue.
inboxBar ==
    [a \in Actors |->
       IF \E t \in Threads : Owns(t, a)
       THEN LET t == CHOOSE t \in Threads : Owns(t, a) IN
            (IF t \in loaded THEN batch[t] ELSE pending[a]) \o mailbox[a]
       ELSE pending[a] \o mailbox[a]]

\* The message an actor is handling: the one its turn runs, or the parked one.
currentBar ==
    [a \in Actors |->
       IF frame[a] # NoMsg THEN frame[a]
       ELSE IF \E t \in Threads : Owns(t, a)
            THEN LET t == CHOOSE t \in Threads : Owns(t, a) IN
                 IF pc[t] = "drainWaiters" THEN NoMsg ELSE msg[t]
            ELSE NoMsg]

Serial == INSTANCE SerialActors WITH inbox <- inboxBar, current <- currentBar

\* Every actor handles its messages one at a time, in the order of their
\* arrival, none lost and none run twice, whatever its turns, batches,
\* suspensions and spurious wakeups.
ImplementsSerialActors == Serial!Spec

\* Every message that is sent is settled in the end: its actor is woken, runs
\* it, and is brought back from every wait it makes.
EverySendSettles == \A m \in Msgs : target[m] # NoActor ~> m \in settled
=============================================================================
