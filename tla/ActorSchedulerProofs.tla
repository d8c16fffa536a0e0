------------------------ MODULE ActorSchedulerProofs ------------------------
(***************************************************************************)
(* Proofs, for any number of actors, threads and messages, that the        *)
(* scheduler never loses a wakeup, never runs two turns of an actor, and   *)
(* lets every actor handle its messages in order, as SerialActors says.    *)
(***************************************************************************)
EXTENDS ActorScheduler, SequenceTheorems, TLAPS

-----------------------------------------------------------------------------
(* The inductive invariant.                                                *)

\* In the middle of a turn, calls of schedule() made by the method included.
InTurn(t) == pc[t] \in OwnPC \/ (pc[t] \in CallPC /\ ret[t] \in DrainPC)

\* Inside schedule() or enqueueReady, to return to step r.
InCall(t, r) == pc[t] \in CallPC /\ ret[t] = r

\* What a thread's locals hold at each of its steps.
LocalsOK ==
    \A t \in Threads :
      /\ InTurn(t) \/ pc[t] \in AfterPC => cur[t] \in Actors
      /\ pc[t] = "idle" => cur[t] = NoActor
      /\ pc[t] \in CallPC => tgt[t] \in Actors
      /\ InCall(t, "idle") => cur[t] = NoActor
      /\ InCall(t, "unanchor") => pc[t] \in PushPC /\ cur[t] \in Actors
      /\ (pc[t] \in {"run", "walk", "settle", "drainWaiters"}
            \/ InCall(t, "run")) <=> msg[t] # NoMsg
      /\ t \in loaded => pc[t] \in DrainPC \ {"entry"} \/ (pc[t] \in CallPC /\ ret[t] \in DrainPC)
      /\ t \in dirty \/ batch[t] # <<>> => t \in loaded
      /\ wake[t] # {} => pc[t] = "wakeWaiters"
                         \/ InCall(t, "wakeWaiters")

TypeInv == TypeOK /\ LocalsOK

\* Where a turn stands when its actor has a suspended frame, and conversely.
SuspendedPC == {"check", "append", "spill", "finish", "claimed"}

SuspensionOK ==
    /\ \A a \in Actors : frame[a] # NoMsg => waitingOn[a] \in Msgs
    /\ \A t \in Threads :
         pc[t] \in {"walk", "check", "append"} => waitingOn[cur[t]] \in Msgs
    /\ \A t \in Threads : t \in susp /\ InTurn(t) =>
         /\ frame[cur[t]] # NoMsg
         /\ pc[t] \in SuspendedPC \/ InCall(t, "spill")
    /\ \A t \in Threads : InTurn(t) /\ t \notin susp /\ pc[t] # "entry" =>
         /\ frame[cur[t]] = NoMsg
         /\ pc[t] \notin {"check", "append"}
         /\ ~(InCall(t, "spill"))
    /\ \A t \in Threads : pc[t] \in {"idle", "entry"} \/ InCall(t, "idle")
         => t \notin susp
    /\ \A t \in Threads : pc[t] = "spill" /\ t \notin susp => t \in loaded /\ batch[t] = <<>>
    /\ \A t \in Threads : InCall(t, "unanchor") \/ pc[t] \in AfterPC \ {"anchor", "anchorFlag"}
         => t \notin susp

\* Between publication and drain of a future there is a thread settling it.
SettlingOK ==
    /\ \A t \in Threads : pc[t] = "drainWaiters" => msg[t] \in settled
    /\ \A f \in settled \ drained :
         \E t \in Threads : pc[t] = "drainWaiters" /\ msg[t] = f
    /\ \A f \in drained : f \in settled /\ waiters[f] = {}

(***************************************************************************)
(* Three invariants say that whatever an actor has to do is in sight.  Each *)
(* has the form: an actor with something to do is safe by the shared state *)
(* alone (Base), or there is a thread that will see to it (Covers).        *)
(***************************************************************************)

\* Thread t has yet to call schedule(a), or is in the call.
Will(t, a) ==
    \/ pc[t] = "schedule" /\ tgt[t] = a
    \/ a \in wake[t]
    \/ pc[t] = "drainWaiters" /\ msg[t] = waitingOn[a] /\ a \in waiters[msg[t]]

\* Thread t holds the flag of a and has yet to look at what a has to do.
Looks(t, a) == Pushing(t, a) \/ (cur[t] = a /\ pc[t] \in {"entry", "claimed"})

\* A suspended actor is registered with its future, or else its future is
\* settled and it is on its way back.
SuspendedBase(a) ==
    \/ a \in waiters[waitingOn[a]]
    \/ waitingOn[a] \in settled /\ (sched[a] = 2 \/ ready[a] > 0)

SuspendedCovers(t, a) ==
    \/ cur[t] = a /\ pc[t] \in {"check", "append"}
    \/ waitingOn[a] \in settled /\ (Will(t, a) \/ Looks(t, a))

SuspendedOK ==
    \A a \in Actors : frame[a] # NoMsg =>
      SuspendedBase(a) \/ \E t \in Threads : SuspendedCovers(t, a)

\* Messages in a queue will be seen: a turn looks again before it spills, and
\* whoever pushed one after that look still has to schedule the actor.
QueueBase(a) == frame[a] # NoMsg \/ sched[a] = 2 \/ ready[a] > 0

QueueCovers(t, a) ==
    \/ Will(t, a) \/ Looks(t, a)
    \/ Owns(t, a) /\ pc[t] \in (DrainPC \ {"spill"}) \cup CallPC

QueueOK ==
    \A a \in Actors : mailbox[a] # <<>> =>
      QueueBase(a) \/ \E t \in Threads : QueueCovers(t, a)

\* Messages left in __pending__ belong to a suspended actor, or to a turn that
\* has yet to load them or to rewrite the attribute.
PendingCovers(t, a) ==
    /\ Owns(t, a)
    /\ pc[t] \in DrainPC \cup CallPC
    /\ t \in loaded => t \in dirty
    /\ pc[t] = "spill" => t \in loaded

PendingOK ==
    \A a \in Actors : pending[a] # <<>> =>
      frame[a] # NoMsg \/ \E t \in Threads : PendingCovers(t, a)

\* An actor that is queued, that some turn holds, or that is suspended has been through
\* enqueueReady, and nothing leaves __live_actors__.  An actor whose __live__ is set ahead
\* of that has a thread that is about to append it: by OneOwner nobody else is queuing it.
RootedOK ==
    /\ \A a \in Actors : ready[a] > 0 \/ frame[a] # NoMsg => a \in live
    /\ \A t \in Threads : cur[t] # NoActor => cur[t] \in live
    /\ \A a \in flagged \ live : \E t \in Threads : pc[t] = "appendLive" /\ tgt[t] = a

\* A turn that has looked at __pending__ and found nothing in it is right: only the turn
\* itself writes the attribute.
LoadedOK ==
    \A t \in Threads : t \in loaded /\ t \notin dirty => pending[cur[t]] = <<>>

\* What a step of thread t must do to keep each of the first three.
SuspendedKept(t) ==
    \A a \in Actors : frame'[a] # NoMsg =>
      \/ SuspendedBase(a)' \/ SuspendedCovers(t, a)'
      \/ /\ frame[a] # NoMsg /\ ~SuspendedBase(a)
         /\ \A u \in Threads : SuspendedCovers(u, a) => SuspendedCovers(u, a)'

QueueKept(t) ==
    \A a \in Actors : mailbox'[a] # <<>> =>
      \/ QueueBase(a)' \/ QueueCovers(t, a)'
      \/ /\ mailbox[a] # <<>> /\ ~QueueBase(a)
         /\ \A u \in Threads : QueueCovers(u, a) => QueueCovers(u, a)'

PendingKept(t) ==
    \A a \in Actors : pending'[a] # <<>> =>
      \/ frame'[a] # NoMsg \/ PendingCovers(t, a)'
      \/ /\ pending[a] # <<>> /\ frame[a] = NoMsg
         /\ \A u \in Threads : PendingCovers(u, a) => PendingCovers(u, a)'

IInv ==
    /\ OneOwner /\ SuspensionOK /\ SettlingOK /\ SuspendedOK /\ QueueOK /\ PendingOK
    /\ RootedOK /\ LoadedOK
-----------------------------------------------------------------------------
(* Typing.                                                                 *)

\* Every step keeps every variable, and every thread's locals, in their types.
LEMMA TypeStep == TypeInv /\ [Next]_vars => TypeInv'
<1> SUFFICES ASSUME TypeInv, [Next]_vars PROVE TypeInv'
    OBVIOUS
<1> USE NoActorAssumption, NoMsgAssumption
<1> USE DEF TypeInv, TypeOK, LocalsOK, InTurn, InCall, Goto, CallSchedule, PCs, OwnPC, DrainPC,
    AfterPC, CallPC, PushPC, actorVars, liveVars, sharedVars, futureVars, turnVars
<1>1. ASSUME NEW t \in Threads, Schedule(t) PROVE TypeInv'
  <2>1. TypeOK'
    BY <1>1 DEF Schedule, ScheduleFlag
  <2>2. LocalsOK'
    BY <1>1 DEF Schedule
  <2> QED
    BY <2>1, <2>2
<1>2. ASSUME NEW t \in Threads, EnqueueReady(t) PROVE TypeInv'
    BY <1>2 DEF EnqueueReady
<1>3. ASSUME NEW t \in Threads, FreshTurn(t) PROVE TypeInv'
    BY <1>3 DEF FreshTurn
<1>4. ASSUME NEW t \in Threads, DeferResume(t) PROVE TypeInv'
    BY <1>4 DEF DeferResume
<1>5. ASSUME NEW t \in Threads, ResumeTurn(t) PROVE TypeInv'
    BY <1>5 DEF ResumeTurn
<1>6. ASSUME NEW t \in Threads, NextMessage(t) PROVE TypeInv'
    BY <1>6 DEF NextMessage
<1>7. ASSUME NEW t \in Threads, LoadPending(t) PROVE TypeInv'
    BY <1>7 DEF LoadPending
<1>8. ASSUME NEW t \in Threads, TakeAll(t) PROVE TypeInv'
  <2>1. TypeOK'
    BY <1>8 DEF TakeAll
  <2>2. LocalsOK'
    BY <1>8 DEF TakeAll
  <2> QED
    BY <2>1, <2>2
<1>9. ASSUME NEW t \in Threads, Spill(t) PROVE TypeInv'
    BY <1>9 DEF Spill
<1>10. ASSUME NEW t \in Threads, WaitError(t) PROVE TypeInv'
    BY <1>10 DEF WaitError
<1>11. ASSUME NEW t \in Threads, Yield(t) PROVE TypeInv'
    BY <1>11 DEF Yield
<1>12. ASSUME NEW t \in Threads, WaiterSettled(t) PROVE TypeInv'
    BY <1>12 DEF WaiterSettled
<1>13. ASSUME NEW t \in Threads, WaiterPending(t) PROVE TypeInv'
    BY <1>13 DEF WaiterPending
<1>14. ASSUME NEW t \in Threads, AppendDrained(t) PROVE TypeInv'
    BY <1>14 DEF AppendDrained
<1>15. ASSUME NEW t \in Threads, AppendWaiter(t) PROVE TypeInv'
  <2>1. CASE waitingOn[cur[t]] \in Msgs
    BY <1>15, <2>1 DEF AppendWaiter
  <2>2. CASE waitingOn[cur[t]] \notin Msgs
    <3>1. waiters' = waiters
      BY <1>15, <2>2 DEF AppendWaiter
    <3>2. TypeOK'
      BY <1>15, <3>1 DEF AppendWaiter
    <3>3. LocalsOK'
      BY <1>15 DEF AppendWaiter
    <3> QED
      BY <3>2, <3>3
  <2> QED
    BY <2>1, <2>2
<1>16. ASSUME NEW t \in Threads, MethodEnd(t) PROVE TypeInv'
    BY <1>16 DEF MethodEnd
<1>17. ASSUME NEW t \in Threads, PublishState(t) PROVE TypeInv'
    BY <1>17 DEF PublishState
<1>18. ASSUME NEW t \in Threads, DrainWaiters(t) PROVE TypeInv'
    BY <1>18 DEF DrainWaiters
<1>19. ASSUME NEW t \in Threads, WakeDone(t) PROVE TypeInv'
    BY <1>19 DEF WakeDone
<1>20. ASSUME NEW t \in Threads, ClaimWakeup(t) PROVE TypeInv'
    BY <1>20 DEF ClaimWakeup
<1>21. ASSUME NEW t \in Threads, Release(t) PROVE TypeInv'
    BY <1>21 DEF Release
<1>22. ASSUME NEW t \in Threads, Requeue(t) PROVE TypeInv'
    BY <1>22 DEF Requeue, EndTurn
<1>23. ASSUME NEW t \in Threads, StaleWakeup(t) PROVE TypeInv'
    BY <1>23 DEF StaleWakeup
<1>24. ASSUME NEW t \in Threads, ReleaseStale(t) PROVE TypeInv'
    BY <1>24 DEF ReleaseStale
<1>25. ASSUME NEW t \in Threads, StaleAgain(t) PROVE TypeInv'
    BY <1>25 DEF StaleAgain
<1>26. ASSUME NEW t \in Threads, PeekPending(t) PROVE TypeInv'
    BY <1>26 DEF PeekPending
<1>27. ASSUME NEW t \in Threads, PeekMailbox(t) PROVE TypeInv'
    BY <1>27 DEF PeekMailbox
<1>28. ASSUME NEW t \in Threads, Reclaim(t) PROVE TypeInv'
    BY <1>28 DEF Reclaim
<1>29. ASSUME NEW t \in Threads, ReclaimLost(t) PROVE TypeInv'
    BY <1>29 DEF ReclaimLost
<1>30. ASSUME NEW t \in Threads, AnchorSkip(t) PROVE TypeInv'
    BY <1>30 DEF AnchorSkip, EndTurn
<1>31. ASSUME NEW t \in Threads, Anchor(t) PROVE TypeInv'
    BY <1>31 DEF Anchor
<1>32. ASSUME NEW t \in Threads, AnchorFlag(t) PROVE TypeInv'
    BY <1>32 DEF AnchorFlag, EndTurn
<1>33. ASSUME NEW t \in Threads, UnanchorSkip(t) PROVE TypeInv'
    BY <1>33 DEF UnanchorSkip, EndTurn
<1>34. ASSUME NEW t \in Threads, Unanchor(t) PROVE TypeInv'
    BY <1>34 DEF Unanchor
<1>35. ASSUME NEW t \in Threads, UnanchorFlag(t) PROVE TypeInv'
    BY <1>35 DEF UnanchorFlag, EndTurn
<1>36. ASSUME NEW t \in Threads, NEW a \in Actors, DequeueReady(t, a) PROVE TypeInv'
  <2>1. TypeOK'
    BY <1>36 DEF DequeueReady
  <2>2. LocalsOK'
    BY <1>36 DEF DequeueReady
  <2> QED
    BY <2>1, <2>2
<1>37. ASSUME NEW t \in Threads, NEW a \in Actors, WakeWaiter(t, a) PROVE TypeInv'
    BY <1>37 DEF WakeWaiter
<1>38. ASSUME NEW t \in Threads, NEW m \in Msgs, NEW a \in Actors, ClientSend(t, m, a) PROVE TypeInv'
  <2>1. TypeOK'
    BY <1>38 DEF ClientSend, SendTo
  <2>2. LocalsOK'
    BY <1>38 DEF ClientSend, SendTo
  <2> QED
    BY <2>1, <2>2
<1>39. ASSUME NEW t \in Threads, NEW m \in Msgs, NEW a \in Actors, MethodSend(t, m, a) PROVE TypeInv'
  <2>1. TypeOK'
    BY <1>39 DEF MethodSend, SendTo
  <2>2. /\ pc[t] = "run" /\ pc' = [pc EXCEPT ![t] = "schedule"]
        /\ ret' = [ret EXCEPT ![t] = "run"] /\ tgt' = [tgt EXCEPT ![t] = a]
        /\ UNCHANGED turnVars
    BY <1>39 DEF MethodSend, SendTo
  <2>3. LocalsOK'
    BY <2>2
  <2> QED
    BY <2>1, <2>3
<1>40. ASSUME NEW t \in Threads, NEW f \in Msgs, BeginWait(t, f) PROVE TypeInv'
    BY <1>40 DEF BeginWait
<1>41. CASE UNCHANGED vars
    BY <1>41 DEF vars
<1>42. ASSUME NEW t \in Threads, FlagLive(t) PROVE TypeInv'
    BY <1>42 DEF FlagLive
<1>43. ASSUME NEW t \in Threads, AppendLive(t) PROVE TypeInv'
    BY <1>43 DEF AppendLive
<1> QED
    BY <1>1, <1>2, <1>3, <1>4, <1>5, <1>6, <1>7, <1>8, <1>9, <1>10, <1>11, <1>12, <1>13, <1>14,
       <1>15, <1>16, <1>17, <1>18, <1>19, <1>20, <1>21, <1>22, <1>23, <1>24, <1>25, <1>26,
       <1>27, <1>28, <1>29, <1>30, <1>31, <1>32, <1>33, <1>34, <1>35, <1>36, <1>37, <1>38,
       <1>39, <1>40, <1>41, <1>42, <1>43 DEF Next, Runtime, Resume, Cursor, Park, SettleFuture, FinishDrain,
       Method, Client, Done, vars
-----------------------------------------------------------------------------
(* Ownership.                                                              *)

\* A step that leaves the stacks alone, keeps flags zero or nonzero and keeps
\* who runs and who pushes each actor preserves OneOwner.
LEMMA OwnerFrame ==
    ASSUME OneOwner,
           ready' = ready,
           \A a \in Actors : sched'[a] = 0 <=> sched[a] = 0,
           \A t \in Threads, a \in Actors :
             (Owns(t, a)' <=> Owns(t, a)) /\ (Pushing(t, a)' <=> Pushing(t, a))
    PROVE  OneOwner'
BY DEF OneOwner, Holds

\* Every step keeps the owner of an actor unique: only schedule's change of __sched__
\* from 0 makes an owner, and only finishDrain's change to 0 ends one.
LEMMA OwnerStep == TypeInv /\ OneOwner /\ [Next]_vars => OneOwner'
<1> SUFFICES ASSUME TypeInv, OneOwner, [Next]_vars PROVE OneOwner'
    OBVIOUS
<1> USE NoActorAssumption
<1> USE DEF TypeInv, TypeOK, LocalsOK, InTurn, InCall, Goto, CallSchedule, PCs, OwnPC, DrainPC,
    AfterPC, CallPC, PushPC, actorVars, liveVars, sharedVars, futureVars, turnVars
<1>1. ASSUME NEW t \in Threads, Schedule(t) PROVE OneOwner'
  <2>1. CASE sched[tgt[t]] = 0
    <3> DEFINE b == tgt[t]
    <3>1. b \in Actors /\ sched[b] = 0 /\ sched' = [sched EXCEPT ![b] = 1] /\ ready' = ready
      BY <1>1, <2>1 DEF Schedule, ScheduleFlag, Owns, Pushing
    <3>2. \A u \in Threads, c \in Actors :
            (Owns(u, c)' <=> Owns(u, c)) /\ (Pushing(u, c)' <=> Pushing(u, c) \/ (u = t /\ c = b))
      BY <1>1, <2>1 DEF Schedule, ScheduleFlag, Owns, Pushing
    <3> HIDE DEF b
    <3> QED
      BY <3>1, <3>2 DEF OneOwner, Holds
  <2>2. CASE sched[tgt[t]] # 0
    BY <1>1, <2>2, OwnerFrame DEF Schedule, ScheduleFlag, Owns, Pushing
  <2> QED
    BY <2>1, <2>2
<1>2. ASSUME NEW t \in Threads, EnqueueReady(t) PROVE OneOwner'
  <2> DEFINE b == tgt[t]
  <2>1. b \in Actors /\ Pushing(t, b) /\ ready' = [ready EXCEPT ![b] = @ + 1] /\ sched' = sched
    BY <1>2 DEF EnqueueReady, Owns, Pushing
  <2>2. \A u \in Threads, c \in Actors :
          (Owns(u, c)' <=> Owns(u, c)) /\ (Pushing(u, c)' <=> Pushing(u, c) /\ ~(u = t /\ c = b))
    BY <1>2 DEF EnqueueReady, Owns, Pushing
  <2> HIDE DEF b
  <2> QED
    BY <2>1, <2>2 DEF OneOwner, Holds
<1>3. ASSUME NEW t \in Threads, FreshTurn(t) PROVE OneOwner'
    BY <1>3, OwnerFrame DEF FreshTurn, Owns, Pushing
<1>4. ASSUME NEW t \in Threads, DeferResume(t) PROVE OneOwner'
    BY <1>4, OwnerFrame DEF DeferResume, Owns, Pushing
<1>5. ASSUME NEW t \in Threads, ResumeTurn(t) PROVE OneOwner'
    BY <1>5, OwnerFrame DEF ResumeTurn, Owns, Pushing
<1>6. ASSUME NEW t \in Threads, NextMessage(t) PROVE OneOwner'
    BY <1>6, OwnerFrame DEF NextMessage, Owns, Pushing
<1>7. ASSUME NEW t \in Threads, LoadPending(t) PROVE OneOwner'
    BY <1>7, OwnerFrame DEF LoadPending, Owns, Pushing
<1>8. ASSUME NEW t \in Threads, TakeAll(t) PROVE OneOwner'
    BY <1>8, OwnerFrame DEF TakeAll, Owns, Pushing
<1>9. ASSUME NEW t \in Threads, Spill(t) PROVE OneOwner'
    BY <1>9, OwnerFrame DEF Spill, Owns, Pushing
<1>10. ASSUME NEW t \in Threads, WaitError(t) PROVE OneOwner'
    BY <1>10, OwnerFrame DEF WaitError, Owns, Pushing
<1>11. ASSUME NEW t \in Threads, Yield(t) PROVE OneOwner'
    BY <1>11, OwnerFrame DEF Yield, Owns, Pushing
<1>12. ASSUME NEW t \in Threads, WaiterSettled(t) PROVE OneOwner'
    BY <1>12, OwnerFrame DEF WaiterSettled, Owns, Pushing
<1>13. ASSUME NEW t \in Threads, WaiterPending(t) PROVE OneOwner'
    BY <1>13, OwnerFrame DEF WaiterPending, Owns, Pushing
<1>14. ASSUME NEW t \in Threads, AppendDrained(t) PROVE OneOwner'
    BY <1>14, OwnerFrame DEF AppendDrained, Owns, Pushing
<1>15. ASSUME NEW t \in Threads, AppendWaiter(t) PROVE OneOwner'
    BY <1>15, OwnerFrame DEF AppendWaiter, Owns, Pushing
<1>16. ASSUME NEW t \in Threads, MethodEnd(t) PROVE OneOwner'
    BY <1>16, OwnerFrame DEF MethodEnd, Owns, Pushing
<1>17. ASSUME NEW t \in Threads, PublishState(t) PROVE OneOwner'
    BY <1>17, OwnerFrame DEF PublishState, Owns, Pushing
<1>18. ASSUME NEW t \in Threads, DrainWaiters(t) PROVE OneOwner'
    BY <1>18, OwnerFrame DEF DrainWaiters, Owns, Pushing
<1>19. ASSUME NEW t \in Threads, WakeDone(t) PROVE OneOwner'
    BY <1>19, OwnerFrame DEF WakeDone, Owns, Pushing
<1>20. ASSUME NEW t \in Threads, ClaimWakeup(t) PROVE OneOwner'
    BY <1>20, OwnerFrame DEF ClaimWakeup, Owns, Pushing
<1>21. ASSUME NEW t \in Threads, Release(t) PROVE OneOwner'
  <2> DEFINE b == cur[t]
  <2>1. b \in Actors /\ Owns(t, b) /\ sched' = [sched EXCEPT ![b] = 0] /\ ready' = ready
    BY <1>21 DEF Release, Owns, Pushing
  <2>2. \A u \in Threads, c \in Actors :
          (Owns(u, c)' <=> Owns(u, c) /\ ~(u = t /\ c = b)) /\ (Pushing(u, c)' <=> Pushing(u, c))
    BY <1>21 DEF Release, Owns, Pushing
  <2> HIDE DEF b
  <2> QED
    BY <2>1, <2>2 DEF OneOwner, Holds
<1>22. ASSUME NEW t \in Threads, Requeue(t) PROVE OneOwner'
    BY <1>22 DEF Requeue, EndTurn, Owns, Pushing, OneOwner, Holds
<1>23. ASSUME NEW t \in Threads, StaleWakeup(t) PROVE OneOwner'
    BY <1>23, OwnerFrame DEF StaleWakeup, Owns, Pushing
<1>24. ASSUME NEW t \in Threads, ReleaseStale(t) PROVE OneOwner'
  <2> DEFINE b == cur[t]
  <2>1. b \in Actors /\ Owns(t, b) /\ sched' = [sched EXCEPT ![b] = 0] /\ ready' = ready
    BY <1>24 DEF ReleaseStale, Owns, Pushing
  <2>2. \A u \in Threads, c \in Actors :
          (Owns(u, c)' <=> Owns(u, c) /\ ~(u = t /\ c = b)) /\ (Pushing(u, c)' <=> Pushing(u, c))
    BY <1>24 DEF ReleaseStale, Owns, Pushing
  <2> HIDE DEF b
  <2> QED
    BY <2>1, <2>2 DEF OneOwner, Holds
<1>25. ASSUME NEW t \in Threads, StaleAgain(t) PROVE OneOwner'
    BY <1>25, OwnerFrame DEF StaleAgain, Owns, Pushing
<1>26. ASSUME NEW t \in Threads, PeekPending(t) PROVE OneOwner'
    BY <1>26, OwnerFrame DEF PeekPending, Owns, Pushing
<1>27. ASSUME NEW t \in Threads, PeekMailbox(t) PROVE OneOwner'
    BY <1>27, OwnerFrame DEF PeekMailbox, Owns, Pushing
<1>28. ASSUME NEW t \in Threads, Reclaim(t) PROVE OneOwner'
  <2> DEFINE b == cur[t]
  <2>1. b \in Actors /\ sched[b] = 0 /\ sched' = [sched EXCEPT ![b] = 1] /\ ready' = ready
    BY <1>28 DEF Reclaim, Owns, Pushing
  <2>2. \A u \in Threads, c \in Actors :
          (Owns(u, c)' <=> Owns(u, c)) /\ (Pushing(u, c)' <=> Pushing(u, c) \/ (u = t /\ c = b))
    BY <1>28 DEF Reclaim, Owns, Pushing
  <2> HIDE DEF b
  <2> QED
    BY <2>1, <2>2 DEF OneOwner, Holds
<1>29. ASSUME NEW t \in Threads, ReclaimLost(t) PROVE OneOwner'
    BY <1>29, OwnerFrame DEF ReclaimLost, Owns, Pushing
<1>30. ASSUME NEW t \in Threads, AnchorSkip(t) PROVE OneOwner'
    BY <1>30, OwnerFrame DEF AnchorSkip, EndTurn, Owns, Pushing
<1>31. ASSUME NEW t \in Threads, Anchor(t) PROVE OneOwner'
    BY <1>31, OwnerFrame DEF Anchor, Owns, Pushing
<1>32. ASSUME NEW t \in Threads, AnchorFlag(t) PROVE OneOwner'
    BY <1>32, OwnerFrame DEF AnchorFlag, EndTurn, Owns, Pushing
<1>33. ASSUME NEW t \in Threads, UnanchorSkip(t) PROVE OneOwner'
    BY <1>33, OwnerFrame DEF UnanchorSkip, EndTurn, Owns, Pushing
<1>34. ASSUME NEW t \in Threads, Unanchor(t) PROVE OneOwner'
    BY <1>34, OwnerFrame DEF Unanchor, Owns, Pushing
<1>35. ASSUME NEW t \in Threads, UnanchorFlag(t) PROVE OneOwner'
    BY <1>35, OwnerFrame DEF UnanchorFlag, EndTurn, Owns, Pushing
<1>36. ASSUME NEW t \in Threads, NEW a \in Actors, DequeueReady(t, a) PROVE OneOwner'
  <2> DEFINE b == a
  <2>1. b \in Actors /\ ready[b] > 0 /\ ready' = [ready EXCEPT ![b] = @ - 1] /\ sched' = sched
    BY <1>36 DEF DequeueReady, Owns, Pushing
  <2>2. \A u \in Threads, c \in Actors :
          (Owns(u, c)' <=> Owns(u, c) \/ (u = t /\ c = b)) /\ (Pushing(u, c)' <=> Pushing(u, c))
    BY <1>36 DEF DequeueReady, Owns, Pushing
  <2> HIDE DEF b
  <2> QED
    BY <2>1, <2>2 DEF OneOwner, Holds
<1>37. ASSUME NEW t \in Threads, NEW a \in Actors, WakeWaiter(t, a) PROVE OneOwner'
    BY <1>37, OwnerFrame DEF WakeWaiter, Owns, Pushing
<1>38. ASSUME NEW t \in Threads, NEW m \in Msgs, NEW a \in Actors, ClientSend(t, m, a) PROVE OneOwner'
    BY <1>38, OwnerFrame DEF ClientSend, SendTo, Owns, Pushing
<1>39. ASSUME NEW t \in Threads, NEW m \in Msgs, NEW a \in Actors, MethodSend(t, m, a) PROVE OneOwner'
    BY <1>39, OwnerFrame DEF MethodSend, SendTo, Owns, Pushing
<1>40. ASSUME NEW t \in Threads, NEW f \in Msgs, BeginWait(t, f) PROVE OneOwner'
    BY <1>40, OwnerFrame DEF BeginWait, Owns, Pushing
<1>41. CASE UNCHANGED vars
    BY <1>41, OwnerFrame DEF vars, Owns, Pushing
<1>42. ASSUME NEW t \in Threads, FlagLive(t) PROVE OneOwner'
    BY <1>42, OwnerFrame DEF FlagLive, Owns, Pushing
<1>43. ASSUME NEW t \in Threads, AppendLive(t) PROVE OneOwner'
    BY <1>43, OwnerFrame DEF AppendLive, Owns, Pushing
<1> QED
    BY <1>1, <1>2, <1>3, <1>4, <1>5, <1>6, <1>7, <1>8, <1>9, <1>10, <1>11, <1>12, <1>13, <1>14,
       <1>15, <1>16, <1>17, <1>18, <1>19, <1>20, <1>21, <1>22, <1>23, <1>24, <1>25, <1>26,
       <1>27, <1>28, <1>29, <1>30, <1>31, <1>32, <1>33, <1>34, <1>35, <1>36, <1>37, <1>38,
       <1>39, <1>40, <1>41, <1>42, <1>43 DEF Next, Runtime, Resume, Cursor, Park, SettleFuture, FinishDrain,
       Method, Client, Done, vars
-----------------------------------------------------------------------------
(* Suspension.                                                             *)

\* Two turns of the same actor are the same turn.
LEMMA UniqueTurn ==
    ASSUME TypeInv, OneOwner
    PROVE  \A t, u \in Threads : InTurn(t) /\ InTurn(u) /\ cur[t] = cur[u] => t = u
BY DEF TypeInv, LocalsOK, OneOwner, Holds, Owns, InTurn

\* Every step keeps the place of a turn in agreement with its actor: the frame is saved
\* exactly between the yield and the end of the turn, with the future it awaits.
LEMMA SuspensionStep ==
    TypeInv /\ OneOwner /\ SuspensionOK /\ [Next]_vars => SuspensionOK'
<1> SUFFICES ASSUME TypeInv, OneOwner, SuspensionOK, [Next]_vars PROVE SuspensionOK'
    OBVIOUS
<1> USE NoActorAssumption, NoMsgAssumption
<1> USE DEF TypeInv, TypeOK, LocalsOK, InTurn, InCall, Goto, CallSchedule, PCs, OwnPC, DrainPC,
    AfterPC, CallPC, PushPC, actorVars, liveVars, sharedVars, futureVars, turnVars, SuspensionOK, SuspendedPC
<1>0. \A t, u \in Threads : InTurn(t) /\ InTurn(u) /\ cur[t] = cur[u] => t = u
    BY UniqueTurn
<1>1. ASSUME NEW t \in Threads, Schedule(t) PROVE SuspensionOK'
    BY <1>1, <1>0 DEF Schedule, ScheduleFlag
<1>2. ASSUME NEW t \in Threads, EnqueueReady(t) PROVE SuspensionOK'
    BY <1>2, <1>0 DEF EnqueueReady
<1>3. ASSUME NEW t \in Threads, FreshTurn(t) PROVE SuspensionOK'
    BY <1>3, <1>0 DEF FreshTurn
<1>4. ASSUME NEW t \in Threads, DeferResume(t) PROVE SuspensionOK'
    BY <1>4, <1>0 DEF DeferResume
<1>5. ASSUME NEW t \in Threads, ResumeTurn(t) PROVE SuspensionOK'
    BY <1>5, <1>0 DEF ResumeTurn
<1>6. ASSUME NEW t \in Threads, NextMessage(t) PROVE SuspensionOK'
    BY <1>6, <1>0 DEF NextMessage
<1>7. ASSUME NEW t \in Threads, LoadPending(t) PROVE SuspensionOK'
    BY <1>7, <1>0 DEF LoadPending
<1>8. ASSUME NEW t \in Threads, TakeAll(t) PROVE SuspensionOK'
    BY <1>8, <1>0 DEF TakeAll
<1>9. ASSUME NEW t \in Threads, Spill(t) PROVE SuspensionOK'
    BY <1>9, <1>0 DEF Spill
<1>10. ASSUME NEW t \in Threads, WaitError(t) PROVE SuspensionOK'
  <2>1. PICK p \in {"run", "settle"} : Goto(t, "walk", p)
    BY <1>10 DEF WaitError
  <2>2. t \notin susp /\ frame[cur[t]] = NoMsg
    BY <1>10 DEF WaitError
  <2> QED
    BY <1>10, <2>1, <2>2, <1>0 DEF WaitError
<1>11. ASSUME NEW t \in Threads, Yield(t) PROVE SuspensionOK'
    BY <1>11, <1>0 DEF Yield
<1>12. ASSUME NEW t \in Threads, WaiterSettled(t) PROVE SuspensionOK'
    BY <1>12, <1>0 DEF WaiterSettled
<1>13. ASSUME NEW t \in Threads, WaiterPending(t) PROVE SuspensionOK'
    BY <1>13, <1>0 DEF WaiterPending
<1>14. ASSUME NEW t \in Threads, AppendDrained(t) PROVE SuspensionOK'
    BY <1>14, <1>0 DEF AppendDrained
<1>15. ASSUME NEW t \in Threads, AppendWaiter(t) PROVE SuspensionOK'
    BY <1>15, <1>0 DEF AppendWaiter
<1>16. ASSUME NEW t \in Threads, MethodEnd(t) PROVE SuspensionOK'
    BY <1>16, <1>0 DEF MethodEnd
<1>17. ASSUME NEW t \in Threads, PublishState(t) PROVE SuspensionOK'
    BY <1>17, <1>0 DEF PublishState
<1>18. ASSUME NEW t \in Threads, DrainWaiters(t) PROVE SuspensionOK'
    BY <1>18, <1>0 DEF DrainWaiters
<1>19. ASSUME NEW t \in Threads, WakeDone(t) PROVE SuspensionOK'
    BY <1>19, <1>0 DEF WakeDone
<1>20. ASSUME NEW t \in Threads, ClaimWakeup(t) PROVE SuspensionOK'
    BY <1>20, <1>0 DEF ClaimWakeup
<1>21. ASSUME NEW t \in Threads, Release(t) PROVE SuspensionOK'
    BY <1>21, <1>0 DEF Release
<1>22. ASSUME NEW t \in Threads, Requeue(t) PROVE SuspensionOK'
    BY <1>22, <1>0 DEF Requeue, EndTurn
<1>23. ASSUME NEW t \in Threads, StaleWakeup(t) PROVE SuspensionOK'
    BY <1>23, <1>0 DEF StaleWakeup, MailboxHasWork
<1>24. ASSUME NEW t \in Threads, ReleaseStale(t) PROVE SuspensionOK'
  <2>1. t \notin susp
    BY <1>24 DEF ReleaseStale
  <2> QED
    BY <1>24, <2>1, <1>0 DEF ReleaseStale
<1>25. ASSUME NEW t \in Threads, StaleAgain(t) PROVE SuspensionOK'
    BY <1>25, <1>0 DEF StaleAgain
<1>26. ASSUME NEW t \in Threads, PeekPending(t) PROVE SuspensionOK'
    BY <1>26, <1>0 DEF PeekPending
<1>27. ASSUME NEW t \in Threads, PeekMailbox(t) PROVE SuspensionOK'
    BY <1>27, <1>0 DEF PeekMailbox
<1>28. ASSUME NEW t \in Threads, Reclaim(t) PROVE SuspensionOK'
    BY <1>28, <1>0 DEF Reclaim
<1>29. ASSUME NEW t \in Threads, ReclaimLost(t) PROVE SuspensionOK'
    BY <1>29, <1>0 DEF ReclaimLost
<1>30. ASSUME NEW t \in Threads, AnchorSkip(t) PROVE SuspensionOK'
    BY <1>30, <1>0 DEF AnchorSkip, EndTurn
<1>31. ASSUME NEW t \in Threads, Anchor(t) PROVE SuspensionOK'
    BY <1>31, <1>0 DEF Anchor
<1>32. ASSUME NEW t \in Threads, AnchorFlag(t) PROVE SuspensionOK'
    BY <1>32, <1>0 DEF AnchorFlag, EndTurn
<1>33. ASSUME NEW t \in Threads, UnanchorSkip(t) PROVE SuspensionOK'
    BY <1>33, <1>0 DEF UnanchorSkip, EndTurn
<1>34. ASSUME NEW t \in Threads, Unanchor(t) PROVE SuspensionOK'
    BY <1>34, <1>0 DEF Unanchor
<1>35. ASSUME NEW t \in Threads, UnanchorFlag(t) PROVE SuspensionOK'
    BY <1>35, <1>0 DEF UnanchorFlag, EndTurn
<1>36. ASSUME NEW t \in Threads, NEW a \in Actors, DequeueReady(t, a) PROVE SuspensionOK'
  <2>1. t \notin susp
    BY <1>36 DEF DequeueReady
  <2>2. \A u \in Threads \ {t} : pc'[u] = pc[u] /\ cur'[u] = cur[u]
    BY <1>36 DEF DequeueReady
  <2> QED
    BY <1>36, <2>1, <2>2 DEF DequeueReady
<1>37. ASSUME NEW t \in Threads, NEW a \in Actors, WakeWaiter(t, a) PROVE SuspensionOK'
  <2>1. /\ pc[t] = "wakeWaiters" /\ pc' = [pc EXCEPT ![t] = "schedule"]
        /\ ret' = [ret EXCEPT ![t] = "wakeWaiters"]
        /\ UNCHANGED <<frame, waitingOn, cur, susp, loaded, batch>>
    BY <1>37 DEF WakeWaiter
  <2>2. t \notin susp
    BY <2>1
  <2>3. \A u \in Threads \ {t} : pc'[u] = pc[u] /\ ret'[u] = ret[u]
    BY <2>1
  <2>4. pc'[t] = "schedule" /\ ret'[t] = "wakeWaiters"
    BY <2>1
  <2> QED
    BY <2>1, <2>2, <2>3, <2>4
<1>38. ASSUME NEW t \in Threads, NEW m \in Msgs, NEW a \in Actors, ClientSend(t, m, a) PROVE SuspensionOK'
    BY <1>38, <1>0 DEF ClientSend, SendTo
<1>39. ASSUME NEW t \in Threads, NEW m \in Msgs, NEW a \in Actors, MethodSend(t, m, a) PROVE SuspensionOK'
    BY <1>39, <1>0 DEF MethodSend, SendTo
<1>40. ASSUME NEW t \in Threads, NEW f \in Msgs, BeginWait(t, f) PROVE SuspensionOK'
    BY <1>40, <1>0 DEF BeginWait
<1>41. CASE UNCHANGED vars
    BY <1>41, <1>0 DEF vars
<1>42. ASSUME NEW t \in Threads, FlagLive(t) PROVE SuspensionOK'
    BY <1>42, <1>0 DEF FlagLive
<1>43. ASSUME NEW t \in Threads, AppendLive(t) PROVE SuspensionOK'
    BY <1>43, <1>0 DEF AppendLive
<1> QED
    BY <1>1, <1>2, <1>3, <1>4, <1>5, <1>6, <1>7, <1>8, <1>9, <1>10, <1>11, <1>12, <1>13, <1>14,
       <1>15, <1>16, <1>17, <1>18, <1>19, <1>20, <1>21, <1>22, <1>23, <1>24, <1>25, <1>26,
       <1>27, <1>28, <1>29, <1>30, <1>31, <1>32, <1>33, <1>34, <1>35, <1>36, <1>37, <1>38,
       <1>39, <1>40, <1>41, <1>42, <1>43 DEF Next, Runtime, Resume, Cursor, Park, SettleFuture, FinishDrain,
       Method, Client, Done, vars
-----------------------------------------------------------------------------
(* Settling.                                                               *)

\* The publication of a future's state and the drain of its waiters.
LEMMA SettlingStep ==
    TypeInv /\ OneOwner /\ SuspensionOK /\ SettlingOK /\ [Next]_vars => SettlingOK'
<1> SUFFICES ASSUME TypeInv, OneOwner, SuspensionOK, SettlingOK, [Next]_vars PROVE SettlingOK'
    OBVIOUS
<1> USE NoActorAssumption, NoMsgAssumption
<1> USE DEF TypeInv, TypeOK, LocalsOK, InTurn, InCall, Goto, CallSchedule, PCs, OwnPC, DrainPC,
    AfterPC, CallPC, PushPC, actorVars, liveVars, sharedVars, futureVars, turnVars
<1>0. \A t, u \in Threads : InTurn(t) /\ InTurn(u) /\ cur[t] = cur[u] => t = u
    BY UniqueTurn
<1>1. ASSUME NEW t \in Threads, Schedule(t) PROVE SettlingOK'
  <2>1. ret[t] # "drainWaiters"
    OBVIOUS
  <2>2. \A u \in Threads : pc'[u] = "drainWaiters" <=> pc[u] = "drainWaiters"
    BY <1>1, <2>1 DEF Schedule, ScheduleFlag
  <2>3. UNCHANGED <<settled, drained, waiters, msg>>
    BY <1>1 DEF Schedule, ScheduleFlag
  <2> QED
    BY <2>2, <2>3 DEF SettlingOK
<1>2. ASSUME NEW t \in Threads, EnqueueReady(t) PROVE SettlingOK'
  <2>1. ret[t] # "drainWaiters"
    OBVIOUS
  <2>2. \A u \in Threads : pc'[u] = "drainWaiters" <=> pc[u] = "drainWaiters"
    BY <1>2, <2>1 DEF EnqueueReady
  <2>3. UNCHANGED <<settled, drained, waiters, msg>>
    BY <1>2 DEF EnqueueReady
  <2> QED
    BY <2>2, <2>3 DEF SettlingOK
<1>3. ASSUME NEW t \in Threads, FreshTurn(t) PROVE SettlingOK'
    BY <1>3, <1>0 DEF FreshTurn, SettlingOK
<1>4. ASSUME NEW t \in Threads, DeferResume(t) PROVE SettlingOK'
    BY <1>4, <1>0 DEF DeferResume, SettlingOK
<1>5. ASSUME NEW t \in Threads, ResumeTurn(t) PROVE SettlingOK'
    BY <1>5, <1>0 DEF ResumeTurn, SettlingOK
<1>6. ASSUME NEW t \in Threads, NextMessage(t) PROVE SettlingOK'
    BY <1>6, <1>0 DEF NextMessage, SettlingOK
<1>7. ASSUME NEW t \in Threads, LoadPending(t) PROVE SettlingOK'
    BY <1>7, <1>0 DEF LoadPending, SettlingOK
<1>8. ASSUME NEW t \in Threads, TakeAll(t) PROVE SettlingOK'
    BY <1>8, <1>0 DEF TakeAll, SettlingOK
<1>9. ASSUME NEW t \in Threads, Spill(t) PROVE SettlingOK'
    BY <1>9, <1>0 DEF Spill, SettlingOK
<1>10. ASSUME NEW t \in Threads, WaitError(t) PROVE SettlingOK'
    BY <1>10, <1>0 DEF WaitError, SettlingOK
<1>11. ASSUME NEW t \in Threads, Yield(t) PROVE SettlingOK'
    BY <1>11, <1>0 DEF Yield, SettlingOK
<1>12. ASSUME NEW t \in Threads, WaiterSettled(t) PROVE SettlingOK'
    BY <1>12, <1>0 DEF WaiterSettled, SettlingOK
<1>13. ASSUME NEW t \in Threads, WaiterPending(t) PROVE SettlingOK'
    BY <1>13, <1>0 DEF WaiterPending, SettlingOK
<1>14. ASSUME NEW t \in Threads, AppendDrained(t) PROVE SettlingOK'
    BY <1>14, <1>0 DEF AppendDrained, SettlingOK
<1>15. ASSUME NEW t \in Threads, AppendWaiter(t) PROVE SettlingOK'
    BY <1>15, <1>0 DEF AppendWaiter, SettlingOK
<1>16. ASSUME NEW t \in Threads, MethodEnd(t) PROVE SettlingOK'
    BY <1>16, <1>0 DEF MethodEnd, SettlingOK
<1>17. ASSUME NEW t \in Threads, PublishState(t) PROVE SettlingOK'
    BY <1>17, <1>0 DEF PublishState, SettlingOK
<1>18. ASSUME NEW t \in Threads, DrainWaiters(t) PROVE SettlingOK'
    BY <1>18, <1>0 DEF DrainWaiters, SettlingOK
<1>19. ASSUME NEW t \in Threads, WakeDone(t) PROVE SettlingOK'
    BY <1>19, <1>0 DEF WakeDone, SettlingOK
<1>20. ASSUME NEW t \in Threads, ClaimWakeup(t) PROVE SettlingOK'
    BY <1>20, <1>0 DEF ClaimWakeup, SettlingOK
<1>21. ASSUME NEW t \in Threads, Release(t) PROVE SettlingOK'
    BY <1>21, <1>0 DEF Release, SettlingOK
<1>22. ASSUME NEW t \in Threads, Requeue(t) PROVE SettlingOK'
    BY <1>22, <1>0 DEF Requeue, EndTurn, SettlingOK
<1>23. ASSUME NEW t \in Threads, StaleWakeup(t) PROVE SettlingOK'
    BY <1>23, <1>0 DEF StaleWakeup, MailboxHasWork, SettlingOK
<1>24. ASSUME NEW t \in Threads, ReleaseStale(t) PROVE SettlingOK'
    BY <1>24, <1>0 DEF ReleaseStale, SettlingOK
<1>25. ASSUME NEW t \in Threads, StaleAgain(t) PROVE SettlingOK'
    BY <1>25, <1>0 DEF StaleAgain, SettlingOK
<1>26. ASSUME NEW t \in Threads, PeekPending(t) PROVE SettlingOK'
    BY <1>26, <1>0 DEF PeekPending, SettlingOK
<1>27. ASSUME NEW t \in Threads, PeekMailbox(t) PROVE SettlingOK'
    BY <1>27, <1>0 DEF PeekMailbox, SettlingOK
<1>28. ASSUME NEW t \in Threads, Reclaim(t) PROVE SettlingOK'
    BY <1>28, <1>0 DEF Reclaim, SettlingOK
<1>29. ASSUME NEW t \in Threads, ReclaimLost(t) PROVE SettlingOK'
    BY <1>29, <1>0 DEF ReclaimLost, SettlingOK
<1>30. ASSUME NEW t \in Threads, AnchorSkip(t) PROVE SettlingOK'
    BY <1>30, <1>0 DEF AnchorSkip, EndTurn, SettlingOK
<1>31. ASSUME NEW t \in Threads, Anchor(t) PROVE SettlingOK'
    BY <1>31, <1>0 DEF Anchor, SettlingOK
<1>32. ASSUME NEW t \in Threads, AnchorFlag(t) PROVE SettlingOK'
    BY <1>32, <1>0 DEF AnchorFlag, EndTurn, SettlingOK
<1>33. ASSUME NEW t \in Threads, UnanchorSkip(t) PROVE SettlingOK'
    BY <1>33, <1>0 DEF UnanchorSkip, EndTurn, SettlingOK
<1>34. ASSUME NEW t \in Threads, Unanchor(t) PROVE SettlingOK'
    BY <1>34, <1>0 DEF Unanchor, SettlingOK
<1>35. ASSUME NEW t \in Threads, UnanchorFlag(t) PROVE SettlingOK'
    BY <1>35, <1>0 DEF UnanchorFlag, EndTurn, SettlingOK
<1>36. ASSUME NEW t \in Threads, NEW a \in Actors, DequeueReady(t, a) PROVE SettlingOK'
    BY <1>36, <1>0 DEF DequeueReady, SettlingOK
<1>37. ASSUME NEW t \in Threads, NEW a \in Actors, WakeWaiter(t, a) PROVE SettlingOK'
    BY <1>37, <1>0 DEF WakeWaiter, SettlingOK
<1>38. ASSUME NEW t \in Threads, NEW m \in Msgs, NEW a \in Actors, ClientSend(t, m, a) PROVE SettlingOK'
    BY <1>38, <1>0 DEF ClientSend, SendTo, SettlingOK
<1>39. ASSUME NEW t \in Threads, NEW m \in Msgs, NEW a \in Actors, MethodSend(t, m, a) PROVE SettlingOK'
    BY <1>39, <1>0 DEF MethodSend, SendTo, SettlingOK
<1>40. ASSUME NEW t \in Threads, NEW f \in Msgs, BeginWait(t, f) PROVE SettlingOK'
    BY <1>40, <1>0 DEF BeginWait, SettlingOK
<1>41. CASE UNCHANGED vars
    BY <1>41, <1>0 DEF vars, SettlingOK
<1>42. ASSUME NEW t \in Threads, FlagLive(t) PROVE SettlingOK'
  <2>1. ret[t] # "drainWaiters"
    OBVIOUS
  <2>2. \A u \in Threads : pc'[u] = "drainWaiters" <=> pc[u] = "drainWaiters"
    BY <1>42, <2>1 DEF FlagLive
  <2>3. UNCHANGED <<settled, drained, waiters, msg>>
    BY <1>42 DEF FlagLive
  <2> QED
    BY <2>2, <2>3 DEF SettlingOK
<1>43. ASSUME NEW t \in Threads, AppendLive(t) PROVE SettlingOK'
  <2>1. ret[t] # "drainWaiters"
    OBVIOUS
  <2>2. \A u \in Threads : pc'[u] = "drainWaiters" <=> pc[u] = "drainWaiters"
    BY <1>43, <2>1 DEF AppendLive
  <2>3. UNCHANGED <<settled, drained, waiters, msg>>
    BY <1>43 DEF AppendLive
  <2> QED
    BY <2>2, <2>3 DEF SettlingOK
<1> QED
    BY <1>1, <1>2, <1>3, <1>4, <1>5, <1>6, <1>7, <1>8, <1>9, <1>10, <1>11, <1>12, <1>13, <1>14,
       <1>15, <1>16, <1>17, <1>18, <1>19, <1>20, <1>21, <1>22, <1>23, <1>24, <1>25, <1>26,
       <1>27, <1>28, <1>29, <1>30, <1>31, <1>32, <1>33, <1>34, <1>35, <1>36, <1>37, <1>38,
       <1>39, <1>40, <1>41, <1>42, <1>43 DEF Next, Runtime, Resume, Cursor, Park, SettleFuture, FinishDrain,
       Method, Client, Done, vars
-----------------------------------------------------------------------------
(* Suspended actors.                                                       *)

\* A suspended actor is registered with its future or on its way back.
LEMMA SuspendedStep ==
    TypeInv /\ OneOwner /\ SuspensionOK /\ SettlingOK /\ SuspendedOK /\ [Next]_vars => SuspendedOK'
<1> SUFFICES ASSUME TypeInv, OneOwner, SuspensionOK, SettlingOK, SuspendedOK, [Next]_vars PROVE SuspendedOK'
    OBVIOUS
<1> USE NoActorAssumption, NoMsgAssumption
<1> USE DEF TypeInv, TypeOK, LocalsOK, InTurn, InCall, Goto, CallSchedule, PCs, OwnPC, DrainPC,
    AfterPC, CallPC, PushPC, actorVars, liveVars, sharedVars, futureVars, turnVars, Pushing
<1>0. \A t, u \in Threads : InTurn(t) /\ InTurn(u) /\ cur[t] = cur[u] => t = u
    BY UniqueTurn
<1>1. ASSUME NEW t \in Threads, Schedule(t) PROVE SuspendedKept(t)
    BY <1>1, <1>0 DEF Schedule, ScheduleFlag, SuspensionOK, SettlingOK, SuspendedKept,
       SuspendedBase, SuspendedCovers, Will, Looks
<1>2. ASSUME NEW t \in Threads, EnqueueReady(t) PROVE SuspendedKept(t)
    BY <1>2, <1>0 DEF EnqueueReady, SuspensionOK, SettlingOK, SuspendedKept, SuspendedBase,
       SuspendedCovers, Will, Looks
<1>3. ASSUME NEW t \in Threads, FreshTurn(t) PROVE SuspendedKept(t)
    BY <1>3, <1>0 DEF FreshTurn, SuspensionOK, SettlingOK, SuspendedKept, SuspendedBase,
       SuspendedCovers, Will, Looks
<1>4. ASSUME NEW t \in Threads, DeferResume(t) PROVE SuspendedKept(t)
    BY <1>4, <1>0 DEF DeferResume, SuspensionOK, SettlingOK, SuspendedKept, SuspendedBase,
       SuspendedCovers, Will, Looks
<1>5. ASSUME NEW t \in Threads, ResumeTurn(t) PROVE SuspendedKept(t)
    BY <1>5, <1>0 DEF ResumeTurn, SuspensionOK, SettlingOK, SuspendedKept, SuspendedBase,
       SuspendedCovers, Will, Looks
<1>6. ASSUME NEW t \in Threads, NextMessage(t) PROVE SuspendedKept(t)
    BY <1>6, <1>0 DEF NextMessage, SuspensionOK, SettlingOK, SuspendedKept, SuspendedBase,
       SuspendedCovers, Will, Looks
<1>7. ASSUME NEW t \in Threads, LoadPending(t) PROVE SuspendedKept(t)
    BY <1>7, <1>0 DEF LoadPending, SuspensionOK, SettlingOK, SuspendedKept, SuspendedBase,
       SuspendedCovers, Will, Looks
<1>8. ASSUME NEW t \in Threads, TakeAll(t) PROVE SuspendedKept(t)
    BY <1>8, <1>0 DEF TakeAll, SuspensionOK, SettlingOK, SuspendedKept, SuspendedBase,
       SuspendedCovers, Will, Looks
<1>9. ASSUME NEW t \in Threads, Spill(t) PROVE SuspendedKept(t)
    BY <1>9, <1>0 DEF Spill, SuspensionOK, SettlingOK, SuspendedKept, SuspendedBase,
       SuspendedCovers, Will, Looks
<1>10. ASSUME NEW t \in Threads, WaitError(t) PROVE SuspendedKept(t)
  <2>1. frame[cur[t]] = NoMsg
    BY <1>10 DEF WaitError, SuspensionOK, SuspendedPC
  <2>2. \A a \in Actors : frame[a] # NoMsg => waitingOn'[a] = waitingOn[a]
    BY <1>10, <2>1 DEF WaitError
  <2>3. \A u \in Threads : u # t => pc'[u] = pc[u]
    BY <1>10 DEF WaitError
  <2> QED
    BY <1>10, <2>1, <2>2, <2>3 DEF WaitError, SuspendedKept, SuspendedBase, SuspendedCovers,
       Will, Looks
<1>11. ASSUME NEW t \in Threads, Yield(t) PROVE SuspendedKept(t)
    BY <1>11, <1>0 DEF Yield, SuspensionOK, SettlingOK, SuspendedKept, SuspendedBase,
       SuspendedCovers, Will, Looks
<1>12. ASSUME NEW t \in Threads, WaiterSettled(t) PROVE SuspendedKept(t)
    BY <1>12, <1>0 DEF WaiterSettled, SuspensionOK, SettlingOK, SuspendedKept, SuspendedBase,
       SuspendedCovers, Will, Looks
<1>13. ASSUME NEW t \in Threads, WaiterPending(t) PROVE SuspendedKept(t)
    BY <1>13, <1>0 DEF WaiterPending, SuspensionOK, SettlingOK, SuspendedKept, SuspendedBase,
       SuspendedCovers, Will, Looks
<1>14. ASSUME NEW t \in Threads, AppendDrained(t) PROVE SuspendedKept(t)
    BY <1>14, <1>0 DEF AppendDrained, SuspensionOK, SettlingOK, SuspendedKept, SuspendedBase,
       SuspendedCovers, Will, Looks
<1>15. ASSUME NEW t \in Threads, AppendWaiter(t) PROVE SuspendedKept(t)
    BY <1>15, <1>0 DEF AppendWaiter, SuspensionOK, SettlingOK, SuspendedKept, SuspendedBase,
       SuspendedCovers, Will, Looks
<1>16. ASSUME NEW t \in Threads, MethodEnd(t) PROVE SuspendedKept(t)
    BY <1>16, <1>0 DEF MethodEnd, SuspensionOK, SettlingOK, SuspendedKept, SuspendedBase,
       SuspendedCovers, Will, Looks
<1>17. ASSUME NEW t \in Threads, PublishState(t) PROVE SuspendedKept(t)
    BY <1>17, <1>0 DEF PublishState, SuspensionOK, SettlingOK, SuspendedKept, SuspendedBase,
       SuspendedCovers, Will, Looks
<1>18. ASSUME NEW t \in Threads, DrainWaiters(t) PROVE SuspendedKept(t)
  <2>1. msg[t] \in settled /\ msg[t] \in Msgs
    BY <1>18 DEF DrainWaiters, SettlingOK
  <2>2. SUFFICES ASSUME NEW a \in Actors, frame[a] # NoMsg
                 PROVE  \/ SuspendedBase(a)' \/ SuspendedCovers(t, a)'
                        \/ /\ ~SuspendedBase(a)
                           /\ \A u \in Threads : SuspendedCovers(u, a) => SuspendedCovers(u, a)'
    BY <1>18 DEF DrainWaiters, SuspendedKept
  <2>3. CASE waitingOn[a] = msg[t] /\ a \in waiters[msg[t]]
    BY <1>18, <2>1, <2>3 DEF DrainWaiters, SuspendedCovers, Will
  <2>4. CASE waitingOn[a] # msg[t] \/ a \notin waiters[msg[t]]
    <3>1. a \in waiters'[waitingOn[a]] <=> a \in waiters[waitingOn[a]]
      BY <1>18, <2>1, <2>2, <2>4 DEF DrainWaiters, SuspensionOK
    <3>2. SuspendedBase(a)' <=> SuspendedBase(a)
      BY <1>18, <3>1 DEF DrainWaiters, SuspendedBase
    <3>3. ~SuspendedCovers(t, a)
      BY <1>18, <2>4 DEF DrainWaiters, SuspendedCovers, Will, Looks
    <3>4. \A u \in Threads : u # t => (SuspendedCovers(u, a) => SuspendedCovers(u, a)')
      BY <1>18, <3>1 DEF DrainWaiters, SuspendedCovers, Will, Looks
    <3> QED
      BY <3>2, <3>3, <3>4
  <2> QED
    BY <2>3, <2>4
<1>19. ASSUME NEW t \in Threads, WakeDone(t) PROVE SuspendedKept(t)
    BY <1>19, <1>0 DEF WakeDone, SuspensionOK, SettlingOK, SuspendedKept, SuspendedBase,
       SuspendedCovers, Will, Looks
<1>20. ASSUME NEW t \in Threads, ClaimWakeup(t) PROVE SuspendedKept(t)
    BY <1>20, <1>0 DEF ClaimWakeup, SuspensionOK, SettlingOK, SuspendedKept, SuspendedBase,
       SuspendedCovers, Will, Looks
<1>21. ASSUME NEW t \in Threads, Release(t) PROVE SuspendedKept(t)
    BY <1>21, <1>0 DEF Release, SuspensionOK, SettlingOK, SuspendedKept, SuspendedBase,
       SuspendedCovers, Will, Looks
<1>22. ASSUME NEW t \in Threads, Requeue(t) PROVE SuspendedKept(t)
    BY <1>22, <1>0 DEF Requeue, EndTurn, SuspensionOK, SettlingOK, SuspendedKept, SuspendedBase,
       SuspendedCovers, Will, Looks
<1>23. ASSUME NEW t \in Threads, StaleWakeup(t) PROVE SuspendedKept(t)
    BY <1>23, <1>0 DEF StaleWakeup, MailboxHasWork, SuspensionOK, SettlingOK, SuspendedKept,
       SuspendedBase, SuspendedCovers, Will, Looks
<1>24. ASSUME NEW t \in Threads, ReleaseStale(t) PROVE SuspendedKept(t)
    BY <1>24, <1>0 DEF ReleaseStale, SuspensionOK, SettlingOK, SuspendedKept, SuspendedBase,
       SuspendedCovers, Will, Looks
<1>25. ASSUME NEW t \in Threads, StaleAgain(t) PROVE SuspendedKept(t)
    BY <1>25, <1>0 DEF StaleAgain, SuspensionOK, SettlingOK, SuspendedKept, SuspendedBase,
       SuspendedCovers, Will, Looks
<1>26. ASSUME NEW t \in Threads, PeekPending(t) PROVE SuspendedKept(t)
    BY <1>26, <1>0 DEF PeekPending, SuspensionOK, SettlingOK, SuspendedKept, SuspendedBase,
       SuspendedCovers, Will, Looks
<1>27. ASSUME NEW t \in Threads, PeekMailbox(t) PROVE SuspendedKept(t)
    BY <1>27, <1>0 DEF PeekMailbox, SuspensionOK, SettlingOK, SuspendedKept, SuspendedBase,
       SuspendedCovers, Will, Looks
<1>28. ASSUME NEW t \in Threads, Reclaim(t) PROVE SuspendedKept(t)
    BY <1>28, <1>0 DEF Reclaim, SuspensionOK, SettlingOK, SuspendedKept, SuspendedBase,
       SuspendedCovers, Will, Looks
<1>29. ASSUME NEW t \in Threads, ReclaimLost(t) PROVE SuspendedKept(t)
    BY <1>29, <1>0 DEF ReclaimLost, SuspensionOK, SettlingOK, SuspendedKept, SuspendedBase,
       SuspendedCovers, Will, Looks
<1>30. ASSUME NEW t \in Threads, AnchorSkip(t) PROVE SuspendedKept(t)
    BY <1>30, <1>0 DEF AnchorSkip, EndTurn, SuspensionOK, SettlingOK, SuspendedKept,
       SuspendedBase, SuspendedCovers, Will, Looks
<1>31. ASSUME NEW t \in Threads, Anchor(t) PROVE SuspendedKept(t)
    BY <1>31, <1>0 DEF Anchor, SuspensionOK, SettlingOK, SuspendedKept, SuspendedBase,
       SuspendedCovers, Will, Looks
<1>32. ASSUME NEW t \in Threads, AnchorFlag(t) PROVE SuspendedKept(t)
    BY <1>32, <1>0 DEF AnchorFlag, EndTurn, SuspensionOK, SettlingOK, SuspendedKept,
       SuspendedBase, SuspendedCovers, Will, Looks
<1>33. ASSUME NEW t \in Threads, UnanchorSkip(t) PROVE SuspendedKept(t)
    BY <1>33, <1>0 DEF UnanchorSkip, EndTurn, SuspensionOK, SettlingOK, SuspendedKept,
       SuspendedBase, SuspendedCovers, Will, Looks
<1>34. ASSUME NEW t \in Threads, Unanchor(t) PROVE SuspendedKept(t)
    BY <1>34, <1>0 DEF Unanchor, SuspensionOK, SettlingOK, SuspendedKept, SuspendedBase,
       SuspendedCovers, Will, Looks
<1>35. ASSUME NEW t \in Threads, UnanchorFlag(t) PROVE SuspendedKept(t)
    BY <1>35, <1>0 DEF UnanchorFlag, EndTurn, SuspensionOK, SettlingOK, SuspendedKept,
       SuspendedBase, SuspendedCovers, Will, Looks
<1>36. ASSUME NEW t \in Threads, NEW a \in Actors, DequeueReady(t, a) PROVE SuspendedKept(t)
    BY <1>36, <1>0 DEF DequeueReady, SuspensionOK, SettlingOK, SuspendedKept, SuspendedBase,
       SuspendedCovers, Will, Looks
<1>37. ASSUME NEW t \in Threads, NEW a \in Actors, WakeWaiter(t, a) PROVE SuspendedKept(t)
    BY <1>37, <1>0 DEF WakeWaiter, SuspensionOK, SettlingOK, SuspendedKept, SuspendedBase,
       SuspendedCovers, Will, Looks
<1>38. ASSUME NEW t \in Threads, NEW m \in Msgs, NEW a \in Actors, ClientSend(t, m, a)
      PROVE  SuspendedKept(t)
    BY <1>38, <1>0 DEF ClientSend, SendTo, SuspensionOK, SettlingOK, SuspendedKept,
       SuspendedBase, SuspendedCovers, Will, Looks
<1>39. ASSUME NEW t \in Threads, NEW m \in Msgs, NEW a \in Actors, MethodSend(t, m, a)
      PROVE  SuspendedKept(t)
    BY <1>39, <1>0 DEF MethodSend, SendTo, SuspensionOK, SettlingOK, SuspendedKept,
       SuspendedBase, SuspendedCovers, Will, Looks
<1>40. ASSUME NEW t \in Threads, NEW f \in Msgs, BeginWait(t, f) PROVE SuspendedKept(t)
  <2>1. frame[cur[t]] = NoMsg
    BY <1>40 DEF BeginWait, SuspensionOK, SuspendedPC
  <2>2. \A a \in Actors : frame[a] # NoMsg => waitingOn'[a] = waitingOn[a]
    BY <1>40, <2>1 DEF BeginWait
  <2>3. \A u \in Threads : u # t => pc'[u] = pc[u]
    BY <1>40 DEF BeginWait
  <2> QED
    BY <1>40, <2>1, <2>2, <2>3 DEF BeginWait, SuspendedKept, SuspendedBase, SuspendedCovers,
       Will, Looks
<1>41. CASE UNCHANGED vars
  <2>1. \A a \in Actors : SuspendedBase(a)' <=> SuspendedBase(a)
    BY <1>41 DEF vars, SuspendedBase
  <2>2. \A t \in Threads, a \in Actors : SuspendedCovers(t, a)' <=> SuspendedCovers(t, a)
    BY <1>41 DEF vars, SuspendedCovers, Will, Looks
  <2> QED
    BY <1>41, <2>1, <2>2 DEF vars, SuspendedOK
<1>42. ASSUME NEW t \in Threads, SuspendedKept(t) PROVE SuspendedOK'
    BY <1>42 DEF SuspendedOK, SuspendedKept
<1>43. ASSUME NEW t \in Threads, FlagLive(t) PROVE SuspendedKept(t)
    BY <1>43, <1>0 DEF FlagLive, SuspensionOK, SettlingOK, SuspendedKept, SuspendedBase,
       SuspendedCovers, Will, Looks
<1>44. ASSUME NEW t \in Threads, AppendLive(t) PROVE SuspendedKept(t)
    BY <1>44, <1>0 DEF AppendLive, SuspensionOK, SettlingOK, SuspendedKept, SuspendedBase,
       SuspendedCovers, Will, Looks
<1> QED
    BY <1>1, <1>2, <1>3, <1>4, <1>5, <1>6, <1>7, <1>8, <1>9, <1>10, <1>11, <1>12, <1>13, <1>14,
       <1>15, <1>16, <1>17, <1>18, <1>19, <1>20, <1>21, <1>22, <1>23, <1>24, <1>25, <1>26,
       <1>27, <1>28, <1>29, <1>30, <1>31, <1>32, <1>33, <1>34, <1>35, <1>36, <1>37, <1>38,
       <1>39, <1>40, <1>41, <1>42, <1>43, <1>44 DEF Next, Runtime, Resume, Cursor, Park, SettleFuture,
       FinishDrain, Method, Client, Done, vars
-----------------------------------------------------------------------------
(* Queued messages.                                                        *)

\* A message in a queue stays in sight of some thread.
LEMMA QueueStep ==
    TypeInv /\ OneOwner /\ SuspensionOK /\ QueueOK /\ [Next]_vars => QueueOK'
<1> SUFFICES ASSUME TypeInv, OneOwner, SuspensionOK, QueueOK, [Next]_vars PROVE QueueOK'
    OBVIOUS
<1> USE NoActorAssumption, NoMsgAssumption
<1> USE DEF TypeInv, TypeOK, LocalsOK, InTurn, InCall, Goto, CallSchedule, PCs, OwnPC, DrainPC,
    AfterPC, CallPC, PushPC, actorVars, liveVars, sharedVars, futureVars, turnVars, Owns, Pushing
<1>0. \A t, u \in Threads : InTurn(t) /\ InTurn(u) /\ cur[t] = cur[u] => t = u
    BY UniqueTurn
<1>1. ASSUME NEW t \in Threads, Schedule(t) PROVE QueueKept(t)
    BY <1>1, <1>0 DEF Schedule, ScheduleFlag, SuspensionOK, QueueKept, QueueBase, QueueCovers,
       Will, Looks
<1>2. ASSUME NEW t \in Threads, EnqueueReady(t) PROVE QueueKept(t)
    BY <1>2, <1>0 DEF EnqueueReady, SuspensionOK, QueueKept, QueueBase, QueueCovers, Will, Looks
<1>3. ASSUME NEW t \in Threads, FreshTurn(t) PROVE QueueKept(t)
    BY <1>3, <1>0 DEF FreshTurn, SuspensionOK, QueueKept, QueueBase, QueueCovers, Will, Looks
<1>4. ASSUME NEW t \in Threads, DeferResume(t) PROVE QueueKept(t)
    BY <1>4, <1>0 DEF DeferResume, SuspensionOK, QueueKept, QueueBase, QueueCovers, Will, Looks
<1>5. ASSUME NEW t \in Threads, ResumeTurn(t) PROVE QueueKept(t)
    BY <1>5, <1>0 DEF ResumeTurn, SuspensionOK, QueueKept, QueueBase, QueueCovers, Will, Looks
<1>6. ASSUME NEW t \in Threads, NextMessage(t) PROVE QueueKept(t)
    BY <1>6, <1>0 DEF NextMessage, SuspensionOK, QueueKept, QueueBase, QueueCovers, Will, Looks
<1>7. ASSUME NEW t \in Threads, LoadPending(t) PROVE QueueKept(t)
    BY <1>7, <1>0 DEF LoadPending, SuspensionOK, QueueKept, QueueBase, QueueCovers, Will, Looks
<1>8. ASSUME NEW t \in Threads, TakeAll(t) PROVE QueueKept(t)
    BY <1>8, <1>0 DEF TakeAll, SuspensionOK, QueueKept, QueueBase, QueueCovers, Will, Looks
<1>9. ASSUME NEW t \in Threads, Spill(t) PROVE QueueKept(t)
    BY <1>9, <1>0 DEF Spill, SuspensionOK, QueueKept, QueueBase, QueueCovers, Will, Looks
<1>10. ASSUME NEW t \in Threads, WaitError(t) PROVE QueueKept(t)
    BY <1>10, <1>0 DEF WaitError, SuspensionOK, QueueKept, QueueBase, QueueCovers, Will, Looks
<1>11. ASSUME NEW t \in Threads, Yield(t) PROVE QueueKept(t)
    BY <1>11, <1>0 DEF Yield, SuspensionOK, QueueKept, QueueBase, QueueCovers, Will, Looks
<1>12. ASSUME NEW t \in Threads, WaiterSettled(t) PROVE QueueKept(t)
    BY <1>12, <1>0 DEF WaiterSettled, SuspensionOK, QueueKept, QueueBase, QueueCovers, Will, Looks
<1>13. ASSUME NEW t \in Threads, WaiterPending(t) PROVE QueueKept(t)
    BY <1>13, <1>0 DEF WaiterPending, SuspensionOK, QueueKept, QueueBase, QueueCovers, Will, Looks
<1>14. ASSUME NEW t \in Threads, AppendDrained(t) PROVE QueueKept(t)
    BY <1>14, <1>0 DEF AppendDrained, SuspensionOK, QueueKept, QueueBase, QueueCovers, Will, Looks
<1>15. ASSUME NEW t \in Threads, AppendWaiter(t) PROVE QueueKept(t)
    BY <1>15, <1>0 DEF AppendWaiter, SuspensionOK, QueueKept, QueueBase, QueueCovers, Will, Looks
<1>16. ASSUME NEW t \in Threads, MethodEnd(t) PROVE QueueKept(t)
    BY <1>16, <1>0 DEF MethodEnd, SuspensionOK, QueueKept, QueueBase, QueueCovers, Will, Looks
<1>17. ASSUME NEW t \in Threads, PublishState(t) PROVE QueueKept(t)
    BY <1>17, <1>0 DEF PublishState, SuspensionOK, QueueKept, QueueBase, QueueCovers, Will, Looks
<1>18. ASSUME NEW t \in Threads, DrainWaiters(t) PROVE QueueKept(t)
    BY <1>18, <1>0 DEF DrainWaiters, SuspensionOK, QueueKept, QueueBase, QueueCovers, Will, Looks
<1>19. ASSUME NEW t \in Threads, WakeDone(t) PROVE QueueKept(t)
    BY <1>19, <1>0 DEF WakeDone, SuspensionOK, QueueKept, QueueBase, QueueCovers, Will, Looks
<1>20. ASSUME NEW t \in Threads, ClaimWakeup(t) PROVE QueueKept(t)
    BY <1>20, <1>0 DEF ClaimWakeup, SuspensionOK, QueueKept, QueueBase, QueueCovers, Will, Looks
<1>21. ASSUME NEW t \in Threads, Release(t) PROVE QueueKept(t)
    BY <1>21, <1>0 DEF Release, SuspensionOK, QueueKept, QueueBase, QueueCovers, Will, Looks
<1>22. ASSUME NEW t \in Threads, Requeue(t) PROVE QueueKept(t)
    BY <1>22, <1>0 DEF Requeue, EndTurn, SuspensionOK, QueueKept, QueueBase, QueueCovers, Will,
       Looks
<1>23. ASSUME NEW t \in Threads, StaleWakeup(t) PROVE QueueKept(t)
    BY <1>23, <1>0 DEF StaleWakeup, MailboxHasWork, SuspensionOK, QueueKept, QueueBase,
       QueueCovers, Will, Looks
<1>24. ASSUME NEW t \in Threads, ReleaseStale(t) PROVE QueueKept(t)
    BY <1>24, <1>0 DEF ReleaseStale, SuspensionOK, QueueKept, QueueBase, QueueCovers, Will, Looks
<1>25. ASSUME NEW t \in Threads, StaleAgain(t) PROVE QueueKept(t)
    BY <1>25, <1>0 DEF StaleAgain, SuspensionOK, QueueKept, QueueBase, QueueCovers, Will, Looks
<1>26. ASSUME NEW t \in Threads, PeekPending(t) PROVE QueueKept(t)
    BY <1>26, <1>0 DEF PeekPending, SuspensionOK, QueueKept, QueueBase, QueueCovers, Will, Looks
<1>27. ASSUME NEW t \in Threads, PeekMailbox(t) PROVE QueueKept(t)
    BY <1>27, <1>0 DEF PeekMailbox, SuspensionOK, QueueKept, QueueBase, QueueCovers, Will, Looks
<1>28. ASSUME NEW t \in Threads, Reclaim(t) PROVE QueueKept(t)
    BY <1>28, <1>0 DEF Reclaim, SuspensionOK, QueueKept, QueueBase, QueueCovers, Will, Looks
<1>29. ASSUME NEW t \in Threads, ReclaimLost(t) PROVE QueueKept(t)
    BY <1>29, <1>0 DEF ReclaimLost, SuspensionOK, QueueKept, QueueBase, QueueCovers, Will, Looks
<1>30. ASSUME NEW t \in Threads, AnchorSkip(t) PROVE QueueKept(t)
    BY <1>30, <1>0 DEF AnchorSkip, EndTurn, SuspensionOK, QueueKept, QueueBase, QueueCovers,
       Will, Looks
<1>31. ASSUME NEW t \in Threads, Anchor(t) PROVE QueueKept(t)
    BY <1>31, <1>0 DEF Anchor, SuspensionOK, QueueKept, QueueBase, QueueCovers, Will, Looks
<1>32. ASSUME NEW t \in Threads, AnchorFlag(t) PROVE QueueKept(t)
    BY <1>32, <1>0 DEF AnchorFlag, EndTurn, SuspensionOK, QueueKept, QueueBase, QueueCovers,
       Will, Looks
<1>33. ASSUME NEW t \in Threads, UnanchorSkip(t) PROVE QueueKept(t)
    BY <1>33, <1>0 DEF UnanchorSkip, EndTurn, SuspensionOK, QueueKept, QueueBase, QueueCovers,
       Will, Looks
<1>34. ASSUME NEW t \in Threads, Unanchor(t) PROVE QueueKept(t)
    BY <1>34, <1>0 DEF Unanchor, SuspensionOK, QueueKept, QueueBase, QueueCovers, Will, Looks
<1>35. ASSUME NEW t \in Threads, UnanchorFlag(t) PROVE QueueKept(t)
    BY <1>35, <1>0 DEF UnanchorFlag, EndTurn, SuspensionOK, QueueKept, QueueBase, QueueCovers,
       Will, Looks
<1>36. ASSUME NEW t \in Threads, NEW a \in Actors, DequeueReady(t, a) PROVE QueueKept(t)
    BY <1>36, <1>0 DEF DequeueReady, SuspensionOK, QueueKept, QueueBase, QueueCovers, Will, Looks
<1>37. ASSUME NEW t \in Threads, NEW a \in Actors, WakeWaiter(t, a) PROVE QueueKept(t)
    BY <1>37, <1>0 DEF WakeWaiter, SuspensionOK, QueueKept, QueueBase, QueueCovers, Will, Looks
<1>38. ASSUME NEW t \in Threads, NEW m \in Msgs, NEW a \in Actors, ClientSend(t, m, a) PROVE QueueKept(t)
    BY <1>38, <1>0 DEF ClientSend, SendTo, SuspensionOK, QueueKept, QueueBase, QueueCovers,
       Will, Looks
<1>39. ASSUME NEW t \in Threads, NEW m \in Msgs, NEW a \in Actors, MethodSend(t, m, a) PROVE QueueKept(t)
    BY <1>39, <1>0 DEF MethodSend, SendTo, SuspensionOK, QueueKept, QueueBase, QueueCovers,
       Will, Looks
<1>40. ASSUME NEW t \in Threads, NEW f \in Msgs, BeginWait(t, f) PROVE QueueKept(t)
    BY <1>40, <1>0 DEF BeginWait, SuspensionOK, QueueKept, QueueBase, QueueCovers, Will, Looks
<1>41. CASE UNCHANGED vars
  <2>1. \A a \in Actors : QueueBase(a)' <=> QueueBase(a)
    BY <1>41 DEF vars, QueueBase
  <2>2. \A t \in Threads, a \in Actors : QueueCovers(t, a)' <=> QueueCovers(t, a)
    BY <1>41 DEF vars, QueueCovers, Will, Looks
  <2> QED
    BY <1>41, <2>1, <2>2 DEF vars, QueueOK
<1>42. ASSUME NEW t \in Threads, QueueKept(t) PROVE QueueOK'
    BY <1>42 DEF QueueOK, QueueKept
<1>43. ASSUME NEW t \in Threads, FlagLive(t) PROVE QueueKept(t)
    BY <1>43, <1>0 DEF FlagLive, SuspensionOK, QueueKept, QueueBase, QueueCovers, Will, Looks
<1>44. ASSUME NEW t \in Threads, AppendLive(t) PROVE QueueKept(t)
    BY <1>44, <1>0 DEF AppendLive, SuspensionOK, QueueKept, QueueBase, QueueCovers, Will, Looks
<1> QED
    BY <1>1, <1>2, <1>3, <1>4, <1>5, <1>6, <1>7, <1>8, <1>9, <1>10, <1>11, <1>12, <1>13, <1>14,
       <1>15, <1>16, <1>17, <1>18, <1>19, <1>20, <1>21, <1>22, <1>23, <1>24, <1>25, <1>26,
       <1>27, <1>28, <1>29, <1>30, <1>31, <1>32, <1>33, <1>34, <1>35, <1>36, <1>37, <1>38,
       <1>39, <1>40, <1>41, <1>42, <1>43, <1>44 DEF Next, Runtime, Resume, Cursor, Park, SettleFuture,
       FinishDrain, Method, Client, Done, vars
-----------------------------------------------------------------------------
(* Pending messages.                                                       *)

\* A batch's tail left in __pending__ is loaded by the actor's next turn.
LEMMA PendingStep ==
    TypeInv /\ OneOwner /\ SuspensionOK /\ PendingOK /\ [Next]_vars => PendingOK'
<1> SUFFICES ASSUME TypeInv, OneOwner, SuspensionOK, PendingOK, [Next]_vars PROVE PendingOK'
    OBVIOUS
<1> USE NoActorAssumption, NoMsgAssumption
<1> USE DEF TypeInv, TypeOK, LocalsOK, InTurn, InCall, Goto, CallSchedule, PCs, OwnPC, DrainPC,
    AfterPC, CallPC, PushPC, actorVars, liveVars, sharedVars, futureVars, turnVars, Owns, Pushing
<1>0. \A t, u \in Threads : InTurn(t) /\ InTurn(u) /\ cur[t] = cur[u] => t = u
    BY UniqueTurn
<1>1. ASSUME NEW t \in Threads, Schedule(t) PROVE PendingKept(t)
    BY <1>1, <1>0 DEF Schedule, ScheduleFlag, SuspensionOK, PendingKept, PendingCovers
<1>2. ASSUME NEW t \in Threads, EnqueueReady(t) PROVE PendingKept(t)
    BY <1>2, <1>0 DEF EnqueueReady, SuspensionOK, PendingKept, PendingCovers
<1>3. ASSUME NEW t \in Threads, FreshTurn(t) PROVE PendingKept(t)
    BY <1>3, <1>0 DEF FreshTurn, SuspensionOK, PendingKept, PendingCovers
<1>4. ASSUME NEW t \in Threads, DeferResume(t) PROVE PendingKept(t)
    BY <1>4, <1>0 DEF DeferResume, SuspensionOK, PendingKept, PendingCovers
<1>5. ASSUME NEW t \in Threads, ResumeTurn(t) PROVE PendingKept(t)
  <2>1. t \notin loaded /\ Owns(t, cur[t])'
    BY <1>5 DEF ResumeTurn
  <2>2. PendingCovers(t, cur[t])'
    BY <1>5, <2>1 DEF ResumeTurn, PendingCovers
  <2>3. \A u \in Threads, a \in Actors : a # cur[t] => (PendingCovers(u, a) => PendingCovers(u, a)')
    BY <1>5 DEF ResumeTurn, PendingCovers
  <2> QED
    BY <1>5, <2>2, <2>3 DEF ResumeTurn, PendingKept
<1>6. ASSUME NEW t \in Threads, NextMessage(t) PROVE PendingKept(t)
    BY <1>6, <1>0 DEF NextMessage, SuspensionOK, PendingKept, PendingCovers
<1>7. ASSUME NEW t \in Threads, LoadPending(t) PROVE PendingKept(t)
    BY <1>7, <1>0 DEF LoadPending, SuspensionOK, PendingKept, PendingCovers
<1>8. ASSUME NEW t \in Threads, TakeAll(t) PROVE PendingKept(t)
    BY <1>8, <1>0 DEF TakeAll, SuspensionOK, PendingKept, PendingCovers
<1>9. ASSUME NEW t \in Threads, Spill(t) PROVE PendingKept(t)
    BY <1>9, <1>0 DEF Spill, SuspensionOK, PendingKept, PendingCovers
<1>10. ASSUME NEW t \in Threads, WaitError(t) PROVE PendingKept(t)
    BY <1>10, <1>0 DEF WaitError, SuspensionOK, PendingKept, PendingCovers
<1>11. ASSUME NEW t \in Threads, Yield(t) PROVE PendingKept(t)
    BY <1>11, <1>0 DEF Yield, SuspensionOK, PendingKept, PendingCovers
<1>12. ASSUME NEW t \in Threads, WaiterSettled(t) PROVE PendingKept(t)
    BY <1>12, <1>0 DEF WaiterSettled, SuspensionOK, PendingKept, PendingCovers
<1>13. ASSUME NEW t \in Threads, WaiterPending(t) PROVE PendingKept(t)
    BY <1>13, <1>0 DEF WaiterPending, SuspensionOK, PendingKept, PendingCovers
<1>14. ASSUME NEW t \in Threads, AppendDrained(t) PROVE PendingKept(t)
    BY <1>14, <1>0 DEF AppendDrained, SuspensionOK, PendingKept, PendingCovers
<1>15. ASSUME NEW t \in Threads, AppendWaiter(t) PROVE PendingKept(t)
    BY <1>15, <1>0 DEF AppendWaiter, SuspensionOK, PendingKept, PendingCovers
<1>16. ASSUME NEW t \in Threads, MethodEnd(t) PROVE PendingKept(t)
    BY <1>16, <1>0 DEF MethodEnd, SuspensionOK, PendingKept, PendingCovers
<1>17. ASSUME NEW t \in Threads, PublishState(t) PROVE PendingKept(t)
    BY <1>17, <1>0 DEF PublishState, SuspensionOK, PendingKept, PendingCovers
<1>18. ASSUME NEW t \in Threads, DrainWaiters(t) PROVE PendingKept(t)
    BY <1>18, <1>0 DEF DrainWaiters, SuspensionOK, PendingKept, PendingCovers
<1>19. ASSUME NEW t \in Threads, WakeDone(t) PROVE PendingKept(t)
    BY <1>19, <1>0 DEF WakeDone, SuspensionOK, PendingKept, PendingCovers
<1>20. ASSUME NEW t \in Threads, ClaimWakeup(t) PROVE PendingKept(t)
    BY <1>20, <1>0 DEF ClaimWakeup, SuspensionOK, PendingKept, PendingCovers
<1>21. ASSUME NEW t \in Threads, Release(t) PROVE PendingKept(t)
    BY <1>21, <1>0 DEF Release, SuspensionOK, PendingKept, PendingCovers
<1>22. ASSUME NEW t \in Threads, Requeue(t) PROVE PendingKept(t)
    BY <1>22, <1>0 DEF Requeue, EndTurn, SuspensionOK, PendingKept, PendingCovers
<1>23. ASSUME NEW t \in Threads, StaleWakeup(t) PROVE PendingKept(t)
    BY <1>23, <1>0 DEF StaleWakeup, MailboxHasWork, SuspensionOK, PendingKept, PendingCovers
<1>24. ASSUME NEW t \in Threads, ReleaseStale(t) PROVE PendingKept(t)
    BY <1>24, <1>0 DEF ReleaseStale, SuspensionOK, PendingKept, PendingCovers
<1>25. ASSUME NEW t \in Threads, StaleAgain(t) PROVE PendingKept(t)
    BY <1>25, <1>0 DEF StaleAgain, SuspensionOK, PendingKept, PendingCovers
<1>26. ASSUME NEW t \in Threads, PeekPending(t) PROVE PendingKept(t)
    BY <1>26, <1>0 DEF PeekPending, SuspensionOK, PendingKept, PendingCovers
<1>27. ASSUME NEW t \in Threads, PeekMailbox(t) PROVE PendingKept(t)
    BY <1>27, <1>0 DEF PeekMailbox, SuspensionOK, PendingKept, PendingCovers
<1>28. ASSUME NEW t \in Threads, Reclaim(t) PROVE PendingKept(t)
    BY <1>28, <1>0 DEF Reclaim, SuspensionOK, PendingKept, PendingCovers
<1>29. ASSUME NEW t \in Threads, ReclaimLost(t) PROVE PendingKept(t)
    BY <1>29, <1>0 DEF ReclaimLost, SuspensionOK, PendingKept, PendingCovers
<1>30. ASSUME NEW t \in Threads, AnchorSkip(t) PROVE PendingKept(t)
    BY <1>30, <1>0 DEF AnchorSkip, EndTurn, SuspensionOK, PendingKept, PendingCovers
<1>31. ASSUME NEW t \in Threads, Anchor(t) PROVE PendingKept(t)
    BY <1>31, <1>0 DEF Anchor, SuspensionOK, PendingKept, PendingCovers
<1>32. ASSUME NEW t \in Threads, AnchorFlag(t) PROVE PendingKept(t)
    BY <1>32, <1>0 DEF AnchorFlag, EndTurn, SuspensionOK, PendingKept, PendingCovers
<1>33. ASSUME NEW t \in Threads, UnanchorSkip(t) PROVE PendingKept(t)
    BY <1>33, <1>0 DEF UnanchorSkip, EndTurn, SuspensionOK, PendingKept, PendingCovers
<1>34. ASSUME NEW t \in Threads, Unanchor(t) PROVE PendingKept(t)
    BY <1>34, <1>0 DEF Unanchor, SuspensionOK, PendingKept, PendingCovers
<1>35. ASSUME NEW t \in Threads, UnanchorFlag(t) PROVE PendingKept(t)
    BY <1>35, <1>0 DEF UnanchorFlag, EndTurn, SuspensionOK, PendingKept, PendingCovers
<1>36. ASSUME NEW t \in Threads, NEW a \in Actors, DequeueReady(t, a) PROVE PendingKept(t)
    BY <1>36, <1>0 DEF DequeueReady, SuspensionOK, PendingKept, PendingCovers
<1>37. ASSUME NEW t \in Threads, NEW a \in Actors, WakeWaiter(t, a) PROVE PendingKept(t)
    BY <1>37, <1>0 DEF WakeWaiter, SuspensionOK, PendingKept, PendingCovers
<1>38. ASSUME NEW t \in Threads, NEW m \in Msgs, NEW a \in Actors, ClientSend(t, m, a) PROVE PendingKept(t)
    BY <1>38, <1>0 DEF ClientSend, SendTo, SuspensionOK, PendingKept, PendingCovers
<1>39. ASSUME NEW t \in Threads, NEW m \in Msgs, NEW a \in Actors, MethodSend(t, m, a) PROVE PendingKept(t)
    BY <1>39, <1>0 DEF MethodSend, SendTo, SuspensionOK, PendingKept, PendingCovers
<1>40. ASSUME NEW t \in Threads, NEW f \in Msgs, BeginWait(t, f) PROVE PendingKept(t)
    BY <1>40, <1>0 DEF BeginWait, SuspensionOK, PendingKept, PendingCovers
<1>41. CASE UNCHANGED vars
  <2>1. \A t \in Threads, a \in Actors : PendingCovers(t, a)' <=> PendingCovers(t, a)
    BY <1>41 DEF vars, PendingCovers
  <2> QED
    BY <1>41, <2>1 DEF vars, PendingOK
<1>42. ASSUME NEW t \in Threads, PendingKept(t) PROVE PendingOK'
    BY <1>42 DEF PendingOK, PendingKept
<1>43. ASSUME NEW t \in Threads, FlagLive(t) PROVE PendingKept(t)
    BY <1>43, <1>0 DEF FlagLive, SuspensionOK, PendingKept, PendingCovers
<1>44. ASSUME NEW t \in Threads, AppendLive(t) PROVE PendingKept(t)
    BY <1>44, <1>0 DEF AppendLive, SuspensionOK, PendingKept, PendingCovers
<1> QED
    BY <1>1, <1>2, <1>3, <1>4, <1>5, <1>6, <1>7, <1>8, <1>9, <1>10, <1>11, <1>12, <1>13, <1>14,
       <1>15, <1>16, <1>17, <1>18, <1>19, <1>20, <1>21, <1>22, <1>23, <1>24, <1>25, <1>26,
       <1>27, <1>28, <1>29, <1>30, <1>31, <1>32, <1>33, <1>34, <1>35, <1>36, <1>37, <1>38,
       <1>39, <1>40, <1>41, <1>42, <1>43, <1>44 DEF Next, Runtime, Resume, Cursor, Park, SettleFuture,
       FinishDrain, Method, Client, Done, vars
-----------------------------------------------------------------------------
(* Roots, and the tail of a batch.                                         *)

\* Every step keeps the queued, running and suspended actors in __live_actors__.
LEMMA RootedStep == TypeInv /\ OneOwner /\ RootedOK /\ [Next]_vars => RootedOK'
<1> SUFFICES ASSUME TypeInv, OneOwner, RootedOK, [Next]_vars PROVE RootedOK'
    OBVIOUS
<1> USE NoActorAssumption, NoMsgAssumption
<1> USE DEF TypeInv, TypeOK, LocalsOK, InTurn, InCall, Goto, CallSchedule, PCs, OwnPC, DrainPC,
            AfterPC, CallPC, PushPC, actorVars, liveVars, sharedVars, futureVars, turnVars
<1>1. ASSUME NEW t \in Threads, Schedule(t)
      PROVE  RootedOK'
    BY <1>1 DEF Schedule, ScheduleFlag, RootedOK
<1>2. ASSUME NEW t \in Threads, EnqueueReady(t)
      PROVE  RootedOK'
  <2>1. tgt[t] \in Actors /\ tgt[t] \in flagged /\ pc[t] = "push" /\ Pushing(t, tgt[t])
    BY <1>2 DEF EnqueueReady, Pushing
  <2>2. ASSUME tgt[t] \notin live PROVE FALSE
    <3>1. PICK u \in Threads : pc[u] = "appendLive" /\ tgt[u] = tgt[t]
      BY <2>1, <2>2 DEF RootedOK
    <3>2. Pushing(u, tgt[t])
      BY <3>1 DEF Pushing
    <3> QED
      BY <2>1, <3>1, <3>2 DEF OneOwner, Holds
  <2> QED
    BY <1>2, <2>1, <2>2 DEF EnqueueReady, RootedOK
<1>3. ASSUME NEW t \in Threads, FreshTurn(t)
      PROVE  RootedOK'
    BY <1>3 DEF FreshTurn, RootedOK
<1>4. ASSUME NEW t \in Threads, DeferResume(t)
      PROVE  RootedOK'
    BY <1>4 DEF DeferResume, RootedOK
<1>5. ASSUME NEW t \in Threads, ResumeTurn(t)
      PROVE  RootedOK'
    BY <1>5 DEF ResumeTurn, RootedOK
<1>6. ASSUME NEW t \in Threads, NextMessage(t)
      PROVE  RootedOK'
    BY <1>6 DEF NextMessage, RootedOK
<1>7. ASSUME NEW t \in Threads, LoadPending(t)
      PROVE  RootedOK'
    BY <1>7 DEF LoadPending, RootedOK
<1>8. ASSUME NEW t \in Threads, TakeAll(t)
      PROVE  RootedOK'
    BY <1>8 DEF TakeAll, RootedOK
<1>9. ASSUME NEW t \in Threads, Spill(t)
      PROVE  RootedOK'
    BY <1>9 DEF Spill, RootedOK
<1>10. ASSUME NEW t \in Threads, WaitError(t)
      PROVE  RootedOK'
    BY <1>10 DEF WaitError, RootedOK
<1>11. ASSUME NEW t \in Threads, Yield(t)
      PROVE  RootedOK'
    BY <1>11 DEF Yield, RootedOK
<1>12. ASSUME NEW t \in Threads, WaiterSettled(t)
      PROVE  RootedOK'
    BY <1>12 DEF WaiterSettled, RootedOK
<1>13. ASSUME NEW t \in Threads, WaiterPending(t)
      PROVE  RootedOK'
    BY <1>13 DEF WaiterPending, RootedOK
<1>14. ASSUME NEW t \in Threads, AppendDrained(t)
      PROVE  RootedOK'
    BY <1>14 DEF AppendDrained, RootedOK
<1>15. ASSUME NEW t \in Threads, AppendWaiter(t)
      PROVE  RootedOK'
    BY <1>15 DEF AppendWaiter, RootedOK
<1>16. ASSUME NEW t \in Threads, MethodEnd(t)
      PROVE  RootedOK'
    BY <1>16 DEF MethodEnd, RootedOK
<1>17. ASSUME NEW t \in Threads, PublishState(t)
      PROVE  RootedOK'
    BY <1>17 DEF PublishState, RootedOK
<1>18. ASSUME NEW t \in Threads, DrainWaiters(t)
      PROVE  RootedOK'
    BY <1>18 DEF DrainWaiters, RootedOK
<1>19. ASSUME NEW t \in Threads, WakeDone(t)
      PROVE  RootedOK'
    BY <1>19 DEF WakeDone, RootedOK
<1>20. ASSUME NEW t \in Threads, ClaimWakeup(t)
      PROVE  RootedOK'
    BY <1>20 DEF ClaimWakeup, RootedOK
<1>21. ASSUME NEW t \in Threads, Release(t)
      PROVE  RootedOK'
    BY <1>21 DEF Release, RootedOK
<1>22. ASSUME NEW t \in Threads, Requeue(t)
      PROVE  RootedOK'
    BY <1>22 DEF Requeue, EndTurn, RootedOK
<1>23. ASSUME NEW t \in Threads, StaleWakeup(t)
      PROVE  RootedOK'
    BY <1>23 DEF StaleWakeup, MailboxHasWork, RootedOK
<1>24. ASSUME NEW t \in Threads, ReleaseStale(t)
      PROVE  RootedOK'
    BY <1>24 DEF ReleaseStale, RootedOK
<1>25. ASSUME NEW t \in Threads, StaleAgain(t)
      PROVE  RootedOK'
    BY <1>25 DEF StaleAgain, RootedOK
<1>26. ASSUME NEW t \in Threads, PeekPending(t)
      PROVE  RootedOK'
    BY <1>26 DEF PeekPending, RootedOK
<1>27. ASSUME NEW t \in Threads, PeekMailbox(t)
      PROVE  RootedOK'
    BY <1>27 DEF PeekMailbox, RootedOK
<1>28. ASSUME NEW t \in Threads, Reclaim(t)
      PROVE  RootedOK'
    BY <1>28 DEF Reclaim, RootedOK
<1>29. ASSUME NEW t \in Threads, ReclaimLost(t)
      PROVE  RootedOK'
    BY <1>29 DEF ReclaimLost, RootedOK
<1>30. ASSUME NEW t \in Threads, AnchorSkip(t)
      PROVE  RootedOK'
    BY <1>30 DEF AnchorSkip, EndTurn, RootedOK
<1>31. ASSUME NEW t \in Threads, Anchor(t)
      PROVE  RootedOK'
    BY <1>31 DEF Anchor, RootedOK
<1>32. ASSUME NEW t \in Threads, AnchorFlag(t)
      PROVE  RootedOK'
    BY <1>32 DEF AnchorFlag, EndTurn, RootedOK
<1>33. ASSUME NEW t \in Threads, UnanchorSkip(t)
      PROVE  RootedOK'
    BY <1>33 DEF UnanchorSkip, EndTurn, RootedOK
<1>34. ASSUME NEW t \in Threads, Unanchor(t)
      PROVE  RootedOK'
    BY <1>34 DEF Unanchor, RootedOK
<1>35. ASSUME NEW t \in Threads, UnanchorFlag(t)
      PROVE  RootedOK'
    BY <1>35 DEF UnanchorFlag, EndTurn, RootedOK
<1>36. ASSUME NEW t \in Threads, NEW a \in Actors, DequeueReady(t, a)
      PROVE  RootedOK'
    BY <1>36 DEF DequeueReady, RootedOK
<1>37. ASSUME NEW t \in Threads, NEW a \in Actors, WakeWaiter(t, a)
      PROVE  RootedOK'
    BY <1>37 DEF WakeWaiter, RootedOK
<1>38. ASSUME NEW t \in Threads, NEW m \in Msgs, NEW a \in Actors,
             ClientSend(t, m, a)
      PROVE  RootedOK'
    BY <1>38 DEF ClientSend, SendTo, RootedOK
<1>39. ASSUME NEW t \in Threads, NEW m \in Msgs, NEW a \in Actors,
             MethodSend(t, m, a)
      PROVE  RootedOK'
    BY <1>39 DEF MethodSend, SendTo, RootedOK
<1>40. ASSUME NEW t \in Threads, NEW f \in Msgs, BeginWait(t, f)
      PROVE  RootedOK'
    BY <1>40 DEF BeginWait, RootedOK
<1>41. CASE UNCHANGED vars
    BY <1>41 DEF vars, RootedOK
<1>42. ASSUME NEW t \in Threads, FlagLive(t)
      PROVE  RootedOK'
    BY <1>42 DEF FlagLive, RootedOK
<1>43. ASSUME NEW t \in Threads, AppendLive(t)
      PROVE  RootedOK'
    BY <1>43 DEF AppendLive, RootedOK
<1> QED
    BY <1>1, <1>2, <1>3, <1>4, <1>5, <1>6, <1>7, <1>8, <1>9, <1>10, <1>11, <1>12, <1>13,
       <1>14, <1>15, <1>16, <1>17, <1>18, <1>19, <1>20, <1>21, <1>22, <1>23, <1>24, <1>25,
       <1>26, <1>27, <1>28, <1>29, <1>30, <1>31, <1>32, <1>33, <1>34, <1>35, <1>36, <1>37,
       <1>38, <1>39, <1>40, <1>41, <1>42, <1>43
    DEF Next, Runtime, Resume, Cursor, Park, SettleFuture, FinishDrain, Method, Client, Done, vars

\* Every step keeps what a turn has found in __pending__ true.
LEMMA LoadedStep == TypeInv /\ OneOwner /\ LoadedOK /\ [Next]_vars => LoadedOK'
<1> SUFFICES ASSUME TypeInv, OneOwner, LoadedOK, [Next]_vars PROVE LoadedOK'
    OBVIOUS
<1> USE NoActorAssumption, NoMsgAssumption
<1> USE DEF TypeInv, TypeOK, LocalsOK, InTurn, InCall, Goto, CallSchedule, PCs, OwnPC, DrainPC,
            AfterPC, CallPC, PushPC, actorVars, liveVars, sharedVars, futureVars, turnVars
<1>0. \A t, u \in Threads : InTurn(t) /\ InTurn(u) /\ cur[t] = cur[u] => t = u
    BY UniqueTurn
<1>1. ASSUME NEW t \in Threads, Schedule(t)
      PROVE  LoadedOK'
    BY <1>1 DEF Schedule, ScheduleFlag, LoadedOK
<1>2. ASSUME NEW t \in Threads, EnqueueReady(t)
      PROVE  LoadedOK'
    BY <1>2 DEF EnqueueReady, LoadedOK
<1>3. ASSUME NEW t \in Threads, FreshTurn(t)
      PROVE  LoadedOK'
    BY <1>3 DEF FreshTurn, LoadedOK
<1>4. ASSUME NEW t \in Threads, DeferResume(t)
      PROVE  LoadedOK'
    BY <1>4 DEF DeferResume, LoadedOK
<1>5. ASSUME NEW t \in Threads, ResumeTurn(t)
      PROVE  LoadedOK'
    BY <1>5 DEF ResumeTurn, LoadedOK
<1>6. ASSUME NEW t \in Threads, NextMessage(t)
      PROVE  LoadedOK'
    BY <1>6 DEF NextMessage, LoadedOK
<1>7. ASSUME NEW t \in Threads, LoadPending(t)
      PROVE  LoadedOK'
    BY <1>7 DEF LoadPending, LoadedOK
<1>8. ASSUME NEW t \in Threads, TakeAll(t)
      PROVE  LoadedOK'
    BY <1>8 DEF TakeAll, LoadedOK
<1>9. ASSUME NEW t \in Threads, Spill(t)
      PROVE  LoadedOK'
    BY <1>9, <1>0 DEF Spill, LoadedOK
<1>10. ASSUME NEW t \in Threads, WaitError(t)
      PROVE  LoadedOK'
    BY <1>10 DEF WaitError, LoadedOK
<1>11. ASSUME NEW t \in Threads, Yield(t)
      PROVE  LoadedOK'
    BY <1>11 DEF Yield, LoadedOK
<1>12. ASSUME NEW t \in Threads, WaiterSettled(t)
      PROVE  LoadedOK'
    BY <1>12 DEF WaiterSettled, LoadedOK
<1>13. ASSUME NEW t \in Threads, WaiterPending(t)
      PROVE  LoadedOK'
    BY <1>13 DEF WaiterPending, LoadedOK
<1>14. ASSUME NEW t \in Threads, AppendDrained(t)
      PROVE  LoadedOK'
    BY <1>14 DEF AppendDrained, LoadedOK
<1>15. ASSUME NEW t \in Threads, AppendWaiter(t)
      PROVE  LoadedOK'
    BY <1>15 DEF AppendWaiter, LoadedOK
<1>16. ASSUME NEW t \in Threads, MethodEnd(t)
      PROVE  LoadedOK'
    BY <1>16 DEF MethodEnd, LoadedOK
<1>17. ASSUME NEW t \in Threads, PublishState(t)
      PROVE  LoadedOK'
    BY <1>17 DEF PublishState, LoadedOK
<1>18. ASSUME NEW t \in Threads, DrainWaiters(t)
      PROVE  LoadedOK'
    BY <1>18 DEF DrainWaiters, LoadedOK
<1>19. ASSUME NEW t \in Threads, WakeDone(t)
      PROVE  LoadedOK'
    BY <1>19 DEF WakeDone, LoadedOK
<1>20. ASSUME NEW t \in Threads, ClaimWakeup(t)
      PROVE  LoadedOK'
    BY <1>20 DEF ClaimWakeup, LoadedOK
<1>21. ASSUME NEW t \in Threads, Release(t)
      PROVE  LoadedOK'
    BY <1>21 DEF Release, LoadedOK
<1>22. ASSUME NEW t \in Threads, Requeue(t)
      PROVE  LoadedOK'
    BY <1>22 DEF Requeue, EndTurn, LoadedOK
<1>23. ASSUME NEW t \in Threads, StaleWakeup(t)
      PROVE  LoadedOK'
    BY <1>23 DEF StaleWakeup, MailboxHasWork, LoadedOK
<1>24. ASSUME NEW t \in Threads, ReleaseStale(t)
      PROVE  LoadedOK'
    BY <1>24 DEF ReleaseStale, LoadedOK
<1>25. ASSUME NEW t \in Threads, StaleAgain(t)
      PROVE  LoadedOK'
    BY <1>25 DEF StaleAgain, LoadedOK
<1>26. ASSUME NEW t \in Threads, PeekPending(t)
      PROVE  LoadedOK'
    BY <1>26 DEF PeekPending, LoadedOK
<1>27. ASSUME NEW t \in Threads, PeekMailbox(t)
      PROVE  LoadedOK'
    BY <1>27 DEF PeekMailbox, LoadedOK
<1>28. ASSUME NEW t \in Threads, Reclaim(t)
      PROVE  LoadedOK'
    BY <1>28 DEF Reclaim, LoadedOK
<1>29. ASSUME NEW t \in Threads, ReclaimLost(t)
      PROVE  LoadedOK'
    BY <1>29 DEF ReclaimLost, LoadedOK
<1>30. ASSUME NEW t \in Threads, AnchorSkip(t)
      PROVE  LoadedOK'
    BY <1>30 DEF AnchorSkip, EndTurn, LoadedOK
<1>31. ASSUME NEW t \in Threads, Anchor(t)
      PROVE  LoadedOK'
    BY <1>31 DEF Anchor, LoadedOK
<1>32. ASSUME NEW t \in Threads, AnchorFlag(t)
      PROVE  LoadedOK'
    BY <1>32 DEF AnchorFlag, EndTurn, LoadedOK
<1>33. ASSUME NEW t \in Threads, UnanchorSkip(t)
      PROVE  LoadedOK'
    BY <1>33 DEF UnanchorSkip, EndTurn, LoadedOK
<1>34. ASSUME NEW t \in Threads, Unanchor(t)
      PROVE  LoadedOK'
    BY <1>34 DEF Unanchor, LoadedOK
<1>35. ASSUME NEW t \in Threads, UnanchorFlag(t)
      PROVE  LoadedOK'
    BY <1>35 DEF UnanchorFlag, EndTurn, LoadedOK
<1>36. ASSUME NEW t \in Threads, NEW a \in Actors, DequeueReady(t, a)
      PROVE  LoadedOK'
    BY <1>36 DEF DequeueReady, LoadedOK
<1>37. ASSUME NEW t \in Threads, NEW a \in Actors, WakeWaiter(t, a)
      PROVE  LoadedOK'
    BY <1>37 DEF WakeWaiter, LoadedOK
<1>38. ASSUME NEW t \in Threads, NEW m \in Msgs, NEW a \in Actors,
             ClientSend(t, m, a)
      PROVE  LoadedOK'
    BY <1>38 DEF ClientSend, SendTo, LoadedOK
<1>39. ASSUME NEW t \in Threads, NEW m \in Msgs, NEW a \in Actors,
             MethodSend(t, m, a)
      PROVE  LoadedOK'
    BY <1>39 DEF MethodSend, SendTo, LoadedOK
<1>40. ASSUME NEW t \in Threads, NEW f \in Msgs, BeginWait(t, f)
      PROVE  LoadedOK'
    BY <1>40 DEF BeginWait, LoadedOK
<1>41. CASE UNCHANGED vars
    BY <1>41 DEF vars, LoadedOK
<1>42. ASSUME NEW t \in Threads, FlagLive(t)
      PROVE  LoadedOK'
    BY <1>42 DEF FlagLive, LoadedOK
<1>43. ASSUME NEW t \in Threads, AppendLive(t)
      PROVE  LoadedOK'
    BY <1>43 DEF AppendLive, LoadedOK
<1> QED
    BY <1>1, <1>2, <1>3, <1>4, <1>5, <1>6, <1>7, <1>8, <1>9, <1>10, <1>11, <1>12, <1>13,
       <1>14, <1>15, <1>16, <1>17, <1>18, <1>19, <1>20, <1>21, <1>22, <1>23, <1>24, <1>25,
       <1>26, <1>27, <1>28, <1>29, <1>30, <1>31, <1>32, <1>33, <1>34, <1>35, <1>36, <1>37,
       <1>38, <1>39, <1>40, <1>41, <1>42, <1>43
    DEF Next, Runtime, Resume, Cursor, Park, SettleFuture, FinishDrain, Method, Client, Done, vars
-----------------------------------------------------------------------------
(* Theorems.                                                               *)

\* The inductive invariant holds when the runtime starts.
LEMMA InitInv == Init => TypeInv /\ IInv
<1> SUFFICES ASSUME Init PROVE TypeInv /\ IInv
    OBVIOUS
<1> USE NoActorAssumption, NoMsgAssumption DEF Init
<1>1. TypeInv
    BY DEF TypeInv, TypeOK, LocalsOK, InTurn, InCall, PCs, OwnPC, DrainPC, AfterPC, CallPC, PushPC
<1>2. OneOwner
    BY DEF OneOwner, Holds, Owns, Pushing, OwnPC, DrainPC, CallPC, PushPC
<1>3. SuspensionOK /\ SettlingOK
    BY DEF SuspensionOK, SettlingOK, InTurn, InCall, OwnPC, DrainPC, AfterPC, CallPC, PushPC
<1>4. SuspendedOK /\ QueueOK /\ PendingOK
    BY DEF SuspendedOK, QueueOK, PendingOK
<1>5. RootedOK /\ LoadedOK
    BY DEF RootedOK, LoadedOK
<1> QED
    BY <1>1, <1>2, <1>3, <1>4, <1>5 DEF IInv

\* Every step of every thread keeps the inductive invariant.
LEMMA StepInv == TypeInv /\ IInv /\ [Next]_vars => TypeInv' /\ IInv'
BY TypeStep, OwnerStep, SuspensionStep, SettlingStep, SuspendedStep, QueueStep, PendingStep,
   RootedStep, LoadedStep DEF IInv

\* The inductive invariant holds in every reachable state.
THEOREM Invariance == Spec => [](TypeInv /\ IInv)
BY InitInv, StepInv, PTL DEF Spec

\* Every variable keeps its type, whatever the number of actors and threads.
THEOREM TypeCorrect == Spec => []TypeOK
<1>1. TypeInv => TypeOK
    BY DEF TypeInv
<1> QED
    BY <1>1, Invariance, PTL

\* The three-state __sched__ flag gives every actor at most one owner: finishDrain
\* and schedule never queue an actor twice or let two workers drain it at once.
THEOREM Ownership == Spec => []OneOwner
<1>1. IInv => OneOwner
    BY DEF IInv
<1> QED
    BY <1>1, Invariance, PTL

\* Nobody holds an actor whose flag is 0.
LEMMA IdleIsFree ==
    ASSUME TypeInv, IInv, NEW a \in Actors, sched[a] = 0, NEW t \in Threads
    PROVE  ready[a] = 0 /\ ~Owns(t, a) /\ ~Looks(t, a)
<1>1. ready[a] = 0 /\ ~Owns(t, a) /\ ~Pushing(t, a)
    BY DEF IInv, OneOwner, Holds, TypeInv, TypeOK
<1>2. ~(cur[t] = a /\ pc[t] \in {"entry", "claimed"})
    BY <1>1 DEF Owns, OwnPC, DrainPC
<1> QED
    BY <1>1, <1>2 DEF Looks

\* An actor with flag 0 and work left has, by the invariant, a thread that is about to
\* schedule it.
LEMMA NoLostWakeupFromInv == TypeInv /\ IInv => NoLostWakeup
<1> SUFFICES ASSUME TypeInv, IInv, NEW a \in Actors, sched[a] = 0
             PROVE  /\ frame[a] = NoMsg /\ MailboxHasWork(a) => WillSchedule(a)
                    /\ frame[a] # NoMsg /\ waitingOn[a] \in settled => WillSchedule(a)
    BY DEF NoLostWakeup
<1>1. ASSUME NEW t \in Threads, Will(t, a) PROVE WillSchedule(a)
    BY <1>1 DEF Will, WillSchedule
<1>2. ready[a] = 0 /\ \A t \in Threads : ~Owns(t, a) /\ ~Looks(t, a)
    <2>1. ready[a] = 0
        BY DEF IInv, OneOwner, TypeInv, TypeOK
    <2> QED
        BY <2>1, IdleIsFree
<1>3. ASSUME frame[a] = NoMsg, mailbox[a] # <<>> PROVE WillSchedule(a)
    <2>1. PICK t \in Threads : QueueCovers(t, a)
        BY <1>2, <1>3 DEF IInv, QueueOK, QueueBase
    <2> QED
        BY <1>1, <1>2, <2>1 DEF QueueCovers
<1>4. ASSUME frame[a] = NoMsg PROVE pending[a] = <<>>
    BY <1>2, <1>4 DEF IInv, PendingOK, PendingCovers
<1>5. ASSUME frame[a] # NoMsg, waitingOn[a] \in settled PROVE WillSchedule(a)
    <2>1. CASE SuspendedBase(a)
        <3>1. a \in waiters[waitingOn[a]]
            BY <1>2, <2>1 DEF SuspendedBase
        <3>2. waitingOn[a] \notin drained
            BY <3>1 DEF IInv, SettlingOK
        <3>3. PICK t \in Threads : pc[t] = "drainWaiters" /\ msg[t] = waitingOn[a]
            BY <1>5, <3>2 DEF IInv, SettlingOK
        <3> QED
            BY <1>1, <3>1, <3>3 DEF Will
    <2>2. CASE ~SuspendedBase(a)
        <3>1. PICK t \in Threads : SuspendedCovers(t, a)
            BY <1>5, <2>2 DEF IInv, SuspendedOK
        <3>2. ~(cur[t] = a /\ pc[t] \in {"check", "append"})
            BY <1>2 DEF Owns, OwnPC, DrainPC
        <3> QED
            BY <1>1, <1>2, <3>1, <3>2 DEF SuspendedCovers
    <2> QED
        BY <2>1, <2>2
<1> QED
    BY <1>3, <1>4, <1>5 DEF MailboxHasWork

\* No wakeup is lost: an actor whose flag is 0 has nothing to do, unless some
\* thread is already on its way to schedule it.
THEOREM WakeupsAreKept == Spec => []NoLostWakeup
BY Invariance, NoLostWakeupFromInv, PTL

\* The settle of the awaited future finds every suspended actor.
THEOREM ParkedActorsAreFound == Spec => []ParkedIsRegistered
<1>1. IInv => ParkedIsRegistered
    BY DEF IInv, ParkedIsRegistered, SuspendedOK, SuspendedBase, SuspendedCovers
<1> QED
    BY <1>1, Invariance, PTL

\* __live_actors__, which the collector traces, holds every actor on the ready stacks, which
\* it does not trace, and every suspended one: nobody pushes an actor while the thread that
\* has set its __live__ is still on the way to the list.
THEOREM QueuedActorsAreRooted == Spec => []QueuedIsRooted
<1>1. TypeInv /\ IInv => QueuedIsRooted
    BY DEF IInv, RootedOK, QueuedIsRooted
<1> QED
    BY <1>1, Invariance, PTL
-----------------------------------------------------------------------------
(* Refinement.                                                             *)

\* What the refinement mapping says of an actor whose turn is run by thread t.
TurnInbox(t, a) == (IF t \in loaded THEN batch[t] ELSE pending[a]) \o mailbox[a]
TurnMsg(t, a) == IF frame[a] # NoMsg THEN frame[a]
                 ELSE IF pc[t] = "drainWaiters" THEN NoMsg ELSE msg[t]

\* An actor has one owner.
LEMMA OwnerIsUnique ==
    ASSUME OneOwner, NEW a \in Actors, NEW t \in Threads, Owns(t, a)
    PROVE  \A u \in Threads : Owns(u, a) => u = t
BY DEF OneOwner, Holds

\* The mapping's choice of an owner is therefore no choice.
LEMMA OwnedBar ==
    ASSUME OneOwner, NEW a \in Actors, NEW t \in Threads, Owns(t, a)
    PROVE  inboxBar[a] = TurnInbox(t, a) /\ currentBar[a] = TurnMsg(t, a)
<1>1. (CHOOSE u \in Threads : Owns(u, a)) = t
    BY OwnerIsUnique
<1> QED
    BY <1>1 DEF inboxBar, currentBar, TurnInbox, TurnMsg

\* The same after a step.
LEMMA OwnedBarNext ==
    ASSUME OneOwner', NEW a \in Actors, NEW t \in Threads, Owns(t, a)'
    PROVE  inboxBar'[a] = TurnInbox(t, a)' /\ currentBar'[a] = TurnMsg(t, a)'
<1>1. \A u \in Threads : Owns(u, a)' => u = t
    BY DEF OneOwner, Holds
<1>2. (CHOOSE u \in Threads : Owns(u, a)') = t
    BY <1>1
<1> QED
    BY <1>2 DEF inboxBar, currentBar, TurnInbox, TurnMsg

\* An actor that no thread runs has its queues and its suspended frame.
LEMMA FreeBar ==
    ASSUME NEW a \in Actors, \A t \in Threads : ~Owns(t, a)
    PROVE  inboxBar[a] = pending[a] \o mailbox[a] /\ currentBar[a] = frame[a]
BY DEF inboxBar, currentBar

\* The same after a step.
LEMMA FreeBarNext ==
    ASSUME NEW a \in Actors, \A t \in Threads : ~Owns(t, a)'
    PROVE  inboxBar'[a] = pending'[a] \o mailbox'[a] /\ currentBar'[a] = frame'[a]
BY DEF inboxBar, currentBar

\* The mapped variables are functions on the actors.
LEMMA BarFunctions ==
    /\ inboxBar = [a \in Actors |-> inboxBar[a]] /\ inboxBar' = [a \in Actors |-> inboxBar'[a]]
    /\ currentBar = [a \in Actors |-> currentBar[a]]
    /\ currentBar' = [a \in Actors |-> currentBar'[a]]
BY DEF inboxBar, currentBar

\* A step shows nothing of actor a outside.
BarKept(a) == inboxBar'[a] = inboxBar[a] /\ currentBar'[a] = currentBar[a]

\* It does not when it leaves the actor's queues and frame alone, and its turn's locals.
LEMMA BarFrame ==
    ASSUME OneOwner, OneOwner', NEW a \in Actors,
           pending'[a] = pending[a], mailbox'[a] = mailbox[a], frame'[a] = frame[a],
           \A t \in Threads : Owns(t, a)' <=> Owns(t, a),
           \A t \in Threads : Owns(t, a) =>
             /\ t \in loaded' <=> t \in loaded
             /\ batch'[t] = batch[t]
             /\ msg'[t] = msg[t]
             /\ pc'[t] = "drainWaiters" <=> pc[t] = "drainWaiters"
    PROVE  BarKept(a)
<1>1. ASSUME NEW t \in Threads, Owns(t, a)
      PROVE  BarKept(a)
    <2>1. TurnInbox(t, a)' = TurnInbox(t, a) /\ TurnMsg(t, a)' = TurnMsg(t, a)
        BY <1>1 DEF TurnInbox, TurnMsg
    <2> QED
        BY <1>1, <2>1, OwnedBar, OwnedBarNext DEF BarKept
<1>2. CASE \A t \in Threads : ~Owns(t, a)
    BY <1>2, FreeBar, FreeBarNext DEF BarKept
<1> QED
    BY <1>1, <1>2

\* A step that shows nothing of any actor is a stutter of SerialActors.
LEMMA BarStutter ==
    ASSUME \A a \in Actors : BarKept(a), target' = target, settled' = settled
    PROVE  UNCHANGED Serial!vars
<1>1. inboxBar' = inboxBar /\ currentBar' = currentBar
    BY BarFunctions DEF BarKept
<1> QED
    BY <1>1 DEF Serial!vars

\* A step inside the runtime: it moves no message and no turn begins or ends with it.
HiddenStep ==
    /\ UNCHANGED <<pending, mailbox, frame, loaded, batch, msg, target, settled>>
    /\ \A t \in Threads, a \in Actors : Owns(t, a)' <=> Owns(t, a)
    /\ \A t \in Threads : pc'[t] = "drainWaiters" <=> pc[t] = "drainWaiters"

\* Such a step does not show.
LEMMA HiddenStutter ==
    ASSUME OneOwner, OneOwner', HiddenStep
    PROVE  UNCHANGED Serial!vars
<1>1. \A a \in Actors : BarKept(a)
    BY BarFrame DEF HiddenStep
<1> QED
    BY <1>1, BarStutter DEF HiddenStep

\* A step of thread t's turn of actor a disturbs no other turn.
OnlyTurn(t, a) ==
    /\ \A c \in Actors \ {a} :
         /\ pending'[c] = pending[c] /\ mailbox'[c] = mailbox[c] /\ frame'[c] = frame[c]
         /\ ~Owns(t, c) /\ ~Owns(t, c)'
    /\ \A u \in Threads \ {t} :
         /\ \A c \in Actors : Owns(u, c)' <=> Owns(u, c)
         /\ u \in loaded' <=> u \in loaded
         /\ batch'[u] = batch[u] /\ msg'[u] = msg[u] /\ pc'[u] = pc[u]

\* Of the other actors it shows nothing.
LEMMA OthersKept ==
    ASSUME OneOwner, OneOwner', NEW t \in Threads, NEW a \in Actors, OnlyTurn(t, a)
    PROVE  \A c \in Actors \ {a} : BarKept(c)
BY BarFrame DEF OnlyTurn

\* The first message of two queues in a row.
LEMMA ConcatHeadTail ==
    ASSUME NEW S, NEW r \in Seq(S), NEW s \in Seq(S), r # <<>>
    PROVE  /\ r \o s # <<>>
           /\ Head(r \o s) = Head(r)
           /\ Tail(r \o s) = Tail(r) \o s
OBVIOUS

\* A message added to the second of two queues in a row.
LEMMA ConcatAppend ==
    ASSUME NEW S, NEW r \in Seq(S), NEW s \in Seq(S), NEW m \in S
    PROVE  r \o Append(s, m) = Append(r \o s, m)
<1>1. r \o (s \o <<m>>) = (r \o s) \o <<m>>
    BY ConcatAssociative
<1> QED
    BY <1>1, AppendIsConcat, ConcatProperties

\* A send shows as the arrival of its message.
LEMMA SendShows ==
    ASSUME TypeInv, OneOwner, OneOwner', NEW m \in Msgs, NEW a \in Actors,
           target[m] = NoActor, target' = [target EXCEPT ![m] = a],
           mailbox' = [mailbox EXCEPT ![a] = Append(@, m)],
           UNCHANGED <<pending, frame, loaded, batch, msg, settled>>,
           \A t \in Threads, c \in Actors : Owns(t, c)' <=> Owns(t, c),
           \A t \in Threads : pc'[t] = "drainWaiters" <=> pc[t] = "drainWaiters"
    PROVE  Serial!Next
<1> USE DEF TypeInv, TypeOK
<1>1. \A c \in Actors \ {a} : BarKept(c)
    BY BarFrame
<1>2. inboxBar'[a] = Append(inboxBar[a], m) /\ currentBar'[a] = currentBar[a]
  <2>1. ASSUME NEW t \in Threads, Owns(t, a)
        PROVE  inboxBar'[a] = Append(inboxBar[a], m) /\ currentBar'[a] = currentBar[a]
    <3> DEFINE r == IF t \in loaded THEN batch[t] ELSE pending[a]
    <3>1. TurnInbox(t, a) = r \o mailbox[a] /\ TurnInbox(t, a)' = r \o Append(mailbox[a], m)
      BY DEF TurnInbox
    <3>2. TurnMsg(t, a)' = TurnMsg(t, a)
      BY DEF TurnMsg
    <3>3. r \in Seq(Msgs) /\ mailbox[a] \in Seq(Msgs)
      OBVIOUS
    <3> HIDE DEF r
    <3>4. TurnInbox(t, a)' = Append(TurnInbox(t, a), m)
      BY <3>1, <3>3, ConcatAppend
    <3> QED
      BY <2>1, <3>2, <3>4, OwnedBar, OwnedBarNext
  <2>2. CASE \A t \in Threads : ~Owns(t, a)
    <3>1. /\ inboxBar[a] = pending[a] \o mailbox[a]
          /\ inboxBar'[a] = pending[a] \o Append(mailbox[a], m)
          /\ currentBar'[a] = currentBar[a]
      BY <2>2, FreeBar, FreeBarNext
    <3>2. pending[a] \in Seq(Msgs) /\ mailbox[a] \in Seq(Msgs)
      OBVIOUS
    <3> QED
      BY <3>1, <3>2, ConcatAppend
  <2> QED
    BY <2>1, <2>2
<1>3. inboxBar' = [inboxBar EXCEPT ![a] = Append(@, m)]
    BY <1>1, <1>2, BarFunctions DEF BarKept
<1>4. currentBar' = currentBar
  <2>1. \A c \in Actors : currentBar'[c] = currentBar[c]
    BY <1>1, <1>2 DEF BarKept
  <2> QED
    BY <2>1, BarFunctions
<1>5. Serial!Send(m, a)
    BY <1>3, <1>4 DEF Serial!Send
<1> QED
    BY <1>5 DEF Serial!Next

\* Every step of the scheduler is a step of SerialActors, or one that does not show.
LEMMA SerialStep ==
    TypeInv /\ IInv /\ [Next]_vars => [Serial!Next]_(Serial!vars)
<1> SUFFICES ASSUME TypeInv, IInv, [Next]_vars
             PROVE  [Serial!Next]_(Serial!vars)
    OBVIOUS
<1> USE NoActorAssumption, NoMsgAssumption
<1> USE DEF TypeInv, TypeOK, LocalsOK, InTurn, InCall, Goto, CallSchedule, PCs, OwnPC, DrainPC,
            AfterPC, CallPC, PushPC, actorVars, liveVars, sharedVars, futureVars, turnVars
<1>0. OneOwner /\ OneOwner' /\ SuspensionOK /\ LoadedOK
    BY OwnerStep DEF IInv
<1>1. ASSUME NEW t \in Threads, Schedule(t)
      PROVE  [Serial!Next]_(Serial!vars)
  <2>1. HiddenStep
    BY <1>1 DEF Schedule, ScheduleFlag, Owns, HiddenStep
  <2> QED
    BY <1>0, <2>1, HiddenStutter
<1>2. ASSUME NEW t \in Threads, EnqueueReady(t)
      PROVE  [Serial!Next]_(Serial!vars)
  <2>1. HiddenStep
    BY <1>2 DEF EnqueueReady, Owns, HiddenStep
  <2> QED
    BY <1>0, <2>1, HiddenStutter
<1>3. ASSUME NEW t \in Threads, FreshTurn(t)
      PROVE  [Serial!Next]_(Serial!vars)
  <2>1. HiddenStep
    BY <1>3 DEF FreshTurn, Owns, HiddenStep
  <2> QED
    BY <1>0, <2>1, HiddenStutter
<1>4. ASSUME NEW t \in Threads, DeferResume(t)
      PROVE  [Serial!Next]_(Serial!vars)
  <2>1. HiddenStep
    BY <1>4 DEF DeferResume, Owns, HiddenStep
  <2> QED
    BY <1>0, <2>1, HiddenStutter
<1>5. ASSUME NEW t \in Threads, ResumeTurn(t)
      PROVE  [Serial!Next]_(Serial!vars)
  <2>0. PICK a \in Actors : a = cur[t]
    BY <1>5 DEF ResumeTurn
  <2>1. Owns(t, a) /\ Owns(t, a)'
    BY <1>5, <2>0 DEF ResumeTurn, Owns
  <2>2. OnlyTurn(t, a)
    BY <1>5, <2>0 DEF ResumeTurn, OnlyTurn, Owns
  <2>3. TurnInbox(t, a)' = TurnInbox(t, a)
    BY <1>5, <2>0, <2>1 DEF ResumeTurn, TurnInbox
  <2>4. TurnMsg(t, a)' = TurnMsg(t, a)
    BY <1>5, <2>0, <2>1 DEF ResumeTurn, TurnMsg
  <2>5. BarKept(a)
    BY <1>0, <2>1, <2>3, <2>4, OwnedBar, OwnedBarNext DEF BarKept
  <2>6. \A c \in Actors : BarKept(c)
    BY <1>0, <2>1, <2>2, <2>5, OthersKept
  <2> QED
    BY <1>5, <2>0, <2>6, BarStutter DEF ResumeTurn
<1>6. ASSUME NEW t \in Threads, NextMessage(t)
      PROVE  [Serial!Next]_(Serial!vars)
  <2>0. PICK a \in Actors : a = cur[t]
    BY <1>6 DEF NextMessage
  <2>1. Owns(t, a) /\ Owns(t, a)'
    BY <1>6, <2>0 DEF NextMessage, Owns
  <2>2. OnlyTurn(t, a)
    BY <1>6, <2>0 DEF NextMessage, OnlyTurn, Owns
  <2>3. frame[a] = NoMsg /\ msg[t] = NoMsg /\ t \in loaded
    BY <1>6, <2>0, <1>0 DEF NextMessage, SuspensionOK, SuspendedPC
  <2>4. inboxBar[a] = batch[t] \o mailbox[a] /\ inboxBar'[a] = Tail(batch[t]) \o mailbox[a]
    <3>1. /\ TurnInbox(t, a) = batch[t] \o mailbox[a]
          /\ TurnInbox(t, a)' = Tail(batch[t]) \o mailbox[a]
      BY <1>6, <2>0, <2>3 DEF NextMessage, TurnInbox
    <3> QED
      BY <1>0, <2>1, <3>1, OwnedBar, OwnedBarNext
  <2>5. currentBar[a] = NoMsg /\ currentBar'[a] = Head(batch[t])
    <3>1. TurnMsg(t, a) = NoMsg /\ TurnMsg(t, a)' = Head(batch[t])
      BY <1>6, <2>0, <2>3 DEF NextMessage, TurnMsg
    <3> QED
      BY <1>0, <2>1, <3>1, OwnedBar, OwnedBarNext
  <2>6. batch[t] \in Seq(Msgs) /\ mailbox[a] \in Seq(Msgs) /\ batch[t] # <<>>
    BY <1>6, <2>0, <2>1 DEF NextMessage
  <2>7. \A c \in Actors \ {a} : BarKept(c)
    BY <1>0, <2>1, <2>2, OthersKept
  <2>8. /\ inboxBar[a] # <<>> /\ Head(inboxBar[a]) = Head(batch[t])
        /\ Tail(inboxBar[a]) = inboxBar'[a]
    BY <2>4, <2>6, ConcatHeadTail
  <2>9. inboxBar' = [inboxBar EXCEPT ![a] = Tail(@)]
    BY <2>1, <2>7, <2>8, BarFunctions DEF BarKept
  <2>10. currentBar' = [currentBar EXCEPT ![a] = Head(inboxBar[a])]
    BY <2>1, <2>5, <2>7, <2>8, BarFunctions DEF BarKept
  <2>11. target' = target /\ settled' = settled
    BY <1>6, <2>0 DEF NextMessage
  <2>12. Serial!Start(a)
    BY <2>5, <2>8, <2>9, <2>10, <2>11 DEF Serial!Start
  <2> QED
    BY <2>1, <2>12 DEF Serial!Next
<1>7. ASSUME NEW t \in Threads, LoadPending(t)
      PROVE  [Serial!Next]_(Serial!vars)
  <2>0. PICK a \in Actors : a = cur[t]
    BY <1>7 DEF LoadPending
  <2>1. Owns(t, a) /\ Owns(t, a)'
    BY <1>7, <2>0 DEF LoadPending, Owns
  <2>2. OnlyTurn(t, a)
    BY <1>7, <2>0 DEF LoadPending, OnlyTurn, Owns
  <2>3. TurnInbox(t, a)' = TurnInbox(t, a)
    BY <1>7, <2>0, <2>1 DEF LoadPending, TurnInbox
  <2>4. TurnMsg(t, a)' = TurnMsg(t, a)
    BY <1>7, <2>0, <2>1 DEF LoadPending, TurnMsg
  <2>5. BarKept(a)
    BY <1>0, <2>1, <2>3, <2>4, OwnedBar, OwnedBarNext DEF BarKept
  <2>6. \A c \in Actors : BarKept(c)
    BY <1>0, <2>1, <2>2, <2>5, OthersKept
  <2> QED
    BY <1>7, <2>0, <2>6, BarStutter DEF LoadPending
<1>8. ASSUME NEW t \in Threads, TakeAll(t)
      PROVE  [Serial!Next]_(Serial!vars)
  <2>0. PICK a \in Actors : a = cur[t]
    BY <1>8 DEF TakeAll
  <2>1. Owns(t, a) /\ Owns(t, a)'
    BY <1>8, <2>0 DEF TakeAll, Owns
  <2>2. OnlyTurn(t, a)
    BY <1>8, <2>0 DEF TakeAll, OnlyTurn, Owns
  <2>3. TurnInbox(t, a)' = TurnInbox(t, a)
    <3>1. <<>> \o mailbox[a] = mailbox[a] \o <<>>
      BY ConcatEmptySeq
    <3> QED
      BY <1>8, <2>0, <2>1, <3>1 DEF TakeAll, TurnInbox
  <2>4. TurnMsg(t, a)' = TurnMsg(t, a)
    BY <1>8, <2>0, <2>1 DEF TakeAll, TurnMsg
  <2>5. BarKept(a)
    BY <1>0, <2>1, <2>3, <2>4, OwnedBar, OwnedBarNext DEF BarKept
  <2>6. \A c \in Actors : BarKept(c)
    BY <1>0, <2>1, <2>2, <2>5, OthersKept
  <2> QED
    BY <1>8, <2>0, <2>6, BarStutter DEF TakeAll
<1>9. ASSUME NEW t \in Threads, Spill(t)
      PROVE  [Serial!Next]_(Serial!vars)
  <2>0. PICK a \in Actors : a = cur[t]
    BY <1>9 DEF Spill
  <2>1. Owns(t, a) /\ Owns(t, a)'
    BY <1>9, <2>0 DEF Spill, Owns
  <2>2. OnlyTurn(t, a)
    BY <1>9, <2>0 DEF Spill, OnlyTurn, Owns
  <2>3. TurnInbox(t, a)' = TurnInbox(t, a)
    <3>1. pending'[a] = IF t \in loaded THEN batch[t] ELSE pending[a]
      BY <1>9, <1>0, <2>0, <2>1 DEF Spill, LoadedOK
    <3>2. t \notin loaded' /\ mailbox' = mailbox
      BY <1>9, <2>0 DEF Spill
    <3> QED
      BY <3>1, <3>2 DEF TurnInbox
  <2>4. TurnMsg(t, a)' = TurnMsg(t, a)
    BY <1>9, <2>0, <2>1 DEF Spill, TurnMsg
  <2>5. BarKept(a)
    BY <1>0, <2>1, <2>3, <2>4, OwnedBar, OwnedBarNext DEF BarKept
  <2>6. \A c \in Actors : BarKept(c)
    BY <1>0, <2>1, <2>2, <2>5, OthersKept
  <2> QED
    BY <1>9, <2>0, <2>6, BarStutter DEF Spill
<1>10. ASSUME NEW t \in Threads, WaitError(t)
      PROVE  [Serial!Next]_(Serial!vars)
  <2>1. HiddenStep
    BY <1>10 DEF WaitError, Owns, HiddenStep
  <2> QED
    BY <1>0, <2>1, HiddenStutter
<1>11. ASSUME NEW t \in Threads, Yield(t)
      PROVE  [Serial!Next]_(Serial!vars)
  <2>0. PICK a \in Actors : a = cur[t]
    BY <1>11 DEF Yield
  <2>1. Owns(t, a) /\ Owns(t, a)'
    BY <1>11, <2>0 DEF Yield, Owns
  <2>2. OnlyTurn(t, a)
    BY <1>11, <2>0 DEF Yield, OnlyTurn, Owns
  <2>3. TurnInbox(t, a)' = TurnInbox(t, a)
    BY <1>11, <2>0, <2>1 DEF Yield, TurnInbox
  <2>4. TurnMsg(t, a)' = TurnMsg(t, a)
    <3>1. msg[t] # NoMsg /\ frame[a] = NoMsg /\ pc[t] # "drainWaiters"
      BY <1>11, <2>0, <1>0 DEF Yield, SuspensionOK, SuspendedPC
    <3> QED
      BY <1>11, <2>0, <2>1, <3>1 DEF Yield, TurnMsg
  <2>5. BarKept(a)
    BY <1>0, <2>1, <2>3, <2>4, OwnedBar, OwnedBarNext DEF BarKept
  <2>6. \A c \in Actors : BarKept(c)
    BY <1>0, <2>1, <2>2, <2>5, OthersKept
  <2> QED
    BY <1>11, <2>0, <2>6, BarStutter DEF Yield
<1>12. ASSUME NEW t \in Threads, WaiterSettled(t)
      PROVE  [Serial!Next]_(Serial!vars)
  <2>1. HiddenStep
    BY <1>12 DEF WaiterSettled, Owns, HiddenStep
  <2> QED
    BY <1>0, <2>1, HiddenStutter
<1>13. ASSUME NEW t \in Threads, WaiterPending(t)
      PROVE  [Serial!Next]_(Serial!vars)
  <2>1. HiddenStep
    BY <1>13 DEF WaiterPending, Owns, HiddenStep
  <2> QED
    BY <1>0, <2>1, HiddenStutter
<1>14. ASSUME NEW t \in Threads, AppendDrained(t)
      PROVE  [Serial!Next]_(Serial!vars)
  <2>1. HiddenStep
    BY <1>14 DEF AppendDrained, Owns, HiddenStep
  <2> QED
    BY <1>0, <2>1, HiddenStutter
<1>15. ASSUME NEW t \in Threads, AppendWaiter(t)
      PROVE  [Serial!Next]_(Serial!vars)
  <2>1. HiddenStep
    BY <1>15 DEF AppendWaiter, Owns, HiddenStep
  <2> QED
    BY <1>0, <2>1, HiddenStutter
<1>16. ASSUME NEW t \in Threads, MethodEnd(t)
      PROVE  [Serial!Next]_(Serial!vars)
  <2>1. HiddenStep
    BY <1>16 DEF MethodEnd, Owns, HiddenStep
  <2> QED
    BY <1>0, <2>1, HiddenStutter
<1>17. ASSUME NEW t \in Threads, PublishState(t)
      PROVE  [Serial!Next]_(Serial!vars)
  <2>0. PICK a \in Actors : a = cur[t]
    BY <1>17 DEF PublishState
  <2>1. Owns(t, a) /\ Owns(t, a)'
    BY <1>17, <2>0 DEF PublishState, Owns
  <2>2. OnlyTurn(t, a)
    BY <1>17, <2>0 DEF PublishState, OnlyTurn, Owns
  <2>3. frame[a] = NoMsg /\ msg[t] # NoMsg
    BY <1>17, <2>0, <1>0 DEF PublishState, SuspensionOK, SuspendedPC
  <2>4. inboxBar'[a] = inboxBar[a]
    <3>1. TurnInbox(t, a)' = TurnInbox(t, a)
      BY <1>17, <2>0 DEF PublishState, TurnInbox
    <3> QED
      BY <1>0, <2>1, <3>1, OwnedBar, OwnedBarNext
  <2>5. currentBar[a] = msg[t] /\ currentBar'[a] = NoMsg
    <3>1. TurnMsg(t, a) = msg[t] /\ TurnMsg(t, a)' = NoMsg
      BY <1>17, <2>0, <2>3 DEF PublishState, TurnMsg
    <3> QED
      BY <1>0, <2>1, <3>1, OwnedBar, OwnedBarNext
  <2>6. \A c \in Actors \ {a} : BarKept(c)
    BY <1>0, <2>1, <2>2, OthersKept
  <2>7. target' = target /\ settled' = settled \cup {msg[t]}
    BY <1>17, <2>0 DEF PublishState
  <2>8. inboxBar' = inboxBar
    BY <2>4, <2>6, BarFunctions DEF BarKept
  <2>9. currentBar' = [currentBar EXCEPT ![a] = NoMsg]
    BY <2>1, <2>5, <2>6, BarFunctions DEF BarKept
  <2>10. Serial!Finish(a)
    BY <2>3, <2>5, <2>7, <2>8, <2>9 DEF Serial!Finish
  <2> QED
    BY <2>1, <2>10 DEF Serial!Next
<1>18. ASSUME NEW t \in Threads, DrainWaiters(t)
      PROVE  [Serial!Next]_(Serial!vars)
  <2>0. PICK a \in Actors : a = cur[t]
    BY <1>18 DEF DrainWaiters
  <2>1. Owns(t, a) /\ Owns(t, a)'
    BY <1>18, <2>0 DEF DrainWaiters, Owns
  <2>2. OnlyTurn(t, a)
    BY <1>18, <2>0 DEF DrainWaiters, OnlyTurn, Owns
  <2>3. TurnInbox(t, a)' = TurnInbox(t, a)
    BY <1>18, <2>0, <2>1 DEF DrainWaiters, TurnInbox
  <2>4. TurnMsg(t, a)' = TurnMsg(t, a)
    BY <1>18, <2>0, <2>1 DEF DrainWaiters, TurnMsg
  <2>5. BarKept(a)
    BY <1>0, <2>1, <2>3, <2>4, OwnedBar, OwnedBarNext DEF BarKept
  <2>6. \A c \in Actors : BarKept(c)
    BY <1>0, <2>1, <2>2, <2>5, OthersKept
  <2> QED
    BY <1>18, <2>0, <2>6, BarStutter DEF DrainWaiters
<1>19. ASSUME NEW t \in Threads, WakeDone(t)
      PROVE  [Serial!Next]_(Serial!vars)
  <2>1. HiddenStep
    BY <1>19 DEF WakeDone, Owns, HiddenStep
  <2> QED
    BY <1>0, <2>1, HiddenStutter
<1>20. ASSUME NEW t \in Threads, ClaimWakeup(t)
      PROVE  [Serial!Next]_(Serial!vars)
  <2>1. HiddenStep
    BY <1>20 DEF ClaimWakeup, Owns, HiddenStep
  <2> QED
    BY <1>0, <2>1, HiddenStutter
<1>21. ASSUME NEW t \in Threads, Release(t)
      PROVE  [Serial!Next]_(Serial!vars)
  <2>0. PICK a \in Actors : a = cur[t]
    BY <1>21 DEF Release
  <2>1. Owns(t, a) /\ ~Owns(t, a)'
    BY <1>21, <2>0 DEF Release, Owns
  <2>2. OnlyTurn(t, a)
    BY <1>21, <2>0 DEF Release, OnlyTurn, Owns
  <2>3. t \notin loaded /\ msg[t] = NoMsg
    BY <1>21, <2>0 DEF Release
  <2>4. UNCHANGED <<pending, mailbox, frame, target, settled>>
    BY <1>21, <2>0 DEF Release
  <2>5. TurnInbox(t, a) = pending[a] \o mailbox[a] /\ TurnMsg(t, a) = frame[a]
    BY <2>3 DEF TurnInbox, TurnMsg
  <2>6. ASSUME NEW u \in Threads PROVE ~Owns(u, a)'
    <3>1. CASE u = t
      BY <2>1, <3>1
    <3>2. CASE u # t
      <4>1. ~Owns(u, a)
        BY <1>0, <2>1, <3>2, OwnerIsUnique
      <4> QED
        BY <2>2, <3>2, <4>1 DEF OnlyTurn
    <3> QED
      BY <3>1, <3>2
  <2>7. BarKept(a)
    <3>1. inboxBar[a] = TurnInbox(t, a) /\ currentBar[a] = TurnMsg(t, a)
      BY <1>0, <2>1, OwnedBar
    <3>2. inboxBar'[a] = pending'[a] \o mailbox'[a] /\ currentBar'[a] = frame'[a]
      BY <2>6, FreeBarNext
    <3> QED
      BY <2>4, <2>5, <3>1, <3>2 DEF BarKept
  <2>8. \A c \in Actors : BarKept(c)
    BY <1>0, <2>1, <2>2, <2>7, OthersKept
  <2> QED
    BY <2>4, <2>8, BarStutter
<1>22. ASSUME NEW t \in Threads, Requeue(t)
      PROVE  [Serial!Next]_(Serial!vars)
  <2>0. PICK a \in Actors : a = cur[t]
    BY <1>22 DEF Requeue
  <2>1. Owns(t, a) /\ ~Owns(t, a)'
    BY <1>22, <2>0 DEF Requeue, EndTurn, Owns
  <2>2. OnlyTurn(t, a)
    BY <1>22, <2>0 DEF Requeue, EndTurn, OnlyTurn, Owns
  <2>3. t \notin loaded /\ msg[t] = NoMsg
    BY <1>22, <2>0 DEF Requeue, EndTurn
  <2>4. UNCHANGED <<pending, mailbox, frame, target, settled>>
    BY <1>22, <2>0 DEF Requeue, EndTurn
  <2>5. TurnInbox(t, a) = pending[a] \o mailbox[a] /\ TurnMsg(t, a) = frame[a]
    BY <2>3 DEF TurnInbox, TurnMsg
  <2>6. ASSUME NEW u \in Threads PROVE ~Owns(u, a)'
    <3>1. CASE u = t
      BY <2>1, <3>1
    <3>2. CASE u # t
      <4>1. ~Owns(u, a)
        BY <1>0, <2>1, <3>2, OwnerIsUnique
      <4> QED
        BY <2>2, <3>2, <4>1 DEF OnlyTurn
    <3> QED
      BY <3>1, <3>2
  <2>7. BarKept(a)
    <3>1. inboxBar[a] = TurnInbox(t, a) /\ currentBar[a] = TurnMsg(t, a)
      BY <1>0, <2>1, OwnedBar
    <3>2. inboxBar'[a] = pending'[a] \o mailbox'[a] /\ currentBar'[a] = frame'[a]
      BY <2>6, FreeBarNext
    <3> QED
      BY <2>4, <2>5, <3>1, <3>2 DEF BarKept
  <2>8. \A c \in Actors : BarKept(c)
    BY <1>0, <2>1, <2>2, <2>7, OthersKept
  <2> QED
    BY <2>4, <2>8, BarStutter
<1>23. ASSUME NEW t \in Threads, StaleWakeup(t)
      PROVE  [Serial!Next]_(Serial!vars)
  <2>1. HiddenStep
    BY <1>23 DEF StaleWakeup, MailboxHasWork, Owns, HiddenStep
  <2> QED
    BY <1>0, <2>1, HiddenStutter
<1>24. ASSUME NEW t \in Threads, ReleaseStale(t)
      PROVE  [Serial!Next]_(Serial!vars)
  <2>0. PICK a \in Actors : a = cur[t]
    BY <1>24 DEF ReleaseStale
  <2>1. Owns(t, a) /\ ~Owns(t, a)'
    BY <1>24, <2>0 DEF ReleaseStale, Owns
  <2>2. OnlyTurn(t, a)
    BY <1>24, <2>0 DEF ReleaseStale, OnlyTurn, Owns
  <2>3. t \notin loaded /\ msg[t] = NoMsg
    BY <1>24, <2>0 DEF ReleaseStale
  <2>4. UNCHANGED <<pending, mailbox, frame, target, settled>>
    BY <1>24, <2>0 DEF ReleaseStale
  <2>5. TurnInbox(t, a) = pending[a] \o mailbox[a] /\ TurnMsg(t, a) = frame[a]
    BY <2>3 DEF TurnInbox, TurnMsg
  <2>6. ASSUME NEW u \in Threads PROVE ~Owns(u, a)'
    <3>1. CASE u = t
      BY <2>1, <3>1
    <3>2. CASE u # t
      <4>1. ~Owns(u, a)
        BY <1>0, <2>1, <3>2, OwnerIsUnique
      <4> QED
        BY <2>2, <3>2, <4>1 DEF OnlyTurn
    <3> QED
      BY <3>1, <3>2
  <2>7. BarKept(a)
    <3>1. inboxBar[a] = TurnInbox(t, a) /\ currentBar[a] = TurnMsg(t, a)
      BY <1>0, <2>1, OwnedBar
    <3>2. inboxBar'[a] = pending'[a] \o mailbox'[a] /\ currentBar'[a] = frame'[a]
      BY <2>6, FreeBarNext
    <3> QED
      BY <2>4, <2>5, <3>1, <3>2 DEF BarKept
  <2>8. \A c \in Actors : BarKept(c)
    BY <1>0, <2>1, <2>2, <2>7, OthersKept
  <2> QED
    BY <2>4, <2>8, BarStutter
<1>25. ASSUME NEW t \in Threads, StaleAgain(t)
      PROVE  [Serial!Next]_(Serial!vars)
  <2>1. HiddenStep
    BY <1>25 DEF StaleAgain, Owns, HiddenStep
  <2> QED
    BY <1>0, <2>1, HiddenStutter
<1>26. ASSUME NEW t \in Threads, PeekPending(t)
      PROVE  [Serial!Next]_(Serial!vars)
  <2>1. HiddenStep
    BY <1>26 DEF PeekPending, Owns, HiddenStep
  <2> QED
    BY <1>0, <2>1, HiddenStutter
<1>27. ASSUME NEW t \in Threads, PeekMailbox(t)
      PROVE  [Serial!Next]_(Serial!vars)
  <2>1. HiddenStep
    BY <1>27 DEF PeekMailbox, Owns, HiddenStep
  <2> QED
    BY <1>0, <2>1, HiddenStutter
<1>28. ASSUME NEW t \in Threads, Reclaim(t)
      PROVE  [Serial!Next]_(Serial!vars)
  <2>1. HiddenStep
    BY <1>28 DEF Reclaim, Owns, HiddenStep
  <2> QED
    BY <1>0, <2>1, HiddenStutter
<1>29. ASSUME NEW t \in Threads, ReclaimLost(t)
      PROVE  [Serial!Next]_(Serial!vars)
  <2>1. HiddenStep
    BY <1>29 DEF ReclaimLost, Owns, HiddenStep
  <2> QED
    BY <1>0, <2>1, HiddenStutter
<1>30. ASSUME NEW t \in Threads, AnchorSkip(t)
      PROVE  [Serial!Next]_(Serial!vars)
  <2>1. HiddenStep
    BY <1>30 DEF AnchorSkip, EndTurn, Owns, HiddenStep
  <2> QED
    BY <1>0, <2>1, HiddenStutter
<1>31. ASSUME NEW t \in Threads, Anchor(t)
      PROVE  [Serial!Next]_(Serial!vars)
  <2>1. HiddenStep
    BY <1>31 DEF Anchor, Owns, HiddenStep
  <2> QED
    BY <1>0, <2>1, HiddenStutter
<1>32. ASSUME NEW t \in Threads, AnchorFlag(t)
      PROVE  [Serial!Next]_(Serial!vars)
  <2>1. HiddenStep
    BY <1>32 DEF AnchorFlag, EndTurn, Owns, HiddenStep
  <2> QED
    BY <1>0, <2>1, HiddenStutter
<1>33. ASSUME NEW t \in Threads, UnanchorSkip(t)
      PROVE  [Serial!Next]_(Serial!vars)
  <2>1. HiddenStep
    BY <1>33 DEF UnanchorSkip, EndTurn, Owns, HiddenStep
  <2> QED
    BY <1>0, <2>1, HiddenStutter
<1>34. ASSUME NEW t \in Threads, Unanchor(t)
      PROVE  [Serial!Next]_(Serial!vars)
  <2>1. HiddenStep
    BY <1>34 DEF Unanchor, Owns, HiddenStep
  <2> QED
    BY <1>0, <2>1, HiddenStutter
<1>35. ASSUME NEW t \in Threads, UnanchorFlag(t)
      PROVE  [Serial!Next]_(Serial!vars)
  <2>1. HiddenStep
    BY <1>35 DEF UnanchorFlag, EndTurn, Owns, HiddenStep
  <2> QED
    BY <1>0, <2>1, HiddenStutter
<1>36. ASSUME NEW t \in Threads, NEW a \in Actors, DequeueReady(t, a)
      PROVE  [Serial!Next]_(Serial!vars)
  <2>1. Owns(t, a)'
    BY <1>36 DEF DequeueReady, Owns
  <2>2. OnlyTurn(t, a)
    BY <1>36 DEF DequeueReady, OnlyTurn, Owns
  <2>3. \A u \in Threads : ~Owns(u, a)
    BY <1>36, <1>0 DEF DequeueReady, OneOwner, Holds
  <2>4. t \notin loaded' /\ msg'[t] = NoMsg
    BY <1>36 DEF DequeueReady
  <2>5. UNCHANGED <<pending, mailbox, frame, target, settled>>
    BY <1>36 DEF DequeueReady
  <2>6. TurnInbox(t, a)' = pending[a] \o mailbox[a] /\ TurnMsg(t, a)' = frame[a]
    BY <2>4, <2>5 DEF TurnInbox, TurnMsg
  <2>7. BarKept(a)
    <3>1. inboxBar[a] = pending[a] \o mailbox[a] /\ currentBar[a] = frame[a]
      BY <2>3, FreeBar
    <3>2. inboxBar'[a] = TurnInbox(t, a)' /\ currentBar'[a] = TurnMsg(t, a)'
      BY <1>0, <2>1, OwnedBarNext
    <3> QED
      BY <2>6, <3>1, <3>2 DEF BarKept
  <2>8. \A c \in Actors : BarKept(c)
    BY <1>0, <2>2, <2>7, OthersKept
  <2> QED
    BY <2>5, <2>8, BarStutter
<1>37. ASSUME NEW t \in Threads, NEW a \in Actors, WakeWaiter(t, a)
      PROVE  [Serial!Next]_(Serial!vars)
  <2>1. HiddenStep
    BY <1>37 DEF WakeWaiter, Owns, HiddenStep
  <2> QED
    BY <1>0, <2>1, HiddenStutter
<1>38. ASSUME NEW t \in Threads, NEW m \in Msgs, NEW a \in Actors,
             ClientSend(t, m, a)
      PROVE  [Serial!Next]_(Serial!vars)
  <2>1. SendTo(t, pc[t], m, a, ret'[t]) /\ mailbox[a] \in Seq(Msgs)
    BY <1>38 DEF ClientSend, SendTo
  <2>2. \A u \in Threads, c \in Actors : Owns(u, c)' <=> Owns(u, c)
    BY <1>38 DEF ClientSend, SendTo, Owns
  <2> QED
    BY <1>38, <1>0, <2>2, SendShows DEF ClientSend, SendTo
<1>39. ASSUME NEW t \in Threads, NEW m \in Msgs, NEW a \in Actors,
             MethodSend(t, m, a)
      PROVE  [Serial!Next]_(Serial!vars)
  <2>1. SendTo(t, pc[t], m, a, ret'[t]) /\ mailbox[a] \in Seq(Msgs)
    BY <1>39 DEF MethodSend, SendTo
  <2>2. \A u \in Threads, c \in Actors : Owns(u, c)' <=> Owns(u, c)
    BY <1>39 DEF MethodSend, SendTo, Owns
  <2> QED
    BY <1>39, <1>0, <2>2, SendShows DEF MethodSend, SendTo
<1>40. ASSUME NEW t \in Threads, NEW f \in Msgs, BeginWait(t, f)
      PROVE  [Serial!Next]_(Serial!vars)
  <2>1. HiddenStep
    BY <1>40 DEF BeginWait, Owns, HiddenStep
  <2> QED
    BY <1>0, <2>1, HiddenStutter
<1>41. CASE UNCHANGED vars
  <2>1. HiddenStep
    BY <1>41 DEF vars, Owns, HiddenStep
  <2> QED
    BY <1>0, <2>1, HiddenStutter
<1>42. ASSUME NEW t \in Threads, FlagLive(t)
      PROVE  [Serial!Next]_(Serial!vars)
  <2>1. HiddenStep
    BY <1>42 DEF FlagLive, Owns, HiddenStep
  <2> QED
    BY <1>0, <2>1, HiddenStutter
<1>43. ASSUME NEW t \in Threads, AppendLive(t)
      PROVE  [Serial!Next]_(Serial!vars)
  <2>1. HiddenStep
    BY <1>43 DEF AppendLive, Owns, HiddenStep
  <2> QED
    BY <1>0, <2>1, HiddenStutter
<1> QED
    BY <1>1, <1>2, <1>3, <1>4, <1>5, <1>6, <1>7, <1>8, <1>9, <1>10, <1>11, <1>12, <1>13,
       <1>14, <1>15, <1>16, <1>17, <1>18, <1>19, <1>20, <1>21, <1>22, <1>23, <1>24, <1>25,
       <1>26, <1>27, <1>28, <1>29, <1>30, <1>31, <1>32, <1>33, <1>34, <1>35, <1>36, <1>37,
       <1>38, <1>39, <1>40, <1>41, <1>42, <1>43
    DEF Next, Runtime, Resume, Cursor, Park, SettleFuture, FinishDrain, Method, Client, Done, vars

\* The scheduler starts as SerialActors does.
LEMMA SerialInit == Init => Serial!Init
<1> SUFFICES ASSUME Init PROVE Serial!Init
    OBVIOUS
<1>1. \A a \in Actors, t \in Threads : ~Owns(t, a)
    BY DEF Init, Owns, OwnPC, DrainPC, CallPC, PushPC
<1>2. \A a \in Actors : inboxBar[a] = <<>> \o <<>> /\ currentBar[a] = NoMsg
    BY <1>1, FreeBar DEF Init
<1>3. inboxBar = [a \in Actors |-> <<>>] /\ currentBar = [a \in Actors |-> NoMsg]
    BY <1>2, BarFunctions, <<>> \o <<>> = <<>>
<1> QED
    BY <1>3 DEF Init, Serial!Init

\* Every actor handles its messages one at a time, in the order of their arrival, none
\* lost and none run twice: whatever __sched__, the mailbox, the cursor's batch, the tail
\* in __pending__ and the suspended frame do, SerialActors is what shows.
THEOREM ActorsAreSerial == Spec => ImplementsSerialActors
BY SerialInit, SerialStep, Invariance, PTL DEF Spec, ImplementsSerialActors, Serial!Spec
=============================================================================
