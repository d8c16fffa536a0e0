-------------------------- MODULE WorkerPoolProofs --------------------------
(***************************************************************************)
(* Proofs, for any number of workers, sends, pauses and blocking calls,    *)
(* that ~STRuntime leaves no worker and no queued actor behind, and that   *)
(* no worker sleeps while an actor waits for which nobody has been woken.  *)
(***************************************************************************)
EXTENDS WorkerPool, FiniteSetTheorems, TLAPS

-----------------------------------------------------------------------------
(* The inductive invariant.                                                *)

Creating == {"create", "register"}
Idle     == {"acquire", "asleep"}
Coming   == {"pushed", "release"}
Starting == {"unpaused", "makeup", "makeupNotify"}
Blocked  == {"count", "io"} \cup SpawnPCs
Ended    == {"unborn", "exited"}
Closing  == {"wakeAll", "wakeAllNotify", "join"}

\* spawning counts the threads inside newThread, and blockedInIO the workers between
\* enterBlockingIO and leaveBlockingIO.
CountersOK ==
    /\ spawning = Cardinality(At(Creating))
    /\ blockedInIO = Cardinality(At(Blocked) \ {Main})

\* A worker that runs is registered, or is about to be by the thread that created it.
LiveAreKnown ==
    \A w \in Workers :
        pc[w] # "unborn" /\ pc[Main] # "done" =>
            w \in workers \/ \E t \in Threads : pc[t] = "register" /\ child[t] = w

\* Nothing is shut down before ~STRuntime begins, and a worker makes its final pass, or
\* ends, only after that.
EndsAfterShutdown ==
    /\ shutdown => pc[Main] \in {"close", "done"} \cup Closing
    /\ \A w \in Workers : pc[w] \in {"final", "exited"} \/ back[w] = "final" => shutdown

\* Once the destructor has taken the pool, nobody creates a worker any more.
PoolIsFinal ==
    /\ pc[Main] \in Closing => shutdown /\ spawning = 0 /\ pool = workers
    /\ pc[Main] = "done" => /\ \A w \in Workers : pc[w] \in Ended
                            /\ pool # {} => \E w \in Workers : pc[w] = "exited"

\* The last worker to end has found the ready stacks empty.
LastWorkerDrains ==
    (\A w \in Workers : pc[w] \in Ended) /\ (\E w \in Workers : pc[w] = "exited") => ready = 0

\* A worker that has taken a permit is on its way to its drain loop, and a thread counts
\* the permits it has made only while it makes them.
LocalsOK ==
    /\ \A w \in unspent : pc[w] \in {"top", "gate", "gated", "drain"}
    /\ \A t \in Threads : made[t] > 0 => pc[t] \in {"makeup", "makeupNotify"}

\* A permit, a worker that took one or a thread about to release one for each queued
\* actor, or else a permit for each worker that is asleep or about to sleep.
Covered ==
    \/ ready <= permits + Cardinality(unspent) + Cardinality(At(Coming))
    \/ Cardinality(At(Idle)) <= permits + Cardinality(At(Coming))

\* What startProcessing has yet to release makes up for the permits that are missing.
MakesUp(t) ==
    Cardinality(At(Idle)) + made[t] <= permits + Cardinality(At(Coming)) + Cardinality(workers)

WorkIsCovered == ~paused => Covered \/ \E t \in At(Starting) : MakesUp(t)

PoolInv ==
    /\ TypeOK
    /\ CountersOK
    /\ LiveAreKnown
    /\ EndsAfterShutdown
    /\ PoolIsFinal
    /\ LastWorkerDrains
    /\ LocalsOK
    /\ WorkIsCovered

-----------------------------------------------------------------------------
(* Counting threads by the state they are in.                              *)

\* Everything that is counted is finite.
LEMMA Finite ==
    /\ IsFiniteSet(Threads)
    /\ \A S \in SUBSET Threads : IsFiniteSet(S) /\ Cardinality(S) \in Nat
    /\ \A S \in SUBSET Workers : IsFiniteSet(S) /\ Cardinality(S) \in Nat
<1>1. IsFiniteSet(Threads)
    BY WorkersAssumption, FS_AddElement DEF Threads
<1> QED
    BY <1>1, WorkersAssumption, FS_Subset, FS_CardinalityType

\* One element less.
LEMMA OneLess ==
    ASSUME NEW S, IsFiniteSet(S), NEW x \in S
    PROVE  Cardinality(S \ {x}) = Cardinality(S) - 1
BY FS_RemoveElement

\* The main thread is a thread, and no worker.
LEMMA MainInThreads ==
    Main \in Threads /\ Main \notin Workers /\ Workers \subseteq Threads
BY MainAssumption DEF Threads

\* A thread that goes from state pc[t] to state q.
LEMMA OneMoves ==
    ASSUME pc \in [Threads -> WorkerPCs \cup MainPCs], NEW t \in Threads, NEW q,
           pc' = [pc EXCEPT ![t] = q], NEW X
    PROVE  /\ Cardinality(At(X)) \in Nat
           /\ pc[t] \in X /\ q \in X => At(X)' = At(X)
           /\ pc[t] \notin X /\ q \notin X => At(X)' = At(X)
           /\ pc[t] \notin X /\ q \in X =>
                 At(X)' = At(X) \cup {t} /\ Cardinality(At(X)') = Cardinality(At(X)) + 1
           /\ pc[t] \in X /\ q \notin X =>
                 At(X)' = At(X) \ {t} /\ Cardinality(At(X)') = Cardinality(At(X)) - 1
<1>1. IsFiniteSet(At(X)) /\ Cardinality(At(X)) \in Nat
    BY Finite DEF At
<1>2. \A u \in Threads : pc'[u] = IF u = t THEN q ELSE pc[u]
    OBVIOUS
<1>3. /\ pc[t] \in X /\ q \in X => At(X)' = At(X)
      /\ pc[t] \notin X /\ q \notin X => At(X)' = At(X)
      /\ pc[t] \notin X /\ q \in X => At(X)' = At(X) \cup {t} /\ t \notin At(X)
      /\ pc[t] \in X /\ q \notin X => At(X)' = At(X) \ {t} /\ t \in At(X)
    BY <1>2 DEF At
<1> QED
    BY <1>1, <1>3, FS_AddElement, FS_RemoveElement

\* A thread that leaves the states X.
LEMMA OneLeaves ==
    ASSUME TypeOK, NEW t \in Threads, NEW q, pc' = [pc EXCEPT ![t] = q], NEW X,
           pc[t] \in X, q \notin X
    PROVE  Cardinality(At(X)') = Cardinality(At(X)) - 1
BY OneMoves DEF TypeOK

\* A step after which the same threads are in the states X.
LEMMA NobodyMoves ==
    ASSUME NEW X, \A u \in Threads : pc'[u] \in X <=> pc[u] \in X
    PROVE  At(X)' = At(X)
BY DEF At

-----------------------------------------------------------------------------
\* Every step keeps the types: no counter goes below zero.
LEMMA TypeStep ==
    ASSUME TypeOK, CountersOK, [Next]_vars
    PROVE  TypeOK'
<1> USE MainInThreads, Finite DEF TypeOK, Goto, poolVars, threadVars, ghosts
<1>1. ASSUME NEW t \in Threads, ReleaseOne(t) \/ CheckPaused(t)
      PROVE  TypeOK'
    BY <1>1 DEF ReleaseOne, CheckPaused, WorkerPCs, MainPCs, CallPCs, SpawnPCs
<1>2. ASSUME NEW t \in Threads, Notify(t) \/ MakeUpNotify(t)
      PROVE  TypeOK'
    BY <1>2 DEF Notify, NotifyOne, Asleep, MakeUpNotify, WorkerPCs, MainPCs, CallPCs, SpawnPCs
<1>3. ASSUME NEW t \in Threads, OpenGate(t)
      PROVE  TypeOK'
    BY <1>3 DEF OpenGate, WorkerPCs, MainPCs, CallPCs, SpawnPCs
<1>4. ASSUME NEW t \in Threads, MakeUp(t)
      PROVE  TypeOK'
    BY <1>4 DEF MakeUp, WorkerPCs, MainPCs, CallPCs, SpawnPCs
<1>5. ASSUME NEW t \in Threads, MadeUp(t)
      PROVE  TypeOK'
    BY <1>5 DEF MadeUp, WorkerPCs, MainPCs, CallPCs, SpawnPCs
<1>6. ASSUME NEW t \in Threads, Create(t) \/ Reserve(t)
      PROVE  TypeOK'
    BY <1>6 DEF Create, Unborn, Reserve, Spawned, WorkerPCs, MainPCs, CallPCs, SpawnPCs
<1>7. ASSUME NEW t \in Threads, Register(t)
      PROVE  TypeOK'
    <2>1. t \in At(Creating)
        BY <1>7 DEF Register, At, Creating
    <2>2. At(Creating) \in SUBSET Threads
        BY DEF At
    <2>3. IsFiniteSet(At(Creating)) /\ Cardinality(At(Creating)) \in Nat /\ At(Creating) # {}
        BY <2>1, <2>2, Finite
    <2>4. spawning - 1 \in Nat
        BY <2>3, FS_EmptySet DEF CountersOK
    <2>5. workers' \in SUBSET Workers
        BY <1>7 DEF Register
    <2> QED
        BY <1>7, <2>4, <2>5 DEF Register, Spawned, WorkerPCs, MainPCs, CallPCs, SpawnPCs
<1>8. ASSUME NEW t \in Threads, Push(t)
      PROVE  TypeOK'
    BY <1>8 DEF Push, WorkerPCs, MainPCs, CallPCs, SpawnPCs
<1>9. ASSUME NEW t \in Threads, StopProcessing(t)
      PROVE  TypeOK'
    BY <1>9 DEF StopProcessing, WorkerPCs, MainPCs, CallPCs, SpawnPCs
<1>10. ASSUME NEW t \in Threads, StartProcessing(t)
      PROVE  TypeOK'
    <2>1. pc' \in [Threads -> WorkerPCs \cup MainPCs]
        BY <1>10 DEF StartProcessing, WorkerPCs, CallPCs
    <2>2. (\A w \in Workers : pc'[w] \in WorkerPCs) /\ pc'[Main] \in MainPCs
        BY <1>10 DEF StartProcessing, WorkerPCs, MainPCs, CallPCs
    <2>3. drains' \in [Workers -> Nat] /\ pauses' \in Nat
        BY <1>10 DEF StartProcessing
    <2>4. paused' \in BOOLEAN
        BY <1>10, Zenon DEF StartProcessing
    <2> QED
        BY <1>10, <2>1, <2>2, <2>3, <2>4 DEF StartProcessing
<1>11. ASSUME NEW w \in Workers, TryAcquire(w)
      PROVE  TypeOK'
    BY <1>11 DEF TryAcquire, WorkerPCs, MainPCs, CallPCs, SpawnPCs
<1>12. ASSUME NEW w \in Workers, Sleep(w) \/ Top(w) \/ Gate(w) \/ SpuriousWake(w)
             \/ CheckShutdown(w) \/ EndTurn(w)
      PROVE  TypeOK'
    BY <1>12 DEF Sleep, Top, Gate, SpuriousWake, CheckShutdown, EndTurn, WorkerPCs, MainPCs,
       CallPCs, SpawnPCs
<1>13. ASSUME NEW w \in Workers, TakeTurn(w)
      PROVE  TypeOK'
    BY <1>13 DEF TakeTurn, WorkerPCs, MainPCs, CallPCs, SpawnPCs
<1>14. ASSUME NEW w \in Workers, FindNothing(w)
      PROVE  TypeOK'
    BY <1>14 DEF FindNothing, WorkerPCs, MainPCs, CallPCs, SpawnPCs
<1>15. ASSUME NEW w \in Workers, CountFree(w) \/ EnterBlockingIO(w)
      PROVE  TypeOK'
    BY <1>15 DEF CountFree, EnterBlockingIO, WorkerPCs, MainPCs, CallPCs, SpawnPCs
<1>16. ASSUME NEW w \in Workers, LeaveBlockingIO(w)
      PROVE  TypeOK'
    <2>1. w \in At(Blocked) \ {Main}
        BY <1>16 DEF LeaveBlockingIO, At, Blocked
    <2>2. At(Blocked) \ {Main} \in SUBSET Threads
        BY DEF At
    <2>3. /\ IsFiniteSet(At(Blocked) \ {Main})
          /\ Cardinality(At(Blocked) \ {Main}) \in Nat
          /\ At(Blocked) \ {Main} # {}
        BY <2>1, <2>2, Finite
    <2>4. Cardinality(At(Blocked) \ {Main}) # 0
        BY <2>3, FS_EmptySet
    <2>5. blockedInIO - 1 \in Nat
        BY <2>3, <2>4 DEF CountersOK
    <2> QED
        BY <1>16, <2>5 DEF LeaveBlockingIO, WorkerPCs, MainPCs, CallPCs, SpawnPCs
<1>17. ASSUME NEW w \in Workers, Help(w)
      PROVE  TypeOK'
    BY <1>17 DEF Help, WorkerPCs, MainPCs, CallPCs, SpawnPCs
<1>18. ASSUME Boot \/ Destroy \/ WakeAll
      PROVE  TypeOK'
    BY <1>18 DEF Boot, Destroy, WakeAll, WorkerPCs, MainPCs, CallPCs, SpawnPCs
<1>19. ASSUME Close
      PROVE  TypeOK'
    BY <1>19 DEF Close, WorkerPCs, MainPCs, CallPCs, SpawnPCs
<1>20. ASSUME WakeAllNotify
      PROVE  TypeOK'
    BY <1>20 DEF WakeAllNotify, NotifyOne, Asleep, WorkerPCs, MainPCs, CallPCs, SpawnPCs
<1>21. ASSUME Join
      PROVE  TypeOK'
    BY <1>21 DEF Join, WorkerPCs, MainPCs, CallPCs, SpawnPCs
<1>22. CASE UNCHANGED vars
    BY <1>22 DEF vars, WorkerPCs, MainPCs, CallPCs, SpawnPCs
<1> QED
    BY <1>1, <1>2, <1>3, <1>4, <1>5, <1>6, <1>7, <1>8, <1>9, <1>10, <1>11, <1>12,
       <1>13, <1>14, <1>15, <1>16, <1>17, <1>18, <1>19, <1>20, <1>21, <1>22,
       MainInThreads
       DEF Next, MainStep, CallStep, WorkerStep, Choice, Threads

\* A step that nobody enters or leaves newThread or a blocking call in.
LEMMA SameCounts ==
    ASSUME CountersOK, UNCHANGED <<spawning, blockedInIO>>,
           \A u \in Threads : pc'[u] \in Creating <=> pc[u] \in Creating,
           \A u \in Workers : pc'[u] \in Blocked <=> pc[u] \in Blocked
    PROVE  CountersOK'
<1>1. At(Creating)' = At(Creating)
    BY NobodyMoves
<1>2. (At(Blocked) \ {Main})' = At(Blocked) \ {Main}
    BY MainInThreads DEF At, Threads
<1> QED
    BY <1>1, <1>2 DEF CountersOK

\* Every step keeps spawning and blockedInIO what they count.
LEMMA CounterStep ==
    ASSUME TypeOK, CountersOK, [Next]_vars
    PROVE  CountersOK'
<1> USE MainInThreads DEF TypeOK, Goto, poolVars
<1>1. ASSUME NEW t \in Threads, ReleaseOne(t) \/ CheckPaused(t)
      PROVE  CountersOK'
    <2>1. /\ UNCHANGED <<spawning, blockedInIO>>
          /\ \A u \in Threads : pc'[u] \in Creating <=> pc[u] \in Creating
          /\ \A u \in Workers : pc'[u] \in Blocked <=> pc[u] \in Blocked
        BY <1>1 DEF ReleaseOne, CheckPaused, Creating, Blocked, SpawnPCs
    <2> QED
        BY <2>1, SameCounts
<1>2. ASSUME NEW t \in Threads, Notify(t) \/ MakeUpNotify(t)
      PROVE  CountersOK'
    <2>1. /\ UNCHANGED <<spawning, blockedInIO>>
          /\ \A u \in Threads : pc'[u] \in Creating <=> pc[u] \in Creating
          /\ \A u \in Workers : pc'[u] \in Blocked <=> pc[u] \in Blocked
        BY <1>2 DEF Notify, NotifyOne, Asleep, MakeUpNotify, Creating, Blocked, SpawnPCs
    <2> QED
        BY <2>1, SameCounts
<1>3. ASSUME NEW t \in Threads, OpenGate(t)
      PROVE  CountersOK'
    <2>1. /\ UNCHANGED <<spawning, blockedInIO>>
          /\ \A u \in Threads : pc'[u] \in Creating <=> pc[u] \in Creating
          /\ \A u \in Workers : pc'[u] \in Blocked <=> pc[u] \in Blocked
        BY <1>3 DEF OpenGate, Creating, Blocked, SpawnPCs
    <2> QED
        BY <2>1, SameCounts
<1>4. ASSUME NEW t \in Threads, MakeUp(t) \/ MadeUp(t)
      PROVE  CountersOK'
    <2>1. /\ UNCHANGED <<spawning, blockedInIO>>
          /\ \A u \in Threads : pc'[u] \in Creating <=> pc[u] \in Creating
          /\ \A u \in Workers : pc'[u] \in Blocked <=> pc[u] \in Blocked
        BY <1>4 DEF MakeUp, MadeUp, Creating, Blocked, SpawnPCs
    <2> QED
        BY <2>1, SameCounts
<1>5. ASSUME NEW t \in Threads, Reserve(t)
      PROVE  CountersOK'
    <2>1. (At(Blocked) \ {Main})' = At(Blocked) \ {Main}
        BY <1>5 DEF Reserve, Spawned, Blocked, SpawnPCs, At
    <2>2. CASE shutdown
        <3>1. At(Creating)' = At(Creating)
            BY <1>5, <2>2, NobodyMoves DEF Reserve, Spawned, Creating
        <3> QED
            BY <1>5, <2>1, <2>2, <3>1 DEF CountersOK, Reserve
    <2>3. CASE ~shutdown
        <3>1. pc[t] \notin Creating /\ "create" \in Creating /\ pc' = [pc EXCEPT ![t] = "create"]
            BY <1>5, <2>3 DEF Reserve, Creating
        <3>2. Cardinality(At(Creating)') = Cardinality(At(Creating)) + 1
            BY <3>1, OneMoves
        <3> QED
            BY <1>5, <2>1, <2>3, <3>2 DEF CountersOK, Reserve
    <2> QED
        BY <2>2, <2>3
<1>6. ASSUME NEW t \in Threads, Create(t)
      PROVE  CountersOK'
    <2>1. /\ UNCHANGED <<spawning, blockedInIO>>
          /\ \A u \in Threads : pc'[u] \in Creating <=> pc[u] \in Creating
          /\ \A u \in Workers : pc'[u] \in Blocked <=> pc[u] \in Blocked
        BY <1>6 DEF Create, Unborn, Creating, Blocked, SpawnPCs
    <2> QED
        BY <2>1, SameCounts
<1>7. ASSUME NEW t \in Threads, Register(t)
      PROVE  CountersOK'
    <2>1. (At(Blocked) \ {Main})' = At(Blocked) \ {Main}
        BY <1>7 DEF Register, Spawned, Blocked, SpawnPCs, At
    <2>2. /\ pc[t] \in Creating
          /\ Spawned(t) \notin Creating
          /\ pc' = [pc EXCEPT ![t] = Spawned(t)]
        BY <1>7 DEF Register, Spawned, Creating
    <2>3. Cardinality(At(Creating)') = Cardinality(At(Creating)) - 1
        BY <2>2, OneMoves
    <2> QED
        BY <1>7, <2>1, <2>3 DEF CountersOK, Register
<1>8. ASSUME NEW t \in Threads, Push(t)
      PROVE  CountersOK'
    <2>1. /\ UNCHANGED <<spawning, blockedInIO>>
          /\ \A u \in Threads : pc'[u] \in Creating <=> pc[u] \in Creating
          /\ \A u \in Workers : pc'[u] \in Blocked <=> pc[u] \in Blocked
        BY <1>8 DEF Push, Creating, Blocked, SpawnPCs
    <2> QED
        BY <2>1, SameCounts
<1>9. ASSUME NEW t \in Threads, StopProcessing(t) \/ StartProcessing(t)
      PROVE  CountersOK'
    <2>1. /\ UNCHANGED <<spawning, blockedInIO>>
          /\ \A u \in Threads : pc'[u] \in Creating <=> pc[u] \in Creating
          /\ \A u \in Workers : pc'[u] \in Blocked <=> pc[u] \in Blocked
        BY <1>9 DEF StopProcessing, StartProcessing, Creating, Blocked, SpawnPCs
    <2> QED
        BY <2>1, SameCounts
<1>10. ASSUME NEW w \in Workers, TryAcquire(w)
      PROVE  CountersOK'
    <2>1. /\ UNCHANGED <<spawning, blockedInIO>>
          /\ \A u \in Threads : pc'[u] \in Creating <=> pc[u] \in Creating
          /\ \A u \in Workers : pc'[u] \in Blocked <=> pc[u] \in Blocked
        BY <1>10 DEF TryAcquire, Creating, Blocked, SpawnPCs
    <2> QED
        BY <2>1, SameCounts
<1>11. ASSUME NEW w \in Workers, Sleep(w) \/ Top(w) \/ Gate(w) \/ SpuriousWake(w)
             \/ CheckShutdown(w) \/ EndTurn(w)
      PROVE  CountersOK'
    <2>1. /\ UNCHANGED <<spawning, blockedInIO>>
          /\ \A u \in Threads : pc'[u] \in Creating <=> pc[u] \in Creating
          /\ \A u \in Workers : pc'[u] \in Blocked <=> pc[u] \in Blocked
        BY <1>11 DEF Sleep, Top, Gate, SpuriousWake, CheckShutdown, EndTurn, Creating, Blocked,
           SpawnPCs
    <2> QED
        BY <2>1, SameCounts
<1>12. ASSUME NEW w \in Workers, TakeTurn(w)
      PROVE  CountersOK'
    <2>1. /\ UNCHANGED <<spawning, blockedInIO>>
          /\ \A u \in Threads : pc'[u] \in Creating <=> pc[u] \in Creating
          /\ \A u \in Workers : pc'[u] \in Blocked <=> pc[u] \in Blocked
        BY <1>12 DEF TakeTurn, Creating, Blocked, SpawnPCs
    <2> QED
        BY <2>1, SameCounts
<1>13. ASSUME NEW w \in Workers, FindNothing(w)
      PROVE  CountersOK'
    <2>1. /\ UNCHANGED <<spawning, blockedInIO>>
          /\ \A u \in Threads : pc'[u] \in Creating <=> pc[u] \in Creating
          /\ \A u \in Workers : pc'[u] \in Blocked <=> pc[u] \in Blocked
        BY <1>13 DEF FindNothing, Creating, Blocked, SpawnPCs
    <2> QED
        BY <2>1, SameCounts
<1>14. ASSUME NEW w \in Workers, CountFree(w)
      PROVE  CountersOK'
    <2>1. /\ UNCHANGED <<spawning, blockedInIO>>
          /\ \A u \in Threads : pc'[u] \in Creating <=> pc[u] \in Creating
          /\ \A u \in Workers : pc'[u] \in Blocked <=> pc[u] \in Blocked
        BY <1>14 DEF CountFree, Creating, Blocked, SpawnPCs
    <2> QED
        BY <2>1, SameCounts
<1>15. ASSUME NEW w \in Workers, LeaveBlockingIO(w)
      PROVE  CountersOK'
    <2>1. At(Blocked) \ {Main} \in SUBSET Threads
        BY DEF At
    <2>2. IsFiniteSet(At(Blocked) \ {Main}) /\ Cardinality(At(Blocked) \ {Main}) \in Nat
        BY <2>1, Finite
    <2>3. At(Creating)' = At(Creating)
        BY <1>15, NobodyMoves DEF LeaveBlockingIO, Creating
    <2>4. (At(Blocked) \ {Main})' = (At(Blocked) \ {Main}) \ {w} /\ w \in At(Blocked) \ {Main}
        BY <1>15 DEF LeaveBlockingIO, Blocked, SpawnPCs, At
    <2>5. Cardinality((At(Blocked) \ {Main})') = Cardinality(At(Blocked) \ {Main}) - 1
        BY <2>2, <2>4, OneLess, Zenon
    <2>6. blockedInIO' = blockedInIO - 1 /\ spawning' = spawning
        BY <1>15 DEF LeaveBlockingIO
    <2> QED
        BY <2>3, <2>5, <2>6 DEF CountersOK
<1>16. ASSUME NEW w \in Workers, Help(w)
      PROVE  CountersOK'
    <2>1. /\ UNCHANGED <<spawning, blockedInIO>>
          /\ \A u \in Threads : pc'[u] \in Creating <=> pc[u] \in Creating
          /\ \A u \in Workers : pc'[u] \in Blocked <=> pc[u] \in Blocked
        BY <1>16 DEF Help, Creating, Blocked, SpawnPCs
    <2> QED
        BY <2>1, SameCounts
<1>17. ASSUME NEW w \in Workers, EnterBlockingIO(w)
      PROVE  CountersOK'
    <2>1. At(Blocked) \ {Main} \in SUBSET Threads
        BY DEF At
    <2>2. IsFiniteSet(At(Blocked) \ {Main}) /\ Cardinality(At(Blocked) \ {Main}) \in Nat
        BY <2>1, Finite
    <2>3. At(Creating)' = At(Creating)
        BY <1>17, NobodyMoves DEF EnterBlockingIO, Creating
    <2>4. (At(Blocked) \ {Main})' = (At(Blocked) \ {Main}) \cup {w} /\ w \notin At(Blocked) \ {Main}
        BY <1>17 DEF EnterBlockingIO, Blocked, SpawnPCs, At
    <2>5. Cardinality((At(Blocked) \ {Main})') = Cardinality(At(Blocked) \ {Main}) + 1
        BY <2>2, <2>4, FS_AddElement
    <2>6. blockedInIO' = blockedInIO + 1 /\ spawning' = spawning
        BY <1>17 DEF EnterBlockingIO
    <2> QED
        BY <2>3, <2>5, <2>6 DEF CountersOK
<1>18. ASSUME Boot \/ Destroy \/ WakeAll
      PROVE  CountersOK'
    <2>1. /\ UNCHANGED <<spawning, blockedInIO>>
          /\ \A u \in Threads : pc'[u] \in Creating <=> pc[u] \in Creating
          /\ \A u \in Workers : pc'[u] \in Blocked <=> pc[u] \in Blocked
        BY <1>18 DEF Boot, Destroy, WakeAll, Creating, Blocked, SpawnPCs
    <2> QED
        BY <2>1, SameCounts
<1>19. ASSUME Close
      PROVE  CountersOK'
    <2>1. /\ UNCHANGED <<spawning, blockedInIO>>
          /\ \A u \in Threads : pc'[u] \in Creating <=> pc[u] \in Creating
          /\ \A u \in Workers : pc'[u] \in Blocked <=> pc[u] \in Blocked
        BY <1>19 DEF Close, Creating, Blocked, SpawnPCs
    <2> QED
        BY <2>1, SameCounts
<1>20. ASSUME WakeAllNotify
      PROVE  CountersOK'
    <2>1. /\ UNCHANGED <<spawning, blockedInIO>>
          /\ \A u \in Threads : pc'[u] \in Creating <=> pc[u] \in Creating
          /\ \A u \in Workers : pc'[u] \in Blocked <=> pc[u] \in Blocked
        BY <1>20 DEF WakeAllNotify, NotifyOne, Asleep, Creating, Blocked, SpawnPCs
    <2> QED
        BY <2>1, SameCounts
<1>21. ASSUME Join
      PROVE  CountersOK'
    <2>1. /\ UNCHANGED <<spawning, blockedInIO>>
          /\ \A u \in Threads : pc'[u] \in Creating <=> pc[u] \in Creating
          /\ \A u \in Workers : pc'[u] \in Blocked <=> pc[u] \in Blocked
        BY <1>21 DEF Join, Creating, Blocked, SpawnPCs
    <2> QED
        BY <2>1, SameCounts
<1>22. CASE UNCHANGED vars
    <2>1. /\ UNCHANGED <<spawning, blockedInIO>>
          /\ \A u \in Threads : pc'[u] \in Creating <=> pc[u] \in Creating
          /\ \A u \in Workers : pc'[u] \in Blocked <=> pc[u] \in Blocked
        BY <1>22 DEF vars, Creating, Blocked, SpawnPCs
    <2> QED
        BY <2>1, SameCounts
<1> QED
    BY <1>1, <1>2, <1>3, <1>4, <1>5, <1>6, <1>7, <1>8, <1>9, <1>10, <1>11, <1>12,
       <1>13, <1>14, <1>15, <1>16, <1>17, <1>18, <1>19, <1>20, <1>21, <1>22,
       MainInThreads
       DEF Next, MainStep, CallStep, WorkerStep, Choice, Threads

-----------------------------------------------------------------------------
(* The life of the workers and of the pool.                                *)

\* Every step keeps the order of the shutdown and of the workers' ends.
LEMMA EndsStep ==
    ASSUME TypeOK, EndsAfterShutdown, [Next]_vars
    PROVE  EndsAfterShutdown'
<1> USE MainInThreads DEF TypeOK, EndsAfterShutdown, Closing, Goto, threadVars
<1>1. ASSUME NEW t \in Threads, ReleaseOne(t) \/ CheckPaused(t)
      PROVE  EndsAfterShutdown'
    BY <1>1 DEF ReleaseOne, CheckPaused
<1>2. ASSUME NEW t \in Threads, Notify(t) \/ MakeUpNotify(t)
      PROVE  EndsAfterShutdown'
    BY <1>2 DEF Notify, NotifyOne, Asleep, MakeUpNotify
<1>3. ASSUME NEW t \in Threads, OpenGate(t)
      PROVE  EndsAfterShutdown'
    BY <1>3 DEF OpenGate
<1>4. ASSUME NEW t \in Threads, MakeUp(t) \/ MadeUp(t)
      PROVE  EndsAfterShutdown'
    BY <1>4 DEF MakeUp, MadeUp
<1>5. ASSUME NEW t \in Threads, Create(t) \/ Reserve(t) \/ Register(t)
      PROVE  EndsAfterShutdown'
    BY <1>5 DEF Create, Unborn, Reserve, Spawned, Register
<1>6. ASSUME NEW t \in Threads, Push(t)
      PROVE  EndsAfterShutdown'
    BY <1>6 DEF Push
<1>7. ASSUME NEW t \in Threads, StopProcessing(t) \/ StartProcessing(t)
      PROVE  EndsAfterShutdown'
    BY <1>7 DEF StopProcessing, StartProcessing
<1>8. ASSUME NEW w \in Workers, TryAcquire(w)
      PROVE  EndsAfterShutdown'
    BY <1>8 DEF TryAcquire
<1>9. ASSUME NEW w \in Workers, Sleep(w) \/ Top(w) \/ Gate(w) \/ SpuriousWake(w)
             \/ CheckShutdown(w) \/ EndTurn(w)
      PROVE  EndsAfterShutdown'
    BY <1>9 DEF Sleep, Top, Gate, SpuriousWake, CheckShutdown, EndTurn
<1>10. ASSUME NEW w \in Workers, TakeTurn(w)
      PROVE  EndsAfterShutdown'
    BY <1>10 DEF TakeTurn
<1>11. ASSUME NEW w \in Workers, FindNothing(w)
      PROVE  EndsAfterShutdown'
    BY <1>11 DEF FindNothing
<1>12. ASSUME NEW w \in Workers, CountFree(w) \/ EnterBlockingIO(w) \/ LeaveBlockingIO(w)
      PROVE  EndsAfterShutdown'
    BY <1>12 DEF CountFree, EnterBlockingIO, LeaveBlockingIO
<1>13. ASSUME NEW w \in Workers, Help(w)
      PROVE  EndsAfterShutdown'
    BY <1>13 DEF Help
<1>14. ASSUME Boot \/ Destroy \/ WakeAll
      PROVE  EndsAfterShutdown'
    BY <1>14 DEF Boot, Destroy, WakeAll
<1>15. ASSUME Close
      PROVE  EndsAfterShutdown'
    BY <1>15 DEF Close
<1>16. ASSUME WakeAllNotify
      PROVE  EndsAfterShutdown'
    BY <1>16 DEF WakeAllNotify, NotifyOne, Asleep
<1>17. ASSUME Join
      PROVE  EndsAfterShutdown'
    BY <1>17 DEF Join
<1>18. CASE UNCHANGED vars
    BY <1>18 DEF vars
<1> QED
    BY <1>1, <1>2, <1>3, <1>4, <1>5, <1>6, <1>7, <1>8, <1>9, <1>10, <1>11, <1>12,
       <1>13, <1>14, <1>15, <1>16, <1>17, <1>18, MainInThreads
       DEF Next, MainStep, CallStep, WorkerStep, Choice, Threads

\* When spawning is 0 no thread is inside newThread.
LEMMA NobodyCreates ==
    ASSUME TypeOK, CountersOK, spawning = 0, NEW t \in Threads
    PROVE  pc[t] \notin Creating
<1>1. IsFiniteSet(At(Creating))
    BY Finite DEF At
<1>2. At(Creating) = {}
    BY <1>1, FS_EmptySet DEF CountersOK
<1> QED
    BY <1>2 DEF At

\* Every step keeps track of the workers that run.
LEMMA LiveStep ==
    ASSUME TypeOK, LiveAreKnown, PoolIsFinal, [Next]_vars
    PROVE  LiveAreKnown'
<1> SUFFICES ASSUME NEW u \in Workers, pc'[u] # "unborn", pc'[Main] # "done"
             PROVE  u \in workers' \/ \E t \in Threads : pc'[t] = "register" /\ child'[t] = u
    BY DEF LiveAreKnown
<1> USE MainInThreads DEF TypeOK, LiveAreKnown, Goto, poolVars, threadVars
<1> DEFINE Known == u \in workers' \/ \E t \in Threads : pc'[t] = "register" /\ child'[t] = u
<1>1. ASSUME NEW t \in Threads, ReleaseOne(t) \/ CheckPaused(t)
      PROVE  Known
    BY <1>1 DEF ReleaseOne, CheckPaused
<1>2. ASSUME NEW t \in Threads, Notify(t) \/ MakeUpNotify(t)
      PROVE  Known
    BY <1>2 DEF Notify, NotifyOne, Asleep, MakeUpNotify
<1>3. ASSUME NEW t \in Threads, OpenGate(t)
      PROVE  Known
    BY <1>3 DEF OpenGate
<1>4. ASSUME NEW t \in Threads, MakeUp(t) \/ MadeUp(t)
      PROVE  Known
    BY <1>4 DEF MakeUp, MadeUp
<1>5. ASSUME NEW t \in Threads, Reserve(t)
      PROVE  Known
    BY <1>5 DEF Reserve, Spawned
<1>6. ASSUME NEW t \in Threads, Create(t)
      PROVE  Known
    <2>1. CASE child'[t] = u
        BY <1>6, <2>1 DEF Create, Unborn
    <2>2. CASE child'[t] # u
        <3>1. pc[u] # "unborn" /\ pc[Main] # "done" /\ pc[t] = "create"
            BY <1>6, <2>2 DEF Create, Unborn
        <3>2. u \in workers \/ \E s \in Threads : pc[s] = "register" /\ child[s] = u
            BY <3>1
        <3>3. workers' = workers
            BY <1>6 DEF Create
        <3>4. ASSUME NEW s \in Threads, pc[s] = "register", child[s] = u
              PROVE  pc'[s] = "register" /\ child'[s] = u
            BY <1>6, <3>1, <3>4 DEF Create, Unborn
        <3> QED
            BY <3>2, <3>3, <3>4
    <2> QED
        BY <2>1, <2>2
<1>7. ASSUME NEW t \in Threads, Register(t)
      PROVE  Known
    <2>1. pc[u] # "unborn" /\ pc[Main] # "done"
        BY <1>7 DEF Register, Spawned
    <2>2. CASE u \in workers
        BY <1>7, <2>2 DEF Register
    <2>3. CASE \E s \in Threads : pc[s] = "register" /\ child[s] = u
        <3>1. PICK s \in Threads : pc[s] = "register" /\ child[s] = u
            BY <2>3
        <3>2. CASE s = t
            BY <1>7, <3>1, <3>2, NoWorkerAssumption DEF Register
        <3>3. CASE s # t
            BY <1>7, <3>1, <3>3 DEF Register
        <3> QED
            BY <3>2, <3>3
    <2> QED
        BY <2>1, <2>2, <2>3
<1>8. ASSUME NEW t \in Threads, Push(t)
      PROVE  Known
    BY <1>8 DEF Push
<1>9. ASSUME NEW t \in Threads, StopProcessing(t) \/ StartProcessing(t)
      PROVE  Known
    BY <1>9 DEF StopProcessing, StartProcessing
<1>10. ASSUME NEW w \in Workers, TryAcquire(w)
      PROVE  Known
    BY <1>10 DEF TryAcquire
<1>11. ASSUME NEW w \in Workers, Sleep(w) \/ Top(w) \/ Gate(w) \/ SpuriousWake(w)
             \/ CheckShutdown(w) \/ EndTurn(w)
      PROVE  Known
    BY <1>11 DEF Sleep, Top, Gate, SpuriousWake, CheckShutdown, EndTurn
<1>12. ASSUME NEW w \in Workers, TakeTurn(w)
      PROVE  Known
    BY <1>12 DEF TakeTurn
<1>13. ASSUME NEW w \in Workers, FindNothing(w)
      PROVE  Known
    BY <1>13 DEF FindNothing
<1>14. ASSUME NEW w \in Workers, CountFree(w) \/ EnterBlockingIO(w) \/ LeaveBlockingIO(w)
      PROVE  Known
    BY <1>14 DEF CountFree, EnterBlockingIO, LeaveBlockingIO
<1>15. ASSUME NEW w \in Workers, Help(w)
      PROVE  Known
    BY <1>15 DEF Help
<1>16. ASSUME Boot \/ Destroy \/ WakeAll
      PROVE  Known
    BY <1>16 DEF Boot, Destroy, WakeAll
<1>17. ASSUME Close
      PROVE  Known
    BY <1>17 DEF Close
<1>18. ASSUME WakeAllNotify
      PROVE  Known
    BY <1>18 DEF WakeAllNotify, NotifyOne, Asleep
<1>19. ASSUME Join
      PROVE  Known
    BY <1>19 DEF Join
<1>20. CASE UNCHANGED vars
    BY <1>20 DEF vars
<1> QED
    BY <1>1, <1>2, <1>3, <1>4, <1>5, <1>6, <1>7, <1>8, <1>9, <1>10, <1>11, <1>12,
       <1>13, <1>14, <1>15, <1>16, <1>17, <1>18, <1>19, <1>20, MainInThreads
       DEF Next, MainStep, CallStep, WorkerStep, Choice, Threads

\* When the destructor has taken every worker there is, nobody creates another.
LEMMA FinalStep ==
    ASSUME TypeOK, CountersOK, LiveAreKnown, EndsAfterShutdown, PoolIsFinal, [Next]_vars
    PROVE  PoolIsFinal'
<1> USE MainInThreads DEF TypeOK, PoolIsFinal, Closing, Ended, Goto, poolVars, threadVars
<1>1. ASSUME NEW t \in Threads, ReleaseOne(t) \/ CheckPaused(t)
      PROVE  PoolIsFinal'
    BY <1>1 DEF ReleaseOne, CheckPaused
<1>2. ASSUME NEW t \in Threads, Notify(t) \/ MakeUpNotify(t)
      PROVE  PoolIsFinal'
    BY <1>2 DEF Notify, NotifyOne, Asleep, MakeUpNotify
<1>3. ASSUME NEW t \in Threads, OpenGate(t)
      PROVE  PoolIsFinal'
    BY <1>3 DEF OpenGate
<1>4. ASSUME NEW t \in Threads, MakeUp(t) \/ MadeUp(t)
      PROVE  PoolIsFinal'
    BY <1>4 DEF MakeUp, MadeUp
<1>5. ASSUME NEW t \in Threads, Reserve(t)
      PROVE  PoolIsFinal'
    BY <1>5 DEF Reserve, Spawned
<1>6. ASSUME NEW t \in Threads, Create(t)
      PROVE  PoolIsFinal'
    <2>1. spawning # 0
        BY <1>6, NobodyCreates DEF Create, Creating
    <2>2. pc[Main] # "done"
        BY <1>6 DEF Create, Threads
    <2> QED
        BY <1>6, <2>1, <2>2 DEF Create, Unborn
<1>7. ASSUME NEW t \in Threads, Register(t)
      PROVE  PoolIsFinal'
    <2>1. spawning # 0
        BY <1>7, NobodyCreates DEF Register, Creating
    <2>2. pc[Main] # "done"
        BY <1>7 DEF Register, Threads
    <2> QED
        BY <1>7, <2>1, <2>2 DEF Register, Spawned
<1>8. ASSUME NEW t \in Threads, Push(t)
      PROVE  PoolIsFinal'
    BY <1>8 DEF Push
<1>9. ASSUME NEW t \in Threads, StopProcessing(t) \/ StartProcessing(t)
      PROVE  PoolIsFinal'
    BY <1>9 DEF StopProcessing, StartProcessing
<1>10. ASSUME NEW w \in Workers, TryAcquire(w)
      PROVE  PoolIsFinal'
    BY <1>10 DEF TryAcquire
<1>11. ASSUME NEW w \in Workers, Sleep(w) \/ Top(w) \/ Gate(w) \/ SpuriousWake(w)
             \/ CheckShutdown(w) \/ EndTurn(w)
      PROVE  PoolIsFinal'
    BY <1>11 DEF Sleep, Top, Gate, SpuriousWake, CheckShutdown, EndTurn
<1>12. ASSUME NEW w \in Workers, TakeTurn(w)
      PROVE  PoolIsFinal'
    BY <1>12 DEF TakeTurn
<1>13. ASSUME NEW w \in Workers, FindNothing(w)
      PROVE  PoolIsFinal'
    BY <1>13 DEF FindNothing
<1>14. ASSUME NEW w \in Workers, CountFree(w) \/ EnterBlockingIO(w) \/ LeaveBlockingIO(w)
      PROVE  PoolIsFinal'
    BY <1>14 DEF CountFree, EnterBlockingIO, LeaveBlockingIO
<1>15. ASSUME NEW w \in Workers, Help(w)
      PROVE  PoolIsFinal'
    BY <1>15 DEF Help
<1>16. ASSUME Boot \/ Destroy \/ WakeAll
      PROVE  PoolIsFinal'
    BY <1>16 DEF Boot, Destroy, WakeAll
<1>17. ASSUME Close
      PROVE  PoolIsFinal'
    <2>1. CASE pc'[Main] = "done"
        <3>1. workers = {} /\ pool' = {} /\ spawning = 0
            BY <1>17, <2>1 DEF Close
        <3>2. \A w \in Workers : pc[w] = "unborn"
            BY <1>17, <3>1, NobodyCreates DEF Close, Creating, LiveAreKnown
        <3> QED
            BY <1>17, <2>1, <3>1, <3>2 DEF Close
    <2>2. CASE pc'[Main] # "done"
        BY <1>17, <2>2 DEF Close
    <2> QED
        BY <2>1, <2>2
<1>18. ASSUME WakeAllNotify
      PROVE  PoolIsFinal'
    BY <1>18 DEF WakeAllNotify, NotifyOne, Asleep
<1>19. ASSUME Join
      PROVE  PoolIsFinal'
    <2>1. pool = workers /\ spawning = 0 /\ pc[Main] = "join"
        BY <1>19 DEF Join
    <2>2. \A w \in Workers : pc[w] # "unborn" => pc[w] = "exited"
        BY <1>19, <2>1, NobodyCreates DEF Join, Creating, LiveAreKnown
    <2>3. \A w \in Workers : pc'[w] = pc[w]
        BY <1>19 DEF Join
    <2>4. pool # {} => \E w \in Workers : pc'[w] = "exited"
        BY <1>19, <2>1, <2>3 DEF Join
    <2> QED
        BY <1>19, <2>2, <2>3, <2>4 DEF Join
<1>20. CASE UNCHANGED vars
    BY <1>20 DEF vars
<1> QED
    BY <1>1, <1>2, <1>3, <1>4, <1>5, <1>6, <1>7, <1>8, <1>9, <1>10, <1>11, <1>12,
       <1>13, <1>14, <1>15, <1>16, <1>17, <1>18, <1>19, <1>20, MainInThreads
       DEF Next, MainStep, CallStep, WorkerStep, Choice, Threads

\* The last worker to end leaves the ready stacks empty.
LEMMA LastStep ==
    ASSUME TypeOK, EndsAfterShutdown, LastWorkerDrains, [Next]_vars
    PROVE  LastWorkerDrains'
<1> USE MainInThreads DEF TypeOK, LastWorkerDrains, Ended, Goto
<1>1. ASSUME NEW t \in Threads, ReleaseOne(t) \/ CheckPaused(t)
      PROVE  LastWorkerDrains'
    BY <1>1 DEF ReleaseOne, CheckPaused
<1>2. ASSUME NEW t \in Threads, Notify(t) \/ MakeUpNotify(t)
      PROVE  LastWorkerDrains'
    BY <1>2 DEF Notify, NotifyOne, Asleep, MakeUpNotify
<1>3. ASSUME NEW t \in Threads, OpenGate(t)
      PROVE  LastWorkerDrains'
    BY <1>3 DEF OpenGate
<1>4. ASSUME NEW t \in Threads, MakeUp(t) \/ MadeUp(t)
      PROVE  LastWorkerDrains'
    BY <1>4 DEF MakeUp, MadeUp
<1>5. ASSUME NEW t \in Threads, Create(t) \/ Reserve(t) \/ Register(t)
      PROVE  LastWorkerDrains'
    BY <1>5 DEF Create, Unborn, Reserve, Spawned, Register
<1>6. ASSUME NEW t \in Threads, Push(t)
      PROVE  LastWorkerDrains'
    <2>1. CASE t = Main
        BY <1>6, <2>1 DEF Push, EndsAfterShutdown, Closing
    <2>2. CASE t \in Workers
        BY <1>6, <2>2 DEF Push
    <2> QED
        BY <2>1, <2>2 DEF Threads
<1>7. ASSUME NEW t \in Threads, StopProcessing(t) \/ StartProcessing(t)
      PROVE  LastWorkerDrains'
    BY <1>7 DEF StopProcessing, StartProcessing
<1>8. ASSUME NEW w \in Workers, TryAcquire(w)
      PROVE  LastWorkerDrains'
    BY <1>8 DEF TryAcquire
<1>9. ASSUME NEW w \in Workers, Sleep(w) \/ Top(w) \/ Gate(w) \/ SpuriousWake(w)
             \/ CheckShutdown(w) \/ EndTurn(w)
      PROVE  LastWorkerDrains'
    BY <1>9 DEF Sleep, Top, Gate, SpuriousWake, CheckShutdown, EndTurn
<1>10. ASSUME NEW w \in Workers, TakeTurn(w)
      PROVE  LastWorkerDrains'
    BY <1>10 DEF TakeTurn
<1>11. ASSUME NEW w \in Workers, FindNothing(w)
      PROVE  LastWorkerDrains'
    BY <1>11 DEF FindNothing
<1>12. ASSUME NEW w \in Workers, CountFree(w) \/ EnterBlockingIO(w) \/ LeaveBlockingIO(w)
      PROVE  LastWorkerDrains'
    BY <1>12 DEF CountFree, EnterBlockingIO, LeaveBlockingIO
<1>13. ASSUME NEW w \in Workers, Help(w)
      PROVE  LastWorkerDrains'
    BY <1>13 DEF Help
<1>14. ASSUME Boot \/ Destroy \/ WakeAll
      PROVE  LastWorkerDrains'
    BY <1>14 DEF Boot, Destroy, WakeAll
<1>15. ASSUME Close
      PROVE  LastWorkerDrains'
    BY <1>15 DEF Close
<1>16. ASSUME WakeAllNotify
      PROVE  LastWorkerDrains'
    BY <1>16 DEF WakeAllNotify, NotifyOne, Asleep
<1>17. ASSUME Join
      PROVE  LastWorkerDrains'
    BY <1>17 DEF Join
<1>18. CASE UNCHANGED vars
    BY <1>18 DEF vars
<1> QED
    BY <1>1, <1>2, <1>3, <1>4, <1>5, <1>6, <1>7, <1>8, <1>9, <1>10, <1>11, <1>12,
       <1>13, <1>14, <1>15, <1>16, <1>17, <1>18, MainInThreads
       DEF Next, MainStep, CallStep, WorkerStep, Choice, Threads

\* Every step keeps what the workers with a permit and the makers of permits are doing.
LEMMA LocalsStep ==
    ASSUME TypeOK, LocalsOK, [Next]_vars
    PROVE  LocalsOK'
<1> USE MainInThreads DEF TypeOK, LocalsOK, Goto, ghosts, threadVars
<1>1. ASSUME NEW t \in Threads, ReleaseOne(t) \/ CheckPaused(t)
      PROVE  LocalsOK'
    BY <1>1 DEF ReleaseOne, CheckPaused
<1>2. ASSUME NEW t \in Threads, Notify(t) \/ MakeUpNotify(t)
      PROVE  LocalsOK'
    BY <1>2 DEF Notify, NotifyOne, Asleep, MakeUpNotify
<1>3. ASSUME NEW t \in Threads, OpenGate(t)
      PROVE  LocalsOK'
    BY <1>3 DEF OpenGate
<1>4. ASSUME NEW t \in Threads, MakeUp(t) \/ MadeUp(t)
      PROVE  LocalsOK'
    BY <1>4 DEF MakeUp, MadeUp
<1>5. ASSUME NEW t \in Threads, Create(t) \/ Reserve(t) \/ Register(t)
      PROVE  LocalsOK'
    BY <1>5 DEF Create, Unborn, Reserve, Spawned, Register
<1>6. ASSUME NEW t \in Threads, Push(t)
      PROVE  LocalsOK'
    BY <1>6 DEF Push
<1>7. ASSUME NEW t \in Threads, StopProcessing(t) \/ StartProcessing(t)
      PROVE  LocalsOK'
    BY <1>7 DEF StopProcessing, StartProcessing
<1>8. ASSUME NEW w \in Workers, TryAcquire(w)
      PROVE  LocalsOK'
    BY <1>8 DEF TryAcquire
<1>9. ASSUME NEW w \in Workers, Sleep(w) \/ Top(w) \/ Gate(w) \/ SpuriousWake(w)
             \/ CheckShutdown(w) \/ EndTurn(w)
      PROVE  LocalsOK'
    BY <1>9 DEF Sleep, Top, Gate, SpuriousWake, CheckShutdown, EndTurn
<1>10. ASSUME NEW w \in Workers, TakeTurn(w)
      PROVE  LocalsOK'
    BY <1>10 DEF TakeTurn
<1>11. ASSUME NEW w \in Workers, FindNothing(w)
      PROVE  LocalsOK'
    BY <1>11 DEF FindNothing
<1>12. ASSUME NEW w \in Workers, CountFree(w) \/ EnterBlockingIO(w) \/ LeaveBlockingIO(w)
      PROVE  LocalsOK'
    BY <1>12 DEF CountFree, EnterBlockingIO, LeaveBlockingIO
<1>13. ASSUME NEW w \in Workers, Help(w)
      PROVE  LocalsOK'
    BY <1>13 DEF Help
<1>14. ASSUME Boot \/ Destroy \/ WakeAll
      PROVE  LocalsOK'
    BY <1>14 DEF Boot, Destroy, WakeAll
<1>15. ASSUME Close
      PROVE  LocalsOK'
    BY <1>15 DEF Close
<1>16. ASSUME WakeAllNotify
      PROVE  LocalsOK'
    BY <1>16 DEF WakeAllNotify, NotifyOne, Asleep
<1>17. ASSUME Join
      PROVE  LocalsOK'
    BY <1>17 DEF Join
<1>18. CASE UNCHANGED vars
    BY <1>18 DEF vars
<1> QED
    BY <1>1, <1>2, <1>3, <1>4, <1>5, <1>6, <1>7, <1>8, <1>9, <1>10, <1>11, <1>12,
       <1>13, <1>14, <1>15, <1>16, <1>17, <1>18, MainInThreads
       DEF Next, MainStep, CallStep, WorkerStep, Choice, Threads

-----------------------------------------------------------------------------
(* Work and the workers on their way to it.                                *)

\* The sizes that Covered and MakesUp compare are numbers.
LEMMA Sizes ==
    ASSUME TypeOK
    PROVE  /\ IsFiniteSet(unspent) /\ Cardinality(unspent) \in Nat
           /\ IsFiniteSet(workers) /\ Cardinality(workers) \in Nat
           /\ \A X : IsFiniteSet(At(X)) /\ Cardinality(At(X)) \in Nat
<1>1. unspent \in SUBSET Workers /\ workers \in SUBSET Workers
    BY DEF TypeOK
<1>2. \A X : At(X) \in SUBSET Threads
    BY DEF At
<1> QED
    BY <1>1, <1>2, Finite

\* A step that changes none of the sizes that are compared.
LEMMA SameCover ==
    ASSUME WorkIsCovered, UNCHANGED <<ready, permits, unspent, workers, made>>, paused' \/ ~paused,
           \A u \in Threads : /\ pc'[u] \in Coming <=> pc[u] \in Coming
                              /\ pc'[u] \in Idle <=> pc[u] \in Idle
                              /\ pc'[u] \in Starting <=> pc[u] \in Starting
    PROVE  WorkIsCovered'
<1>1. At(Coming)' = At(Coming) /\ At(Idle)' = At(Idle) /\ At(Starting)' = At(Starting)
    BY NobodyMoves
<1>2. Covered' <=> Covered
    BY <1>1 DEF Covered
<1>3. \A t : MakesUp(t)' <=> MakesUp(t)
    BY <1>1 DEF MakesUp
<1> QED
    BY <1>1, <1>2, <1>3 DEF WorkIsCovered

\* A step that adds no actor without a wakeup, and no idle worker without a permit.
LEMMA KeptCover ==
    ASSUME TypeOK, TypeOK', WorkIsCovered, paused' \/ ~paused,
           ready' + permits + Cardinality(unspent) + Cardinality(At(Coming))
               <= ready + permits' + Cardinality(unspent') + Cardinality(At(Coming)'),
           Cardinality(At(Idle)') + permits + Cardinality(At(Coming))
               <= Cardinality(At(Idle)) + permits' + Cardinality(At(Coming)'),
           Cardinality(workers) <= Cardinality(workers'),
           At(Starting)' = At(Starting), made' = made
    PROVE  WorkIsCovered'
<1> SUFFICES ASSUME ~paused' PROVE Covered' \/ \E t \in At(Starting)' : MakesUp(t)'
    BY DEF WorkIsCovered
<1> USE Sizes DEF TypeOK
<1>1. /\ Cardinality(unspent') \in Nat /\ Cardinality(workers') \in Nat
      /\ Cardinality(At(Coming)') \in Nat /\ Cardinality(At(Idle)') \in Nat
    <2>1. unspent' \in SUBSET Workers /\ workers' \in SUBSET Workers
        OBVIOUS
    <2>2. At(Coming)' \in SUBSET Threads /\ At(Idle)' \in SUBSET Threads
        BY DEF At
    <2> QED
        BY <2>1, <2>2, Finite
<1>2. /\ Cardinality(unspent) \in Nat /\ Cardinality(workers) \in Nat
      /\ Cardinality(At(Coming)) \in Nat /\ Cardinality(At(Idle)) \in Nat
    OBVIOUS
<1>3. ready \in Nat /\ permits \in Nat /\ ready' \in Nat /\ permits' \in Nat
    OBVIOUS
<1>4. CASE Covered
    <2>1. Covered'
        BY <1>1, <1>2, <1>3, <1>4 DEF Covered
    <2> QED
        BY <2>1
<1>5. CASE \E t \in At(Starting) : MakesUp(t)
    <2>1. PICK t \in At(Starting) : MakesUp(t)
        BY <1>5
    <2>2. made[t] \in Nat /\ made'[t] = made[t]
        BY <2>1 DEF At
    <2>3. MakesUp(t)'
        BY <1>1, <1>2, <1>3, <2>1, <2>2 DEF MakesUp
    <2> QED
        BY <2>1, <2>3
<1> QED
    BY <1>4, <1>5 DEF WorkIsCovered

\* startProcessing releases a permit for every registered worker: that is as many as
\* there are idle ones.  A worker that is not registered yet may be idle too, but
\* then the thread that created it is not.
LEMMA IdleAreFew ==
    ASSUME TypeOK, LiveAreKnown, PoolIsFinal, NEW t \in Threads, pc[t] = "run"
    PROVE  Cardinality(At(Idle)) <= Cardinality(workers)
<1> DEFINE S == At({"register"})
           f == [s \in S |-> child[s]]
           C == {child[s] : s \in S}
           B == (S \cup {t}) \ {Main}
           L == workers \cup C
<1>1. /\ IsFiniteSet(S) /\ Cardinality(S) \in Nat
      /\ IsFiniteSet(workers) /\ Cardinality(workers) \in Nat
      /\ IsFiniteSet(At(Idle)) /\ Cardinality(At(Idle)) \in Nat
    BY Sizes
<1>2. IsFiniteSet(C) /\ Cardinality(C) <= Cardinality(S) /\ Cardinality(C) \in Nat
    <2>1. f \in Surjection(S, C)
        BY DEF Surjection
    <2> QED
        BY <1>1, <2>1, FS_Surjection, FS_CardinalityType
<1>3. /\ IsFiniteSet(L) /\ Cardinality(L) \in Nat
      /\ Cardinality(L) <= Cardinality(workers) + Cardinality(S)
    <2>1. Cardinality(workers \cap C) \in Nat
        BY <1>1, FS_Intersection, FS_CardinalityType
    <2>2. /\ IsFiniteSet(L)
          /\ Cardinality(L) = Cardinality(workers) + Cardinality(C) - Cardinality(workers \cap C)
        BY <1>1, <1>2, FS_Union
    <2>3. Cardinality(L) \in Nat
        BY <2>2, FS_CardinalityType
    <2> HIDE DEF L, C, S
    <2> QED
        BY <1>1, <1>2, <2>1, <2>2, <2>3
<1>4. IsFiniteSet(B) /\ Cardinality(B) \in Nat /\ Cardinality(B) >= Cardinality(S)
    <2>1. t \notin S
        BY DEF At
    <2>2. IsFiniteSet(S \cup {t}) /\ Cardinality(S \cup {t}) = Cardinality(S) + 1
        BY <1>1, <2>1, FS_AddElement
    <2>3. IsFiniteSet(B) /\ Cardinality(B) = IF Main \in S \cup {t} THEN Cardinality(S \cup {t}) - 1
                                             ELSE Cardinality(S \cup {t})
        BY <2>2, FS_RemoveElement
    <2> HIDE DEF B, S
    <2> QED
        BY <1>1, <2>2, <2>3
<1>5. At(Idle) \cap B = {} /\ At(Idle) \cup B \in SUBSET L
    <2>1. pc[Main] # "done"
        BY MainInThreads DEF PoolIsFinal, Ended, Threads
    <2>2. pc[Main] \notin Idle
        BY DEF TypeOK, MainPCs, CallPCs, SpawnPCs, Idle
    <2>3. ASSUME NEW w \in Workers, pc[w] # "unborn" PROVE w \in L
        BY <2>1, <2>3 DEF LiveAreKnown, At
    <2>4. At(Idle) \cap B = {}
        BY DEF At, Idle
    <2>5. ASSUME NEW w \in At(Idle) \cup B PROVE w \in Workers /\ pc[w] # "unborn"
        BY <2>2, <2>5 DEF At, Idle, Threads
    <2> QED
        BY <2>3, <2>4, <2>5
<1>6. Cardinality(At(Idle) \cup B) = Cardinality(At(Idle)) + Cardinality(B)
    <2>1. Cardinality(At(Idle) \cap B) = 0
        BY <1>5, FS_EmptySet
    <2>2. Cardinality(At(Idle) \cup B)
              = Cardinality(At(Idle)) + Cardinality(B) - Cardinality(At(Idle) \cap B)
        BY <1>1, <1>4, FS_Union
    <2> HIDE DEF B
    <2> QED
        BY <1>1, <1>4, <2>1, <2>2
<1>7. Cardinality(At(Idle) \cup B) <= Cardinality(L)
    BY <1>3, <1>5, FS_Subset
<1> HIDE DEF B, L, S
<1> QED
    BY <1>1, <1>3, <1>4, <1>6, <1>7

\* Every step keeps the work covered.
LEMMA CoverStep ==
    ASSUME PoolInv, TypeOK', [Next]_vars
    PROVE  WorkIsCovered'
<1> USE MainInThreads, Sizes DEF PoolInv, TypeOK, Goto, poolVars, threadVars, ghosts
<1>1. ASSUME NEW t \in Threads, CheckPaused(t)
      PROVE  WorkIsCovered'
    <2>1. CASE paused
        BY <1>1, <2>1 DEF CheckPaused, WorkIsCovered
    <2>2. CASE ~paused
        <3>1. UNCHANGED <<ready, permits, unspent, workers, made, paused>>
            BY <1>1 DEF CheckPaused
        <3>2. \A u \in Threads : /\ pc'[u] \in Coming <=> pc[u] \in Coming
                                 /\ pc'[u] \in Idle <=> pc[u] \in Idle
                                 /\ pc'[u] \in Starting <=> pc[u] \in Starting
            BY <1>1, <2>2 DEF CheckPaused, Coming, Idle, Starting
        <3> QED
            BY <2>2, <3>1, <3>2, SameCover
    <2> QED
        BY <2>1, <2>2
<1>2. ASSUME NEW t \in Threads, ReleaseOne(t)
      PROVE  WorkIsCovered'
    <2>1. /\ pc' = [pc EXCEPT ![t] = "notify"] /\ permits' = permits + 1
          /\ UNCHANGED <<ready, unspent, workers, made, paused>>
          /\ pc[t] \in Coming /\ "notify" \notin Coming
        BY <1>2 DEF ReleaseOne, Coming
    <2>2. Cardinality(At(Coming)') = Cardinality(At(Coming)) - 1
        BY <2>1, OneLeaves
    <2>3. At(Idle)' = At(Idle) /\ At(Starting)' = At(Starting)
        BY <1>2, NobodyMoves DEF ReleaseOne, Idle, Starting
    <2> QED
        BY <2>1, <2>2, <2>3, KeptCover
<1>3. ASSUME NEW t \in Threads, Notify(t) \/ MakeUpNotify(t)
      PROVE  WorkIsCovered'
    <2>1. /\ UNCHANGED <<ready, permits, unspent, workers, made>>
          /\ paused' \/ ~paused
        BY <1>3 DEF Notify, NotifyOne, Asleep, MakeUpNotify
    <2>2. \A u \in Threads : /\ pc'[u] \in Coming <=> pc[u] \in Coming
                             /\ pc'[u] \in Idle <=> pc[u] \in Idle
                             /\ pc'[u] \in Starting <=> pc[u] \in Starting
        BY <1>3 DEF Notify, NotifyOne, Asleep, MakeUpNotify, Coming, Idle, Starting
    <2> QED
        BY <2>1, <2>2, SameCover
<1>4. ASSUME NEW t \in Threads, OpenGate(t)
      PROVE  WorkIsCovered'
    <2>1. /\ UNCHANGED <<ready, permits, unspent, workers, made>>
          /\ paused' \/ ~paused
        BY <1>4 DEF OpenGate
    <2>2. \A u \in Threads : /\ pc'[u] \in Coming <=> pc[u] \in Coming
                             /\ pc'[u] \in Idle <=> pc[u] \in Idle
                             /\ pc'[u] \in Starting <=> pc[u] \in Starting
        BY <1>4 DEF OpenGate, Coming, Idle, Starting
    <2> QED
        BY <2>1, <2>2, SameCover
<1>5. ASSUME NEW t \in Threads, MakeUp(t)
      PROVE  WorkIsCovered'
    <2>1. /\ permits' = permits + 1 /\ made' = [made EXCEPT ![t] = made[t] + 1]
          /\ UNCHANGED <<ready, unspent, workers, paused>>
        BY <1>5 DEF MakeUp
    <2>2. At(Idle)' = At(Idle) /\ At(Starting)' = At(Starting) /\ At(Coming)' = At(Coming)
        BY <1>5, NobodyMoves DEF MakeUp, Idle, Starting, Coming
    <2>3. Covered => Covered'
        BY <2>1, <2>2 DEF Covered
    <2>4. ASSUME NEW u \in At(Starting), MakesUp(u) PROVE MakesUp(u)'
        <3>1. u \in Threads /\ made[u] \in Nat /\ made'[u] <= made[u] + 1 /\ made'[u] \in Nat
            BY <2>1 DEF At
        <3> QED
            BY <2>1, <2>2, <2>4, <3>1 DEF MakesUp
    <2> QED
        BY <2>1, <2>2, <2>3, <2>4 DEF WorkIsCovered
<1>6. ASSUME NEW t \in Threads, MadeUp(t)
      PROVE  WorkIsCovered'
    <2>1. /\ made[t] >= Cardinality(workers)
          /\ UNCHANGED <<ready, permits, unspent, workers, paused>>
        BY <1>6 DEF MadeUp
    <2>2. /\ At(Idle)' = At(Idle) /\ At(Coming)' = At(Coming)
          /\ At(Starting)' = At(Starting) \ {t}
        <3>1. At(Idle)' = At(Idle) /\ At(Coming)' = At(Coming)
            BY <1>6, NobodyMoves DEF MadeUp, Idle, Coming
        <3>2. At(Starting)' = At(Starting) \ {t}
            BY <1>6 DEF MadeUp, Starting, At
        <3> QED
            BY <3>1, <3>2
    <2>3. Covered => Covered'
        BY <2>1, <2>2 DEF Covered
    <2>4. MakesUp(t) => Covered'
        BY <2>1, <2>2 DEF MakesUp, Covered
    <2>5. ASSUME NEW u \in At(Starting), MakesUp(u), u # t PROVE MakesUp(u)'
        <3>1. made'[u] = made[u]
            BY <1>6, <2>5 DEF MadeUp, At
        <3> QED
            BY <2>1, <2>2, <2>5, <3>1 DEF MakesUp
    <2> QED
        BY <2>1, <2>2, <2>3, <2>4, <2>5 DEF WorkIsCovered
<1>7. ASSUME NEW t \in Threads, Create(t) \/ Reserve(t)
      PROVE  WorkIsCovered'
    <2>1. /\ UNCHANGED <<ready, permits, unspent, workers, made>>
          /\ paused' \/ ~paused
        BY <1>7 DEF Create, Unborn, Reserve, Spawned
    <2>2. \A u \in Threads : /\ pc'[u] \in Coming <=> pc[u] \in Coming
                             /\ pc'[u] \in Idle <=> pc[u] \in Idle
                             /\ pc'[u] \in Starting <=> pc[u] \in Starting
        BY <1>7 DEF Create, Unborn, Reserve, Spawned, Coming, Idle, Starting
    <2> QED
        BY <2>1, <2>2, SameCover
<1>8. ASSUME NEW t \in Threads, Register(t)
      PROVE  WorkIsCovered'
    <2>1. UNCHANGED <<ready, permits, unspent, made, paused>> /\ workers \subseteq workers'
        BY <1>8 DEF Register
    <2>2. At(Idle)' = At(Idle) /\ At(Starting)' = At(Starting) /\ At(Coming)' = At(Coming)
        BY <1>8, NobodyMoves DEF Register, Spawned, Idle, Starting, Coming
    <2>3. Cardinality(workers) <= Cardinality(workers')
        BY <2>1, Finite, FS_Subset
    <2> QED
        BY <2>1, <2>2, <2>3, KeptCover
<1>9. ASSUME NEW t \in Threads, Push(t)
      PROVE  WorkIsCovered'
    <2>1. /\ pc' = [pc EXCEPT ![t] = "pushed"] /\ ready' = ready + 1
          /\ UNCHANGED <<permits, unspent, workers, made, paused>>
          /\ pc[t] \notin Coming /\ "pushed" \in Coming
        BY <1>9 DEF Push, Coming
    <2>2. Cardinality(At(Coming)') = Cardinality(At(Coming)) + 1
        BY <2>1, OneMoves
    <2>3. At(Idle)' = At(Idle) /\ At(Starting)' = At(Starting)
        BY <1>9, NobodyMoves DEF Push, Idle, Starting
    <2> QED
        BY <2>1, <2>2, <2>3, KeptCover
<1>10. ASSUME NEW t \in Threads, StopProcessing(t)
      PROVE  WorkIsCovered'
    BY <1>10 DEF StopProcessing, WorkIsCovered
<1>11. ASSUME NEW t \in Threads, StartProcessing(t)
      PROVE  WorkIsCovered'
    <2>1. /\ pc[t] = "run" /\ made[t] = 0
          /\ UNCHANGED <<permits, workers, made>>
        BY <1>11 DEF StartProcessing, LocalsOK
    <2>2. Cardinality(At(Idle)) <= Cardinality(workers)
        BY <2>1, IdleAreFew
    <2>3. /\ At(Idle)' = At(Idle) /\ At(Coming)' = At(Coming)
        BY <1>11, NobodyMoves DEF StartProcessing, Idle, Coming
    <2>4. t \in At(Starting)'
        BY <1>11 DEF StartProcessing, Starting, At
    <2>5. MakesUp(t)'
        BY <2>1, <2>2, <2>3 DEF MakesUp
    <2> QED
        BY <2>4, <2>5 DEF WorkIsCovered
<1>12. ASSUME NEW w \in Workers, TryAcquire(w)
      PROVE  WorkIsCovered'
    <2>1. /\ pc' = [pc EXCEPT ![w] = "top"] /\ permits' = permits - 1 /\ permits > 0
          /\ UNCHANGED <<ready, workers, made, paused>>
          /\ pc[w] \in Idle /\ "top" \notin Idle
        BY <1>12 DEF TryAcquire, Idle
    <2>2. Cardinality(At(Idle)') = Cardinality(At(Idle)) - 1
        BY <2>1, OneLeaves
    <2>3. w \notin unspent /\ unspent' = unspent \cup {w}
        BY <1>12 DEF TryAcquire, LocalsOK
    <2>4. Cardinality(unspent') = Cardinality(unspent) + 1
        BY <2>3, FS_AddElement
    <2>5. At(Coming)' = At(Coming) /\ At(Starting)' = At(Starting)
        BY <1>12, NobodyMoves DEF TryAcquire, Coming, Starting
    <2> QED
        BY <2>1, <2>2, <2>4, <2>5, KeptCover
<1>13. ASSUME NEW w \in Workers, Sleep(w) \/ Top(w) \/ Gate(w) \/ SpuriousWake(w)
             \/ CheckShutdown(w) \/ EndTurn(w)
      PROVE  WorkIsCovered'
    <2>1. /\ UNCHANGED <<ready, permits, unspent, workers, made>>
          /\ paused' \/ ~paused
        BY <1>13 DEF Sleep, Top, Gate, SpuriousWake, CheckShutdown, EndTurn
    <2>2. \A u \in Threads : /\ pc'[u] \in Coming <=> pc[u] \in Coming
                             /\ pc'[u] \in Idle <=> pc[u] \in Idle
                             /\ pc'[u] \in Starting <=> pc[u] \in Starting
        BY <1>13 DEF Sleep, Top, Gate, SpuriousWake, CheckShutdown, EndTurn, Coming, Idle,
           Starting
    <2> QED
        BY <2>1, <2>2, SameCover
<1>14. ASSUME NEW w \in Workers, TakeTurn(w)
      PROVE  WorkIsCovered'
    <2>1. ready' = ready - 1 /\ ready > 0 /\ UNCHANGED <<permits, workers, made, paused>>
        BY <1>14 DEF TakeTurn
    <2>2. /\ At(Idle)' = At(Idle) /\ At(Coming)' = At(Coming) /\ At(Starting)' = At(Starting)
        BY <1>14, NobodyMoves DEF TakeTurn, Idle, Coming, Starting
    <2>3. unspent' = unspent \ {w} /\ Cardinality(unspent') \in Nat
        BY <1>14, Finite DEF TakeTurn
    <2>4. Cardinality(unspent') = IF w \in unspent THEN Cardinality(unspent) - 1
                                  ELSE Cardinality(unspent)
        BY <2>3, FS_RemoveElement
    <2>5. Cardinality(unspent) <= Cardinality(unspent') + 1
        BY <2>3, <2>4
    <2> QED
        BY <2>1, <2>2, <2>3, <2>5, KeptCover
<1>15. ASSUME NEW w \in Workers, FindNothing(w)
      PROVE  WorkIsCovered'
    <2>1. ready' = 0
        BY <1>15 DEF FindNothing
    <2>2. unspent' \in SUBSET Workers /\ permits' \in Nat
        OBVIOUS
    <2>3. At(Coming)' \in SUBSET Threads
        BY DEF At
    <2>4. Cardinality(unspent') \in Nat /\ Cardinality(At(Coming)') \in Nat
        BY <2>2, <2>3, Finite
    <2>5. Covered'
        BY <2>1, <2>2, <2>4 DEF Covered
    <2> QED
        BY <2>5 DEF WorkIsCovered
<1>16. ASSUME NEW w \in Workers, CountFree(w) \/ EnterBlockingIO(w) \/ LeaveBlockingIO(w)
      PROVE  WorkIsCovered'
    <2>1. /\ UNCHANGED <<ready, permits, unspent, workers, made>>
          /\ paused' \/ ~paused
        BY <1>16 DEF CountFree, EnterBlockingIO, LeaveBlockingIO
    <2>2. \A u \in Threads : /\ pc'[u] \in Coming <=> pc[u] \in Coming
                             /\ pc'[u] \in Idle <=> pc[u] \in Idle
                             /\ pc'[u] \in Starting <=> pc[u] \in Starting
        BY <1>16 DEF CountFree, EnterBlockingIO, LeaveBlockingIO, Coming, Idle, Starting
    <2> QED
        BY <2>1, <2>2, SameCover
<1>17. ASSUME NEW w \in Workers, Help(w)
      PROVE  WorkIsCovered'
    <2>1. /\ ready' = ready - 1 /\ ready > 0
          /\ UNCHANGED <<permits, unspent, workers, made, paused, pc>>
        BY <1>17 DEF Help
    <2>2. At(Idle)' = At(Idle) /\ At(Coming)' = At(Coming) /\ At(Starting)' = At(Starting)
        BY <2>1 DEF At
    <2> QED
        BY <2>1, <2>2, KeptCover
<1>18. ASSUME Boot \/ Destroy
      PROVE  WorkIsCovered'
    <2>1. /\ UNCHANGED <<ready, permits, unspent, workers, made>>
          /\ paused' \/ ~paused
        BY <1>18 DEF Boot, Destroy
    <2>2. \A u \in Threads : /\ pc'[u] \in Coming <=> pc[u] \in Coming
                             /\ pc'[u] \in Idle <=> pc[u] \in Idle
                             /\ pc'[u] \in Starting <=> pc[u] \in Starting
        BY <1>18 DEF Boot, Destroy, Coming, Idle, Starting
    <2> QED
        BY <2>1, <2>2, SameCover
<1>19. ASSUME Close
      PROVE  WorkIsCovered'
    <2>1. /\ UNCHANGED <<ready, permits, unspent, workers, made>>
          /\ paused' \/ ~paused
        BY <1>19 DEF Close
    <2>2. \A u \in Threads : /\ pc'[u] \in Coming <=> pc[u] \in Coming
                             /\ pc'[u] \in Idle <=> pc[u] \in Idle
                             /\ pc'[u] \in Starting <=> pc[u] \in Starting
        BY <1>19 DEF Close, Coming, Idle, Starting
    <2> QED
        BY <2>1, <2>2, SameCover
<1>20. ASSUME WakeAll
      PROVE  WorkIsCovered'
    <2>1. IsFiniteSet(pool) /\ Cardinality(pool) \in Nat
        BY Finite
    <2>2. /\ permits' = permits + Cardinality(pool)
          /\ UNCHANGED <<ready, unspent, workers, made, paused>>
        BY <1>20 DEF WakeAll
    <2>3. At(Idle)' = At(Idle) /\ At(Coming)' = At(Coming) /\ At(Starting)' = At(Starting)
        BY <1>20, NobodyMoves DEF WakeAll, Idle, Coming, Starting
    <2> QED
        BY <2>1, <2>2, <2>3, KeptCover
<1>21. ASSUME WakeAllNotify
      PROVE  WorkIsCovered'
    <2>1. /\ UNCHANGED <<ready, permits, unspent, workers, made>>
          /\ paused' \/ ~paused
        BY <1>21 DEF WakeAllNotify, NotifyOne, Asleep
    <2>2. \A u \in Threads : /\ pc'[u] \in Coming <=> pc[u] \in Coming
                             /\ pc'[u] \in Idle <=> pc[u] \in Idle
                             /\ pc'[u] \in Starting <=> pc[u] \in Starting
        BY <1>21 DEF WakeAllNotify, NotifyOne, Asleep, Coming, Idle, Starting
    <2> QED
        BY <2>1, <2>2, SameCover
<1>22. ASSUME Join
      PROVE  WorkIsCovered'
    <2>1. pool = workers /\ spawning = 0 /\ pc[Main] = "join"
        BY <1>22 DEF Join, PoolIsFinal, Closing
    <2>2. \A w \in Workers : pc[w] \in Ended
        BY <1>22, <2>1, NobodyCreates DEF Join, Creating, LiveAreKnown, Ended
    <2>3. At(Idle)' = {}
        BY <1>22, <2>2 DEF Join, Ended, Idle, At, Threads
    <2>4. At(Coming)' \in SUBSET Threads
        BY DEF At
    <2>5. Cardinality(At(Idle)') = 0 /\ Cardinality(At(Coming)') \in Nat /\ permits' \in Nat
        BY <2>3, <2>4, Finite, FS_EmptySet
    <2>6. Covered'
        BY <2>5 DEF Covered
    <2> QED
        BY <2>6 DEF WorkIsCovered
<1>23. CASE UNCHANGED vars
    <2>1. /\ UNCHANGED <<ready, permits, unspent, workers, made>>
          /\ paused' \/ ~paused
        BY <1>23 DEF vars
    <2>2. \A u \in Threads : /\ pc'[u] \in Coming <=> pc[u] \in Coming
                             /\ pc'[u] \in Idle <=> pc[u] \in Idle
                             /\ pc'[u] \in Starting <=> pc[u] \in Starting
        BY <1>23 DEF vars, Coming, Idle, Starting
    <2> QED
        BY <2>1, <2>2, SameCover
<1> QED
    BY <1>1, <1>2, <1>3, <1>4, <1>5, <1>6, <1>7, <1>8, <1>9, <1>10, <1>11, <1>12,
       <1>13, <1>14, <1>15, <1>16, <1>17, <1>18, <1>19, <1>20, <1>21, <1>22, <1>23,
       MainInThreads
       DEF Next, MainStep, CallStep, WorkerStep, Choice, Threads

-----------------------------------------------------------------------------
(* The theorems.                                                           *)

\* The invariant holds when the constructor begins.
LEMMA PoolInit == Init => PoolInv
<1> SUFFICES ASSUME Init PROVE PoolInv
    OBVIOUS
<1> USE MainInThreads DEF Init
<1>1. TypeOK
    BY DEF TypeOK, WorkerPCs, MainPCs
<1>2. At(Creating) = {} /\ At(Blocked) \ {Main} = {} /\ At(Idle) = {} /\ At(Coming) = {}
    BY DEF At, Creating, Blocked, Idle, Coming, SpawnPCs
<1>3. CountersOK
    BY <1>2, FS_EmptySet DEF CountersOK
<1>4. WorkIsCovered
    <2>1. Covered
        BY <1>2, FS_EmptySet DEF Covered
    <2> QED
        BY <2>1 DEF WorkIsCovered
<1>5. LiveAreKnown /\ EndsAfterShutdown /\ PoolIsFinal /\ LastWorkerDrains /\ LocalsOK
    BY DEF LiveAreKnown, EndsAfterShutdown, PoolIsFinal, LastWorkerDrains, LocalsOK, Closing,
       Ended
<1> QED
    BY <1>1, <1>3, <1>4, <1>5 DEF PoolInv

\* The invariant holds in every state the pool reaches.
LEMMA PoolInvariance == Spec => []PoolInv
<1>1. PoolInv /\ [Next]_vars => PoolInv'
    <2> SUFFICES ASSUME PoolInv, [Next]_vars PROVE PoolInv'
        OBVIOUS
    <2>1. TypeOK' /\ CountersOK'
        BY TypeStep, CounterStep DEF PoolInv
    <2>2. LiveAreKnown' /\ EndsAfterShutdown' /\ PoolIsFinal' /\ LastWorkerDrains'
        BY LiveStep, EndsStep, FinalStep, LastStep DEF PoolInv
    <2>3. LocalsOK' /\ WorkIsCovered'
        BY <2>1, LocalsStep, CoverStep DEF PoolInv
    <2> QED
        BY <2>1, <2>2, <2>3 DEF PoolInv
<1> QED
    BY <1>1, PoolInit, PTL DEF Spec

\* When ~STRuntime has returned, every worker ever created has ended, the ones that were
\* being created when it began included, and no actor is left in the ready stacks.
THEOREM DestructorLeavesNothing == Spec => []NothingLeftBehind
<1>1. PoolInv => NothingLeftBehind
    BY DEF PoolInv, PoolIsFinal, LastWorkerDrains, Ended, NothingLeftBehind
<1> QED
    BY <1>1, PoolInvariance, PTL

\* enqueueReady and startProcessing wake enough workers: while the pool is neither paused
\* nor being restarted, an actor is queued without a wakeup only if no worker sleeps
\* without one.
THEOREM WorkWakesWorkers == Spec => []NoWorkerSleepsOnWork
<1>1. PoolInv => NoWorkerSleepsOnWork
    <2> SUFFICES ASSUME PoolInv, ~paused, At(Starting) = {}
                 PROVE  LET onTheWay == permits + Cardinality(unspent) + Cardinality(At(Coming))
                        IN  ready <= onTheWay \/ Cardinality(Asleep) <= onTheWay
        BY DEF NoWorkerSleepsOnWork, Starting, Coming
    <2>1. Covered
        BY DEF PoolInv, WorkIsCovered
    <2>2. /\ Cardinality(unspent) \in Nat /\ IsFiniteSet(At(Idle)) /\ Cardinality(At(Idle)) \in Nat
          /\ Cardinality(At(Coming)) \in Nat /\ permits \in Nat /\ ready \in Nat
        BY Sizes DEF PoolInv, TypeOK
    <2>3. Asleep \in SUBSET At(Idle)
        BY MainInThreads DEF Asleep, At, Idle
    <2>4. Cardinality(Asleep) <= Cardinality(At(Idle)) /\ Cardinality(Asleep) \in Nat
        BY <2>2, <2>3, FS_Subset, FS_CardinalityType
    <2> QED
        BY <2>1, <2>2, <2>4 DEF Covered
<1> QED
    BY <1>1, PoolInvariance, PTL

=============================================================================
