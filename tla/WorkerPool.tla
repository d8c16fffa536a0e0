----------------------------- MODULE WorkerPool -----------------------------
(***************************************************************************)
(* The threads that run the actors: STRuntime::workerLoop, the semaphore   *)
(* idle workers sleep on, the gate of stopProcessing and startProcessing,  *)
(* the workers added while others block in I/O, and the join of them all   *)
(* in ~STRuntime.                                                          *)
(*                                                                         *)
(* Only how many actors are queued matters here; which ones, and what a    *)
(* turn does to them, is ActorScheduler's.  A turn is the state "run", in  *)
(* which a worker may send, wait for another turn, block in I/O and pause  *)
(* or restart the pool.  A turn that throws ends like one that returns     *)
(* (drainOneReporting).  A step is one access to shared state, or one      *)
(* critical section.                                                       *)
(***************************************************************************)
EXTENDS Naturals, FiniteSets

CONSTANTS
    Main,         \* the thread that builds and destroys the runtime
    Workers,      \* the threads newThread can create
    Base,         \* baseWorkers
    MaxWorkers,   \* kMaxWorkers
    MaxSends,     \* bound: how many actors are ever queued
    Pausers,      \* the threads that use stopProcessing and startProcessing
    MaxPauses,    \* bound: how often they stop it or start it
    Blockers,     \* the workers whose turns block in I/O
    MayFail,      \* whether newThread may return nullptr
    NoWorker      \* that nullptr

Threads == Workers \cup {Main}

ASSUME MainAssumption == Main \notin Workers
ASSUME NoWorkerAssumption == NoWorker \notin Workers
ASSUME WorkersAssumption == IsFiniteSet(Workers)
ASSUME SizesAssumption ==
    /\ Base \in Nat /\ MaxWorkers \in Nat /\ MaxSends \in Nat /\ MaxPauses \in Nat
    /\ MayFail \in BOOLEAN
ASSUME RolesAssumption == Pausers \subseteq Threads /\ Blockers \subseteq Workers

VARIABLES
    ready,       \* how many actors the ready stacks hold
    permits,     \* workerSem
    paused,      \* processingPaused
    shutdown,
    workers,     \* the registered workers
    spawning,
    blockedInIO,
    \* threads; a local variable that goes out of scope has its initial value again
    pc,
    back,        \* where a worker goes when its turn ends
    blocked,     \* enterBlockingIO: what its fetch_add answered, plus one
    child,       \* spawnWorker: the thread newThread answered
    made,        \* startProcessing: the permits it has released
    booted,      \* constructor: the workers it has tried to spawn
    pool,        \* ~STRuntime: the workers it joins
    \* history
    sends, pauses,
    unspent,     \* workers that took a permit and have not looked for work since
    drains       \* turns a worker's loop has begun since the pool was paused

threadVars == <<back, blocked, child, made, booted, pool>>
poolVars   == <<workers, spawning, blockedInIO>>
ghosts     == <<sends, pauses, unspent, drains>>
vars == <<ready, permits, paused, shutdown, poolVars, pc, threadVars, ghosts>>

\* The states of a thread that runs Smalltalk code, or a primitive called by it.
CallPCs == {"run", "pushed", "release", "notify", "unpaused", "makeup", "makeupNotify"}
SpawnPCs == {"reserve", "create", "register"}
WorkerPCs == CallPCs \cup SpawnPCs \cup
    {"unborn", "top", "gate", "gated", "drain", "check", "final", "spin",
     "acquire", "asleep", "exited", "count", "io"}
MainPCs == CallPCs \cup SpawnPCs \cup
    {"boot", "close", "wakeAll", "wakeAllNotify", "join", "done"}

\* workers.size() + spawning.
Total == Cardinality(workers) + spawning

TypeOK ==
    /\ ready \in Nat
    /\ permits \in Nat
    /\ paused \in BOOLEAN
    /\ shutdown \in BOOLEAN
    /\ workers \in SUBSET Workers
    /\ spawning \in Nat
    /\ blockedInIO \in Nat
    /\ pc \in [Threads -> WorkerPCs \cup MainPCs]
    /\ \A w \in Workers : pc[w] \in WorkerPCs
    /\ pc[Main] \in MainPCs
    /\ back \in [Workers -> {"drain", "final", "top"}]
    /\ blocked \in [Workers -> Nat]
    /\ child \in [Threads -> Workers \cup {NoWorker}]
    /\ made \in [Threads -> Nat]
    /\ booted \in Nat
    /\ pool \in SUBSET Workers
    /\ sends \in Nat
    /\ pauses \in Nat
    /\ unspent \in SUBSET Workers
    /\ drains \in [Workers -> Nat]

Init ==
    /\ ready = 0
    /\ permits = 0
    /\ paused = FALSE
    /\ shutdown = FALSE
    /\ workers = {}
    /\ spawning = 0
    /\ blockedInIO = 0
    /\ pc = [t \in Threads |-> IF t = Main THEN "boot" ELSE "unborn"]
    /\ back = [w \in Workers |-> "drain"]
    /\ blocked = [w \in Workers |-> 0]
    /\ child = [t \in Threads |-> NoWorker]
    /\ made = [t \in Threads |-> 0]
    /\ booted = 0
    /\ pool = {}
    /\ sends = 0
    /\ pauses = 0
    /\ unspent = {}
    /\ drains = [w \in Workers |-> 0]

Goto(t, from, to) == pc[t] = from /\ pc' = [pc EXCEPT ![t] = to]

-----------------------------------------------------------------------------
(* Semaphore: a thread sleeps only while the count is 0, and every release *)
(* notifies.                                                               *)

Asleep == {w \in Workers : pc[w] = "asleep"}

TryAcquire(w) ==
    /\ permits > 0
    /\ Goto(w, "acquire", "top")
    /\ permits' = permits - 1
    /\ unspent' = unspent \cup {w}
    /\ UNCHANGED <<ready, paused, shutdown, poolVars, threadVars, sends, pauses, drains>>

\* count_.wait(0): the kernel compares the count with 0 and sleeps in one step.
Sleep(w) ==
    /\ permits = 0
    /\ Goto(w, "acquire", "asleep")
    /\ UNCHANGED <<ready, permits, paused, shutdown, poolVars, threadVars, ghosts>>

\* notify_one on behalf of thread t, which then goes on at the state to.
NotifyOne(t, from, to) ==
    /\ pc[t] = from
    /\ \/ \E w \in Asleep : pc' = [pc EXCEPT ![t] = to, ![w] = "acquire"]
       \/ Asleep = {} /\ pc' = [pc EXCEPT ![t] = to]

-----------------------------------------------------------------------------
(* enqueueReady, called by a SEND, a settle or the end of a turn: push,    *)
(* then wake one worker unless the pool is paused.                         *)

Push(t) ==
    /\ sends < MaxSends
    /\ Goto(t, "run", "pushed")
    /\ ready' = ready + 1
    /\ sends' = sends + 1
    /\ UNCHANGED <<permits, paused, shutdown, poolVars, threadVars, pauses, unspent, drains>>

\* processingPaused is read after the push.
CheckPaused(t) ==
    /\ Goto(t, "pushed", IF paused THEN "run" ELSE "release")
    /\ UNCHANGED <<ready, permits, paused, shutdown, poolVars, threadVars, ghosts>>

ReleaseOne(t) ==
    /\ Goto(t, "release", "notify")
    /\ permits' = permits + 1
    /\ UNCHANGED <<ready, paused, shutdown, poolVars, threadVars, ghosts>>

\* A release that notifies nobody.
NotifyNobody(t) ==
    /\ Goto(t, "notify", "run")
    /\ UNCHANGED <<ready, permits, paused, shutdown, poolVars, threadVars, ghosts>>

Notify(t) ==
    /\ NotifyOne(t, "notify", "run")
    /\ UNCHANGED <<ready, permits, paused, shutdown, poolVars, threadVars, ghosts>>

-----------------------------------------------------------------------------
(* stopProcessing and startProcessing.                                     *)

StopProcessing(t) ==
    /\ t \in Pausers
    /\ pauses < MaxPauses
    /\ Goto(t, "run", "run")
    /\ paused' = TRUE
    /\ pauses' = pauses + 1
    /\ drains' = [w \in Workers |-> 0]
    /\ UNCHANGED <<ready, permits, shutdown, poolVars, threadVars, sends, unspent>>

\* The flag is cleared under pauseMutex.
StartProcessing(t) ==
    /\ t \in Pausers
    /\ pauses < MaxPauses
    /\ Goto(t, "run", "unpaused")
    /\ paused' = FALSE
    /\ pauses' = pauses + 1
    /\ drains' = [w \in Workers |-> 0]
    /\ UNCHANGED <<ready, permits, shutdown, poolVars, threadVars, sends, unspent>>

\* pauseCV.notify_all
OpenGate(t) ==
    /\ pc[t] = "unpaused"
    /\ pc' = [u \in Threads |-> IF u = t THEN "makeup"
                                ELSE IF pc[u] = "gated" THEN "gate" ELSE pc[u]]
    /\ UNCHANGED <<ready, permits, paused, shutdown, poolVars, threadVars, ghosts>>

\* One permit for every worker, for the actors queued while the pool was paused.
MakeUp(t) ==
    /\ made[t] < Cardinality(workers)
    /\ Goto(t, "makeup", "makeupNotify")
    /\ permits' = permits + 1
    /\ made' = [made EXCEPT ![t] = @ + 1]
    /\ UNCHANGED <<ready, paused, shutdown, poolVars, back, blocked, child, booted, pool, ghosts>>

MakeUpNotify(t) ==
    /\ NotifyOne(t, "makeupNotify", "makeup")
    /\ UNCHANGED <<ready, permits, paused, shutdown, poolVars, threadVars, ghosts>>

\* startProcessing without the permits.
MadeUpAtOnce(t) ==
    /\ Goto(t, "makeup", "run")
    /\ made' = [made EXCEPT ![t] = 0]
    /\ UNCHANGED <<ready, permits, paused, shutdown, poolVars, back, blocked, child, booted,
                   pool, ghosts>>

MadeUp(t) ==
    /\ made[t] >= Cardinality(workers)
    /\ Goto(t, "makeup", "run")
    /\ made' = [made EXCEPT ![t] = 0]
    /\ UNCHANGED <<ready, permits, paused, shutdown, poolVars, back, blocked, child, booted,
                   pool, ghosts>>

-----------------------------------------------------------------------------
(* workerLoop.                                                             *)

\* The first test of the gate; the wait repeats it under pauseMutex.
Top(w) ==
    /\ Goto(w, "top", IF paused /\ ~shutdown THEN "gate" ELSE "drain")
    /\ UNCHANGED <<ready, permits, paused, shutdown, poolVars, threadVars, ghosts>>

\* pauseCV.wait: the predicate, then the sleep.
Gate(w) ==
    /\ Goto(w, "gate", IF paused /\ ~shutdown THEN "gated" ELSE "drain")
    /\ UNCHANGED <<ready, permits, paused, shutdown, poolVars, threadVars, ghosts>>

SpuriousWake(w) ==
    /\ Goto(w, "gated", "gate")
    /\ UNCHANGED <<ready, permits, paused, shutdown, poolVars, threadVars, ghosts>>

\* drainOne that finds an actor; the spin loop's goes back to the top after it.
TakeTurn(w) ==
    /\ pc[w] \in {"drain", "final", "spin"}
    /\ ready > 0
    /\ ready' = ready - 1
    /\ back' = [back EXCEPT ![w] = IF pc[w] = "spin" THEN "top" ELSE pc[w]]
    /\ pc' = [pc EXCEPT ![w] = "run"]
    /\ unspent' = unspent \ {w}
    /\ drains' = [drains EXCEPT ![w] = IF paused THEN @ + 1 ELSE @]
    /\ UNCHANGED <<permits, paused, shutdown, poolVars, blocked, child, made, booted, pool,
                   sends, pauses>>

EndTurn(w) ==
    /\ Goto(w, "run", back[w])
    /\ back' = [back EXCEPT ![w] = "drain"]
    /\ UNCHANGED <<ready, permits, paused, shutdown, poolVars, blocked, child, made, booted,
                   pool, ghosts>>

\* waitHelping: a turn that waits for a future it cannot yield for drains others.
Help(w) ==
    /\ pc[w] = "run"
    /\ ready > 0
    /\ ready' = ready - 1
    /\ UNCHANGED <<permits, paused, shutdown, poolVars, pc, threadVars, ghosts>>

\* drainOne that finds none.  Of the rounds of the spin loop the last counts:
\* one that finds nothing before it changes nothing.
FindNothing(w) ==
    /\ ready = 0
    /\ \/ Goto(w, "drain", "check")
       \/ Goto(w, "final", "exited")
       \/ Goto(w, "spin", "acquire")
    /\ unspent' = unspent \ {w}
    /\ UNCHANGED <<ready, permits, paused, shutdown, poolVars, threadVars, sends, pauses, drains>>

CheckShutdown(w) ==
    /\ Goto(w, "check", IF shutdown THEN "final" ELSE "spin")
    /\ UNCHANGED <<ready, permits, paused, shutdown, poolVars, threadVars, ghosts>>

-----------------------------------------------------------------------------
(* enterBlockingIO, leaveBlockingIO and spawnWorker.                       *)

EnterBlockingIO(w) ==
    /\ w \in Blockers
    /\ Goto(w, "run", "count")
    /\ blockedInIO' = blockedInIO + 1
    /\ blocked' = [blocked EXCEPT ![w] = blockedInIO + 1]
    /\ UNCHANGED <<ready, permits, paused, shutdown, workers, spawning, back, child, made,
                   booted, pool, ghosts>>

\* total - blocked is unsigned: a count of workers smaller than blocked wraps
\* round to a huge one.
TooFewFree(w) == Total < MaxWorkers /\ Total >= blocked[w] /\ Total - blocked[w] < Base

CountFree(w) ==
    /\ Goto(w, "count", IF TooFewFree(w) THEN "reserve" ELSE "io")
    /\ blocked' = [blocked EXCEPT ![w] = 0]
    /\ UNCHANGED <<ready, permits, paused, shutdown, poolVars, back, child, made, booted, pool,
                   ghosts>>

LeaveBlockingIO(w) ==
    /\ Goto(w, "io", "run")
    /\ blockedInIO' = blockedInIO - 1
    /\ UNCHANGED <<ready, permits, paused, shutdown, workers, spawning, threadVars, ghosts>>

\* Where spawnWorker returns to.
Spawned(t) == IF t = Main THEN "boot" ELSE "io"

Reserve(t) ==
    /\ Goto(t, "reserve", IF shutdown THEN Spawned(t) ELSE "create")
    /\ spawning' = IF shutdown THEN spawning ELSE spawning + 1
    /\ UNCHANGED <<ready, permits, paused, shutdown, workers, blockedInIO, threadVars, ghosts>>

\* newThread, without the mutex: the thread runs before it is registered.
Unborn == {w \in Workers : pc[w] = "unborn"}

Create(t) ==
    /\ pc[t] = "create"
    /\ \/ \E w \in Unborn : /\ pc' = [pc EXCEPT ![t] = "register", ![w] = "top"]
                            /\ child' = [child EXCEPT ![t] = w]
       \/ /\ MayFail \/ Unborn = {}
          /\ pc' = [pc EXCEPT ![t] = "register"]
          /\ child' = [child EXCEPT ![t] = NoWorker]
    /\ UNCHANGED <<ready, permits, paused, shutdown, poolVars, back, blocked, made, booted,
                   pool, ghosts>>

Register(t) ==
    /\ Goto(t, "register", Spawned(t))
    /\ workers' = workers \cup ({child[t]} \ {NoWorker})
    /\ spawning' = spawning - 1
    /\ child' = [child EXCEPT ![t] = NoWorker]
    /\ UNCHANGED <<ready, permits, paused, shutdown, blockedInIO, back, blocked, made, booted,
                   pool, ghosts>>

-----------------------------------------------------------------------------
(* The constructor and ~STRuntime.                                         *)

Boot ==
    /\ Goto(Main, "boot", IF booted < Base THEN "reserve" ELSE "run")
    /\ booted' = IF booted < Base THEN booted + 1 ELSE booted
    /\ UNCHANGED <<ready, permits, paused, shutdown, poolVars, back, blocked, child, made,
                   pool, ghosts>>

\* The main program ends and the runtime is destroyed.
Destroy ==
    /\ Goto(Main, "run", "close")
    /\ UNCHANGED <<ready, permits, paused, shutdown, poolVars, threadVars, ghosts>>

\* Takes the pool without waiting for workers being created.
CloseAtOnce ==
    /\ pc[Main] = "close"
    /\ shutdown' = TRUE
    /\ pool' = workers
    /\ pc' = [pc EXCEPT ![Main] = IF workers = {} THEN "done" ELSE "wakeAll"]
    /\ UNCHANGED <<ready, permits, paused, poolVars, back, blocked, child, made, booted, ghosts>>

\* shutdown is set under workersMutex; a worker being created is waited for.
Close ==
    /\ pc[Main] = "close"
    /\ shutdown' = TRUE
    /\ pool' = IF spawning = 0 THEN workers ELSE pool
    /\ pc' = [pc EXCEPT ![Main] = IF spawning # 0 THEN "close"
                                  ELSE IF workers = {} THEN "done" ELSE "wakeAll"]
    /\ UNCHANGED <<ready, permits, paused, poolVars, back, blocked, child, made, booted, ghosts>>

\* Joins the workers without waking them.
WakeAllNone ==
    /\ Goto(Main, "wakeAll", "wakeAllNotify")
    /\ UNCHANGED <<ready, permits, paused, shutdown, poolVars, threadVars, ghosts>>

\* One permit for every worker.
WakeAll ==
    /\ Goto(Main, "wakeAll", "wakeAllNotify")
    /\ permits' = permits + Cardinality(pool)
    /\ UNCHANGED <<ready, paused, shutdown, poolVars, threadVars, ghosts>>

WakeAllNotify ==
    /\ \/ /\ Cardinality(pool) = 1
          /\ NotifyOne(Main, "wakeAllNotify", "join")
       \/ /\ Cardinality(pool) > 1
          /\ pc[Main] = "wakeAllNotify"
          /\ pc' = [t \in Threads |-> IF t = Main THEN "join"
                                      ELSE IF pc[t] = "asleep" THEN "acquire" ELSE pc[t]]
    /\ UNCHANGED <<ready, permits, paused, shutdown, poolVars, threadVars, ghosts>>

Join ==
    /\ \A w \in pool : pc[w] = "exited"
    /\ Goto(Main, "join", "done")
    /\ workers' = {}
    /\ UNCHANGED <<ready, permits, paused, shutdown, spawning, blockedInIO, threadVars, ghosts>>

-----------------------------------------------------------------------------
\* What a thread does inside enqueueReady, startProcessing or spawnWorker.
CallStep(t) ==
    \/ CheckPaused(t) \/ ReleaseOne(t) \/ Notify(t)
    \/ OpenGate(t) \/ MakeUp(t) \/ MakeUpNotify(t) \/ MadeUp(t)
    \/ Reserve(t) \/ Create(t) \/ Register(t)

\* What a worker does by itself, its turns' ends included.
WorkerStep(w) ==
    \/ CallStep(w)
    \/ TryAcquire(w) \/ Sleep(w)
    \/ Top(w) \/ Gate(w) \/ TakeTurn(w) \/ EndTurn(w) \/ FindNothing(w) \/ CheckShutdown(w)
    \/ CountFree(w) \/ LeaveBlockingIO(w)

MainStep == CallStep(Main) \/ Boot \/ Close \/ WakeAll \/ WakeAllNotify \/ Join

\* What the program decides.
Choice(t) == Push(t) \/ StopProcessing(t) \/ StartProcessing(t)

Next ==
    \/ MainStep \/ Destroy \/ Choice(Main)
    \/ \E w \in Workers : WorkerStep(w) \/ Choice(w) \/ Help(w) \/ EnterBlockingIO(w)
                          \/ SpuriousWake(w)

Spec == Init /\ [][Next]_vars

\* Every thread that can go on does: the operating system runs them all, I/O
\* returns, and a turn ends whatever it has done.  Nothing makes the main program
\* end, a condition variable wake without a notify, or a turn send.
FairSpec ==
    /\ Spec
    /\ WF_vars(MainStep)
    /\ \A w \in Workers : WF_vars(WorkerStep(w)) /\ SF_vars(EndTurn(w))

-----------------------------------------------------------------------------
(* Properties.                                                             *)

At(states) == {t \in Threads : pc[t] \in states}

\* enqueueReady and startProcessing wake enough workers: unless the pool is
\* paused or being restarted, no worker sleeps for which there is an actor to
\* run, counting a permit, or a worker that woke and has yet to look, for each.
NoWorkerSleepsOnWork ==
    (~paused /\ At({"unpaused", "makeup", "makeupNotify"}) = {}) =>
        LET onTheWay == permits + Cardinality(unspent) + Cardinality(At({"pushed", "release"}))
        IN  ready <= onTheWay \/ Cardinality(Asleep) <= onTheWay

\* When ~STRuntime has returned, no worker runs any more, not even one that was
\* being created when it began, and, if there was one, no actor is left queued.
NothingLeftBehind ==
    pc[Main] = "done" => /\ \A w \in Workers : pc[w] \in {"unborn", "exited"}
                         /\ pool # {} => ready = 0

\* ~STRuntime returns: every worker finds out about the shutdown and is joined.
DestructorReturns == (pc[Main] = "close") ~> (pc[Main] = "done")

\* The same for a pool that is not paused.
RunningPoolIsJoined == (pc[Main] = "close" /\ ~paused) ~> (pc[Main] = "done" \/ paused)

\* A queued actor does not wait for ever: the pool comes to the end of its work,
\* unless it is paused or not one of its threads could be created.
WorkIsDone == (ready > 0) ~> (ready = 0 \/ paused \/ workers \cup pool = {})

\* STRuntime.h, stopProcessing: workers in flight finish their current drainOne,
\* but no new drains start while the pool is paused.  A worker that was already
\* past the gate may begin one turn after the flag is set, not a second.
NoDrainsWhilePaused ==
    paused => \A w \in Workers : drains[w] <= 1

\* STRuntime.h, enterBlockingIO: it adds a worker when fewer than the configured
\* number would remain free, up to a cap.
EnoughRemainFree ==
    (~shutdown /\ pc[Main] = "run" /\ At({"count"} \cup SpawnPCs) = {}) =>
        \/ Total >= MaxWorkers
        \/ Total >= blockedInIO + Base

\* The same sentence's "up to a cap": the pool never has more than kMaxWorkers.
WithinCap == Total <= MaxWorkers

=============================================================================
