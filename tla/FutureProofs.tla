---------------------------- MODULE FutureProofs ----------------------------
(***************************************************************************)
(* Proofs about a future's settle against its callbacks and its waiters,   *)
(* for any numbers of futures, threads and callbacks.                      *)
(***************************************************************************)
EXTENDS Future, TLAPS

-----------------------------------------------------------------------------
(* The inductive invariant.                                                *)

WaitPC     == {"observeWait", "forgetWait", "help", "mark", "poll", "acquire", "unmark"}
RunPC      == WaitPC \cup {"run"}
RegisterPC == {"observe", "forget", "read", "append"}
SettlePC   == {"checkObserved", "record", "claim"}
OwnPC      == {"write", "drainCbs", "fire", "publish", "notify"}

\* The thread has won the CAS of settleFuture and has not returned from it: it may be
\* in the middle of a callback it fires, and that callback in the middle of a wait.
Owns(t) == pc[t] \in OwnPC \/ ret[t] = "fire"

\* The thread runs a callback, its own or one it fires.
Running(t) == pc[t] \in RunPC /\ cb[t] # NoCallback

\* What a thread's locals hold at each of its steps.
LocalsOK ==
    \A t \in Threads :
      /\ pc[t] \in SettlePC \cup RegisterPC \cup OwnPC \/ Running(t) => fut[t] \in Futures
      /\ pc[t] \in RegisterPC \cup {"run", "help"} => cb[t] # NoCallback
      /\ cb[t] # NoCallback => pc[t] \in RegisterPC \cup RunPC
      /\ pc[t] \in WaitPC => awaited[t] \in Futures
      /\ pc[t] \in WaitPC /\ t # Main => cb[t] # NoCallback
      /\ ret[t] = "fire" => pc[t] \in RunPC /\ cb[t] # NoCallback
      /\ firing[t] # {} => pc[t] = "fire" \/ ret[t] = "fire"
      /\ context[t] # "none" => t \in Workers

\* One thread settles a future, and what it has done so far shows in the future.
SettleOK ==
    /\ \A t, u \in Threads : Owns(t) /\ Owns(u) /\ fut[t] = fut[u] => t = u
    /\ \A t \in Threads : Owns(t) =>
         /\ fut[t] \in settling
         /\ outcome[fut[t]] = IF pc[t] = "write" THEN "none" ELSE kind[t]
         /\ state[fut[t]] = IF pc[t] = "notify" THEN kind[t] ELSE "pending"
         /\ <<fut[t], kind[t]>> \in drained <=> pc[t] \notin {"write", "drainCbs"}
    /\ \A f \in Futures : outcome[f] # "none" => f \in settling
    /\ \A f \in Futures : state[f] # "pending" => state[f] = outcome[f] /\ <<f, state[f]>> \in drained
    /\ \A l \in drained : outcome[l[1]] = l[2]

\* A callback runs only on the outcome it was given for.
RunningOK == \A t \in Threads : Running(t) => outcome[fut[t]] = kind[t]

\* The thread has the callback in its hands.
Has(t, c) == c \in firing[t] \/ cb[t] = c

\* A callback that has not run is in one place: the hands of one thread ...
HandsOK(c) ==
    /\ \A t, u \in Threads : Has(t, c) /\ Has(u, c) => t = u
    /\ \A t \in Threads : Has(t, c) => /\ ~(c \in firing[t] /\ cb[t] = c)
                                       /\ on[c] = <<fut[t], kind[t]>>
                                       /\ c \notin cbs[on[c]]
                                       /\ ran[c] = 0

\* ... or the list it was given to, which has not been drained.
ListsOK(c) ==
    \A l \in Futures \X Lists : c \in cbs[l] => on[c] = l /\ ran[c] = 0 /\ l \notin drained

\* ... or the snapshot of the actor whose settle has run it.
HalfOK(c) ==
    c \in half => on[c] \in drained /\ ran[c] = 0 /\ \A t \in Threads : ~Has(t, c)

\* A callback is dropped only when its future gets the other outcome.
KeptOK(c) ==
    /\ on[c] = NoFuture => ran[c] = 0
    /\ on[c] # NoFuture => \/ ran[c] = 1
                           \/ \E t \in Threads : Has(t, c)
                           \/ c \in cbs[on[c]]
                           \/ c \in half
                           \/ state[on[c][1]] \notin {"pending", on[c][2]}

PlacesOK == \A c \in Callbacks : HandsOK(c) /\ ListsOK(c) /\ HalfOK(c) /\ KeptOK(c)

\* The main thread's mark, as long as nobody else has written it.
MarkOK ==
    ~intruded =>
      /\ \A t \in Threads \ {Main} : pc[t] \notin {"poll", "acquire", "unmark"}
      /\ mainWaitingOn = IF pc[Main] \in {"poll", "acquire", "unmark"} THEN awaited[Main] ELSE NoFuture

FutureInv == /\ TypeOK /\ LocalsOK /\ SettleOK /\ RunningOK /\ PlacesOK /\ RunsOnce
             /\ MarkOK /\ MainIsWoken

-----------------------------------------------------------------------------
(* Steps.                                                                  *)

\* What the steps need of the locals.
LEMMA LocalFacts ==
    ASSUME TypeOK, LocalsOK, NEW t \in Threads
    PROVE  /\ pc[t] \in SettlePC \cup RegisterPC \cup OwnPC => fut[t] \in Futures
           /\ pc[t] \in WaitPC => awaited[t] \in Futures
           /\ pc[t] \in RegisterPC \cup {"run", "help"} => cb[t] \in Callbacks
           /\ cb[t] # NoCallback => cb[t] \in Callbacks
           /\ pc[t] \in RunPC /\ cb[t] # NoCallback => fut[t] \in Futures
BY DEF TypeOK, LocalsOK, Running

\* The end of a callback keeps the types of what it assigns.
LEMMA EndCallbackTypes ==
    ASSUME TypeOK, NEW t \in Threads, NEW from, EndCallback(t, from), cb[t] \in Callbacks
    PROVE  /\ ran' \in [Callbacks -> Nat]
           /\ pc' \in [Threads -> PCs]
           /\ context' \in [Threads -> Contexts]
           /\ fut' \in [Threads -> Futures \cup {NoFuture}]
           /\ kind' \in [Threads -> Outcomes]
           /\ cb' \in [Threads -> Callbacks \cup {NoCallback}]
           /\ firing' = firing
           /\ awaited' \in [Threads -> Futures \cup {NoFuture}]
           /\ ret' \in [Threads -> {"idle", "fire"}]
<1>1. ran' = [ran EXCEPT ![cb[t]] = @ + 1] /\ ran[cb[t]] \in Nat
    BY DEF EndCallback, TypeOK
<1>2. ran' \in [Callbacks -> Nat]
    BY <1>1 DEF TypeOK
<1>3. CASE ret[t] = "fire"
    BY <1>2, <1>3 DEF EndCallback, Goto, TypeOK, PCs, Contexts
<1>4. CASE ret[t] = "idle"
    <2>1. Return(t, from)
        BY <1>4 DEF EndCallback
    <2>2. /\ pc' = [pc EXCEPT ![t] = "idle"]
          /\ context' = [context EXCEPT ![t] = "none"]
          /\ fut' = [fut EXCEPT ![t] = NoFuture]
          /\ kind' = [kind EXCEPT ![t] = "value"]
          /\ cb' = [cb EXCEPT ![t] = NoCallback]
          /\ awaited' = [awaited EXCEPT ![t] = NoFuture]
          /\ UNCHANGED <<firing, ret>>
        BY <2>1 DEF Return, Goto
    <2> QED
        BY <1>2, <2>2 DEF TypeOK, PCs, Contexts, Outcomes
<1> QED
    BY <1>3, <1>4 DEF TypeOK

\* Every step keeps the types.
LEMMA TypeStep ==
    ASSUME TypeOK, LocalsOK, [Next]_vars
    PROVE  TypeOK'
<1> USE DEF TypeOK, PCs, Contexts, Lists, Outcomes, Goto, RegisterPC, SettlePC, OwnPC, WaitPC
<1>1. ASSUME NEW t \in Threads, CheckObserved(t) \/ Record(t) \/ Fired(t)
      PROVE  TypeOK'
    BY <1>1, LocalFacts DEF CheckObserved, Record, Fired, futureVars, callVars, obsVars, mainVars,
       threadVars
<1>2. ASSUME NEW t \in Threads, Claim(t)
      PROVE  TypeOK'
    BY <1>2, LocalFacts DEF Claim, futureVars, callVars, obsVars, mainVars, threadVars
<1>3. ASSUME NEW t \in Threads, ClaimLost(t)
      PROVE  TypeOK'
    BY <1>3 DEF ClaimLost, Return, futureVars, callVars, obsVars, mainVars, threadVars
<1>4. ASSUME NEW t \in Threads, WriteOutcome(t)
      PROVE  TypeOK'
    BY <1>4, LocalFacts DEF WriteOutcome, futureVars, callVars, obsVars, mainVars, threadVars
<1>5. ASSUME NEW t \in Threads, DrainCallbacks(t)
      PROVE  TypeOK'
    BY <1>5, LocalFacts DEF DrainCallbacks, futureVars, callVars, obsVars, mainVars, threadVars
<1>6. ASSUME NEW t \in Threads, NEW c \in Callbacks, Fire(t, c)
      PROVE  TypeOK'
    BY <1>6 DEF Fire, futureVars, callVars, obsVars, mainVars, threadVars
<1>7. ASSUME NEW t \in Threads, Publish(t)
      PROVE  TypeOK'
    BY <1>7, LocalFacts DEF Publish, futureVars, callVars, obsVars, mainVars, threadVars
<1>8. ASSUME NEW t \in Threads, Notify(t)
      PROVE  TypeOK'
    BY <1>8 DEF Notify, Return, futureVars, callVars, obsVars, mainVars, threadVars
<1>9. ASSUME NEW t \in Threads, Observe(t) \/ Forget(t)
      PROVE  TypeOK'
    BY <1>9, LocalFacts DEF Observe, Forget, futureVars, callVars, obsVars, mainVars, threadVars
<1>10. ASSUME NEW t \in Threads, ReadState(t)
      PROVE  TypeOK'
    BY <1>10 DEF ReadState, futureVars, callVars, obsVars, mainVars, threadVars
<1>11. ASSUME NEW t \in Threads, ReadOther(t)
      PROVE  TypeOK'
    BY <1>11 DEF ReadOther, Return, futureVars, callVars, obsVars, mainVars, threadVars
<1>12. ASSUME NEW t \in Threads, Append(t)
      PROVE  TypeOK'
    BY <1>12, LocalFacts DEF Append, Return, futureVars, callVars, obsVars, mainVars, threadVars
<1>13. ASSUME NEW t \in Threads, AppendDrained(t)
      PROVE  TypeOK'
    BY <1>13 DEF AppendDrained, futureVars, callVars, obsVars, mainVars, threadVars
<1>14. ASSUME NEW t \in Threads, Run(t)
      PROVE  TypeOK'
    <2>1. cb[t] \in Callbacks /\ EndCallback(t, "run")
        BY <1>14, LocalFacts DEF Run, EndCallback
    <2> QED
        BY <1>14, <2>1, EndCallbackTypes DEF Run, futureVars, callVars, obsVars, mainVars
<1>15. ASSUME NEW t \in Threads, ObserveWait(t) \/ ForgetWait(t)
      PROVE  TypeOK'
    <2>1. CASE ObserveWait(t)
        BY <2>1, LocalFacts DEF ObserveWait, futureVars, callVars, mainVars, threadVars
    <2>2. CASE ForgetWait(t)
        BY <2>2, LocalFacts DEF ForgetWait, futureVars, callVars, mainVars, threadVars
    <2> QED
        BY <1>15, <2>1, <2>2
<1>16. ASSUME NEW t \in Threads, Help(t) \/ WaitError(t)
      PROVE  TypeOK'
    <2>1. cb[t] \in Callbacks /\ EndCallback(t, "help")
        BY <1>16, LocalFacts DEF Help, WaitError
    <2> QED
        BY <1>16, <2>1, EndCallbackTypes DEF Help, WaitError, futureVars, callVars, obsVars,
           mainVars
<1>17. ASSUME NEW t \in Threads, Mark(t)
      PROVE  TypeOK'
    BY <1>17, LocalFacts DEF Mark, futureVars, callVars, obsVars, mainVars, threadVars
<1>18. ASSUME NEW t \in Threads, Poll(t) \/ Acquire(t)
      PROVE  TypeOK'
    BY <1>18 DEF Poll, Acquire, futureVars, callVars, obsVars, mainVars, threadVars
<1>19. ASSUME NEW t \in Threads, Unmark(t)
      PROVE  TypeOK'
    <2>1. CASE cb[t] = NoCallback
        BY <1>19, <2>1, NoCallbackAssumption DEF Unmark, EndCallback, Return, futureVars,
           callVars, obsVars
    <2>2. CASE cb[t] # NoCallback
        <3>1. cb[t] \in Callbacks /\ EndCallback(t, "unmark")
            BY <1>19, <2>2 DEF Unmark
        <3> QED
            BY <1>19, <3>1, EndCallbackTypes DEF Unmark, futureVars, callVars, obsVars
    <2> QED
        BY <2>1, <2>2
<1>20. ASSUME NEW t \in Threads, NEW f \in Futures, NEW k \in Outcomes, Resolve(t, f, k)
      PROVE  TypeOK'
    BY <1>20 DEF Resolve, CallSettle, Enter, futureVars, callVars, obsVars, mainVars, threadVars
<1>21. ASSUME NEW t \in Threads, NEW f \in Futures, NEW k \in Outcomes, SettleFromDrain(t, f, k)
      PROVE  TypeOK'
    BY <1>21 DEF SettleFromDrain, CallSettle, Enter, futureVars, callVars, obsVars, mainVars,
       threadVars
<1>22. ASSUME NEW t \in Threads, NEW f \in Futures, NEW k \in Outcomes, NEW c \in Callbacks, Register(t, f, k, c)
      PROVE  TypeOK'
    BY <1>22 DEF Register, Enter, futureVars, callVars, obsVars, mainVars, threadVars
<1>23. ASSUME NEW t \in Threads, NEW f \in Futures, RunWaiting(t, f)
      PROVE  TypeOK'
    BY <1>23 DEF RunWaiting, futureVars, callVars, obsVars, mainVars, threadVars
<1>24. ASSUME NEW f \in Futures, Wait(f)
      PROVE  TypeOK'
    BY <1>24 DEF Wait, Threads, futureVars, callVars, obsVars, mainVars, threadVars
<1>25. CASE UNCHANGED vars
    BY <1>25 DEF vars, futureVars, callVars, obsVars, mainVars, threadVars
<1>26. ASSUME NEW t \in Threads, Suspend(t)
      PROVE  TypeOK'
    BY <1>26, LocalFacts DEF Suspend, futureVars, callVars, obsVars, mainVars
<1>27. ASSUME NEW t \in Threads, EndTurn(t)
      PROVE  TypeOK'
    BY <1>27 DEF EndTurn, futureVars, callVars, obsVars, mainVars, threadVars
<1>28. ASSUME NEW t \in Threads, NEW c \in Callbacks, ResumeHalf(t, c)
      PROVE  TypeOK'
    BY <1>28 DEF ResumeHalf, futureVars, callVars, obsVars, mainVars, threadVars
<1> QED
    BY <1>1, <1>2, <1>3, <1>4, <1>5, <1>6, <1>7, <1>8, <1>9, <1>10, <1>11, <1>12, <1>13, <1>14,
       <1>15, <1>16, <1>17, <1>18, <1>19, <1>20, <1>21, <1>22, <1>23, <1>24, <1>25,
       <1>26, <1>27, <1>28 DEF Next, Step, Call

\* Every step keeps what the locals hold.
LEMMA LocalsStep ==
    ASSUME TypeOK, LocalsOK, [Next]_vars
    PROVE  LocalsOK'
<1> USE DEF TypeOK, PCs, LocalsOK, Running, RegisterPC, SettlePC, OwnPC, RunPC, WaitPC, Goto
<1>1. ASSUME NEW t \in Threads, CheckObserved(t) \/ Record(t) \/ Fired(t)
      PROVE  LocalsOK'
    BY <1>1 DEF CheckObserved, Record, Fired, futureVars, obsVars, mainVars, threadVars
<1>2. ASSUME NEW t \in Threads, Claim(t)
      PROVE  LocalsOK'
    BY <1>2 DEF Claim, futureVars, obsVars, mainVars, threadVars
<1>3. ASSUME NEW t \in Threads, ClaimLost(t)
      PROVE  LocalsOK'
    BY <1>3 DEF ClaimLost, Return, futureVars, obsVars, mainVars, threadVars
<1>4. ASSUME NEW t \in Threads, WriteOutcome(t)
      PROVE  LocalsOK'
    BY <1>4 DEF WriteOutcome, futureVars, obsVars, mainVars, threadVars
<1>5. ASSUME NEW t \in Threads, DrainCallbacks(t)
      PROVE  LocalsOK'
    BY <1>5 DEF DrainCallbacks, futureVars, obsVars, mainVars, threadVars
<1>6. ASSUME NEW t \in Threads, NEW c \in Callbacks, Fire(t, c)
      PROVE  LocalsOK'
    BY <1>6, NoCallbackAssumption DEF Fire, futureVars, obsVars, mainVars, threadVars
<1>7. ASSUME NEW t \in Threads, Publish(t)
      PROVE  LocalsOK'
    BY <1>7 DEF Publish, futureVars, obsVars, mainVars, threadVars
<1>8. ASSUME NEW t \in Threads, Notify(t)
      PROVE  LocalsOK'
    BY <1>8 DEF Notify, Return, futureVars, obsVars, mainVars, threadVars
<1>9. ASSUME NEW t \in Threads, Observe(t) \/ Forget(t)
      PROVE  LocalsOK'
    BY <1>9 DEF Observe, Forget, futureVars, obsVars, mainVars, threadVars
<1>10. ASSUME NEW t \in Threads, ReadState(t)
      PROVE  LocalsOK'
    BY <1>10 DEF ReadState, futureVars, obsVars, mainVars, threadVars
<1>11. ASSUME NEW t \in Threads, ReadOther(t)
      PROVE  LocalsOK'
    BY <1>11 DEF ReadOther, Return, futureVars, obsVars, mainVars, threadVars
<1>12. ASSUME NEW t \in Threads, Append(t)
      PROVE  LocalsOK'
    BY <1>12 DEF Append, Return, futureVars, obsVars, mainVars, threadVars
<1>13. ASSUME NEW t \in Threads, AppendDrained(t)
      PROVE  LocalsOK'
    BY <1>13 DEF AppendDrained, futureVars, obsVars, mainVars, threadVars
<1>14. ASSUME NEW t \in Threads, Run(t)
      PROVE  LocalsOK'
    BY <1>14 DEF Run, EndCallback, Return, futureVars, obsVars, mainVars, threadVars
<1>15. ASSUME NEW t \in Threads, ObserveWait(t) \/ ForgetWait(t)
      PROVE  LocalsOK'
    <2>1. CASE ObserveWait(t)
        BY <2>1 DEF ObserveWait, threadVars
    <2>2. CASE ForgetWait(t)
        <3>1. context[t] # "none" => cb[t] # NoCallback
            BY <2>2, MainAssumption DEF ForgetWait
        <3> QED
            BY <2>2, <3>1 DEF ForgetWait, threadVars
    <2> QED
        BY <1>15, <2>1, <2>2
<1>16. ASSUME NEW t \in Threads, Help(t) \/ WaitError(t)
      PROVE  LocalsOK'
    BY <1>16 DEF Help, WaitError, EndCallback, Return, futureVars, obsVars, mainVars, threadVars
<1>17. ASSUME NEW t \in Threads, Mark(t)
      PROVE  LocalsOK'
    BY <1>17 DEF Mark, futureVars, obsVars, mainVars, threadVars
<1>18. ASSUME NEW t \in Threads, Poll(t) \/ Acquire(t)
      PROVE  LocalsOK'
    BY <1>18 DEF Poll, Acquire, futureVars, obsVars, mainVars, threadVars
<1>19. ASSUME NEW t \in Threads, Unmark(t)
      PROVE  LocalsOK'
    BY <1>19 DEF Unmark, EndCallback, Return, futureVars, obsVars, mainVars, threadVars
<1>20. ASSUME NEW t \in Threads, NEW f \in Futures, NEW k \in Outcomes, Resolve(t, f, k)
      PROVE  LocalsOK'
    BY <1>20 DEF Resolve, CallSettle, Enter, futureVars, obsVars, mainVars, threadVars
<1>21. ASSUME NEW t \in Threads, NEW f \in Futures, NEW k \in Outcomes, SettleFromDrain(t, f, k)
      PROVE  LocalsOK'
    BY <1>21 DEF SettleFromDrain, CallSettle, Enter, futureVars, obsVars, mainVars, threadVars
<1>22. ASSUME NEW t \in Threads, NEW f \in Futures, NEW k \in Outcomes, NEW c \in Callbacks, Register(t, f, k, c)
      PROVE  LocalsOK'
    BY <1>22, NoCallbackAssumption DEF Register, Enter, futureVars, obsVars, mainVars, threadVars
<1>23. ASSUME NEW t \in Threads, NEW f \in Futures, RunWaiting(t, f)
      PROVE  LocalsOK'
    BY <1>23 DEF RunWaiting, futureVars, obsVars, mainVars, threadVars
<1>24. ASSUME NEW f \in Futures, Wait(f)
      PROVE  LocalsOK'
    BY <1>24 DEF Wait, Threads, futureVars, obsVars, mainVars, threadVars
<1>25. CASE UNCHANGED vars
    BY <1>25 DEF vars, futureVars, obsVars, mainVars, threadVars
<1>26. ASSUME NEW t \in Threads, Suspend(t)
      PROVE  LocalsOK'
    BY <1>26 DEF Suspend
<1>27. ASSUME NEW t \in Threads, EndTurn(t)
      PROVE  LocalsOK'
    BY <1>27 DEF EndTurn, threadVars
<1>28. ASSUME NEW t \in Threads, NEW c \in Callbacks, ResumeHalf(t, c)
      PROVE  LocalsOK'
    BY <1>28 DEF ResumeHalf, threadVars
<1> QED
    BY <1>1, <1>2, <1>3, <1>4, <1>5, <1>6, <1>7, <1>8, <1>9, <1>10, <1>11, <1>12, <1>13, <1>14,
       <1>15, <1>16, <1>17, <1>18, <1>19, <1>20, <1>21, <1>22, <1>23, <1>24, <1>25,
       <1>26, <1>27, <1>28 DEF Next, Step, Call

\* Steps that leave the future alone: no thread becomes the settler of a future, or does
\* one of the settler's steps.
LEMMA SettleFrame ==
    ASSUME SettleOK,
           UNCHANGED <<settling, outcome, state, drained>>,
           \A t \in Threads : Owns(t)' =>
             /\ Owns(t) /\ fut'[t] = fut[t] /\ kind'[t] = kind[t]
             /\ \A p \in {"write", "drainCbs", "notify"} : pc'[t] = p <=> pc[t] = p
    PROVE  SettleOK'
<1>1. ASSUME NEW t \in Threads, NEW u \in Threads, Owns(t)', Owns(u)', fut'[t] = fut'[u] PROVE t = u
    BY <1>1 DEF SettleOK
<1>2. ASSUME NEW t \in Threads, Owns(t)'
      PROVE  /\ fut'[t] \in settling'
             /\ outcome'[fut'[t]] = IF pc'[t] = "write" THEN "none" ELSE kind'[t]
             /\ state'[fut'[t]] = IF pc'[t] = "notify" THEN kind'[t] ELSE "pending"
             /\ <<fut'[t], kind'[t]>> \in drained' <=> pc'[t] \notin {"write", "drainCbs"}
    <2>1. Owns(t) /\ fut'[t] = fut[t] /\ kind'[t] = kind[t]
        BY <1>2
    <2>2. \A p \in {"write", "drainCbs", "notify"} : pc'[t] = p <=> pc[t] = p
        BY <1>2
    <2> QED
        BY <2>1, <2>2 DEF SettleOK
<1> QED
    BY <1>1, <1>2 DEF SettleOK

\* Every step keeps one settler per future, and the future as far as its settler is.
LEMMA SettleStep ==
    ASSUME TypeOK, LocalsOK, SettleOK, [Next]_vars
    PROVE  SettleOK'
<1> USE DEF TypeOK, LocalsOK, Owns, Running, Goto, RegisterPC, SettlePC, OwnPC, RunPC, WaitPC
<1>1. ASSUME NEW t \in Threads, CheckObserved(t) \/ Record(t) \/ Fired(t)
      PROVE  SettleOK'
    BY <1>1, SettleFrame DEF CheckObserved, Record, Fired, futureVars, obsVars, mainVars,
       threadVars
<1>2. ASSUME NEW t \in Threads, Claim(t)
      PROVE  SettleOK'
    <2> DEFINE f == fut[t]
    <2>1. f \in Futures /\ ~Owns(t) /\ f \notin settling
        BY <1>2, LocalFacts DEF Claim, LocalsOK
    <2>2. /\ settling' = settling \cup {f} /\ UNCHANGED <<outcome, state, drained, fut, kind, ret>>
          /\ pc' = [pc EXCEPT ![t] = "write"]
        BY <1>2 DEF Claim, threadVars
    <2>3. outcome[f] = "none" /\ state[f] = "pending" /\ \A l \in drained : l[1] # f
        <3>1. outcome[f] = "none"
            BY <2>1 DEF SettleOK
        <3>2. state[f] = "pending"
            BY <2>1, <3>1 DEF SettleOK, Outcomes
        <3>3. ASSUME NEW l \in drained, l[1] = f PROVE FALSE
            <4>1. outcome[l[1]] = l[2]
                BY DEF SettleOK
            <4>2. l[2] # "none"
                BY DEF Lists, Outcomes
            <4> QED
                BY <3>1, <3>3, <4>1, <4>2
        <3> QED
            BY <3>1, <3>2, <3>3
    <2>4. \A u \in Threads \ {t} : Owns(u)' <=> Owns(u)
        BY <2>2
    <2>5. \A u \in Threads \ {t} : Owns(u) => fut[u] # f
        BY <2>1 DEF SettleOK
    <2>6. <<fut[t], kind[t]>> \notin drained
        BY <2>3
    <2>7. pc'[t] = "write"
        BY <2>2
    <2>8. ASSUME NEW u \in Threads, Owns(u)'
          PROVE  /\ fut'[u] \in settling'
                 /\ outcome'[fut'[u]] = IF pc'[u] = "write" THEN "none" ELSE kind'[u]
                 /\ state'[fut'[u]] = IF pc'[u] = "notify" THEN kind'[u] ELSE "pending"
                 /\ <<fut'[u], kind'[u]>> \in drained' <=> pc'[u] \notin {"write", "drainCbs"}
        <3>1. CASE u = t
            BY <2>2, <2>3, <2>6, <2>7, <3>1
        <3>2. CASE u # t
            BY <2>2, <2>4, <2>8, <3>2 DEF SettleOK
        <3> QED
            BY <3>1, <3>2
    <2>9. \A u, v \in Threads : Owns(u)' /\ Owns(v)' /\ fut'[u] = fut'[v] => u = v
        BY <2>2, <2>4, <2>5 DEF SettleOK
    <2> HIDE DEF f
    <2> QED
        BY <2>2, <2>8, <2>9 DEF SettleOK
<1>3. ASSUME NEW t \in Threads, ClaimLost(t)
      PROVE  SettleOK'
    BY <1>3, SettleFrame DEF ClaimLost, Return, futureVars, obsVars, mainVars, threadVars
<1>4. ASSUME NEW t \in Threads, WriteOutcome(t)
      PROVE  SettleOK'
    <2> DEFINE f == fut[t]
    <2>1. f \in Futures /\ Owns(t)
        BY <1>4, LocalFacts DEF WriteOutcome
    <2>2. \A u \in Threads : fut[u] = f /\ Owns(u) => u = t
        BY <2>1 DEF SettleOK
    <2>3. /\ outcome' = [outcome EXCEPT ![f] = kind[t]]
          /\ UNCHANGED <<settling, state, drained, fut, kind, ret>>
          /\ pc[t] = "write" /\ pc' = [pc EXCEPT ![t] = "drainCbs"]
        BY <1>4 DEF WriteOutcome, threadVars
    <2>4. \A u \in Threads : Owns(u)' <=> Owns(u)
        BY <2>1, <2>3
    <2>5. outcome[f] = "none" /\ state[f] = "pending" /\ \A l \in drained : l[1] # f
        <3>1. outcome[f] = "none" /\ state[f] = "pending"
            BY <2>1, <2>3 DEF SettleOK
        <3> QED
            BY <2>1, <3>1 DEF SettleOK, Lists, Outcomes
    <2>6. <<fut[t], kind[t]>> \notin drained
        BY <2>5
    <2>7. f \in settling
        BY <2>1 DEF SettleOK
    <2> HIDE DEF f
    <2> QED
        BY <2>1, <2>2, <2>3, <2>4, <2>5, <2>6, <2>7 DEF SettleOK, f
<1>5. ASSUME NEW t \in Threads, DrainCallbacks(t)
      PROVE  SettleOK'
    <2> DEFINE f == fut[t]
    <2>1. f \in Futures /\ Owns(t)
        BY <1>5, LocalFacts DEF DrainCallbacks
    <2>2. \A u \in Threads : fut[u] = f /\ Owns(u) => u = t
        BY <2>1 DEF SettleOK
    <2>3. /\ drained' = drained \cup {<<f, kind[t]>>}
          /\ UNCHANGED <<settling, outcome, state, fut, kind, ret>>
          /\ pc[t] = "drainCbs" /\ pc' = [pc EXCEPT ![t] = "fire"]
        BY <1>5 DEF DrainCallbacks
    <2>4. \A u \in Threads : Owns(u)' <=> Owns(u)
        BY <2>1, <2>3
    <2>5. outcome[f] = kind[t] /\ state[f] = "pending"
        BY <2>1, <2>3 DEF SettleOK
    <2>6. ASSUME NEW u \in Threads, Owns(u)'
          PROVE  /\ fut'[u] \in settling'
                 /\ outcome'[fut'[u]] = IF pc'[u] = "write" THEN "none" ELSE kind'[u]
                 /\ state'[fut'[u]] = IF pc'[u] = "notify" THEN kind'[u] ELSE "pending"
                 /\ <<fut'[u], kind'[u]>> \in drained' <=> pc'[u] \notin {"write", "drainCbs"}
        <3>1. CASE u = t
            BY <2>1, <2>3, <2>5, <3>1 DEF SettleOK
        <3>2. CASE u # t
            BY <2>2, <2>3, <2>4, <2>6, <3>2 DEF SettleOK
        <3> QED
            BY <3>1, <3>2
    <2>7. \A l \in drained' : outcome'[l[1]] = l[2]
        BY <2>3, <2>5 DEF SettleOK
    <2>8. \A u, v \in Threads : Owns(u)' /\ Owns(v)' /\ fut'[u] = fut'[v] => u = v
        BY <2>3, <2>4 DEF SettleOK
    <2> QED
        BY <2>3, <2>6, <2>7, <2>8 DEF SettleOK
<1>6. ASSUME NEW t \in Threads, NEW c \in Callbacks, Fire(t, c)
      PROVE  SettleOK'
    BY <1>6, SettleFrame DEF Fire, futureVars, obsVars, mainVars, threadVars
<1>7. ASSUME NEW t \in Threads, Publish(t)
      PROVE  SettleOK'
    <2> DEFINE f == fut[t]
    <2>1. f \in Futures /\ Owns(t)
        BY <1>7, LocalFacts DEF Publish
    <2>2. \A u \in Threads : fut[u] = f /\ Owns(u) => u = t
        BY <2>1 DEF SettleOK
    <2>3. /\ state' = [state EXCEPT ![f] = kind[t]]
          /\ UNCHANGED <<settling, outcome, drained, fut, kind, ret>>
          /\ pc[t] = "publish" /\ pc' = [pc EXCEPT ![t] = "notify"]
        BY <1>7 DEF Publish, threadVars
    <2>4. \A u \in Threads : Owns(u)' <=> Owns(u)
        BY <2>1, <2>3
    <2>5. outcome[f] = kind[t] /\ <<f, kind[t]>> \in drained
        BY <2>1, <2>3 DEF SettleOK
    <2> HIDE DEF f
    <2> QED
        BY <2>1, <2>2, <2>3, <2>4, <2>5 DEF SettleOK, f
<1>8. ASSUME NEW t \in Threads, Notify(t)
      PROVE  SettleOK'
    BY <1>8, SettleFrame DEF Notify, Return, futureVars, obsVars, mainVars, threadVars
<1>9. ASSUME NEW t \in Threads, Observe(t) \/ Forget(t)
      PROVE  SettleOK'
    BY <1>9, SettleFrame DEF Observe, Forget, futureVars, obsVars, mainVars, threadVars
<1>10. ASSUME NEW t \in Threads, ReadState(t)
      PROVE  SettleOK'
    BY <1>10, SettleFrame DEF ReadState, futureVars, obsVars, mainVars, threadVars
<1>11. ASSUME NEW t \in Threads, ReadOther(t)
      PROVE  SettleOK'
    BY <1>11, SettleFrame DEF ReadOther, Return, futureVars, obsVars, mainVars, threadVars
<1>12. ASSUME NEW t \in Threads, Append(t)
      PROVE  SettleOK'
    BY <1>12, SettleFrame DEF Append, Return, futureVars, obsVars, mainVars, threadVars
<1>13. ASSUME NEW t \in Threads, AppendDrained(t)
      PROVE  SettleOK'
    BY <1>13, SettleFrame DEF AppendDrained, futureVars, obsVars, mainVars, threadVars
<1>14. ASSUME NEW t \in Threads, Run(t)
      PROVE  SettleOK'
    BY <1>14, SettleFrame DEF Run, EndCallback, Return, futureVars, obsVars, mainVars, threadVars
<1>15. ASSUME NEW t \in Threads, ObserveWait(t) \/ ForgetWait(t)
      PROVE  SettleOK'
    BY <1>15, SettleFrame DEF ObserveWait, ForgetWait, futureVars, obsVars, mainVars, threadVars
<1>16. ASSUME NEW t \in Threads, Help(t) \/ WaitError(t)
      PROVE  SettleOK'
    BY <1>16, SettleFrame DEF Help, WaitError, EndCallback, Return, futureVars, obsVars, mainVars,
       threadVars
<1>17. ASSUME NEW t \in Threads, Mark(t)
      PROVE  SettleOK'
    BY <1>17, SettleFrame DEF Mark, futureVars, obsVars, mainVars, threadVars
<1>18. ASSUME NEW t \in Threads, Poll(t) \/ Acquire(t)
      PROVE  SettleOK'
    BY <1>18, SettleFrame DEF Poll, Acquire, futureVars, obsVars, mainVars, threadVars
<1>19. ASSUME NEW t \in Threads, Unmark(t)
      PROVE  SettleOK'
    BY <1>19, SettleFrame DEF Unmark, EndCallback, Return, futureVars, obsVars, mainVars,
       threadVars
<1>20. ASSUME NEW t \in Threads, NEW f \in Futures, NEW k \in Outcomes, Resolve(t, f, k)
      PROVE  SettleOK'
    BY <1>20, SettleFrame DEF Resolve, CallSettle, Enter, futureVars, obsVars, mainVars,
       threadVars
<1>21. ASSUME NEW t \in Threads, NEW f \in Futures, NEW k \in Outcomes, SettleFromDrain(t, f, k)
      PROVE  SettleOK'
    BY <1>21, SettleFrame DEF SettleFromDrain, CallSettle, Enter, futureVars, obsVars, mainVars,
       threadVars
<1>22. ASSUME NEW t \in Threads, NEW f \in Futures, NEW k \in Outcomes, NEW c \in Callbacks, Register(t, f, k, c)
      PROVE  SettleOK'
    BY <1>22, SettleFrame DEF Register, Enter, futureVars, obsVars, mainVars, threadVars
<1>23. ASSUME NEW t \in Threads, NEW f \in Futures, RunWaiting(t, f)
      PROVE  SettleOK'
    BY <1>23, SettleFrame DEF RunWaiting, futureVars, obsVars, mainVars, threadVars
<1>24. ASSUME NEW f \in Futures, Wait(f)
      PROVE  SettleOK'
    BY <1>24, SettleFrame DEF Wait, Threads, futureVars, obsVars, mainVars, threadVars
<1>25. CASE UNCHANGED vars
    BY <1>25, SettleFrame DEF vars, futureVars, obsVars, mainVars, threadVars
<1>26. ASSUME NEW t \in Threads, Suspend(t)
      PROVE  SettleOK'
    BY <1>26, SettleFrame DEF Suspend, futureVars
<1>27. ASSUME NEW t \in Threads, EndTurn(t)
      PROVE  SettleOK'
    BY <1>27, SettleFrame DEF EndTurn, futureVars, threadVars
<1>28. ASSUME NEW t \in Threads, NEW c \in Callbacks, ResumeHalf(t, c)
      PROVE  SettleOK'
    BY <1>28, SettleFrame DEF ResumeHalf, futureVars, threadVars
<1> QED
    BY <1>1, <1>2, <1>3, <1>4, <1>5, <1>6, <1>7, <1>8, <1>9, <1>10, <1>11, <1>12, <1>13, <1>14,
       <1>15, <1>16, <1>17, <1>18, <1>19, <1>20, <1>21, <1>22, <1>23, <1>24, <1>25,
       <1>26, <1>27, <1>28 DEF Next, Step, Call

\* Steps that move no callback.
LEMMA PlacesFrame ==
    ASSUME PlacesOK,
           UNCHANGED <<cbs, on, ran, half, drained, firing, cb>>,
           \A t \in Threads : firing[t] # {} \/ cb[t] # NoCallback => fut'[t] = fut[t] /\ kind'[t] = kind[t],
           \A f : state[f] # "pending" => state'[f] = state[f]
    PROVE  PlacesOK'
<1> SUFFICES ASSUME NEW c \in Callbacks
             PROVE  HandsOK(c)' /\ ListsOK(c)' /\ HalfOK(c)' /\ KeptOK(c)'
    BY DEF PlacesOK
<1>0. HandsOK(c) /\ ListsOK(c) /\ HalfOK(c) /\ KeptOK(c)
    BY DEF PlacesOK
<1>1. \A t \in Threads : Has(t, c)' <=> Has(t, c)
    BY DEF Has
<1>2. \A t \in Threads : Has(t, c) => firing[t] # {} \/ cb[t] # NoCallback
    BY NoCallbackAssumption DEF Has
<1>3. HandsOK(c)'
    BY <1>0, <1>1, <1>2 DEF HandsOK
<1>4. ListsOK(c)'
    BY <1>0 DEF ListsOK
<1>5. KeptOK(c)'
    BY <1>0, <1>1 DEF KeptOK
<1>6. HalfOK(c)'
    BY <1>0, <1>1 DEF HalfOK
<1> QED
    BY <1>3, <1>4, <1>5, <1>6

\* The thread that has a callback in its hands knows the list it was given to.
LEMMA HasFuture ==
    ASSUME TypeOK, LocalsOK, NEW t \in Threads, NEW c \in Callbacks, Has(t, c)
    PROVE  <<fut[t], kind[t]>> \in Futures \X Lists
<1>1. fut[t] \in Futures
    BY NoCallbackAssumption DEF Has, LocalsOK, Running, RegisterPC, OwnPC, RunPC, WaitPC
<1> QED
    BY <1>1 DEF TypeOK, Lists

\* A callback that was given to no future is nowhere.
LEMMA NotGiven ==
    ASSUME TypeOK, LocalsOK, PlacesOK, NEW c \in Callbacks, on[c] = NoFuture
    PROVE  /\ \A t \in Threads : ~Has(t, c)
           /\ \A l \in Futures \X Lists : c \notin cbs[l]
           /\ c \notin half
<1>1. HandsOK(c) /\ ListsOK(c) /\ HalfOK(c)
    BY DEF PlacesOK
<1>2. ASSUME NEW t \in Threads, Has(t, c) PROVE FALSE
    BY <1>1, <1>2, HasFuture, NoFutureAssumption DEF HandsOK
<1> QED
    BY <1>1, <1>2, NoFutureAssumption DEF ListsOK, HalfOK, TypeOK

\* The settler takes the list into its hands.
LEMMA DrainPlaces ==
    ASSUME TypeOK, LocalsOK, PlacesOK, NEW t \in Threads, DrainCallbacks(t)
    PROVE  PlacesOK'
<1> DEFINE l == <<fut[t], kind[t]>>
<1>1. /\ firing' = [firing EXCEPT ![t] = cbs[l]]
      /\ cbs' = [cbs EXCEPT ![l] = {}]
      /\ drained' = drained \cup {l}
      /\ UNCHANGED <<on, ran, half, state, fut, kind, cb>>
    BY DEF DrainCallbacks, callVars
<1>2. firing[t] = {} /\ cb[t] = NoCallback /\ l \in Futures \X Lists
    BY LocalFacts DEF DrainCallbacks, Goto, LocalsOK, TypeOK, Lists, RegisterPC, RunPC, WaitPC,
       OwnPC
<1> HIDE DEF l
<1> SUFFICES ASSUME NEW c \in Callbacks
             PROVE  HandsOK(c)' /\ ListsOK(c)' /\ HalfOK(c)' /\ KeptOK(c)'
    BY DEF PlacesOK
<1>3. HandsOK(c) /\ ListsOK(c) /\ HalfOK(c) /\ KeptOK(c)
    BY DEF PlacesOK
<1>4. \A u \in Threads \ {t} : Has(u, c)' <=> Has(u, c)
    BY <1>1 DEF Has, TypeOK
<1>5. ~Has(t, c) /\ (Has(t, c)' <=> c \in cbs[l])
    BY <1>1, <1>2, NoCallbackAssumption DEF Has, TypeOK
<1>6. /\ cbs'[l] = {}
      /\ \A m \in (Futures \X Lists) \ {l} : cbs'[m] = cbs[m]
    BY <1>1, <1>2 DEF TypeOK
<1>7. c \in cbs[l] => on[c] = l /\ ran[c] = 0 /\ \A u \in Threads : ~Has(u, c)
    BY <1>2, <1>3 DEF ListsOK, HandsOK
<1>8. on[c] # NoFuture => on[c] \in Futures \X Lists
    BY DEF TypeOK
<1>9. \A u \in Threads : Has(u, c) => on[c] \in Futures \X Lists
    BY <1>3, HasFuture DEF HandsOK
<1>10. HandsOK(c)'
    <2>1. \A u, v \in Threads : Has(u, c)' /\ Has(v, c)' => u = v
        BY <1>3, <1>4, <1>5, <1>7 DEF HandsOK
    <2>2. ASSUME NEW u \in Threads, Has(u, c)'
          PROVE  /\ ~(c \in firing'[u] /\ cb'[u] = c)
                 /\ on'[c] = <<fut'[u], kind'[u]>>
                 /\ c \notin cbs'[on'[c]]
                 /\ ran'[c] = 0
        <3>1. CASE u = t
            BY <1>1, <1>2, <1>5, <1>6, <1>7, <2>2, <3>1, NoCallbackAssumption DEF l
        <3>2. CASE u # t
            BY <1>1, <1>3, <1>4, <1>6, <1>9, <2>2, <3>2 DEF HandsOK, TypeOK
        <3> QED
            BY <3>1, <3>2
    <2> QED
        BY <2>1, <2>2 DEF HandsOK
<1>11. ListsOK(c)'
    BY <1>1, <1>3, <1>6 DEF ListsOK
<1>12. KeptOK(c)'
    BY <1>1, <1>3, <1>4, <1>5, <1>6, <1>8 DEF KeptOK
<1>13. HalfOK(c)'
    <2>1. c \in half => c \notin cbs[l]
        BY <1>2, <1>3 DEF HalfOK, ListsOK
    <2> QED
        BY <1>1, <1>3, <1>4, <1>5, <2>1 DEF HalfOK
<1> QED
    BY <1>10, <1>11, <1>12, <1>13

\* A callback goes from the settler's batch to its call.
LEMMA FirePlaces ==
    ASSUME TypeOK, LocalsOK, PlacesOK, NEW t \in Threads, NEW d \in Callbacks, Fire(t, d)
    PROVE  PlacesOK'
<1>1. /\ d \in firing[t]
      /\ firing' = [firing EXCEPT ![t] = @ \ {d}]
      /\ cb' = [cb EXCEPT ![t] = d]
      /\ UNCHANGED <<on, ran, half, state, fut, kind, cbs, drained>>
    BY DEF Fire, futureVars, callVars
<1>2. cb[t] = NoCallback
    BY DEF Fire, Goto, LocalsOK, RegisterPC, RunPC, WaitPC
<1> SUFFICES ASSUME NEW c \in Callbacks
             PROVE  HandsOK(c)' /\ ListsOK(c)' /\ HalfOK(c)' /\ KeptOK(c)'
    BY DEF PlacesOK
<1>3. HandsOK(c) /\ ListsOK(c) /\ HalfOK(c) /\ KeptOK(c)
    BY DEF PlacesOK
<1>4. \A u \in Threads : Has(u, c)' <=> Has(u, c)
    BY <1>1, <1>2, NoCallbackAssumption DEF Has, TypeOK
<1>5. \A u \in Threads : ~(c \in firing'[u] /\ cb'[u] = c)
    BY <1>1, <1>3 DEF HandsOK, Has, TypeOK
<1>6. HandsOK(c)'
    BY <1>1, <1>3, <1>4, <1>5 DEF HandsOK
<1> QED
    BY <1>1, <1>3, <1>4, <1>6 DEF ListsOK, HalfOK, KeptOK

\* The callback a thread is done with leaves its hands: its block has run, or the future
\* has the other outcome, or the block has been suspended.
LEMMA ReleasePlaces ==
    ASSUME TypeOK, LocalsOK, PlacesOK, NEW t \in Threads,
           cb[t] \in Callbacks,
           cb' = [cb EXCEPT ![t] = NoCallback],
           UNCHANGED <<on, state, cbs, drained, firing>>,
           \A u \in Threads \ {t} : fut'[u] = fut[u] /\ kind'[u] = kind[u],
           firing[t] # {} => fut'[t] = fut[t] /\ kind'[t] = kind[t],
           \/ ran' = [ran EXCEPT ![cb[t]] = @ + 1] /\ half' = half
           \/ ran' = ran /\ half' = half /\ state[fut[t]] \notin {"pending", kind[t]}
           \/ ran' = ran /\ half' = half \cup {cb[t]} /\ <<fut[t], kind[t]>> \in drained
    PROVE  PlacesOK'
<1> DEFINE d == cb[t]
<1> SUFFICES ASSUME NEW c \in Callbacks
             PROVE  HandsOK(c)' /\ ListsOK(c)' /\ HalfOK(c)' /\ KeptOK(c)'
    BY DEF PlacesOK
<1>1. HandsOK(c) /\ ListsOK(c) /\ HalfOK(c) /\ KeptOK(c)
    BY DEF PlacesOK
<1>2. CASE c = d
    <2>0. c \notin half
        BY <1>1, <1>2 DEF HalfOK, Has
    <2>1. Has(t, c) /\ c \notin firing[t] /\ on[c] = <<fut[t], kind[t]>> /\ c \notin cbs[on[c]] /\ ran[c] = 0
        BY <1>1, <1>2 DEF HandsOK, Has
    <2>2. \A u \in Threads : ~Has(u, c)'
        <3>1. \A u \in Threads \ {t} : ~Has(u, c)
            BY <1>1, <2>1 DEF HandsOK
        <3> QED
            BY <2>1, <3>1, NoCallbackAssumption DEF Has, TypeOK
    <2>3. on[c] \in Futures \X Lists
        BY <2>1, HasFuture
    <2>4. \/ ran'[c] = 1 /\ half' = half
          \/ ran'[c] = 0 /\ half' = half /\ state[on[c][1]] \notin {"pending", on[c][2]}
          \/ ran'[c] = 0 /\ c \in half' /\ on[c] \in drained
        <3>1. CASE ran' = [ran EXCEPT ![cb[t]] = @ + 1] /\ half' = half
            <4>1. ran'[c] = ran[c] + 1
                BY <1>2, <3>1 DEF TypeOK
            <4>2. ran[c] = 0
                BY <2>1
            <4> QED
                BY <3>1, <4>1, <4>2
        <3>2. CASE ran' = ran /\ half' = half /\ state[fut[t]] \notin {"pending", kind[t]}
            BY <2>1, <3>2
        <3>3. CASE ran' = ran /\ half' = half \cup {cb[t]} /\ <<fut[t], kind[t]>> \in drained
            BY <1>2, <2>1, <3>3
        <3> QED
            BY <3>1, <3>2, <3>3
    <2>5. HandsOK(c)'
        BY <2>2 DEF HandsOK
    <2>6. ListsOK(c)'
        BY <1>1, <2>1 DEF ListsOK
    <2>7. KeptOK(c)'
        BY <2>3, <2>4, NoFutureAssumption DEF KeptOK
    <2>8. HalfOK(c)'
        BY <2>0, <2>2, <2>4 DEF HalfOK
    <2> QED
        BY <2>5, <2>6, <2>7, <2>8
<1>3. CASE c # d
    <2>1. \A u \in Threads : Has(u, c)' <=> Has(u, c)
        BY <1>3, NoCallbackAssumption DEF Has, TypeOK
    <2>2. ran'[c] = ran[c] /\ (c \in half' <=> c \in half)
        BY <1>3 DEF TypeOK
    <2>3. ASSUME NEW u \in Threads, Has(u, c) PROVE fut'[u] = fut[u] /\ kind'[u] = kind[u]
        BY <1>3, <2>3 DEF Has
    <2>4. \A u \in Threads : c \in firing'[u] /\ cb'[u] = c => c \in firing[u] /\ cb[u] = c
        BY NoCallbackAssumption DEF TypeOK
    <2>5. HandsOK(c)'
        BY <1>1, <2>1, <2>2, <2>3, <2>4 DEF HandsOK
    <2>6. ListsOK(c)' /\ HalfOK(c)' /\ KeptOK(c)'
        BY <1>1, <2>1, <2>2 DEF ListsOK, HalfOK, KeptOK
    <2> QED
        BY <2>5, <2>6
<1> QED
    BY <1>2, <1>3

\* A callback goes from the hands of the thread that registers it to its list.
LEMMA AppendPlaces ==
    ASSUME TypeOK, LocalsOK, PlacesOK, NEW t \in Threads, Append(t)
    PROVE  PlacesOK'
<1> DEFINE d == cb[t]
           l == <<fut[t], kind[t]>>
<1>1. /\ l \notin drained
      /\ cbs' = [cbs EXCEPT ![l] = @ \cup {d}]
      /\ cb' = [cb EXCEPT ![t] = NoCallback]
      /\ fut' = [fut EXCEPT ![t] = NoFuture]
      /\ kind' = [kind EXCEPT ![t] = "value"]
      /\ UNCHANGED <<on, ran, half, state, drained, firing>>
    BY DEF Append, Return, callVars
<1>2. firing[t] = {} /\ d \in Callbacks /\ l \in Futures \X Lists
    BY LocalFacts DEF Append, Return, Goto, LocalsOK, TypeOK, Lists, RegisterPC, RunPC, WaitPC,
       OwnPC
<1>3. Has(t, d) /\ on[d] = l /\ ran[d] = 0 /\ \A u \in Threads \ {t} : ~Has(u, d)
    BY <1>2 DEF PlacesOK, HandsOK, Has
<1>4. /\ cbs'[l] = cbs[l] \cup {d}
      /\ \A m \in (Futures \X Lists) \ {l} : cbs'[m] = cbs[m]
    BY <1>1, <1>2 DEF TypeOK
<1> HIDE DEF d, l
<1> SUFFICES ASSUME NEW c \in Callbacks
             PROVE  HandsOK(c)' /\ ListsOK(c)' /\ HalfOK(c)' /\ KeptOK(c)'
    BY DEF PlacesOK
<1>5. HandsOK(c) /\ ListsOK(c) /\ HalfOK(c) /\ KeptOK(c)
    BY DEF PlacesOK
<1>6. ~Has(t, c)'
    BY <1>1, <1>2, NoCallbackAssumption DEF Has, TypeOK
<1>7. \A u \in Threads \ {t} : /\ Has(u, c)' <=> Has(u, c)
                               /\ fut'[u] = fut[u] /\ kind'[u] = kind[u] /\ cb'[u] = cb[u]
    BY <1>1 DEF Has, TypeOK
<1>8. on[c] # NoFuture => on[c] \in Futures \X Lists
    BY DEF TypeOK
<1>9. \A u \in Threads : Has(u, c) => on[c] \in Futures \X Lists
    BY <1>5, HasFuture DEF HandsOK
<1>10. CASE c = d
    BY <1>1, <1>2, <1>3, <1>4, <1>5, <1>6, <1>7, <1>10, NoFutureAssumption DEF HandsOK, ListsOK,
       HalfOK, KeptOK
<1>11. CASE c # d
    <2>1. \A m \in Futures \X Lists : c \in cbs'[m] <=> c \in cbs[m]
        BY <1>4, <1>11
    <2>2. \A u \in Threads : Has(u, c)' <=> Has(u, c)
        BY <1>2, <1>6, <1>7, <1>11 DEF Has, d
    <2>3. HandsOK(c)'
        BY <1>1, <1>5, <1>6, <1>7, <1>9, <2>1 DEF HandsOK
    <2>4. ListsOK(c)' /\ HalfOK(c)' /\ KeptOK(c)'
        BY <1>1, <1>5, <1>8, <2>1, <2>2 DEF ListsOK, HalfOK, KeptOK
    <2> QED
        BY <2>3, <2>4
<1> QED
    BY <1>10, <1>11

\* A callback comes into the hands of the thread that registers it.
LEMMA RegisterPlaces ==
    ASSUME TypeOK, LocalsOK, PlacesOK, NEW t \in Threads,
           NEW f \in Futures, NEW k \in Outcomes, NEW d \in Callbacks, Register(t, f, k, d)
    PROVE  PlacesOK'
<1>1. /\ on[d] = NoFuture
      /\ on' = [on EXCEPT ![d] = <<f, k>>]
      /\ fut' = [fut EXCEPT ![t] = f]
      /\ kind' = [kind EXCEPT ![t] = k]
      /\ cb' = [cb EXCEPT ![t] = d]
      /\ UNCHANGED <<cbs, drained, state, ran, half, firing>>
    BY DEF Register, futureVars
<1>2. firing[t] = {} /\ cb[t] = NoCallback
    BY DEF Register, Goto, LocalsOK, TypeOK, RegisterPC, RunPC, WaitPC
<1> SUFFICES ASSUME NEW c \in Callbacks
             PROVE  HandsOK(c)' /\ ListsOK(c)' /\ HalfOK(c)' /\ KeptOK(c)'
    BY DEF PlacesOK
<1>3. HandsOK(c) /\ ListsOK(c) /\ HalfOK(c) /\ KeptOK(c)
    BY DEF PlacesOK
<1>4. \A u \in Threads \ {t} : /\ Has(u, c)' <=> Has(u, c)
                               /\ fut'[u] = fut[u] /\ kind'[u] = kind[u] /\ cb'[u] = cb[u]
    BY <1>1 DEF Has, TypeOK
<1>5. CASE c = d
    <2>1. \A u \in Threads : ~Has(u, c)
        BY <1>1, <1>5, NotGiven
    <2>2. c \notin half /\ \A l \in Futures \X Lists : c \notin cbs[l]
        BY <1>1, <1>5, NotGiven
    <2>3. on'[c] = <<f, k>> /\ <<f, k>> \in Futures \X Lists /\ ran'[c] = 0
        BY <1>1, <1>3, <1>5 DEF KeptOK, Lists, TypeOK
    <2>4. Has(t, c)' /\ c \notin firing'[t] /\ fut'[t] = f /\ kind'[t] = k
        BY <1>1, <1>2, <1>5 DEF Has, TypeOK
    <2>5. HandsOK(c)'
        BY <1>1, <1>4, <2>1, <2>2, <2>3, <2>4 DEF HandsOK
    <2>6. ListsOK(c)' /\ HalfOK(c)' /\ KeptOK(c)'
        BY <1>1, <2>2, <2>3, <2>4, NoFutureAssumption DEF ListsOK, HalfOK, KeptOK
    <2> QED
        BY <2>5, <2>6
<1>6. CASE c # d
    <2>1. ~Has(t, c) /\ ~Has(t, c)'
        BY <1>1, <1>2, <1>6, NoCallbackAssumption DEF Has, TypeOK
    <2>2. on'[c] = on[c]
        BY <1>1, <1>6 DEF TypeOK
    <2>3. HandsOK(c)'
        BY <1>1, <1>3, <1>4, <2>1, <2>2 DEF HandsOK
    <2>4. ListsOK(c)' /\ HalfOK(c)' /\ KeptOK(c)'
        BY <1>1, <1>3, <1>4, <2>1, <2>2 DEF ListsOK, HalfOK, KeptOK
    <2> QED
        BY <2>3, <2>4
<1> QED
    BY <1>5, <1>6

\* A suspended callback leaves the snapshot: it has run.
LEMMA ResumePlaces ==
    ASSUME TypeOK, LocalsOK, PlacesOK, NEW t \in Threads, NEW d \in Callbacks, ResumeHalf(t, d)
    PROVE  PlacesOK'
<1>1. /\ d \in half
      /\ half' = half \ {d}
      /\ ran' = [ran EXCEPT ![d] = @ + 1]
      /\ UNCHANGED <<on, cbs, drained, state, fut, kind, cb, firing>>
    BY DEF ResumeHalf, futureVars, threadVars
<1> SUFFICES ASSUME NEW c \in Callbacks
             PROVE  HandsOK(c)' /\ ListsOK(c)' /\ HalfOK(c)' /\ KeptOK(c)'
    BY DEF PlacesOK
<1>2. HandsOK(c) /\ ListsOK(c) /\ HalfOK(c) /\ KeptOK(c)
    BY DEF PlacesOK
<1>3. \A u \in Threads : Has(u, c)' <=> Has(u, c)
    BY <1>1 DEF Has
<1>4. CASE c = d
    <2>1. on[c] \in drained /\ on[c] # NoFuture /\ \A u \in Threads : ~Has(u, c)
        BY <1>1, <1>2, <1>4, NoFutureAssumption DEF HalfOK, TypeOK
    <2>2. ran'[c] = 1
        <3>1. ran[c] = 0
            BY <1>1, <1>2, <1>4 DEF HalfOK
        <3> QED
            BY <1>1, <1>4, <3>1 DEF TypeOK
    <2> QED
        BY <1>1, <1>2, <1>3, <1>4, <2>1, <2>2 DEF HandsOK, ListsOK, HalfOK, KeptOK
<1>5. CASE c # d
    <2>1. ran'[c] = ran[c] /\ (c \in half' <=> c \in half)
        BY <1>1, <1>5 DEF TypeOK
    <2> QED
        BY <1>1, <1>2, <1>3, <2>1 DEF HandsOK, ListsOK, HalfOK, KeptOK
<1> QED
    BY <1>4, <1>5

\* Every step keeps every callback in one place.
LEMMA PlacesStep ==
    ASSUME TypeOK, LocalsOK, SettleOK, PlacesOK, [Next]_vars
    PROVE  PlacesOK'
<1>1. ASSUME NEW t \in Threads, CheckObserved(t) \/ Record(t) \/ Fired(t)
      PROVE  PlacesOK'
    BY <1>1, PlacesFrame DEF CheckObserved, Record, Fired, futureVars, callVars, obsVars,
       mainVars, threadVars, TypeOK, LocalsOK, Running, Goto, RegisterPC, SettlePC, OwnPC, RunPC,
       WaitPC
<1>2. ASSUME NEW t \in Threads, Claim(t)
      PROVE  PlacesOK'
    BY <1>2, PlacesFrame DEF Claim, futureVars, callVars, obsVars, mainVars, threadVars, TypeOK,
       LocalsOK, Running, Goto, RegisterPC, SettlePC, OwnPC, RunPC, WaitPC
<1>3. ASSUME NEW t \in Threads, ClaimLost(t)
      PROVE  PlacesOK'
    BY <1>3, PlacesFrame DEF ClaimLost, Return, futureVars, callVars, obsVars, mainVars,
       threadVars, TypeOK, LocalsOK, Running, Goto, RegisterPC, SettlePC, OwnPC, RunPC, WaitPC
<1>4. ASSUME NEW t \in Threads, WriteOutcome(t)
      PROVE  PlacesOK'
    BY <1>4, PlacesFrame DEF WriteOutcome, futureVars, callVars, obsVars, mainVars, threadVars,
       TypeOK, LocalsOK, Running, Goto, RegisterPC, SettlePC, OwnPC, RunPC, WaitPC
<1>5. ASSUME NEW t \in Threads, DrainCallbacks(t)
      PROVE  PlacesOK'
    BY <1>5, DrainPlaces
<1>6. ASSUME NEW t \in Threads, NEW c \in Callbacks, Fire(t, c)
      PROVE  PlacesOK'
    BY <1>6, FirePlaces
<1>7. ASSUME NEW t \in Threads, Publish(t)
      PROVE  PlacesOK'
    <2>1. fut[t] \in Futures /\ Owns(t) /\ state[fut[t]] = "pending"
        BY <1>7, LocalFacts DEF Publish, Goto, SettleOK, Owns, OwnPC
    <2>2. \A f : state[f] # "pending" => state'[f] = state[f]
        BY <1>7, <2>1 DEF Publish, TypeOK
    <2> QED
        BY <1>7, <2>2, PlacesFrame DEF Publish, callVars, threadVars
<1>8. ASSUME NEW t \in Threads, Notify(t)
      PROVE  PlacesOK'
    BY <1>8, PlacesFrame DEF Notify, Return, futureVars, callVars, obsVars, mainVars, threadVars,
       TypeOK, LocalsOK, Running, Goto, RegisterPC, SettlePC, OwnPC, RunPC, WaitPC
<1>9. ASSUME NEW t \in Threads, Observe(t) \/ Forget(t)
      PROVE  PlacesOK'
    BY <1>9, PlacesFrame DEF Observe, Forget, futureVars, callVars, obsVars, mainVars, threadVars,
       TypeOK, LocalsOK, Running, Goto, RegisterPC, SettlePC, OwnPC, RunPC, WaitPC
<1>10. ASSUME NEW t \in Threads, ReadState(t)
      PROVE  PlacesOK'
    BY <1>10, PlacesFrame DEF ReadState, futureVars, callVars, obsVars, mainVars, threadVars,
       TypeOK, LocalsOK, Running, Goto, RegisterPC, SettlePC, OwnPC, RunPC, WaitPC
<1>11. ASSUME NEW t \in Threads, ReadOther(t)
      PROVE  PlacesOK'
    BY <1>11, LocalFacts, ReleasePlaces DEF ReadOther, Return, futureVars, callVars, TypeOK,
       LocalsOK, Running, Goto, RegisterPC, SettlePC, OwnPC, RunPC, WaitPC
<1>12. ASSUME NEW t \in Threads, Append(t)
      PROVE  PlacesOK'
    BY <1>12, AppendPlaces
<1>13. ASSUME NEW t \in Threads, AppendDrained(t)
      PROVE  PlacesOK'
    BY <1>13, PlacesFrame DEF AppendDrained, futureVars, callVars, obsVars, mainVars, threadVars,
       TypeOK, LocalsOK, Running, Goto, RegisterPC, SettlePC, OwnPC, RunPC, WaitPC
<1>14. ASSUME NEW t \in Threads, Run(t)
      PROVE  PlacesOK'
    BY <1>14, LocalFacts, ReleasePlaces DEF Run, EndCallback, Return, futureVars, callVars,
       TypeOK, LocalsOK, Running, Goto, RegisterPC, SettlePC, OwnPC, RunPC, WaitPC
<1>15. ASSUME NEW t \in Threads, ObserveWait(t) \/ ForgetWait(t)
      PROVE  PlacesOK'
    BY <1>15, PlacesFrame DEF ObserveWait, ForgetWait, futureVars, callVars, obsVars, mainVars,
       threadVars, TypeOK, LocalsOK, Running, Goto, RegisterPC, SettlePC, OwnPC, RunPC, WaitPC
<1>16. ASSUME NEW t \in Threads, Help(t) \/ WaitError(t)
      PROVE  PlacesOK'
    BY <1>16, LocalFacts, ReleasePlaces DEF Help, WaitError, EndCallback, Return, futureVars,
       callVars, TypeOK, LocalsOK, Running, Goto, RegisterPC, SettlePC, OwnPC, RunPC, WaitPC
<1>17. ASSUME NEW t \in Threads, Mark(t)
      PROVE  PlacesOK'
    BY <1>17, PlacesFrame DEF Mark, futureVars, callVars, obsVars, mainVars, threadVars, TypeOK,
       LocalsOK, Running, Goto, RegisterPC, SettlePC, OwnPC, RunPC, WaitPC
<1>18. ASSUME NEW t \in Threads, Poll(t) \/ Acquire(t)
      PROVE  PlacesOK'
    BY <1>18, PlacesFrame DEF Poll, Acquire, futureVars, callVars, obsVars, mainVars, threadVars,
       TypeOK, LocalsOK, Running, Goto, RegisterPC, SettlePC, OwnPC, RunPC, WaitPC
<1>19. ASSUME NEW t \in Threads, Unmark(t)
      PROVE  PlacesOK'
    <2>1. CASE cb[t] = NoCallback
        BY <1>19, <2>1, PlacesFrame DEF Unmark, Return, futureVars, callVars, TypeOK, LocalsOK,
           Running, Goto, RegisterPC, SettlePC, OwnPC, RunPC, WaitPC
    <2>2. CASE cb[t] # NoCallback
        BY <1>19, <2>2, LocalFacts, ReleasePlaces DEF Unmark, EndCallback, Return, futureVars,
           callVars, TypeOK, LocalsOK, Running, Goto, RegisterPC, SettlePC, OwnPC, RunPC, WaitPC
    <2> QED
        BY <2>1, <2>2
<1>20. ASSUME NEW t \in Threads, NEW f \in Futures, NEW k \in Outcomes, Resolve(t, f, k)
      PROVE  PlacesOK'
    BY <1>20, PlacesFrame DEF Resolve, CallSettle, Enter, futureVars, callVars, obsVars, mainVars,
       threadVars, TypeOK, LocalsOK, Running, Goto, RegisterPC, SettlePC, OwnPC, RunPC, WaitPC
<1>21. ASSUME NEW t \in Threads, NEW f \in Futures, NEW k \in Outcomes, SettleFromDrain(t, f, k)
      PROVE  PlacesOK'
    BY <1>21, PlacesFrame DEF SettleFromDrain, CallSettle, Enter, futureVars, callVars, obsVars,
       mainVars, threadVars, TypeOK, LocalsOK, Running, Goto, RegisterPC, SettlePC, OwnPC, RunPC,
       WaitPC
<1>22. ASSUME NEW t \in Threads, NEW f \in Futures, NEW k \in Outcomes, NEW c \in Callbacks, Register(t, f, k, c)
      PROVE  PlacesOK'
    BY <1>22, RegisterPlaces
<1>23. ASSUME NEW t \in Threads, NEW f \in Futures, RunWaiting(t, f)
      PROVE  PlacesOK'
    BY <1>23, PlacesFrame DEF RunWaiting, futureVars, callVars, obsVars, mainVars, threadVars,
       TypeOK, LocalsOK, Running, Goto, RegisterPC, SettlePC, OwnPC, RunPC, WaitPC
<1>24. ASSUME NEW f \in Futures, Wait(f)
      PROVE  PlacesOK'
    BY <1>24, PlacesFrame DEF Wait, Threads, futureVars, callVars, obsVars, mainVars, threadVars,
       TypeOK, LocalsOK, Running, Goto, RegisterPC, SettlePC, OwnPC, RunPC, WaitPC
<1>25. CASE UNCHANGED vars
    BY <1>25, PlacesFrame DEF vars, futureVars, callVars, obsVars, mainVars, threadVars
<1>26. ASSUME NEW t \in Threads, Suspend(t)
      PROVE  PlacesOK'
    <2>1. cb[t] \in Callbacks /\ ret[t] = "fire"
        BY <1>26, LocalFacts DEF Suspend, Goto
    <2>2. <<fut[t], kind[t]>> \in drained
        BY <1>26, <2>1 DEF Suspend, Goto, SettleOK, Owns
    <2> QED
        BY <1>26, <2>1, <2>2, ReleasePlaces DEF Suspend, futureVars, callVars
<1>27. ASSUME NEW t \in Threads, EndTurn(t)
      PROVE  PlacesOK'
    BY <1>27, PlacesFrame DEF EndTurn, futureVars, callVars, threadVars
<1>28. ASSUME NEW t \in Threads, NEW c \in Callbacks, ResumeHalf(t, c)
      PROVE  PlacesOK'
    BY <1>28, ResumePlaces
<1> QED
    BY <1>1, <1>2, <1>3, <1>4, <1>5, <1>6, <1>7, <1>8, <1>9, <1>10, <1>11, <1>12, <1>13, <1>14,
       <1>15, <1>16, <1>17, <1>18, <1>19, <1>20, <1>21, <1>22, <1>23, <1>24, <1>25,
       <1>26, <1>27, <1>28 DEF Next, Step, Call

\* A callback that runs keeps the outcome it was given for.
LEMMA RunningStep ==
    ASSUME TypeOK, LocalsOK, SettleOK, RunningOK, [Next]_vars
    PROVE  RunningOK'
<1> USE DEF TypeOK, LocalsOK, RunningOK, Running, Goto, RegisterPC, SettlePC, OwnPC, RunPC, WaitPC
<1>1. ASSUME NEW t \in Threads, CheckObserved(t) \/ Record(t) \/ Fired(t)
      PROVE  RunningOK'
    BY <1>1 DEF CheckObserved, Record, Fired, futureVars, obsVars, mainVars, threadVars
<1>2. ASSUME NEW t \in Threads, Claim(t)
      PROVE  RunningOK'
    BY <1>2 DEF Claim, futureVars, obsVars, mainVars, threadVars
<1>3. ASSUME NEW t \in Threads, ClaimLost(t)
      PROVE  RunningOK'
    BY <1>3 DEF ClaimLost, Return, futureVars, obsVars, mainVars, threadVars
<1>4. ASSUME NEW t \in Threads, WriteOutcome(t)
      PROVE  RunningOK'
    <2>1. fut[t] \in Futures /\ outcome[fut[t]] = "none"
        BY <1>4, LocalFacts DEF WriteOutcome, SettleOK, Owns
    <2>2. \A u \in Threads : Running(u)' => Running(u) /\ fut[u] # fut[t]
        BY <1>4, <2>1 DEF WriteOutcome, threadVars, RunningOK, Running, Outcomes
    <2> QED
        BY <1>4, <2>1, <2>2 DEF WriteOutcome, threadVars, RunningOK
<1>5. ASSUME NEW t \in Threads, DrainCallbacks(t)
      PROVE  RunningOK'
    BY <1>5 DEF DrainCallbacks, futureVars, obsVars, mainVars, threadVars
<1>6. ASSUME NEW t \in Threads, NEW c \in Callbacks, Fire(t, c)
      PROVE  RunningOK'
    <2>1. outcome[fut[t]] = kind[t]
        BY <1>6 DEF Fire, SettleOK, Owns
    <2> QED
        BY <1>6, <2>1 DEF Fire, futureVars
<1>7. ASSUME NEW t \in Threads, Publish(t)
      PROVE  RunningOK'
    BY <1>7 DEF Publish, futureVars, obsVars, mainVars, threadVars
<1>8. ASSUME NEW t \in Threads, Notify(t)
      PROVE  RunningOK'
    BY <1>8 DEF Notify, Return, futureVars, obsVars, mainVars, threadVars
<1>9. ASSUME NEW t \in Threads, Observe(t) \/ Forget(t)
      PROVE  RunningOK'
    BY <1>9 DEF Observe, Forget, futureVars, obsVars, mainVars, threadVars
<1>10. ASSUME NEW t \in Threads, ReadState(t)
      PROVE  RunningOK'
    <2>1. fut[t] \in Futures /\ (pc'[t] = "run" => outcome[fut[t]] = kind[t])
        BY <1>10, LocalFacts DEF ReadState, SettleOK
    <2>2. /\ \A u \in Threads \ {t} : pc'[u] = pc[u]
          /\ pc'[t] \in {"append", "run"}
          /\ UNCHANGED <<outcome, fut, kind, cb>>
        BY <1>10 DEF ReadState, futureVars, threadVars
    <2> QED
        BY <2>1, <2>2
<1>11. ASSUME NEW t \in Threads, ReadOther(t)
      PROVE  RunningOK'
    BY <1>11 DEF ReadOther, Return, futureVars, obsVars, mainVars, threadVars
<1>12. ASSUME NEW t \in Threads, Append(t)
      PROVE  RunningOK'
    BY <1>12 DEF Append, Return, futureVars, obsVars, mainVars, threadVars
<1>13. ASSUME NEW t \in Threads, AppendDrained(t)
      PROVE  RunningOK'
    BY <1>13, LocalFacts DEF AppendDrained, futureVars, obsVars, mainVars, threadVars, SettleOK
<1>14. ASSUME NEW t \in Threads, Run(t)
      PROVE  RunningOK'
    BY <1>14 DEF Run, EndCallback, Return, futureVars, obsVars, mainVars, threadVars
<1>15. ASSUME NEW t \in Threads, ObserveWait(t) \/ ForgetWait(t)
      PROVE  RunningOK'
    BY <1>15 DEF ObserveWait, ForgetWait, futureVars, obsVars, mainVars, threadVars
<1>16. ASSUME NEW t \in Threads, Help(t) \/ WaitError(t)
      PROVE  RunningOK'
    BY <1>16 DEF Help, WaitError, EndCallback, Return, futureVars, obsVars, mainVars, threadVars
<1>17. ASSUME NEW t \in Threads, Mark(t)
      PROVE  RunningOK'
    BY <1>17 DEF Mark, futureVars, obsVars, mainVars, threadVars
<1>18. ASSUME NEW t \in Threads, Poll(t) \/ Acquire(t)
      PROVE  RunningOK'
    BY <1>18 DEF Poll, Acquire, futureVars, obsVars, mainVars, threadVars
<1>19. ASSUME NEW t \in Threads, Unmark(t)
      PROVE  RunningOK'
    BY <1>19 DEF Unmark, EndCallback, Return, futureVars, obsVars, mainVars, threadVars
<1>20. ASSUME NEW t \in Threads, NEW f \in Futures, NEW k \in Outcomes, Resolve(t, f, k)
      PROVE  RunningOK'
    BY <1>20 DEF Resolve, CallSettle, Enter, futureVars, obsVars, mainVars, threadVars
<1>21. ASSUME NEW t \in Threads, NEW f \in Futures, NEW k \in Outcomes, SettleFromDrain(t, f, k)
      PROVE  RunningOK'
    BY <1>21 DEF SettleFromDrain, CallSettle, Enter, futureVars, obsVars, mainVars, threadVars
<1>22. ASSUME NEW t \in Threads, NEW f \in Futures, NEW k \in Outcomes, NEW c \in Callbacks, Register(t, f, k, c)
      PROVE  RunningOK'
    BY <1>22 DEF Register, Enter, futureVars, obsVars, mainVars, threadVars
<1>23. ASSUME NEW t \in Threads, NEW f \in Futures, RunWaiting(t, f)
      PROVE  RunningOK'
    BY <1>23 DEF RunWaiting, futureVars, obsVars, mainVars, threadVars
<1>24. ASSUME NEW f \in Futures, Wait(f)
      PROVE  RunningOK'
    BY <1>24 DEF Wait, Threads, futureVars, obsVars, mainVars, threadVars
<1>25. CASE UNCHANGED vars
    BY <1>25 DEF vars, futureVars, obsVars, mainVars, threadVars
<1>26. ASSUME NEW t \in Threads, Suspend(t)
      PROVE  RunningOK'
    BY <1>26 DEF Suspend, futureVars
<1>27. ASSUME NEW t \in Threads, EndTurn(t)
      PROVE  RunningOK'
    BY <1>27 DEF EndTurn, futureVars, threadVars
<1>28. ASSUME NEW t \in Threads, NEW c \in Callbacks, ResumeHalf(t, c)
      PROVE  RunningOK'
    BY <1>28 DEF ResumeHalf, futureVars, threadVars
<1> QED
    BY <1>1, <1>2, <1>3, <1>4, <1>5, <1>6, <1>7, <1>8, <1>9, <1>10, <1>11, <1>12, <1>13, <1>14,
       <1>15, <1>16, <1>17, <1>18, <1>19, <1>20, <1>21, <1>22, <1>23, <1>24, <1>25,
       <1>26, <1>27, <1>28 DEF Next, Step, Call

\* A callback that has run has run on the outcome it was given for, and only once.
LEMMA EndOnce ==
    ASSUME TypeOK, LocalsOK, RunningOK, PlacesOK, RunsOnce, NEW t \in Threads,
           Running(t), cb[t] \in Callbacks,
           ran' = [ran EXCEPT ![cb[t]] = @ + 1], UNCHANGED <<on, outcome>>
    PROVE  RunsOnce'
<1>1. ran[cb[t]] = 0 /\ on[cb[t]] = <<fut[t], kind[t]>>
    BY DEF PlacesOK, HandsOK, Has
<1>2. outcome[fut[t]] = kind[t]
    BY DEF RunningOK
<1>3. \A c \in Callbacks : ran'[c] = IF c = cb[t] THEN ran[c] + 1 ELSE ran[c]
    BY DEF TypeOK
<1> QED
    BY <1>1, <1>2, <1>3 DEF RunsOnce

\* Every step keeps what has run.
LEMMA OnceStep ==
    ASSUME TypeOK, LocalsOK, SettleOK, RunningOK, PlacesOK, RunsOnce, [Next]_vars
    PROVE  RunsOnce'
<1>1. ASSUME NEW t \in Threads, 
             \/ CheckObserved(t) \/ Record(t) \/ Fired(t) \/ Claim(t) \/ ClaimLost(t) \/ DrainCallbacks(t)
             \/ Publish(t) \/ Notify(t) \/ Observe(t) \/ Forget(t) \/ ReadState(t) \/ ReadOther(t)
             \/ Append(t) \/ AppendDrained(t) \/ ObserveWait(t) \/ ForgetWait(t) \/ Mark(t) \/ Poll(t)
             \/ Acquire(t) \/ Suspend(t) \/ EndTurn(t)
      PROVE  RunsOnce'
    BY <1>1 DEF RunsOnce, CheckObserved, Record, Fired, Claim, ClaimLost, DrainCallbacks,
       Publish, Notify, Observe, Forget, ReadState, ReadOther, Append, AppendDrained,
       ObserveWait, ForgetWait, Mark, Poll, Acquire, Suspend, EndTurn, futureVars, callVars
<1>2. ASSUME NEW t \in Threads, NEW d \in Callbacks, Fire(t, d)
      PROVE  RunsOnce'
    BY <1>2 DEF RunsOnce, Fire, futureVars, callVars
<1>3. ASSUME NEW t \in Threads, WriteOutcome(t)
      PROVE  RunsOnce'
    <2>1. fut[t] \in Futures /\ outcome[fut[t]] = "none"
        BY <1>3, LocalFacts DEF WriteOutcome, Goto, SettleOK, Owns, OwnPC
    <2>2. ASSUME NEW c \in Callbacks, ran[c] = 1 PROVE on[c] \in Futures \X Lists /\ on[c][1] # fut[t]
        <3>1. on[c] \in Futures \X Lists
            BY <2>2 DEF TypeOK, PlacesOK, KeptOK
        <3>2. outcome[on[c][1]] = on[c][2] /\ on[c][2] \in Outcomes
            BY <2>2, <3>1 DEF RunsOnce, Lists
        <3> QED
            BY <2>1, <3>1, <3>2 DEF Outcomes
    <2> QED
        BY <1>3, <2>1, <2>2 DEF WriteOutcome, callVars, RunsOnce, TypeOK
<1>4. ASSUME NEW t \in Threads, Run(t)
      PROVE  RunsOnce'
    BY <1>4, LocalFacts, EndOnce DEF Run, EndCallback, Running, RunPC, RegisterPC, futureVars,
       callVars, LocalsOK
<1>5. ASSUME NEW t \in Threads, Help(t) \/ WaitError(t)
      PROVE  RunsOnce'
    BY <1>5, LocalFacts, EndOnce DEF Help, WaitError, EndCallback, Running, RunPC, WaitPC,
       RegisterPC, futureVars, callVars, LocalsOK
<1>6. ASSUME NEW t \in Threads, Unmark(t)
      PROVE  RunsOnce'
    <2>1. CASE cb[t] = NoCallback
        BY <1>6, <2>1 DEF Unmark, RunsOnce, futureVars, callVars
    <2>2. CASE cb[t] # NoCallback
        BY <1>6, <2>2, LocalFacts, EndOnce DEF Unmark, EndCallback, Running, RunPC, WaitPC,
           futureVars, callVars
    <2> QED
        BY <2>1, <2>2
<1>7. ASSUME NEW t \in Threads, NEW f \in Futures, NEW k \in Outcomes,
             Resolve(t, f, k) \/ SettleFromDrain(t, f, k)
      PROVE  RunsOnce'
    BY <1>7 DEF Resolve, SettleFromDrain, CallSettle, callVars, RunsOnce
<1>8. ASSUME NEW t \in Threads, NEW f \in Futures, NEW k \in Outcomes, NEW d \in Callbacks, Register(t, f, k, d)
      PROVE  RunsOnce'
    <2>1. ran' = ran /\ outcome' = outcome /\ on' = [on EXCEPT ![d] = <<f, k>>] /\ ran[d] = 0
        BY <1>8 DEF Register, futureVars, callVars, PlacesOK, KeptOK
    <2>2. \A c \in Callbacks \ {d} : on'[c] = on[c]
        BY <2>1 DEF TypeOK
    <2> QED
        BY <2>1, <2>2 DEF RunsOnce
<1>9. ASSUME NEW t \in Threads, NEW f \in Futures, RunWaiting(t, f)
      PROVE  RunsOnce'
    BY <1>9 DEF RunWaiting, RunsOnce, futureVars, callVars
<1>10. ASSUME NEW f \in Futures, Wait(f)
      PROVE  RunsOnce'
    BY <1>10 DEF Wait, RunsOnce, futureVars, callVars
<1>11. CASE UNCHANGED vars
    BY <1>11 DEF vars, futureVars, callVars, RunsOnce
<1>12. ASSUME NEW t \in Threads, NEW d \in Callbacks, ResumeHalf(t, d)
      PROVE  RunsOnce'
    <2>1. ran[d] = 0 /\ outcome[on[d][1]] = on[d][2]
        BY <1>12 DEF ResumeHalf, PlacesOK, HalfOK, SettleOK
    <2>2. \A c \in Callbacks : ran'[c] = IF c = d THEN ran[c] + 1 ELSE ran[c]
        BY <1>12 DEF ResumeHalf, TypeOK
    <2> QED
        BY <1>12, <2>1, <2>2 DEF ResumeHalf, RunsOnce, futureVars, callVars
<1> QED
    BY <1>1, <1>2, <1>3, <1>4, <1>5, <1>6, <1>7, <1>8, <1>9, <1>10, <1>11, <1>12
       DEF Next, Step, Call

\* Nobody but the main thread marks the future it waits for, unless a block intrudes.
LEMMA MarkStep ==
    ASSUME TypeOK, LocalsOK, MarkOK, [Next]_vars
    PROVE  MarkOK'
<1>0. Main \in Threads
    BY DEF Threads
<1> USE <1>0 DEF TypeOK, LocalsOK, MarkOK, Goto, RegisterPC, RunPC, WaitPC
<1>1. ASSUME NEW t \in Threads, CheckObserved(t) \/ Record(t) \/ Fired(t)
      PROVE  MarkOK'
    BY <1>1 DEF CheckObserved, Record, Fired, futureVars, obsVars, mainVars, threadVars
<1>2. ASSUME NEW t \in Threads, Claim(t)
      PROVE  MarkOK'
    BY <1>2 DEF Claim, futureVars, obsVars, mainVars, threadVars
<1>3. ASSUME NEW t \in Threads, ClaimLost(t)
      PROVE  MarkOK'
    BY <1>3 DEF ClaimLost, Return, futureVars, obsVars, mainVars, threadVars
<1>4. ASSUME NEW t \in Threads, WriteOutcome(t)
      PROVE  MarkOK'
    BY <1>4 DEF WriteOutcome, futureVars, obsVars, mainVars, threadVars
<1>5. ASSUME NEW t \in Threads, DrainCallbacks(t)
      PROVE  MarkOK'
    BY <1>5 DEF DrainCallbacks, futureVars, obsVars, mainVars, threadVars
<1>6. ASSUME NEW t \in Threads, NEW c \in Callbacks, Fire(t, c)
      PROVE  MarkOK'
    BY <1>6 DEF Fire, futureVars, obsVars, mainVars, threadVars
<1>7. ASSUME NEW t \in Threads, Publish(t)
      PROVE  MarkOK'
    BY <1>7 DEF Publish, futureVars, obsVars, mainVars, threadVars
<1>8. ASSUME NEW t \in Threads, Notify(t)
      PROVE  MarkOK'
    BY <1>8 DEF Notify, Return, futureVars, obsVars, mainVars, threadVars
<1>9. ASSUME NEW t \in Threads, Observe(t) \/ Forget(t)
      PROVE  MarkOK'
    BY <1>9 DEF Observe, Forget, futureVars, obsVars, mainVars, threadVars
<1>10. ASSUME NEW t \in Threads, ReadState(t)
      PROVE  MarkOK'
    BY <1>10 DEF ReadState, futureVars, obsVars, mainVars, threadVars
<1>11. ASSUME NEW t \in Threads, ReadOther(t)
      PROVE  MarkOK'
    BY <1>11 DEF ReadOther, Return, futureVars, obsVars, mainVars, threadVars
<1>12. ASSUME NEW t \in Threads, Append(t)
      PROVE  MarkOK'
    BY <1>12 DEF Append, Return, futureVars, obsVars, mainVars, threadVars
<1>13. ASSUME NEW t \in Threads, AppendDrained(t)
      PROVE  MarkOK'
    BY <1>13 DEF AppendDrained, futureVars, obsVars, mainVars, threadVars
<1>14. ASSUME NEW t \in Threads, Run(t)
      PROVE  MarkOK'
    BY <1>14 DEF Run, EndCallback, Return, futureVars, obsVars, mainVars, threadVars
<1>15. ASSUME NEW t \in Threads, ObserveWait(t) \/ ForgetWait(t)
      PROVE  MarkOK'
    BY <1>15 DEF ObserveWait, ForgetWait, futureVars, obsVars, mainVars, threadVars
<1>16. ASSUME NEW t \in Threads, Help(t) \/ WaitError(t)
      PROVE  MarkOK'
    BY <1>16 DEF Help, WaitError, EndCallback, Return, futureVars, obsVars, mainVars, threadVars
<1>17. ASSUME NEW t \in Threads, Mark(t)
      PROVE  MarkOK'
    BY <1>17 DEF Mark, futureVars, obsVars, mainVars, threadVars
<1>18. ASSUME NEW t \in Threads, Poll(t) \/ Acquire(t)
      PROVE  MarkOK'
    BY <1>18 DEF Poll, Acquire, futureVars, obsVars, mainVars, threadVars
<1>19. ASSUME NEW t \in Threads, Unmark(t)
      PROVE  MarkOK'
    BY <1>19 DEF Unmark, EndCallback, Return, futureVars, obsVars, mainVars, threadVars
<1>20. ASSUME NEW t \in Threads, NEW f \in Futures, NEW k \in Outcomes, Resolve(t, f, k)
      PROVE  MarkOK'
    BY <1>20 DEF Resolve, CallSettle, Enter, futureVars, obsVars, mainVars, threadVars
<1>21. ASSUME NEW t \in Threads, NEW f \in Futures, NEW k \in Outcomes, SettleFromDrain(t, f, k)
      PROVE  MarkOK'
    BY <1>21 DEF SettleFromDrain, CallSettle, Enter, futureVars, obsVars, mainVars, threadVars
<1>22. ASSUME NEW t \in Threads, NEW f \in Futures, NEW k \in Outcomes, NEW c \in Callbacks, Register(t, f, k, c)
      PROVE  MarkOK'
    BY <1>22 DEF Register, Enter, futureVars, obsVars, mainVars, threadVars
<1>23. ASSUME NEW t \in Threads, NEW f \in Futures, RunWaiting(t, f)
      PROVE  MarkOK'
    BY <1>23 DEF RunWaiting, futureVars, obsVars, mainVars, threadVars
<1>24. ASSUME NEW f \in Futures, Wait(f)
      PROVE  MarkOK'
    BY <1>24 DEF Wait, Threads, futureVars, obsVars, mainVars, threadVars
<1>25. CASE UNCHANGED vars
    BY <1>25 DEF vars, futureVars, obsVars, mainVars, threadVars
<1>26. ASSUME NEW t \in Threads, Suspend(t)
      PROVE  MarkOK'
    BY <1>26 DEF Suspend, mainVars
<1>27. ASSUME NEW t \in Threads, EndTurn(t)
      PROVE  MarkOK'
    BY <1>27 DEF EndTurn, mainVars, threadVars
<1>28. ASSUME NEW t \in Threads, NEW c \in Callbacks, ResumeHalf(t, c)
      PROVE  MarkOK'
    BY <1>28 DEF ResumeHalf, mainVars, threadVars
<1> QED
    BY <1>1, <1>2, <1>3, <1>4, <1>5, <1>6, <1>7, <1>8, <1>9, <1>10, <1>11, <1>12, <1>13, <1>14,
       <1>15, <1>16, <1>17, <1>18, <1>19, <1>20, <1>21, <1>22, <1>23, <1>24, <1>25,
       <1>26, <1>27, <1>28 DEF Next, Step, Call

\* Steps that leave the main thread's sleep and the threads that are to wake it alone.
LEMMA WokenFrame ==
    ASSUME MainIsWoken,
           UNCHANGED <<state, mainWaitingOn>>,
           intruded => intruded',
           mainWaitSem > 0 => mainWaitSem' > 0,
           pc'[Main] = "acquire" => pc[Main] = "acquire" /\ awaited'[Main] = awaited[Main],
           \A t \in Threads : pc[t] = "notify" => \/ pc'[t] = "notify" /\ fut'[t] = fut[t]
                                                  \/ mainWaitingOn = fut[t] => mainWaitSem' > 0
    PROVE  MainIsWoken'
<1> SUFFICES ASSUME ~intruded', pc'[Main] = "acquire", state'[awaited'[Main]] # "pending", ~(mainWaitSem' > 0)
             PROVE  \E t \in Threads : /\ pc'[t] = "notify" /\ fut'[t] = mainWaitingOn'
                                       /\ mainWaitingOn' = awaited'[Main]
    BY DEF MainIsWoken, WakeIsOnTheWay
<1>1. PICK t \in Threads : pc[t] = "notify" /\ fut[t] = mainWaitingOn /\ mainWaitingOn = awaited[Main]
    BY DEF MainIsWoken, WakeIsOnTheWay
<1> QED
    BY <1>1

\* The mark, the poll and the settler's look at the mark leave no gap between them.
LEMMA WokenStep ==
    ASSUME TypeOK, LocalsOK, MarkOK, MainIsWoken, [Next]_vars
    PROVE  MainIsWoken'
<1>0. Main \in Threads
    BY DEF Threads
<1> USE <1>0 DEF TypeOK, Goto
<1>1. ASSUME NEW t \in Threads, CheckObserved(t) \/ Record(t) \/ Fired(t)
      PROVE  MainIsWoken'
    BY <1>1, WokenFrame DEF CheckObserved, Record, Fired, futureVars, obsVars, mainVars,
       threadVars
<1>2. ASSUME NEW t \in Threads, Claim(t)
      PROVE  MainIsWoken'
    BY <1>2, WokenFrame DEF Claim, futureVars, obsVars, mainVars, threadVars
<1>3. ASSUME NEW t \in Threads, ClaimLost(t)
      PROVE  MainIsWoken'
    BY <1>3, WokenFrame DEF ClaimLost, Return, futureVars, obsVars, mainVars, threadVars
<1>4. ASSUME NEW t \in Threads, WriteOutcome(t)
      PROVE  MainIsWoken'
    BY <1>4, WokenFrame DEF WriteOutcome, futureVars, obsVars, mainVars, threadVars
<1>5. ASSUME NEW t \in Threads, DrainCallbacks(t)
      PROVE  MainIsWoken'
    BY <1>5, WokenFrame DEF DrainCallbacks, futureVars, obsVars, mainVars, threadVars
<1>6. ASSUME NEW t \in Threads, NEW c \in Callbacks, Fire(t, c)
      PROVE  MainIsWoken'
    BY <1>6, WokenFrame DEF Fire, futureVars, obsVars, mainVars, threadVars
<1>7. ASSUME NEW t \in Threads, Publish(t)
      PROVE  MainIsWoken'
    <2>1. /\ state' = [state EXCEPT ![fut[t]] = kind[t]]
          /\ pc[t] = "publish" /\ pc' = [pc EXCEPT ![t] = "notify"]
          /\ UNCHANGED <<fut, awaited, mainWaitingOn, mainWaitSem, intruded>>
        BY <1>7 DEF Publish, Goto, mainVars, threadVars
    <2> SUFFICES ASSUME ~intruded, pc'[Main] = "acquire", state'[awaited[Main]] # "pending", ~(mainWaitSem > 0)
                 PROVE  \E u \in Threads : /\ pc'[u] = "notify" /\ fut[u] = mainWaitingOn
                                           /\ mainWaitingOn = awaited[Main]
        BY <2>1 DEF MainIsWoken, WakeIsOnTheWay
    <2>2. pc[Main] = "acquire" /\ mainWaitingOn = awaited[Main]
        BY <2>1 DEF MarkOK
    <2>3. CASE awaited[Main] = fut[t]
        BY <2>1, <2>2, <2>3
    <2>4. CASE awaited[Main] # fut[t]
        <3>1. state[awaited[Main]] # "pending"
            BY <2>1, <2>2, <2>4 DEF LocalsOK, WaitPC
        <3>2. PICK u \in Threads : pc[u] = "notify" /\ fut[u] = mainWaitingOn
            BY <2>2, <3>1 DEF MainIsWoken, WakeIsOnTheWay
        <3> QED
            BY <2>1, <2>2, <3>2
    <2> QED
        BY <2>3, <2>4
<1>8. ASSUME NEW t \in Threads, Notify(t)
      PROVE  MainIsWoken'
    BY <1>8, WokenFrame DEF Notify, Return, futureVars, obsVars, mainVars, threadVars
<1>9. ASSUME NEW t \in Threads, Observe(t) \/ Forget(t)
      PROVE  MainIsWoken'
    BY <1>9, WokenFrame DEF Observe, Forget, futureVars, obsVars, mainVars, threadVars
<1>10. ASSUME NEW t \in Threads, ReadState(t)
      PROVE  MainIsWoken'
    BY <1>10, WokenFrame DEF ReadState, futureVars, obsVars, mainVars, threadVars
<1>11. ASSUME NEW t \in Threads, ReadOther(t)
      PROVE  MainIsWoken'
    BY <1>11, WokenFrame DEF ReadOther, Return, futureVars, obsVars, mainVars, threadVars
<1>12. ASSUME NEW t \in Threads, Append(t)
      PROVE  MainIsWoken'
    BY <1>12, WokenFrame DEF Append, Return, futureVars, obsVars, mainVars, threadVars
<1>13. ASSUME NEW t \in Threads, AppendDrained(t)
      PROVE  MainIsWoken'
    BY <1>13, WokenFrame DEF AppendDrained, futureVars, obsVars, mainVars, threadVars
<1>14. ASSUME NEW t \in Threads, Run(t)
      PROVE  MainIsWoken'
    BY <1>14, WokenFrame DEF Run, EndCallback, Return, futureVars, obsVars, mainVars, threadVars
<1>15. ASSUME NEW t \in Threads, ObserveWait(t) \/ ForgetWait(t)
      PROVE  MainIsWoken'
    BY <1>15, WokenFrame DEF ObserveWait, ForgetWait, futureVars, obsVars, mainVars, threadVars
<1>16. ASSUME NEW t \in Threads, Help(t) \/ WaitError(t)
      PROVE  MainIsWoken'
    BY <1>16, WokenFrame DEF Help, WaitError, EndCallback, Return, futureVars, obsVars, mainVars,
       threadVars
<1>17. ASSUME NEW t \in Threads, Mark(t)
      PROVE  MainIsWoken'
    BY <1>17 DEF Mark, MainIsWoken, WakeIsOnTheWay
<1>18. ASSUME NEW t \in Threads, Poll(t) \/ Acquire(t)
      PROVE  MainIsWoken'
    <2>1. CASE Poll(t) /\ t = Main
        BY <2>1 DEF Poll, MainIsWoken, WakeIsOnTheWay, futureVars, threadVars
    <2>2. CASE Poll(t) /\ t # Main
        BY <2>2, WokenFrame DEF Poll, futureVars, mainVars, threadVars
    <2>3. CASE Acquire(t) /\ t = Main
        BY <2>3 DEF Acquire, MainIsWoken, WakeIsOnTheWay
    <2>4. CASE Acquire(t) /\ t # Main
        <3>1. intruded
            BY <2>4 DEF Acquire, MarkOK
        <3> QED
            BY <2>4, <3>1 DEF Acquire, MainIsWoken
    <2> QED
        BY <1>18, <2>1, <2>2, <2>3, <2>4
<1>19. ASSUME NEW t \in Threads, Unmark(t)
      PROVE  MainIsWoken'
    <2>1. CASE t = Main
        BY <1>19, <2>1 DEF Unmark, EndCallback, Return, MainIsWoken, WakeIsOnTheWay
    <2>2. CASE t # Main
        <3>1. intruded
            BY <1>19, <2>2 DEF Unmark, MarkOK
        <3> QED
            BY <1>19, <3>1 DEF Unmark, MainIsWoken
    <2> QED
        BY <2>1, <2>2
<1>20. ASSUME NEW t \in Threads, NEW f \in Futures, NEW k \in Outcomes, Resolve(t, f, k)
      PROVE  MainIsWoken'
    BY <1>20, WokenFrame DEF Resolve, CallSettle, Enter, futureVars, obsVars, mainVars, threadVars
<1>21. ASSUME NEW t \in Threads, NEW f \in Futures, NEW k \in Outcomes, SettleFromDrain(t, f, k)
      PROVE  MainIsWoken'
    BY <1>21, WokenFrame DEF SettleFromDrain, CallSettle, Enter, futureVars, obsVars, mainVars,
       threadVars
<1>22. ASSUME NEW t \in Threads, NEW f \in Futures, NEW k \in Outcomes, NEW c \in Callbacks, Register(t, f, k, c)
      PROVE  MainIsWoken'
    BY <1>22, WokenFrame DEF Register, Enter, futureVars, obsVars, mainVars, threadVars
<1>23. ASSUME NEW t \in Threads, NEW f \in Futures, RunWaiting(t, f)
      PROVE  MainIsWoken'
    BY <1>23, WokenFrame DEF RunWaiting, futureVars, obsVars, mainVars, threadVars
<1>24. ASSUME NEW f \in Futures, Wait(f)
      PROVE  MainIsWoken'
    BY <1>24, WokenFrame DEF Wait, Threads, futureVars, obsVars, mainVars, threadVars
<1>25. CASE UNCHANGED vars
    BY <1>25, WokenFrame DEF vars, futureVars, obsVars, mainVars, threadVars
<1>26. ASSUME NEW t \in Threads, Suspend(t)
      PROVE  MainIsWoken'
    BY <1>26, WokenFrame DEF Suspend, futureVars, mainVars
<1>27. ASSUME NEW t \in Threads, EndTurn(t)
      PROVE  MainIsWoken'
    BY <1>27, WokenFrame DEF EndTurn, futureVars, mainVars, threadVars
<1>28. ASSUME NEW t \in Threads, NEW c \in Callbacks, ResumeHalf(t, c)
      PROVE  MainIsWoken'
    BY <1>28, WokenFrame DEF ResumeHalf, futureVars, mainVars, threadVars
<1> QED
    BY <1>1, <1>2, <1>3, <1>4, <1>5, <1>6, <1>7, <1>8, <1>9, <1>10, <1>11, <1>12, <1>13, <1>14,
       <1>15, <1>16, <1>17, <1>18, <1>19, <1>20, <1>21, <1>22, <1>23, <1>24, <1>25,
       <1>26, <1>27, <1>28 DEF Next, Step, Call

-----------------------------------------------------------------------------
(* The theorems.                                                           *)

\* The invariant holds in every state the futures reach.
LEMMA FutureInvariance == Spec => []FutureInv
<1>1. Init => FutureInv
    <2> SUFFICES ASSUME Init PROVE FutureInv
        OBVIOUS
    <2>1. TypeOK
        BY DEF Init, TypeOK, PCs, Outcomes, Contexts
    <2>2. LocalsOK
        BY DEF Init, LocalsOK, Running, SettlePC, RegisterPC, OwnPC, RunPC, WaitPC
    <2>3. SettleOK /\ RunningOK
        BY DEF Init, SettleOK, RunningOK, Running, Owns, OwnPC, RunPC, WaitPC
    <2>4. PlacesOK
        BY NoCallbackAssumption DEF Init, PlacesOK, HandsOK, ListsOK, HalfOK, KeptOK, Has
    <2>5. RunsOnce /\ MarkOK /\ MainIsWoken
        BY DEF Init, RunsOnce, MarkOK, MainIsWoken, WakeIsOnTheWay, Threads
    <2> QED
        BY <2>1, <2>2, <2>3, <2>4, <2>5 DEF FutureInv
<1>2. FutureInv /\ [Next]_vars => FutureInv'
    BY TypeStep, LocalsStep, SettleStep, RunningStep, PlacesStep, OnceStep, MarkStep, WokenStep
       DEF FutureInv
<1> QED
    BY <1>1, <1>2, PTL DEF Spec

\* A block given to thenDo: or catch: runs at most once and only on its outcome, whoever
\* gets to it: the settler that took the list, or the thread that found it taken.
THEOREM CallbacksRunOnce == Spec => []RunsOnce
<1>1. FutureInv => RunsOnce
    BY DEF FutureInv
<1> QED
    BY <1>1, FutureInvariance, PTL

\* No block is lost between the settle and the registration: when __state__ is published
\* each that was registered in time has run, or a wait of its own has suspended it.
THEOREM CallbacksAreKept == Spec => []CallbacksAreRun
<1>1. FutureInv => CallbacksAreRun
    <2> SUFFICES ASSUME FutureInv, NEW c \in Callbacks, Due(c)
                 PROVE  ran[c] = 1 \/ BeingRegistered(c) \/ c \in half
        BY DEF CallbacksAreRun
    <2>1. on[c] \in Futures \X Lists /\ state[on[c][1]] = on[c][2]
        BY DEF FutureInv, TypeOK, Due
    <2>2. on[c] \in drained
        <3>1. on[c] = <<on[c][1], on[c][2]>> /\ on[c][1] \in Futures /\ on[c][2] # "pending"
            BY <2>1 DEF Lists, Outcomes
        <3>2. <<on[c][1], state[on[c][1]]>> \in drained
            BY <2>1, <3>1 DEF FutureInv, SettleOK
        <3> QED
            BY <2>1, <3>1, <3>2
    <2>3. c \notin cbs[on[c]]
        BY <2>1, <2>2 DEF FutureInv, PlacesOK, ListsOK
    <2>4. ran[c] = 1 \/ c \in half \/ \E t \in Threads : Has(t, c)
        BY <2>1, <2>3, NoFutureAssumption DEF FutureInv, PlacesOK, KeptOK
    <2>5. ASSUME NEW t \in Threads, Has(t, c) PROVE BeingRegistered(c)
        <3>1. on[c] = <<fut[t], kind[t]>> /\ state[fut[t]] # "pending"
            BY <2>1, <2>5 DEF FutureInv, PlacesOK, HandsOK, Lists, Outcomes
        <3>2. ~(Owns(t) /\ pc[t] # "notify")
            BY <3>1 DEF FutureInv, SettleOK
        <3>3. c \notin firing[t] /\ ret[t] # "fire"
            BY <3>2 DEF FutureInv, LocalsOK, Owns, OwnPC, RunPC, WaitPC
        <3> QED
            BY <2>5, <3>3 DEF Has, BeingRegistered, FutureInv, TypeOK
    <2> QED
        BY <2>4, <2>5
<1> QED
    BY <1>1, FutureInvariance, PTL

\* The main thread, asleep on its semaphore, is released by the settle of its future:
\* as long as no block that waits on a worker has taken the mark for itself.
THEOREM MainThreadIsWoken == Spec => []MainIsWoken
<1>1. FutureInv => MainIsWoken
    BY DEF FutureInv
<1> QED
    BY <1>1, FutureInvariance, PTL

\* Two settles of one future: one wins, the outcome never changes, and a reader of a
\* settled __state__ finds the outcome that belongs to it.
THEOREM FuturesSettleOnce == Spec => SettledOnce
<1>1. FutureInv /\ [Next]_vars =>
        [\A f \in Futures :
           /\ outcome[f] # "none" => outcome'[f] = outcome[f]
           /\ state'[f] # state[f] => state[f] = "pending" /\ state'[f] = outcome'[f]]_vars
    <2> SUFFICES ASSUME FutureInv, [Next]_vars, NEW f \in Futures
                 PROVE  /\ outcome[f] # "none" => outcome'[f] = outcome[f]
                        /\ state'[f] # state[f] => state[f] = "pending" /\ state'[f] = outcome'[f]
        OBVIOUS
    <2>1. ASSUME NEW t \in Threads, WriteOutcome(t)
          PROVE  /\ outcome[f] # "none" => outcome'[f] = outcome[f]
                 /\ state' = state
        <3>1. fut[t] \in Futures /\ outcome[fut[t]] = "none"
            BY <2>1, LocalFacts DEF FutureInv, WriteOutcome, Goto, SettleOK, Owns, OwnPC
        <3> QED
            BY <2>1, <3>1 DEF WriteOutcome, FutureInv, TypeOK
    <2>2. ASSUME NEW t \in Threads, Publish(t)
          PROVE  /\ outcome' = outcome
                 /\ state'[f] # state[f] => state[f] = "pending" /\ state'[f] = outcome'[f]
        <3>1. fut[t] \in Futures /\ outcome[fut[t]] = kind[t] /\ state[fut[t]] = "pending"
            BY <2>2, LocalFacts DEF FutureInv, Publish, Goto, SettleOK, Owns, OwnPC
        <3> QED
            BY <2>2, <3>1 DEF Publish, FutureInv, TypeOK
    <2>3. CASE (\E t \in Threads : WriteOutcome(t) \/ Publish(t)) \/ UNCHANGED vars
        BY <2>1, <2>2, <2>3 DEF vars, futureVars
    <2>4. CASE ~((\E t \in Threads : WriteOutcome(t) \/ Publish(t)) \/ UNCHANGED vars)
        <3>1. CASE \E t \in Threads : Step(t)
            BY <2>4, <3>1 DEF Step, CheckObserved, Record, Claim, ClaimLost, DrainCallbacks,
               Fire, Fired, Notify, Observe, Forget, ReadState, ReadOther, Append,
               AppendDrained, Run, ObserveWait, ForgetWait, Help, WaitError, Suspend, EndTurn,
               ResumeHalf, Mark, Poll, Acquire, Unmark,
               futureVars
        <3>2. CASE (\E t \in Threads : Call(t)) \/ \E g \in Futures : Wait(g)
            BY <3>2 DEF Call, Resolve, SettleFromDrain, CallSettle, Register, RunWaiting, Wait,
               futureVars
        <3> QED
            BY <2>4, <3>1, <3>2 DEF Next
    <2> QED
        BY <2>3, <2>4
<1> QED
    BY <1>1, FutureInvariance, PTL DEF Spec, SettledOnce

=============================================================================
