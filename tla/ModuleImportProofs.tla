------------------------- MODULE ModuleImportProofs -------------------------
(***************************************************************************)
(* Proofs, for any numbers of threads and modules, that importModuleFile   *)
(* decides on true tables, that no threads wait for each other in a        *)
(* cycle, and that a module's top level runs to its end once.              *)
(***************************************************************************)
EXTENDS ModuleImport, FiniteSetTheorems, TLAPS

-----------------------------------------------------------------------------
(* The inductive invariant.                                                *)

\* A thread in the middle of an import knows which module it wants.
WantOK == \A t \in Threads : pc[t] \in {"check", "wait", "asleep"} => want[t] \in Keys

\* LoadingIsRunning without cardinalities: the module a thread is loading has one place
\* on its stack, and every other module has none.
OnStackOnce ==
    \A k \in Keys, t \in Threads :
        /\ modulesLoading[k] = t => \E i \in 1 .. Len(stack[t]) : Positions(t, k) = {i}
        /\ modulesLoading[k] # t => Positions(t, k) = {}

ImportInv == TypeOK /\ WantOK /\ OnStackOnce /\ WaitEdgesAreCurrent /\ NoWaitCycle

-----------------------------------------------------------------------------
(* Stacks.                                                                 *)

\* What Push does to the places of a module.
LEMMA PushPositions ==
    ASSUME TypeOK, NEW t \in Threads, NEW x \in Keys \cup {Message}, Push(t, x), NEW u \in Threads, NEW k
    PROVE  /\ u # t \/ x # k => Positions(u, k)' = Positions(u, k)
           /\ u = t /\ x = k => Positions(u, k)' = Positions(u, k) \cup {Len(stack[t]) + 1}
           /\ Len(stack'[u]) >= Len(stack[u])
           /\ Len(stack'[t]) = Len(stack[t]) + 1
<1>1. stack[u] \in Seq(Keys \cup {Message}) /\ Len(stack[u]) \in Nat
    BY DEF TypeOK
<1>2. CASE u # t
    BY <1>1, <1>2 DEF TypeOK, Push, Positions
<1>3. CASE u = t
    <2>1. stack'[t] = Append(stack[t], x)
        BY DEF TypeOK, Push
    <2>2. /\ Len(stack'[t]) = Len(stack[t]) + 1
          /\ stack'[t][Len(stack[t]) + 1] = x
          /\ \A i \in 1 .. Len(stack[t]) : stack'[t][i] = stack[t][i]
        BY <1>1, <1>3, <2>1
    <2> QED
        BY <1>1, <1>3, <2>2 DEF Positions
<1> QED
    BY <1>2, <1>3

\* What Pop does to the places of a module.
LEMMA PopPositions ==
    ASSUME TypeOK, NEW t \in Threads, stack[t] # <<>>, Pop(t), NEW u \in Threads, NEW k
    PROVE  /\ u # t \/ Top(t) # k => Positions(u, k)' = Positions(u, k)
           /\ u = t /\ Top(t) = k => /\ Len(stack[t]) \in Positions(u, k)
                                     /\ Positions(u, k)' = Positions(u, k) \ {Len(stack[t])}
           /\ u # t => Len(stack'[u]) = Len(stack[u])
<1>1. stack[u] \in Seq(Keys \cup {Message}) /\ Len(stack[u]) \in Nat
    BY DEF TypeOK
<1>2. CASE u # t
    BY <1>1, <1>2 DEF TypeOK, Pop, Positions
<1>3. CASE u = t
    <2>1. stack'[t] = SubSeq(stack[t], 1, Len(stack[t]) - 1)
        BY DEF TypeOK, Pop
    <2>2. Len(stack[t]) >= 1
        BY <1>1, <1>3
    <2>3. /\ Len(stack'[t]) = Len(stack[t]) - 1
          /\ \A i \in 1 .. Len(stack[t]) - 1 : stack'[t][i] = stack[t][i]
        BY <1>1, <1>3, <2>1, <2>2
    <2> QED
        BY <1>1, <1>3, <2>2, <2>3 DEF Positions, Top
<1> QED
    BY <1>2, <1>3

\* A thread in a module's top level is the one modulesLoading names.
LEMMA TopIsLoading ==
    ASSUME TypeOK, OnStackOnce, NEW t \in Threads, InTopLevel(t)
    PROVE  /\ Top(t) \in Keys
           /\ modulesLoading[Top(t)] = t
           /\ Positions(t, Top(t)) = {Len(stack[t])}
<1>1. stack[t] \in Seq(Keys \cup {Message}) /\ Len(stack[t]) \in Nat /\ stack[t] # <<>>
    BY DEF TypeOK, InTopLevel
<1>2. Len(stack[t]) \in 1 .. Len(stack[t])
    BY <1>1
<1>3. Top(t) \in Keys
    BY <1>1, <1>2 DEF Top, InTopLevel
<1>4. Len(stack[t]) \in Positions(t, Top(t))
    BY <1>2 DEF Positions, Top
<1> QED
    BY <1>3, <1>4 DEF OnStackOnce

-----------------------------------------------------------------------------
\* Every step keeps the types.
LEMMA TypeStep ==
    ASSUME TypeOK, WantOK, OnStackOnce, [Next]_vars
    PROVE  TypeOK'
<1> USE FileOfAssumption, BoundsAssumption DEF TypeOK, Goto
<1>1. ASSUME NEW t \in Threads, NEW k \in Keys, Import(t, k) PROVE TypeOK'
    BY <1>1 DEF Import, tables
<1>2. ASSUME NEW t \in Threads, Cached(t) \/ Cyclic(t) PROVE TypeOK'
    BY <1>2 DEF Cached, Cyclic, Done, tables
<1>3. ASSUME NEW t \in Threads, Claim(t) PROVE TypeOK'
    BY <1>3 DEF Claim, Push, Done, WantOK
<1>4. ASSUME NEW t \in Threads, Await(t) PROVE TypeOK'
    BY <1>4 DEF Await, WantOK
<1>5. ASSUME NEW t \in Threads, Sleep(t) \/ SpuriousWake(t) \/ Recheck(t) PROVE TypeOK'
    BY <1>5 DEF Sleep, SpuriousWake, Recheck, tables
<1>6. ASSUME NEW t \in Threads, Pop(t), stack[t] # <<>>
      PROVE  stack' \in [Threads -> Seq(Keys \cup {Message})]
    <2>1. stack[t] \in Seq(Keys \cup {Message}) /\ Len(stack[t]) \in Nat /\ Len(stack[t]) >= 1
        BY <1>6
    <2>2. SubSeq(stack[t], 1, Len(stack[t]) - 1) \in Seq(Keys \cup {Message})
        BY <2>1
    <2> QED
        BY <1>6, <2>2 DEF Pop
<1>7. ASSUME NEW t \in Threads, Loaded(t) PROVE TypeOK'
    <2>1. Top(t) \in Keys
        BY <1>7, TopIsLoading DEF Loaded
    <2>2. FileOf[Top(t)] \in Files /\ stack[t] # <<>>
        BY <1>7, <2>1 DEF Loaded, InTopLevel
    <2> QED
        BY <1>6, <1>7, <2>1, <2>2 DEF Loaded
<1>8. ASSUME NEW t \in Threads, Failed(t) PROVE TypeOK'
    BY <1>6, <1>8, TopIsLoading DEF Failed, InTopLevel
<1>9. ASSUME NEW t \in Threads, NotifyAll(t) PROVE TypeOK'
    BY <1>9 DEF NotifyAll, tables
<1>10. ASSUME NEW t \in Threads, Help(t) PROVE TypeOK'
    BY <1>10 DEF Help, Push, tables
<1>11. ASSUME NEW t \in Threads, MessageEnds(t) PROVE TypeOK'
    BY <1>6, <1>11 DEF MessageEnds, tables
<1>12. CASE UNCHANGED vars
    BY <1>12 DEF vars, tables
<1> QED
    BY <1>1, <1>2, <1>3, <1>4, <1>5, <1>7, <1>8, <1>9, <1>10, <1>11, <1>12 DEF Next, Step

\* Every step keeps the two facts about single threads: the module it wants and the
\* edge it has in the graph of the waits.
LEMMA EdgeStep ==
    ASSUME TypeOK, WantOK, WaitEdgesAreCurrent, [Next]_vars
    PROVE  WantOK' /\ WaitEdgesAreCurrent'
<1> USE DEF TypeOK, WantOK, WaitEdgesAreCurrent, Goto
<1>1. ASSUME NEW t \in Threads, NEW k \in Keys, Import(t, k) PROVE WantOK' /\ WaitEdgesAreCurrent'
    BY <1>1 DEF Import, tables
<1>2. ASSUME NEW t \in Threads, Cached(t) \/ Cyclic(t) PROVE WantOK' /\ WaitEdgesAreCurrent'
    BY <1>2 DEF Cached, Cyclic, Done, tables
<1>3. ASSUME NEW t \in Threads, Claim(t) PROVE WantOK' /\ WaitEdgesAreCurrent'
    BY <1>3 DEF Claim, Done
<1>4. ASSUME NEW t \in Threads, Await(t) PROVE WantOK' /\ WaitEdgesAreCurrent'
    BY <1>4 DEF Await
<1>5. ASSUME NEW t \in Threads, Sleep(t) \/ SpuriousWake(t) PROVE WantOK' /\ WaitEdgesAreCurrent'
    BY <1>5 DEF Sleep, SpuriousWake, tables
<1>6. ASSUME NEW t \in Threads, Recheck(t) PROVE WantOK' /\ WaitEdgesAreCurrent'
    BY <1>6 DEF Recheck
<1>7. ASSUME NEW t \in Threads, Loaded(t) \/ Failed(t) PROVE WantOK' /\ WaitEdgesAreCurrent'
    BY <1>7 DEF Loaded, Failed, InTopLevel
<1>8. ASSUME NEW t \in Threads, NotifyAll(t) PROVE WantOK' /\ WaitEdgesAreCurrent'
    BY <1>8 DEF NotifyAll, tables
<1>9. ASSUME NEW t \in Threads, Help(t) \/ MessageEnds(t) PROVE WantOK' /\ WaitEdgesAreCurrent'
    BY <1>9 DEF Help, MessageEnds, tables
<1>10. CASE UNCHANGED vars
    BY <1>10 DEF vars, tables
<1> QED
    BY <1>1, <1>2, <1>3, <1>4, <1>5, <1>6, <1>7, <1>8, <1>9, <1>10 DEF Next, Step

\* Every step keeps modulesLoading in agreement with the stacks: a claim adds the one
\* place of a module that nobody is loading, and the end of a load removes it.
LEMMA StackStep ==
    ASSUME TypeOK, WantOK, OnStackOnce, [Next]_vars
    PROVE  OnStackOnce'
<1>0. ASSUME UNCHANGED <<modulesLoading, stack>> PROVE OnStackOnce'
    BY <1>0 DEF OnStackOnce, Positions
<1>1. ASSUME NEW t \in Threads, Claim(t) PROVE OnStackOnce'
    <2> DEFINE w == want[t]
    <2>1. w \in Keys /\ modulesLoading[w] = NoThread /\ Push(t, w)
        BY <1>1 DEF Claim, Claimable, Goto, WantOK
    <2>2. /\ modulesLoading'[w] = t
          /\ \A k \in Keys \ {w} : modulesLoading'[k] = modulesLoading[k]
        BY <1>1, <2>1 DEF Claim, TypeOK
    <2> SUFFICES ASSUME NEW k \in Keys, NEW u \in Threads
                 PROVE  /\ modulesLoading'[k] = u =>
                              \E i \in 1 .. Len(stack'[u]) : Positions(u, k)' = {i}
                        /\ modulesLoading'[k] # u => Positions(u, k)' = {}
        BY DEF OnStackOnce
    <2>3. Len(stack[u]) \in Nat
        BY DEF TypeOK
    <2>4. CASE k = w
        <3>1. Positions(u, k) = {}
            BY <2>1, <2>4, NoThreadAssumption DEF OnStackOnce
        <3>2. CASE u = t
            BY <2>1, <2>2, <2>3, <2>4, <3>1, <3>2, PushPositions
        <3>3. CASE u # t
            BY <2>1, <2>2, <2>4, <3>1, <3>3, PushPositions
        <3> QED
            BY <3>2, <3>3
    <2>5. CASE k # w
        <3>1. Positions(u, k)' = Positions(u, k) /\ Len(stack'[u]) >= Len(stack[u])
            BY <2>1, <2>5, PushPositions
        <3>2. Len(stack'[u]) \in Nat
            BY TypeStep DEF TypeOK
        <3> QED
            BY <2>2, <2>3, <2>5, <3>1, <3>2 DEF OnStackOnce
    <2> QED
        BY <2>4, <2>5
<1>2. ASSUME NEW t \in Threads, Loaded(t) \/ Failed(t) PROVE OnStackOnce'
    <2> DEFINE w == Top(t)
    <2>1. InTopLevel(t) /\ Pop(t) /\ stack[t] # <<>>
        BY <1>2 DEF Loaded, Failed, InTopLevel
    <2>2. w \in Keys /\ modulesLoading[w] = t /\ Positions(t, w) = {Len(stack[t])}
        BY <2>1, TopIsLoading
    <2>3. /\ modulesLoading'[w] = NoThread
          /\ \A k \in Keys \ {w} : modulesLoading'[k] = modulesLoading[k]
        BY <1>2, <2>2 DEF Loaded, Failed, TypeOK
    <2> HIDE DEF w
    <2> SUFFICES ASSUME NEW k \in Keys, NEW u \in Threads
                 PROVE  /\ modulesLoading'[k] = u =>
                              \E i \in 1 .. Len(stack'[u]) : Positions(u, k)' = {i}
                        /\ modulesLoading'[k] # u => Positions(u, k)' = {}
        BY DEF OnStackOnce
    <2>4. CASE k = w
        <3>1. Positions(u, k)' = {}
            <4>1. CASE u = t
                BY <2>1, <2>2, <2>4, <4>1, PopPositions DEF w
            <4>2. CASE u # t
                BY <2>1, <2>2, <2>4, <4>2, PopPositions DEF OnStackOnce
            <4> QED
                BY <4>1, <4>2
        <3> QED
            BY <2>3, <2>4, <3>1, NoThreadAssumption
    <2>5. CASE k # w
        <3>1. Positions(u, k)' = Positions(u, k)
            BY <2>1, <2>5, PopPositions DEF w
        <3>2. Positions(u, k)' \subseteq 1 .. Len(stack'[u])
            BY DEF Positions
        <3> QED
            BY <2>3, <2>5, <3>1, <3>2 DEF OnStackOnce
    <2> QED
        BY <2>4, <2>5
<1>3. ASSUME NEW t \in Threads, Help(t) \/ MessageEnds(t) PROVE OnStackOnce'
    <2>1. modulesLoading' = modulesLoading
        BY <1>3 DEF Help, MessageEnds, tables
    <2> SUFFICES ASSUME NEW k \in Keys, NEW u \in Threads
                 PROVE  /\ modulesLoading[k] = u =>
                              \E i \in 1 .. Len(stack'[u]) : Positions(u, k)' = {i}
                        /\ modulesLoading[k] # u => Positions(u, k)' = {}
        BY <2>1 DEF OnStackOnce
    <2>2. k # Message
        BY MessageAssumption
    <2>3. Positions(u, k)' = Positions(u, k)
        <3>1. CASE Help(t)
            BY <2>2, <3>1, PushPositions DEF Help
        <3>2. CASE MessageEnds(t)
            BY <2>2, <3>2, PopPositions DEF MessageEnds
        <3> QED
            BY <1>3, <3>1, <3>2
    <2>4. Positions(u, k)' \subseteq 1 .. Len(stack'[u])
        BY DEF Positions
    <2> QED
        BY <2>3, <2>4 DEF OnStackOnce
<1>4. ASSUME NEW t \in Threads, NEW k \in Keys, Import(t, k) PROVE OnStackOnce'
    BY <1>0, <1>4 DEF Import, tables
<1>5. ASSUME NEW t \in Threads,
             \/ Cached(t) \/ Cyclic(t) \/ Await(t) \/ Sleep(t) \/ Recheck(t)
             \/ SpuriousWake(t) \/ NotifyAll(t)
      PROVE  OnStackOnce'
    BY <1>0, <1>5 DEF Cached, Cyclic, Await, Sleep, Recheck, SpuriousWake, NotifyAll, tables
<1>6. CASE UNCHANGED vars
    BY <1>0, <1>6 DEF vars, tables
<1> QED
    BY <1>1, <1>2, <1>3, <1>4, <1>5, <1>6 DEF Next, Step

-----------------------------------------------------------------------------
(* Wait cycles.                                                            *)

\* The threads of a wait cycle.
WaitCycle(ts) ==
    /\ ts \subseteq Threads
    /\ ts # {}
    /\ \A t \in ts : modulesWaiting[t] # NoKey /\ modulesLoading[modulesWaiting[t]] \in ts

\* The walk along the owners finds every thread that the owner of a module waits for,
\* at whatever distance.
LEMMA OwnersClosed ==
    ASSUME NEW k, modulesLoading[k] \in Threads
    PROVE  /\ modulesLoading[k] \in Owners(k)
           /\ \A p \in Owners(k) : NextOwner(p) \in Threads => NextOwner(p) \in Owners(k)
<1>1. modulesLoading[k] \in Owners(k)
    BY NoThreadAssumption DEF Owners
<1>2. ASSUME NEW p \in Owners(k), NextOwner(p) \in Threads PROVE NextOwner(p) \in Owners(k)
    <2> SUFFICES ASSUME NEW S \in SUBSET Threads,
                        modulesLoading[k] \in S \cup {NoThread},
                        \A q \in S : NextOwner(q) \in S \cup {NoThread}
                 PROVE  NextOwner(p) \in S
        BY <1>2 DEF Owners
    <2>1. p \in S
        BY DEF Owners
    <2> QED
        BY <1>2, <2>1, NoThreadAssumption
<1> QED
    BY <1>1, <1>2

\* A step that changes neither who waits for what nor who loads what, or that only
\* takes such edges away, closes no cycle.
LEMMA FewerEdges ==
    ASSUME NoWaitCycle,
           \A t \in Threads : modulesWaiting'[t] \in {modulesWaiting[t], NoKey},
           TypeOK,
           \A k \in Keys : modulesLoading'[k] \in {modulesLoading[k], NoThread}
    PROVE  NoWaitCycle'
<1> SUFFICES ASSUME NEW ts \in SUBSET Threads, WaitCycle(ts)' PROVE FALSE
    BY DEF NoWaitCycle, WaitCycle
<1>1. WaitCycle(ts)
    BY NoThreadAssumption DEF WaitCycle, TypeOK
<1> QED
    BY <1>1 DEF NoWaitCycle, WaitCycle

\* Every step keeps the waits free of cycles.  The two that add an edge: a thread that
\* claims a module does not wait, and a thread that waits has looked at every owner.
LEMMA CycleStep ==
    ASSUME ImportInv, [Next]_vars
    PROVE  NoWaitCycle'
<1> USE DEF ImportInv
<1>1. ASSUME NEW t \in Threads, Claim(t) PROVE NoWaitCycle'
    <2> SUFFICES ASSUME NEW ts \in SUBSET Threads, WaitCycle(ts)' PROVE FALSE
        BY DEF NoWaitCycle, WaitCycle
    <2>1. modulesWaiting' = modulesWaiting /\ modulesWaiting[t] = NoKey
        BY <1>1 DEF Claim, Goto, WaitEdgesAreCurrent
    <2>2. t \notin ts
        BY <2>1 DEF WaitCycle
    <2>3. WaitCycle(ts)
        BY <1>1, <2>1, <2>2 DEF WaitCycle, Claim, TypeOK
    <2> QED
        BY <2>3 DEF NoWaitCycle, WaitCycle
<1>2. ASSUME NEW t \in Threads, Await(t) PROVE NoWaitCycle'
    <2> SUFFICES ASSUME NEW ts \in SUBSET Threads, WaitCycle(ts)' PROVE FALSE
        BY DEF NoWaitCycle, WaitCycle
    <2> DEFINE k == want[t]
               C == ts \cap Owners(k)
    <2>1. /\ modulesLoading' = modulesLoading
          /\ modulesWaiting'[t] = k
          /\ \A u \in Threads \ {t} : modulesWaiting'[u] = modulesWaiting[u]
          /\ t \notin Owners(k)
        BY <1>2 DEF Await, TypeOK
    <2>2. k \in Keys /\ modulesLoading[k] \in Threads
        BY <1>2 DEF Await, Goto, Loading, WantOK, TypeOK
    <2> HIDE DEF k
    <2>3. CASE t \notin ts
        <3>1. WaitCycle(ts)
            BY <2>1, <2>3 DEF WaitCycle
        <3> QED
            BY <3>1 DEF NoWaitCycle, WaitCycle
    <2>4. CASE t \in ts
        <3>1. modulesLoading[k] \in C
            BY <2>1, <2>2, <2>4, OwnersClosed DEF WaitCycle
        <3>2. ASSUME NEW p \in C
              PROVE  modulesWaiting[p] # NoKey /\ modulesLoading[modulesWaiting[p]] \in C
            <4>1. p \in ts /\ p # t
                BY <2>1
            <4>2. modulesWaiting[p] # NoKey /\ modulesLoading[modulesWaiting[p]] \in ts
                BY <2>1, <4>1 DEF WaitCycle
            <4>3. NextOwner(p) = modulesLoading[modulesWaiting[p]]
                BY <4>2 DEF NextOwner
            <4> QED
                BY <2>2, <4>2, <4>3, OwnersClosed
        <3>3. WaitCycle(C)
            BY <3>1, <3>2 DEF WaitCycle
        <3> QED
            BY <3>3 DEF NoWaitCycle, WaitCycle
    <2> QED
        BY <2>3, <2>4
<1>3. ASSUME NEW t \in Threads, Recheck(t) PROVE NoWaitCycle'
    BY <1>3, FewerEdges DEF Recheck, TypeOK
<1>4. ASSUME NEW t \in Threads, Loaded(t) \/ Failed(t) PROVE NoWaitCycle'
    <2>1. Top(t) \in Keys
        BY <1>4, TopIsLoading DEF Loaded, Failed
    <2> QED
        BY <1>4, <2>1, FewerEdges DEF Loaded, Failed, TypeOK
<1>5. ASSUME NEW t \in Threads, NEW k \in Keys, Import(t, k) PROVE NoWaitCycle'
    BY <1>5, FewerEdges DEF Import, tables
<1>6. ASSUME NEW t \in Threads,
             \/ Cached(t) \/ Cyclic(t) \/ Sleep(t) \/ SpuriousWake(t)
             \/ NotifyAll(t) \/ Help(t) \/ MessageEnds(t)
      PROVE  NoWaitCycle'
    BY <1>6, FewerEdges DEF Cached, Cyclic, Sleep, SpuriousWake, NotifyAll, Help, MessageEnds,
       tables
<1>7. CASE UNCHANGED vars
    BY <1>7, FewerEdges DEF vars, tables
<1> QED
    BY <1>1, <1>2, <1>3, <1>4, <1>5, <1>6, <1>7 DEF Next, Step

-----------------------------------------------------------------------------
(* The theorems.                                                           *)

\* The invariant holds in every state of the imports.
LEMMA ImportInvariance == Spec => []ImportInv
<1>1. Init => ImportInv
    <2> SUFFICES ASSUME Init PROVE ImportInv
        OBVIOUS
    <2>1. TypeOK
        BY BoundsAssumption DEF Init, TypeOK
    <2>2. WantOK /\ WaitEdgesAreCurrent
        BY DEF Init, WantOK, WaitEdgesAreCurrent
    <2>3. OnStackOnce
        BY NoThreadAssumption DEF Init, OnStackOnce, Positions
    <2>4. NoWaitCycle
        BY DEF Init, NoWaitCycle
    <2> QED
        BY <2>1, <2>2, <2>3, <2>4 DEF ImportInv
<1>2. ImportInv /\ [Next]_vars => ImportInv'
    BY TypeStep, EdgeStep, StackStep, CycleStep DEF ImportInv
<1> QED
    BY <1>1, <1>2, PTL DEF Spec

\* The tables importModuleFile decides on are true at every step: modulesLoading names
\* exactly the threads that are inside a top level, after a load that failed too, and
\* modulesWaiting exactly the waits that go on.
THEOREM ImportTablesAreTrue == Spec => []TablesAreTrue
<1>1. ImportInv => TablesAreTrue
    <2> SUFFICES ASSUME ImportInv, NEW k \in Keys, NEW t \in Threads
                 PROVE  Cardinality(Positions(t, k)) = IF modulesLoading[k] = t THEN 1 ELSE 0
        BY DEF TablesAreTrue, LoadingIsRunning, ImportInv
    <2>1. CASE modulesLoading[k] = t
        <3>1. PICK i : Positions(t, k) = {i}
            BY <2>1 DEF ImportInv, OnStackOnce
        <3> QED
            BY <2>1, <3>1, FS_Singleton
    <2>2. CASE modulesLoading[k] # t
        BY <2>2, FS_EmptySet DEF ImportInv, OnStackOnce
    <2> QED
        BY <2>1, <2>2
<1> QED
    BY <1>1, ImportInvariance, PTL

\* No threads wait for each other's modules, however many they are: the walk of
\* importModuleFile finds every cycle before it is closed.
THEOREM ImportsDoNotDeadlock == Spec => []NoWaitCycle
<1>1. ImportInv => NoWaitCycle
    BY DEF ImportInv
<1> QED
    BY <1>1, ImportInvariance, PTL

-----------------------------------------------------------------------------
(* The top level of a file runs once, when every file has one key.         *)

\* No two keys lead to one file.  moduleCache is keyed by absolute paths that are not
\* resolved further, so a file with two such paths is outside the theorem (and is what
\* the instance with aliased paths shows).
OneKeyPerFile == \A j, k \in Keys : FileOf[j] = FileOf[k] => j = k

\* A module that is published is not loading, and only the top levels of published
\* modules have come to their end, each once.
PublishedOnce ==
    /\ \A k \in moduleCache : modulesLoading[k] = NoThread
    /\ \A f \in Files : completed[f] = IF \E k \in moduleCache : FileOf[k] = f THEN 1 ELSE 0

\* A module is published after its only load.
LEMMA PublishedStep ==
    ASSUME OneKeyPerFile, ImportInv, PublishedOnce, [Next]_vars
    PROVE  PublishedOnce'
<1> USE DEF ImportInv
<1>0. ASSUME UNCHANGED <<moduleCache, modulesLoading, completed>> PROVE PublishedOnce'
    BY <1>0 DEF PublishedOnce
<1>1. ASSUME NEW t \in Threads, Claim(t) PROVE PublishedOnce'
    BY <1>1 DEF Claim, Claimable, TypeOK, PublishedOnce
<1>2. ASSUME NEW t \in Threads, Loaded(t) PROVE PublishedOnce'
    <2> DEFINE w == Top(t)
    <2>1. w \in Keys /\ modulesLoading[w] = t
        BY <1>2, TopIsLoading DEF Loaded
    <2>2. /\ moduleCache' = moduleCache \cup {w}
          /\ modulesLoading' = [modulesLoading EXCEPT ![w] = NoThread]
          /\ completed' = [completed EXCEPT ![FileOf[w]] = @ + 1]
        BY <1>2 DEF Loaded
    <2> HIDE DEF w
    <2>3. w \notin moduleCache
        BY <2>1, NoThreadAssumption DEF PublishedOnce
    <2>4. \A k \in moduleCache : FileOf[k] # FileOf[w]
        BY <2>1, <2>3 DEF OneKeyPerFile, TypeOK
    <2>5. FileOf[w] \in Files /\ completed[FileOf[w]] = 0
        BY <2>1, <2>4, FileOfAssumption DEF PublishedOnce
    <2>6. \A k \in moduleCache' : modulesLoading'[k] = NoThread
        BY <2>1, <2>2 DEF TypeOK, PublishedOnce
    <2>7. ASSUME NEW f \in Files
          PROVE  completed'[f] = IF \E k \in moduleCache' : FileOf[k] = f THEN 1 ELSE 0
        <3>1. CASE f = FileOf[w]
            BY <2>2, <2>5, <3>1 DEF TypeOK
        <3>2. CASE f # FileOf[w]
            BY <2>2, <3>2 DEF TypeOK, PublishedOnce
        <3> QED
            BY <3>1, <3>2
    <2> QED
        BY <2>6, <2>7 DEF PublishedOnce
<1>3. ASSUME NEW t \in Threads, Failed(t) PROVE PublishedOnce'
    BY <1>3, TopIsLoading DEF Failed, TypeOK, PublishedOnce
<1>4. ASSUME NEW t \in Threads, NEW k \in Keys, Import(t, k) PROVE PublishedOnce'
    BY <1>0, <1>4 DEF Import, tables
<1>5. ASSUME NEW t \in Threads,
             \/ Cached(t) \/ Cyclic(t) \/ Await(t) \/ Sleep(t) \/ Recheck(t)
             \/ SpuriousWake(t) \/ NotifyAll(t) \/ Help(t) \/ MessageEnds(t)
      PROVE  PublishedOnce'
    BY <1>0, <1>5 DEF Cached, Cyclic, Await, Sleep, Recheck, SpuriousWake, NotifyAll, Help,
       MessageEnds, tables
<1>6. CASE UNCHANGED vars
    BY <1>0, <1>6 DEF vars, tables
<1> QED
    BY <1>1, <1>2, <1>3, <1>4, <1>5, <1>6 DEF Next, Step

\* However many threads import a module, and however often its load fails first, its top
\* level runs to its end once, as long as every file has one path.
THEOREM TopLevelsRunOnce ==
    ASSUME OneKeyPerFile
    PROVE  Spec => []LoadedOnce
<1>1. Init => PublishedOnce
    BY DEF Init, PublishedOnce
<1>2. PublishedOnce => LoadedOnce
    BY DEF PublishedOnce, LoadedOnce
<1>3. ImportInv /\ PublishedOnce /\ [Next]_vars => PublishedOnce'
    BY PublishedStep
<1> QED
    BY <1>1, <1>2, <1>3, ImportInvariance, PTL DEF Spec

=============================================================================
