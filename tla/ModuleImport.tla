---------------------------- MODULE ModuleImport ----------------------------
(***************************************************************************)
(* STRuntime::importModuleFile: a module's top level runs once, on the     *)
(* first thread that imports it; threads that import it meanwhile wait;    *)
(* an import that could only wait for itself is an error.                  *)
(*                                                                         *)
(* A thread has a stack of the top levels it is in the middle of.  A top   *)
(* level that waits for a future inside an actor keeps its thread, which   *)
(* runs other actors' messages on top of it (waitHelping): such a message  *)
(* is a Message on the stack, and may import too.  Everything under        *)
(* modulesMu is one step.                                                  *)
(***************************************************************************)
EXTENDS Naturals, Sequences, FiniteSets

CONSTANTS
    Threads,
    Keys,         \* absolute paths, the keys of moduleCache
    Files,
    FileOf,       \* the file a path leads to
    Helpers,      \* threads that run actors, whose waits may help
    MaxImports,   \* bound: the imports a thread starts and the messages it helps with
    MaxDepth,     \* bound: the height of its stack
    Message,
    NoThread,
    NoKey

ASSUME FileOfAssumption == FileOf \in [Keys -> Files]
ASSUME HelpersAssumption == Helpers \subseteq Threads
ASSUME NoThreadAssumption == NoThread \notin Threads
ASSUME NoKeyAssumption == NoKey \notin Keys
ASSUME MessageAssumption == Message \notin Keys
ASSUME BoundsAssumption == MaxImports \in Nat /\ MaxDepth \in Nat

VARIABLES
    moduleCache,      \* the keys it has
    modulesLoading,   \* the thread that runs a module's top level
    modulesWaiting,   \* the module a thread waits for
    stack,
    pc,
    want,             \* the module a thread imports
    completed,        \* how often the top level of a file has run to its end
    imports

tables == <<moduleCache, modulesLoading, modulesWaiting>>
vars == <<tables, stack, pc, want, completed, imports>>

TypeOK ==
    /\ moduleCache \in SUBSET Keys
    /\ modulesLoading \in [Keys -> Threads \cup {NoThread}]
    /\ modulesWaiting \in [Threads -> Keys \cup {NoKey}]
    /\ stack \in [Threads -> Seq(Keys \cup {Message})]
    /\ pc \in [Threads -> {"run", "check", "wait", "asleep", "notify"}]
    /\ want \in [Threads -> Keys \cup {NoKey}]
    /\ completed \in [Files -> Nat]
    /\ imports \in [Threads -> 0 .. MaxImports]

Init ==
    /\ moduleCache = {}
    /\ modulesLoading = [k \in Keys |-> NoThread]
    /\ modulesWaiting = [t \in Threads |-> NoKey]
    /\ stack = [t \in Threads |-> <<>>]
    /\ pc = [t \in Threads |-> "run"]
    /\ want = [t \in Threads |-> NoKey]
    /\ completed = [f \in Files |-> 0]
    /\ imports = [t \in Threads |-> 0]

Goto(t, from, to) == pc[t] = from /\ pc' = [pc EXCEPT ![t] = to]

Top(t) == stack[t][Len(stack[t])]
Push(t, x) == stack' = [stack EXCEPT ![t] = Append(@, x)]
Pop(t) == stack' = [stack EXCEPT ![t] = SubSeq(@, 1, Len(@) - 1)]

-----------------------------------------------------------------------------
(* The first critical section of importModuleFile.                         *)

\* loadModule and STModuleProvider::tryLoad, for a path that findModuleFile found.
Import(t, k) ==
    /\ imports[t] < MaxImports
    /\ Goto(t, "run", "check")
    /\ want' = [want EXCEPT ![t] = k]
    /\ imports' = [imports EXCEPT ![t] = @ + 1]
    /\ UNCHANGED <<tables, stack, completed>>

Done(t) == want' = [want EXCEPT ![t] = NoKey]

Cached(t) ==
    /\ Goto(t, "check", "run")
    /\ want[t] \in moduleCache
    /\ Done(t)
    /\ UNCHANGED <<tables, stack, completed, imports>>

\* Does not look for another thread that runs the top level.
ClaimableUnloaded(t) == want[t] \notin moduleCache

Claimable(t) == want[t] \notin moduleCache /\ modulesLoading[want[t]] = NoThread

\* The thread runs the top level itself.
Claim(t) ==
    /\ Goto(t, "check", "run")
    /\ Claimable(t)
    /\ modulesLoading' = [modulesLoading EXCEPT ![want[t]] = t]
    /\ Push(t, want[t])
    /\ Done(t)
    /\ UNCHANGED <<moduleCache, modulesWaiting, completed, imports>>

\* The thread that runs the module thread o waits for, if it waits.
NextOwner(o) ==
    IF modulesWaiting[o] = NoKey THEN NoThread ELSE modulesLoading[modulesWaiting[o]]

\* Looks at the owner of the module only.
FirstOwner(k) == {modulesLoading[k]}

\* The owners found from the owner of module k: the first, the one it waits for ...
Owners(k) ==
    {o \in Threads :
        \A S \in SUBSET Threads :
            /\ modulesLoading[k] \in S \cup {NoThread}
            /\ \A p \in S : NextOwner(p) \in S \cup {NoThread}
            => o \in S}

Loading(t) == want[t] \notin moduleCache /\ modulesLoading[want[t]] # NoThread

Cyclic(t) ==
    /\ Goto(t, "check", "run")
    /\ Loading(t)
    /\ t \in Owners(want[t])
    /\ Done(t)
    /\ UNCHANGED <<tables, stack, completed, imports>>

Await(t) ==
    /\ Goto(t, "check", "wait")
    /\ Loading(t)
    /\ t \notin Owners(want[t])
    /\ modulesWaiting' = [modulesWaiting EXCEPT ![t] = want[t]]
    /\ UNCHANGED <<moduleCache, modulesLoading, stack, want, completed, imports>>

-----------------------------------------------------------------------------
(* The wait: the predicate of modulesCv, under the mutex.                  *)

Sleep(t) ==
    /\ Goto(t, "wait", "asleep")
    /\ modulesLoading[want[t]] # NoThread
    /\ UNCHANGED <<tables, stack, want, completed, imports>>

\* The wait is over and the import starts again.
Recheck(t) ==
    /\ Goto(t, "wait", "check")
    /\ modulesLoading[want[t]] = NoThread
    /\ modulesWaiting' = [modulesWaiting EXCEPT ![t] = NoKey]
    /\ UNCHANGED <<moduleCache, modulesLoading, stack, want, completed, imports>>

SpuriousWake(t) ==
    /\ Goto(t, "asleep", "wait")
    /\ UNCHANGED <<tables, stack, want, completed, imports>>

-----------------------------------------------------------------------------
(* The top level: loadModuleFromFile, and what may happen on its thread.   *)

InTopLevel(t) == pc[t] = "run" /\ stack[t] # <<>> /\ Top(t) # Message

\* Publishes the module and forgets that it was loading.
LoadedStillLoading(t) ==
    /\ InTopLevel(t)
    /\ moduleCache' = moduleCache \cup {Top(t)}
    /\ completed' = [completed EXCEPT ![FileOf[Top(t)]] = @ + 1]
    /\ Pop(t)
    /\ pc' = [pc EXCEPT ![t] = "notify"]
    /\ UNCHANGED <<modulesLoading, modulesWaiting, want, imports>>

\* The module is anchored in the live registry, published and no longer loading.
Loaded(t) ==
    /\ InTopLevel(t)
    /\ moduleCache' = moduleCache \cup {Top(t)}
    /\ modulesLoading' = [modulesLoading EXCEPT ![Top(t)] = NoThread]
    /\ completed' = [completed EXCEPT ![FileOf[Top(t)]] = @ + 1]
    /\ Pop(t)
    /\ pc' = [pc EXCEPT ![t] = "notify"]
    /\ UNCHANGED <<modulesWaiting, want, imports>>

\* The guard of a load that failed leaves the entry.
FailedStillLoading(t) ==
    /\ InTopLevel(t)
    /\ Pop(t)
    /\ UNCHANGED <<tables, pc, want, completed, imports>>

\* A parse, compile or run-time error: LoadingEntryGuard.
Failed(t) ==
    /\ InTopLevel(t)
    /\ modulesLoading' = [modulesLoading EXCEPT ![Top(t)] = NoThread]
    /\ Pop(t)
    /\ pc' = [pc EXCEPT ![t] = "notify"]
    /\ UNCHANGED <<moduleCache, modulesWaiting, want, completed, imports>>

\* modulesCv.notify_all
NotifyAll(t) ==
    /\ pc[t] = "notify"
    /\ pc' = [u \in Threads |-> IF u = t THEN "run"
                                ELSE IF pc[u] = "asleep" THEN "wait" ELSE pc[u]]
    /\ UNCHANGED <<tables, stack, want, completed, imports>>

\* The top level waits for a future in an actor, and its thread runs a message.
Help(t) ==
    /\ t \in Helpers
    /\ InTopLevel(t)
    /\ Len(stack[t]) < MaxDepth
    /\ imports[t] < MaxImports
    /\ imports' = [imports EXCEPT ![t] = @ + 1]
    /\ Push(t, Message)
    /\ UNCHANGED <<tables, pc, want, completed>>

MessageEnds(t) ==
    /\ pc[t] = "run"
    /\ stack[t] # <<>>
    /\ Top(t) = Message
    /\ Pop(t)
    /\ UNCHANGED <<tables, pc, want, completed, imports>>

-----------------------------------------------------------------------------
Step(t) ==
    \/ Cached(t) \/ Claim(t) \/ Cyclic(t) \/ Await(t)
    \/ Sleep(t) \/ Recheck(t)
    \/ Loaded(t) \/ Failed(t) \/ NotifyAll(t) \/ MessageEnds(t)

Next ==
    \E t \in Threads :
        \/ Step(t) \/ Help(t) \/ SpuriousWake(t)
        \/ \E k \in Keys : Import(t, k)

Spec == Init /\ [][Next]_vars

\* Threads keep running; a top level and a message come to their end.
FairSpec == Spec /\ \A t \in Threads : WF_vars(Step(t))

-----------------------------------------------------------------------------
(* Properties.                                                             *)

Positions(t, k) == {i \in 1 .. Len(stack[t]) : stack[t][i] = k}

\* modulesLoading tells the truth: a thread is in it for a module if and only if
\* it is in the middle of that module's top level, and in it once.
LoadingIsRunning ==
    \A k \in Keys, t \in Threads :
        Cardinality(Positions(t, k)) = IF modulesLoading[k] = t THEN 1 ELSE 0

\* modulesWaiting tells the truth too: the edges the cycle check follows are those
\* of the threads that wait at this moment, so a wait that is over closes no cycle.
WaitEdgesAreCurrent ==
    \A t \in Threads :
        modulesWaiting[t] = IF pc[t] \in {"wait", "asleep"} THEN want[t] ELSE NoKey

\* What importModuleFile decides on, who loads what and who waits for what, is true
\* whenever modulesMu is free, also after a load that failed or a wait that ended.
TablesAreTrue == LoadingIsRunning /\ WaitEdgesAreCurrent

\* The comment of loadModule: two names that lead to the same file share one
\* module.  The top level of a file runs to its end once.
LoadedOnce == \A f \in Files : completed[f] <= 1

\* No set of threads each waits for a module that another of them is running: every
\* import cycle, through however many threads, is found by the thread that closes
\* it.  The walk of importModuleFile, which holds modulesMu, ends for that reason.
NoWaitCycle ==
    ~ \E ts \in (SUBSET Threads) \ {{}} :
        \A t \in ts : modulesWaiting[t] # NoKey /\ modulesLoading[modulesWaiting[t]] \in ts

\* Every import ends, with the module or with an error.
ImportsEnd == \A t \in Threads : (want[t] # NoKey) ~> (want[t] = NoKey)

\* LANGUAGE.md 11.2: an import cycle is a module whose top level, directly or
\* through other modules, imports itself; later importers of a module that is
\* still loading wait for it.  A thread reports a cycle on a module of its own
\* stack only from a top level that this module imported.
CyclesAreImports ==
    [][\A t \in Threads :
        Cyclic(t) /\ modulesLoading[want[t]] = t =>
            \A i \in 1 .. Len(stack[t]) :
                stack[t][i] = want[t] => \A j \in (i + 1) .. Len(stack[t]) : stack[t][j] # Message]_vars

=============================================================================
