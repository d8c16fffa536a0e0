-------------------------- MODULE WaitHelpingProofs --------------------------
(***************************************************************************)
(* Proofs, for any numbers of actors, messages and threads and any nesting *)
(* of helped messages, that __waiting_on__ is never stale, and that        *)
(* detectWaitCycle overlooks no cycle unless one is buried on another      *)
(* thread's stack or is longer than its walk.                              *)
(***************************************************************************)
EXTENDS WaitHelping, SequenceTheorems, FiniteSetTheorems, WellFoundedInduction, TLAPS

-----------------------------------------------------------------------------
(* The inductive invariant.                                                *)

TypesOK ==
    /\ target \in [Messages -> Actors \cup {NoActor}]
    /\ state \in [Messages -> {"unsent", "queued", "active", "settled"}]
    /\ awaited \in [Messages -> Messages \cup {NoMessage}]
    /\ suspended \in SUBSET Messages
    /\ waitingOn \in [Actors -> Messages \cup {NoMessage}]
    /\ stack \in [Threads -> Seq(Messages)]
    /\ pc \in [Threads -> {"idle", "run", "record", "walk", "next", "park", "help"}]

\* A thread is idle when nothing is on its stack.
IdleOK == \A t \in Threads : pc[t] = "idle" <=> stack[t] = <<>>

\* Message m is the i-th on the stack of thread t.
OnStack(m, t, i) == i \in 1 .. Len(stack[t]) /\ stack[t][i] = m

\* A message that is in the middle of its method is in one place: suspended, or at one
\* height of one thread's stack.
PlaceOK ==
    /\ \A m \in Messages, t, u \in Threads : \A i, j \in Nat :
         OnStack(m, t, i) /\ OnStack(m, u, j) => t = u /\ i = j
    /\ \A m \in Messages, t \in Threads : \A i \in Nat :
         OnStack(m, t, i) => m \notin suspended /\ state[m] = "active"
    /\ \A m \in suspended : state[m] = "active"

\* An actor is in the middle of one message at a time.
OneMessageOK ==
    /\ \A m \in Messages : state[m] # "unsent" => target[m] \in Actors
    /\ \A m, n \in Messages :
         state[m] = "active" /\ state[n] = "active" /\ target[m] = target[n] => m = n

\* Only a method in the middle of a wait has a future it waits for.
AwaitedOK ==
    /\ \A m \in Messages : state[m] \in {"unsent", "queued"} => awaited[m] = NoMessage
    /\ \A t \in Threads : pc[t] = "run" => awaited[Top(t)] = NoMessage

RecordInv == TypesOK /\ IdleOK /\ PlaceOK /\ OneMessageOK /\ AwaitedOK /\ RecordsAreCurrent

-----------------------------------------------------------------------------
(* Stacks.                                                                 *)

\* The message a busy thread runs.
LEMMA TopFacts ==
    ASSUME TypesOK, IdleOK, PlaceOK, NEW t \in Threads, pc[t] # "idle"
    PROVE  /\ Len(stack[t]) \in Nat /\ Len(stack[t]) >= 1
           /\ OnStack(Top(t), t, Len(stack[t]))
           /\ Top(t) \in Messages
           /\ state[Top(t)] = "active" /\ Top(t) \notin suspended
<1>1. stack[t] \in Seq(Messages) /\ stack[t] # <<>>
    BY DEF TypesOK, IdleOK
<1>2. Len(stack[t]) \in Nat /\ Len(stack[t]) >= 1
    BY <1>1
<1>3. Top(t) \in Messages /\ OnStack(Top(t), t, Len(stack[t]))
    BY <1>1, <1>2 DEF Top, OnStack
<1> QED
    BY <1>2, <1>3 DEF PlaceOK

\* Two busy threads run two messages.
LEMMA TopsDiffer ==
    ASSUME TypesOK, IdleOK, PlaceOK, NEW t \in Threads, pc[t] # "idle",
           NEW u \in Threads, pc[u] # "idle", Top(t) = Top(u)
    PROVE  t = u
BY TopFacts DEF PlaceOK

\* What Push leaves of a thread's stack.
LEMMA PushStack ==
    ASSUME TypesOK, NEW t \in Threads, NEW m \in Messages, Push(t, m)
    PROVE  /\ stack' \in [Threads -> Seq(Messages)]
           /\ stack'[t] # <<>> /\ Top(t)' = m
           /\ \A u \in Threads \ {t} : stack'[u] = stack[u]
           /\ \A n \in Messages, u \in Threads : \A i \in Nat :
                OnStack(n, u, i)' => \/ OnStack(n, u, i)
                                     \/ n = m /\ u = t /\ i = Len(stack[t]) + 1
<1>1. stack[t] \in Seq(Messages) /\ Len(stack[t]) \in Nat
    BY DEF TypesOK
<1>2. stack'[t] = Append(stack[t], m) /\ \A u \in Threads \ {t} : stack'[u] = stack[u]
    BY DEF TypesOK, Push
<1>3. /\ Append(stack[t], m) \in Seq(Messages)
      /\ Len(Append(stack[t], m)) = Len(stack[t]) + 1
      /\ Append(stack[t], m)[Len(stack[t]) + 1] = m
      /\ \A i \in 1 .. Len(stack[t]) : Append(stack[t], m)[i] = stack[t][i]
    BY <1>1
<1>4. stack' \in [Threads -> Seq(Messages)]
    BY <1>3 DEF TypesOK, Push
<1>5. stack'[t] # <<>> /\ Top(t)' = m
    BY <1>1, <1>2, <1>3 DEF Top
<1>6. ASSUME NEW n \in Messages, NEW u \in Threads, NEW i \in Nat, OnStack(n, u, i)'
      PROVE  OnStack(n, u, i) \/ (n = m /\ u = t /\ i = Len(stack[t]) + 1)
    <2>1. CASE u = t
        <3>1. /\ i \in 1 .. Len(Append(stack[t], m)) /\ Append(stack[t], m)[i] = n
              /\ Len(stack[t]) \in Nat
            BY <1>1, <1>2, <1>6, <2>1 DEF OnStack
        <3>2. CASE i \in 1 .. Len(stack[t])
            BY <1>3, <2>1, <3>1, <3>2 DEF OnStack
        <3>3. CASE i \notin 1 .. Len(stack[t])
            <4>1. i = Len(stack[t]) + 1
                BY <1>3, <3>1, <3>3
            <4> QED
                BY <1>3, <2>1, <3>1, <4>1
        <3> QED
            BY <3>2, <3>3
    <2>2. CASE u # t
        BY <1>2, <1>6, <2>2 DEF OnStack
    <2> QED
        BY <2>1, <2>2
<1> QED
    BY <1>2, <1>4, <1>5, <1>6

\* What Pop leaves of a thread's stack.
LEMMA PopStack ==
    ASSUME TypesOK, NEW t \in Threads, Len(stack[t]) >= 1, Pop(t)
    PROVE  /\ stack' \in [Threads -> Seq(Messages)]
           /\ stack'[t] = <<>> <=> Len(stack[t]) = 1
           /\ \A u \in Threads \ {t} : stack'[u] = stack[u]
           /\ \A n \in Messages, u \in Threads : \A i \in Nat :
                OnStack(n, u, i)' => /\ OnStack(n, u, i)
                                     /\ u = t => i # Len(stack[t])
<1>1. stack[t] \in Seq(Messages) /\ Len(stack[t]) \in Nat
    BY DEF TypesOK
<1>2. /\ stack'[t] = SubSeq(stack[t], 1, Len(stack[t]) - 1)
      /\ \A u \in Threads \ {t} : stack'[u] = stack[u]
    BY DEF TypesOK, Pop
<1>3. /\ SubSeq(stack[t], 1, Len(stack[t]) - 1) \in Seq(Messages)
      /\ Len(SubSeq(stack[t], 1, Len(stack[t]) - 1)) = Len(stack[t]) - 1
      /\ \A i \in 1 .. Len(stack[t]) - 1 : SubSeq(stack[t], 1, Len(stack[t]) - 1)[i] = stack[t][i]
    BY <1>1
<1>4. stack' \in [Threads -> Seq(Messages)]
    BY <1>3 DEF TypesOK, Pop
<1>5. stack'[t] = <<>> <=> Len(stack[t]) = 1
    <2>1. stack'[t] \in Seq(Messages) /\ Len(stack'[t]) = Len(stack[t]) - 1
        BY <1>2, <1>3
    <2>2. stack'[t] = <<>> <=> Len(stack'[t]) = 0
        BY <2>1, EmptySeq
    <2> QED
        BY <1>1, <2>1, <2>2
<1>6. ASSUME NEW n \in Messages, NEW u \in Threads, NEW i \in Nat, OnStack(n, u, i)'
      PROVE  OnStack(n, u, i) /\ (u = t => i # Len(stack[t]))
    BY <1>1, <1>2, <1>3, <1>6 DEF OnStack
<1> QED
    BY <1>2, <1>4, <1>5, <1>6

-----------------------------------------------------------------------------
(* Steps.                                                                  *)

RunningPC == {"run", "record", "walk", "next", "park", "help"}

\* The steps of a method's wait keep its message where it is.
LEMMA InPlace ==
    ASSUME TypesOK, IdleOK, PlaceOK, OneMessageOK, NEW t \in Threads, pc[t] # "idle",
           NEW to \in RunningPC, pc' = [pc EXCEPT ![t] = to],
           UNCHANGED <<target, state, suspended, stack>>
    PROVE  /\ IdleOK' /\ PlaceOK' /\ OneMessageOK'
           /\ pc' \in [Threads -> {"idle", "run", "record", "walk", "next", "park", "help"}]
<1>1. IdleOK'
    BY DEF IdleOK, TypesOK, RunningPC
<1>2. PlaceOK'
    BY DEF PlaceOK, OnStack
<1>3. OneMessageOK'
    BY DEF OneMessageOK
<1> QED
    BY <1>1, <1>2, <1>3 DEF TypesOK, RunningPC

\* A method waits for a future: there was no record of its actor.
LEMMA BeginWaitStep ==
    ASSUME RecordInv, NEW t \in Threads, NEW f \in Messages, BeginWait(t, f)
    PROVE  RecordInv'
<1> USE DEF RecordInv
<1>1. /\ pc[t] = "run" /\ pc' = [pc EXCEPT ![t] = "record"]
      /\ awaited' = [awaited EXCEPT ![Top(t)] = f]
      /\ UNCHANGED <<target, state, suspended, waitingOn, stack>>
    BY DEF BeginWait, Goto
<1>2. Top(t) \in Messages /\ state[Top(t)] = "active" /\ awaited[Top(t)] = NoMessage
    BY <1>1, TopFacts DEF AwaitedOK
<1>3. IdleOK' /\ PlaceOK' /\ OneMessageOK' /\ TypesOK'
    BY <1>1, <1>2, InPlace DEF RunningPC, TypesOK
<1>4. AwaitedOK'
    <2>1. \A m \in Messages : state[m] \in {"unsent", "queued"} => awaited'[m] = NoMessage
        BY <1>1, <1>2 DEF AwaitedOK, TypesOK
    <2>2. ASSUME NEW u \in Threads, pc'[u] = "run" PROVE awaited'[Top(u)] = NoMessage
        <3>1. u # t /\ pc[u] = "run"
            BY <1>1, <2>2 DEF TypesOK
        <3>2. Top(u) # Top(t) /\ Top(u) \in Messages
            BY <1>1, <3>1, TopsDiffer, TopFacts
        <3> QED
            BY <1>1, <3>1, <3>2 DEF AwaitedOK, TypesOK
    <2> QED
        BY <1>1, <2>1, <2>2 DEF AwaitedOK, Top
<1>5. RecordsAreCurrent'
    <2> SUFFICES ASSUME NEW a \in Actors, waitingOn[a] # NoMessage
                 PROVE  \E m \in Messages : /\ target[m] = a /\ state[m] = "active"
                                            /\ awaited'[m] = waitingOn[a]
        BY <1>1 DEF RecordsAreCurrent
    <2>1. PICK m \in Messages : target[m] = a /\ state[m] = "active" /\ awaited[m] = waitingOn[a]
        BY DEF RecordsAreCurrent
    <2>2. m # Top(t)
        BY <1>2, <2>1
    <2> QED
        BY <1>1, <2>1, <2>2 DEF TypesOK
<1> QED
    BY <1>3, <1>4, <1>5

\* The record is of the wait of the running method.
LEMMA RecordStep ==
    ASSUME RecordInv, NEW t \in Threads, Record(t)
    PROVE  RecordInv'
<1> USE DEF RecordInv
<1>1. /\ pc[t] = "record" /\ pc' = [pc EXCEPT ![t] = "walk"]
      /\ waitingOn' = [waitingOn EXCEPT ![Self(t)] = awaited[Top(t)]]
      /\ UNCHANGED <<target, state, awaited, suspended, stack>>
    BY DEF Record, Goto, msgVars
<1>2. Top(t) \in Messages /\ state[Top(t)] = "active" /\ Self(t) \in Actors
    BY <1>1, TopFacts DEF OneMessageOK, Self
<1>3. IdleOK' /\ PlaceOK' /\ OneMessageOK' /\ TypesOK'
    BY <1>1, <1>2, InPlace DEF RunningPC, TypesOK
<1>4. AwaitedOK'
    BY <1>1 DEF AwaitedOK, Top, TypesOK
<1>5. RecordsAreCurrent'
    BY <1>1, <1>2 DEF RecordsAreCurrent, TypesOK, Self
<1> QED
    BY <1>3, <1>4, <1>5

\* A wait ends: the record and the wait go together.
LEMMA EndWaitStep ==
    ASSUME RecordInv, NEW t \in Threads, pc[t] \in {"walk", "help"}, pc' = [pc EXCEPT ![t] = "run"],
           waitingOn' = [waitingOn EXCEPT ![Self(t)] = NoMessage],
           awaited' = [awaited EXCEPT ![Top(t)] = NoMessage],
           UNCHANGED <<target, state, suspended, stack>>
    PROVE  RecordInv'
<1> USE DEF RecordInv
<1>1. Top(t) \in Messages /\ state[Top(t)] = "active" /\ Self(t) \in Actors
    BY TopFacts DEF OneMessageOK, Self
<1>2. IdleOK' /\ PlaceOK' /\ OneMessageOK' /\ TypesOK'
    BY <1>1, InPlace DEF RunningPC, TypesOK
<1>3. AwaitedOK'
    <2>1. \A m \in Messages : state[m] \in {"unsent", "queued"} => awaited'[m] = NoMessage
        BY DEF AwaitedOK, TypesOK
    <2>2. ASSUME NEW u \in Threads, pc'[u] = "run" PROVE awaited'[Top(u)] = NoMessage
        <3>1. CASE u = t
            BY <1>1, <3>1 DEF TypesOK
        <3>2. CASE u # t
            BY <2>2, <3>2, TopFacts DEF AwaitedOK, TypesOK
        <3> QED
            BY <3>1, <3>2
    <2> QED
        BY <2>1, <2>2 DEF AwaitedOK, Top
<1>4. RecordsAreCurrent'
    <2> SUFFICES ASSUME NEW a \in Actors, waitingOn'[a] # NoMessage
                 PROVE  \E m \in Messages : /\ target[m] = a /\ state[m] = "active"
                                            /\ awaited'[m] = waitingOn'[a]
        BY DEF RecordsAreCurrent
    <2>1. a # Self(t) /\ waitingOn'[a] = waitingOn[a]
        BY <1>1 DEF TypesOK
    <2>2. PICK m \in Messages : target[m] = a /\ state[m] = "active" /\ awaited[m] = waitingOn[a]
        BY <2>1 DEF RecordsAreCurrent
    <2>3. m # Top(t)
        BY <2>1, <2>2 DEF Self
    <2> QED
        BY <2>1, <2>2, <2>3 DEF TypesOK
<1> QED
    BY <1>2, <1>3, <1>4

\* A step of the walk looks only.
LEMMA WalkStep ==
    ASSUME RecordInv, NEW t \in Threads, pc[t] # "idle",
           NEW to \in RunningPC \ {"run"}, pc' = [pc EXCEPT ![t] = to],
           UNCHANGED <<target, state, awaited, suspended, waitingOn, stack>>
    PROVE  RecordInv'
<1> USE DEF RecordInv
<1>1. IdleOK' /\ PlaceOK' /\ OneMessageOK' /\ TypesOK'
    BY InPlace DEF RunningPC, TypesOK
<1>2. AwaitedOK'
    BY DEF AwaitedOK, Top, TypesOK, RunningPC
<1>3. RecordsAreCurrent'
    BY DEF RecordsAreCurrent
<1> QED
    BY <1>1, <1>2, <1>3

\* A send.
LEMMA SendStep ==
    ASSUME RecordInv, NEW m \in Messages, NEW a \in Actors, Send(m, a)
    PROVE  RecordInv'
<1> USE DEF RecordInv
<1>1. /\ state[m] = "unsent" /\ state' = [state EXCEPT ![m] = "queued"]
      /\ target' = [target EXCEPT ![m] = a]
      /\ UNCHANGED <<awaited, suspended, waitingOn, stack, pc>>
    BY DEF Send
<1>2. TypesOK' /\ IdleOK'
    BY <1>1 DEF TypesOK, IdleOK
<1>3. \A n \in Messages : /\ state'[n] = "active" <=> state[n] = "active"
                          /\ state[n] = "active" => target'[n] = target[n]
    BY <1>1 DEF TypesOK
<1>4. PlaceOK'
    BY <1>1, <1>3 DEF PlaceOK, OnStack, TypesOK
<1>5. OneMessageOK'
    <2>1. \A n \in Messages : state'[n] # "unsent" => target'[n] \in Actors
        BY <1>1 DEF OneMessageOK, TypesOK
    <2> QED
        BY <1>3, <2>1 DEF OneMessageOK
<1>6. AwaitedOK'
    BY <1>1 DEF AwaitedOK, Top, TypesOK
<1>7. RecordsAreCurrent'
    BY <1>1, <1>3 DEF RecordsAreCurrent
<1> QED
    BY <1>2, <1>4, <1>5, <1>6, <1>7

\* A message comes onto a thread's stack, to run.
LEMMA PushPlace ==
    ASSUME TypesOK, IdleOK, PlaceOK, NEW t \in Threads, NEW m \in Messages,
           Push(t, m), pc' = [pc EXCEPT ![t] = "run"],
           \A u \in Threads : \A i \in Nat : ~OnStack(m, u, i),
           suspended' = suspended \ {m}, state' = [state EXCEPT ![m] = "active"]
    PROVE  IdleOK' /\ PlaceOK' /\ stack' \in [Threads -> Seq(Messages)] /\ Top(t)' = m
           /\ \A u \in Threads \ {t} : Top(u)' = Top(u)
<1>1. IdleOK'
    BY PushStack DEF IdleOK, TypesOK
<1>2. \A n \in Messages, u \in Threads : \A i \in Nat :
        OnStack(n, u, i)' => \/ OnStack(n, u, i) /\ n # m
                             \/ n = m /\ u = t /\ i = Len(stack[t]) + 1
    BY PushStack
<1>3. PlaceOK'
    <2>1. \A n \in Messages, u, v \in Threads : \A i, j \in Nat :
            OnStack(n, u, i)' /\ OnStack(n, v, j)' => u = v /\ i = j
        BY <1>2 DEF PlaceOK
    <2>2. ASSUME NEW n \in Messages, NEW u \in Threads, NEW i \in Nat, OnStack(n, u, i)'
          PROVE  n \notin suspended' /\ state'[n] = "active"
        <3>1. CASE n = m
            BY <3>1 DEF TypesOK
        <3>2. CASE n # m
            BY <1>2, <2>2, <3>2 DEF PlaceOK, TypesOK
        <3> QED
            BY <3>1, <3>2
    <2>3. \A n \in suspended' : state'[n] = "active"
        BY DEF PlaceOK, TypesOK
    <2> QED
        BY <2>1, <2>2, <2>3 DEF PlaceOK
<1>4. \A u \in Threads \ {t} : Top(u)' = Top(u)
    BY PushStack DEF Top
<1> QED
    BY <1>1, <1>3, <1>4, PushStack

\* A message leaves the top of a thread's stack.
LEMMA PopPlace ==
    ASSUME TypesOK, IdleOK, PlaceOK, NEW t \in Threads, pc[t] # "idle", Pop(t),
           NEW to \in {"idle", "help"}, pc' = [pc EXCEPT ![t] = to], to = "idle" <=> Len(stack[t]) = 1,
           \/ suspended' = suspended \cup {Top(t)} /\ state' = state
           \/ suspended' = suspended /\ state' = [state EXCEPT ![Top(t)] = "settled"]
    PROVE  IdleOK' /\ PlaceOK' /\ stack' \in [Threads -> Seq(Messages)]
           /\ \A u \in Threads \ {t} : Top(u)' = Top(u)
<1>1. /\ Len(stack[t]) \in Nat /\ Len(stack[t]) >= 1 /\ OnStack(Top(t), t, Len(stack[t]))
      /\ Top(t) \in Messages /\ state[Top(t)] = "active" /\ Top(t) \notin suspended
    BY TopFacts
<1>2. IdleOK'
    BY <1>1, PopStack DEF IdleOK, TypesOK
<1>3. ASSUME NEW n \in Messages, NEW u \in Threads, NEW i \in Nat, OnStack(n, u, i)'
      PROVE  OnStack(n, u, i) /\ n # Top(t)
    <2>1. OnStack(n, u, i) /\ (u = t => i # Len(stack[t]))
        BY <1>1, <1>3, PopStack
    <2>2. n # Top(t)
        BY <1>1, <2>1 DEF PlaceOK
    <2> QED
        BY <2>1, <2>2
<1>4. PlaceOK'
    <2>1. \A n \in Messages, u, v \in Threads : \A i, j \in Nat :
            OnStack(n, u, i)' /\ OnStack(n, v, j)' => u = v /\ i = j
        BY <1>3 DEF PlaceOK
    <2>2. ASSUME NEW n \in Messages, NEW u \in Threads, NEW i \in Nat, OnStack(n, u, i)'
          PROVE  n \notin suspended' /\ state'[n] = "active"
        <3>1. OnStack(n, u, i) /\ n # Top(t)
            BY <1>3, <2>2
        <3>2. n \notin suspended /\ state[n] = "active"
            BY <3>1 DEF PlaceOK
        <3> QED
            BY <3>1, <3>2 DEF TypesOK
    <2>3. \A n \in suspended' : state'[n] = "active"
        BY <1>1 DEF PlaceOK, TypesOK
    <2> QED
        BY <2>1, <2>2, <2>3 DEF PlaceOK
<1>5. \A u \in Threads \ {t} : Top(u)' = Top(u)
    BY <1>1, PopStack DEF Top
<1> QED
    BY <1>1, <1>2, <1>4, <1>5, PopStack

\* A turn starts a message of an actor that is in the middle of none.
LEMMA StartStep ==
    ASSUME RecordInv, NEW t \in Threads, NEW m \in Messages, Start(t, m)
    PROVE  RecordInv'
<1> USE DEF RecordInv
<1>1. /\ state[m] = "queued" /\ state' = [state EXCEPT ![m] = "active"]
      /\ \A n \in Messages : state[n] = "active" => target[n] # target[m]
      /\ Push(t, m) /\ pc' = [pc EXCEPT ![t] = "run"]
      /\ UNCHANGED <<target, awaited, suspended, waitingOn>>
    BY DEF Start
<1>2. suspended' = suspended \ {m} /\ \A u \in Threads : \A i \in Nat : ~OnStack(m, u, i)
    BY <1>1 DEF PlaceOK
<1>3. /\ IdleOK' /\ PlaceOK' /\ stack' \in [Threads -> Seq(Messages)] /\ Top(t)' = m
      /\ \A u \in Threads \ {t} : Top(u)' = Top(u)
    BY <1>1, <1>2, PushPlace
<1>4. TypesOK'
    BY <1>1, <1>3 DEF TypesOK
<1>5. OneMessageOK'
    BY <1>1 DEF OneMessageOK, TypesOK
<1>6. AwaitedOK'
    <2>1. \A n \in Messages : state'[n] \in {"unsent", "queued"} => awaited[n] = NoMessage
        BY <1>1 DEF AwaitedOK, TypesOK
    <2>2. ASSUME NEW u \in Threads, pc'[u] = "run" PROVE awaited[Top(u)'] = NoMessage
        <3>1. CASE u = t
            BY <1>1, <1>3, <3>1 DEF AwaitedOK
        <3>2. CASE u # t
            BY <1>1, <1>3, <2>2, <3>2 DEF AwaitedOK, TypesOK
        <3> QED
            BY <3>1, <3>2
    <2> QED
        BY <1>1, <2>1, <2>2 DEF AwaitedOK
<1>7. RecordsAreCurrent'
    BY <1>1 DEF RecordsAreCurrent, TypesOK
<1> QED
    BY <1>3, <1>4, <1>5, <1>6, <1>7

\* A suspended message goes on: its record and its wait go together.
LEMMA ResumeStep ==
    ASSUME RecordInv, NEW t \in Threads, NEW m \in Messages, Resume(t, m)
    PROVE  RecordInv'
<1> USE DEF RecordInv
<1>1. /\ m \in suspended /\ suspended' = suspended \ {m}
      /\ awaited' = [awaited EXCEPT ![m] = NoMessage]
      /\ waitingOn' = [waitingOn EXCEPT ![target[m]] = NoMessage]
      /\ Push(t, m) /\ pc' = [pc EXCEPT ![t] = "run"]
      /\ UNCHANGED <<target, state>>
    BY DEF Resume
<1>2. /\ state[m] = "active" /\ state' = [state EXCEPT ![m] = "active"] /\ target[m] \in Actors
      /\ \A u \in Threads : \A i \in Nat : ~OnStack(m, u, i)
    BY <1>1 DEF PlaceOK, OneMessageOK, TypesOK
<1>3. /\ IdleOK' /\ PlaceOK' /\ stack' \in [Threads -> Seq(Messages)] /\ Top(t)' = m
      /\ \A u \in Threads \ {t} : Top(u)' = Top(u)
    BY <1>1, <1>2, PushPlace
<1>4. TypesOK'
    BY <1>1, <1>2, <1>3 DEF TypesOK
<1>5. OneMessageOK'
    BY <1>1 DEF OneMessageOK
<1>6. AwaitedOK'
    <2>1. \A n \in Messages : state[n] \in {"unsent", "queued"} => awaited'[n] = NoMessage
        BY <1>1 DEF AwaitedOK, TypesOK
    <2>2. ASSUME NEW u \in Threads, pc'[u] = "run" PROVE awaited'[Top(u)'] = NoMessage
        <3>1. CASE u = t
            BY <1>1, <1>3, <3>1 DEF TypesOK
        <3>2. CASE u # t
            <4>1. pc[u] = "run" /\ Top(u)' = Top(u)
                BY <1>1, <1>3, <2>2, <3>2 DEF TypesOK
            <4>2. Top(u) \in Messages /\ awaited[Top(u)] = NoMessage
                BY <4>1, TopFacts DEF AwaitedOK
            <4> QED
                BY <1>1, <4>1, <4>2 DEF TypesOK
        <3> QED
            BY <3>1, <3>2
    <2> QED
        BY <1>1, <2>1, <2>2 DEF AwaitedOK
<1>7. RecordsAreCurrent'
    <2> SUFFICES ASSUME NEW a \in Actors, waitingOn'[a] # NoMessage
                 PROVE  \E n \in Messages : /\ target[n] = a /\ state[n] = "active"
                                            /\ awaited'[n] = waitingOn'[a]
        BY <1>1 DEF RecordsAreCurrent
    <2>1. a # target[m] /\ waitingOn'[a] = waitingOn[a]
        BY <1>1, <1>2 DEF TypesOK
    <2>2. PICK n \in Messages : target[n] = a /\ state[n] = "active" /\ awaited[n] = waitingOn[a]
        BY <2>1 DEF RecordsAreCurrent
    <2> QED
        BY <1>1, <2>1, <2>2 DEF TypesOK
<1> QED
    BY <1>3, <1>4, <1>5, <1>6, <1>7

\* A message ends: its actor has no record, because its method does not wait.
LEMMA EndStep ==
    ASSUME RecordInv, NEW t \in Threads, End(t)
    PROVE  RecordInv'
<1> USE DEF RecordInv
<1> DEFINE to == IF Len(stack[t]) = 1 THEN "idle" ELSE "help"
<1>1. /\ pc[t] = "run" /\ pc' = [pc EXCEPT ![t] = to]
      /\ state' = [state EXCEPT ![Top(t)] = "settled"] /\ Pop(t)
      /\ UNCHANGED <<target, awaited, suspended, waitingOn>>
    BY DEF End, Goto
<1>2. Top(t) \in Messages /\ state[Top(t)] = "active" /\ awaited[Top(t)] = NoMessage
    BY <1>1, TopFacts DEF AwaitedOK
<1>3. to \in {"idle", "help"} /\ (to = "idle" <=> Len(stack[t]) = 1)
    OBVIOUS
<1> HIDE DEF to
<1>4. /\ IdleOK' /\ PlaceOK' /\ stack' \in [Threads -> Seq(Messages)]
      /\ \A u \in Threads \ {t} : Top(u)' = Top(u)
    BY <1>1, <1>3, PopPlace
<1>5. TypesOK'
    BY <1>1, <1>3, <1>4 DEF TypesOK
<1>6. OneMessageOK'
    BY <1>1, <1>2 DEF OneMessageOK, TypesOK
<1>7. AwaitedOK'
    <2>1. \A n \in Messages : state'[n] \in {"unsent", "queued"} => awaited[n] = NoMessage
        BY <1>1 DEF AwaitedOK, TypesOK
    <2>2. \A u \in Threads : pc'[u] = "run" => u # t /\ pc[u] = "run"
        BY <1>1, <1>3 DEF TypesOK
    <2> QED
        BY <1>1, <1>4, <2>1, <2>2 DEF AwaitedOK
<1>8. RecordsAreCurrent'
    <2> SUFFICES ASSUME NEW a \in Actors, waitingOn[a] # NoMessage
                 PROVE  \E n \in Messages : /\ target[n] = a /\ state'[n] = "active"
                                            /\ awaited[n] = waitingOn[a]
        BY <1>1 DEF RecordsAreCurrent
    <2>1. PICK n \in Messages : target[n] = a /\ state[n] = "active" /\ awaited[n] = waitingOn[a]
        BY DEF RecordsAreCurrent
    <2> QED
        BY <1>1, <1>2, <2>1 DEF TypesOK
<1> QED
    BY <1>4, <1>5, <1>6, <1>7, <1>8

\* A method yields: its actor keeps the record.
LEMMA YieldStep ==
    ASSUME RecordInv, NEW t \in Threads, Yield(t)
    PROVE  RecordInv'
<1> USE DEF RecordInv
<1>1. /\ pc[t] = "park" /\ pc' = [pc EXCEPT ![t] = "idle"] /\ Len(stack[t]) = 1
      /\ suspended' = suspended \cup {Top(t)} /\ Pop(t)
      /\ waitingOn' = [waitingOn EXCEPT ![Self(t)] = awaited[Top(t)]]
      /\ UNCHANGED <<target, state, awaited>>
    BY DEF Yield, Yields, Goto
<1>2. Top(t) \in Messages /\ state[Top(t)] = "active" /\ Self(t) \in Actors
    BY <1>1, TopFacts DEF OneMessageOK, Self
<1>3. /\ IdleOK' /\ PlaceOK' /\ stack' \in [Threads -> Seq(Messages)]
      /\ \A u \in Threads \ {t} : Top(u)' = Top(u)
    BY <1>1, PopPlace
<1>4. TypesOK'
    BY <1>1, <1>2, <1>3 DEF TypesOK
<1>5. OneMessageOK'
    BY <1>1 DEF OneMessageOK
<1>6. AwaitedOK'
    BY <1>1, <1>3 DEF AwaitedOK, TypesOK
<1>7. RecordsAreCurrent'
    BY <1>1, <1>2 DEF RecordsAreCurrent, TypesOK, Self
<1> QED
    BY <1>3, <1>4, <1>5, <1>6, <1>7

-----------------------------------------------------------------------------
\* The invariant holds in every state of the waits.
LEMMA RecordInvariance == Spec => []RecordInv
<1>1. Init => RecordInv
    BY DEF Init, RecordInv, TypesOK, IdleOK, PlaceOK, OnStack, OneMessageOK, AwaitedOK,
       RecordsAreCurrent
<1>2. RecordInv /\ [Next]_vars => RecordInv'
    <2> SUFFICES ASSUME RecordInv, [Next]_vars PROVE RecordInv'
        OBVIOUS
    <2>1. ASSUME NEW m \in Messages, NEW a \in Actors, Send(m, a) PROVE RecordInv'
        BY <2>1, SendStep
    <2>2. ASSUME NEW t \in Threads, NEW f \in Messages, BeginWait(t, f) PROVE RecordInv'
        BY <2>2, BeginWaitStep
    <2>3. ASSUME NEW t \in Threads, NEW m \in Messages, Start(t, m) \/ Resume(t, m) PROVE RecordInv'
        BY <2>3, StartStep, ResumeStep
    <2>4. ASSUME NEW t \in Threads, End(t) \/ Record(t) \/ Yield(t) PROVE RecordInv'
        BY <2>4, EndStep, RecordStep, YieldStep
    <2>5. ASSUME NEW t \in Threads, WalkCloses(t) \/ HelpEnds(t) PROVE RecordInv'
        BY <2>5, EndWaitStep DEF WalkCloses, HelpEnds, Goto
    <2>6. ASSUME NEW t \in Threads, WalkOn(t) \/ WalkNext(t) \/ WalkEnds(t) \/ Help(t) PROVE RecordInv'
        BY <2>6, WalkStep DEF WalkOn, WalkNext, WalkEnds, Help, Goto, msgVars, RunningPC
    <2>7. CASE UNCHANGED vars
        BY <2>7 DEF vars, msgVars, RecordInv, TypesOK, IdleOK, PlaceOK, OnStack, OneMessageOK,
           AwaitedOK, RecordsAreCurrent, Top
    <2> QED
        BY <2>1, <2>2, <2>3, <2>4, <2>5, <2>6, <2>7 DEF Next, Step
<1> QED
    BY <1>1, <1>2, PTL DEF Spec

\* A record of detectWaitCycle never outlives the wait it is of, whatever the thread runs
\* on top of the waiting method and however the wait ends: a cycle that another thread
\* finds through it is made of waits that go on.
THEOREM WaitRecordsAreCurrent == Spec => []RecordsAreCurrent
<1>1. RecordInv => RecordsAreCurrent
    BY DEF RecordInv
<1> QED
    BY <1>1, RecordInvariance, PTL

-----------------------------------------------------------------------------
(* Cycles of waits.  A knot is a set of actors each of which waits for, or *)
(* is buried under, another one of the set.  Whoever recorded the wait     *)
(* that closed a knot follows it, until the walk comes back to where it    *)
(* began.                                                                  *)

\* The hypothesis about programs: no method waits inside a block of a primitive, or one
\* thread runs all actors.  With two threads that help, a walk does not see what is
\* buried on the other.
OneHelper == \A s \in Setups : s.blocking = {} \/ \A t, u \in s.pool : t = u

\* The hypothesis about the limit: it is not reached.
WalksReach == IsFiniteSet(Actors) /\ Cardinality(Actors) <= WalkLimit

WalkTypesOK ==
    /\ at = [t \in Threads |-> at[t]]
    /\ steps \in [Threads -> Nat]

\* Only threads of the pool run anything, and no thread is in the middle of two messages
\* unless some methods wait inside blocks.
PoolOK ==
    /\ setup \in Setups
    /\ \A t \in Threads : pc[t] # "idle" => t \in setup.pool
    /\ setup.blocking = {} => \A t \in Threads : Len(stack[t]) <= 1 /\ pc[t] # "help"

\* The wait of the i-th message on the thread's stack is recorded.
Recorded(t, i) == i < Len(stack[t]) \/ pc[t] \in {"walk", "next", "park", "help"}

\* What a message waits for has been sent, and it is in the record of its actor from the
\* walk until the end of the wait.
WaitsOK ==
    /\ \A m \in Messages : awaited[m] # NoMessage => state[awaited[m]] # "unsent"
    /\ \A m \in suspended : waitingOn[target[m]] = awaited[m]
    /\ \A m \in Messages, t \in Threads : \A i \in Nat :
         OnStack(m, t, i) /\ Recorded(t, i) => waitingOn[target[m]] = awaited[m]

\* Actor a waits for a pending future of actor b.
Awaits(a, b) ==
    /\ waitingOn[a] # NoMessage /\ ~Settled(waitingOn[a])
    /\ target[waitingOn[a]] = b

\* Actor a is buried under a message of actor b.
BuriedUnder(a, b) ==
    \E t \in Threads : \E i, j \in 1 .. Len(stack[t]) :
        i < j /\ target[stack[t][i]] = a /\ target[stack[t][j]] = b

Edge(a, b) == Awaits(a, b) \/ BuriedUnder(a, b)

Knot(S) == S # {} /\ \A a \in S : \E b \in S : Edge(a, b)

LeastKnot(S) == Knot(S) /\ \A T \in SUBSET S : Knot(T) => T = S

\* V is what thread t has come through on its walk along S, which began at its own
\* actor and has not come back to it.
Path(t, V) ==
    /\ Self(t) \in V
    /\ V \cap Buried(t) = {}
    /\ Cardinality(V) > steps[t]
    /\ \E v \in V : waitingOn[v] = at[t]
    /\ \A v \in V : target[waitingOn[v]] \in (V \ {Self(t)}) \cup {target[at[t]]}

Follows(t, S) ==
    /\ pc[t] \in {"walk", "next"}
    /\ pc[t] = "next" => ~Closes(t, target[at[t]])
    /\ \E V \in SUBSET S : Path(t, V)

KnotsAreFollowed == \A S \in SUBSET Actors : LeastKnot(S) => \E t \in Threads : Follows(t, S)

WaitInv == RecordInv /\ WalkTypesOK /\ PoolOK /\ WaitsOK

-----------------------------------------------------------------------------
(* Knots.                                                                  *)

\* While a thread runs a message, no other thread has one buried.
LEMMA Alone ==
    ASSUME OneHelper, WaitInv, NEW t \in Threads, pc[t] # "idle", NEW u \in Threads, u # t
    PROVE  Len(stack[u]) <= 1
<1>1. CASE setup.blocking = {}
    BY <1>1 DEF WaitInv, PoolOK
<1>2. CASE pc[u] = "idle"
    <2>1. stack[u] = <<>>
        BY <1>2 DEF WaitInv, RecordInv, IdleOK
    <2> QED
        BY <2>1
<1>3. CASE setup.blocking # {} /\ pc[u] # "idle"
    BY <1>3 DEF OneHelper, WaitInv, PoolOK
<1> QED
    BY <1>1, <1>2, <1>3

\* The actor of a message on a thread's stack is in the middle of no other message.
LEMMA ActorFacts ==
    ASSUME RecordInv, NEW m \in Messages, state[m] = "active"
    PROVE  /\ target[m] \in Actors
           /\ \A n \in Messages : state[n] = "active" /\ target[n] = target[m] => n = m
BY DEF RecordInv, OneMessageOK

\* The messages on a stack, and their actors.
LEMMA StackFacts ==
    ASSUME RecordInv, NEW t \in Threads, NEW i \in 1 .. Len(stack[t])
    PROVE  /\ i \in Nat /\ Len(stack[t]) \in Nat
           /\ stack[t][i] \in Messages /\ OnStack(stack[t][i], t, i)
           /\ state[stack[t][i]] = "active" /\ stack[t][i] \notin suspended
           /\ target[stack[t][i]] \in Actors
           /\ pc[t] # "idle"
<1>1. stack[t] \in Seq(Messages) /\ Len(stack[t]) \in Nat
    BY DEF RecordInv, TypesOK
<1>2. i \in Nat /\ stack[t][i] \in Messages /\ OnStack(stack[t][i], t, i)
    BY <1>1 DEF OnStack
<1>3. state[stack[t][i]] = "active" /\ stack[t][i] \notin suspended
    BY <1>2 DEF RecordInv, PlaceOK
<1>4. pc[t] # "idle"
    <2>1. stack[t] # <<>>
        BY <1>1, <1>2
    <2> QED
        BY <2>1 DEF RecordInv, IdleOK
<1> QED
    BY <1>1, <1>2, <1>3, <1>4, ActorFacts

\* The actor a thread runs is not buried.
LEMMA SelfFacts ==
    ASSUME RecordInv, NEW t \in Threads, pc[t] # "idle"
    PROVE  /\ Self(t) \in Actors /\ Top(t) \in Messages /\ state[Top(t)] = "active"
           /\ \A b : ~BuriedUnder(Self(t), b)
           /\ Self(t) \notin Buried(t)
<1>1. /\ Len(stack[t]) \in Nat /\ Len(stack[t]) >= 1 /\ OnStack(Top(t), t, Len(stack[t]))
      /\ Top(t) \in Messages /\ state[Top(t)] = "active"
    BY TopFacts DEF RecordInv
<1>2. Self(t) \in Actors
    BY <1>1, ActorFacts DEF Self
<1>3. ASSUME NEW u \in Threads, NEW i \in 1 .. Len(stack[u]), target[stack[u][i]] = Self(t)
      PROVE  u = t /\ i = Len(stack[t])
    <2>1. /\ stack[u][i] \in Messages /\ OnStack(stack[u][i], u, i) /\ i \in Nat
          /\ state[stack[u][i]] = "active"
        BY StackFacts
    <2>2. stack[u][i] = Top(t)
        BY <1>1, <1>3, <2>1, ActorFacts DEF Self
    <2> QED
        BY <1>1, <2>1, <2>2 DEF RecordInv, PlaceOK
<1>4. \A b : ~BuriedUnder(Self(t), b)
    <2> SUFFICES ASSUME NEW b, BuriedUnder(Self(t), b) PROVE FALSE
        OBVIOUS
    <2>1. PICK u \in Threads : \E i, j \in 1 .. Len(stack[u]) : i < j /\ target[stack[u][i]] = Self(t)
        BY DEF BuriedUnder
    <2>2. PICK i \in 1 .. Len(stack[u]), j \in 1 .. Len(stack[u]) : i < j /\ target[stack[u][i]] = Self(t)
        BY <2>1
    <2> QED
        BY <1>1, <1>3, <2>2
<1>5. Self(t) \notin Buried(t)
    <2> SUFFICES ASSUME NEW i \in 1 .. (Len(stack[t]) - 1), target[stack[t][i]] = Self(t)
                 PROVE  FALSE
        BY DEF Buried
    <2>1. i \in 1 .. Len(stack[t])
        BY <1>1
    <2> QED
        BY <1>1, <1>3, <2>1
<1> QED
    BY <1>1, <1>2, <1>4, <1>5

\* While a thread runs a message, what is not buried under it is not buried.
LEMMA NotBuried ==
    ASSUME OneHelper, WaitInv, NEW t \in Threads, pc[t] # "idle", NEW a, a \notin Buried(t), NEW b
    PROVE  ~BuriedUnder(a, b)
<1> SUFFICES ASSUME BuriedUnder(a, b) PROVE FALSE
    OBVIOUS
<1>1. PICK u \in Threads : \E i, j \in 1 .. Len(stack[u]) : i < j /\ target[stack[u][i]] = a
    BY DEF BuriedUnder
<1>2. PICK i \in 1 .. Len(stack[u]), j \in 1 .. Len(stack[u]) : i < j /\ target[stack[u][i]] = a
    BY <1>1
<1>3. Len(stack[u]) \in Nat
    BY DEF WaitInv, RecordInv, TypesOK
<1>4. u = t
    BY <1>2, <1>3, Alone
<1>5. i \in 1 .. (Len(stack[t]) - 1)
    BY <1>2, <1>3, <1>4
<1> QED
    BY <1>2, <1>4, <1>5 DEF Buried

\* What an actor waits for has been sent.
LEMMA RecordedIsSent ==
    ASSUME WaitInv, NEW a \in Actors, waitingOn[a] # NoMessage
    PROVE  /\ waitingOn[a] \in Messages /\ state[waitingOn[a]] # "unsent"
           /\ target[waitingOn[a]] \in Actors
<1>1. PICK m \in Messages : awaited[m] = waitingOn[a]
    BY DEF WaitInv, RecordInv, RecordsAreCurrent
<1>2. waitingOn[a] \in Messages
    BY DEF WaitInv, RecordInv, TypesOK
<1>3. state[waitingOn[a]] # "unsent"
    BY <1>1 DEF WaitInv, WaitsOK
<1> QED
    BY <1>2, <1>3 DEF WaitInv, RecordInv, OneMessageOK

\* What a walk has come through are actors that wait, for an actor of the knot.
LEMMA PathFacts ==
    ASSUME OneHelper, WaitInv, NEW t \in Threads, pc[t] # "idle",
           NEW S \in SUBSET Actors, Knot(S), NEW V \in SUBSET S, Path(t, V)
    PROVE  /\ \A v \in V : /\ waitingOn[v] \in Messages /\ ~Settled(waitingOn[v])
                           /\ state[waitingOn[v]] # "unsent"
                           /\ target[waitingOn[v]] \in S
                           /\ \A b : Edge(v, b) => target[waitingOn[v]] = b
           /\ at[t] \in Messages /\ ~Settled(at[t]) /\ state[at[t]] # "unsent"
           /\ target[at[t]] \in S
<1>1. ASSUME NEW v \in V
      PROVE  /\ waitingOn[v] \in Messages /\ ~Settled(waitingOn[v])
             /\ state[waitingOn[v]] # "unsent"
             /\ target[waitingOn[v]] \in S
             /\ \A b : Edge(v, b) => target[waitingOn[v]] = b
    <2>1. v \in Actors /\ v \notin Buried(t)
        BY DEF Path
    <2>2. \A b : ~BuriedUnder(v, b)
        BY <2>1, NotBuried
    <2>3. PICK b \in S : Edge(v, b)
        BY DEF Knot
    <2>4. Awaits(v, b)
        BY <2>2, <2>3 DEF Edge
    <2>5. waitingOn[v] # NoMessage
        BY <2>4 DEF Awaits
    <2> QED
        BY <2>1, <2>2, <2>4, <2>5, RecordedIsSent DEF Edge, Awaits
<1> QED
    BY <1>1 DEF Path

\* A knot without z was one before a step that changes only edges of z.
LEMMA KnotBefore ==
    ASSUME NEW z, \A a, b \in Actors \ {z} : Edge(a, b)' <=> Edge(a, b),
           NEW S \in SUBSET Actors, z \notin S, LeastKnot(S)'
    PROVE  LeastKnot(S)
<1>1. ASSUME NEW T \in SUBSET S PROVE Knot(T)' <=> Knot(T)
    <2>1. \A a, b \in T : Edge(a, b)' <=> Edge(a, b)
        OBVIOUS
    <2> QED
        BY <2>1 DEF Knot
<1> QED
    BY <1>1 DEF LeastKnot

\* A thread goes on following a knot when a step leaves it, and the knot, alone.
LEMMA FollowsKept ==
    ASSUME OneHelper, WaitInv, NEW S \in SUBSET Actors, Knot(S),
           NEW u \in Threads, Follows(u, S),
           pc'[u] = pc[u], at'[u] = at[u], steps'[u] = steps[u], stack'[u] = stack[u],
           \A a \in S : waitingOn'[a] = waitingOn[a],
           \A n \in Messages : state[n] # "unsent" => target'[n] = target[n]
    PROVE  Follows(u, S)'
<1>1. PICK V \in SUBSET S : Path(u, V)
    BY DEF Follows
<1>2. pc[u] # "idle"
    BY DEF Follows
<1>3. /\ \A v \in V : waitingOn[v] \in Messages /\ state[waitingOn[v]] # "unsent"
      /\ at[u] \in Messages /\ state[at[u]] # "unsent"
    BY <1>1, <1>2, PathFacts
<1>4. /\ \A v \in V : waitingOn'[v] = waitingOn[v] /\ target'[waitingOn[v]] = target[waitingOn[v]]
      /\ target'[at[u]] = target[at[u]]
    BY <1>3
<1>5. \A i \in 1 .. Len(stack[u]) : target'[stack[u][i]] = target[stack[u][i]]
    BY StackFacts DEF WaitInv
<1>6. Self(u)' = Self(u) /\ Buried(u)' = Buried(u)
    <2>1. Len(stack[u]) \in Nat /\ Len(stack[u]) >= 1
        BY <1>2, TopFacts DEF WaitInv, RecordInv
    <2>2. Self(u)' = Self(u)
        BY <1>5, <2>1 DEF Self, Top
    <2>3. \A i \in 1 .. (Len(stack[u]) - 1) : target'[stack[u][i]] = target[stack[u][i]]
        BY <1>5, <2>1
    <2>4. Buried(u)' = Buried(u)
        BY <2>3 DEF Buried
    <2> QED
        BY <2>2, <2>4
<1>7. Path(u, V)'
    BY <1>1, <1>4, <1>6 DEF Path
<1>8. pc'[u] = "next" => ~Closes(u, target[at[u]])'
    BY <1>4, <1>6 DEF Follows, Closes
<1> QED
    BY <1>4, <1>7, <1>8 DEF Follows, Closes

\* A step of thread t that changes only edges of z leaves a knot without z followed.
LEMMA OthersFollow ==
    ASSUME OneHelper, WaitInv, KnotsAreFollowed, NEW t \in Threads, NEW z,
           pc[t] \in {"walk", "next"} => z = Self(t),
           \A u \in Threads \ {t} : /\ pc'[u] = pc[u] /\ at'[u] = at[u] /\ steps'[u] = steps[u]
                                    /\ stack'[u] = stack[u],
           \A a \in Actors \ {z} : waitingOn'[a] = waitingOn[a],
           \A n \in Messages : state[n] # "unsent" => target'[n] = target[n],
           \A a, b \in Actors \ {z} : Edge(a, b)' <=> Edge(a, b),
           NEW S \in SUBSET Actors, z \notin S, LeastKnot(S)'
    PROVE  \E u \in Threads : Follows(u, S)'
<1>1. LeastKnot(S)
    BY KnotBefore
<1>2. PICK u \in Threads : Follows(u, S)
    BY <1>1 DEF KnotsAreFollowed
<1>3. u # t
    BY <1>2 DEF Follows, Path
<1>4. \A a \in S : waitingOn'[a] = waitingOn[a]
    OBVIOUS
<1>5. Follows(u, S)'
    BY <1>1, <1>2, <1>3, <1>4, FollowsKept DEF LeastKnot
<1> QED
    BY <1>5

\* The same for every knot, when z has no edges after the step.
LEMMA KnotsKept ==
    ASSUME OneHelper, WaitInv, KnotsAreFollowed, NEW t \in Threads, NEW z,
           pc[t] \in {"walk", "next"} => z = Self(t),
           \A u \in Threads \ {t} : /\ pc'[u] = pc[u] /\ at'[u] = at[u] /\ steps'[u] = steps[u]
                                    /\ stack'[u] = stack[u],
           \A a \in Actors \ {z} : waitingOn'[a] = waitingOn[a],
           \A n \in Messages : state[n] # "unsent" => target'[n] = target[n],
           \A a, b \in Actors \ {z} : Edge(a, b)' <=> Edge(a, b),
           \A b \in Actors : z \in Actors => ~Edge(z, b)'
    PROVE  KnotsAreFollowed'
<1> SUFFICES ASSUME NEW S \in SUBSET Actors, LeastKnot(S)'
             PROVE  \E u \in Threads : Follows(u, S)'
    BY DEF KnotsAreFollowed
<1>1. z \notin S
    BY DEF LeastKnot, Knot
<1> QED
    BY <1>1, OthersFollow

-----------------------------------------------------------------------------
(* The walk along a knot.                                                  *)

\* A walk along a knot that has not come back to its start finds a new actor.
LEMMA PathGrows ==
    ASSUME OneHelper, WaitInv, NEW t \in Threads, pc[t] # "idle",
           NEW S \in SUBSET Actors, LeastKnot(S), NEW V \in SUBSET S, Path(t, V),
           target[at[t]] # Self(t)
    PROVE  target[at[t]] \notin V
<1> DEFINE x == target[at[t]]
<1> SUFFICES ASSUME x \in V PROVE FALSE
    OBVIOUS
<1>1. /\ \A v \in V : /\ waitingOn[v] \in Messages /\ ~Settled(waitingOn[v])
                      /\ \A b : Edge(v, b) => target[waitingOn[v]] = b
      /\ Self(t) \in V
    BY PathFacts DEF LeastKnot, Path
<1>2. \A v \in V : waitingOn[v] # NoMessage
    BY <1>1, NoMessageAssumption
<1>3. \A v \in V : target[waitingOn[v]] \in V \ {Self(t)} /\ Edge(v, target[waitingOn[v]])
    BY <1>1, <1>2 DEF Path, Edge, Awaits
<1>4. Knot(V \ {Self(t)})
    BY <1>3 DEF Knot
<1> QED
    BY <1>1, <1>4 DEF LeastKnot

\* A thread that follows a knot has not reached the limit of its walk.
LEMMA FollowingKnot ==
    ASSUME OneHelper, WalksReach, WaitInv, NEW t \in Threads, NEW S \in SUBSET Actors, Knot(S),
           Follows(t, S)
    PROVE  Following(t)
<1>1. PICK V \in SUBSET S : Path(t, V)
    BY DEF Follows
<1>2. pc[t] # "idle"
    BY DEF Follows
<1>3. at[t] \in Messages /\ ~Settled(at[t])
    BY <1>1, <1>2, PathFacts
<1>4. IsFiniteSet(V) /\ Cardinality(V) \in Nat /\ Cardinality(V) <= Cardinality(Actors)
      /\ Cardinality(Actors) \in Nat
    BY FS_Subset, FS_CardinalityType DEF WalksReach
<1>5. steps[t] \in Nat /\ Cardinality(V) > steps[t]
    BY <1>1 DEF Path, WaitInv, WalkTypesOK
<1>6. steps[t] < WalkLimit
    BY <1>4, <1>5, LimitsAssumption DEF WalksReach
<1> QED
    BY <1>3, <1>6, NoMessageAssumption DEF Following

\* The next actor of the knot.
LEMMA FollowNext ==
    ASSUME OneHelper, WalksReach, WaitInv, NEW t \in Threads, NEW S \in SUBSET Actors, LeastKnot(S),
           Follows(t, S), WalkNext(t)
    PROVE  Follows(t, S)'
<1> DEFINE x == target[at[t]]
<1>1. PICK V \in SUBSET S : Path(t, V)
    BY DEF Follows
<1>2. /\ pc[t] = "next" /\ pc'[t] = "walk"
      /\ at'[t] = waitingOn[x] /\ steps'[t] = steps[t] + 1
      /\ UNCHANGED <<target, waitingOn, stack>>
    BY DEF WalkNext, Goto, msgVars, WaitInv, RecordInv, TypesOK, WalkTypesOK
<1>3. x # Self(t) /\ x \notin Buried(t)
    BY <1>2 DEF Follows, Closes
<1>4. x \notin V
    BY <1>1, <1>2, <1>3, PathGrows
<1>5. x \in S
    BY <1>1, <1>2, PathFacts DEF LeastKnot
<1>6. Cardinality(V \cup {x}) > steps[t] + 1
    <2>1. IsFiniteSet(V) /\ Cardinality(V) \in Nat
        BY FS_Subset, FS_CardinalityType DEF WalksReach
    <2>2. Cardinality(V \cup {x}) = Cardinality(V) + 1
        BY <1>4, <2>1, FS_AddElement
    <2> QED
        BY <1>1, <2>1, <2>2 DEF Path, WaitInv, WalkTypesOK
<1>7. Self(t)' = Self(t) /\ Buried(t)' = Buried(t)
    BY <1>2 DEF Self, Top, Buried
<1>8. PICK W \in SUBSET S : W = V \cup {x}
    BY <1>5
<1>9. Path(t, W)'
    <2>1. Self(t) \in W /\ W \cap Buried(t) = {}
        BY <1>1, <1>3, <1>8 DEF Path
    <2>2. \A v \in W : target[waitingOn[v]] \in (W \ {Self(t)}) \cup {target[waitingOn[x]]}
        BY <1>1, <1>3, <1>8 DEF Path
    <2>3. x \in W /\ Cardinality(W) > steps[t] + 1
        BY <1>6, <1>8
    <2> HIDE DEF x
    <2> QED
        BY <1>2, <1>7, <2>1, <2>2, <2>3 DEF Path
<1> QED
    BY <1>2, <1>9 DEF Follows

-----------------------------------------------------------------------------
(* Steps: threads and records.                                             *)

\* Threads outside the pool stay idle, and nothing is buried unless methods help.
LEMMA PoolStep ==
    ASSUME WaitInv, [Next]_vars
    PROVE  PoolOK' /\ WalkTypesOK'
<1> USE DEF WaitInv, RecordInv, PoolOK, WalkTypesOK
<1>0. \A t \in Threads : stack[t] \in Seq(Messages) /\ Len(stack[t]) \in Nat
    BY DEF TypesOK
<1>one. \A n \in Nat : n >= 1 /\ n <= 1 => n = 1
    OBVIOUS
<1>1. ASSUME NEW m \in Messages, NEW a \in Actors, Send(m, a), UNCHANGED setup
      PROVE  PoolOK' /\ WalkTypesOK'
    BY <1>1 DEF Send
<1>2. ASSUME NEW t \in Threads, NEW f \in Messages, BeginWait(t, f), UNCHANGED setup
      PROVE  PoolOK' /\ WalkTypesOK'
    BY <1>2 DEF BeginWait, Goto, TypesOK
<1>3. ASSUME NEW t \in Threads, NEW m \in Messages, Start(t, m) \/ Resume(t, m), UNCHANGED setup
      PROVE  PoolOK' /\ WalkTypesOK'
    <2>1. /\ CanDrain(t) /\ Push(t, m) /\ pc' = [pc EXCEPT ![t] = "run"]
          /\ UNCHANGED <<at, steps>>
        BY <1>3 DEF Start, Resume
    <2>2. t \in setup.pool
        BY <2>1 DEF CanDrain
    <2>3. setup.blocking = {} => stack[t] = <<>>
        BY <2>1 DEF CanDrain, IdleOK
    <2>4. /\ \A u \in Threads \ {t} : stack'[u] = stack[u]
          /\ stack'[t] = Append(stack[t], m)
        BY <2>1 DEF Push, TypesOK
    <2>5. setup.blocking = {} => Len(stack'[t]) = 1
        BY <2>3, <2>4
    <2> QED
        BY <1>3, <2>1, <2>2, <2>4, <2>5 DEF TypesOK
<1>4. ASSUME NEW t \in Threads, End(t), UNCHANGED setup
      PROVE  PoolOK' /\ WalkTypesOK'
    <2> DEFINE to == IF Len(stack[t]) = 1 THEN "idle" ELSE "help"
    <2>1. /\ pc[t] = "run" /\ pc' = [pc EXCEPT ![t] = to] /\ Pop(t) /\ UNCHANGED <<at, steps>>
        BY <1>4 DEF End, Goto
    <2>2. Len(stack[t]) >= 1
        BY <2>1, TopFacts
    <2>3. setup.blocking = {} => to = "idle"
        <3>1. Len(stack[t]) \in Nat /\ (setup.blocking = {} => Len(stack[t]) <= 1)
            BY <1>0
        <3>2. setup.blocking = {} => Len(stack[t]) = 1
            BY <1>one, <2>2, <3>1
        <3> QED
            BY <3>2
    <2>4. /\ \A u \in Threads \ {t} : stack'[u] = stack[u]
          /\ stack'[t] = SubSeq(stack[t], 1, Len(stack[t]) - 1)
        BY <2>1 DEF Pop, TypesOK
    <2>5. Len(stack'[t]) = Len(stack[t]) - 1
        BY <1>0, <2>2, <2>4
    <2> HIDE DEF to
    <2> QED
        BY <1>0, <1>4, <2>1, <2>3, <2>4, <2>5 DEF TypesOK
<1>5. ASSUME NEW t \in Threads, Yield(t), UNCHANGED setup
      PROVE  PoolOK' /\ WalkTypesOK'
    <2>1. /\ pc' = [pc EXCEPT ![t] = "idle"] /\ Pop(t) /\ UNCHANGED <<at, steps>>
          /\ Len(stack[t]) = 1
        BY <1>5 DEF Yield, Yields, Goto
    <2>2. /\ \A u \in Threads \ {t} : stack'[u] = stack[u]
          /\ Len(stack'[t]) = 0
        BY <1>0, <2>1 DEF Pop, TypesOK
    <2> QED
        BY <1>5, <2>1, <2>2 DEF TypesOK
<1>6. ASSUME NEW t \in Threads, Record(t) \/ WalkCloses(t) \/ WalkOn(t) \/ WalkNext(t) \/ WalkEnds(t),
             UNCHANGED setup
      PROVE  PoolOK' /\ WalkTypesOK'
    <2>1. PICK to \in {"walk", "run", "next", "park"} : pc' = [pc EXCEPT ![t] = to]
        BY <1>6 DEF Record, WalkCloses, WalkOn, WalkNext, WalkEnds, Goto
    <2>2. pc[t] # "idle" /\ stack' = stack
        BY <1>6 DEF Record, WalkCloses, WalkOn, WalkNext, WalkEnds, Goto
    <2>3. PoolOK'
        BY <1>6, <2>1, <2>2 DEF TypesOK
    <2>4. WalkTypesOK'
        BY <1>6 DEF Record, WalkCloses, WalkOn, WalkNext, WalkEnds
    <2> QED
        BY <2>3, <2>4
<1>7. ASSUME NEW t \in Threads, Help(t) \/ HelpEnds(t), UNCHANGED setup
      PROVE  PoolOK' /\ WalkTypesOK'
    <2>1. CASE Help(t)
        <3>1. setup.blocking # {}
            <4>1. pc[t] = "park" /\ ~Yields(t)
                BY <2>1 DEF Help, Goto
            <4>2. Len(stack[t]) >= 1
                BY <4>1, TopFacts
            <4>3. Len(stack[t]) \in Nat /\ (setup.blocking = {} => Len(stack[t]) <= 1)
                BY <1>0
            <4>4. setup.blocking = {} => Len(stack[t]) = 1
                BY <1>one, <4>2, <4>3
            <4>5. setup.blocking = {} => Yields(t)
                BY <4>4 DEF Yields
            <4> QED
                BY <4>1, <4>5
        <3> QED
            BY <1>7, <2>1, <3>1 DEF Help, Goto, TypesOK
    <2>2. CASE HelpEnds(t)
        BY <1>7, <2>2 DEF HelpEnds, Goto, TypesOK
    <2> QED
        BY <1>7, <2>1, <2>2
<1>8. CASE UNCHANGED vars
    BY <1>8 DEF vars
<1> QED
    BY <1>1, <1>2, <1>3, <1>4, <1>5, <1>6, <1>7, <1>8 DEF Next, Step

\* The records of the other messages are not touched by a step of message x.
LEMMA WaitsKept ==
    ASSUME WaitInv, NEW x \in Messages, target' = target,
           \A m \in Messages : awaited'[m] # NoMessage => state'[awaited'[m]] # "unsent",
           \A m \in Messages \ {x} : /\ awaited'[m] = awaited[m]
                                     /\ state[m] = "active" => waitingOn'[target[m]] = waitingOn[target[m]]
                                     /\ m \in suspended' => m \in suspended,
           \A m \in Messages \ {x}, u \in Threads : \A i \in Nat :
             OnStack(m, u, i)' /\ Recorded(u, i)' => OnStack(m, u, i) /\ Recorded(u, i),
           suspended' \subseteq Messages,
           x \in suspended' => waitingOn'[target[x]] = awaited'[x],
           \A u \in Threads : \A i \in Nat :
             OnStack(x, u, i)' /\ Recorded(u, i)' => waitingOn'[target[x]] = awaited'[x]
    PROVE  WaitsOK'
<1>1. \A m \in suspended' : waitingOn'[target[m]] = awaited'[m]
    <2> SUFFICES ASSUME NEW m \in suspended', m # x PROVE waitingOn'[target[m]] = awaited'[m]
        OBVIOUS
    <2>1. m \in Messages /\ m \in suspended
        OBVIOUS
    <2>2. state[m] = "active" /\ waitingOn[target[m]] = awaited[m]
        BY <2>1 DEF WaitInv, WaitsOK, RecordInv, PlaceOK
    <2> QED
        BY <2>1, <2>2
<1>2. \A m \in Messages, u \in Threads : \A i \in Nat :
        OnStack(m, u, i)' /\ Recorded(u, i)' => waitingOn'[target[m]] = awaited'[m]
    <2> SUFFICES ASSUME NEW m \in Messages, NEW u \in Threads, NEW i \in Nat, m # x,
                        OnStack(m, u, i)', Recorded(u, i)'
                 PROVE  waitingOn'[target[m]] = awaited'[m]
        OBVIOUS
    <2>1. OnStack(m, u, i) /\ Recorded(u, i)
        OBVIOUS
    <2>2. state[m] = "active" /\ waitingOn[target[m]] = awaited[m]
        BY <2>1 DEF WaitInv, WaitsOK, RecordInv, PlaceOK
    <2> QED
        BY <2>2
<1> QED
    BY <1>1, <1>2 DEF WaitsOK

\* A step of thread t writes the record of its own actor only.
LEMMA OtherRecords ==
    ASSUME WaitInv, NEW x \in Messages, state[x] = "active", NEW v,
           waitingOn' = [waitingOn EXCEPT ![target[x]] = v], NEW m \in Messages \ {x},
           state[m] = "active"
    PROVE  waitingOn'[target[m]] = waitingOn[target[m]]
BY ActorFacts DEF WaitInv, RecordInv, TypesOK

\* A step that leaves the stacks alone.
LEMMA WaitsInPlace ==
    ASSUME WaitInv, NEW t \in Threads, pc[t] # "idle", NEW to, pc' = [pc EXCEPT ![t] = to],
           UNCHANGED <<target, state, suspended, stack>>,
           NEW f \in Messages \cup {NoMessage}, awaited' = [awaited EXCEPT ![Top(t)] = f],
           f # NoMessage => state[f] # "unsent",
           NEW v, waitingOn' = [waitingOn EXCEPT ![Self(t)] = v],
           to \in {"walk", "next", "park", "help"} => v = f
    PROVE  WaitsOK'
<1>1. /\ Len(stack[t]) \in Nat /\ OnStack(Top(t), t, Len(stack[t])) /\ Top(t) \in Messages
      /\ state[Top(t)] = "active" /\ Top(t) \notin suspended /\ Self(t) \in Actors
    BY TopFacts, SelfFacts DEF WaitInv, RecordInv
<1>2. awaited'[Top(t)] = f /\ waitingOn'[Self(t)] = v
    BY <1>1 DEF WaitInv, RecordInv, TypesOK
<1>3. \A m \in Messages \ {Top(t)} : awaited'[m] = awaited[m]
    BY DEF WaitInv, RecordInv, TypesOK
<1>4. \A m \in Messages : awaited'[m] # NoMessage => state'[awaited'[m]] # "unsent"
    BY <1>2, <1>3 DEF WaitInv, WaitsOK
<1>5. \A m \in Messages \ {Top(t)} : state[m] = "active" =>
        waitingOn'[target[m]] = waitingOn[target[m]]
    BY <1>1, OtherRecords DEF Self
<1>6. ASSUME NEW m \in Messages \ {Top(t)}, NEW u \in Threads, NEW i \in Nat,
             OnStack(m, u, i)', Recorded(u, i)'
      PROVE  OnStack(m, u, i) /\ Recorded(u, i)
    <2>1. OnStack(m, u, i)
        BY <1>6 DEF OnStack
    <2>2. CASE u = t
        <3>1. i # Len(stack[t]) /\ i \in 1 .. Len(stack[t])
            BY <2>1, <2>2, <1>1 DEF OnStack
        <3> QED
            BY <1>1, <2>1, <2>2, <3>1 DEF Recorded
    <2>3. CASE u # t
        BY <1>6, <2>1, <2>3 DEF Recorded, WaitInv, RecordInv, TypesOK
    <2> QED
        BY <2>2, <2>3
<1>7. PICK x \in Messages : x = Top(t)
    BY <1>1
<1>8. ASSUME NEW u \in Threads, NEW i \in Nat, OnStack(x, u, i)', Recorded(u, i)'
      PROVE  waitingOn'[target[x]] = awaited'[x]
    <2>1. OnStack(x, u, i)
        BY <1>8 DEF OnStack
    <2>2. u = t /\ i = Len(stack[t])
        BY <1>1, <1>7, <2>1 DEF WaitInv, RecordInv, PlaceOK
    <2>3. to \in {"walk", "next", "park", "help"}
        BY <1>1, <1>8, <2>2 DEF Recorded, WaitInv, RecordInv, TypesOK
    <2> QED
        BY <1>2, <1>7, <2>3 DEF Self
<1>9. suspended' \subseteq Messages
    BY DEF WaitInv, RecordInv, TypesOK
<1> QED
    BY <1>1, <1>3, <1>4, <1>5, <1>6, <1>8, <1>9, <1>7, WaitsKept

\* A message comes onto a thread's stack: the one below keeps its record.
LEMMA WaitsPush ==
    ASSUME WaitInv, NEW t \in Threads, NEW m \in Messages, Start(t, m) \/ Resume(t, m)
    PROVE  WaitsOK'
<1> USE DEF WaitInv, RecordInv
<1>1. /\ CanDrain(t) /\ Push(t, m) /\ pc' = [pc EXCEPT ![t] = "run"] /\ target' = target
      /\ \/ /\ state[m] = "queued" /\ state' = [state EXCEPT ![m] = "active"]
            /\ UNCHANGED <<suspended, awaited, waitingOn>>
         \/ /\ m \in suspended /\ suspended' = suspended \ {m} /\ state' = state
            /\ awaited' = [awaited EXCEPT ![m] = NoMessage]
            /\ waitingOn' = [waitingOn EXCEPT ![target[m]] = NoMessage]
    BY DEF Start, Resume
<1>2. pc[t] \in {"idle", "help"}
    BY <1>1 DEF CanDrain
<1>3. \A n \in Messages : awaited'[n] # NoMessage =>
        awaited'[n] = awaited[n] /\ state'[awaited'[n]] # "unsent"
    <2> TAKE n \in Messages
    <2> HAVE awaited'[n] # NoMessage
    <2>1. awaited'[n] = awaited[n]
        BY <1>1 DEF TypesOK
    <2>2. awaited[n] \in Messages /\ state[awaited[n]] # "unsent"
        BY <2>1 DEF TypesOK, WaitsOK
    <2>3. \A k \in Messages : state[k] # "unsent" => state'[k] # "unsent"
        BY <1>1 DEF TypesOK
    <2> QED
        BY <2>1, <2>2, <2>3
<1>4. \A n \in Messages \ {m} : /\ awaited'[n] = awaited[n]
                                /\ n \in suspended' => n \in suspended
    BY <1>1 DEF TypesOK
<1>5. \A n \in Messages \ {m} : state[n] = "active" =>
        waitingOn'[target[n]] = waitingOn[target[n]]
    <2>1. CASE waitingOn' = waitingOn
        BY <2>1
    <2>2. CASE m \in suspended /\ waitingOn' = [waitingOn EXCEPT ![target[m]] = NoMessage]
        <3>1. state[m] = "active"
            BY <2>2 DEF PlaceOK
        <3> QED
            BY <2>2, <3>1, OtherRecords
    <2> QED
        BY <1>1, <2>1, <2>2
<1>6. Len(stack[t]) \in Nat /\ stack'[t] = Append(stack[t], m)
      /\ \A u \in Threads \ {t} : stack'[u] = stack[u]
    BY <1>1 DEF TypesOK, Push
<1>7. Len(stack'[t]) = Len(stack[t]) + 1
    BY <1>6 DEF TypesOK
<1>8. \A n \in Messages, u \in Threads : \A i \in Nat :
        OnStack(n, u, i)' => OnStack(n, u, i) \/ (n = m /\ u = t /\ i = Len(stack[t]) + 1)
    BY <1>1, PushStack
<1>9. m \notin suspended' /\ \A u \in Threads : \A i \in Nat : ~OnStack(m, u, i)
    <2>1. state[m] = "queued" \/ m \in suspended
        BY <1>1
    <2>2. m \notin suspended'
        BY <1>1, <2>1 DEF PlaceOK, TypesOK
    <2>3. \A u \in Threads : \A i \in Nat : ~OnStack(m, u, i)
        BY <2>1 DEF PlaceOK
    <2> QED
        BY <2>2, <2>3
<1>10. ASSUME NEW n \in Messages \ {m}, NEW u \in Threads, NEW i \in Nat,
              OnStack(n, u, i)', Recorded(u, i)'
       PROVE  OnStack(n, u, i) /\ Recorded(u, i)
    <2>1. OnStack(n, u, i)
        BY <1>8, <1>10
    <2>2. CASE u = t
        <3>1. stack[t] # <<>>
            BY <2>1, <2>2 DEF OnStack
        <3>2. pc[t] = "help"
            BY <1>2, <3>1 DEF IdleOK
        <3> QED
            BY <2>1, <2>2, <3>2 DEF Recorded
    <2>3. CASE u # t
        BY <1>1, <1>6, <1>10, <2>1, <2>3 DEF Recorded, TypesOK
    <2> QED
        BY <2>2, <2>3
<1>11. ASSUME NEW u \in Threads, NEW i \in Nat, OnStack(m, u, i)', Recorded(u, i)'
       PROVE  FALSE
    <2>1. u = t /\ i = Len(stack[t]) + 1
        BY <1>8, <1>9, <1>11
    <2> QED
        BY <1>1, <1>7, <1>11, <2>1 DEF Recorded, TypesOK
<1>12. suspended' \subseteq Messages
    BY <1>1 DEF TypesOK
<1> QED
    BY <1>1, <1>3, <1>4, <1>5, <1>9, <1>10, <1>11, <1>12, WaitsKept

\* A message leaves the top of a thread's stack: the one below keeps its record.
LEMMA WaitsPop ==
    ASSUME WaitInv, NEW t \in Threads, End(t) \/ Yield(t)
    PROVE  WaitsOK'
<1> USE DEF WaitInv, RecordInv
<1>1. /\ pc[t] \in {"run", "park"} /\ Pop(t) /\ target' = target /\ awaited' = awaited
      /\ \/ /\ state' = [state EXCEPT ![Top(t)] = "settled"]
            /\ UNCHANGED <<suspended, waitingOn>>
         \/ /\ state' = state /\ suspended' = suspended \cup {Top(t)}
            /\ waitingOn' = [waitingOn EXCEPT ![Self(t)] = awaited[Top(t)]]
      /\ \A u \in Threads \ {t} : pc'[u] = pc[u]
    BY DEF End, Yield, Goto, TypesOK
<1>2. PICK x \in Messages : /\ x = Top(t) /\ state[x] = "active" /\ x \notin suspended
                            /\ Len(stack[t]) \in Nat /\ Len(stack[t]) >= 1
                            /\ OnStack(x, t, Len(stack[t])) /\ target[x] \in Actors
    BY <1>1, TopFacts, SelfFacts DEF Self
<1>3. \A n \in Messages : awaited'[n] # NoMessage => state'[awaited'[n]] # "unsent"
    BY <1>1, <1>2 DEF TypesOK, WaitsOK
<1>4. \A n \in Messages \ {x} : n \in suspended' => n \in suspended
    BY <1>1, <1>2
<1>5. \A n \in Messages \ {x} : state[n] = "active" =>
        waitingOn'[target[n]] = waitingOn[target[n]]
    BY <1>1, <1>2, OtherRecords DEF Self
<1>6. \A n \in Messages, u \in Threads : \A i \in Nat :
        OnStack(n, u, i)' => OnStack(n, u, i) /\ (u = t => i # Len(stack[t]))
    BY <1>1, <1>2, PopStack
<1>7. \A u \in Threads \ {t} : stack'[u] = stack[u]
    BY <1>1, <1>2, PopStack
<1>8. ASSUME NEW n \in Messages \ {x}, NEW u \in Threads, NEW i \in Nat,
             OnStack(n, u, i)', Recorded(u, i)'
      PROVE  OnStack(n, u, i) /\ Recorded(u, i)
    <2>1. OnStack(n, u, i) /\ (u = t => i # Len(stack[t]))
        BY <1>6, <1>8
    <2>2. CASE u = t
        BY <1>2, <2>1, <2>2 DEF Recorded, OnStack
    <2>3. CASE u # t
        BY <1>1, <1>7, <1>8, <2>1, <2>3 DEF Recorded
    <2> QED
        BY <2>2, <2>3
<1>9. ASSUME NEW u \in Threads, NEW i \in Nat, OnStack(x, u, i)' PROVE FALSE
    BY <1>2, <1>6, <1>9 DEF PlaceOK
<1>10. x \in suspended' => waitingOn'[target[x]] = awaited'[x]
    BY <1>1, <1>2 DEF TypesOK, Self
<1>11. suspended' \subseteq Messages
    BY <1>1, <1>2 DEF TypesOK
<1> QED
    BY <1>1, <1>3, <1>4, <1>5, <1>8, <1>9, <1>10, <1>11, WaitsKept

\* What a walking, parking or helping thread's message waits for is in the record.
LEMMA TopRecorded ==
    ASSUME WaitInv, NEW t \in Threads, pc[t] \in {"walk", "next", "park", "help"}
    PROVE  waitingOn[Self(t)] = awaited[Top(t)]
<1>1. Top(t) \in Messages /\ Len(stack[t]) \in Nat /\ OnStack(Top(t), t, Len(stack[t]))
    BY TopFacts DEF WaitInv, RecordInv
<1>2. Recorded(t, Len(stack[t]))
    BY DEF Recorded
<1> QED
    BY <1>1, <1>2 DEF WaitInv, WaitsOK, Self

\* Every step keeps the records.
LEMMA WaitsStep ==
    ASSUME WaitInv, [Next]_vars
    PROVE  WaitsOK'
<1> USE DEF WaitInv, RecordInv
<1>1. ASSUME NEW m \in Messages, NEW a \in Actors, Send(m, a) PROVE WaitsOK'
    <2>1. /\ state[m] = "unsent" /\ state' = [state EXCEPT ![m] = "queued"]
          /\ target' = [target EXCEPT ![m] = a]
          /\ UNCHANGED <<awaited, suspended, waitingOn, stack, pc>>
        BY <1>1 DEF Send
    <2>2. \A n \in Messages : state[n] = "active" => target'[n] = target[n]
        BY <2>1 DEF TypesOK
    <2>3. \A n \in Messages : awaited[n] # NoMessage => state'[awaited[n]] # "unsent"
        BY <2>1 DEF TypesOK, WaitsOK
    <2>4. \A n \in suspended : n \in Messages /\ state[n] = "active"
        BY DEF PlaceOK, TypesOK
    <2>5. \A n \in Messages, u \in Threads : \A i \in Nat :
            /\ OnStack(n, u, i) => state[n] = "active"
            /\ OnStack(n, u, i)' <=> OnStack(n, u, i)
            /\ Recorded(u, i)' <=> Recorded(u, i)
        BY <2>1 DEF PlaceOK, OnStack, Recorded
    <2> QED
        BY <2>1, <2>2, <2>3, <2>4, <2>5 DEF WaitsOK
<1>2. ASSUME NEW t \in Threads, NEW f \in Messages, BeginWait(t, f) PROVE WaitsOK'
    <2>1. Self(t) \in Actors
        BY <1>2, SelfFacts DEF BeginWait, Goto
    <2>2. waitingOn' = [waitingOn EXCEPT ![Self(t)] = waitingOn[Self(t)]]
        BY <1>2, <2>1 DEF BeginWait, TypesOK
    <2>3. /\ pc[t] = "run" /\ pc' = [pc EXCEPT ![t] = "record"]
          /\ UNCHANGED <<target, state, suspended, stack>>
          /\ awaited' = [awaited EXCEPT ![Top(t)] = f] /\ state[f] # "unsent"
        BY <1>2 DEF BeginWait, Goto
    <2>4. PICK v : v = waitingOn[Self(t)]
        OBVIOUS
    <2>5. f \in Messages \cup {NoMessage} /\ pc[t] # "idle"
          /\ waitingOn' = [waitingOn EXCEPT ![Self(t)] = v]
        BY <2>2, <2>3, <2>4
    <2>6. "record" \notin {"walk", "next", "park", "help"}
        OBVIOUS
    <2> HIDE DEF WaitInv, RecordInv
    <2> QED
        BY <2>3, <2>5, <2>6, WaitsInPlace
<1>3. ASSUME NEW t \in Threads, NEW m \in Messages, Start(t, m) \/ Resume(t, m) PROVE WaitsOK'
    BY <1>3, WaitsPush
<1>4. ASSUME NEW t \in Threads, End(t) \/ Yield(t) PROVE WaitsOK'
    BY <1>4, WaitsPop
<1>5. ASSUME NEW t \in Threads, WalkCloses(t) \/ HelpEnds(t) PROVE WaitsOK'
    <2>1. /\ pc[t] \in {"walk", "help"} /\ pc' = [pc EXCEPT ![t] = "run"]
          /\ waitingOn' = [waitingOn EXCEPT ![Self(t)] = NoMessage]
          /\ awaited' = [awaited EXCEPT ![Top(t)] = NoMessage]
          /\ UNCHANGED <<target, state, suspended, stack>>
        BY <1>5 DEF WalkCloses, HelpEnds, Goto
    <2> QED
        BY <2>1, WaitsInPlace
<1>6. ASSUME NEW t \in Threads, Record(t) \/ WalkOn(t) \/ WalkNext(t) \/ WalkEnds(t) \/ Help(t)
      PROVE WaitsOK'
    <2>1. PICK to \in {"walk", "next", "park", "help"} : pc' = [pc EXCEPT ![t] = to]
        BY <1>6 DEF Record, WalkOn, WalkNext, WalkEnds, Help, Goto
    <2>2. /\ pc[t] \in {"record", "walk", "next", "park"}
          /\ UNCHANGED <<target, state, awaited, suspended, stack>>
        BY <1>6 DEF Record, WalkOn, WalkNext, WalkEnds, Help, Goto, msgVars
    <2>3. Top(t) \in Messages /\ Self(t) \in Actors
        BY <2>2, SelfFacts
    <2>4. awaited[Top(t)] \in Messages \cup {NoMessage}
          /\ awaited' = [awaited EXCEPT ![Top(t)] = awaited[Top(t)]]
          /\ (awaited[Top(t)] # NoMessage => state[awaited[Top(t)]] # "unsent")
        BY <2>2, <2>3 DEF TypesOK, WaitsOK
    <2>5. waitingOn' = [waitingOn EXCEPT ![Self(t)] = awaited[Top(t)]]
        <3>1. CASE Record(t)
            BY <3>1 DEF Record
        <3>2. CASE ~Record(t)
            <4>1. waitingOn' = waitingOn /\ pc[t] \in {"walk", "next", "park"}
                BY <1>6, <3>2 DEF WalkOn, WalkNext, WalkEnds, Help, Goto
            <4>2. waitingOn[Self(t)] = awaited[Top(t)]
                BY <4>1, TopRecorded
            <4> QED
                BY <2>3, <4>1, <4>2 DEF TypesOK
        <3> QED
            BY <3>1, <3>2
    <2> QED
        BY <2>1, <2>2, <2>4, <2>5, WaitsInPlace
<1>7. CASE UNCHANGED vars
    BY <1>7 DEF vars, msgVars, WaitsOK, OnStack, Recorded
<1> QED
    BY <1>1, <1>2, <1>3, <1>4, <1>5, <1>6, <1>7 DEF Next, Step

-----------------------------------------------------------------------------
(* Steps: knots.                                                           *)

\* A push or a pop of a message of actor z changes only edges of z, and so does the end
\* of that message.
LEMMA EdgesBesides ==
    ASSUME RecordInv, NEW z, target' = target,
           \A u \in Threads : \A i \in 1 .. Len(stack'[u]) :
             \/ i \in 1 .. Len(stack[u]) /\ stack'[u][i] = stack[u][i]
             \/ target[stack'[u][i]] = z,
           \A u \in Threads : \A i \in 1 .. Len(stack[u]) :
             \/ i \in 1 .. Len(stack'[u]) /\ stack'[u][i] = stack[u][i]
             \/ target[stack[u][i]] = z,
           \A n \in Messages : target[n] # z => (state'[n] = "settled" <=> state[n] = "settled"),
           \A a \in Actors \ {z} : waitingOn'[a] = waitingOn[a]
    PROVE  \A a, b \in Actors \ {z} : Edge(a, b)' <=> Edge(a, b)
<1> TAKE a, b \in Actors \ {z}
<1>1. Awaits(a, b)' <=> Awaits(a, b)
    <2>1. waitingOn'[a] = waitingOn[a] /\ waitingOn[a] \in Messages \cup {NoMessage}
        BY DEF RecordInv, TypesOK
    <2> QED
        BY <2>1 DEF Awaits, Settled
<1>2. BuriedUnder(a, b)' => BuriedUnder(a, b)
    <2> SUFFICES ASSUME NEW u \in Threads, NEW i \in 1 .. Len(stack'[u]), NEW j \in 1 .. Len(stack'[u]),
                        i < j, target[stack'[u][i]] = a, target[stack'[u][j]] = b
                 PROVE  BuriedUnder(a, b)
        BY DEF BuriedUnder
    <2>1. /\ i \in 1 .. Len(stack[u]) /\ stack'[u][i] = stack[u][i]
          /\ j \in 1 .. Len(stack[u]) /\ stack'[u][j] = stack[u][j]
        OBVIOUS
    <2> QED
        BY <2>1 DEF BuriedUnder
<1>3. BuriedUnder(a, b) => BuriedUnder(a, b)'
    <2> SUFFICES ASSUME NEW u \in Threads, NEW i \in 1 .. Len(stack[u]), NEW j \in 1 .. Len(stack[u]),
                        i < j, target[stack[u][i]] = a, target[stack[u][j]] = b
                 PROVE  BuriedUnder(a, b)'
        BY DEF BuriedUnder
    <2>1. /\ i \in 1 .. Len(stack'[u]) /\ stack'[u][i] = stack[u][i]
          /\ j \in 1 .. Len(stack'[u]) /\ stack'[u][j] = stack[u][j]
        OBVIOUS
    <2> QED
        BY <2>1 DEF BuriedUnder
<1> QED
    BY <1>1, <1>2, <1>3 DEF Edge

\* A step that changes no record, no stack and no message.
LEMMA EdgesSame ==
    ASSUME UNCHANGED <<target, state, waitingOn, stack>>
    PROVE  \A a, b : Edge(a, b)' <=> Edge(a, b)
BY DEF Edge, Awaits, BuriedUnder, Settled

\* A send closes no knot: nobody waits for what has not been sent.
LEMMA KnotsSend ==
    ASSUME OneHelper, WaitInv, KnotsAreFollowed, NEW m \in Messages, NEW c \in Actors, Send(m, c)
    PROVE  KnotsAreFollowed'
<1> USE DEF WaitInv, RecordInv
<1>1. /\ state[m] = "unsent" /\ state' = [state EXCEPT ![m] = "queued"]
      /\ target' = [target EXCEPT ![m] = c]
      /\ UNCHANGED <<waitingOn, stack, pc, at, steps>>
    BY DEF Send
<1>2. \A n \in Messages : state[n] # "unsent" =>
        target'[n] = target[n] /\ (Settled(n)' <=> Settled(n))
    BY <1>1 DEF TypesOK, Settled
<1>3. \A a, b \in Actors : Awaits(a, b)' <=> Awaits(a, b)
    BY <1>1, <1>2, RecordedIsSent DEF Awaits
<1>4. \A u \in Threads : \A i \in 1 .. Len(stack[u]) : target'[stack[u][i]] = target[stack[u][i]]
    BY <1>2, StackFacts
<1>5. \A a, b \in Actors : BuriedUnder(a, b)' <=> BuriedUnder(a, b)
    BY <1>1, <1>4 DEF BuriedUnder
<1>6. \A a, b \in Actors \ {NoActor} : Edge(a, b)' <=> Edge(a, b)
    BY <1>3, <1>5 DEF Edge
<1> SUFFICES ASSUME NEW S \in SUBSET Actors, LeastKnot(S)'
             PROVE  \E u \in Threads : Follows(u, S)'
    BY DEF KnotsAreFollowed
<1>7. LeastKnot(S)
    BY <1>6, KnotBefore, NoActorAssumption
<1>8. PICK u \in Threads : Follows(u, S)
    BY <1>7 DEF KnotsAreFollowed
<1>9. Follows(u, S)'
    BY <1>1, <1>2, <1>7, <1>8, FollowsKept DEF LeastKnot
<1> QED
    BY <1>9

\* A step of a thread that does not walk, when no record, stack or message changes.
LEMMA KnotsInPlace ==
    ASSUME OneHelper, WaitInv, KnotsAreFollowed, NEW t \in Threads, pc[t] \notin {"walk", "next"},
           NEW to, pc' = [pc EXCEPT ![t] = to],
           UNCHANGED <<target, state, waitingOn, stack, at, steps>>
    PROVE  KnotsAreFollowed'
<1>1. \A u \in Threads \ {t} : pc'[u] = pc[u]
    BY DEF WaitInv, RecordInv, TypesOK
<1>2. \A a, b \in Actors \ {NoActor} : Edge(a, b)' <=> Edge(a, b)
    BY EdgesSame
<1> QED
    BY <1>1, <1>2, KnotsKept, NoActorAssumption

\* A message that starts or goes on waits for nothing, so no knot goes through it.
LEMMA KnotsPush ==
    ASSUME OneHelper, WaitInv, KnotsAreFollowed, NEW t \in Threads, NEW m \in Messages,
           Start(t, m) \/ Resume(t, m)
    PROVE  KnotsAreFollowed'
<1> USE DEF WaitInv, RecordInv
<1>1. /\ CanDrain(t) /\ Push(t, m) /\ pc' = [pc EXCEPT ![t] = "run"]
      /\ UNCHANGED <<target, at, steps>>
      /\ \A n \in Messages : state'[n] = "settled" <=> state[n] = "settled"
    BY DEF Start, Resume, TypesOK
<1>2. pc[t] \in {"idle", "help"}
    BY <1>1 DEF CanDrain
<1>3. PICK z \in Actors : z = target[m]
    <2>1. state[m] # "unsent"
        BY DEF Start, Resume, PlaceOK
    <2> QED
        BY <2>1 DEF OneMessageOK
<1>4. ASSUME NEW u \in Threads, NEW i \in 1 .. Len(stack[u])
      PROVE  target[stack[u][i]] # z
    <2>1. /\ stack[u][i] \in Messages /\ state[stack[u][i]] = "active"
          /\ stack[u][i] \notin suspended
        BY StackFacts
    <2>2. CASE Start(t, m)
        BY <1>3, <2>1, <2>2 DEF Start
    <2>3. CASE Resume(t, m)
        <3>1. m \in suspended /\ state[m] = "active"
            BY <2>3 DEF Resume, PlaceOK
        <3> QED
            BY <1>3, <2>1, <3>1, ActorFacts
    <2> QED
        BY <2>2, <2>3
<1>5. waitingOn'[z] = NoMessage /\ \A a \in Actors \ {z} : waitingOn'[a] = waitingOn[a]
    <2>1. CASE Start(t, m)
        BY <1>3, <2>1 DEF Start, RecordsAreCurrent
    <2>2. CASE Resume(t, m)
        BY <1>3, <2>2 DEF Resume, TypesOK
    <2> QED
        BY <2>1, <2>2
<1>6. /\ stack[t] \in Seq(Messages) /\ Len(stack[t]) \in Nat
      /\ stack'[t] = Append(stack[t], m)
      /\ \A u \in Threads \ {t} : stack'[u] = stack[u]
    BY <1>1 DEF Push, TypesOK
<1>7. /\ Len(stack'[t]) = Len(stack[t]) + 1
      /\ \A i \in 1 .. Len(stack[t]) : stack'[t][i] = stack[t][i]
      /\ stack'[t][Len(stack[t]) + 1] = m
    BY <1>6
<1>8. ASSUME NEW u \in Threads, NEW i \in 1 .. Len(stack[u])
      PROVE  i \in 1 .. Len(stack'[u]) /\ stack'[u][i] = stack[u][i]
    BY <1>6, <1>7
<1>9. ASSUME NEW u \in Threads, NEW i \in 1 .. Len(stack'[u])
      PROVE  \/ i \in 1 .. Len(stack[u]) /\ stack'[u][i] = stack[u][i]
             \/ u = t /\ i = Len(stack[t]) + 1 /\ target[stack'[u][i]] = z
    <2>1. CASE u = t /\ i = Len(stack[t]) + 1
        BY <1>3, <1>7, <2>1
    <2>2. CASE u = t /\ i # Len(stack[t]) + 1
        <3>1. i \in 1 .. Len(stack[t])
            BY <1>6, <1>7, <2>2
        <3> QED
            BY <1>7, <2>2, <3>1
    <2>3. CASE u # t
        BY <1>6, <2>3
    <2> QED
        BY <2>1, <2>2, <2>3
<1>10. \A a, b \in Actors \ {z} : Edge(a, b)' <=> Edge(a, b)
    <2>1. \A n \in Messages : target[n] # z => (state'[n] = "settled" <=> state[n] = "settled")
        BY <1>1
    <2>2. \A u \in Threads : \A i \in 1 .. Len(stack'[u]) :
            \/ i \in 1 .. Len(stack[u]) /\ stack'[u][i] = stack[u][i]
            \/ target[stack'[u][i]] = z
        BY <1>9
    <2>3. target' = target
        BY <1>1
    <2>4. \A u \in Threads : \A i \in 1 .. Len(stack[u]) :
            \/ i \in 1 .. Len(stack'[u]) /\ stack'[u][i] = stack[u][i]
            \/ target[stack[u][i]] = z
        BY <1>8
    <2>5. RecordInv
        OBVIOUS
    <2> HIDE DEF WaitInv, RecordInv
    <2> QED
        BY <1>5, <2>1, <2>2, <2>3, <2>4, <2>5, EdgesBesides
<1>11. \A b \in Actors : ~Edge(z, b)'
    <2> SUFFICES ASSUME NEW b, BuriedUnder(z, b)' PROVE FALSE
        BY <1>1, <1>5 DEF Edge, Awaits
    <2>1. PICK u \in Threads : \E i, j \in 1 .. Len(stack'[u]) : i < j /\ target[stack'[u][i]] = z
        BY <1>1 DEF BuriedUnder
    <2>2. PICK i \in 1 .. Len(stack'[u]), j \in 1 .. Len(stack'[u]) :
            i < j /\ target[stack'[u][i]] = z
        BY <2>1
    <2>3. u = t /\ i = Len(stack[t]) + 1
        BY <1>4, <1>9, <2>2
    <2> QED
        BY <1>6, <1>7, <2>2, <2>3
<1>12. \A u \in Threads \ {t} : pc'[u] = pc[u]
    BY <1>1 DEF TypesOK
<1>13. \A n \in Messages : state[n] # "unsent" => target'[n] = target[n]
    BY <1>1
<1> QED
    BY <1>1, <1>2, <1>5, <1>6, <1>10, <1>11, <1>12, <1>13, KnotsKept

\* A message that ends waits for nothing, so no knot goes through it.
LEMMA KnotsEnd ==
    ASSUME OneHelper, WaitInv, KnotsAreFollowed, NEW t \in Threads, End(t)
    PROVE  KnotsAreFollowed'
<1> USE DEF WaitInv, RecordInv
<1>1. /\ pc[t] = "run" /\ Pop(t) /\ state' = [state EXCEPT ![Top(t)] = "settled"]
      /\ UNCHANGED <<target, waitingOn, at, steps>>
      /\ \A u \in Threads \ {t} : pc'[u] = pc[u]
    BY DEF End, Goto, TypesOK
<1>2. PICK z \in Actors : z = Self(t) /\ z = target[Top(t)]
    BY <1>1, SelfFacts DEF Self
<1>3. /\ Len(stack[t]) \in Nat /\ Len(stack[t]) >= 1 /\ Top(t) \in Messages
      /\ state[Top(t)] = "active" /\ awaited[Top(t)] = NoMessage
    BY <1>1, TopFacts DEF AwaitedOK
<1>4. waitingOn[z] = NoMessage
    <2> SUFFICES ASSUME waitingOn[z] # NoMessage PROVE FALSE
        OBVIOUS
    <2>1. PICK n \in Messages : target[n] = z /\ state[n] = "active" /\ awaited[n] = waitingOn[z]
        BY DEF RecordsAreCurrent
    <2>2. n = Top(t)
        BY <1>2, <1>3, <2>1, ActorFacts
    <2> QED
        BY <1>3, <2>1, <2>2
<1>5. /\ stack[t] \in Seq(Messages) /\ stack'[t] = SubSeq(stack[t], 1, Len(stack[t]) - 1)
      /\ \A u \in Threads \ {t} : stack'[u] = stack[u]
    BY <1>1 DEF Pop, TypesOK
<1>6. /\ Len(stack'[t]) = Len(stack[t]) - 1
      /\ \A i \in 1 .. (Len(stack[t]) - 1) : stack'[t][i] = stack[t][i]
    BY <1>3, <1>5
<1>7. ASSUME NEW u \in Threads, NEW i \in 1 .. Len(stack'[u])
      PROVE  i \in 1 .. Len(stack[u]) /\ stack'[u][i] = stack[u][i]
    <2>1. CASE u = t
        <3>1. i \in 1 .. (Len(stack[t]) - 1) /\ i \in 1 .. Len(stack[t])
            BY <1>3, <1>6, <2>1
        <3> QED
            BY <1>6, <2>1, <3>1
    <2>2. CASE u # t
        BY <1>5, <2>2
    <2> QED
        BY <2>1, <2>2
<1>8. ASSUME NEW u \in Threads, NEW i \in 1 .. Len(stack[u])
      PROVE  \/ i \in 1 .. Len(stack'[u]) /\ stack'[u][i] = stack[u][i]
             \/ target[stack[u][i]] = z
    <2>1. CASE u = t /\ i = Len(stack[t])
        BY <1>2, <2>1 DEF Top
    <2>2. CASE u = t /\ i # Len(stack[t])
        BY <1>3, <1>6, <2>2
    <2>3. CASE u # t
        BY <1>5, <2>3
    <2> QED
        BY <2>1, <2>2, <2>3
<1>9. \A n \in Messages : target[n] # z => (state'[n] = "settled" <=> state[n] = "settled")
    BY <1>1, <1>2, <1>3 DEF TypesOK
<1>10. \A a, b \in Actors \ {z} : Edge(a, b)' <=> Edge(a, b)
    <2>1. \A u \in Threads : \A i \in 1 .. Len(stack'[u]) :
            \/ i \in 1 .. Len(stack[u]) /\ stack'[u][i] = stack[u][i]
            \/ target[stack'[u][i]] = z
        BY <1>7
    <2>2. \A u \in Threads : \A i \in 1 .. Len(stack[u]) :
            \/ i \in 1 .. Len(stack'[u]) /\ stack'[u][i] = stack[u][i]
            \/ target[stack[u][i]] = z
        BY <1>8
    <2>3. target' = target /\ RecordInv /\ \A a \in Actors \ {z} : waitingOn'[a] = waitingOn[a]
        BY <1>1
    <2> HIDE DEF WaitInv, RecordInv
    <2> QED
        BY <1>9, <2>1, <2>2, <2>3, EdgesBesides
<1>11. \A b \in Actors : ~Edge(z, b)'
    <2> SUFFICES ASSUME NEW b, BuriedUnder(z, b)' PROVE FALSE
        BY <1>1, <1>4 DEF Edge, Awaits
    <2>1. PICK u \in Threads : \E i, j \in 1 .. Len(stack'[u]) :
            i < j /\ target[stack'[u][i]] = z /\ target[stack'[u][j]] = b
        BY <1>1 DEF BuriedUnder
    <2>2. PICK i \in 1 .. Len(stack'[u]), j \in 1 .. Len(stack'[u]) :
            i < j /\ target[stack'[u][i]] = z /\ target[stack'[u][j]] = b
        BY <2>1
    <2>3. /\ i \in 1 .. Len(stack[u]) /\ target[stack[u][i]] = z
          /\ j \in 1 .. Len(stack[u]) /\ target[stack[u][j]] = b
        BY <1>7, <2>2
    <2>4. BuriedUnder(z, b)
        BY <2>2, <2>3 DEF BuriedUnder
    <2> QED
        BY <1>1, <1>2, <2>4, SelfFacts
<1>12. \A n \in Messages : state[n] # "unsent" => target'[n] = target[n]
    BY <1>1
<1> QED
    BY <1>1, <1>5, <1>10, <1>11, <1>12, KnotsKept

\* A method that yields has recorded its wait, and buries nobody.
LEMMA KnotsYield ==
    ASSUME OneHelper, WaitInv, KnotsAreFollowed, NEW t \in Threads, Yield(t)
    PROVE  KnotsAreFollowed'
<1> USE DEF WaitInv, RecordInv
<1>1. /\ pc[t] = "park" /\ Pop(t) /\ Len(stack[t]) = 1
      /\ UNCHANGED <<target, state, at, steps>>
      /\ waitingOn' = [waitingOn EXCEPT ![Self(t)] = awaited[Top(t)]]
      /\ \A u \in Threads \ {t} : pc'[u] = pc[u]
    BY DEF Yield, Yields, Goto, TypesOK
<1>2. waitingOn' = waitingOn
    <2>1. waitingOn[Self(t)] = awaited[Top(t)] /\ Self(t) \in Actors
        BY <1>1, TopRecorded, SelfFacts
    <2> QED
        BY <1>1, <2>1 DEF TypesOK
<1>3. /\ Len(stack'[t]) = 0
      /\ \A u \in Threads \ {t} : stack'[u] = stack[u]
    BY <1>1 DEF Pop, TypesOK
<1>4. \A a, b : BuriedUnder(a, b)' <=> BuriedUnder(a, b)
    <2>1. ASSUME NEW u \in Threads, NEW i, NEW j, i < j,
                 \/ i \in 1 .. Len(stack[u]) /\ j \in 1 .. Len(stack[u])
                 \/ i \in 1 .. Len(stack'[u]) /\ j \in 1 .. Len(stack'[u])
          PROVE  u # t
        <3> SUFFICES ASSUME u = t PROVE FALSE
            OBVIOUS
        <3>1. i \in 1 .. 1 /\ j \in 1 .. 1
            BY <1>1, <1>3, <2>1
        <3> QED
            BY <2>1, <3>1
    <2> SUFFICES ASSUME NEW a, NEW b PROVE BuriedUnder(a, b)' <=> BuriedUnder(a, b)
        OBVIOUS
    <2>2. ASSUME BuriedUnder(a, b)' PROVE BuriedUnder(a, b)
        <3>1. PICK u \in Threads : \E i, j \in 1 .. Len(stack'[u]) :
                i < j /\ target[stack'[u][i]] = a /\ target[stack'[u][j]] = b
            BY <1>1, <2>2 DEF BuriedUnder
        <3>2. stack'[u] = stack[u]
            BY <1>3, <2>1, <3>1
        <3> QED
            BY <3>1, <3>2 DEF BuriedUnder
    <2>3. ASSUME BuriedUnder(a, b) PROVE BuriedUnder(a, b)'
        <3>1. PICK u \in Threads : \E i, j \in 1 .. Len(stack[u]) :
                i < j /\ target[stack[u][i]] = a /\ target[stack[u][j]] = b
            BY <2>3 DEF BuriedUnder
        <3>2. stack'[u] = stack[u]
            BY <1>3, <2>1, <3>1
        <3> QED
            BY <1>1, <3>1, <3>2 DEF BuriedUnder
    <2> QED
        BY <2>2, <2>3
<1>5. \A a, b \in Actors \ {NoActor} : Edge(a, b)' <=> Edge(a, b)
    BY <1>1, <1>2, <1>4 DEF Edge, Awaits, Settled
<1>6. \A n \in Messages : state[n] # "unsent" => target'[n] = target[n]
    BY <1>1
<1> QED
    BY <1>1, <1>2, <1>3, <1>5, <1>6, KnotsKept, NoActorAssumption

\* The end of a wait, by an error or because its future is settled, opens the knots that
\* go through it.
LEMMA KnotsEndWait ==
    ASSUME OneHelper, WaitInv, KnotsAreFollowed, NEW t \in Threads, WalkCloses(t) \/ HelpEnds(t)
    PROVE  KnotsAreFollowed'
<1> USE DEF WaitInv, RecordInv
<1>1. /\ pc[t] # "idle" /\ UNCHANGED <<target, state, stack, steps>>
      /\ waitingOn' = [waitingOn EXCEPT ![Self(t)] = NoMessage]
      /\ \A u \in Threads \ {t} : pc'[u] = pc[u] /\ at'[u] = at[u]
    BY DEF WalkCloses, HelpEnds, Goto, TypesOK, WalkTypesOK
<1>2. PICK z \in Actors : z = Self(t)
    BY <1>1, SelfFacts
<1>3. waitingOn'[z] = NoMessage /\ \A a \in Actors \ {z} : waitingOn'[a] = waitingOn[a]
    BY <1>1, <1>2 DEF TypesOK
<1>4. \A a, b : BuriedUnder(a, b)' <=> BuriedUnder(a, b)
    BY <1>1 DEF BuriedUnder
<1>5. \A a, b \in Actors \ {z} : Edge(a, b)' <=> Edge(a, b)
    BY <1>1, <1>3, <1>4 DEF Edge, Awaits, Settled
<1>6. \A b \in Actors : ~Edge(z, b)'
    BY <1>1, <1>2, <1>3, <1>4, SelfFacts DEF Edge, Awaits
<1>7. \A n \in Messages : state[n] # "unsent" => target'[n] = target[n]
    BY <1>1
<1> QED
    BY <1>1, <1>2, <1>3, <1>5, <1>6, <1>7, KnotsKept

\* Whoever closes a knot with its record begins to follow it.
LEMMA KnotsRecord ==
    ASSUME OneHelper, WaitInv, KnotsAreFollowed, NEW t \in Threads, Record(t)
    PROVE  KnotsAreFollowed'
<1> USE DEF WaitInv, RecordInv
<1>1. /\ pc[t] = "record" /\ UNCHANGED <<target, state, stack>>
      /\ waitingOn' = [waitingOn EXCEPT ![Self(t)] = awaited[Top(t)]]
      /\ pc'[t] = "walk" /\ at'[t] = awaited[Top(t)] /\ steps'[t] = 0
      /\ \A u \in Threads \ {t} : pc'[u] = pc[u] /\ at'[u] = at[u] /\ steps'[u] = steps[u]
    BY DEF Record, Goto, msgVars, TypesOK, WalkTypesOK
<1>2. PICK z \in Actors : z = Self(t) /\ z \notin Buried(t)
    BY <1>1, SelfFacts
<1>3. waitingOn'[z] = at'[t] /\ \A a \in Actors \ {z} : waitingOn'[a] = waitingOn[a]
    BY <1>1, <1>2 DEF TypesOK
<1>4. Self(t)' = z /\ z \notin Buried(t)'
    BY <1>1, <1>2 DEF Self, Top, Buried
<1> SUFFICES ASSUME NEW S \in SUBSET Actors, LeastKnot(S)'
             PROVE  \E u \in Threads : Follows(u, S)'
    BY DEF KnotsAreFollowed
<1>5. CASE z \in S
    <2>1. Cardinality({z}) = 1
        BY FS_Singleton
    <2>2. Path(t, {z})'
        BY <1>1, <1>3, <1>4, <2>1 DEF Path
    <2>3. {z} \in SUBSET S
        BY <1>5
    <2> QED
        BY <1>1, <2>2, <2>3 DEF Follows
<1>6. CASE z \notin S
    <2>1. \A a, b : BuriedUnder(a, b)' <=> BuriedUnder(a, b)
        BY <1>1 DEF BuriedUnder
    <2>2. \A a, b \in Actors \ {z} : Edge(a, b)' <=> Edge(a, b)
        BY <1>1, <1>3, <2>1 DEF Edge, Awaits, Settled
    <2>3. \A n \in Messages : state[n] # "unsent" => target'[n] = target[n]
        BY <1>1
    <2> QED
        BY <1>1, <1>3, <1>6, <2>2, <2>3, OthersFollow
<1> QED
    BY <1>5, <1>6

\* The walk of a thread that follows a knot goes along the knot, and does not end.
LEMMA KnotsWalk ==
    ASSUME OneHelper, WalksReach, WaitInv, KnotsAreFollowed, NEW t \in Threads,
           WalkOn(t) \/ WalkNext(t) \/ WalkEnds(t)
    PROVE  KnotsAreFollowed'
<1>1. /\ UNCHANGED <<target, state, waitingOn, stack>>
      /\ \A u \in Threads \ {t} : pc'[u] = pc[u] /\ at'[u] = at[u] /\ steps'[u] = steps[u]
    BY DEF WalkOn, WalkNext, WalkEnds, Goto, msgVars, WaitInv, RecordInv, TypesOK, WalkTypesOK
<1> SUFFICES ASSUME NEW S \in SUBSET Actors, LeastKnot(S)'
             PROVE  \E u \in Threads : Follows(u, S)'
    BY DEF KnotsAreFollowed
<1>2. LeastKnot(S) /\ Knot(S)
    <2>1. \A a, b \in Actors \ {NoActor} : Edge(a, b)' <=> Edge(a, b)
        BY <1>1, EdgesSame
    <2> QED
        BY <2>1, KnotBefore, NoActorAssumption DEF LeastKnot
<1>3. PICK u \in Threads : Follows(u, S)
    BY <1>2 DEF KnotsAreFollowed
<1>4. CASE u # t
    BY <1>1, <1>2, <1>3, <1>4, FollowsKept
<1>5. CASE u = t /\ WalkOn(t)
    <2>1. /\ pc'[t] = "next" /\ at' = at /\ steps' = steps /\ ~Closes(t, target[at[t]])
        BY <1>5 DEF WalkOn, Goto, WaitInv, RecordInv, TypesOK
    <2>2. PICK V \in SUBSET S : Path(t, V)
        BY <1>3, <1>5 DEF Follows
    <2>3. Path(t, V)'
        BY <1>1, <2>1, <2>2 DEF Path, Self, Top, Buried
    <2>4. ~Closes(t, target[at[t]])'
        BY <1>1, <2>1 DEF Closes, Self, Top, Buried
    <2> QED
        BY <1>1, <2>1, <2>3, <2>4 DEF Follows, Closes
<1>6. CASE u = t /\ WalkNext(t)
    BY <1>2, <1>3, <1>6, FollowNext
<1>7. CASE u = t /\ WalkEnds(t)
    <2>1. Following(t)
        BY <1>2, <1>3, <1>7, FollowingKnot
    <2> QED
        BY <1>7, <2>1 DEF WalkEnds
<1> QED
    BY <1>4, <1>5, <1>6, <1>7

\* In every state some thread follows each knot.
LEMMA KnotsInvariance ==
    ASSUME OneHelper, WalksReach
    PROVE  Spec => [](WaitInv /\ KnotsAreFollowed)
<1>1. Init => WaitInv /\ KnotsAreFollowed
    <2> SUFFICES ASSUME Init PROVE WaitInv /\ KnotsAreFollowed
        OBVIOUS
    <2>1. RecordInv
        BY DEF Init, RecordInv, TypesOK, IdleOK, PlaceOK, OnStack, OneMessageOK, AwaitedOK,
           RecordsAreCurrent
    <2>2. WalkTypesOK /\ PoolOK
        BY DEF Init, WalkTypesOK, PoolOK
    <2>3. WaitsOK
        BY DEF Init, WaitsOK, OnStack
    <2>4. \A a, b \in Actors : ~Edge(a, b)
        BY DEF Init, Edge, Awaits, BuriedUnder
    <2>5. \A S \in SUBSET Actors : ~LeastKnot(S)
        BY <2>4 DEF LeastKnot, Knot
    <2> QED
        BY <2>1, <2>2, <2>3, <2>5 DEF WaitInv, KnotsAreFollowed
<1>2. WaitInv /\ KnotsAreFollowed /\ [Next]_vars /\ RecordInv' => WaitInv' /\ KnotsAreFollowed'
    <2> SUFFICES ASSUME WaitInv, KnotsAreFollowed, [Next]_vars, RecordInv'
                 PROVE  WaitInv' /\ KnotsAreFollowed'
        OBVIOUS
    <2>0. WaitInv'
        BY PoolStep, WaitsStep DEF WaitInv
    <2>1. ASSUME NEW m \in Messages, NEW a \in Actors, Send(m, a) PROVE KnotsAreFollowed'
        BY <2>1, KnotsSend
    <2>2. ASSUME NEW t \in Threads, NEW f \in Messages, BeginWait(t, f) PROVE KnotsAreFollowed'
        BY <2>2, KnotsInPlace DEF BeginWait, Goto
    <2>3. ASSUME NEW t \in Threads, NEW m \in Messages, Start(t, m) \/ Resume(t, m)
          PROVE  KnotsAreFollowed'
        BY <2>3, KnotsPush
    <2>4. ASSUME NEW t \in Threads, End(t) \/ Yield(t) PROVE KnotsAreFollowed'
        BY <2>4, KnotsEnd, KnotsYield
    <2>5. ASSUME NEW t \in Threads, WalkCloses(t) \/ HelpEnds(t) \/ Record(t) PROVE KnotsAreFollowed'
        BY <2>5, KnotsEndWait, KnotsRecord
    <2>6. ASSUME NEW t \in Threads, WalkOn(t) \/ WalkNext(t) \/ WalkEnds(t) PROVE KnotsAreFollowed'
        BY <2>6, KnotsWalk
    <2>7. ASSUME NEW t \in Threads, Help(t) PROVE KnotsAreFollowed'
        BY <2>7, KnotsInPlace DEF Help, Goto, msgVars
    <2>8. CASE UNCHANGED vars
        <3>1. UNCHANGED <<target, state, waitingOn, stack, pc, at, steps>>
            BY <2>8 DEF vars, msgVars
        <3>2. \A a, b : Edge(a, b)' <=> Edge(a, b)
            BY <3>1, EdgesSame
        <3> SUFFICES ASSUME NEW S \in SUBSET Actors, LeastKnot(S)'
                     PROVE  \E u \in Threads : Follows(u, S)'
            BY <2>0 DEF KnotsAreFollowed
        <3>3. LeastKnot(S) /\ Knot(S)
            <4>1. \A a, b \in Actors \ {NoActor} : Edge(a, b)' <=> Edge(a, b)
                BY <3>2
            <4> QED
                BY <4>1, KnotBefore, NoActorAssumption DEF LeastKnot
        <3>4. PICK u \in Threads : Follows(u, S)
            BY <3>3 DEF KnotsAreFollowed
        <3> QED
            BY <3>1, <3>3, <3>4, FollowsKept
    <2> QED
        BY <2>0, <2>1, <2>2, <2>3, <2>4, <2>5, <2>6, <2>7, <2>8 DEF Next, Step
<1> QED
    BY <1>1, <1>2, RecordInvariance, PTL DEF Spec

\* Among the finitely many actors, a knot has a least one in it.
LEMMA LeastKnotExists ==
    ASSUME WalksReach, NEW S \in SUBSET Actors, Knot(S)
    PROVE  \E T \in SUBSET S : LeastKnot(T)
<1> DEFINE Sizes == {Cardinality(T) : T \in {R \in SUBSET S : Knot(R)}}
<1>1. \A T \in SUBSET S : IsFiniteSet(T) /\ Cardinality(T) \in Nat
    BY FS_Subset, FS_CardinalityType DEF WalksReach
<1>2. Sizes \subseteq Nat /\ Sizes # {}
    BY <1>1
<1>3. PICK n \in Sizes : \A k \in Sizes : ~ (<<k, n>> \in OpToRel(<, Nat))
    <2> HIDE DEF Sizes
    <2> QED
        BY <1>2, NatLessThanWellFounded, WFMin
<1>4. \A k \in Sizes : ~ (k < n)
    BY <1>2, <1>3 DEF OpToRel
<1>5. PICK T \in SUBSET S : Knot(T) /\ Cardinality(T) = n
    OBVIOUS
<1>6. ASSUME NEW R \in SUBSET T, Knot(R) PROVE R = T
    <2>1. R \in SUBSET S /\ Cardinality(R) \in Sizes
        BY <1>6
    <2>2. ~ (Cardinality(R) < Cardinality(T))
        BY <1>4, <1>5, <2>1
    <2>3. IsFiniteSet(T) /\ Cardinality(R) \in Nat /\ Cardinality(T) \in Nat
        BY <1>1, <2>1
    <2>4. Cardinality(R) <= Cardinality(T) /\ (Cardinality(R) = Cardinality(T) => R = T)
        BY <2>3, FS_Subset
    <2> QED
        BY <2>2, <2>3, <2>4
<1> QED
    BY <1>5, <1>6 DEF LeastKnot

\* A set of messages that block one another is a knot of their actors, none of which is
\* still on its walk.
LEMMA NoKnotNoCycle ==
    ASSUME WalksReach, WaitInv, KnotsAreFollowed
    PROVE  NoSilentCycle
<1> USE DEF WaitInv, RecordInv
<1> SUFFICES ASSUME NEW ms \in (SUBSET Messages) \ {{}},
                    \A m \in ms : \E n \in ms : BlockedBy(m, n)
             PROVE  FALSE
    BY DEF NoSilentCycle
<1> DEFINE S == {target[m] : m \in {k \in ms : state[k] = "active"}}
<1>1. \A m \in ms : state[m] = "queued" =>
        \E n \in ms : state[n] = "active" /\ target[n] = target[m]
    <2> SUFFICES ASSUME NEW m \in ms, state[m] = "queued"
                 PROVE  \E n \in ms : state[n] = "active" /\ target[n] = target[m]
        OBVIOUS
    <2>1. PICK n \in ms : BlockedBy(m, n)
        OBVIOUS
    <2>2. m \notin suspended /\ \A u \in Threads : \A i \in 1 .. Len(stack[u]) : stack[u][i] # m
        BY StackFacts DEF PlaceOK
    <2>3. ~Waits(m) /\ ~Above(m, n)
        BY <2>2 DEF Waits, Above
    <2> QED
        BY <2>1, <2>3 DEF BlockedBy
<1>2. ASSUME NEW m \in ms, state[m] = "active" PROVE \E b \in S : Edge(target[m], b)
    <2>1. PICK n \in ms : BlockedBy(m, n)
        OBVIOUS
    <2>2. CASE Above(m, n)
        <3>1. PICK u \in Threads : \E i, j \in 1 .. Len(stack[u]) :
                i < j /\ stack[u][i] = m /\ stack[u][j] = n
            BY <2>2 DEF Above
        <3>2. BuriedUnder(target[m], target[n])
            BY <3>1 DEF BuriedUnder
        <3>3. state[n] = "active"
            BY <3>1, StackFacts
        <3> QED
            BY <3>2, <3>3 DEF Edge
    <2>3. CASE Waits(m) /\ awaited[m] = n /\ ~Settled(n)
        <3>1. waitingOn[target[m]] = n
            <4>1. CASE m \in suspended
                BY <2>3, <4>1 DEF WaitsOK
            <4>2. CASE m \notin suspended
                <5>1. PICK u \in Threads : \E i \in 1 .. Len(stack[u]) :
                        stack[u][i] = m /\ (i < Len(stack[u]) \/ pc[u] = "help")
                    BY <2>3, <4>2 DEF Waits
                <5>2. PICK i \in 1 .. Len(stack[u]) :
                        stack[u][i] = m /\ (i < Len(stack[u]) \/ pc[u] = "help")
                    BY <5>1
                <5>3. m \in Messages /\ i \in Nat /\ OnStack(m, u, i) /\ Recorded(u, i)
                    BY <5>2, StackFacts DEF Recorded
                <5> QED
                    BY <2>3, <5>3 DEF WaitsOK
            <4> QED
                BY <4>1, <4>2
        <3>2. n \in Messages /\ n # NoMessage /\ state[n] \in {"queued", "active"}
            BY <2>3, NoMessageAssumption DEF WaitsOK, TypesOK, Settled
        <3>3. Edge(target[m], target[n])
            BY <2>3, <3>1, <3>2 DEF Edge, Awaits
        <3>4. target[n] \in S
            BY <1>1, <3>2
        <3> QED
            BY <3>3, <3>4
    <2> QED
        BY <1>2, <2>1, <2>2, <2>3 DEF BlockedBy
<1>3. S # {}
    <2>1. PICK m \in ms : TRUE
        OBVIOUS
    <2>2. state[m] \in {"queued", "active"}
        <3>1. PICK n \in ms : BlockedBy(m, n)
            OBVIOUS
        <3>2. Waits(m) \/ Above(m, n) => state[m] = "active"
            BY StackFacts DEF Waits, Above, PlaceOK
        <3> QED
            BY <3>1, <3>2 DEF BlockedBy
    <2> QED
        BY <1>1, <2>2
<1>4. S \in SUBSET Actors
    BY DEF OneMessageOK
<1>5. Knot(S)
    BY <1>2, <1>3 DEF Knot
<1>6. PICK T \in SUBSET S : LeastKnot(T)
    BY <1>4, <1>5, LeastKnotExists
<1>7. PICK t \in Threads : Follows(t, T)
    BY <1>4, <1>6 DEF KnotsAreFollowed
<1>8. pc[t] \in {"walk", "next"} /\ Self(t) \in S
    BY <1>6, <1>7 DEF Follows, Path
<1>9. PICK m \in ms : state[m] = "active" /\ target[m] = Self(t)
    BY <1>8
<1>10. /\ m = Top(t) /\ OnStack(m, t, Len(stack[t])) /\ m \notin suspended
       /\ Len(stack[t]) \in Nat
    BY <1>8, <1>9, TopFacts, ActorFacts DEF Self
<1>11. \A u \in Threads : \A i \in 1 .. Len(stack[u]) :
         stack[u][i] = m => u = t /\ i = Len(stack[t])
    BY <1>10, StackFacts DEF PlaceOK
<1>12. ~Waits(m)
    BY <1>8, <1>10, <1>11 DEF Waits
<1>13. \A n : ~Above(m, n)
    <2> SUFFICES ASSUME NEW n, Above(m, n) PROVE FALSE
        OBVIOUS
    <2>1. PICK u \in Threads : \E i, j \in 1 .. Len(stack[u]) : i < j /\ stack[u][i] = m
        BY DEF Above
    <2>2. PICK i \in 1 .. Len(stack[u]), j \in 1 .. Len(stack[u]) : i < j /\ stack[u][i] = m
        BY <2>1
    <2>3. u = t /\ i = Len(stack[t])
        BY <1>11, <2>2
    <2> QED
        BY <1>10, <2>2, <2>3
<1> QED
    BY <1>9, <1>12, <1>13 DEF BlockedBy

\* detectWaitCycle reports every cycle of waits: no set of messages, all past their check,
\* is blocked by one another, however sends, waits and walks of any number of threads
\* interleave.  This is for programs in which nothing is buried where another thread's
\* walk does not look, and with fewer actors than the walk has steps.
THEOREM CyclesAreReported ==
    ASSUME OneHelper, WalksReach
    PROVE  Spec => []NoSilentCycle
<1>1. WaitInv /\ KnotsAreFollowed => NoSilentCycle
    BY NoKnotNoCycle
<1>2. Spec => [](WaitInv /\ KnotsAreFollowed)
    BY KnotsInvariance
<1> QED
    BY <1>1, <1>2, PTL

=============================================================================
