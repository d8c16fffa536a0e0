----------------------------- MODULE ReadyStack -----------------------------
(***************************************************************************)
(* ReadyStack.h: the lock-free LIFO stack of ready actors.  A Treiber      *)
(* stack over a pool of nodes that is never freed, with a free list of the *)
(* same shape.  Both heads are words (generation, index), and every        *)
(* successful compare-and-swap installs the next generation.               *)
(*                                                                         *)
(* A step is one atomic access.  A thread keeps between its steps the head *)
(* word it has read (old), the successor it has read (succ), the node it   *)
(* holds (idx) and the value it pushes or has popped (val).  The sequences *)
(* in order are history variables: the nodes of each list from its head,   *)
(* updated where a compare-and-swap succeeds and read by no action.        *)
(***************************************************************************)
EXTENDS Integers, Sequences

CONSTANTS
    Threads,
    Values,      \* what is pushed, each once in a behaviour
    NoValue,     \* V{}, the answer of an empty pop
    FirstChunk,  \* 2^kFirstChunkBits, the nodes of chunk 0
    MaxChunks,   \* kMaxChunks
    Nil,         \* kNil
    Generations  \* 2^32: the generation is the upper half of a 64-bit word

\* Chunk k holds FirstChunk * 2^k nodes.
Capacity == FirstChunk * (2 ^ MaxChunks - 1)
Nodes == 0 .. (Capacity - 1)

ASSUME FirstChunkAssumption == FirstChunk \in Nat \ {0}
ASSUME MaxChunksAssumption == MaxChunks \in Nat \ {0}
ASSUME NilAssumption == Nil \notin Nodes
ASSUME NoValueAssumption == NoValue \notin Values
ASSUME GenerationsAssumption == Generations \in Nat \ {0}

Lists == {"ready", "free"}   \* head_ and free_
Ops   == {"push", "pop"}

VARIABLES
    head,    \* head_ and free_: [gen, idx]
    next,    \* Node::next
    value,   \* Node::value
    fresh,   \* nextFresh_
    chunks,  \* the indices k for which chunks_[k] is installed
    size,    \* size_
    unused,  \* values not pushed yet
    pc, op, old, succ, idx, val,
    order    \* history: the nodes of each list, from the head

shared == <<head, next, value, fresh, chunks, size, unused>>
locals == <<op, old, succ, idx, val>>
vars   == <<shared, pc, locals, order>>

PCs == {"idle", "unlinkLoad", "unlinkRead", "unlinkCas", "take", "fresh", "chunk",
        "install", "write", "linkLoad", "linkStore", "linkCas", "count"}

Words == [gen : 0 .. (Generations - 1), idx : Nodes \cup {Nil}]

TypeOK ==
    /\ head \in [Lists -> Words]
    /\ next \in [Nodes -> Nodes \cup {Nil}]
    /\ value \in [Nodes -> Values \cup {NoValue}]
    /\ fresh \in Nat
    /\ chunks \in SUBSET (0 .. (MaxChunks - 1))
    /\ size \in Int
    /\ unused \in SUBSET Values
    /\ pc \in [Threads -> PCs]
    /\ op \in [Threads -> Ops]
    /\ old \in [Threads -> Words]
    /\ succ \in [Threads -> Nodes \cup {Nil}]
    /\ idx \in [Threads -> Nodes \cup {Nil}]
    /\ val \in [Threads -> Values \cup {NoValue}]
    /\ order \in [Lists -> Seq(Nodes)]

Init ==
    /\ head = [l \in Lists |-> [gen |-> 0, idx |-> Nil]]
    /\ next = [n \in Nodes |-> Nil]
    /\ value = [n \in Nodes |-> NoValue]
    /\ fresh = 0
    /\ chunks = {}
    /\ size = 0
    /\ unused = Values
    /\ pc = [t \in Threads |-> "idle"]
    /\ op = [t \in Threads |-> "pop"]
    /\ old = [t \in Threads |-> [gen |-> 0, idx |-> Nil]]
    /\ succ = [t \in Threads |-> Nil]
    /\ idx = [t \in Threads |-> Nil]
    /\ val = [t \in Threads |-> NoValue]
    /\ order = [l \in Lists |-> <<>>]

Goto(t, from, to) == pc[t] = from /\ pc' = [pc EXCEPT ![t] = to]

-----------------------------------------------------------------------------
(* Words and nodes.                                                        *)

\* Mutant: a head without generations.
NextWordUntagged(w, i) == [gen |-> w.gen, idx |-> i]

\* pack(generationOf(old) + 1, i): a generation past the upper half is lost.
NextWord(w, i) == [gen |-> (w.gen + 1) % Generations, idx |-> i]

\* node(): the chunk an index lies in.
ChunkOf(i) ==
    CHOOSE k \in 0 .. (MaxChunks - 1) :
        /\ FirstChunk * 2 ^ k <= i + FirstChunk
        /\ i + FirstChunk < FirstChunk * 2 ^ (k + 1)

\* A push takes a node off the free list and puts it on the stack; a pop the
\* other way round.
Source(t) == IF op[t] = "pop" THEN "ready" ELSE "free"
Sink(t)   == IF op[t] = "pop" THEN "free" ELSE "ready"

-----------------------------------------------------------------------------
(* unlinkFront                                                             *)

\* The test for kNil at the top of the loop: an empty stack ends the pop, an
\* empty free list sends the push to a fresh index.
Loop(t, w) ==
    /\ old' = [old EXCEPT ![t] = w]
    /\ pc' = [pc EXCEPT ![t] = IF w.idx # Nil THEN "unlinkRead"
                               ELSE IF op[t] = "pop" THEN "idle" ELSE "fresh"]

UnlinkLoad(t) ==
    /\ pc[t] = "unlinkLoad"
    /\ Loop(t, head[Source(t)])
    /\ UNCHANGED <<shared, op, succ, idx, val, order>>

\* The link may be stale, or in the middle of being rewritten by the node's
\* present owner.
UnlinkRead(t) ==
    /\ Goto(t, "unlinkRead", "unlinkCas")
    /\ succ' = [succ EXCEPT ![t] = next[old[t].idx]]
    /\ UNCHANGED <<shared, op, old, idx, val, order>>

\* The head is still the word that was read ...
UnlinkCas(t) ==
    /\ Goto(t, "unlinkCas", IF op[t] = "pop" THEN "take" ELSE "write")
    /\ head[Source(t)] = old[t]
    /\ head' = [head EXCEPT ![Source(t)] = NextWord(old[t], succ[t])]
    /\ idx' = [idx EXCEPT ![t] = old[t].idx]
    /\ order' = [order EXCEPT ![Source(t)] = Tail(@)]
    /\ UNCHANGED <<next, value, fresh, chunks, size, unused, op, old, succ, val>>

\* ... or another thread has changed it: start again with the word found.
UnlinkRetry(t) ==
    /\ pc[t] = "unlinkCas"
    /\ head[Source(t)] # old[t]
    /\ Loop(t, head[Source(t)])
    /\ UNCHANGED <<shared, op, succ, idx, val, order>>

-----------------------------------------------------------------------------
(* linkFront                                                               *)

LinkLoad(t) ==
    /\ Goto(t, "linkLoad", "linkStore")
    /\ old' = [old EXCEPT ![t] = head[Sink(t)]]
    /\ UNCHANGED <<shared, op, succ, idx, val, order>>

LinkStore(t) ==
    /\ Goto(t, "linkStore", "linkCas")
    /\ next' = [next EXCEPT ![idx[t]] = old[t].idx]
    /\ UNCHANGED <<head, value, fresh, chunks, size, unused, locals, order>>

LinkCas(t) ==
    /\ Goto(t, "linkCas", "count")
    /\ head[Sink(t)] = old[t]
    /\ head' = [head EXCEPT ![Sink(t)] = NextWord(old[t], idx[t])]
    /\ order' = [order EXCEPT ![Sink(t)] = <<idx[t]>> \o @]
    /\ idx' = [idx EXCEPT ![t] = Nil]
    /\ UNCHANGED <<next, value, fresh, chunks, size, unused, op, old, succ, val>>

LinkRetry(t) ==
    /\ Goto(t, "linkCas", "linkStore")
    /\ head[Sink(t)] # old[t]
    /\ old' = [old EXCEPT ![t] = head[Sink(t)]]
    /\ UNCHANGED <<shared, op, succ, idx, val, order>>

-----------------------------------------------------------------------------
(* push and acquireNode                                                    *)

Push(t, v) ==
    /\ Goto(t, "idle", "unlinkLoad")
    /\ v \in unused
    /\ unused' = unused \ {v}
    /\ op' = [op EXCEPT ![t] = "push"]
    /\ val' = [val EXCEPT ![t] = v]
    /\ UNCHANGED <<head, next, value, fresh, chunks, size, old, succ, idx, order>>

\* nextFresh_.fetch_add(1)
TakeFresh(t) ==
    /\ Goto(t, "fresh", "chunk")
    /\ fresh < Capacity
    /\ fresh' = fresh + 1
    /\ idx' = [idx EXCEPT ![t] = fresh]
    /\ UNCHANGED <<head, next, value, chunks, size, unused, op, old, succ, val, order>>

\* std::bad_alloc: the push fails, the counter has moved on all the same.
BadAlloc(t) ==
    /\ Goto(t, "fresh", "idle")
    /\ fresh >= Capacity
    /\ fresh' = fresh + 1
    /\ UNCHANGED <<head, next, value, chunks, size, unused, locals, order>>

\* Mutant: only the taker of a chunk's first index installs it.
FindChunkFirst(t) ==
    /\ Goto(t, "chunk", IF \E k \in 0 .. (MaxChunks - 1) :
                             idx[t] + FirstChunk = FirstChunk * 2 ^ k
                         THEN "install" ELSE "write")
    /\ UNCHANGED <<shared, locals, order>>

\* Is the chunk of this index there?
FindChunk(t) ==
    /\ Goto(t, "chunk", IF ChunkOf(idx[t]) \in chunks THEN "write" ELSE "install")
    /\ UNCHANGED <<shared, locals, order>>

\* compare_exchange_strong from nullptr; a loser deletes its own chunk.
Install(t) ==
    /\ Goto(t, "install", "write")
    /\ chunks' = chunks \cup {ChunkOf(idx[t])}
    /\ UNCHANGED <<head, next, value, fresh, size, unused, locals, order>>

\* Mutant: a node from the free list keeps its old value.
WriteValueOnce(t) ==
    /\ Goto(t, "write", "linkLoad")
    /\ value' = [value EXCEPT ![idx[t]] = IF @ = NoValue THEN val[t] ELSE @]
    /\ UNCHANGED <<head, next, fresh, chunks, size, unused, locals, order>>

\* The node belongs to this thread alone until it is linked.
WriteValue(t) ==
    /\ Goto(t, "write", "linkLoad")
    /\ value' = [value EXCEPT ![idx[t]] = val[t]]
    /\ UNCHANGED <<head, next, fresh, chunks, size, unused, locals, order>>

-----------------------------------------------------------------------------
(* pop, and the counter at the end of both                                 *)

Pop(t) ==
    /\ Goto(t, "idle", "unlinkLoad")
    /\ op' = [op EXCEPT ![t] = "pop"]
    /\ val' = [val EXCEPT ![t] = NoValue]
    /\ UNCHANGED <<shared, old, succ, idx, order>>

TakeValue(t) ==
    /\ Goto(t, "take", "linkLoad")
    /\ val' = [val EXCEPT ![t] = value[idx[t]]]
    /\ UNCHANGED <<shared, op, old, succ, idx, order>>

Count(t) ==
    /\ Goto(t, "count", "idle")
    /\ size' = size + (IF op[t] = "push" THEN 1 ELSE -1)
    /\ UNCHANGED <<head, next, value, fresh, chunks, unused, locals, order>>

-----------------------------------------------------------------------------
Step(t) ==
    \/ UnlinkLoad(t) \/ UnlinkRead(t) \/ UnlinkCas(t) \/ UnlinkRetry(t)
    \/ LinkLoad(t) \/ LinkStore(t) \/ LinkCas(t) \/ LinkRetry(t)
    \/ TakeFresh(t) \/ BadAlloc(t) \/ FindChunk(t) \/ Install(t) \/ WriteValue(t)
    \/ TakeValue(t) \/ Count(t)

Next ==
    \E t \in Threads : Step(t) \/ Pop(t) \/ \E v \in Values : Push(t, v)

Spec == Init /\ [][Next]_vars

-----------------------------------------------------------------------------
(* Properties.                                                             *)

\* The nodes reached from a head are exactly the history of the list: the head
\* word names its first node, every link names the following one, the last link
\* is kNil.  A compare-and-swap that succeeds on a stale read (ABA) breaks it.
ListsAreWhole ==
    \A l \in Lists :
      LET s == order[l] IN
      /\ head[l].idx = IF s = <<>> THEN Nil ELSE s[1]
      /\ \A i \in 1 .. Len(s) : next[s[i]] = IF i = Len(s) THEN Nil ELSE s[i + 1]

\* The nodes a thread holds: taken off one list and not yet linked on another.
Holding(t) == pc[t] \in {"take", "chunk", "install", "write", "linkLoad",
                          "linkStore", "linkCas"}

\* No node is lost or in two places: every index handed out so far is on the
\* stack, on the free list or held by a thread, once.
NodesArePartitioned ==
    /\ \A l \in Lists : \A i, j \in 1 .. Len(order[l]) :
         order[l][i] = order[l][j] => i = j
    /\ \A i \in 1 .. Len(order["ready"]), j \in 1 .. Len(order["free"]) :
         order["ready"][i] # order["free"][j]
    /\ \A t \in Threads : Holding(t) =>
         /\ \A l \in Lists : \A i \in 1 .. Len(order[l]) : order[l][i] # idx[t]
         /\ \A u \in Threads : Holding(u) /\ idx[u] = idx[t] => u = t
    /\ \A n \in Nodes : n < fresh =>
         \/ \E l \in Lists : \E i \in 1 .. Len(order[l]) : order[l][i] = n
         \/ \E t \in Threads : Holding(t) /\ idx[t] = n

\* Whatever threads push, pop and recycle at once, no list is cut or crossed and no
\* node is lost or handed out twice: what the generation tag of the heads is for.
NodesAreInPlace == ListsAreWhole /\ NodesArePartitioned

\* The node a thread reads or writes next lies in an installed chunk.
Touches(t) == IF pc[t] = "unlinkRead" THEN old[t].idx ELSE idx[t]
NoMissingChunk ==
    \A t \in Threads :
      pc[t] \in {"unlinkRead", "take", "write", "linkStore"}
        => ChunkOf(Touches(t)) \in chunks

-----------------------------------------------------------------------------
(* The stack implements LifoStack.                                         *)

stackBar == [i \in 1 .. Len(order["ready"]) |-> value[order["ready"][i]]]

\* A value is on its way in until the compare-and-swap that links it ...
inBar ==
    [t \in Threads |->
       IF op[t] = "push" /\ pc[t] \notin {"idle", "count"} THEN val[t] ELSE NoValue]

\* ... and on its way out from the compare-and-swap that unlinks it.
outBar ==
    [t \in Threads |->
       IF op[t] # "pop" THEN NoValue
       ELSE IF pc[t] = "take" THEN value[idx[t]]
       ELSE IF pc[t] = "idle" THEN NoValue ELSE val[t]]

Lifo == INSTANCE LifoStack WITH stack <- stackBar, in <- inBar, out <- outBar

\* Pushes and pops of any number of threads behave as if each happened at one
\* moment: nothing is lost, invented or handed out twice, and the order is LIFO.
ImplementsLifoStack == Lifo!Spec
=============================================================================
