-------------------------- MODULE ReadyStackProofs --------------------------
(***************************************************************************)
(* Proofs, for any number of threads, values and nodes, that the lock-free *)
(* stack keeps its nodes in place, touches no node of a chunk that is not  *)
(* there, and is a stack: for as long as the generations last.             *)
(***************************************************************************)
EXTENDS ReadyStack, SequenceTheorems, TLAPS

\* The generation of neither head has come to its last value.  Beyond it the counter wraps
\* round, and a thread that slept through all 2^32 of them may take an old word for the
\* present one; the heads' tag does not exclude that, it makes it rare.
GenerationsLeft == \A l \in Lists : head[l].gen + 1 < Generations

-----------------------------------------------------------------------------
(* The inductive invariant.                                                *)

\* The types of what the links and the lists are made of.
NodeTypes ==
    /\ head \in [Lists -> Words]
    /\ next \in [Nodes -> Nodes \cup {Nil}]
    /\ fresh \in Nat
    /\ pc \in [Threads -> PCs]
    /\ op \in [Threads -> Ops]
    /\ old \in [Threads -> Words]
    /\ succ \in [Threads -> Nodes \cup {Nil}]
    /\ idx \in [Threads -> Nodes \cup {Nil}]
    /\ order \in [Lists -> Seq(Nodes)]

\* What a thread's locals hold at each of its steps.
LocalsOK ==
    \A t \in Threads :
      /\ pc[t] \in {"unlinkRead", "unlinkCas"} => old[t].idx \in Nodes
      /\ Holding(t) => idx[t] \in Nodes /\ idx[t] < fresh
      /\ pc[t] = "take" => op[t] = "pop"
      /\ pc[t] \in {"fresh", "chunk", "install", "write"} => op[t] = "push"

\* The nodes of the lists have been handed out.
HandedOut ==
    \A l \in Lists : \A i \in 1 .. Len(order[l]) : order[l][i] < fresh

\* A word read from a head is no newer than the head, and as long as the head is that
\* word, the successor read after it is the link of its node: the nodes of a list are
\* linked once, by the thread that puts them there.
SuccessorOK ==
    \A t \in Threads :
      /\ pc[t] \in {"unlinkRead", "unlinkCas"} => old[t].gen <= head[Source(t)].gen
      /\ pc[t] = "unlinkCas" /\ head[Source(t)] = old[t] => succ[t] = next[old[t].idx]

\* The node about to be linked points to the node the list will have behind it.
LinkOK == \A t \in Threads : pc[t] = "linkCas" => next[idx[t]] = old[t].idx

\* The nodes in the lists, the ones a thread has made its own and the one it is about to
\* read lie in installed chunks.
ChunksOK ==
    /\ \A l \in Lists : \A i \in 1 .. Len(order[l]) : ChunkOf(order[l][i]) \in chunks
    /\ \A t \in Threads : Holding(t) /\ pc[t] \notin {"chunk", "install"} =>
         ChunkOf(idx[t]) \in chunks
    /\ \A t \in Threads : pc[t] = "unlinkRead" => ChunkOf(old[t].idx) \in chunks

\* The values: of a push until it is linked, of the nodes on the stack, and of a pop from
\* the moment it has unlinked a node.
ValuesOK ==
    /\ value \in [Nodes -> Values \cup {NoValue}]
    /\ val \in [Threads -> Values \cup {NoValue}]
    /\ unused \in SUBSET Values
    /\ \A t \in Threads : op[t] = "push" /\ pc[t] # "idle" => val[t] \in Values
    /\ \A t \in Threads : op[t] = "push" /\ pc[t] \in {"linkLoad", "linkStore", "linkCas"} =>
         value[idx[t]] = val[t]
    /\ \A i \in 1 .. Len(order["ready"]) : value[order["ready"][i]] \in Values
    /\ \A t \in Threads : pc[t] = "take" => value[idx[t]] \in Values
    /\ \A t \in Threads : op[t] = "pop" /\ pc[t] \in {"linkLoad", "linkStore", "linkCas", "count"}
         => val[t] \in Values
    /\ \A t \in Threads : op[t] = "pop" /\ pc[t] \in {"unlinkLoad", "unlinkRead", "unlinkCas"}
         => val[t] = NoValue

StackInv ==
    /\ NodeTypes /\ LocalsOK /\ HandedOut
    /\ ListsAreWhole /\ NodesArePartitioned
    /\ SuccessorOK /\ LinkOK /\ ChunksOK /\ ValuesOK
-----------------------------------------------------------------------------
(* Nodes, words and sequences.                                             *)

\* A node is an index below the capacity.
LEMMA NodesAreIndices ==
    /\ Capacity \in Int
    /\ \A n \in Nodes : n \in Nat /\ n < Capacity
    /\ \A n \in Nat : n < Capacity => n \in Nodes
<1>1. ASSUME NEW k \in Nat PROVE 2 ^ k \in Int
    OBVIOUS
<1>2. Capacity \in Int
    BY <1>1, FirstChunkAssumption, MaxChunksAssumption DEF Capacity
<1> QED
    BY <1>2 DEF Nodes

\* As long as generations are left, a compare-and-swap installs a newer one.
LEMMA NewerWord ==
    ASSUME NodeTypes, GenerationsLeft, NEW l \in Lists, NEW i \in Nodes \cup {Nil}
    PROVE  /\ NextWord(head[l], i) \in Words
           /\ NextWord(head[l], i).idx = i
           /\ NextWord(head[l], i).gen = head[l].gen + 1
<1>1. head[l].gen \in Nat /\ head[l].gen + 1 < Generations
    BY DEF NodeTypes, Words, GenerationsLeft
<1>2. (head[l].gen + 1) % Generations = head[l].gen + 1
    BY <1>1, GenerationsAssumption
<1> QED
    BY <1>1, <1>2, GenerationsAssumption DEF NextWord, Words

\* A list without its first node.
LEMMA TailFacts ==
    ASSUME NEW S, NEW s \in Seq(S), s # <<>>
    PROVE  /\ Tail(s) \in Seq(S)
           /\ Len(s) \in Nat \ {0}
           /\ Len(Tail(s)) = Len(s) - 1
           /\ \A i \in 1 .. Len(Tail(s)) : Tail(s)[i] = s[i + 1]
BY HeadTailProperties, LenProperties, EmptySeq

\* A list with a node in front of it.
LEMMA ConsFacts ==
    ASSUME NEW S, NEW s \in Seq(S), NEW x \in S
    PROVE  /\ <<x>> \o s \in Seq(S)
           /\ Len(s) \in Nat
           /\ Len(<<x>> \o s) = Len(s) + 1
           /\ (<<x>> \o s)[1] = x
           /\ \A i \in 1 .. Len(s) : (<<x>> \o s)[i + 1] = s[i]
<1>1. <<x>> \in Seq(S) /\ Len(<<x>>) = 1 /\ <<x>>[1] = x
    OBVIOUS
<1>2. Len(s) \in Nat
    OBVIOUS
<1> QED
    BY <1>1, <1>2, ConcatProperties

-----------------------------------------------------------------------------
(* The partition of the nodes, by membership.                              *)

On(l, n) == \E i \in 1 .. Len(order[l]) : order[l][i] = n

NoRepeats ==
    \A l \in Lists : \A i, j \in 1 .. Len(order[l]) : order[l][i] = order[l][j] => i = j

Apart ==
    /\ \A n \in Nodes : ~(On("ready", n) /\ On("free", n))
    /\ \A t \in Threads : Holding(t) =>
         /\ \A l \in Lists : ~On(l, idx[t])
         /\ \A u \in Threads : Holding(u) /\ idx[u] = idx[t] => u = t

Accounted ==
    \A n \in Nodes : n < fresh =>
      (\E l \in Lists : On(l, n)) \/ \E t \in Threads : Holding(t) /\ idx[t] = n

\* NodesArePartitioned in these words.
LEMMA ByMembership ==
    NodeTypes => (NodesArePartitioned <=> NoRepeats /\ Apart /\ Accounted)
<1> SUFFICES ASSUME NodeTypes
             PROVE  NodesArePartitioned <=> NoRepeats /\ Apart /\ Accounted
    OBVIOUS
<1>1. \A l \in Lists : \A i \in 1 .. Len(order[l]) : order[l][i] \in Nodes
    BY DEF NodeTypes
<1>2. (\A n \in Nodes : ~(On("ready", n) /\ On("free", n))) <=>
      \A i \in 1 .. Len(order["ready"]), j \in 1 .. Len(order["free"]) :
         order["ready"][i] # order["free"][j]
    BY <1>1 DEF On, Lists
<1> QED
    BY <1>2 DEF NodesArePartitioned, NoRepeats, Apart, Accounted, On

\* The same after a step.
LEMMA ByMembershipNext ==
    NodeTypes' => (NodesArePartitioned' <=> NoRepeats' /\ Apart' /\ Accounted')
BY ByMembership, PTL
-----------------------------------------------------------------------------
(* Types and locals.                                                       *)

\* Every step keeps the words, links, indices and lists in their types.
LEMMA TypesStep ==
    StackInv /\ GenerationsLeft /\ [Next]_vars => NodeTypes'
<1> SUFFICES ASSUME StackInv, GenerationsLeft, [Next]_vars PROVE NodeTypes'
    OBVIOUS
<1> USE DEF Goto, shared, locals, PCs, Ops
<1>0. NodeTypes /\ LocalsOK /\ ListsAreWhole
    BY DEF StackInv
<1>t. \A t \in Threads : Source(t) \in Lists /\ Sink(t) \in Lists
    BY DEF Source, Sink, Lists
<1>w. \A w \in Words : w.idx \in Nodes \cup {Nil}
    BY DEF Words
<1>1. ASSUME NEW t \in Threads, UnlinkLoad(t)
      PROVE  NodeTypes'
    BY <1>1, <1>0, <1>t, <1>w DEF UnlinkLoad, Loop, NodeTypes
<1>2. ASSUME NEW t \in Threads, UnlinkRead(t)
      PROVE  NodeTypes'
  <2>1. next[old[t].idx] \in Nodes \cup {Nil}
    BY <1>2, <1>0 DEF UnlinkRead, NodeTypes, LocalsOK
  <2> QED
    BY <1>2, <2>1, <1>0 DEF UnlinkRead, NodeTypes
<1>3. ASSUME NEW t \in Threads, UnlinkCas(t)
      PROVE  NodeTypes'
  <2>1. order[Source(t)] # <<>> /\ old[t].idx \in Nodes /\ head[Source(t)] = old[t]
    BY <1>3, <1>0, <1>t, NilAssumption DEF UnlinkCas, LocalsOK, ListsAreWhole
  <2>2. Tail(order[Source(t)]) \in Seq(Nodes)
    BY <2>1, <1>0, <1>t, TailFacts DEF NodeTypes
  <2>3. NextWord(old[t], succ[t]) \in Words
    BY <2>1, <1>0, <1>t, NewerWord DEF NodeTypes
  <2> QED
    BY <1>3, <2>1, <2>2, <2>3, <1>0, <1>t DEF UnlinkCas, NodeTypes
<1>4. ASSUME NEW t \in Threads, UnlinkRetry(t)
      PROVE  NodeTypes'
    BY <1>4, <1>0, <1>t, <1>w DEF UnlinkRetry, Loop, NodeTypes
<1>5. ASSUME NEW t \in Threads, LinkLoad(t)
      PROVE  NodeTypes'
    BY <1>5, <1>0, <1>t, <1>w DEF LinkLoad, NodeTypes
<1>6. ASSUME NEW t \in Threads, LinkStore(t)
      PROVE  NodeTypes'
    BY <1>6, <1>0, <1>t, <1>w DEF LinkStore, NodeTypes
<1>7. ASSUME NEW t \in Threads, LinkCas(t)
      PROVE  NodeTypes'
  <2>1. idx[t] \in Nodes
    BY <1>7, <1>0 DEF LinkCas, LocalsOK, Holding
  <2>2. <<idx[t]>> \o order[Sink(t)] \in Seq(Nodes)
    BY <2>1, <1>0, <1>t, ConsFacts DEF NodeTypes
  <2>3. NextWord(old[t], idx[t]) \in Words
    BY <1>7, <2>1, <1>0, <1>t, NewerWord DEF LinkCas, NodeTypes
  <2> QED
    BY <1>7, <2>1, <2>2, <2>3, <1>0, <1>t DEF LinkCas, NodeTypes
<1>8. ASSUME NEW t \in Threads, LinkRetry(t)
      PROVE  NodeTypes'
    BY <1>8, <1>0, <1>t, <1>w DEF LinkRetry, NodeTypes
<1>9. ASSUME NEW t \in Threads, TakeFresh(t)
      PROVE  NodeTypes'
  <2>1. fresh \in Nodes
    BY <1>9, <1>0, NodesAreIndices DEF TakeFresh, NodeTypes
  <2> QED
    BY <1>9, <2>1, <1>0 DEF TakeFresh, NodeTypes
<1>10. ASSUME NEW t \in Threads, BadAlloc(t)
      PROVE  NodeTypes'
    BY <1>10, <1>0, <1>t, <1>w DEF BadAlloc, NodeTypes
<1>11. ASSUME NEW t \in Threads, FindChunk(t)
      PROVE  NodeTypes'
    BY <1>11, <1>0, <1>t, <1>w DEF FindChunk, NodeTypes
<1>12. ASSUME NEW t \in Threads, Install(t)
      PROVE  NodeTypes'
    BY <1>12, <1>0, <1>t, <1>w DEF Install, NodeTypes
<1>13. ASSUME NEW t \in Threads, WriteValue(t)
      PROVE  NodeTypes'
    BY <1>13, <1>0, <1>t, <1>w DEF WriteValue, NodeTypes
<1>14. ASSUME NEW t \in Threads, TakeValue(t)
      PROVE  NodeTypes'
    BY <1>14, <1>0, <1>t, <1>w DEF TakeValue, NodeTypes
<1>15. ASSUME NEW t \in Threads, Count(t)
      PROVE  NodeTypes'
    BY <1>15, <1>0, <1>t, <1>w DEF Count, NodeTypes
<1>16. ASSUME NEW t \in Threads, Pop(t)
      PROVE  NodeTypes'
    BY <1>16, <1>0, <1>t, <1>w DEF Pop, NodeTypes
<1>17. ASSUME NEW t \in Threads, NEW v \in Values, Push(t, v)
      PROVE  NodeTypes'
    BY <1>17, <1>0, <1>t, <1>w DEF Push, NodeTypes
<1>18. CASE UNCHANGED vars
    BY <1>18, <1>0 DEF vars, NodeTypes
<1> QED
    BY <1>1, <1>2, <1>3, <1>4, <1>5, <1>6, <1>7, <1>8, <1>9, <1>10, <1>11, <1>12, <1>13,
       <1>14, <1>15, <1>16, <1>17, <1>18 DEF Next, Step

\* Every step keeps what a thread's locals hold.
LEMMA LocalsStep ==
    StackInv /\ [Next]_vars => LocalsOK'
<1> SUFFICES ASSUME StackInv, [Next]_vars PROVE LocalsOK'
    OBVIOUS
<1> USE DEF Goto, shared, locals, PCs, Ops, Holding
<1>0. NodeTypes /\ LocalsOK
    BY DEF StackInv
<1>t. \A t \in Threads : Source(t) \in Lists /\ Sink(t) \in Lists
    BY DEF Source, Sink, Lists
<1>w. \A w \in Words : w.idx \in Nodes \cup {Nil}
    BY DEF Words
<1>n. \A n \in Nodes : n \in Nat
    BY NodesAreIndices
<1>1. ASSUME NEW t \in Threads, UnlinkLoad(t)
      PROVE  LocalsOK'
    BY <1>1, <1>0, <1>t, <1>w, <1>n DEF UnlinkLoad, Loop, NodeTypes, LocalsOK
<1>2. ASSUME NEW t \in Threads, UnlinkRead(t)
      PROVE  LocalsOK'
    BY <1>2, <1>0, <1>t, <1>w, <1>n DEF UnlinkRead, NodeTypes, LocalsOK
<1>3. ASSUME NEW t \in Threads, UnlinkCas(t)
      PROVE  LocalsOK'
  <2>1. old[t].idx \in Nodes /\ old[t].idx < fresh
    <3>1. order[Source(t)] # <<>> /\ order[Source(t)][1] = old[t].idx
      BY <1>3, <1>0, <1>t, NilAssumption DEF UnlinkCas, LocalsOK, StackInv, ListsAreWhole
    <3> QED
      BY <1>3, <3>1, <1>0, <1>t, LenProperties, EmptySeq DEF UnlinkCas, LocalsOK, NodeTypes,
         StackInv, HandedOut
  <2> QED
    BY <1>3, <2>1, <1>0, <1>n DEF UnlinkCas, NodeTypes, LocalsOK
<1>4. ASSUME NEW t \in Threads, UnlinkRetry(t)
      PROVE  LocalsOK'
    BY <1>4, <1>0, <1>t, <1>w, <1>n DEF UnlinkRetry, Loop, NodeTypes, LocalsOK
<1>5. ASSUME NEW t \in Threads, LinkLoad(t)
      PROVE  LocalsOK'
    BY <1>5, <1>0, <1>t, <1>w, <1>n DEF LinkLoad, NodeTypes, LocalsOK
<1>6. ASSUME NEW t \in Threads, LinkStore(t)
      PROVE  LocalsOK'
    BY <1>6, <1>0, <1>t, <1>w, <1>n DEF LinkStore, NodeTypes, LocalsOK
<1>7. ASSUME NEW t \in Threads, LinkCas(t)
      PROVE  LocalsOK'
    BY <1>7, <1>0, <1>t, <1>w, <1>n DEF LinkCas, NodeTypes, LocalsOK
<1>8. ASSUME NEW t \in Threads, LinkRetry(t)
      PROVE  LocalsOK'
    BY <1>8, <1>0, <1>t, <1>w, <1>n DEF LinkRetry, NodeTypes, LocalsOK
<1>9. ASSUME NEW t \in Threads, TakeFresh(t)
      PROVE  LocalsOK'
  <2>1. fresh \in Nodes
    BY <1>9, <1>0, NodesAreIndices DEF TakeFresh, NodeTypes
  <2>2. \A u \in Threads \ {t} : Holding(u) => idx[u] < fresh + 1
    BY <1>0, <1>n DEF NodeTypes, LocalsOK
  <2>3. fresh < fresh + 1
    BY <1>0 DEF NodeTypes
  <2>4. \A u \in Threads \ {t} : pc'[u] = pc[u] /\ idx'[u] = idx[u]
    BY <1>9, <1>0 DEF TakeFresh, NodeTypes
  <2>5. pc'[t] = "chunk" /\ idx'[t] = fresh /\ fresh' = fresh + 1 /\ op' = op /\ old' = old
    BY <1>9, <1>0 DEF TakeFresh, NodeTypes
  <2>6. op[t] = "push"
    BY <1>9, <1>0 DEF TakeFresh, LocalsOK
  <2> QED
    BY <2>1, <2>2, <2>3, <2>4, <2>5, <2>6, <1>0 DEF LocalsOK
<1>10. ASSUME NEW t \in Threads, BadAlloc(t)
      PROVE  LocalsOK'
    BY <1>10, <1>0, <1>t, <1>w, <1>n DEF BadAlloc, NodeTypes, LocalsOK
<1>11. ASSUME NEW t \in Threads, FindChunk(t)
      PROVE  LocalsOK'
    BY <1>11, <1>0, <1>t, <1>w, <1>n DEF FindChunk, NodeTypes, LocalsOK
<1>12. ASSUME NEW t \in Threads, Install(t)
      PROVE  LocalsOK'
    BY <1>12, <1>0, <1>t, <1>w, <1>n DEF Install, NodeTypes, LocalsOK
<1>13. ASSUME NEW t \in Threads, WriteValue(t)
      PROVE  LocalsOK'
    BY <1>13, <1>0, <1>t, <1>w, <1>n DEF WriteValue, NodeTypes, LocalsOK
<1>14. ASSUME NEW t \in Threads, TakeValue(t)
      PROVE  LocalsOK'
    BY <1>14, <1>0, <1>t, <1>w, <1>n DEF TakeValue, NodeTypes, LocalsOK
<1>15. ASSUME NEW t \in Threads, Count(t)
      PROVE  LocalsOK'
    BY <1>15, <1>0, <1>t, <1>w, <1>n DEF Count, NodeTypes, LocalsOK
<1>16. ASSUME NEW t \in Threads, Pop(t)
      PROVE  LocalsOK'
    BY <1>16, <1>0, <1>t, <1>w, <1>n DEF Pop, NodeTypes, LocalsOK
<1>17. ASSUME NEW t \in Threads, NEW v \in Values, Push(t, v)
      PROVE  LocalsOK'
    BY <1>17, <1>0, <1>t, <1>w, <1>n DEF Push, NodeTypes, LocalsOK
<1>18. CASE UNCHANGED vars
    BY <1>18, <1>0 DEF vars, LocalsOK
<1> QED
    BY <1>1, <1>2, <1>3, <1>4, <1>5, <1>6, <1>7, <1>8, <1>9, <1>10, <1>11, <1>12, <1>13,
       <1>14, <1>15, <1>16, <1>17, <1>18 DEF Next, Step

-----------------------------------------------------------------------------
(* Nodes in their places.                                                  *)

\* A step that moves no node.
Quiet ==
    /\ UNCHANGED <<head, next, order, idx>>
    /\ \A t \in Threads : Holding(t)' <=> Holding(t)
    /\ fresh' >= fresh
    /\ \A n \in Nodes : n < fresh' <=> n < fresh

\* It leaves all of them in their places.
LEMMA QuietKeeps ==
    ASSUME NodeTypes, NodeTypes', Quiet, ListsAreWhole, NodesArePartitioned, HandedOut
    PROVE  ListsAreWhole' /\ NodesArePartitioned' /\ HandedOut'
<1>1. ListsAreWhole'
    BY DEF Quiet, ListsAreWhole
<1>2. NodesArePartitioned'
    BY DEF Quiet, NodesArePartitioned
<1>3. HandedOut'
  <2>1. \A l \in Lists : \A i \in 1 .. Len(order[l]) : order[l][i] \in Nodes
    BY DEF NodeTypes
  <2> QED
    BY <2>1 DEF Quiet, HandedOut
<1> QED
    BY <1>1, <1>2, <1>3

Places == ListsAreWhole /\ NodesArePartitioned /\ HandedOut

\* unlinkFront's compare-and-swap takes the first node off its list, and the link read
\* from that node is where the list goes on.
LEMMA UnlinkPlaces ==
    ASSUME StackInv, GenerationsLeft, NodeTypes', NEW t \in Threads, UnlinkCas(t)
    PROVE  Places'
<1>0. NodeTypes /\ LocalsOK /\ ListsAreWhole /\ HandedOut /\ SuccessorOK
    BY DEF StackInv
<1>1. PICK l \in Lists : l = Source(t)
    BY DEF Source, Lists
<1>2. PICK s \in Seq(Nodes) : s = order[l]
    BY <1>0 DEF NodeTypes
<1>3. PICK f \in Nodes : f = old[t].idx
    BY <1>0 DEF UnlinkCas, Goto, LocalsOK
<1>4. head[l] = old[t] /\ head[l].idx = f /\ succ[t] = next[f]
    BY <1>0, <1>1, <1>3 DEF UnlinkCas, Goto, SuccessorOK
<1>5. s # <<>> /\ s[1] = f
    BY <1>0, <1>2, <1>4, NilAssumption DEF ListsAreWhole
<1>6. PICK r \in Seq(Nodes) :
        /\ r = Tail(s) /\ Len(s) \in Nat \ {0} /\ Len(r) \in Nat /\ Len(r) = Len(s) - 1
        /\ \A i \in 1 .. Len(r) : r[i] = s[i + 1]
    BY <1>5, TailFacts, LenProperties
<1>7. /\ order' = [order EXCEPT ![l] = r]
      /\ head'[l].idx = succ[t] /\ \A m \in Lists \ {l} : head'[m] = head[m]
      /\ next' = next /\ fresh' = fresh
    BY <1>0, <1>1, <1>2, <1>4, <1>6, NewerWord DEF UnlinkCas, NodeTypes, shared
<1>8. order'[l] = r /\ \A m \in Lists \ {l} : order'[m] = order[m]
    BY <1>0, <1>7 DEF NodeTypes
<1>9. ListsAreWhole'
  <2>0. Len(s) \in Nat \ {0} /\ Len(r) \in Nat /\ Len(s) = Len(r) + 1
    BY <1>6
  <2>1. \A i \in 1 .. Len(s) : next[s[i]] = IF i = Len(s) THEN Nil ELSE s[i + 1]
    BY <1>0, <1>2 DEF ListsAreWhole
  <2>2. succ[t] = IF r = <<>> THEN Nil ELSE r[1]
    <3>1. CASE r = <<>>
      <4>1. Len(s) = 1
        BY <2>0, <3>1
      <4> QED
        BY <1>4, <1>5, <2>1, <3>1, <4>1
    <3>2. CASE r # <<>>
      <4>1. Len(r) # 0
        BY <3>2, EmptySeq
      <4>2. 1 \in 1 .. Len(r) /\ 1 \in 1 .. Len(s) /\ 1 # Len(s)
        BY <1>6, <4>1
      <4> QED
        BY <1>4, <1>5, <1>6, <2>1, <3>2, <4>2
    <3> QED
      BY <3>1, <3>2
  <2>3. ASSUME NEW i \in 1 .. Len(r)
        PROVE  next[r[i]] = IF i = Len(r) THEN Nil ELSE r[i + 1]
    <3>1. i + 1 \in 1 .. Len(s) /\ r[i] = s[i + 1]
      BY <1>6
    <3>2. next[r[i]] = IF i + 1 = Len(s) THEN Nil ELSE s[(i + 1) + 1]
      BY <2>1, <3>1
    <3>3. CASE i = Len(r)
      BY <1>6, <3>2, <3>3
    <3>4. CASE i # Len(r)
      <4>1. i + 1 \in 1 .. Len(r) /\ i + 1 # Len(s)
        BY <2>0, <3>4
      <4>2. r[i + 1] = s[(i + 1) + 1]
        BY <1>6, <4>1
      <4> QED
        BY <3>2, <3>4, <4>1, <4>2
    <3> QED
      BY <3>3, <3>4
  <2>4. ASSUME NEW m \in Lists \ {l}
        PROVE  /\ head'[m].idx = IF order'[m] = <<>> THEN Nil ELSE order'[m][1]
               /\ \A i \in 1 .. Len(order'[m]) :
                    next'[order'[m][i]] = IF i = Len(order'[m]) THEN Nil ELSE order'[m][i + 1]
    BY <1>0, <1>7, <1>8 DEF ListsAreWhole
  <2>5. /\ head'[l].idx = IF order'[l] = <<>> THEN Nil ELSE order'[l][1]
        /\ \A i \in 1 .. Len(order'[l]) :
             next'[order'[l][i]] = IF i = Len(order'[l]) THEN Nil ELSE order'[l][i + 1]
    BY <1>7, <1>8, <2>2, <2>3
  <2> QED
    BY <2>4, <2>5 DEF ListsAreWhole
<1>10. HandedOut'
    BY <1>0, <1>2, <1>6, <1>7, <1>8 DEF HandedOut
<1>11. NoRepeats /\ Apart /\ Accounted
    BY <1>0, ByMembership DEF StackInv
<1>12. NoRepeats'
  <2>1. \A i, j \in 1 .. Len(s) : s[i] = s[j] => i = j
    BY <1>2, <1>11 DEF NoRepeats
  <2>2. ASSUME NEW i \in 1 .. Len(r), NEW j \in 1 .. Len(r), r[i] = r[j]
        PROVE  i = j
    <3>1. i + 1 \in 1 .. Len(s) /\ j + 1 \in 1 .. Len(s) /\ s[i + 1] = s[j + 1]
      BY <1>6, <2>2
    <3> QED
      BY <2>1, <3>1
  <2> QED
    BY <1>8, <1>11, <2>2 DEF NoRepeats
<1>13. /\ \A n \in Nodes : On(l, n)' <=> On(l, n) /\ n # f
       /\ \A m \in Lists \ {l}, n \in Nodes : On(m, n)' <=> On(m, n)
  <2>1. ASSUME NEW n \in Nodes PROVE On(l, n)' <=> On(l, n) /\ n # f
    <3>1. ASSUME NEW i \in 1 .. Len(r), r[i] = n
          PROVE  s[i + 1] = n /\ n # s[1] /\ i + 1 \in 1 .. Len(s)
      BY <1>2, <1>6, <1>11, <3>1 DEF NoRepeats
    <3>2. ASSUME NEW i \in 1 .. Len(s), s[i] = n, n # s[1]
          PROVE  i - 1 \in 1 .. Len(r) /\ r[i - 1] = n
      BY <1>6, <3>2
    <3> QED
      BY <1>2, <1>5, <1>8, <3>1, <3>2 DEF On
  <2>2. ASSUME NEW m \in Lists \ {l}, NEW n \in Nodes PROVE On(m, n)' <=> On(m, n)
    BY <1>8 DEF On
  <2> QED
    BY <2>1, <2>2
<1>14. /\ ~Holding(t) /\ Holding(t)' /\ idx'[t] = f
       /\ \A u \in Threads \ {t} : (Holding(u)' <=> Holding(u)) /\ idx'[u] = idx[u]
    BY <1>0, <1>3 DEF UnlinkCas, Goto, NodeTypes, Holding
<1>15. On(l, f) /\ \A m \in Lists \ {l} : ~On(m, f)
  <2>1. On(l, f)
    BY <1>2, <1>5, <1>6 DEF On
  <2> QED
    BY <1>11, <2>1 DEF Apart, Lists
<1>16. \A u \in Threads \ {t} : Holding(u) =>
         idx[u] \in Nodes /\ idx[u] # f /\ \A m \in Lists : ~On(m, idx[u])
    BY <1>0, <1>11, <1>15 DEF LocalsOK, Apart
<1>17. Apart'
  <2>1. ASSUME NEW n \in Nodes PROVE ~(On("ready", n) /\ On("free", n))'
    BY <1>11, <1>13 DEF Apart, Lists
  <2>2. \A m \in Lists : ~On(m, f)'
    BY <1>13, <1>15
  <2>3. ASSUME NEW u \in Threads, Holding(u)'
        PROVE  \A m \in Lists : ~On(m, idx[u])'
    <3>1. PICK n \in Nodes : n = idx'[u]
      BY <1>14, <1>16, <2>3
    <3>2. \A m \in Lists : ~On(m, n)'
      BY <1>13, <1>14, <1>16, <2>2, <2>3, <3>1
    <3> QED
      BY <3>1, <3>2 DEF On
  <2>4. ASSUME NEW u \in Threads, Holding(u)', NEW w \in Threads, Holding(w)', idx'[w] = idx'[u]
        PROVE  w = u
    BY <1>11, <1>14, <1>16, <2>4 DEF Apart
  <2> QED
    BY <2>1, <2>3, <2>4 DEF Apart
<1>18. Accounted'
    BY <1>7, <1>11, <1>13, <1>14 DEF Accounted
<1> QED
    BY <1>9, <1>10, <1>12, <1>17, <1>18, ByMembershipNext DEF Places

\* linkFront's store is to a node that is on no list.
LEMMA LinkStorePlaces ==
    ASSUME StackInv, NodeTypes', NEW t \in Threads, LinkStore(t)
    PROVE  Places'
<1>0. NodeTypes /\ LocalsOK /\ ListsAreWhole /\ HandedOut /\ NodesArePartitioned
    BY DEF StackInv
<1>1. /\ Holding(t) /\ idx[t] \in Nodes
      /\ UNCHANGED <<head, order, idx, fresh>>
      /\ \A n \in Nodes \ {idx[t]} : next'[n] = next[n]
      /\ \A u \in Threads : Holding(u)' <=> Holding(u)
    BY <1>0 DEF LinkStore, Goto, shared, locals, NodeTypes, LocalsOK, Holding
<1>2. \A l \in Lists : \A i \in 1 .. Len(order[l]) :
        order[l][i] \in Nodes /\ next'[order[l][i]] = next[order[l][i]]
    BY <1>0, <1>1 DEF NodeTypes, NodesArePartitioned
<1>3. ListsAreWhole'
    BY <1>0, <1>1, <1>2 DEF ListsAreWhole
<1>4. NodesArePartitioned' /\ HandedOut'
    BY <1>0, <1>1 DEF NodesArePartitioned, HandedOut
<1> QED
    BY <1>3, <1>4 DEF Places

\* linkFront's compare-and-swap puts the thread's node in front of the list it points to.
LEMMA LinkPlaces ==
    ASSUME StackInv, GenerationsLeft, NodeTypes', NEW t \in Threads, LinkCas(t)
    PROVE  Places'
<1>0. NodeTypes /\ LocalsOK /\ ListsAreWhole /\ HandedOut /\ LinkOK
    BY DEF StackInv
<1>1. PICK l \in Lists : l = Sink(t)
    BY DEF Sink, Lists
<1>2. PICK s \in Seq(Nodes) : s = order[l]
    BY <1>0 DEF NodeTypes
<1>3. PICK f \in Nodes : f = idx[t] /\ f < fresh
    BY <1>0 DEF LinkCas, Goto, LocalsOK, Holding
<1>4. head[l] = old[t] /\ next[f] = head[l].idx
    BY <1>0, <1>1, <1>3 DEF LinkCas, Goto, LinkOK
<1>5. PICK r \in Seq(Nodes) :
        /\ r = <<f>> \o s /\ Len(s) \in Nat /\ Len(r) = Len(s) + 1 /\ r[1] = f
        /\ \A i \in 1 .. Len(s) : r[i + 1] = s[i]
  <2> DEFINE q == <<f>> \o s
  <2>1. /\ q \in Seq(Nodes) /\ Len(s) \in Nat /\ Len(q) = Len(s) + 1 /\ q[1] = f
        /\ \A i \in 1 .. Len(s) : q[i + 1] = s[i]
    BY ConsFacts
  <2>2. q = <<f>> \o s
    OBVIOUS
  <2> HIDE DEF q
  <2> QED
    BY <2>1, <2>2
<1>6. /\ order' = [order EXCEPT ![l] = r]
      /\ head'[l].idx = f /\ \A m \in Lists \ {l} : head'[m] = head[m]
      /\ next' = next /\ fresh' = fresh
    BY <1>0, <1>1, <1>2, <1>3, <1>4, <1>5, NewerWord DEF LinkCas, NodeTypes, shared
<1>7. order'[l] = r /\ \A m \in Lists \ {l} : order'[m] = order[m]
    BY <1>0, <1>6 DEF NodeTypes
<1>8. Len(s) \in Nat /\ Len(r) \in Nat /\ Len(r) = Len(s) + 1
    BY <1>5
<1>9. ListsAreWhole'
  <2>1. /\ head[l].idx = IF s = <<>> THEN Nil ELSE s[1]
        /\ \A i \in 1 .. Len(s) : next[s[i]] = IF i = Len(s) THEN Nil ELSE s[i + 1]
    BY <1>0, <1>2 DEF ListsAreWhole
  <2>2. ASSUME NEW i \in 1 .. Len(r)
        PROVE  next[r[i]] = IF i = Len(r) THEN Nil ELSE r[i + 1]
    <3>1. CASE i = 1
      <4>1. CASE s = <<>>
        <5>1. Len(r) = 1
          BY <1>8, <4>1, EmptySeq
        <5> QED
          BY <1>4, <1>5, <2>1, <3>1, <4>1, <5>1
      <4>2. CASE s # <<>>
        <5>1. Len(s) # 0
          BY <4>2, EmptySeq
        <5>2. 1 \in 1 .. Len(s) /\ 1 # Len(r)
          BY <1>8, <5>1
        <5> QED
          BY <1>4, <1>5, <2>1, <3>1, <4>2, <5>2
      <4> QED
        BY <4>1, <4>2
    <3>2. CASE i # 1
      <4>1. PICK j \in 1 .. Len(s) : i = j + 1
        <5>1. i - 1 \in 1 .. Len(s) /\ i = (i - 1) + 1
          BY <1>8, <3>2
        <5> QED
          BY <5>1
      <4>2. r[i] = s[j] /\ next[r[i]] = IF j = Len(s) THEN Nil ELSE s[j + 1]
        BY <1>5, <2>1, <4>1
      <4>3. CASE j = Len(s)
        BY <1>8, <4>1, <4>2, <4>3
      <4>4. CASE j # Len(s)
        <5>1. j + 1 \in 1 .. Len(s) /\ i # Len(r)
          BY <1>8, <4>1, <4>4
        <5>2. r[i + 1] = s[j + 1]
          BY <1>5, <4>1, <5>1
        <5> QED
          BY <4>2, <4>4, <5>1, <5>2
      <4> QED
        BY <4>3, <4>4
    <3> QED
      BY <3>1, <3>2
  <2>3. ASSUME NEW m \in Lists \ {l}
        PROVE  /\ head'[m].idx = IF order'[m] = <<>> THEN Nil ELSE order'[m][1]
               /\ \A i \in 1 .. Len(order'[m]) :
                    next'[order'[m][i]] = IF i = Len(order'[m]) THEN Nil ELSE order'[m][i + 1]
    BY <1>0, <1>6, <1>7 DEF ListsAreWhole
  <2>4. r # <<>>
    BY <1>8
  <2>5. /\ head'[l].idx = IF order'[l] = <<>> THEN Nil ELSE order'[l][1]
        /\ \A i \in 1 .. Len(order'[l]) :
             next'[order'[l][i]] = IF i = Len(order'[l]) THEN Nil ELSE order'[l][i + 1]
    BY <1>5, <1>6, <1>7, <2>2, <2>4
  <2> QED
    BY <2>3, <2>5 DEF ListsAreWhole
<1>10. \A i \in 1 .. Len(r) : r[i] = f \/ \E j \in 1 .. Len(s) : r[i] = s[j] /\ i = j + 1
  <2> TAKE i \in 1 .. Len(r)
  <2>1. CASE i = 1
    BY <1>5, <2>1
  <2>2. CASE i # 1
    <3>1. i - 1 \in 1 .. Len(s) /\ i = (i - 1) + 1
      BY <1>8, <2>2
    <3>2. r[i] = s[i - 1]
      BY <1>5, <3>1
    <3> QED
      BY <3>1, <3>2
  <2> QED
    BY <2>1, <2>2
<1>11. HandedOut'
    BY <1>0, <1>2, <1>3, <1>6, <1>7, <1>10 DEF HandedOut
<1>12. NoRepeats /\ Apart /\ Accounted
    BY <1>0, ByMembership DEF StackInv
<1>13. Holding(t) /\ \A m \in Lists : ~On(m, f)
    BY <1>3, <1>12 DEF Apart, LinkCas, Goto, Holding
<1>14. NoRepeats'
  <2>1. \A i, j \in 1 .. Len(s) : s[i] = s[j] => i = j
    BY <1>2, <1>12 DEF NoRepeats
  <2>2. \A j \in 1 .. Len(s) : s[j] # f
    BY <1>2, <1>13 DEF On
  <2>3. \A i \in 1 .. Len(r) : r[i] = f => i = 1
    <3>1. ASSUME NEW i \in 1 .. Len(r), i # 1 PROVE r[i] # f
      <4>1. i - 1 \in 1 .. Len(s) /\ i = (i - 1) + 1
        BY <1>8, <3>1
      <4> QED
        BY <1>5, <2>2, <4>1
    <3> QED
      BY <3>1
  <2>4. ASSUME NEW i \in 1 .. Len(r), NEW j \in 1 .. Len(r), r[i] = r[j]
        PROVE  i = j
    <3>1. CASE r[i] = f
      BY <2>3, <2>4, <3>1
    <3>2. CASE r[i] # f
      BY <1>10, <2>1, <2>4, <3>2
    <3> QED
      BY <3>1, <3>2
  <2> QED
    BY <1>7, <1>12, <2>4 DEF NoRepeats
<1>15. /\ \A n \in Nodes : On(l, n)' <=> On(l, n) \/ n = f
       /\ \A m \in Lists \ {l}, n \in Nodes : On(m, n)' <=> On(m, n)
  <2>1. ASSUME NEW n \in Nodes PROVE On(l, n)' <=> On(l, n) \/ n = f
    <3>1. ASSUME NEW j \in 1 .. Len(s), s[j] = n
          PROVE  j + 1 \in 1 .. Len(r) /\ r[j + 1] = n
      BY <1>5, <3>1
    <3>2. 1 \in 1 .. Len(r) /\ r[1] = f
      BY <1>5, <1>8
    <3> QED
      BY <1>2, <1>7, <1>10, <3>1, <3>2 DEF On
  <2>2. ASSUME NEW m \in Lists \ {l}, NEW n \in Nodes PROVE On(m, n)' <=> On(m, n)
    BY <1>7 DEF On
  <2> QED
    BY <2>1, <2>2
<1>16. /\ ~Holding(t)'
       /\ \A u \in Threads \ {t} : (Holding(u)' <=> Holding(u)) /\ idx'[u] = idx[u]
    BY <1>0 DEF LinkCas, Goto, NodeTypes, Holding
<1>17. \A u \in Threads \ {t} : Holding(u) =>
         idx[u] \in Nodes /\ idx[u] # f /\ \A m \in Lists : ~On(m, idx[u])
    BY <1>0, <1>3, <1>12, <1>13 DEF LocalsOK, Apart
<1>18. Apart'
  <2>1. ASSUME NEW n \in Nodes PROVE ~(On("ready", n) /\ On("free", n))'
    BY <1>12, <1>13, <1>15 DEF Apart, Lists
  <2>2. ASSUME NEW u \in Threads, Holding(u)'
        PROVE  \A m \in Lists : ~On(m, idx[u])'
    <3>1. PICK n \in Nodes : n = idx'[u]
      BY <1>16, <1>17, <2>2
    <3>2. \A m \in Lists : ~On(m, n)'
      BY <1>15, <1>16, <1>17, <2>2, <3>1
    <3> QED
      BY <3>1, <3>2 DEF On
  <2>3. ASSUME NEW u \in Threads, Holding(u)', NEW w \in Threads, Holding(w)', idx'[w] = idx'[u]
        PROVE  w = u
    BY <1>12, <1>16, <1>17, <2>3 DEF Apart
  <2> QED
    BY <2>1, <2>2, <2>3 DEF Apart
<1>19. Accounted'
    BY <1>3, <1>6, <1>12, <1>15, <1>16 DEF Accounted
<1> QED
    BY <1>9, <1>11, <1>14, <1>18, <1>19, ByMembershipNext DEF Places

\* A fresh index is on no list and nobody else's.
LEMMA FreshPlaces ==
    ASSUME StackInv, NodeTypes', NEW t \in Threads, TakeFresh(t)
    PROVE  Places'
<1>0. NodeTypes /\ LocalsOK /\ ListsAreWhole /\ HandedOut
    BY DEF StackInv
<1>1. fresh \in Nodes /\ fresh \in Nat
    BY <1>0, NodesAreIndices DEF TakeFresh, NodeTypes
<1>2. UNCHANGED <<head, next, order>> /\ fresh' = fresh + 1
    BY DEF TakeFresh
<1>3. /\ ~Holding(t) /\ Holding(t)' /\ idx'[t] = fresh
      /\ \A u \in Threads \ {t} : (Holding(u)' <=> Holding(u)) /\ idx'[u] = idx[u]
    BY <1>0 DEF TakeFresh, Goto, NodeTypes, Holding
<1>4. \A l \in Lists : \A i \in 1 .. Len(order[l]) : order[l][i] \in Nat /\ order[l][i] < fresh
    BY <1>0, NodesAreIndices DEF HandedOut, NodeTypes
<1>5. \A u \in Threads \ {t} : Holding(u) => idx[u] \in Nat /\ idx[u] < fresh
    BY <1>0, NodesAreIndices DEF LocalsOK
<1>6. ListsAreWhole'
    BY <1>0, <1>2 DEF ListsAreWhole
<1>7. HandedOut'
    BY <1>1, <1>2, <1>4 DEF HandedOut
<1>8. NoRepeats /\ Apart /\ Accounted
    BY <1>0, ByMembership DEF StackInv
<1>9. NoRepeats' /\ \A l \in Lists, n \in Nodes : On(l, n)' <=> On(l, n)
    BY <1>2, <1>8 DEF NoRepeats, On
<1>10. \A l \in Lists : ~On(l, fresh)
    BY <1>1, <1>4 DEF On
<1>11. \A u \in Threads \ {t} : Holding(u) => idx[u] # fresh
    BY <1>1, <1>5
<1>12. Apart'
  <2>1. \A n \in Nodes : ~(On("ready", n) /\ On("free", n))'
    BY <1>8, <1>9 DEF Apart, Lists
  <2>2. ASSUME NEW u \in Threads, Holding(u)'
        PROVE  \A m \in Lists : ~On(m, idx[u])'
    <3>1. \A m \in Lists : ~On(m, idx'[u])
      BY <1>3, <1>8, <1>10, <2>2 DEF Apart
    <3> QED
      BY <1>2, <3>1 DEF On
  <2>3. ASSUME NEW u \in Threads, Holding(u)', NEW w \in Threads, Holding(w)', idx'[w] = idx'[u]
        PROVE  w = u
    BY <1>3, <1>8, <1>11, <2>3 DEF Apart
  <2> QED
    BY <2>1, <2>2, <2>3 DEF Apart
<1>13. Accounted'
  <2>1. \A n \in Nodes : n < fresh + 1 => n < fresh \/ n = fresh
    BY <1>1, NodesAreIndices
  <2> QED
    BY <1>2, <1>3, <1>8, <1>9, <2>1 DEF Accounted
<1> QED
    BY <1>6, <1>7, <1>9, <1>12, <1>13, ByMembershipNext DEF Places

\* No step moves a node but to its place.
LEMMA PlacesStep ==
    StackInv /\ GenerationsLeft /\ [Next]_vars => Places'
<1> SUFFICES ASSUME StackInv, GenerationsLeft, [Next]_vars PROVE Places'
    OBVIOUS
<1>t. NodeTypes /\ NodeTypes' /\ LocalsOK
    BY TypesStep DEF StackInv
<1>n. fresh \in Nat
    BY <1>t DEF NodeTypes
<1>q. ASSUME Quiet PROVE Places'
    BY <1>q, <1>t, QuietKeeps DEF Places, StackInv
<1>1. ASSUME NEW t \in Threads, UnlinkLoad(t)
      PROVE  Places'
  <2>1. Quiet
    BY <1>1, <1>t, <1>n DEF UnlinkLoad, Loop, Quiet, Holding, Goto, shared, locals, NodeTypes
  <2> QED
    BY <1>q, <2>1
<1>2. ASSUME NEW t \in Threads, UnlinkRead(t)
      PROVE  Places'
  <2>1. Quiet
    BY <1>2, <1>t, <1>n DEF UnlinkRead, Quiet, Holding, Goto, shared, locals, NodeTypes
  <2> QED
    BY <1>q, <2>1
<1>3. ASSUME NEW t \in Threads, UnlinkCas(t)
      PROVE  Places'
    BY <1>3, <1>t, UnlinkPlaces
<1>4. ASSUME NEW t \in Threads, UnlinkRetry(t)
      PROVE  Places'
  <2>1. Quiet
    BY <1>4, <1>t, <1>n DEF UnlinkRetry, Loop, Quiet, Holding, Goto, shared, locals, NodeTypes
  <2> QED
    BY <1>q, <2>1
<1>5. ASSUME NEW t \in Threads, LinkLoad(t)
      PROVE  Places'
  <2>1. Quiet
    BY <1>5, <1>t, <1>n DEF LinkLoad, Quiet, Holding, Goto, shared, locals, NodeTypes
  <2> QED
    BY <1>q, <2>1
<1>6. ASSUME NEW t \in Threads, LinkStore(t)
      PROVE  Places'
    BY <1>6, <1>t, LinkStorePlaces
<1>7. ASSUME NEW t \in Threads, LinkCas(t)
      PROVE  Places'
    BY <1>7, <1>t, LinkPlaces
<1>8. ASSUME NEW t \in Threads, LinkRetry(t)
      PROVE  Places'
  <2>1. Quiet
    BY <1>8, <1>t, <1>n DEF LinkRetry, Quiet, Holding, Goto, shared, locals, NodeTypes
  <2> QED
    BY <1>q, <2>1
<1>9. ASSUME NEW t \in Threads, TakeFresh(t)
      PROVE  Places'
    BY <1>9, <1>t, FreshPlaces
<1>10. ASSUME NEW t \in Threads, BadAlloc(t)
      PROVE  Places'
  <2>1. \A n \in Nodes : n < fresh' <=> n < fresh
    BY <1>10, <1>n, NodesAreIndices DEF BadAlloc
  <2>2. Quiet
    BY <1>10, <1>t, <1>n, <2>1 DEF BadAlloc, Quiet, Holding, Goto, locals, NodeTypes
  <2> QED
    BY <1>q, <2>2
<1>11. ASSUME NEW t \in Threads, FindChunk(t)
      PROVE  Places'
  <2>1. Quiet
    BY <1>11, <1>t, <1>n DEF FindChunk, Quiet, Holding, Goto, shared, locals, NodeTypes
  <2> QED
    BY <1>q, <2>1
<1>12. ASSUME NEW t \in Threads, Install(t)
      PROVE  Places'
  <2>1. Quiet
    BY <1>12, <1>t, <1>n DEF Install, Quiet, Holding, Goto, shared, locals, NodeTypes
  <2> QED
    BY <1>q, <2>1
<1>13. ASSUME NEW t \in Threads, WriteValue(t)
      PROVE  Places'
  <2>1. Quiet
    BY <1>13, <1>t, <1>n DEF WriteValue, Quiet, Holding, Goto, shared, locals, NodeTypes
  <2> QED
    BY <1>q, <2>1
<1>14. ASSUME NEW t \in Threads, TakeValue(t)
      PROVE  Places'
  <2>1. Quiet
    BY <1>14, <1>t, <1>n DEF TakeValue, Quiet, Holding, Goto, shared, locals, NodeTypes
  <2> QED
    BY <1>q, <2>1
<1>15. ASSUME NEW t \in Threads, Count(t)
      PROVE  Places'
  <2>1. Quiet
    BY <1>15, <1>t, <1>n DEF Count, Quiet, Holding, Goto, shared, locals, NodeTypes
  <2> QED
    BY <1>q, <2>1
<1>16. ASSUME NEW t \in Threads, Pop(t)
      PROVE  Places'
  <2>1. Quiet
    BY <1>16, <1>t, <1>n DEF Pop, Quiet, Holding, Goto, shared, locals, NodeTypes
  <2> QED
    BY <1>q, <2>1
<1>17. ASSUME NEW t \in Threads, NEW v \in Values, Push(t, v)
      PROVE  Places'
  <2>1. Quiet
    BY <1>17, <1>t, <1>n DEF Push, Quiet, Holding, Goto, shared, locals, NodeTypes
  <2> QED
    BY <1>q, <2>1
<1>18. CASE UNCHANGED vars
  <2>1. Quiet
    BY <1>18, <1>n DEF vars, Quiet, Holding, shared, locals
  <2> QED
    BY <1>q, <2>1
<1> QED
    BY <1>1, <1>2, <1>3, <1>4, <1>5, <1>6, <1>7, <1>8, <1>9, <1>10, <1>11, <1>12, <1>13,
       <1>14, <1>15, <1>16, <1>17, <1>18 DEF Next, Step

-----------------------------------------------------------------------------
(* What the two compare-and-swaps do to the lists and to the heads.        *)

\* unlinkFront takes the first node of the list the thread has looked at.
LEMMA UnlinkMoves ==
    ASSUME StackInv, GenerationsLeft, NEW t \in Threads, UnlinkCas(t)
    PROVE  /\ order[Source(t)] # <<>> /\ 1 \in 1 .. Len(order[Source(t)])
           /\ order[Source(t)][1] = old[t].idx
           /\ order' = [order EXCEPT ![Source(t)] = Tail(@)]
           /\ \A l \in Lists : \A i \in 1 .. Len(order'[l]) :
                \E j \in 1 .. Len(order[l]) : order'[l][i] = order[l][j]
           /\ head'[Source(t)].gen > head[Source(t)].gen
           /\ \A l \in Lists \ {Source(t)} : head'[l] = head[l]
<1>0. NodeTypes /\ LocalsOK /\ ListsAreWhole
    BY DEF StackInv
<1>1. PICK l \in Lists : l = Source(t)
    BY DEF Source, Lists
<1>2. PICK s \in Seq(Nodes) : s = order[l]
    BY <1>0 DEF NodeTypes
<1>3. old[t].idx \in Nodes /\ head[l] = old[t] /\ succ[t] \in Nodes \cup {Nil}
    BY <1>0, <1>1 DEF UnlinkCas, Goto, LocalsOK, NodeTypes
<1>4. s # <<>> /\ s[1] = old[t].idx
    BY <1>0, <1>2, <1>3, NilAssumption DEF ListsAreWhole
<1>5. PICK r \in Seq(Nodes) :
        /\ r = Tail(s) /\ Len(s) \in Nat \ {0} /\ Len(r) = Len(s) - 1
        /\ \A i \in 1 .. Len(r) : r[i] = s[i + 1]
    BY <1>4, TailFacts
<1>6. order'[l] = r /\ \A m \in Lists \ {l} : order'[m] = order[m] /\ head'[m] = head[m]
    BY <1>0, <1>1, <1>2, <1>5 DEF UnlinkCas, NodeTypes
<1>7. \A i \in 1 .. Len(r) : \E j \in 1 .. Len(s) : r[i] = s[j]
  <2> TAKE i \in 1 .. Len(r)
  <2>1. i + 1 \in 1 .. Len(s) /\ r[i] = s[i + 1]
    BY <1>5
  <2> QED
    BY <2>1
<1>8. head'[l].gen = head[l].gen + 1 /\ head[l].gen \in Nat
    BY <1>0, <1>1, <1>3, NewerWord DEF UnlinkCas, NodeTypes, Words
<1>9. \A m \in Lists : \A i \in 1 .. Len(order'[m]) :
        \E j \in 1 .. Len(order[m]) : order'[m][i] = order[m][j]
    BY <1>2, <1>6, <1>7
<1>10. head'[l].gen > head[l].gen
    BY <1>8
<1>11. 1 \in 1 .. Len(s)
    BY <1>5
<1>12. order' = [order EXCEPT ![Source(t)] = Tail(@)]
    BY DEF UnlinkCas
<1> QED
    BY <1>1, <1>2, <1>4, <1>6, <1>9, <1>10, <1>11, <1>12

\* linkFront adds the thread's node.
LEMMA LinkMoves ==
    ASSUME StackInv, GenerationsLeft, NEW t \in Threads, LinkCas(t)
    PROVE  /\ \A l \in Lists : \A i \in 1 .. Len(order'[l]) :
                \/ l = Sink(t) /\ order'[l][i] = idx[t]
                \/ \E j \in 1 .. Len(order[l]) : order'[l][i] = order[l][j]
           /\ head'[Sink(t)].gen > head[Sink(t)].gen
           /\ \A l \in Lists \ {Sink(t)} : head'[l] = head[l]
<1>0. NodeTypes /\ LocalsOK
    BY DEF StackInv
<1>1. PICK l \in Lists : l = Sink(t)
    BY DEF Sink, Lists
<1>2. PICK s \in Seq(Nodes) : s = order[l]
    BY <1>0 DEF NodeTypes
<1>3. PICK f \in Nodes : f = idx[t]
    BY <1>0 DEF LinkCas, Goto, LocalsOK, Holding
<1>4. order'[l] = <<f>> \o s /\ \A m \in Lists \ {l} : order'[m] = order[m] /\ head'[m] = head[m]
    BY <1>0, <1>1, <1>2, <1>3 DEF LinkCas, NodeTypes
<1>5. PICK r : r = <<f>> \o s
    OBVIOUS
<1>6. /\ Len(s) \in Nat /\ Len(r) = Len(s) + 1 /\ r[1] = f
      /\ \A i \in 1 .. Len(s) : r[i + 1] = s[i]
    BY <1>5, ConsFacts
<1>7. \A i \in 1 .. Len(r) : r[i] = f \/ \E j \in 1 .. Len(s) : r[i] = s[j]
  <2> TAKE i \in 1 .. Len(r)
  <2>1. CASE i = 1
    BY <1>6, <2>1
  <2>2. CASE i # 1
    <3>1. i - 1 \in 1 .. Len(s) /\ i = (i - 1) + 1
      BY <1>6, <2>2
    <3>2. r[i] = s[i - 1]
      BY <1>6, <3>1
    <3> QED
      BY <3>1, <3>2
  <2> QED
    BY <2>1, <2>2
<1>8. head'[l].gen = head[l].gen + 1 /\ head[l].gen \in Nat
    BY <1>0, <1>1, <1>3, NewerWord DEF LinkCas, NodeTypes, Words
<1>9. head'[l].gen > head[l].gen
    BY <1>8
<1>10. \A m \in Lists : \A i \in 1 .. Len(order'[m]) :
        \/ m = l /\ order'[m][i] = f
        \/ \E j \in 1 .. Len(order[m]) : order'[m][i] = order[m][j]
    BY <1>2, <1>4, <1>5, <1>7
<1> QED
    BY <1>1, <1>3, <1>4, <1>9, <1>10

\* A head that is the word a thread has read has the word's node at the front of its list.
LEMMA FrontNode ==
    ASSUME StackInv, NEW l \in Lists, head[l].idx \in Nodes
    PROVE  order[l] # <<>> /\ 1 \in 1 .. Len(order[l]) /\ order[l][1] = head[l].idx
<1>1. order[l] \in Seq(Nodes)
    BY DEF StackInv, NodeTypes
<1>2. order[l] # <<>> /\ order[l][1] = head[l].idx
    BY NilAssumption DEF StackInv, ListsAreWhole
<1>3. Len(order[l]) \in Nat /\ Len(order[l]) # 0
    BY <1>1, <1>2, EmptySeq, LenProperties
<1> QED
    BY <1>2, <1>3

-----------------------------------------------------------------------------
(* Links.                                                                  *)

\* A head that has moved on is no longer any word a thread has read of it.
LEMMA MovedHead ==
    ASSUME NodeTypes, SuccessorOK, NEW l \in Lists, NEW t \in Threads,
           \A m \in Lists : head[m].gen \in Nat, \A u \in Threads : old[u].gen \in Nat,
           head' \in [Lists -> Words],
           head'[l].gen > head[l].gen, \A m \in Lists \ {l} : head'[m] = head[m],
           UNCHANGED <<next, op, old, succ>>,
           pc'[t] \notin {"unlinkRead", "unlinkCas"},
           \A u \in Threads \ {t} : pc'[u] = pc[u]
    PROVE  SuccessorOK'
<1>0. \A u \in Threads : Source(u) \in Lists /\ Source(u)' = Source(u)
    BY DEF Source, Lists
<1>1. ASSUME NEW u \in Threads, pc'[u] \in {"unlinkRead", "unlinkCas"}
      PROVE  /\ old[u].gen <= head'[Source(u)].gen
             /\ pc'[u] = "unlinkCas" /\ head'[Source(u)] = old[u] => succ[u] = next[old[u].idx]
  <2>1. u # t /\ pc[u] = pc'[u] /\ old[u].gen <= head[Source(u)].gen
    BY <1>1 DEF SuccessorOK
  <2>2. CASE Source(u) = l
    <3>1. head'[l].gen \in Nat
      BY DEF Words
    <3>2. old[u].gen < head'[l].gen
      BY <2>1, <2>2, <3>1
    <3> QED
      BY <2>2, <3>1, <3>2
  <2>3. CASE Source(u) # l
    BY <1>0, <2>1, <2>3 DEF SuccessorOK
  <2> QED
    BY <2>2, <2>3
<1> QED
    BY <1>0, <1>1 DEF SuccessorOK

\* What a thread has read of a head that has not changed since stays true.
LEMMA SuccessorStep ==
    StackInv /\ GenerationsLeft /\ [Next]_vars => SuccessorOK'
<1> SUFFICES ASSUME StackInv, GenerationsLeft, [Next]_vars PROVE SuccessorOK'
    OBVIOUS
<1>0. NodeTypes /\ LocalsOK /\ SuccessorOK
    BY DEF StackInv
<1>t. \A t \in Threads : Source(t) \in Lists /\ Sink(t) \in Lists
    BY DEF Source, Sink, Lists
<1>g. /\ \A l \in Lists : head[l].gen \in Nat
      /\ \A t \in Threads : old[t].gen \in Nat
    BY <1>0 DEF NodeTypes, Words
<1>h. \A l \in Lists : head[l].gen <= head[l].gen
    BY <1>g
<1>1. ASSUME NEW t \in Threads, UnlinkLoad(t)
      PROVE  SuccessorOK'
    BY <1>1, <1>0, <1>t, <1>h DEF UnlinkLoad, Loop, NodeTypes, SuccessorOK, Source, Goto,
       shared, locals
<1>2. ASSUME NEW t \in Threads, UnlinkRead(t)
      PROVE  SuccessorOK'
    BY <1>2, <1>0, <1>t, <1>h DEF UnlinkRead, NodeTypes, SuccessorOK, Source, Goto, shared, locals
<1>3. ASSUME NEW t \in Threads, UnlinkCas(t)
      PROVE  SuccessorOK'
  <2>1. /\ head'[Source(t)].gen > head[Source(t)].gen
        /\ \A l \in Lists \ {Source(t)} : head'[l] = head[l]
    BY <1>3, UnlinkMoves
  <2>2. PICK l \in Lists : l = Source(t)
    BY <1>t
  <2>3. UNCHANGED <<next, op, old, succ>> /\ head' \in [Lists -> Words]
    BY <1>3, TypesStep DEF UnlinkCas, NodeTypes
  <2>4. /\ pc'[t] \notin {"unlinkRead", "unlinkCas"}
        /\ \A u \in Threads \ {t} : pc'[u] = pc[u]
    BY <1>3, <1>0 DEF UnlinkCas, NodeTypes, Goto
  <2>5. head'[l].gen > head[l].gen /\ \A m \in Lists \ {l} : head'[m] = head[m]
    BY <2>1, <2>2
  <2> QED
    BY <1>0, <1>g, <2>3, <2>4, <2>5, MovedHead
<1>4. ASSUME NEW t \in Threads, UnlinkRetry(t)
      PROVE  SuccessorOK'
    BY <1>4, <1>0, <1>t, <1>h DEF UnlinkRetry, Loop, NodeTypes, SuccessorOK, Source, Goto,
       shared, locals
<1>5. ASSUME NEW t \in Threads, LinkLoad(t)
      PROVE  SuccessorOK'
    BY <1>5, <1>0, <1>t, <1>h DEF LinkLoad, NodeTypes, SuccessorOK, Source, Goto, shared, locals
<1>6. ASSUME NEW t \in Threads, LinkStore(t)
      PROVE  SuccessorOK'
  <2>1. /\ Holding(t) /\ UNCHANGED <<head, op, old, succ>>
        /\ \A n \in Nodes \ {idx[t]} : next'[n] = next[n]
        /\ \A u \in Threads : pc'[u] \in {"unlinkRead", "unlinkCas"} => pc'[u] = pc[u]
    BY <1>6, <1>0 DEF LinkStore, Goto, NodeTypes, locals, Holding
  <2>2. ASSUME NEW u \in Threads, pc[u] = "unlinkCas", head[Source(u)] = old[u]
        PROVE  next'[old[u].idx] = next[old[u].idx]
    <3>1. old[u].idx \in Nodes
      BY <2>2, <1>0 DEF LocalsOK
    <3>2. On(Source(u), old[u].idx)
      BY <2>2, <3>1, <1>t, FrontNode DEF On
    <3>3. old[u].idx # idx[t]
      BY <2>1, <3>2, <1>0, <1>t, ByMembership DEF StackInv, Apart
    <3> QED
      BY <2>1, <3>1, <3>3
  <2> QED
    BY <2>1, <2>2, <1>0 DEF SuccessorOK, Source
<1>7. ASSUME NEW t \in Threads, LinkCas(t)
      PROVE  SuccessorOK'
  <2>1. /\ head'[Sink(t)].gen > head[Sink(t)].gen
        /\ \A l \in Lists \ {Sink(t)} : head'[l] = head[l]
    BY <1>7, LinkMoves
  <2>2. PICK l \in Lists : l = Sink(t)
    BY <1>t
  <2>3. UNCHANGED <<next, op, old, succ>> /\ head' \in [Lists -> Words]
    BY <1>7, TypesStep DEF LinkCas, NodeTypes
  <2>4. /\ pc'[t] \notin {"unlinkRead", "unlinkCas"}
        /\ \A u \in Threads \ {t} : pc'[u] = pc[u]
    BY <1>7, <1>0 DEF LinkCas, NodeTypes, Goto
  <2>5. head'[l].gen > head[l].gen /\ \A m \in Lists \ {l} : head'[m] = head[m]
    BY <2>1, <2>2
  <2> QED
    BY <1>0, <1>g, <2>3, <2>4, <2>5, MovedHead
<1>8. ASSUME NEW t \in Threads, LinkRetry(t)
      PROVE  SuccessorOK'
    BY <1>8, <1>0, <1>t, <1>h DEF LinkRetry, NodeTypes, SuccessorOK, Source, Goto, shared, locals
<1>9. ASSUME NEW t \in Threads, TakeFresh(t)
      PROVE  SuccessorOK'
    BY <1>9, <1>0, <1>t, <1>h DEF TakeFresh, NodeTypes, SuccessorOK, Source, Goto, shared, locals
<1>10. ASSUME NEW t \in Threads, BadAlloc(t)
      PROVE  SuccessorOK'
    BY <1>10, <1>0, <1>t, <1>h DEF BadAlloc, NodeTypes, SuccessorOK, Source, Goto, shared, locals
<1>11. ASSUME NEW t \in Threads, FindChunk(t)
      PROVE  SuccessorOK'
    BY <1>11, <1>0, <1>t, <1>h DEF FindChunk, NodeTypes, SuccessorOK, Source, Goto, shared, locals
<1>12. ASSUME NEW t \in Threads, Install(t)
      PROVE  SuccessorOK'
    BY <1>12, <1>0, <1>t, <1>h DEF Install, NodeTypes, SuccessorOK, Source, Goto, shared, locals
<1>13. ASSUME NEW t \in Threads, WriteValue(t)
      PROVE  SuccessorOK'
    BY <1>13, <1>0, <1>t, <1>h DEF WriteValue, NodeTypes, SuccessorOK, Source, Goto, shared,
       locals
<1>14. ASSUME NEW t \in Threads, TakeValue(t)
      PROVE  SuccessorOK'
    BY <1>14, <1>0, <1>t, <1>h DEF TakeValue, NodeTypes, SuccessorOK, Source, Goto, shared, locals
<1>15. ASSUME NEW t \in Threads, Count(t)
      PROVE  SuccessorOK'
    BY <1>15, <1>0, <1>t, <1>h DEF Count, NodeTypes, SuccessorOK, Source, Goto, shared, locals
<1>16. ASSUME NEW t \in Threads, Pop(t)
      PROVE  SuccessorOK'
    BY <1>16, <1>0, <1>t, <1>h DEF Pop, NodeTypes, SuccessorOK, Source, Goto, shared, locals
<1>17. ASSUME NEW t \in Threads, NEW v \in Values, Push(t, v)
      PROVE  SuccessorOK'
    BY <1>17, <1>0, <1>t, <1>h DEF Push, NodeTypes, SuccessorOK, Source, Goto, shared, locals
<1>18. CASE UNCHANGED vars
    BY <1>18, <1>0 DEF vars, shared, locals, SuccessorOK, Source
<1> QED
    BY <1>1, <1>2, <1>3, <1>4, <1>5, <1>6, <1>7, <1>8, <1>9, <1>10, <1>11, <1>12, <1>13,
       <1>14, <1>15, <1>16, <1>17, <1>18 DEF Next, Step

\* The link of a node about to be linked is the thread's own.
LEMMA LinkStep == StackInv /\ [Next]_vars => LinkOK'
<1> SUFFICES ASSUME StackInv, [Next]_vars PROVE LinkOK'
    OBVIOUS
<1>0. NodeTypes /\ LocalsOK /\ LinkOK /\ NodesArePartitioned
    BY DEF StackInv
<1>1. ASSUME NEW t \in Threads, UnlinkLoad(t)
      PROVE  LinkOK'
    BY <1>1, <1>0 DEF UnlinkLoad, Loop, NodeTypes, LinkOK, Goto, shared, locals
<1>2. ASSUME NEW t \in Threads, UnlinkRead(t)
      PROVE  LinkOK'
    BY <1>2, <1>0 DEF UnlinkRead, NodeTypes, LinkOK, Goto, shared, locals
<1>3. ASSUME NEW t \in Threads, UnlinkCas(t)
      PROVE  LinkOK'
    BY <1>3, <1>0 DEF UnlinkCas, NodeTypes, LinkOK, Goto, shared, locals
<1>4. ASSUME NEW t \in Threads, UnlinkRetry(t)
      PROVE  LinkOK'
    BY <1>4, <1>0 DEF UnlinkRetry, Loop, NodeTypes, LinkOK, Goto, shared, locals
<1>5. ASSUME NEW t \in Threads, LinkLoad(t)
      PROVE  LinkOK'
    BY <1>5, <1>0 DEF LinkLoad, NodeTypes, LinkOK, Goto, shared, locals
<1>6. ASSUME NEW t \in Threads, LinkStore(t)
      PROVE  LinkOK'
  <2>1. \A u \in Threads \ {t} : pc[u] = "linkCas" => idx[u] \in Nodes /\ idx[u] # idx[t]
    BY <1>6, <1>0 DEF LinkStore, Goto, LocalsOK, NodesArePartitioned, Holding
  <2>2. idx[t] \in Nodes
    BY <1>6, <1>0 DEF LinkStore, Goto, LocalsOK, Holding
  <2> QED
    BY <1>6, <1>0, <2>1, <2>2 DEF LinkStore, NodeTypes, LinkOK, Goto, locals
<1>7. ASSUME NEW t \in Threads, LinkCas(t)
      PROVE  LinkOK'
    BY <1>7, <1>0 DEF LinkCas, NodeTypes, LinkOK, Goto, shared, locals
<1>8. ASSUME NEW t \in Threads, LinkRetry(t)
      PROVE  LinkOK'
    BY <1>8, <1>0 DEF LinkRetry, NodeTypes, LinkOK, Goto, shared, locals
<1>9. ASSUME NEW t \in Threads, TakeFresh(t)
      PROVE  LinkOK'
    BY <1>9, <1>0 DEF TakeFresh, NodeTypes, LinkOK, Goto, shared, locals
<1>10. ASSUME NEW t \in Threads, BadAlloc(t)
      PROVE  LinkOK'
    BY <1>10, <1>0 DEF BadAlloc, NodeTypes, LinkOK, Goto, shared, locals
<1>11. ASSUME NEW t \in Threads, FindChunk(t)
      PROVE  LinkOK'
    BY <1>11, <1>0 DEF FindChunk, NodeTypes, LinkOK, Goto, shared, locals
<1>12. ASSUME NEW t \in Threads, Install(t)
      PROVE  LinkOK'
    BY <1>12, <1>0 DEF Install, NodeTypes, LinkOK, Goto, shared, locals
<1>13. ASSUME NEW t \in Threads, WriteValue(t)
      PROVE  LinkOK'
    BY <1>13, <1>0 DEF WriteValue, NodeTypes, LinkOK, Goto, shared, locals
<1>14. ASSUME NEW t \in Threads, TakeValue(t)
      PROVE  LinkOK'
    BY <1>14, <1>0 DEF TakeValue, NodeTypes, LinkOK, Goto, shared, locals
<1>15. ASSUME NEW t \in Threads, Count(t)
      PROVE  LinkOK'
    BY <1>15, <1>0 DEF Count, NodeTypes, LinkOK, Goto, shared, locals
<1>16. ASSUME NEW t \in Threads, Pop(t)
      PROVE  LinkOK'
    BY <1>16, <1>0 DEF Pop, NodeTypes, LinkOK, Goto, shared, locals
<1>17. ASSUME NEW t \in Threads, NEW v \in Values, Push(t, v)
      PROVE  LinkOK'
    BY <1>17, <1>0 DEF Push, NodeTypes, LinkOK, Goto, shared, locals
<1>18. CASE UNCHANGED vars
    BY <1>18, <1>0 DEF vars, shared, locals, LinkOK
<1> QED
    BY <1>1, <1>2, <1>3, <1>4, <1>5, <1>6, <1>7, <1>8, <1>9, <1>10, <1>11, <1>12, <1>13,
       <1>14, <1>15, <1>16, <1>17, <1>18 DEF Next, Step

-----------------------------------------------------------------------------
(* Chunks and values.                                                      *)

\* No list, no owner and no reader has a node of a chunk that is not installed.
LEMMA ChunksStep ==
    StackInv /\ GenerationsLeft /\ [Next]_vars => ChunksOK'
<1> SUFFICES ASSUME StackInv, GenerationsLeft, [Next]_vars PROVE ChunksOK'
    OBVIOUS
<1>0. NodeTypes /\ LocalsOK /\ ChunksOK
    BY DEF StackInv
<1>t. \A t \in Threads : Source(t) \in Lists /\ Sink(t) \in Lists
    BY DEF Source, Sink, Lists
<1>f. ASSUME NEW l \in Lists, head[l].idx # Nil PROVE ChunkOf(head[l].idx) \in chunks
  <2>1. head[l].idx \in Nodes
    BY <1>f, <1>0 DEF NodeTypes, Words
  <2>2. 1 \in 1 .. Len(order[l]) /\ order[l][1] = head[l].idx
    BY <2>1, FrontNode
  <2> QED
    BY <1>0, <2>2 DEF ChunksOK
<1>1. ASSUME NEW t \in Threads, UnlinkLoad(t)
      PROVE  ChunksOK'
    BY <1>1, <1>0, <1>t, <1>f DEF UnlinkLoad, Loop, NodeTypes, ChunksOK, Holding, Goto, shared,
       locals
<1>2. ASSUME NEW t \in Threads, UnlinkRead(t)
      PROVE  ChunksOK'
    BY <1>2, <1>0 DEF UnlinkRead, NodeTypes, ChunksOK, Holding, Goto, shared, locals
<1>3. ASSUME NEW t \in Threads, UnlinkCas(t)
      PROVE  ChunksOK'
  <2>1. /\ \A l \in Lists : \A i \in 1 .. Len(order'[l]) :
             \E j \in 1 .. Len(order[l]) : order'[l][i] = order[l][j]
        /\ 1 \in 1 .. Len(order[Source(t)]) /\ order[Source(t)][1] = old[t].idx
    BY <1>3, UnlinkMoves
  <2>2. ChunkOf(old[t].idx) \in chunks
    BY <1>0, <1>t, <2>1 DEF ChunksOK
  <2> QED
    BY <1>3, <1>0, <2>1, <2>2 DEF UnlinkCas, NodeTypes, ChunksOK, Holding, Goto
<1>4. ASSUME NEW t \in Threads, UnlinkRetry(t)
      PROVE  ChunksOK'
    BY <1>4, <1>0, <1>t, <1>f DEF UnlinkRetry, Loop, NodeTypes, ChunksOK, Holding, Goto, shared,
       locals
<1>5. ASSUME NEW t \in Threads, LinkLoad(t)
      PROVE  ChunksOK'
    BY <1>5, <1>0 DEF LinkLoad, NodeTypes, ChunksOK, Holding, Goto, shared, locals
<1>6. ASSUME NEW t \in Threads, LinkStore(t)
      PROVE  ChunksOK'
    BY <1>6, <1>0 DEF LinkStore, NodeTypes, ChunksOK, Holding, Goto, shared, locals
<1>7. ASSUME NEW t \in Threads, LinkCas(t)
      PROVE  ChunksOK'
  <2>1. \A l \in Lists : \A i \in 1 .. Len(order'[l]) :
          \/ order'[l][i] = idx[t]
          \/ \E j \in 1 .. Len(order[l]) : order'[l][i] = order[l][j]
    BY <1>7, LinkMoves
  <2>2. ChunkOf(idx[t]) \in chunks
    BY <1>7, <1>0 DEF LinkCas, ChunksOK, Holding, Goto
  <2> QED
    BY <1>7, <1>0, <2>1, <2>2 DEF LinkCas, NodeTypes, ChunksOK, Holding, Goto
<1>8. ASSUME NEW t \in Threads, LinkRetry(t)
      PROVE  ChunksOK'
    BY <1>8, <1>0 DEF LinkRetry, NodeTypes, ChunksOK, Holding, Goto, shared, locals
<1>9. ASSUME NEW t \in Threads, TakeFresh(t)
      PROVE  ChunksOK'
    BY <1>9, <1>0 DEF TakeFresh, NodeTypes, ChunksOK, Holding, Goto, shared, locals
<1>10. ASSUME NEW t \in Threads, BadAlloc(t)
      PROVE  ChunksOK'
    BY <1>10, <1>0 DEF BadAlloc, NodeTypes, ChunksOK, Holding, Goto, shared, locals
<1>11. ASSUME NEW t \in Threads, FindChunk(t)
      PROVE  ChunksOK'
    BY <1>11, <1>0 DEF FindChunk, NodeTypes, ChunksOK, Holding, Goto, shared, locals
<1>12. ASSUME NEW t \in Threads, Install(t)
      PROVE  ChunksOK'
    BY <1>12, <1>0 DEF Install, NodeTypes, ChunksOK, Holding, Goto, shared, locals
<1>13. ASSUME NEW t \in Threads, WriteValue(t)
      PROVE  ChunksOK'
    BY <1>13, <1>0 DEF WriteValue, NodeTypes, ChunksOK, Holding, Goto, shared, locals
<1>14. ASSUME NEW t \in Threads, TakeValue(t)
      PROVE  ChunksOK'
    BY <1>14, <1>0 DEF TakeValue, NodeTypes, ChunksOK, Holding, Goto, shared, locals
<1>15. ASSUME NEW t \in Threads, Count(t)
      PROVE  ChunksOK'
    BY <1>15, <1>0 DEF Count, NodeTypes, ChunksOK, Holding, Goto, shared, locals
<1>16. ASSUME NEW t \in Threads, Pop(t)
      PROVE  ChunksOK'
    BY <1>16, <1>0 DEF Pop, NodeTypes, ChunksOK, Holding, Goto, shared, locals
<1>17. ASSUME NEW t \in Threads, NEW v \in Values, Push(t, v)
      PROVE  ChunksOK'
    BY <1>17, <1>0 DEF Push, NodeTypes, ChunksOK, Holding, Goto, shared, locals
<1>18. CASE UNCHANGED vars
    BY <1>18, <1>0 DEF vars, shared, locals, ChunksOK, Holding
<1> QED
    BY <1>1, <1>2, <1>3, <1>4, <1>5, <1>6, <1>7, <1>8, <1>9, <1>10, <1>11, <1>12, <1>13,
       <1>14, <1>15, <1>16, <1>17, <1>18 DEF Next, Step

\* Every value pushed is on its way in, on the stack, or on its way out.
LEMMA ValuesStep ==
    StackInv /\ GenerationsLeft /\ [Next]_vars => ValuesOK'
<1> SUFFICES ASSUME StackInv, GenerationsLeft, [Next]_vars PROVE ValuesOK'
    OBVIOUS
<1>0. NodeTypes /\ LocalsOK /\ ValuesOK
    BY DEF StackInv
<1>r. "ready" \in Lists
    BY DEF Lists
<1>u. ASSUME NEW t \in Threads, Holding(t)
      PROVE  /\ idx[t] \in Nodes
             /\ \A i \in 1 .. Len(order["ready"]) : order["ready"][i] # idx[t]
             /\ \A u \in Threads : Holding(u) /\ idx[u] = idx[t] => u = t
    BY <1>u, <1>0, <1>r DEF StackInv, NodesArePartitioned, LocalsOK
<1> USE NoValueAssumption
<1>1. ASSUME NEW t \in Threads, UnlinkLoad(t)
      PROVE  ValuesOK'
    BY <1>1, <1>0 DEF UnlinkLoad, Loop, NodeTypes, LocalsOK, ValuesOK, Ops, Goto, shared, locals
<1>2. ASSUME NEW t \in Threads, UnlinkRead(t)
      PROVE  ValuesOK'
    BY <1>2, <1>0 DEF UnlinkRead, NodeTypes, LocalsOK, ValuesOK, Ops, Goto, shared, locals
<1>3. ASSUME NEW t \in Threads, UnlinkCas(t)
      PROVE  ValuesOK'
  <2>1. /\ \A i \in 1 .. Len(order'["ready"]) :
             \E j \in 1 .. Len(order["ready"]) : order'["ready"][i] = order["ready"][j]
        /\ 1 \in 1 .. Len(order[Source(t)]) /\ order[Source(t)][1] = old[t].idx
    BY <1>3, <1>r, UnlinkMoves
  <2>2. op[t] = "pop" => value[old[t].idx] \in Values
    BY <1>0, <2>1 DEF ValuesOK, Source
  <2>3. /\ UNCHANGED <<value, val, unused, op>>
        /\ pc' = [pc EXCEPT ![t] = IF op[t] = "pop" THEN "take" ELSE "write"]
        /\ idx' = [idx EXCEPT ![t] = old[t].idx] /\ pc[t] = "unlinkCas"
    BY <1>3 DEF UnlinkCas, Goto
  <2>4. \A u \in Threads \ {t} : pc'[u] = pc[u] /\ idx'[u] = idx[u]
    BY <2>3, <1>0 DEF NodeTypes
  <2>5. idx'[t] = old[t].idx /\ pc'[t] = IF op[t] = "pop" THEN "take" ELSE "write"
    BY <2>3, <1>0 DEF NodeTypes
  <2> QED
    BY <1>0, <2>1, <2>2, <2>3, <2>4, <2>5 DEF ValuesOK
<1>4. ASSUME NEW t \in Threads, UnlinkRetry(t)
      PROVE  ValuesOK'
    BY <1>4, <1>0 DEF UnlinkRetry, Loop, NodeTypes, LocalsOK, ValuesOK, Ops, Goto, shared, locals
<1>5. ASSUME NEW t \in Threads, LinkLoad(t)
      PROVE  ValuesOK'
    BY <1>5, <1>0 DEF LinkLoad, NodeTypes, LocalsOK, ValuesOK, Ops, Goto, shared, locals
<1>6. ASSUME NEW t \in Threads, LinkStore(t)
      PROVE  ValuesOK'
    BY <1>6, <1>0 DEF LinkStore, NodeTypes, LocalsOK, ValuesOK, Ops, Goto, shared, locals
<1>7. ASSUME NEW t \in Threads, LinkCas(t)
      PROVE  ValuesOK'
  <2>1. \A i \in 1 .. Len(order'["ready"]) :
          \/ Sink(t) = "ready" /\ order'["ready"][i] = idx[t]
          \/ \E j \in 1 .. Len(order["ready"]) : order'["ready"][i] = order["ready"][j]
    BY <1>7, <1>r, LinkMoves
  <2>2. Sink(t) = "ready" => value[idx[t]] \in Values
    BY <1>7, <1>0 DEF LinkCas, Goto, ValuesOK, Sink, NodeTypes, Ops
  <2>3. /\ UNCHANGED <<value, val, unused, op>>
        /\ pc[t] = "linkCas" /\ pc'[t] = "count"
        /\ \A u \in Threads \ {t} : pc'[u] = pc[u] /\ idx'[u] = idx[u]
    BY <1>7, <1>0 DEF LinkCas, Goto, NodeTypes
  <2> QED
    BY <1>0, <2>1, <2>2, <2>3 DEF ValuesOK
<1>8. ASSUME NEW t \in Threads, LinkRetry(t)
      PROVE  ValuesOK'
    BY <1>8, <1>0 DEF LinkRetry, NodeTypes, LocalsOK, ValuesOK, Ops, Goto, shared, locals
<1>9. ASSUME NEW t \in Threads, TakeFresh(t)
      PROVE  ValuesOK'
    BY <1>9, <1>0 DEF TakeFresh, NodeTypes, LocalsOK, ValuesOK, Ops, Goto, shared, locals
<1>10. ASSUME NEW t \in Threads, BadAlloc(t)
      PROVE  ValuesOK'
    BY <1>10, <1>0 DEF BadAlloc, NodeTypes, LocalsOK, ValuesOK, Ops, Goto, shared, locals
<1>11. ASSUME NEW t \in Threads, FindChunk(t)
      PROVE  ValuesOK'
    BY <1>11, <1>0 DEF FindChunk, NodeTypes, LocalsOK, ValuesOK, Ops, Goto, shared, locals
<1>12. ASSUME NEW t \in Threads, Install(t)
      PROVE  ValuesOK'
    BY <1>12, <1>0 DEF Install, NodeTypes, LocalsOK, ValuesOK, Ops, Goto, shared, locals
<1>13. ASSUME NEW t \in Threads, WriteValue(t)
      PROVE  ValuesOK'
  <2>1. Holding(t) /\ op[t] = "push" /\ pc[t] = "write" /\ pc'[t] = "linkLoad"
    BY <1>13, <1>0 DEF WriteValue, Goto, Holding, LocalsOK, NodeTypes
  <2>2. /\ UNCHANGED <<val, unused, op, idx, order>>
        /\ \A u \in Threads \ {t} : pc'[u] = pc[u]
        /\ value'[idx[t]] = val[t] /\ \A n \in Nodes \ {idx[t]} : value'[n] = value[n]
        /\ value' \in [Nodes -> Values \cup {NoValue}]
    BY <1>13, <1>0, <1>u, <2>1 DEF WriteValue, Goto, NodeTypes, ValuesOK, locals
  <2>3. \A i \in 1 .. Len(order["ready"]) :
          order["ready"][i] \in Nodes /\ order["ready"][i] # idx[t]
    BY <1>0, <1>r, <1>u, <2>1 DEF NodeTypes
  <2>4. \A u \in Threads \ {t} : Holding(u) => idx[u] \in Nodes /\ idx[u] # idx[t]
    BY <1>u, <2>1
  <2>5. \A u \in Threads \ {t} : pc[u] \in {"take", "linkLoad", "linkStore", "linkCas"} =>
          value'[idx[u]] = value[idx[u]]
    BY <2>2, <2>4 DEF Holding
  <2>6. \A i \in 1 .. Len(order["ready"]) : value'[order["ready"][i]] = value[order["ready"][i]]
    BY <2>2, <2>3
  <2> QED
    BY <1>0, <2>1, <2>2, <2>5, <2>6 DEF ValuesOK
<1>14. ASSUME NEW t \in Threads, TakeValue(t)
      PROVE  ValuesOK'
    BY <1>14, <1>0 DEF TakeValue, NodeTypes, LocalsOK, ValuesOK, Ops, Goto, shared, locals
<1>15. ASSUME NEW t \in Threads, Count(t)
      PROVE  ValuesOK'
    BY <1>15, <1>0 DEF Count, NodeTypes, LocalsOK, ValuesOK, Ops, Goto, shared, locals
<1>16. ASSUME NEW t \in Threads, Pop(t)
      PROVE  ValuesOK'
    BY <1>16, <1>0 DEF Pop, NodeTypes, LocalsOK, ValuesOK, Ops, Goto, shared, locals
<1>17. ASSUME NEW t \in Threads, NEW v \in Values, Push(t, v)
      PROVE  ValuesOK'
    BY <1>17, <1>0 DEF Push, NodeTypes, LocalsOK, ValuesOK, Ops, Goto, shared, locals
<1>18. CASE UNCHANGED vars
    BY <1>18, <1>0 DEF vars, shared, locals, ValuesOK
<1> QED
    BY <1>1, <1>2, <1>3, <1>4, <1>5, <1>6, <1>7, <1>8, <1>9, <1>10, <1>11, <1>12, <1>13,
       <1>14, <1>15, <1>16, <1>17, <1>18 DEF Next, Step

-----------------------------------------------------------------------------
(* Theorems.                                                               *)

\* The invariant holds of an empty stack.
LEMMA StackInit == Init => StackInv
<1> SUFFICES ASSUME Init PROVE StackInv
    OBVIOUS
<1> USE DEF Init
<1>1. NodeTypes /\ LocalsOK
    BY GenerationsAssumption DEF NodeTypes, LocalsOK, Words, PCs, Ops, Holding
<1>2. \A l \in Lists : order[l] = <<>> /\ Len(order[l]) = 0
    OBVIOUS
<1>3. HandedOut /\ ListsAreWhole
    BY <1>2 DEF HandedOut, ListsAreWhole
<1>4. NodesArePartitioned
  <2>1. \A n \in Nodes : ~(n < fresh)
    BY NodesAreIndices
  <2> QED
    BY <1>2, <2>1 DEF NodesArePartitioned, Lists, Holding
<1>5. SuccessorOK /\ LinkOK /\ ChunksOK
    BY <1>2 DEF SuccessorOK, LinkOK, ChunksOK, Holding
<1>6. ValuesOK
    BY <1>2 DEF ValuesOK, Lists
<1> QED
    BY <1>1, <1>3, <1>4, <1>5, <1>6 DEF StackInv

\* Every step keeps it while generations are left.
LEMMA StackStep == StackInv /\ GenerationsLeft /\ [Next]_vars => StackInv'
BY TypesStep, LocalsStep, PlacesStep, SuccessorStep, LinkStep, ChunksStep, ValuesStep DEF
   StackInv, Places

\* The inductive invariant holds for as long as generations are left.
THEOREM StackInvariance == Spec /\ []GenerationsLeft => []StackInv
BY StackInit, StackStep, PTL DEF Spec

\* Whatever threads push, pop and recycle at once, unlinkFront and linkFront cut or cross
\* no list and lose or duplicate no node, before the generation tag has wrapped round.
THEOREM NodesStayInPlace == Spec /\ []GenerationsLeft => []NodesAreInPlace
<1>1. StackInv => NodesAreInPlace
    BY DEF StackInv, NodesAreInPlace
<1> QED
    BY <1>1, StackInvariance, PTL

\* node() is only called for an index whose chunk acquireNode has installed.
THEOREM ChunksAreThere == Spec /\ []GenerationsLeft => []NoMissingChunk
<1>1. StackInv => NoMissingChunk
    BY DEF StackInv, ChunksOK, NoMissingChunk, Touches, Holding
<1> QED
    BY <1>1, StackInvariance, PTL

-----------------------------------------------------------------------------
(* Refinement.                                                             *)

\* The values of a list of nodes.
ValuesOf(s, v) == [i \in 1 .. Len(s) |-> v[s[i]]]

\* They are a sequence as long as the list.
LEMMA ValuesOfFacts ==
    ASSUME NEW V, NEW v \in [Nodes -> V], NEW s \in Seq(Nodes)
    PROVE  /\ ValuesOf(s, v) \in Seq(V)
           /\ Len(ValuesOf(s, v)) = Len(s)
           /\ \A i \in 1 .. Len(s) : ValuesOf(s, v)[i] = v[s[i]]
<1>1. Len(s) \in Nat /\ \A i \in 1 .. Len(s) : v[s[i]] \in V
    BY LenProperties
<1>2. ValuesOf(s, v) \in [1 .. Len(s) -> V]
    BY <1>1 DEF ValuesOf
<1>3. ValuesOf(s, v) \in Seq(V)
    BY <1>1, <1>2, SeqDef
<1>4. DOMAIN ValuesOf(s, v) = 1 .. Len(s)
    BY DEF ValuesOf
<1>5. 1 .. Len(ValuesOf(s, v)) = 1 .. Len(s) /\ Len(ValuesOf(s, v)) \in Nat
    BY <1>3, <1>4, LenProperties
<1>6. Len(ValuesOf(s, v)) = Len(s)
    BY <1>1, <1>5
<1> QED
    BY <1>3, <1>6 DEF ValuesOf

\* The first node taken off.
LEMMA ValuesOfTail ==
    ASSUME NEW V, NEW v \in [Nodes -> V], NEW s \in Seq(Nodes), s # <<>>
    PROVE  /\ ValuesOf(s, v) # <<>>
           /\ Head(ValuesOf(s, v)) = v[s[1]]
           /\ Tail(ValuesOf(s, v)) = ValuesOf(Tail(s), v)
<1>1. PICK w \in Seq(V) : /\ w = ValuesOf(s, v) /\ Len(w) = Len(s)
                          /\ \A i \in 1 .. Len(s) : w[i] = v[s[i]]
  <2>1. /\ ValuesOf(s, v) \in Seq(V) /\ Len(ValuesOf(s, v)) = Len(s)
        /\ \A i \in 1 .. Len(s) : ValuesOf(s, v)[i] = v[s[i]]
    BY ValuesOfFacts
  <2> QED
    BY <2>1
<1>2. PICK r \in Seq(Nodes) : /\ r = Tail(s) /\ Len(s) \in Nat \ {0} /\ Len(r) = Len(s) - 1
                              /\ \A i \in 1 .. Len(r) : r[i] = s[i + 1]
    BY TailFacts
<1>3. w # <<>>
    BY <1>1, <1>2, EmptySeq
<1>4. Head(w) = v[s[1]]
  <2>1. 1 \in 1 .. Len(s)
    BY <1>2
  <2>2. Head(w) = w[1]
    BY <1>3
  <2> QED
    BY <1>1, <2>1, <2>2
<1>5. PICK y \in Seq(V) : /\ y = ValuesOf(r, v) /\ Len(y) = Len(r)
                          /\ \A i \in 1 .. Len(r) : y[i] = v[r[i]]
    BY ValuesOfFacts
<1>6. PICK x \in Seq(V) : /\ x = Tail(w) /\ Len(x) = Len(w) - 1
                          /\ \A i \in 1 .. Len(x) : x[i] = w[i + 1]
    BY <1>3, TailFacts
<1>7. Len(x) = Len(y) /\ Len(x) = Len(s) - 1
    BY <1>1, <1>2, <1>5, <1>6
<1>8. ASSUME NEW i \in 1 .. Len(x) PROVE x[i] = y[i]
  <2>1. i \in 1 .. Len(r) /\ i + 1 \in 1 .. Len(s)
    BY <1>2, <1>7
  <2> QED
    BY <1>1, <1>2, <1>5, <1>6, <2>1
<1>9. x = y
    BY <1>7, <1>8, SeqEqual
<1> QED
    BY <1>1, <1>2, <1>3, <1>4, <1>5, <1>6, <1>9

\* A node put in front.
LEMMA ValuesOfCons ==
    ASSUME NEW V, NEW v \in [Nodes -> V], NEW s \in Seq(Nodes), NEW f \in Nodes
    PROVE  ValuesOf(<<f>> \o s, v) = <<v[f]>> \o ValuesOf(s, v)
<1>1. PICK w \in Seq(V) : /\ w = ValuesOf(s, v) /\ Len(w) = Len(s)
                          /\ \A i \in 1 .. Len(s) : w[i] = v[s[i]]
  <2>1. /\ ValuesOf(s, v) \in Seq(V) /\ Len(ValuesOf(s, v)) = Len(s)
        /\ \A i \in 1 .. Len(s) : ValuesOf(s, v)[i] = v[s[i]]
    BY ValuesOfFacts
  <2> QED
    BY <2>1
<1>2. PICK r : r = <<f>> \o s
    OBVIOUS
<1>3. /\ r \in Seq(Nodes) /\ Len(s) \in Nat /\ Len(r) = Len(s) + 1 /\ r[1] = f
      /\ \A i \in 1 .. Len(s) : r[i + 1] = s[i]
    BY <1>2, ConsFacts
<1>4. PICK y \in Seq(V) : /\ y = ValuesOf(r, v) /\ Len(y) = Len(r)
                          /\ \A i \in 1 .. Len(r) : y[i] = v[r[i]]
    BY <1>3, ValuesOfFacts
<1>5. PICK x : x = <<v[f]>> \o w
    OBVIOUS
<1>6. /\ x \in Seq(V) /\ Len(x) = Len(w) + 1 /\ x[1] = v[f]
      /\ \A i \in 1 .. Len(w) : x[i + 1] = w[i]
  <2>1. v[f] \in V
    OBVIOUS
  <2> QED
    BY <1>5, <2>1, ConsFacts
<1>7. Len(x) = Len(y) /\ Len(x) = Len(s) + 1
    BY <1>1, <1>3, <1>4, <1>6
<1>8. ASSUME NEW i \in 1 .. Len(x) PROVE x[i] = y[i]
  <2>1. CASE i = 1
    <3>1. 1 \in 1 .. Len(r)
      BY <1>3
    <3> QED
      BY <1>3, <1>4, <1>6, <2>1, <3>1
  <2>2. CASE i # 1
    <3>1. PICK j \in 1 .. Len(s) : i = j + 1
      <4>1. i - 1 \in 1 .. Len(s) /\ i = (i - 1) + 1
        BY <1>3, <1>7, <2>2
      <4> QED
        BY <4>1
    <3>2. j + 1 \in 1 .. Len(r) /\ j \in 1 .. Len(w)
      BY <1>1, <1>3
    <3>3. x[i] = w[j] /\ y[i] = v[r[j + 1]] /\ r[j + 1] = s[j] /\ w[j] = v[s[j]]
      BY <1>1, <1>3, <1>4, <1>6, <3>1, <3>2
    <3> QED
      BY <3>3
  <2> QED
    BY <2>1, <2>2
<1>9. x = y
    BY <1>6, <1>7, <1>8, SeqEqual
<1> QED
    BY <1>1, <1>2, <1>4, <1>5, <1>9

\* The mapped variables in these terms.
LEMMA BarFacts ==
    /\ stackBar = ValuesOf(order["ready"], value)
    /\ stackBar' = ValuesOf(order'["ready"], value')
    /\ inBar = [t \in Threads |-> inBar[t]] /\ inBar' = [t \in Threads |-> inBar'[t]]
    /\ outBar = [t \in Threads |-> outBar[t]] /\ outBar' = [t \in Threads |-> outBar'[t]]
BY DEF stackBar, ValuesOf, inBar, outBar

\* A step shows nothing of thread t.
CallKept(t) == inBar'[t] = inBar[t] /\ outBar'[t] = outBar[t]

\* A thread whose locals do not change, and whose node keeps its value, shows nothing.
LEMMA OtherCalls ==
    ASSUME NEW t \in Threads, pc'[t] = pc[t], op'[t] = op[t], val'[t] = val[t],
           pc[t] = "take" => value'[idx'[t]] = value[idx[t]]
    PROVE  CallKept(t)
BY DEF CallKept, inBar, outBar

\* A step that shows nothing of any thread or of the stack is a stutter of LifoStack.
LEMMA LifoStutter ==
    ASSUME stackBar' = stackBar, \A t \in Threads : CallKept(t)
    PROVE  UNCHANGED Lifo!vars
<1>1. inBar' = inBar /\ outBar' = outBar
    BY BarFacts DEF CallKept
<1> QED
    BY <1>1 DEF Lifo!vars

\* Every step of the stack is a step of LifoStack, or one that does not show.
LEMMA LifoStep ==
    StackInv /\ GenerationsLeft /\ [Next]_vars => [Lifo!Next]_(Lifo!vars)
<1> SUFFICES ASSUME StackInv, GenerationsLeft, [Next]_vars
             PROVE  [Lifo!Next]_(Lifo!vars)
    OBVIOUS
<1> USE NoValueAssumption
<1>0. NodeTypes /\ LocalsOK /\ ValuesOK
    BY DEF StackInv
<1>r. "ready" \in Lists
    BY DEF Lists
<1>s. ASSUME UNCHANGED <<value, order>> PROVE stackBar' = stackBar
    BY <1>s DEF stackBar
<1>1. ASSUME NEW t \in Threads, UnlinkLoad(t)
      PROVE  [Lifo!Next]_(Lifo!vars)
  <2>1. stackBar' = stackBar
    BY <1>1, <1>s DEF UnlinkLoad, Loop, shared, locals
  <2>2. CallKept(t)
    BY <1>1, <1>0 DEF UnlinkLoad, Loop, CallKept, inBar, outBar, NodeTypes, LocalsOK, ValuesOK,
       Ops, Goto, shared, locals
  <2>3. \A u \in Threads \ {t} : CallKept(u)
    BY <1>1, <1>0, OtherCalls DEF UnlinkLoad, Loop, NodeTypes, ValuesOK, Goto, shared, locals
  <2> QED
    BY <2>1, <2>2, <2>3, LifoStutter
<1>2. ASSUME NEW t \in Threads, UnlinkRead(t)
      PROVE  [Lifo!Next]_(Lifo!vars)
  <2>1. stackBar' = stackBar
    BY <1>2, <1>s DEF UnlinkRead, shared, locals
  <2>2. CallKept(t)
    BY <1>2, <1>0 DEF UnlinkRead, CallKept, inBar, outBar, NodeTypes, LocalsOK, ValuesOK, Ops,
       Goto, shared, locals
  <2>3. \A u \in Threads \ {t} : CallKept(u)
    BY <1>2, <1>0, OtherCalls DEF UnlinkRead, NodeTypes, ValuesOK, Goto, shared, locals
  <2> QED
    BY <2>1, <2>2, <2>3, LifoStutter
<1>3. ASSUME NEW t \in Threads, UnlinkCas(t)
      PROVE  [Lifo!Next]_(Lifo!vars)
  <2>1. order["ready"] \in Seq(Nodes) /\ order[Source(t)] # <<>>
    BY <1>3, <1>0, <1>r, UnlinkMoves DEF NodeTypes
  <2>2. order' = [order EXCEPT ![Source(t)] = Tail(@)] /\ order[Source(t)][1] = old[t].idx
    BY <1>3, UnlinkMoves
  <2>3. \A u \in Threads \ {t} : CallKept(u)
    BY <1>3, <1>0, OtherCalls DEF UnlinkCas, NodeTypes, ValuesOK, Goto
  <2>4. CASE op[t] = "push"
    <3>1. order'["ready"] = order["ready"] /\ value' = value
      BY <1>3, <1>0, <1>r, <2>2, <2>4 DEF UnlinkCas, NodeTypes, Source
    <3>2. stackBar' = stackBar
      BY <3>1, BarFacts
    <3>3. CallKept(t)
      BY <1>3, <1>0, <2>4 DEF UnlinkCas, CallKept, inBar, outBar, NodeTypes, Goto
    <3> QED
      BY <2>3, <3>2, <3>3, LifoStutter
  <2>5. CASE op[t] = "pop"
    <3>1. /\ order'["ready"] = Tail(order["ready"]) /\ value' = value
          /\ order["ready"] # <<>> /\ order["ready"][1] = old[t].idx
      BY <1>3, <1>0, <1>r, <2>1, <2>2, <2>5 DEF UnlinkCas, NodeTypes, Source
    <3>2. stackBar # <<>> /\ Head(stackBar) = value[old[t].idx] /\ stackBar' = Tail(stackBar)
      <4>1. stackBar = ValuesOf(order["ready"], value)
        BY BarFacts
      <4>2. stackBar' = ValuesOf(Tail(order["ready"]), value)
        BY <3>1, BarFacts
      <4>3. value \in [Nodes -> Values \cup {NoValue}]
        BY <1>0 DEF ValuesOK
      <4> QED
        BY <2>1, <3>1, <4>1, <4>2, <4>3, ValuesOfTail
    <3>3. inBar[t] = NoValue /\ inBar'[t] = NoValue /\ outBar[t] = NoValue
      BY <1>3, <1>0, <2>5 DEF UnlinkCas, inBar, outBar, ValuesOK, NodeTypes, Goto
    <3>4. outBar'[t] = value[old[t].idx]
      BY <1>3, <1>0, <2>5 DEF UnlinkCas, outBar, NodeTypes, Goto
    <3>5. inBar' = inBar
      BY <2>3, <3>3, BarFacts DEF CallKept
    <3>6. outBar' = [outBar EXCEPT ![t] = Head(stackBar)]
      BY <2>3, <3>2, <3>4, BarFacts DEF CallKept
    <3>7. Lifo!DoPop(t)
      BY <3>2, <3>3, <3>5, <3>6 DEF Lifo!DoPop
    <3> QED
      BY <3>7 DEF Lifo!Next
  <2> QED
    BY <1>0, <2>4, <2>5 DEF NodeTypes, Ops
<1>4. ASSUME NEW t \in Threads, UnlinkRetry(t)
      PROVE  [Lifo!Next]_(Lifo!vars)
  <2>1. stackBar' = stackBar
    BY <1>4, <1>s DEF UnlinkRetry, Loop, shared, locals
  <2>2. CallKept(t)
    BY <1>4, <1>0 DEF UnlinkRetry, Loop, CallKept, inBar, outBar, NodeTypes, LocalsOK, ValuesOK,
       Ops, Goto, shared, locals
  <2>3. \A u \in Threads \ {t} : CallKept(u)
    BY <1>4, <1>0, OtherCalls DEF UnlinkRetry, Loop, NodeTypes, ValuesOK, Goto, shared, locals
  <2> QED
    BY <2>1, <2>2, <2>3, LifoStutter
<1>5. ASSUME NEW t \in Threads, LinkLoad(t)
      PROVE  [Lifo!Next]_(Lifo!vars)
  <2>1. stackBar' = stackBar
    BY <1>5, <1>s DEF LinkLoad, shared, locals
  <2>2. CallKept(t)
    BY <1>5, <1>0 DEF LinkLoad, CallKept, inBar, outBar, NodeTypes, LocalsOK, ValuesOK, Ops,
       Goto, shared, locals
  <2>3. \A u \in Threads \ {t} : CallKept(u)
    BY <1>5, <1>0, OtherCalls DEF LinkLoad, NodeTypes, ValuesOK, Goto, shared, locals
  <2> QED
    BY <2>1, <2>2, <2>3, LifoStutter
<1>6. ASSUME NEW t \in Threads, LinkStore(t)
      PROVE  [Lifo!Next]_(Lifo!vars)
  <2>1. stackBar' = stackBar
    BY <1>6, <1>s DEF LinkStore, shared, locals
  <2>2. CallKept(t)
    BY <1>6, <1>0 DEF LinkStore, CallKept, inBar, outBar, NodeTypes, LocalsOK, ValuesOK, Ops,
       Goto, shared, locals
  <2>3. \A u \in Threads \ {t} : CallKept(u)
    BY <1>6, <1>0, OtherCalls DEF LinkStore, NodeTypes, ValuesOK, Goto, shared, locals
  <2> QED
    BY <2>1, <2>2, <2>3, LifoStutter
<1>7. ASSUME NEW t \in Threads, LinkCas(t)
      PROVE  [Lifo!Next]_(Lifo!vars)
  <2>1. order["ready"] \in Seq(Nodes) /\ idx[t] \in Nodes
    BY <1>7, <1>0, <1>r DEF LinkCas, Goto, NodeTypes, LocalsOK, Holding
  <2>2. \A u \in Threads \ {t} : CallKept(u)
    BY <1>7, <1>0, OtherCalls DEF LinkCas, NodeTypes, ValuesOK, Goto
  <2>3. CASE op[t] = "pop"
    <3>1. order'["ready"] = order["ready"] /\ value' = value
      BY <1>7, <1>0, <1>r, <2>3 DEF LinkCas, NodeTypes, Sink
    <3>2. stackBar' = stackBar
      BY <3>1, BarFacts
    <3>3. CallKept(t)
      BY <1>7, <1>0, <2>3 DEF LinkCas, CallKept, inBar, outBar, NodeTypes, Goto
    <3> QED
      BY <2>2, <3>2, <3>3, LifoStutter
  <2>4. CASE op[t] = "push"
    <3>1. /\ order'["ready"] = <<idx[t]>> \o order["ready"] /\ value' = value
          /\ value[idx[t]] = val[t] /\ val[t] \in Values
      BY <1>7, <1>0, <1>r, <2>4 DEF LinkCas, NodeTypes, Sink, ValuesOK, Goto
    <3>2. stackBar' = <<val[t]>> \o stackBar
      BY <1>0, <2>1, <3>1, BarFacts, ValuesOfCons DEF ValuesOK
    <3>3. inBar[t] = val[t] /\ inBar'[t] = NoValue
      BY <1>7, <1>0, <2>4 DEF LinkCas, inBar, NodeTypes, Goto
    <3>4. outBar[t] = NoValue /\ outBar'[t] = NoValue
      BY <1>7, <1>0, <2>4 DEF LinkCas, outBar, NodeTypes, Goto
    <3>5. outBar' = outBar
      BY <2>2, <3>4, BarFacts DEF CallKept
    <3>6. inBar' = [inBar EXCEPT ![t] = NoValue]
      BY <2>2, <3>3, BarFacts DEF CallKept
    <3>7. Lifo!DoPush(t)
      BY <3>1, <3>2, <3>3, <3>5, <3>6 DEF Lifo!DoPush
    <3> QED
      BY <3>7 DEF Lifo!Next
  <2> QED
    BY <1>0, <2>3, <2>4 DEF NodeTypes, Ops
<1>8. ASSUME NEW t \in Threads, LinkRetry(t)
      PROVE  [Lifo!Next]_(Lifo!vars)
  <2>1. stackBar' = stackBar
    BY <1>8, <1>s DEF LinkRetry, shared, locals
  <2>2. CallKept(t)
    BY <1>8, <1>0 DEF LinkRetry, CallKept, inBar, outBar, NodeTypes, LocalsOK, ValuesOK, Ops,
       Goto, shared, locals
  <2>3. \A u \in Threads \ {t} : CallKept(u)
    BY <1>8, <1>0, OtherCalls DEF LinkRetry, NodeTypes, ValuesOK, Goto, shared, locals
  <2> QED
    BY <2>1, <2>2, <2>3, LifoStutter
<1>9. ASSUME NEW t \in Threads, TakeFresh(t)
      PROVE  [Lifo!Next]_(Lifo!vars)
  <2>1. stackBar' = stackBar
    BY <1>9, <1>s DEF TakeFresh, shared, locals
  <2>2. CallKept(t)
    BY <1>9, <1>0 DEF TakeFresh, CallKept, inBar, outBar, NodeTypes, LocalsOK, ValuesOK, Ops,
       Goto, shared, locals
  <2>3. \A u \in Threads \ {t} : CallKept(u)
    BY <1>9, <1>0, OtherCalls DEF TakeFresh, NodeTypes, ValuesOK, Goto, shared, locals
  <2> QED
    BY <2>1, <2>2, <2>3, LifoStutter
<1>10. ASSUME NEW t \in Threads, BadAlloc(t)
      PROVE  [Lifo!Next]_(Lifo!vars)
  <2>1. stackBar' = stackBar
    BY <1>10, <1>s DEF BadAlloc
  <2>2. \A u \in Threads \ {t} : CallKept(u)
    BY <1>10, <1>0, OtherCalls DEF BadAlloc, NodeTypes, Goto, locals
  <2>3. inBar[t] # NoValue /\ inBar'[t] = NoValue /\ outBar'[t] = outBar[t]
    BY <1>10, <1>0 DEF BadAlloc, inBar, outBar, NodeTypes, LocalsOK, ValuesOK, Goto, locals
  <2>4. inBar' = [inBar EXCEPT ![t] = NoValue] /\ outBar' = outBar
    BY <2>2, <2>3, BarFacts DEF CallKept
  <2>5. Lifo!FailPush(t)
    BY <2>1, <2>3, <2>4 DEF Lifo!FailPush
  <2> QED
    BY <2>5 DEF Lifo!Next
<1>11. ASSUME NEW t \in Threads, FindChunk(t)
      PROVE  [Lifo!Next]_(Lifo!vars)
  <2>1. stackBar' = stackBar
    BY <1>11, <1>s DEF FindChunk, shared, locals
  <2>2. CallKept(t)
    BY <1>11, <1>0 DEF FindChunk, CallKept, inBar, outBar, NodeTypes, LocalsOK, ValuesOK, Ops,
       Goto, shared, locals
  <2>3. \A u \in Threads \ {t} : CallKept(u)
    BY <1>11, <1>0, OtherCalls DEF FindChunk, NodeTypes, ValuesOK, Goto, shared, locals
  <2> QED
    BY <2>1, <2>2, <2>3, LifoStutter
<1>12. ASSUME NEW t \in Threads, Install(t)
      PROVE  [Lifo!Next]_(Lifo!vars)
  <2>1. stackBar' = stackBar
    BY <1>12, <1>s DEF Install, shared, locals
  <2>2. CallKept(t)
    BY <1>12, <1>0 DEF Install, CallKept, inBar, outBar, NodeTypes, LocalsOK, ValuesOK, Ops,
       Goto, shared, locals
  <2>3. \A u \in Threads \ {t} : CallKept(u)
    BY <1>12, <1>0, OtherCalls DEF Install, NodeTypes, ValuesOK, Goto, shared, locals
  <2> QED
    BY <2>1, <2>2, <2>3, LifoStutter
<1>13. ASSUME NEW t \in Threads, WriteValue(t)
      PROVE  [Lifo!Next]_(Lifo!vars)
  <2>1. Holding(t) /\ idx[t] \in Nodes /\ op[t] = "push"
    BY <1>13, <1>0 DEF WriteValue, Goto, Holding, LocalsOK, NodeTypes
  <2>2. /\ \A i \in 1 .. Len(order["ready"]) :
             order["ready"][i] \in Nodes /\ order["ready"][i] # idx[t]
        /\ \A u \in Threads \ {t} : Holding(u) => idx[u] \in Nodes /\ idx[u] # idx[t]
    BY <2>1, <1>0, <1>r DEF StackInv, NodesArePartitioned, NodeTypes, LocalsOK
  <2>3. /\ UNCHANGED <<val, op, idx, order>>
        /\ \A n \in Nodes \ {idx[t]} : value'[n] = value[n]
        /\ \A u \in Threads \ {t} : pc'[u] = pc[u]
    BY <1>13, <1>0, <2>1 DEF WriteValue, Goto, NodeTypes, ValuesOK, locals
  <2>4. stackBar' = stackBar
    BY <2>2, <2>3 DEF stackBar
  <2>5. CallKept(t)
    BY <1>13, <1>0, <2>1 DEF WriteValue, CallKept, inBar, outBar, NodeTypes, Goto, locals
  <2>6. \A u \in Threads \ {t} : CallKept(u)
    BY <2>2, <2>3, OtherCalls DEF Holding
  <2> QED
    BY <2>4, <2>5, <2>6, LifoStutter
<1>14. ASSUME NEW t \in Threads, TakeValue(t)
      PROVE  [Lifo!Next]_(Lifo!vars)
  <2>1. stackBar' = stackBar
    BY <1>14, <1>s DEF TakeValue, shared, locals
  <2>2. CallKept(t)
    BY <1>14, <1>0 DEF TakeValue, CallKept, inBar, outBar, NodeTypes, LocalsOK, ValuesOK, Ops,
       Goto, shared, locals
  <2>3. \A u \in Threads \ {t} : CallKept(u)
    BY <1>14, <1>0, OtherCalls DEF TakeValue, NodeTypes, ValuesOK, Goto, shared, locals
  <2> QED
    BY <2>1, <2>2, <2>3, LifoStutter
<1>15. ASSUME NEW t \in Threads, Count(t)
      PROVE  [Lifo!Next]_(Lifo!vars)
  <2>1. stackBar' = stackBar
    BY <1>15, <1>s DEF Count
  <2>2. \A u \in Threads \ {t} : CallKept(u)
    BY <1>15, <1>0, OtherCalls DEF Count, NodeTypes, Goto, locals
  <2>3. CASE op[t] = "push"
    <3>1. CallKept(t)
      BY <1>15, <1>0, <2>3 DEF Count, CallKept, inBar, outBar, NodeTypes, Goto, locals
    <3> QED
      BY <2>1, <2>2, <3>1, LifoStutter
  <2>4. CASE op[t] = "pop"
    <3>1. outBar[t] # NoValue /\ outBar'[t] = NoValue /\ inBar'[t] = inBar[t]
      BY <1>15, <1>0, <2>4 DEF Count, inBar, outBar, NodeTypes, ValuesOK, Goto, locals
    <3>2. outBar' = [outBar EXCEPT ![t] = NoValue] /\ inBar' = inBar
      BY <2>2, <3>1, BarFacts DEF CallKept
    <3>3. Lifo!ReturnPop(t)
      BY <2>1, <3>1, <3>2 DEF Lifo!ReturnPop
    <3> QED
      BY <3>3 DEF Lifo!Next
  <2> QED
    BY <1>0, <2>3, <2>4 DEF NodeTypes, Ops
<1>16. ASSUME NEW t \in Threads, Pop(t)
      PROVE  [Lifo!Next]_(Lifo!vars)
  <2>1. stackBar' = stackBar
    BY <1>16, <1>s DEF Pop, shared, locals
  <2>2. CallKept(t)
    BY <1>16, <1>0 DEF Pop, CallKept, inBar, outBar, NodeTypes, LocalsOK, ValuesOK, Ops, Goto,
       shared, locals
  <2>3. \A u \in Threads \ {t} : CallKept(u)
    BY <1>16, <1>0, OtherCalls DEF Pop, NodeTypes, ValuesOK, Goto, shared, locals
  <2> QED
    BY <2>1, <2>2, <2>3, LifoStutter
<1>17. ASSUME NEW t \in Threads, NEW v \in Values, Push(t, v)
      PROVE  [Lifo!Next]_(Lifo!vars)
  <2>1. stackBar' = stackBar
    BY <1>17, <1>s DEF Push
  <2>2. \A u \in Threads \ {t} : CallKept(u)
    BY <1>17, <1>0, OtherCalls DEF Push, NodeTypes, ValuesOK, Goto
  <2>3. inBar[t] = NoValue /\ outBar[t] = NoValue /\ inBar'[t] = v /\ outBar'[t] = NoValue
    BY <1>17, <1>0 DEF Push, inBar, outBar, NodeTypes, ValuesOK, Goto
  <2>4. inBar' = [inBar EXCEPT ![t] = v] /\ outBar' = outBar
    BY <2>2, <2>3, BarFacts DEF CallKept
  <2>5. Lifo!CallPush(t, v)
    BY <2>1, <2>3, <2>4 DEF Lifo!CallPush
  <2> QED
    BY <2>5 DEF Lifo!Next
<1>18. CASE UNCHANGED vars
  <2>1. stackBar' = stackBar
    BY <1>18, <1>s DEF vars, shared
  <2>2. \A u \in Threads : CallKept(u)
    BY <1>18, OtherCalls DEF vars, shared, locals
  <2> QED
    BY <2>1, <2>2, LifoStutter
<1> QED
    BY <1>1, <1>2, <1>3, <1>4, <1>5, <1>6, <1>7, <1>8, <1>9, <1>10, <1>11, <1>12, <1>13,
       <1>14, <1>15, <1>16, <1>17, <1>18 DEF Next, Step

\* The stack starts as LifoStack does.
LEMMA LifoInit == Init => Lifo!Init
<1> SUFFICES ASSUME Init PROVE Lifo!Init
    OBVIOUS
<1>1. order["ready"] = <<>> /\ Len(order["ready"]) = 0
    BY DEF Init, Lists
<1>2. stackBar = <<>>
    BY <1>1 DEF stackBar
<1>3. inBar = [t \in Threads |-> NoValue] /\ outBar = [t \in Threads |-> NoValue]
    BY DEF Init, inBar, outBar
<1> QED
    BY <1>2, <1>3 DEF Lifo!Init

\* Pushes and pops of any number of threads behave as if each happened at one moment,
\* the compare-and-swap that links or unlinks its node: nothing is lost, invented or
\* handed out twice, and the order is LIFO, before the generation tag has wrapped round.
THEOREM StackIsLifo == Spec /\ []GenerationsLeft => ImplementsLifoStack
BY LifoInit, LifoStep, StackInvariance, PTL DEF Spec, ImplementsLifoStack, Lifo!Spec
=============================================================================
