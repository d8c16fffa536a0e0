-------------------------- MODULE ExceptionsProofs --------------------------
(***************************************************************************)
(* Proofs about exceptions, for any classes, guards, nesting limit and     *)
(* length of run: the handler stack is exact, a handler that runs is       *)
(* visible from its signal, what unwinds has a target, and no cleanup is   *)
(* skipped.                                                                *)
(*                                                                         *)
(* The invariant says of every element of the native stack how it relates  *)
(* to the elements below it (StackOK), and of the handler stack and the    *)
(* active signals how they follow from the native stack (HandlersOK and    *)
(* ActiveOK).  The operators take the stacks as arguments because a step   *)
(* changes them one after the other.                                       *)
(***************************************************************************)
EXTENDS Exceptions, FiniteSetTheorems, SequenceTheorems, WellFoundedInduction, TLAPS

-----------------------------------------------------------------------------
(* The inductive invariant.                                                *)

IsSeq(s) == s \in Seq(ToSet(s))

\* The element keeps the handler with this id from being found.  Handlers get their
\* ids in the order in which they are pushed, so the id stands for the index.
HidesId(e, id) ==
    \/ e.k \in {"help", "foreign"}
    \/ e.k = "signal" /\ e.id <= id

Clear(stk, i, j, id) == \A n \in i .. j : ~HidesId(stk[n], id)

IsProtect(stk, p, id) == stk[p].k = "protect" /\ id \in stk[p].ids

IsSignal(stk, j, id) == stk[j].k = "signal" /\ stk[j].id = id

\* What `f' unwinds to is at position n or below.
Target(f, stk, n) ==
    /\ f.k \in {"unwind", "retry"} => \E j \in 1 .. n : IsProtect(stk, j, f.id)
    /\ f.k \in {"resume", "pass"} => \E j \in 1 .. n : IsSignal(stk, j, f.id)
    /\ f.k = "nlr" => \E j \in 1 .. n :
                         /\ stk[j].k = "engine"
                         /\ \E g \in ToSet(stk[j].frames) : g.id = f.id /\ g.home = f.id

ElementOK(e) ==
    /\ e.k = "protect" =>
          /\ e = [k |-> "protect", guards |-> e.guards, home |-> e.home, ids |-> e.ids,
                  limit |-> e.limit]
          /\ e.guards \in Seq(Guards)
    /\ e.k = "ensure" =>
          /\ e = [k |-> "ensure", always |-> e.always, home |-> e.home, phase |-> e.phase,
                  started |-> e.started, exit |-> e.exit]
          /\ e.started \in Nat
          /\ e.phase # "body" => e.started > 0
          /\ e.phase = "after" => e.exit # None

\* Inner handlers have larger ids.
IdsOK(stk, j) ==
    stk[j].k = "protect" =>
        /\ stk[j].ids \subseteq Nat
        /\ \A p \in 1 .. j - 1 : stk[p].k = "protect" =>
              \A a \in stk[p].ids, b \in stk[j].ids : a < b

\* The handler that runs is one of an on:do: below, and nothing between hides it.
SignalOK(stk, j) ==
    stk[j].k = "signal" =>
        \E p \in 1 .. j - 1 : IsProtect(stk, p, stk[j].id) /\ Clear(stk, p + 1, j - 1, stk[j].id)

\* An element that hides handlers has disabled those that nothing below it hides.
OffOK(stk, j) ==
    stk[j].k \in {"signal", "help", "foreign"} =>
        \A p \in 1 .. j - 1 : stk[p].k = "protect" =>
            \A h \in stk[p].ids :
                h \in stk[j].off <=> HidesId(stk[j], h) /\ Clear(stk, p + 1, j - 1, h)

\* What a cleanup will go on with still has its target.
ExitOK(stk, j) == stk[j].k = "ensure" => Target(stk[j].exit, stk, j - 1)

PositionOK(stk, j) ==
    /\ ElementOK(stk[j]) /\ IdsOK(stk, j) /\ SignalOK(stk, j) /\ OffOK(stk, j) /\ ExitOK(stk, j)

StackOK(stk) == IsSeq(stk) /\ \A j \in 1 .. Len(stk) : PositionOK(stk, j)

EntriesOK(hs, next) ==
    /\ IsSeq(hs)
    /\ next \in Nat
    /\ \A i \in 1 .. Len(hs) :
          /\ hs[i] = [id |-> hs[i].id, guard |-> hs[i].guard, home |-> hs[i].home, on |-> hs[i].on]
          /\ hs[i].on \in BOOLEAN
          /\ hs[i].id \in 1 .. next - 1
    /\ \A i, j \in 1 .. Len(hs) : i < j => hs[i].id < hs[j].id

\* The entries are those of the on:do: on the stack, and an entry is enabled exactly
\* when nothing above its on:do: hides it.
HandlersOK(stk, hs, next) ==
    /\ EntriesOK(hs, next)
    /\ next > 0
    /\ \A i \in 1 .. Len(hs) : \E p \in 1 .. Len(stk) : IsProtect(stk, p, hs[i].id)
    /\ \A p \in 1 .. Len(stk) : stk[p].k = "protect" =>
          \A h \in stk[p].ids : \E i \in 1 .. Len(hs) : hs[i].id = h
    /\ \A i \in 1 .. Len(hs), p \in 1 .. Len(stk) : IsProtect(stk, p, hs[i].id) =>
          (hs[i].on <=> Clear(stk, p + 1, Len(stk), hs[i].id))

ActiveAreSignals(stk, act) ==
    \A a \in 1 .. Len(act) : \E j \in 1 .. Len(stk) : IsSignal(stk, j, act[a].id)

SignalsAreActive(stk, act) ==
    \A j \in 1 .. Len(stk) : stk[j].k = "signal" =>
        \E a \in 1 .. Len(act) : act[a].id = stk[j].id

ActiveInOrder(stk, act) ==
    \A a, b \in 1 .. Len(act), i, j \in 1 .. Len(stk) :
        a < b /\ IsSignal(stk, i, act[a].id) /\ IsSignal(stk, j, act[b].id) => i < j

\* The active signals are those of the native stack, in their order.
ActiveOK(stk, act) ==
    /\ IsSeq(act)
    /\ ActiveAreSignals(stk, act) /\ SignalsAreActive(stk, act) /\ ActiveInOrder(stk, act)

StacksOK(stk, hs, act, next) == StackOK(stk) /\ HandlersOK(stk, hs, next) /\ ActiveOK(stk, act)

FlightOK(f, stk) == Target(f, stk, Len(stk)) /\ (f = None => stk # <<>>)

ExceptionsInv == StacksOK(stack, handlers, active, nextHandler) /\ FlightOK(flight, stack)

-----------------------------------------------------------------------------
(* Sequences.                                                              *)

\* A nonempty set of indices has a largest one.
LEMMA LargestIndex ==
    ASSUME NEW n \in Nat, NEW S \in SUBSET (1 .. n), S # {}
    PROVE  \E i \in S : \A j \in S : j <= i
<1> DEFINE T == {k \in Nat : n - k \in S}
<1>1. T # {}
  <2> PICK i \in S : TRUE
    OBVIOUS
  <2>1. n - i \in Nat /\ n - (n - i) = i
    OBVIOUS
  <2> QED
    BY <2>1
<1>2. \E x \in T : \A y \in T : ~ (<<y, x>> \in OpToRel(<, Nat))
  <2> HIDE DEF T
  <2>1. T \subseteq Nat
    BY DEF T
  <2> QED
    BY <1>1, <2>1, NatLessThanWellFounded, WFMin
<1>3. PICK x \in T : \A y \in T : ~ (<<y, x>> \in OpToRel(<, Nat))
  BY <1>2
<1>4. \A y \in T : ~ (y < x)
  BY <1>3 DEF OpToRel
<1>5. ASSUME NEW j \in S PROVE j <= n - x
  <2>1. n - j \in Nat /\ n - (n - j) = j
    OBVIOUS
  <2>2. n - j \in T
    BY <2>1
  <2> QED
    BY <1>4, <2>1, <2>2
<1> QED
  BY <1>5

\* Appending keeps what is below.
LEMMA AppendFacts ==
    ASSUME NEW s, IsSeq(s), NEW e
    PROVE  /\ IsSeq(Append(s, e))
           /\ Len(s) \in Nat
           /\ Len(Append(s, e)) = Len(s) + 1
           /\ DOMAIN s = 1 .. Len(s)
           /\ DOMAIN Append(s, e) = 1 .. Len(s) + 1
           /\ \A i \in 1 .. Len(s) : Append(s, e)[i] = s[i]
           /\ Append(s, e)[Len(s) + 1] = e
<1>1. s \in Seq(ToSet(s) \cup {e})
  BY DEF IsSeq
<1>2. /\ Len(s) \in Nat
      /\ Len(Append(s, e)) = Len(s) + 1
      /\ DOMAIN s = 1 .. Len(s)
      /\ DOMAIN Append(s, e) = 1 .. Len(s) + 1
      /\ \A i \in 1 .. Len(s) : Append(s, e)[i] = s[i]
      /\ Append(s, e)[Len(s) + 1] = e
      /\ Append(s, e) \in Seq(ToSet(s) \cup {e})
  BY <1>1
<1>3. Append(s, e) \in Seq(ToSet(Append(s, e)))
  BY <1>2 DEF ToSet
<1> QED
  BY <1>2, <1>3 DEF IsSeq

\* Removing the top keeps what is below.
LEMMA FrontFacts ==
    ASSUME NEW s, IsSeq(s), s # <<>>
    PROVE  /\ IsSeq(Front(s))
           /\ Len(s) \in Nat \ {0}
           /\ Len(Front(s)) = Len(s) - 1
           /\ DOMAIN s = 1 .. Len(s)
           /\ DOMAIN Front(s) = 1 .. Len(s) - 1
           /\ \A i \in 1 .. Len(s) - 1 : Front(s)[i] = s[i]
           /\ Last(s) = s[Len(s)]
<1>1. s \in Seq(ToSet(s))
  BY DEF IsSeq
<1>2. /\ Len(s) \in Nat \ {0}
      /\ DOMAIN s = 1 .. Len(s)
  BY <1>1
<1>3. /\ Front(s) \in Seq(ToSet(s))
      /\ Len(Front(s)) = Len(s) - 1
      /\ DOMAIN Front(s) = 1 .. Len(s) - 1
      /\ \A i \in 1 .. Len(s) - 1 : Front(s)[i] = s[i]
  BY <1>1, <1>2 DEF Front
<1>4. Front(s) \in Seq(ToSet(Front(s)))
  BY <1>3 DEF ToSet
<1> QED
  BY <1>2, <1>3, <1>4 DEF IsSeq, Last

\* A function over an initial segment of the numbers is a sequence.
LEMMA FunctionIsSeq ==
    ASSUME NEW n \in Nat, NEW s, s = [i \in 1 .. n |-> s[i]]
    PROVE  IsSeq(s) /\ Len(s) = n /\ DOMAIN s = 1 .. n
<1>1. s \in [1 .. n -> ToSet(s)]
  BY DEF ToSet
<1>2. s \in Seq(ToSet(s))
  BY <1>1
<1> QED
  BY <1>1, <1>2 DEF IsSeq

\* A sequence has a length, its domain.
LEMMA SeqFacts ==
    ASSUME NEW s, IsSeq(s)
    PROVE  Len(s) \in Nat /\ DOMAIN s = 1 .. Len(s)
BY DEF IsSeq

-----------------------------------------------------------------------------
(* The native stack.                                                       *)

\* What the invariant says of a position depends only on the stack up to it.
LEMMA PrefixOK ==
    ASSUME NEW s, NEW t, NEW j \in Nat \ {0}, \A i \in 1 .. j : s[i] = t[i],
           PositionOK(s, j)
    PROVE  PositionOK(t, j)
<1>0. s[j] = t[j]
  OBVIOUS
<1>1. ASSUME NEW p \in 1 .. j - 1
      PROVE  s[p] = t[p]
  OBVIOUS
<1>2. ASSUME NEW p \in 1 .. j - 1, NEW h
      PROVE  Clear(s, p + 1, j - 1, h) <=> Clear(t, p + 1, j - 1, h)
  BY <1>1 DEF Clear
<1>3. ElementOK(t[j])
  BY <1>0 DEF PositionOK
<1>4. IdsOK(t, j)
  <2>1. IdsOK(s, j)
    BY DEF PositionOK
  <2> QED
    BY <1>0, <1>1, <2>1 DEF IdsOK
<1>5. SignalOK(t, j)
  <2>1. SignalOK(s, j)
    BY DEF PositionOK
  <2> QED
    BY <1>0, <1>1, <1>2, <2>1 DEF SignalOK, IsProtect
<1>6. OffOK(t, j)
  <2>1. OffOK(s, j)
    BY DEF PositionOK
  <2> QED
    BY <1>0, <1>1, <1>2, <2>1 DEF OffOK
<1>7. ExitOK(t, j)
  <2>1. ExitOK(s, j)
    BY DEF PositionOK
  <2>2. s[j].k = "ensure" => Target(s[j].exit, t, j - 1)
    BY <1>1, <2>1 DEF ExitOK, Target, IsProtect, IsSignal
  <2> QED
    BY <1>0, <2>2 DEF ExitOK
<1> QED
  BY <1>3, <1>4, <1>5, <1>6, <1>7 DEF PositionOK

\* A stack without its top is well formed.
LEMMA PopStack ==
    ASSUME NEW stk, StackOK(stk), stk # <<>>
    PROVE  StackOK(Front(stk))
<1>1. IsSeq(stk) /\ \A j \in 1 .. Len(stk) : PositionOK(stk, j)
  BY DEF StackOK
<1>2. /\ IsSeq(Front(stk))
      /\ Len(stk) \in Nat \ {0}
      /\ Len(Front(stk)) = Len(stk) - 1
      /\ \A i \in 1 .. Len(stk) - 1 : Front(stk)[i] = stk[i]
  BY <1>1, FrontFacts
<1>3. ASSUME NEW j \in 1 .. Len(stk) - 1
      PROVE  PositionOK(Front(stk), j)
  <2>1. j \in Nat \ {0} /\ \A i \in 1 .. j : stk[i] = Front(stk)[i]
    BY <1>2
  <2>2. PositionOK(stk, j)
    BY <1>1, <1>2
  <2> QED
    BY <2>1, <2>2, PrefixOK
<1> QED
  BY <1>2, <1>3 DEF StackOK

\* A stack stays well formed when the element that is pushed is.
LEMMA PushStack ==
    ASSUME NEW stk, StackOK(stk), NEW e, PositionOK(Append(stk, e), Len(stk) + 1)
    PROVE  StackOK(Append(stk, e))
<1> DEFINE t == Append(stk, e)
<1>1. IsSeq(stk) /\ \A j \in 1 .. Len(stk) : PositionOK(stk, j)
  BY DEF StackOK
<1>2. /\ IsSeq(t)
      /\ Len(stk) \in Nat
      /\ Len(t) = Len(stk) + 1
      /\ \A i \in 1 .. Len(stk) : t[i] = stk[i]
  BY <1>1, AppendFacts
<1> HIDE DEF t
<1>3. ASSUME NEW j \in 1 .. Len(stk)
      PROVE  PositionOK(t, j)
  <2>1. j \in Nat \ {0} /\ \A i \in 1 .. j : stk[i] = t[i]
    BY <1>2
  <2> QED
    BY <1>1, <2>1, PrefixOK
<1>4. PositionOK(t, Len(stk) + 1)
  BY DEF t
<1>5. \A j \in 1 .. Len(t) : PositionOK(t, j)
  BY <1>2, <1>3, <1>4
<1> QED
  BY <1>2, <1>5 DEF StackOK, t

\* A handler has one on:do:.
LEMMA ProtectUnique ==
    ASSUME NEW stk, StackOK(stk), NEW p \in 1 .. Len(stk), NEW q \in 1 .. Len(stk), NEW h,
           IsProtect(stk, p, h), IsProtect(stk, q, h)
    PROVE  p = q
<1>0. Len(stk) \in Nat
  BY SeqFacts DEF StackOK
<1>1. ASSUME NEW a \in 1 .. Len(stk), NEW b \in 1 .. Len(stk), a < b,
             IsProtect(stk, a, h), IsProtect(stk, b, h)
      PROVE  FALSE
  <2>1. IdsOK(stk, b)
    BY DEF StackOK, PositionOK
  <2>2. h \in Nat /\ a \in 1 .. b - 1
    BY <1>0, <1>1, <2>1 DEF IdsOK, IsProtect
  <2>3. h < h
    BY <1>1, <2>1, <2>2 DEF IdsOK, IsProtect
  <2> QED
    BY <2>2, <2>3
<1>2. ~ (p < q) /\ ~ (q < p)
  BY <1>1
<1> QED
  BY <1>0, <1>2

\* The on:do: of a handler that runs is below the signal, and the only one.
LEMMA SignalHasProtect ==
    ASSUME NEW stk, StackOK(stk), NEW j \in 1 .. Len(stk), stk[j].k = "signal"
    PROVE  /\ \E p \in 1 .. j - 1 : IsProtect(stk, p, stk[j].id)
           /\ stk[j].id \in Nat
           /\ \A p \in 1 .. Len(stk) : IsProtect(stk, p, stk[j].id) =>
                 p < j /\ Clear(stk, p + 1, j - 1, stk[j].id)
<1>0. Len(stk) \in Nat
  BY SeqFacts DEF StackOK
<1>1. SignalOK(stk, j)
  BY DEF StackOK, PositionOK
<1>2. PICK p \in 1 .. j - 1 :
          IsProtect(stk, p, stk[j].id) /\ Clear(stk, p + 1, j - 1, stk[j].id)
  BY <1>1 DEF SignalOK
<1>3. p \in 1 .. Len(stk) /\ p < j
  BY <1>0
<1>4. IdsOK(stk, p)
  BY <1>3 DEF StackOK, PositionOK
<1>5. stk[j].id \in Nat
  BY <1>2, <1>4 DEF IdsOK, IsProtect
<1>6. ASSUME NEW q \in 1 .. Len(stk), IsProtect(stk, q, stk[j].id)
      PROVE  q = p
  BY <1>2, <1>3, <1>6, ProtectUnique
<1> QED
  BY <1>2, <1>3, <1>5, <1>6

\* No two signals run the same handler: the inner one would find it hidden.
LEMMA SignalUnique ==
    ASSUME NEW stk, StackOK(stk), NEW i \in 1 .. Len(stk), NEW j \in 1 .. Len(stk),
           stk[i].k = "signal", stk[j].k = "signal", stk[i].id = stk[j].id
    PROVE  i = j
<1>0. Len(stk) \in Nat
  BY SeqFacts DEF StackOK
<1>1. ASSUME NEW a \in 1 .. Len(stk), NEW b \in 1 .. Len(stk), a < b,
             stk[a].k = "signal", stk[b].k = "signal", stk[a].id = stk[b].id
      PROVE  FALSE
  <2>1. PICK p \in 1 .. a - 1 : IsProtect(stk, p, stk[a].id)
    BY <1>1, SignalHasProtect
  <2>2. p \in 1 .. Len(stk) /\ a \in p + 1 .. b - 1
    BY <1>0, <1>1
  <2>3. Clear(stk, p + 1, b - 1, stk[b].id)
    BY <1>1, <2>1, <2>2, SignalHasProtect
  <2>4. stk[b].id \in Nat
    BY <1>1, SignalHasProtect
  <2> QED
    BY <1>1, <2>2, <2>3, <2>4 DEF Clear, HidesId
<1>2. ~ (i < j) /\ ~ (j < i)
  BY <1>1
<1> QED
  BY <1>0, <1>2

\* What hides a handler after a push: what did before, and the element pushed.
LEMMA ClearPush ==
    ASSUME NEW stk, IsSeq(stk), NEW e, NEW p \in 1 .. Len(stk), NEW h
    PROVE  Clear(Append(stk, e), p + 1, Len(stk) + 1, h)
              <=> Clear(stk, p + 1, Len(stk), h) /\ ~HidesId(e, h)
<1> DEFINE t == Append(stk, e)
<1>1. /\ Len(stk) \in Nat
      /\ \A i \in 1 .. Len(stk) : t[i] = stk[i]
      /\ t[Len(stk) + 1] = e
  BY AppendFacts
<1> HIDE DEF t
<1>2. \A n \in p + 1 .. Len(stk) + 1 : n = Len(stk) + 1 \/ n \in p + 1 .. Len(stk)
  BY <1>1
<1>3. \A n \in p + 1 .. Len(stk) : n \in p + 1 .. Len(stk) + 1 /\ t[n] = stk[n]
  BY <1>1
<1>4. Len(stk) + 1 \in p + 1 .. Len(stk) + 1
  BY <1>1
<1>5. Clear(t, p + 1, Len(stk) + 1, h) <=> Clear(stk, p + 1, Len(stk), h) /\ ~HidesId(e, h)
  BY <1>1, <1>2, <1>3, <1>4, Zenon DEF Clear
<1> QED
  BY <1>5 DEF t

\* The same seen from the larger stack.
LEMMA ClearPop ==
    ASSUME NEW stk, IsSeq(stk), stk # <<>>, NEW p \in 1 .. Len(stk) - 1, NEW h
    PROVE  Clear(stk, p + 1, Len(stk), h)
              <=> Clear(Front(stk), p + 1, Len(stk) - 1, h) /\ ~HidesId(Last(stk), h)
<1> DEFINE t == Front(stk)
           top == Last(stk)
<1>1. /\ Len(stk) \in Nat \ {0}
      /\ \A i \in 1 .. Len(stk) - 1 : t[i] = stk[i]
      /\ top = stk[Len(stk)]
  BY FrontFacts
<1> HIDE DEF t, top
<1>2. \A n \in p + 1 .. Len(stk) : n = Len(stk) \/ n \in p + 1 .. Len(stk) - 1
  BY <1>1
<1>3. \A n \in p + 1 .. Len(stk) - 1 : n \in p + 1 .. Len(stk) /\ t[n] = stk[n]
  BY <1>1
<1>4. Len(stk) \in p + 1 .. Len(stk)
  BY <1>1
<1>5. Clear(stk, p + 1, Len(stk), h) <=> Clear(t, p + 1, Len(stk) - 1, h) /\ ~HidesId(top, h)
  BY <1>1, <1>2, <1>3, <1>4, Zenon DEF Clear
<1> QED
  BY <1>5 DEF t, top

-----------------------------------------------------------------------------
(* Pushing and popping what has no handlers and hides none.                *)

Neutral(e) == e.k \in {"engine", "ensure"}

\* A neutral element changes nothing for the handlers.
LEMMA PushNeutralHandlers ==
    ASSUME NEW stk, NEW hs, NEW next, NEW e, StackOK(stk), HandlersOK(stk, hs, next), Neutral(e)
    PROVE  HandlersOK(Append(stk, e), hs, next)
<1> DEFINE t == Append(stk, e)
<1>1. /\ Len(stk) \in Nat
      /\ Len(t) = Len(stk) + 1
      /\ \A i \in 1 .. Len(stk) : t[i] = stk[i]
      /\ t[Len(stk) + 1] = e
  BY AppendFacts DEF StackOK
<1>2. ~ (e.k = "protect") /\ \A h : ~HidesId(e, h)
  BY DEF Neutral, HidesId
<1>3. \A p \in 1 .. Len(stk) : \A h : Clear(t, p + 1, Len(t), h) <=> Clear(stk, p + 1, Len(stk), h)
  BY <1>1, <1>2, ClearPush DEF StackOK
<1> HIDE DEF t
<1>4. \A p \in 1 .. Len(t) : p \in 1 .. Len(stk) \/ p = Len(stk) + 1
  BY <1>1
<1>5. \A p \in 1 .. Len(stk) : p \in 1 .. Len(t)
  BY <1>1
<1>6. \A i \in 1 .. Len(hs) : \E p \in 1 .. Len(t) : IsProtect(t, p, hs[i].id)
  BY <1>1, <1>5 DEF HandlersOK, IsProtect
<1>7. \A p \in 1 .. Len(t) : t[p].k = "protect" => p \in 1 .. Len(stk) /\ t[p] = stk[p]
  BY <1>1, <1>2, <1>4
<1>8. \A i \in 1 .. Len(hs), p \in 1 .. Len(t) : IsProtect(t, p, hs[i].id) =>
          (hs[i].on <=> Clear(t, p + 1, Len(t), hs[i].id))
  BY <1>3, <1>7, Zenon DEF HandlersOK, IsProtect
<1>9. \A p \in 1 .. Len(t) : t[p].k = "protect" =>
          \A h \in t[p].ids : \E i \in 1 .. Len(hs) : hs[i].id = h
  BY <1>7, Zenon DEF HandlersOK
<1> QED
  BY <1>6, <1>8, <1>9 DEF HandlersOK, t

\* Nor does its removal.
LEMMA PopNeutralHandlers ==
    ASSUME NEW stk, NEW hs, NEW next, StackOK(stk), HandlersOK(stk, hs, next), stk # <<>>,
           Neutral(Last(stk))
    PROVE  HandlersOK(Front(stk), hs, next)
<1> DEFINE t == Front(stk)
           e == Last(stk)
<1>1. /\ Len(stk) \in Nat \ {0}
      /\ Len(t) = Len(stk) - 1
      /\ \A i \in 1 .. Len(stk) - 1 : t[i] = stk[i]
      /\ stk[Len(stk)] = e
  BY FrontFacts DEF StackOK
<1>2. ~ (e.k = "protect") /\ \A h : ~HidesId(e, h)
  BY DEF Neutral, HidesId
<1>3. \A p \in 1 .. Len(t) : \A h : Clear(t, p + 1, Len(t), h) <=> Clear(stk, p + 1, Len(stk), h)
  BY <1>1, <1>2, ClearPop DEF StackOK
<1> HIDE DEF t, e
<1>4. \A p \in 1 .. Len(stk) : p \in 1 .. Len(t) \/ p = Len(stk)
  BY <1>1
<1>5. \A p \in 1 .. Len(t) : p \in 1 .. Len(stk) /\ t[p] = stk[p]
  BY <1>1
<1>6. \A p \in 1 .. Len(stk) : stk[p].k = "protect" => p \in 1 .. Len(t)
  BY <1>1, <1>2, <1>4
<1>7. \A i \in 1 .. Len(hs) : \E p \in 1 .. Len(t) : IsProtect(t, p, hs[i].id)
  BY <1>5, <1>6, Zenon DEF HandlersOK, IsProtect
<1>8. \A i \in 1 .. Len(hs), p \in 1 .. Len(t) : IsProtect(t, p, hs[i].id) =>
          (hs[i].on <=> Clear(t, p + 1, Len(t), hs[i].id))
  BY <1>3, <1>5, Zenon DEF HandlersOK, IsProtect
<1>9. \A p \in 1 .. Len(t) : t[p].k = "protect" =>
          \A h \in t[p].ids : \E i \in 1 .. Len(hs) : hs[i].id = h
  BY <1>5, Zenon DEF HandlersOK
<1> QED
  BY <1>7, <1>8, <1>9 DEF HandlersOK, t

\* An element that is no signal changes nothing for the active signals.
LEMMA PushActive ==
    ASSUME NEW stk, NEW act, NEW e, StackOK(stk), ActiveOK(stk, act), e.k # "signal"
    PROVE  ActiveOK(Append(stk, e), act)
<1> DEFINE t == Append(stk, e)
<1>1. /\ Len(stk) \in Nat
      /\ Len(t) = Len(stk) + 1
      /\ \A i \in 1 .. Len(stk) : t[i] = stk[i]
      /\ t[Len(stk) + 1] = e
  BY AppendFacts DEF StackOK
<1> HIDE DEF t
<1>2. \A i \in 1 .. Len(stk) : i \in 1 .. Len(t) /\ t[i] = stk[i]
  BY <1>1
<1>3. \A i \in 1 .. Len(t) : t[i].k = "signal" => i \in 1 .. Len(stk) /\ t[i] = stk[i]
  <2>1. \A i \in 1 .. Len(t) : i \in 1 .. Len(stk) \/ i = Len(stk) + 1
    BY <1>1
  <2> QED
    BY <1>1, <2>1
<1>5. ActiveAreSignals(t, act)
  BY <1>2, <1>3, Zenon DEF ActiveOK, ActiveAreSignals, IsSignal
<1>6. SignalsAreActive(t, act)
  BY <1>2, <1>3, Zenon DEF ActiveOK, SignalsAreActive, IsSignal
<1>7. ActiveInOrder(t, act)
  BY <1>2, <1>3, Zenon DEF ActiveOK, ActiveInOrder, IsSignal
<1> QED
  BY <1>5, <1>6, <1>7 DEF ActiveOK, t

\* Nor does its removal.
LEMMA PopActive ==
    ASSUME NEW stk, NEW act, StackOK(stk), ActiveOK(stk, act), stk # <<>>,
           Last(stk).k # "signal"
    PROVE  ActiveOK(Front(stk), act)
<1> DEFINE t == Front(stk)
           e == Last(stk)
<1>1. /\ Len(stk) \in Nat \ {0}
      /\ Len(t) = Len(stk) - 1
      /\ \A i \in 1 .. Len(stk) - 1 : t[i] = stk[i]
      /\ stk[Len(stk)] = e
  BY FrontFacts DEF StackOK
<1>2. e.k # "signal"
  OBVIOUS
<1> HIDE DEF t, e
<1>3. \A i \in 1 .. Len(t) : i \in 1 .. Len(stk) /\ t[i] = stk[i]
  BY <1>1
<1>4. \A i \in 1 .. Len(stk) : stk[i].k = "signal" => i \in 1 .. Len(t)
  <2>1. \A i \in 1 .. Len(stk) : i \in 1 .. Len(t) \/ i = Len(stk)
    BY <1>1
  <2> QED
    BY <1>1, <1>2, <2>1
<1>5. ActiveAreSignals(t, act)
  BY <1>3, <1>4, Zenon DEF ActiveOK, ActiveAreSignals, IsSignal
<1>6. SignalsAreActive(t, act)
  BY <1>3, <1>4, Zenon DEF ActiveOK, SignalsAreActive, IsSignal
<1>7. ActiveInOrder(t, act)
  BY <1>3, <1>4, Zenon DEF ActiveOK, ActiveInOrder, IsSignal
<1> QED
  BY <1>5, <1>6, <1>7 DEF ActiveOK, t

-----------------------------------------------------------------------------
(* Disabling and restoring handlers.                                       *)

\* handlerStackDisableFrom and handlerStackDisableAll change no more than the flags of
\* the entries they name.
LEMMA DisableFacts ==
    ASSUME NEW hs, NEW next, NEW S, EntriesOK(hs, next)
    PROVE  LET d == HandlerStackDisable(hs, S)
           IN  /\ EntriesOK(d, next)
               /\ Len(d) = Len(hs)
               /\ \A i \in 1 .. Len(hs) : /\ d[i].id = hs[i].id
                                          /\ d[i].on <=> hs[i].on /\ hs[i].id \notin S
<1> DEFINE d == HandlerStackDisable(hs, S)
<1>1. Len(hs) \in Nat /\ DOMAIN hs = 1 .. Len(hs)
  BY SeqFacts DEF EntriesOK
<1>2. d = [i \in 1 .. Len(hs) |-> IF hs[i].id \in S THEN [hs[i] EXCEPT !.on = FALSE] ELSE hs[i]]
  BY <1>1 DEF HandlerStackDisable
<1> HIDE DEF d
<1>3. d = [i \in 1 .. Len(hs) |-> d[i]]
  BY <1>2
<1>4. IsSeq(d) /\ Len(d) = Len(hs)
  BY <1>1, <1>3, FunctionIsSeq
<1>5. ASSUME NEW i \in 1 .. Len(hs)
      PROVE  /\ d[i] = [id |-> d[i].id, guard |-> d[i].guard, home |-> d[i].home, on |-> d[i].on]
             /\ d[i].on \in BOOLEAN
             /\ d[i].id = hs[i].id
             /\ d[i].on <=> hs[i].on /\ hs[i].id \notin S
  <2>1. /\ hs[i] = [id |-> hs[i].id, guard |-> hs[i].guard, home |-> hs[i].home,
                    on |-> hs[i].on]
        /\ hs[i].on \in BOOLEAN
    BY DEF EntriesOK
  <2>2. CASE hs[i].id \in S
    <3>1. d[i] = [hs[i] EXCEPT !.on = FALSE]
      BY <1>2, <2>2
    <3>2. d[i] = [id |-> hs[i].id, guard |-> hs[i].guard, home |-> hs[i].home, on |-> FALSE]
      BY <2>1, <3>1
    <3> QED
      BY <2>2, <3>2
  <2>3. CASE hs[i].id \notin S
    <3>1. d[i] = hs[i]
      BY <1>2, <2>3
    <3> QED
      BY <2>1, <2>3, <3>1
  <2> QED
    BY <2>2, <2>3
<1>6. EntriesOK(d, next)
  BY <1>4, <1>5 DEF EntriesOK
<1> QED
  BY <1>4, <1>5, <1>6 DEF d

\* handlerStackRestore does the opposite.
LEMMA RestoreFacts ==
    ASSUME NEW hs, NEW next, NEW S, EntriesOK(hs, next)
    PROVE  LET d == HandlerStackRestore(hs, S)
           IN  /\ EntriesOK(d, next)
               /\ Len(d) = Len(hs)
               /\ \A i \in 1 .. Len(hs) : /\ d[i].id = hs[i].id
                                          /\ d[i].on <=> hs[i].on \/ hs[i].id \in S
<1> DEFINE d == HandlerStackRestore(hs, S)
<1>1. Len(hs) \in Nat /\ DOMAIN hs = 1 .. Len(hs)
  BY SeqFacts DEF EntriesOK
<1>2. d = [i \in 1 .. Len(hs) |-> IF hs[i].id \in S THEN [hs[i] EXCEPT !.on = TRUE] ELSE hs[i]]
  BY <1>1 DEF HandlerStackRestore
<1> HIDE DEF d
<1>3. d = [i \in 1 .. Len(hs) |-> d[i]]
  BY <1>2
<1>4. IsSeq(d) /\ Len(d) = Len(hs)
  BY <1>1, <1>3, FunctionIsSeq
<1>5. ASSUME NEW i \in 1 .. Len(hs)
      PROVE  /\ d[i] = [id |-> d[i].id, guard |-> d[i].guard, home |-> d[i].home, on |-> d[i].on]
             /\ d[i].on \in BOOLEAN
             /\ d[i].id = hs[i].id
             /\ d[i].on <=> hs[i].on \/ hs[i].id \in S
  <2>1. /\ hs[i] = [id |-> hs[i].id, guard |-> hs[i].guard, home |-> hs[i].home,
                    on |-> hs[i].on]
        /\ hs[i].on \in BOOLEAN
    BY DEF EntriesOK
  <2>2. CASE hs[i].id \in S
    <3>1. d[i] = [hs[i] EXCEPT !.on = TRUE]
      BY <1>2, <2>2
    <3>2. d[i] = [id |-> hs[i].id, guard |-> hs[i].guard, home |-> hs[i].home, on |-> TRUE]
      BY <2>1, <3>1
    <3> QED
      BY <2>2, <3>2
  <2>3. CASE hs[i].id \notin S
    <3>1. d[i] = hs[i]
      BY <1>2, <2>3
    <3> QED
      BY <2>1, <2>3, <3>1
  <2> QED
    BY <2>2, <2>3
<1>6. EntriesOK(d, next)
  BY <1>4, <1>5 DEF EntriesOK
<1> QED
  BY <1>4, <1>5, <1>6 DEF d

Hider(e) == e.k \in {"signal", "help", "foreign"}

\* The ids that a hiding element has to disable when it is pushed.
Hidden(hs, e, S) ==
    \A i \in 1 .. Len(hs) : hs[i].id \in S <=> hs[i].on /\ HidesId(e, hs[i].id)

\* Pushing an element that hides handlers and disabling those it hides.
LEMMA PushHiderHandlers ==
    ASSUME NEW stk, NEW hs, NEW next, NEW e, NEW S, StackOK(stk), HandlersOK(stk, hs, next),
           Hider(e), Hidden(hs, e, S)
    PROVE  HandlersOK(Append(stk, e), HandlerStackDisable(hs, S), next)
<1> DEFINE t == Append(stk, e)
           d == HandlerStackDisable(hs, S)
<1>1. /\ Len(stk) \in Nat
      /\ Len(t) = Len(stk) + 1
      /\ \A i \in 1 .. Len(stk) : t[i] = stk[i]
      /\ t[Len(stk) + 1] = e
  BY AppendFacts DEF StackOK
<1>2. ~ (e.k = "protect")
  BY DEF Hider
<1>3. \A p \in 1 .. Len(stk) : \A h :
          Clear(t, p + 1, Len(t), h) <=> Clear(stk, p + 1, Len(stk), h) /\ ~HidesId(e, h)
  BY <1>1, ClearPush DEF StackOK
<1>4. /\ EntriesOK(d, next)
      /\ Len(d) = Len(hs)
      /\ \A i \in 1 .. Len(hs) : /\ d[i].id = hs[i].id
                                 /\ d[i].on <=> hs[i].on /\ hs[i].id \notin S
  BY DisableFacts DEF HandlersOK
<1> HIDE DEF t, d
<1>5. \A p \in 1 .. Len(stk) : p \in 1 .. Len(t) /\ t[p] = stk[p]
  BY <1>1
<1>6. \A p \in 1 .. Len(t) : t[p].k = "protect" => p \in 1 .. Len(stk) /\ t[p] = stk[p]
  <2>1. \A p \in 1 .. Len(t) : p \in 1 .. Len(stk) \/ p = Len(stk) + 1
    BY <1>1
  <2> QED
    BY <1>1, <1>2, <2>1
<1>7. \A i \in 1 .. Len(hs) : \E p \in 1 .. Len(t) : IsProtect(t, p, d[i].id)
  BY <1>4, <1>5, Zenon DEF HandlersOK, IsProtect
<1>8. ASSUME NEW p \in 1 .. Len(t), t[p].k = "protect", NEW h \in t[p].ids
      PROVE  \E i \in 1 .. Len(hs) : d[i].id = h
  <2>1. p \in 1 .. Len(stk) /\ stk[p].k = "protect" /\ h \in stk[p].ids
    BY <1>6, <1>8
  <2>2. PICK i \in 1 .. Len(hs) : hs[i].id = h
    BY <2>1 DEF HandlersOK
  <2> QED
    BY <1>4, <2>2
<1>9. ASSUME NEW i \in 1 .. Len(hs), NEW p \in 1 .. Len(t), IsProtect(t, p, d[i].id)
      PROVE  d[i].on <=> Clear(t, p + 1, Len(t), d[i].id)
  <2>1. p \in 1 .. Len(stk) /\ IsProtect(stk, p, hs[i].id) /\ d[i].id = hs[i].id
    BY <1>4, <1>6, <1>9 DEF IsProtect
  <2>2. hs[i].on <=> Clear(stk, p + 1, Len(stk), hs[i].id)
    BY <2>1 DEF HandlersOK
  <2>3. d[i].on <=> hs[i].on /\ ~HidesId(e, hs[i].id)
    BY <1>4, Zenon DEF Hidden
  <2> QED
    BY <1>3, <2>1, <2>2, <2>3, Zenon
<1>10. next > 0
  BY DEF HandlersOK
<1> QED
  BY <1>4, <1>7, <1>8, <1>9, <1>10 DEF HandlersOK, t, d

\* What it has disabled is what nothing below it hides.
LEMMA PushHiderOff ==
    ASSUME NEW stk, NEW hs, NEW next, NEW e, StackOK(stk), HandlersOK(stk, hs, next),
           Hider(e), Hidden(hs, e, e.off)
    PROVE  OffOK(Append(stk, e), Len(stk) + 1)
<1> DEFINE t == Append(stk, e)
           n == Len(stk) + 1
<1>1. /\ Len(stk) \in Nat
      /\ \A i \in 1 .. Len(stk) : t[i] = stk[i]
      /\ t[n] = e
  BY AppendFacts DEF StackOK
<1> HIDE DEF t
<1>2. ASSUME NEW p \in 1 .. n - 1, t[p].k = "protect", NEW h \in t[p].ids
      PROVE  h \in t[n].off <=> HidesId(t[n], h) /\ Clear(t, p + 1, n - 1, h)
  <2>1. p \in 1 .. Len(stk) /\ IsProtect(stk, p, h)
    BY <1>1, <1>2 DEF IsProtect
  <2>2. PICK i \in 1 .. Len(hs) : hs[i].id = h
    BY <2>1 DEF HandlersOK, IsProtect
  <2>3. hs[i].on <=> Clear(stk, p + 1, Len(stk), h)
    BY <2>1, <2>2 DEF HandlersOK
  <2>4. h \in e.off <=> hs[i].on /\ HidesId(e, h)
    BY <2>2 DEF Hidden
  <2>5. Clear(t, p + 1, n - 1, h) <=> Clear(stk, p + 1, Len(stk), h)
    <3>1. \A m \in p + 1 .. Len(stk) : t[m] = stk[m]
      BY <1>1
    <3>2. n - 1 = Len(stk)
      BY <1>1
    <3> QED
      BY <3>1, <3>2 DEF Clear
  <2> QED
    BY <1>1, <2>3, <2>4, <2>5, Zenon
<1>3. OffOK(t, n)
  BY <1>2, Zenon DEF OffOK
<1> QED
  BY <1>3 DEF t

\* Popping it and restoring what it has disabled.
LEMMA PopHiderHandlers ==
    ASSUME NEW stk, NEW hs, NEW next, StackOK(stk), HandlersOK(stk, hs, next), stk # <<>>,
           Hider(Last(stk))
    PROVE  HandlersOK(Front(stk), HandlerStackRestore(hs, Last(stk).off), next)
<1> DEFINE t == Front(stk)
           e == Last(stk)
           d == HandlerStackRestore(hs, e.off)
<1>1. /\ Len(stk) \in Nat \ {0}
      /\ Len(t) = Len(stk) - 1
      /\ \A i \in 1 .. Len(stk) - 1 : t[i] = stk[i]
      /\ stk[Len(stk)] = e
  BY FrontFacts DEF StackOK
<1>2. ~ (e.k = "protect") /\ e.k \in {"signal", "help", "foreign"}
  BY DEF Hider
<1>3. \A p \in 1 .. Len(t) : \A h :
          Clear(stk, p + 1, Len(stk), h) <=> Clear(t, p + 1, Len(t), h) /\ ~HidesId(e, h)
  BY <1>1, ClearPop DEF StackOK
<1>4. /\ EntriesOK(d, next)
      /\ Len(d) = Len(hs)
      /\ \A i \in 1 .. Len(hs) : /\ d[i].id = hs[i].id
                                 /\ d[i].on <=> hs[i].on \/ hs[i].id \in e.off
  BY RestoreFacts DEF HandlersOK
<1> HIDE DEF t, d, e
<1>5. \A p \in 1 .. Len(t) : p \in 1 .. Len(stk) /\ t[p] = stk[p]
  BY <1>1
<1>6. \A p \in 1 .. Len(stk) : stk[p].k = "protect" => p \in 1 .. Len(t)
  <2>1. \A p \in 1 .. Len(stk) : p \in 1 .. Len(t) \/ p = Len(stk)
    BY <1>1
  <2> QED
    BY <1>1, <1>2, <2>1
<1>7. \A i \in 1 .. Len(hs) : \E p \in 1 .. Len(t) : IsProtect(t, p, d[i].id)
  BY <1>4, <1>5, <1>6, Zenon DEF HandlersOK, IsProtect
<1>8. ASSUME NEW p \in 1 .. Len(t), t[p].k = "protect", NEW h \in t[p].ids
      PROVE  \E i \in 1 .. Len(hs) : d[i].id = h
  <2>1. p \in 1 .. Len(stk) /\ stk[p].k = "protect" /\ h \in stk[p].ids
    BY <1>5, <1>8
  <2>2. PICK i \in 1 .. Len(hs) : hs[i].id = h
    BY <2>1 DEF HandlersOK
  <2> QED
    BY <1>4, <2>2
<1>9. ASSUME NEW i \in 1 .. Len(hs), NEW p \in 1 .. Len(t), IsProtect(t, p, d[i].id)
      PROVE  d[i].on <=> Clear(t, p + 1, Len(t), d[i].id)
  <2>1. p \in 1 .. Len(stk) /\ IsProtect(stk, p, hs[i].id) /\ d[i].id = hs[i].id
    BY <1>4, <1>5, <1>9 DEF IsProtect
  <2>2. hs[i].on <=> Clear(stk, p + 1, Len(stk), hs[i].id)
    BY <2>1 DEF HandlersOK
  <2>3. OffOK(stk, Len(stk)) /\ Len(stk) \in 1 .. Len(stk)
    BY <1>1 DEF StackOK, PositionOK
  <2>4. p \in 1 .. Len(stk) - 1
    BY <1>1
  <2>5. hs[i].id \in e.off <=> HidesId(e, hs[i].id) /\ Clear(stk, p + 1, Len(stk) - 1, hs[i].id)
    BY <1>1, <1>2, <2>1, <2>3, <2>4 DEF OffOK, IsProtect
  <2>6. Clear(stk, p + 1, Len(stk) - 1, hs[i].id) <=> Clear(t, p + 1, Len(t), hs[i].id)
    <3>1. \A m \in p + 1 .. Len(stk) - 1 : t[m] = stk[m]
      BY <1>1
    <3> QED
      BY <1>1, <3>1 DEF Clear
  <2>7. d[i].on <=> hs[i].on \/ hs[i].id \in e.off
    BY <1>4
  <2> QED
    BY <1>3, <2>1, <2>2, <2>5, <2>6, <2>7, Zenon
<1>10. next > 0
  BY DEF HandlersOK
<1> QED
  BY <1>4, <1>7, <1>8, <1>9, <1>10 DEF HandlersOK, t, d, e

\* A signal that is pushed becomes the last active one; it is the first with its id,
\* because nothing hides its handler.
LEMMA PushSignalActive ==
    ASSUME NEW stk, NEW act, NEW e, NEW a, StackOK(Append(stk, e)), StackOK(stk),
           ActiveOK(stk, act), e.k = "signal", a.id = e.id
    PROVE  ActiveOK(Append(stk, e), Append(act, a))
<1> DEFINE t == Append(stk, e)
           n == Len(stk) + 1
           b == Append(act, a)
           m == Len(act) + 1
<1>1. /\ Len(stk) \in Nat /\ n \in Nat /\ n > Len(stk)
      /\ Len(t) = n
      /\ \A i \in 1 .. Len(stk) : t[i] = stk[i]
      /\ t[n] = e
  BY AppendFacts DEF StackOK
<1>2. /\ IsSeq(b)
      /\ Len(act) \in Nat /\ m \in Nat /\ m > Len(act)
      /\ Len(b) = m
      /\ \A i \in 1 .. Len(act) : b[i] = act[i]
      /\ b[m] = a
  BY AppendFacts DEF ActiveOK
<1>3. StackOK(t)
  OBVIOUS
<1>4. \A j \in 1 .. n : j \in 1 .. Len(stk) \/ j = n
  BY <1>1
<1>5. \A j \in 1 .. m : j \in 1 .. Len(act) \/ j = m
  BY <1>2
<1>6. /\ \A j \in 1 .. Len(stk) : j \in 1 .. n /\ j < n
      /\ n \in 1 .. n
      /\ \A j \in 1 .. Len(act) : j \in 1 .. m /\ j < m /\ ~ (m < j)
      /\ m \in 1 .. m /\ ~ (m < m)
  BY <1>1, <1>2
<1> HIDE DEF t, n, b, m
<1>7. ActiveAreSignals(t, b)
  <2> SUFFICES ASSUME NEW x \in 1 .. m
               PROVE  \E j \in 1 .. n : IsSignal(t, j, b[x].id)
    BY <1>1, <1>2, Zenon DEF ActiveAreSignals
  <2>1. CASE x = m
    BY <1>1, <1>2, <1>6, <2>1 DEF IsSignal
  <2>2. CASE x \in 1 .. Len(act)
    <3>1. PICK j \in 1 .. Len(stk) : IsSignal(stk, j, act[x].id)
      BY <2>2 DEF ActiveOK, ActiveAreSignals
    <3> QED
      BY <1>1, <1>2, <1>6, <2>2, <3>1 DEF IsSignal
  <2> QED
    BY <1>5, <2>1, <2>2
<1>8. SignalsAreActive(t, b)
  BY <1>1, <1>2, <1>4, <1>6, Zenon DEF ActiveOK, SignalsAreActive, IsSignal
<1>9. ActiveInOrder(t, b)
  <2> SUFFICES ASSUME NEW x \in 1 .. m, NEW y \in 1 .. m, NEW i \in 1 .. n, NEW j \in 1 .. n,
                      x < y, IsSignal(t, i, b[x].id), IsSignal(t, j, b[y].id)
               PROVE  i < j
    BY <1>1, <1>2, Zenon DEF ActiveInOrder
  <2>1. x \in 1 .. Len(act)
    BY <1>2, <1>5
  <2>2. PICK q \in 1 .. Len(stk) : IsSignal(stk, q, act[x].id)
    BY <2>1 DEF ActiveOK, ActiveAreSignals
  <2>3. IsSignal(t, q, b[x].id) /\ q \in 1 .. n
    BY <1>1, <1>2, <1>6, <2>1, <2>2 DEF IsSignal
  <2>4. i = q
    BY <1>1, <1>3, <2>3, SignalUnique DEF IsSignal
  <2>5. CASE j = n
    BY <1>6, <2>4, <2>5
  <2>6. CASE j # n /\ y = m
    <3>1. j \in 1 .. Len(stk) /\ IsSignal(t, j, e.id) /\ IsSignal(t, n, e.id) /\ n \in 1 .. n
      BY <1>1, <1>2, <1>4, <1>6, <2>6 DEF IsSignal
    <3>2. j = n
      BY <1>1, <1>3, <3>1, SignalUnique DEF IsSignal
    <3> QED
      BY <2>6, <3>2
  <2>7. CASE j # n /\ y # m
    <3>1. j \in 1 .. Len(stk) /\ y \in 1 .. Len(act)
      BY <1>4, <1>5, <2>7
    <3>2. IsSignal(stk, j, act[y].id) /\ IsSignal(stk, i, act[x].id) /\ i \in 1 .. Len(stk)
      BY <1>1, <1>2, <2>2, <2>4, <3>1 DEF IsSignal
    <3> QED
      BY <2>1, <3>1, <3>2 DEF ActiveOK, ActiveInOrder
  <2> QED
    BY <2>5, <2>6, <2>7
<1>10. ActiveOK(t, b)
  BY <1>2, <1>7, <1>8, <1>9 DEF ActiveOK
<1> QED
  BY <1>10 DEF t, b

\* The last active signal is the one on top, and goes with it.
LEMMA PopSignalActive ==
    ASSUME NEW stk, NEW act, StackOK(stk), ActiveOK(stk, act), stk # <<>>,
           Last(stk).k = "signal"
    PROVE  ActiveOK(Front(stk), Front(act))
<1> DEFINE t == Front(stk)
           n == Len(stk)
           b == Front(act)
           m == Len(act)
<1>1. /\ n \in Nat /\ n \in 1 .. n
      /\ Len(t) = n - 1
      /\ \A i \in 1 .. n - 1 : t[i] = stk[i]
      /\ stk[n].k = "signal"
  BY FrontFacts DEF StackOK
<1>2. PICK z \in 1 .. m : act[z].id = stk[n].id
  BY <1>1 DEF ActiveOK, SignalsAreActive
<1>3. act # <<>> /\ m \in Nat \ {0}
  <2>1. m \in Nat
    BY SeqFacts DEF ActiveOK
  <2>2. m # 0
    BY <1>2, <2>1
  <2> QED
    BY <2>1, <2>2
<1>4. /\ IsSeq(b)
      /\ Len(b) = m - 1
      /\ \A i \in 1 .. m - 1 : b[i] = act[i]
  BY <1>3, FrontFacts DEF ActiveOK
<1>5. z = m
  <2> SUFFICES ASSUME z < m PROVE FALSE
    BY <1>3
  <2>1. m \in 1 .. m
    BY <1>3
  <2>2. PICK j \in 1 .. n : IsSignal(stk, j, act[m].id)
    BY <2>1 DEF ActiveOK, ActiveAreSignals
  <2>3. n < j
    BY <1>1, <1>2, <2>1, <2>2 DEF ActiveOK, ActiveInOrder, IsSignal
  <2> QED
    BY <1>1, <2>3
<1>6. /\ \A j \in 1 .. n - 1 : j \in 1 .. n /\ j # n
      /\ \A j \in 1 .. n : j = n \/ j \in 1 .. n - 1
      /\ \A a \in 1 .. m - 1 : a \in 1 .. m /\ a < m
      /\ \A a \in 1 .. m : a = m \/ a \in 1 .. m - 1
  BY <1>1, <1>3
<1> HIDE DEF t, n, b, m
<1>7. \A a \in 1 .. m - 1 : act[a].id # stk[n].id
  <2> SUFFICES ASSUME NEW a \in 1 .. m - 1, act[a].id = stk[n].id PROVE FALSE
    OBVIOUS
  <2>1. n < n
    BY <1>1, <1>2, <1>5, <1>6 DEF ActiveOK, ActiveInOrder, IsSignal, m, n
  <2> QED
    BY <1>1, <2>1
<1>8. ActiveAreSignals(t, b)
  <2> SUFFICES ASSUME NEW a \in 1 .. m - 1
               PROVE  \E j \in 1 .. n - 1 : IsSignal(t, j, b[a].id)
    BY <1>1, <1>4, Zenon DEF ActiveAreSignals
  <2>1. PICK j \in 1 .. n : IsSignal(stk, j, act[a].id)
    BY <1>6 DEF ActiveOK, ActiveAreSignals, m, n
  <2>2. j \in 1 .. n - 1
    BY <1>6, <1>7, <2>1 DEF IsSignal
  <2> QED
    BY <1>1, <1>4, <2>1, <2>2 DEF IsSignal
<1>9. SignalsAreActive(t, b)
  <2> SUFFICES ASSUME NEW j \in 1 .. n - 1, t[j].k = "signal"
               PROVE  \E a \in 1 .. m - 1 : b[a].id = t[j].id
    BY <1>1, <1>4, Zenon DEF SignalsAreActive
  <2>1. PICK a \in 1 .. m : act[a].id = stk[j].id
    BY <1>1, <1>6 DEF ActiveOK, SignalsAreActive, m, n
  <2>2. stk[j].id # stk[n].id
    BY <1>1, <1>6, SignalUnique DEF n
  <2>3. a \in 1 .. m - 1
    BY <1>2, <1>5, <1>6, <2>1, <2>2
  <2> QED
    BY <1>1, <1>4, <2>1, <2>3
<1>10. ActiveInOrder(t, b)
  <2>1. \A j \in 1 .. Len(t) : j \in 1 .. Len(stk) /\ t[j] = stk[j]
    BY <1>1, <1>6 DEF n
  <2>2. \A a \in 1 .. Len(b) : a \in 1 .. Len(act) /\ b[a] = act[a]
    BY <1>4, <1>6 DEF m
  <2> QED
    BY <2>1, <2>2, Zenon DEF ActiveOK, ActiveInOrder, IsSignal
<1>11. ActiveOK(t, b)
  BY <1>4, <1>8, <1>9, <1>10 DEF ActiveOK
<1> QED
  BY <1>11 DEF t, b

-----------------------------------------------------------------------------
(* on:do: comes and goes with its handlers.                                *)

\* The entries that handlerStackPush adds have the next ids, and are enabled.
LEMMA PushEntries ==
    ASSUME NEW hs, EntriesOK(hs, nextHandler), nextHandler > 0, NEW guards \in Seq(Guards),
           NEW home
    PROVE  LET d == HandlerStackPush(hs, guards, home)
           IN  /\ EntriesOK(d, nextHandler + Len(guards))
               /\ Len(hs) \in Nat /\ Len(guards) \in Nat
               /\ Len(d) = Len(hs) + Len(guards)
               /\ \A i \in 1 .. Len(hs) : d[i] = hs[i]
               /\ \A i \in Len(hs) + 1 .. Len(d) :
                     d[i].id = nextHandler + i - Len(hs) - 1 /\ d[i].on = TRUE
<1> DEFINE d == HandlerStackPush(hs, guards, home)
           new == [i \in DOMAIN guards |->
                     [id |-> nextHandler + i - 1, guard |-> guards[i], home |-> home, on |-> TRUE]]
<1>1. /\ Len(hs) \in Nat /\ DOMAIN hs = 1 .. Len(hs)
      /\ Len(guards) \in Nat /\ DOMAIN guards = 1 .. Len(guards)
      /\ nextHandler \in Nat
  BY SeqFacts DEF EntriesOK
<1>2. new = [i \in 1 .. Len(guards) |-> new[i]]
  BY <1>1
<1>3. IsSeq(new) /\ Len(new) = Len(guards)
  <2> HIDE DEF new
  <2> QED
    BY <1>1, <1>2, FunctionIsSeq
<1>4. /\ hs \in Seq(ToSet(hs) \cup ToSet(new))
      /\ new \in Seq(ToSet(hs) \cup ToSet(new))
  <2> HIDE DEF new
  <2> QED
    BY <1>3 DEF EntriesOK, IsSeq
<1>5. d = hs \o new
  BY DEF HandlerStackPush
<1>6. \A i \in 1 .. Len(guards) :
          new[i] = [id |-> nextHandler + i - 1, guard |-> guards[i], home |-> home, on |-> TRUE]
  BY <1>1
<1> HIDE DEF new, d
<1>7. /\ Len(d) = Len(hs) + Len(guards)
      /\ d \in Seq(ToSet(hs) \cup ToSet(new))
      /\ \A i \in 1 .. Len(hs) : d[i] = hs[i]
      /\ \A i \in Len(hs) + 1 .. Len(d) : d[i] = new[i - Len(hs)]
  <2>1. /\ Len(hs \o new) = Len(hs) + Len(new)
        /\ hs \o new \in Seq(ToSet(hs) \cup ToSet(new))
        /\ \A i \in 1 .. Len(hs) + Len(new) :
              (hs \o new)[i] = IF i <= Len(hs) THEN hs[i] ELSE new[i - Len(hs)]
    BY <1>4, ConcatProperties
  <2> QED
    BY <1>1, <1>3, <1>5, <2>1
<1>8. d = [i \in 1 .. Len(d) |-> d[i]] /\ Len(d) \in Nat
  BY <1>7
<1>9. IsSeq(d)
  BY <1>8, FunctionIsSeq
<1>10. ASSUME NEW i \in Len(hs) + 1 .. Len(d)
       PROVE  /\ d[i].id = nextHandler + i - Len(hs) - 1
              /\ d[i].on = TRUE
              /\ d[i] = [id |-> d[i].id, guard |-> d[i].guard, home |-> d[i].home,
                         on |-> d[i].on]
  <2>1. i - Len(hs) \in 1 .. Len(guards)
    BY <1>1, <1>7
  <2>2. d[i] = [id |-> nextHandler + (i - Len(hs)) - 1, guard |-> guards[i - Len(hs)],
                home |-> home, on |-> TRUE]
    BY <1>6, <1>7, <2>1
  <2>3. nextHandler + (i - Len(hs)) - 1 = nextHandler + i - Len(hs) - 1
    BY <1>1, <2>1
  <2> QED
    BY <2>2, <2>3
<1>11. ASSUME NEW i \in 1 .. Len(d)
       PROVE  /\ d[i] = [id |-> d[i].id, guard |-> d[i].guard, home |-> d[i].home, on |-> d[i].on]
              /\ d[i].on \in BOOLEAN
              /\ d[i].id \in 1 .. nextHandler + Len(guards) - 1
  <2>1. CASE i \in 1 .. Len(hs)
    <3>1. /\ hs[i] = [id |-> hs[i].id, guard |-> hs[i].guard, home |-> hs[i].home,
                      on |-> hs[i].on]
          /\ hs[i].on \in BOOLEAN
          /\ hs[i].id \in 1 .. nextHandler - 1
      BY <2>1 DEF EntriesOK
    <3> QED
      BY <1>1, <1>7, <2>1, <3>1
  <2>2. CASE i \in Len(hs) + 1 .. Len(d)
    <3>1. d[i].id = nextHandler + i - Len(hs) - 1
      BY <1>10, <2>2
    <3>2. d[i].id \in 1 .. nextHandler + Len(guards) - 1
      BY <1>1, <1>7, <2>2, <3>1
    <3> QED
      BY <1>10, <2>2, <3>2
  <2> QED
    BY <1>1, <1>7, <2>1, <2>2
<1>12. ASSUME NEW i \in 1 .. Len(d), NEW j \in 1 .. Len(d), i < j
       PROVE  d[i].id < d[j].id
  <2>1. CASE j \in 1 .. Len(hs)
    <3>1. i \in 1 .. Len(hs)
      BY <1>1, <1>12, <2>1
    <3> QED
      BY <1>7, <1>12, <2>1, <3>1 DEF EntriesOK
  <2>2. CASE i \in 1 .. Len(hs) /\ j \in Len(hs) + 1 .. Len(d)
    <3>1. d[i].id \in 1 .. nextHandler - 1
      BY <1>7, <2>2 DEF EntriesOK
    <3>2. d[j].id = nextHandler + j - Len(hs) - 1
      BY <1>10, <2>2
    <3> QED
      BY <1>1, <1>7, <2>2, <3>1, <3>2
  <2>3. CASE i \in Len(hs) + 1 .. Len(d) /\ j \in Len(hs) + 1 .. Len(d)
    <3>1. d[i].id = nextHandler + i - Len(hs) - 1 /\ d[j].id = nextHandler + j - Len(hs) - 1
      BY <1>10, <2>3
    <3> QED
      BY <1>1, <1>7, <1>12, <3>1
  <2> QED
    BY <1>1, <1>7, <1>12, <2>1, <2>2, <2>3
<1>13. EntriesOK(d, nextHandler + Len(guards))
  BY <1>1, <1>9, <1>11, <1>12 DEF EntriesOK
<1>14. \A i \in Len(hs) + 1 .. Len(d) :
           d[i].id = nextHandler + i - Len(hs) - 1 /\ d[i].on = TRUE
  BY <1>10
<1> QED
  BY <1>1, <1>7, <1>13, <1>14 DEF d

\* The ids of the on:do: on the stack are below the next one.
LEMMA ProtectIdsBound ==
    ASSUME NEW stk, NEW hs, NEW next, HandlersOK(stk, hs, next),
           NEW p \in 1 .. Len(stk), stk[p].k = "protect", NEW h \in stk[p].ids
    PROVE  h \in 1 .. next - 1
<1>1. PICK i \in 1 .. Len(hs) : hs[i].id = h
  BY DEF HandlersOK
<1> QED
  BY <1>1 DEF HandlersOK, EntriesOK

\* Entering runProtected.
LEMMA PushProtect ==
    ASSUME NEW stk, NEW hs, StackOK(stk), HandlersOK(stk, hs, nextHandler),
           NEW guards \in Seq(Guards), NEW home, NEW e, e.k = "protect",
           e.ids = nextHandler .. nextHandler + Len(guards) - 1
    PROVE  /\ HandlersOK(Append(stk, e), HandlerStackPush(hs, guards, home),
                         nextHandler + Len(guards))
           /\ IdsOK(Append(stk, e), Len(stk) + 1)
<1> DEFINE t == Append(stk, e)
           n == Len(stk) + 1
           d == HandlerStackPush(hs, guards, home)
           next == nextHandler + Len(guards)
<1>1. /\ Len(stk) \in Nat
      /\ Len(t) = n
      /\ \A i \in 1 .. Len(stk) : t[i] = stk[i]
      /\ t[n] = e
  BY AppendFacts DEF StackOK
<1>2. nextHandler \in Nat /\ nextHandler > 0 /\ EntriesOK(hs, nextHandler)
  BY DEF HandlersOK, EntriesOK
<1>3. /\ EntriesOK(d, next)
      /\ Len(hs) \in Nat /\ Len(guards) \in Nat
      /\ Len(d) = Len(hs) + Len(guards)
      /\ \A i \in 1 .. Len(hs) : d[i] = hs[i]
      /\ \A i \in Len(hs) + 1 .. Len(d) :
            d[i].id = nextHandler + i - Len(hs) - 1 /\ d[i].on = TRUE
  BY <1>2, PushEntries
<1>4. \A h : ~HidesId(e, h)
  BY DEF HidesId
<1>5. \A p \in 1 .. Len(stk) : \A h : Clear(t, p + 1, n, h) <=> Clear(stk, p + 1, Len(stk), h)
  BY <1>1, <1>4, ClearPush DEF StackOK
<1> HIDE DEF t, d
<1>6. ASSUME NEW p \in 1 .. Len(stk), t[p].k = "protect", NEW h \in t[p].ids
      PROVE  h \in 1 .. nextHandler - 1 /\ h \notin e.ids
  <2>1. h \in 1 .. nextHandler - 1
    BY <1>1, <1>6, ProtectIdsBound
  <2> QED
    BY <1>2, <2>1
<1>7. IdsOK(t, n)
  <2>1. e.ids \subseteq Nat
    BY <1>2, <1>3
  <2>2. ASSUME NEW p \in 1 .. n - 1, t[p].k = "protect", NEW a \in t[p].ids, NEW b \in e.ids
        PROVE  a < b
    <3>1. p \in 1 .. Len(stk)
      BY <1>1
    <3>2. a \in 1 .. nextHandler - 1
      BY <1>6, <2>2, <3>1
    <3> QED
      BY <1>2, <1>3, <3>2
  <2> QED
    BY <1>1, <2>1, <2>2 DEF IdsOK
<1>8. ASSUME NEW i \in 1 .. Len(d)
      PROVE  \/ i \in 1 .. Len(hs) /\ d[i] = hs[i] /\ d[i].id \in 1 .. nextHandler - 1
             \/ d[i].id \in e.ids /\ d[i].on = TRUE
  <2>1. CASE i \in 1 .. Len(hs)
    BY <1>2, <1>3, <2>1 DEF EntriesOK
  <2>2. CASE i \in Len(hs) + 1 .. Len(d)
    <3>1. d[i].id = nextHandler + i - Len(hs) - 1 /\ d[i].on = TRUE
      BY <1>3, <2>2
    <3> QED
      BY <1>2, <1>3, <2>2, <3>1
  <2>3. i \in 1 .. Len(hs) \/ i \in Len(hs) + 1 .. Len(d)
    BY <1>3
  <2> QED
    BY <2>1, <2>2, <2>3, Zenon
<1>9. ASSUME NEW i \in 1 .. Len(d)
      PROVE  \E p \in 1 .. Len(t) : IsProtect(t, p, d[i].id)
  <2>1. CASE i \in 1 .. Len(hs) /\ d[i] = hs[i]
    <3>1. PICK p \in 1 .. Len(stk) : IsProtect(stk, p, hs[i].id)
      BY <2>1 DEF HandlersOK
    <3>2. p \in 1 .. Len(t) /\ t[p] = stk[p]
      BY <1>1
    <3> QED
      BY <2>1, <3>1, <3>2 DEF IsProtect
  <2>2. CASE d[i].id \in e.ids
    <3>1. n \in 1 .. Len(t)
      BY <1>1
    <3> QED
      BY <1>1, <2>2, <3>1 DEF IsProtect
  <2> QED
    BY <1>8, <2>1, <2>2
<1>10. ASSUME NEW p \in 1 .. Len(t), t[p].k = "protect", NEW h \in t[p].ids
       PROVE  \E i \in 1 .. Len(d) : d[i].id = h
  <2>1. CASE p \in 1 .. Len(stk)
    <3>1. PICK i \in 1 .. Len(hs) : hs[i].id = h
      BY <1>1, <1>10, <2>1 DEF HandlersOK
    <3>2. i \in 1 .. Len(d)
      BY <1>3
    <3> QED
      BY <1>3, <3>1, <3>2
  <2>2. CASE p = n
    <3>1. h \in nextHandler .. nextHandler + Len(guards) - 1
      BY <1>1, <1>10, <2>2
    <3> DEFINE i == h - nextHandler + Len(hs) + 1
    <3>2. i \in Len(hs) + 1 .. Len(d) /\ i \in 1 .. Len(d)
      BY <1>2, <1>3, <3>1
    <3>3. nextHandler + i - Len(hs) - 1 = h
      BY <1>2, <1>3, <3>1
    <3> QED
      BY <1>3, <3>2, <3>3
  <2> QED
    BY <1>1, <2>1, <2>2
<1>11. ASSUME NEW i \in 1 .. Len(d), NEW p \in 1 .. Len(t), IsProtect(t, p, d[i].id)
       PROVE  d[i].on <=> Clear(t, p + 1, Len(t), d[i].id)
  <2>1. CASE p \in 1 .. Len(stk)
    <3>1. d[i].id \notin e.ids
      BY <1>6, <1>11, <2>1 DEF IsProtect
    <3>2. i \in 1 .. Len(hs) /\ d[i] = hs[i]
      BY <1>8, <3>1
    <3>3. IsProtect(stk, p, hs[i].id)
      BY <1>1, <1>11, <2>1, <3>2 DEF IsProtect
    <3>4. hs[i].on <=> Clear(stk, p + 1, Len(stk), hs[i].id)
      BY <2>1, <3>2, <3>3 DEF HandlersOK
    <3> QED
      BY <1>1, <1>5, <2>1, <3>2, <3>4
  <2>2. CASE p = n
    <3>1. d[i].id \in e.ids
      BY <1>1, <1>11, <2>2 DEF IsProtect
    <3>2. ~ (d[i].id \in 1 .. nextHandler - 1)
      BY <1>2, <3>1
    <3>3. d[i].on = TRUE
      BY <1>8, <3>2
    <3>4. Clear(t, p + 1, Len(t), d[i].id)
      BY <1>1, <2>2 DEF Clear
    <3> QED
      BY <3>3, <3>4
  <2> QED
    BY <1>1, <2>1, <2>2
<1>12. next > 0
  BY <1>2, <1>3
<1>13. HandlersOK(t, d, next)
  <2> HIDE DEF next
  <2> QED
    BY <1>3, <1>9, <1>10, <1>11, <1>12 DEF HandlersOK
<1> QED
  BY <1>7, <1>13 DEF t, d

\* Removing a final segment of the entries leaves the others as they are.
LEMMA PopEntries ==
    ASSUME NEW hs, IsSeq(hs), NEW S, NEW m \in 0 .. Len(hs),
           \A i \in 1 .. Len(hs) : hs[i].id \in S <=> i > m
    PROVE  LET d == HandlerStackPop(hs, S)
           IN  IsSeq(d) /\ Len(d) = m /\ \A i \in 1 .. m : d[i] = hs[i]
<1> DEFINE kept == {i \in DOMAIN hs : hs[i].id \notin S}
           d == HandlerStackPop(hs, S)
<1>1. Len(hs) \in Nat /\ DOMAIN hs = 1 .. Len(hs) /\ m \in Nat
  BY SeqFacts
<1>2. kept = 1 .. m
  BY <1>1
<1>3. \A i \in 1 .. m : {j \in kept : j <= i} = 1 .. i
  BY <1>1, <1>2
<1> HIDE DEF kept, d
<1>4. \A i \in 0 .. m : Cardinality(1 .. i) = i
  <2> SUFFICES ASSUME NEW i \in 0 .. m PROVE Cardinality(1 .. i) = i
    OBVIOUS
  <2>1. i \in Int /\ 1 \in Int
    BY <1>1
  <2>2. Cardinality(1 .. i) = IF 1 > i THEN 0 ELSE i - 1 + 1
    BY <2>1, FS_Interval
  <2> QED
    BY <1>1, <2>2
<1>5. Cardinality(kept) = m
  <2>1. m \in 0 .. m
    BY <1>1
  <2> QED
    BY <1>2, <1>4, <2>1, Zenon
<1>6. d = [n \in 1 .. m |-> hs[CHOOSE i \in kept : Cardinality({j \in kept : j <= i}) = n]]
  BY <1>5 DEF HandlerStackPop, kept, d
<1>7. ASSUME NEW n \in 1 .. m
      PROVE  (CHOOSE i \in kept : Cardinality({j \in kept : j <= i}) = n) = n
  <2>1. \A i \in kept : Cardinality({j \in kept : j <= i}) = i
    <3>1. \A i \in kept : i \in 1 .. m /\ i \in 0 .. m
      BY <1>1, <1>2
    <3> QED
      BY <1>3, <1>4, <3>1, Zenon
  <2>2. n \in kept
    BY <1>2
  <2> QED
    BY <2>1, <2>2
<1>8. d = [i \in 1 .. m |-> d[i]]
  BY <1>6
<1>9. IsSeq(d) /\ Len(d) = m
  BY <1>1, <1>8, FunctionIsSeq
<1>10. \A i \in 1 .. m : d[i] = hs[i]
  BY <1>6, <1>7
<1> QED
  BY <1>9, <1>10 DEF d

\* Leaving runProtected: its handlers are the last ones.
LEMMA PopProtect ==
    ASSUME NEW stk, NEW hs, NEW next, StackOK(stk), HandlersOK(stk, hs, next), stk # <<>>,
           Last(stk).k = "protect"
    PROVE  HandlersOK(Front(stk), HandlerStackPop(hs, Last(stk).ids), next)
<1> DEFINE t == Front(stk)
           e == Last(stk)
           n == Len(stk)
           d == HandlerStackPop(hs, e.ids)
<1>1. /\ n \in Nat \ {0} /\ n \in 1 .. n
      /\ Len(t) = n - 1
      /\ \A i \in 1 .. n - 1 : t[i] = stk[i] /\ i \in 1 .. n
      /\ stk[n] = e
      /\ \A p \in 1 .. n : p = n \/ p \in 1 .. n - 1
  BY FrontFacts DEF StackOK
<1>2. EntriesOK(hs, next) /\ Len(hs) \in Nat /\ next > 0
  BY SeqFacts DEF HandlersOK, EntriesOK
<1>3. IdsOK(stk, n) /\ e.k = "protect"
  BY <1>1 DEF StackOK, PositionOK
<1>4. \A h : ~HidesId(e, h)
  BY <1>3 DEF HidesId
<1>5. \A p \in 1 .. n - 1 : \A h : Clear(t, p + 1, n - 1, h) <=> Clear(stk, p + 1, n, h)
  BY <1>4, ClearPop DEF StackOK
<1> HIDE DEF t, e, n, d
<1> DEFINE kept == {i \in 1 .. Len(hs) : hs[i].id \notin e.ids}
<1>6. ASSUME NEW i \in kept, NEW j \in 1 .. Len(hs), j < i
      PROVE  j \in kept
  <2> SUFFICES ASSUME hs[j].id \in e.ids PROVE FALSE
    OBVIOUS
  <2>1. PICK p \in 1 .. n : IsProtect(stk, p, hs[i].id)
    BY DEF HandlersOK, n
  <2>2. p \in 1 .. n - 1
    BY <1>1, <2>1 DEF IsProtect
  <2>3. hs[i].id < hs[j].id
    BY <1>1, <1>3, <2>1, <2>2 DEF IdsOK, IsProtect
  <2>4. hs[j].id < hs[i].id
    BY <1>2, <1>6 DEF EntriesOK
  <2>5. hs[i].id \in 1 .. next - 1 /\ hs[j].id \in 1 .. next - 1 /\ next \in Nat
    BY <1>2 DEF EntriesOK
  <2> QED
    BY <2>3, <2>4, <2>5
<1>7. \E m \in 0 .. Len(hs) : \A i \in 1 .. Len(hs) : hs[i].id \in e.ids <=> i > m
  <2>1. CASE kept = {}
    BY <1>2, <2>1
  <2>2. CASE kept # {}
    <3>1. PICK m \in kept : \A j \in kept : j <= m
      BY <1>2, <2>2, LargestIndex
    <3>2. \A i \in 1 .. Len(hs) : i <= m => i \in kept
      BY <1>2, <1>6
    <3>3. m \in 1 .. Len(hs) /\ m \in 0 .. Len(hs)
      BY <1>2, <3>1
    <3>4. ASSUME NEW i \in 1 .. Len(hs)
          PROVE  hs[i].id \in e.ids <=> i > m
      <4>1. i \in kept <=> i <= m
        BY <3>1, <3>2
      <4>2. i \in Nat /\ m \in Nat
        BY <1>2, <3>3
      <4> QED
        BY <4>1, <4>2
    <3> HIDE DEF kept
    <3> QED
      BY <3>3, <3>4
  <2> QED
    BY <2>1, <2>2
<1>8. PICK m \in 0 .. Len(hs) : \A i \in 1 .. Len(hs) : hs[i].id \in e.ids <=> i > m
  BY <1>7
<1>9. IsSeq(d) /\ Len(d) = m /\ \A i \in 1 .. m : d[i] = hs[i]
  <2>1. IsSeq(hs)
    BY <1>2 DEF EntriesOK
  <2>2. LET x == HandlerStackPop(hs, e.ids)
        IN  IsSeq(x) /\ Len(x) = m /\ \A i \in 1 .. m : x[i] = hs[i]
    BY <1>8, <2>1, PopEntries
  <2> QED
    BY <2>2 DEF d
<1>10. \A i \in 1 .. m : i \in 1 .. Len(hs) /\ hs[i].id \notin e.ids
  BY <1>2, <1>8
<1>11. EntriesOK(d, next)
  BY <1>2, <1>9, <1>10 DEF EntriesOK
<1>12. ASSUME NEW i \in 1 .. m
       PROVE  \E p \in 1 .. n - 1 : IsProtect(t, p, d[i].id)
  <2>1. PICK p \in 1 .. n : IsProtect(stk, p, hs[i].id)
    BY <1>10 DEF HandlersOK, n
  <2>2. p \in 1 .. n - 1
    BY <1>1, <1>10, <2>1 DEF IsProtect
  <2> QED
    BY <1>1, <1>9, <2>1, <2>2 DEF IsProtect
<1>13. ASSUME NEW p \in 1 .. n - 1, t[p].k = "protect", NEW h \in t[p].ids
       PROVE  \E i \in 1 .. m : d[i].id = h
  <2>1. h \in stk[p].ids /\ stk[p].k = "protect" /\ p \in 1 .. n
    BY <1>1, <1>13
  <2>2. PICK i \in 1 .. Len(hs) : hs[i].id = h
    BY <2>1 DEF HandlersOK, n
  <2>3. h \notin e.ids
    <3> SUFFICES ASSUME h \in e.ids PROVE FALSE
      OBVIOUS
    <3>1. h < h /\ h \in Nat
      BY <1>1, <1>3, <2>1 DEF IdsOK
    <3> QED
      BY <3>1
  <2>4. i \in 1 .. m
    BY <1>2, <1>8, <2>2, <2>3
  <2> QED
    BY <1>9, <2>2, <2>4
<1>14. ASSUME NEW i \in 1 .. m, NEW p \in 1 .. n - 1, IsProtect(t, p, d[i].id)
       PROVE  d[i].on <=> Clear(t, p + 1, n - 1, d[i].id)
  <2>1. IsProtect(stk, p, hs[i].id) /\ p \in 1 .. n /\ i \in 1 .. Len(hs) /\ d[i] = hs[i]
    BY <1>1, <1>9, <1>10, <1>14 DEF IsProtect
  <2>2. hs[i].on <=> Clear(stk, p + 1, n, hs[i].id)
    BY <2>1 DEF HandlersOK, n
  <2> QED
    BY <1>5, <2>1, <2>2
<1>15. HandlersOK(t, d, next)
  <2>1. Len(t) = n - 1 /\ Len(d) = m
    BY <1>1, <1>9
  <2>2. \A i \in 1 .. Len(d) : \E p \in 1 .. Len(t) : IsProtect(t, p, d[i].id)
    BY <1>12, <2>1
  <2>3. \A p \in 1 .. Len(t) : t[p].k = "protect" =>
            \A h \in t[p].ids : \E i \in 1 .. Len(d) : d[i].id = h
    BY <1>13, <2>1
  <2>4. \A i \in 1 .. Len(d), p \in 1 .. Len(t) : IsProtect(t, p, d[i].id) =>
            (d[i].on <=> Clear(t, p + 1, Len(t), d[i].id))
    BY <1>14, <2>1
  <2>5. next > 0
    BY <1>2 DEF HandlersOK
  <2> QED
    BY <1>11, <2>2, <2>3, <2>4, <2>5, Zenon DEF HandlersOK
<1> QED
  BY <1>15 DEF t, d, e

\* Noting in an on:do: that it has been unwound to changes nothing else.
LEMMA SetLimit ==
    ASSUME NEW stk, NEW hs, NEW act, NEW next, StacksOK(stk, hs, act, next), stk # <<>>,
           Last(stk).k = "protect", NEW x
    PROVE  LET t == Append(Front(stk), [Last(stk) EXCEPT !.limit = x])
           IN  /\ StacksOK(t, hs, act, next)
               /\ Len(t) = Len(stk) /\ \A h : IsProtect(t, Len(t), h) <=> h \in Last(stk).ids
<1> DEFINE e == [Last(stk) EXCEPT !.limit = x]
           u == Front(stk)
           t == Append(u, e)
           n == Len(stk)
           top == Last(stk)
<1>1. StackOK(stk) /\ HandlersOK(stk, hs, next) /\ ActiveOK(stk, act)
  BY DEF StacksOK
<1>2. /\ n \in Nat \ {0} /\ n \in 1 .. n
      /\ Len(u) = n - 1
      /\ \A i \in 1 .. n - 1 : u[i] = stk[i]
      /\ top = stk[n]
  BY <1>1, FrontFacts DEF StackOK
<1>3. StackOK(u)
  BY <1>1, PopStack
<1>4. /\ IsSeq(t)
      /\ Len(t) = n
      /\ \A i \in 1 .. n - 1 : t[i] = stk[i]
      /\ t[n] = e
  <2>1. /\ IsSeq(t)
        /\ Len(t) = Len(u) + 1
        /\ \A i \in 1 .. Len(u) : t[i] = u[i]
        /\ t[Len(u) + 1] = e
    BY <1>3, AppendFacts DEF StackOK
  <2>2. Len(u) + 1 = n
    BY <1>2
  <2> QED
    BY <1>2, <2>1, <2>2
<1>5. ElementOK(top) /\ IdsOK(stk, n) /\ top.k = "protect"
  BY <1>1, <1>2 DEF StackOK, PositionOK
<1>6. e = [k |-> "protect", guards |-> top.guards, home |-> top.home, ids |-> top.ids,
           limit |-> x]
  BY <1>5 DEF ElementOK
<1>7. top.guards \in Seq(Guards)
  BY <1>5 DEF ElementOK
<1>8. ActiveOK(t, act)
  <2>1. ActiveOK(u, act)
    BY <1>1, <1>5, PopActive
  <2>2. e.k # "signal"
    BY <1>6
  <2> QED
    BY <1>3, <2>1, <2>2, PushActive
<1> HIDE DEF t, n, top, e, u
<1>9. PositionOK(t, n)
  <2>1. ElementOK(t[n])
    BY <1>4, <1>6, <1>7 DEF ElementOK
  <2>2. IdsOK(t, n)
    BY <1>2, <1>4, <1>5, <1>6 DEF IdsOK
  <2>3. t[n].k = "protect"
    BY <1>4, <1>6
  <2> QED
    BY <2>1, <2>2, <2>3 DEF PositionOK, SignalOK, OffOK, ExitOK
<1>10. StackOK(t)
  <2>1. PositionOK(Append(u, e), Len(u) + 1)
    BY <1>2, <1>9 DEF t
  <2> QED
    BY <1>3, <2>1, PushStack DEF t
<1>11. /\ \A i \in 1 .. n : \A h : IsProtect(t, i, h) <=> IsProtect(stk, i, h)
       /\ \A i \in 1 .. n : \A h : HidesId(t[i], h) <=> HidesId(stk[i], h)
       /\ \A i \in 1 .. n : t[i].k = "protect" => stk[i].k = "protect" /\ t[i].ids = stk[i].ids
  <2>1. \A i \in 1 .. n : i = n \/ i \in 1 .. n - 1
    BY <1>2
  <2> QED
    BY <1>2, <1>4, <1>5, <1>6, <2>1 DEF IsProtect, HidesId
<1>12. \A i \in 1 .. n : \A h : Clear(t, i + 1, n, h) <=> Clear(stk, i + 1, n, h)
  <2>1. \A i \in 1 .. n : \A m \in i + 1 .. n : m \in 1 .. n
    BY <1>2
  <2> QED
    BY <1>11, <2>1, Zenon DEF Clear
<1>13. HandlersOK(t, hs, next)
  <2>1. Len(t) = n /\ n = Len(stk)
    BY <1>4 DEF n
  <2>2. \A i \in 1 .. Len(hs) : \E p \in 1 .. n : IsProtect(t, p, hs[i].id)
    BY <1>1, <1>11, <2>1, Zenon DEF HandlersOK
  <2>3. \A p \in 1 .. n : t[p].k = "protect" =>
            \A h \in t[p].ids : \E i \in 1 .. Len(hs) : hs[i].id = h
    BY <1>1, <1>11, <2>1, Zenon DEF HandlersOK
  <2>4. ASSUME NEW i \in 1 .. Len(hs), NEW p \in 1 .. n, IsProtect(t, p, hs[i].id)
        PROVE  hs[i].on <=> Clear(t, p + 1, n, hs[i].id)
    <3>1. IsProtect(stk, p, hs[i].id)
      BY <1>11, <2>4
    <3>2. hs[i].on <=> Clear(stk, p + 1, n, hs[i].id)
      BY <1>1, <2>1, <3>1 DEF HandlersOK
    <3> QED
      BY <1>12, <3>2
  <2> QED
    BY <1>1, <2>1, <2>2, <2>3, <2>4, Zenon DEF HandlersOK
<1>14. \A h : IsProtect(t, Len(t), h) <=> h \in top.ids
  BY <1>4, <1>6 DEF IsProtect
<1> QED
  BY <1>4, <1>8, <1>10, <1>13, <1>14 DEF StacksOK, t, e, u, n, top

-----------------------------------------------------------------------------
(* What is in flight.                                                      *)

\* A target below the top is still there when the top has gone.
LEMMA TargetBelow ==
    ASSUME NEW stk, StackOK(stk), stk # <<>>, NEW f, Target(f, stk, Len(stk) - 1)
    PROVE  Target(f, Front(stk), Len(Front(stk)))
<1>1. /\ Len(Front(stk)) = Len(stk) - 1
      /\ \A i \in 1 .. Len(stk) - 1 : Front(stk)[i] = stk[i]
  BY FrontFacts DEF StackOK
<1> QED
  BY <1>1 DEF Target, IsProtect, IsSignal

\* The element is what `f' unwinds to.
IsTarget(f, e) ==
    \/ f.k \in {"unwind", "retry"} /\ e.k = "protect" /\ f.id \in e.ids
    \/ f.k \in {"resume", "pass"} /\ e.k = "signal" /\ e.id = f.id
    \/ f.k = "nlr" /\ e.k = "engine" /\ HomeIn(e.frames, f.id) # {}

\* What goes on through an element that is not its target still has its target.
LEMMA TargetPop ==
    ASSUME NEW stk, StackOK(stk), stk # <<>>, NEW f, Target(f, stk, Len(stk)),
           ~IsTarget(f, Last(stk))
    PROVE  Target(f, Front(stk), Len(Front(stk)))
<1> DEFINE n == Len(stk)
<1>1. n \in Nat \ {0} /\ Last(stk) = stk[n]
  BY FrontFacts DEF StackOK
<1>2. \A j \in 1 .. n : j = n \/ j \in 1 .. n - 1
  BY <1>1
<1> HIDE DEF n
<1>3. f.k \in {"unwind", "retry"} => \E j \in 1 .. n - 1 : IsProtect(stk, j, f.id)
  BY <1>1, <1>2, Zenon DEF Target, IsTarget, IsProtect, n
<1>4. f.k \in {"resume", "pass"} => \E j \in 1 .. n - 1 : IsSignal(stk, j, f.id)
  BY <1>1, <1>2, Zenon DEF Target, IsTarget, IsSignal, n
<1>5. f.k = "nlr" => \E j \in 1 .. n - 1 :
                        /\ stk[j].k = "engine"
                        /\ \E g \in ToSet(stk[j].frames) : g.id = f.id /\ g.home = f.id
  <2> SUFFICES ASSUME f.k = "nlr"
               PROVE  \E j \in 1 .. n - 1 :
                        /\ stk[j].k = "engine"
                        /\ \E g \in ToSet(stk[j].frames) : g.id = f.id /\ g.home = f.id
    OBVIOUS
  <2>1. PICK j \in 1 .. n : /\ stk[j].k = "engine"
                            /\ \E g \in ToSet(stk[j].frames) : g.id = f.id /\ g.home = f.id
    BY DEF Target, n
  <2>2. HomeIn(stk[j].frames, f.id) # {}
    BY <2>1 DEF HomeIn, ToSet
  <2>3. j # n
    BY <1>1, <2>1, <2>2 DEF IsTarget
  <2> QED
    BY <1>2, <2>1, <2>3
<1>6. Target(f, stk, n - 1)
  BY <1>3, <1>4, <1>5, Zenon DEF Target
<1> QED
  BY <1>6, TargetBelow DEF n

\* What does not unwind needs no target.
LEMMA NoTarget ==
    ASSUME NEW f, NEW stk, f.k \notin {"none", "unwind", "retry", "resume", "pass", "nlr"}
    PROVE  FlightOK(f, stk)
BY DEF FlightOK, Target, None

-----------------------------------------------------------------------------
(* Pushing and popping, all stacks together.                               *)

\* invokeBlock pushes an engine.
LEMMA PushEngine ==
    ASSUME NEW stk, NEW hs, NEW act, NEW next, StacksOK(stk, hs, act, next), NEW frames
    PROVE  StacksOK(Append(stk, Engine(frames)), hs, act, next)
<1> DEFINE e == Engine(frames)
           t == Append(stk, e)
<1>1. StackOK(stk) /\ HandlersOK(stk, hs, next) /\ ActiveOK(stk, act)
  BY DEF StacksOK
<1>2. e.k = "engine"
  BY DEF Engine
<1> HIDE DEF e
<1>3. t[Len(stk) + 1] = e
  BY <1>1, AppendFacts DEF StackOK
<1> HIDE DEF t
<1>4. PositionOK(t, Len(stk) + 1)
  BY <1>2, <1>3 DEF PositionOK, ElementOK, IdsOK, SignalOK, OffOK, ExitOK
<1>5. StackOK(t)
  BY <1>1, <1>4, PushStack DEF t
<1>6. HandlersOK(t, hs, next)
  BY <1>1, <1>2, PushNeutralHandlers DEF Neutral, t
<1>7. ActiveOK(t, act)
  BY <1>1, <1>2, PushActive DEF t
<1> QED
  BY <1>5, <1>6, <1>7 DEF StacksOK, t, e

\* ensure: is entered, or goes on to its cleanup.
LEMMA PushEnsure ==
    ASSUME NEW stk, NEW hs, NEW act, NEW next, StacksOK(stk, hs, act, next), NEW e,
           e.k = "ensure", ElementOK(e), Target(e.exit, stk, Len(stk))
    PROVE  StacksOK(Append(stk, e), hs, act, next)
<1> DEFINE t == Append(stk, e)
<1>1. StackOK(stk) /\ HandlersOK(stk, hs, next) /\ ActiveOK(stk, act)
  BY DEF StacksOK
<1>2. /\ t[Len(stk) + 1] = e
      /\ \A i \in 1 .. Len(stk) : t[i] = stk[i]
      /\ Len(stk) + 1 - 1 = Len(stk)
  BY <1>1, AppendFacts DEF StackOK
<1> HIDE DEF t
<1>3. ExitOK(t, Len(stk) + 1)
  <2>1. Target(e.exit, t, Len(stk))
    BY <1>2 DEF Target, IsProtect, IsSignal
  <2> QED
    BY <1>2, <2>1 DEF ExitOK
<1>4. PositionOK(t, Len(stk) + 1)
  BY <1>2, <1>3 DEF PositionOK, IdsOK, SignalOK, OffOK
<1>5. StackOK(t)
  BY <1>1, <1>4, PushStack DEF t
<1>6. HandlersOK(t, hs, next)
  BY <1>1, PushNeutralHandlers DEF Neutral, t
<1>7. ActiveOK(t, act)
  BY <1>1, PushActive DEF t
<1> QED
  BY <1>5, <1>6, <1>7 DEF StacksOK, t

\* An engine or an ensure: is left.
LEMMA PopNeutral ==
    ASSUME NEW stk, NEW hs, NEW act, NEW next, StacksOK(stk, hs, act, next), stk # <<>>,
           Last(stk).k \in {"engine", "ensure"}
    PROVE  StacksOK(Front(stk), hs, act, next)
<1>1. StackOK(stk) /\ HandlersOK(stk, hs, next) /\ ActiveOK(stk, act)
  BY DEF StacksOK
<1>2. HandlersOK(Front(stk), hs, next)
  BY <1>1, PopNeutralHandlers DEF Neutral
<1>3. ActiveOK(Front(stk), act)
  BY <1>1, PopActive
<1> QED
  BY <1>1, <1>2, <1>3, PopStack DEF StacksOK

\* on:do: is entered.
LEMMA EnterProtect ==
    ASSUME NEW stk, NEW hs, NEW act, StacksOK(stk, hs, act, nextHandler),
           NEW guards \in Seq(Guards), NEW home, NEW e,
           e = [k |-> "protect", guards |-> guards, home |-> home,
                ids |-> nextHandler .. nextHandler + Len(guards) - 1, limit |-> 0]
    PROVE  StacksOK(Append(stk, e), HandlerStackPush(hs, guards, home), act,
                    nextHandler + Len(guards))
<1> DEFINE t == Append(stk, e)
<1>1. StackOK(stk) /\ HandlersOK(stk, hs, nextHandler) /\ ActiveOK(stk, act)
  BY DEF StacksOK
<1>2. e.k = "protect" /\ e.ids = nextHandler .. nextHandler + Len(guards) - 1
  OBVIOUS
<1>3. ElementOK(e)
  BY DEF ElementOK
<1>4. t[Len(stk) + 1] = e
  BY <1>1, AppendFacts DEF StackOK
<1>5. /\ HandlersOK(t, HandlerStackPush(hs, guards, home), nextHandler + Len(guards))
      /\ IdsOK(t, Len(stk) + 1)
  BY <1>1, <1>2, PushProtect
<1> HIDE DEF t
<1>6. PositionOK(t, Len(stk) + 1)
  BY <1>2, <1>3, <1>4, <1>5 DEF PositionOK, SignalOK, OffOK, ExitOK
<1>7. StackOK(t)
  BY <1>1, <1>6, PushStack DEF t
<1>8. ActiveOK(t, act)
  BY <1>1, <1>2, PushActive DEF t
<1> QED
  BY <1>5, <1>7, <1>8 DEF StacksOK, t

\* on:do: is left.
LEMMA LeaveProtect ==
    ASSUME NEW stk, NEW hs, NEW act, NEW next, StacksOK(stk, hs, act, next), stk # <<>>,
           Last(stk).k = "protect"
    PROVE  StacksOK(Front(stk), HandlerStackPop(hs, Last(stk).ids), act, next)
<1>1. StackOK(stk) /\ HandlersOK(stk, hs, next) /\ ActiveOK(stk, act)
  BY DEF StacksOK
<1>2. HandlersOK(Front(stk), HandlerStackPop(hs, Last(stk).ids), next)
  BY <1>1, PopProtect
<1>3. ActiveOK(Front(stk), act)
  BY <1>1, PopActive
<1> QED
  BY <1>1, <1>2, <1>3, PopStack DEF StacksOK

\* A message of another actor or runtime starts, with every handler hidden.
LEMMA PushHelp ==
    ASSUME NEW stk, NEW hs, NEW act, NEW next, StacksOK(stk, hs, act, next), NEW e,
           e.k \in {"help", "foreign"}, e.off = EnabledIds(hs)
    PROVE  StacksOK(Append(stk, e), HandlerStackDisable(hs, EnabledIds(hs)), act, next)
<1> DEFINE t == Append(stk, e)
<1>1. StackOK(stk) /\ HandlersOK(stk, hs, next) /\ ActiveOK(stk, act)
  BY DEF StacksOK
<1>2. EntriesOK(hs, next) /\ DOMAIN hs = 1 .. Len(hs) /\ Len(hs) \in Nat
  BY <1>1, SeqFacts DEF HandlersOK, EntriesOK
<1>3. Hidden(hs, e, e.off) /\ Hider(e)
  <2> SUFFICES ASSUME NEW i \in 1 .. Len(hs)
               PROVE  hs[i].id \in EnabledIds(hs) <=> hs[i].on
    BY DEF Hidden, HidesId, Hider
  <2>1. ASSUME hs[i].on PROVE hs[i].id \in EnabledIds(hs)
    BY <1>2, <2>1 DEF EnabledIds, ToSet
  <2>2. ASSUME hs[i].id \in EnabledIds(hs) PROVE hs[i].on
    <3>1. PICK j \in 1 .. Len(hs) : hs[j].on /\ hs[j].id = hs[i].id
      BY <1>2, <2>2 DEF EnabledIds, ToSet
    <3>2. i = j
      <4>1. \A a \in 1 .. Len(hs) : hs[a].id \in Nat
        BY <1>2 DEF EntriesOK
      <4>2. ~ (i < j) /\ ~ (j < i)
        BY <1>2, <3>1, <4>1 DEF EntriesOK
      <4> QED
        BY <1>2, <4>2
    <3> QED
      BY <3>1, <3>2
  <2> QED
    BY <2>1, <2>2
<1>4. t[Len(stk) + 1] = e
  BY <1>1, AppendFacts DEF StackOK
<1>5. HandlersOK(t, HandlerStackDisable(hs, EnabledIds(hs)), next)
  BY <1>1, <1>3, PushHiderHandlers
<1>6. OffOK(t, Len(stk) + 1)
  BY <1>1, <1>3, PushHiderOff
<1> HIDE DEF t
<1>7. PositionOK(t, Len(stk) + 1)
  BY <1>4, <1>6 DEF PositionOK, ElementOK, IdsOK, SignalOK, ExitOK
<1>8. StackOK(t)
  BY <1>1, <1>7, PushStack DEF t
<1>9. ActiveOK(t, act)
  BY <1>1, PushActive DEF t
<1> QED
  BY <1>5, <1>8, <1>9 DEF StacksOK, t

\* It ends.
LEMMA PopHelp ==
    ASSUME NEW stk, NEW hs, NEW act, NEW next, StacksOK(stk, hs, act, next), stk # <<>>,
           Last(stk).k \in {"help", "foreign"}
    PROVE  StacksOK(Front(stk), HandlerStackRestore(hs, Last(stk).off), act, next)
<1>1. StackOK(stk) /\ HandlersOK(stk, hs, next) /\ ActiveOK(stk, act)
  BY DEF StacksOK
<1>2. HandlersOK(Front(stk), HandlerStackRestore(hs, Last(stk).off), next)
  BY <1>1, PopHiderHandlers DEF Hider
<1>3. ActiveOK(Front(stk), act)
  BY <1>1, PopActive
<1> QED
  BY <1>1, <1>2, <1>3, PopStack DEF StacksOK

\* A handler has run: what it had disabled is restored, and its signal is no longer active.
LEMMA PopSignal ==
    ASSUME NEW stk, NEW hs, NEW act, NEW next, StacksOK(stk, hs, act, next), stk # <<>>,
           Last(stk).k = "signal"
    PROVE  StacksOK(Front(stk), HandlerStackRestore(hs, Last(stk).off), Front(act), next)
<1>1. StackOK(stk) /\ HandlersOK(stk, hs, next) /\ ActiveOK(stk, act)
  BY DEF StacksOK
<1>2. HandlersOK(Front(stk), HandlerStackRestore(hs, Last(stk).off), next)
  BY <1>1, PopHiderHandlers DEF Hider
<1>3. ActiveOK(Front(stk), Front(act))
  BY <1>1, PopSignalActive
<1> QED
  BY <1>1, <1>2, <1>3, PopStack DEF StacksOK

-----------------------------------------------------------------------------
(* Signals.                                                                *)

\* The ids of the entries are in the order of their indices.
LEMMA EntryOrder ==
    ASSUME NEW hs, NEW next, EntriesOK(hs, next), NEW i \in 1 .. Len(hs), NEW j \in 1 .. Len(hs)
    PROVE  /\ hs[i].id <= hs[j].id <=> i <= j
           /\ hs[i].id = hs[j].id => i = j
           /\ hs[i].id \in Nat \ {0}
<1>1. Len(hs) \in Nat
  BY SeqFacts DEF EntriesOK
<1>2. hs[i].id \in Nat \ {0} /\ hs[j].id \in Nat \ {0}
  <2>1. next \in Nat /\ hs[i].id \in 1 .. next - 1 /\ hs[j].id \in 1 .. next - 1
    BY DEF EntriesOK
  <2> QED
    BY <2>1
<1>3. /\ i < j => hs[i].id < hs[j].id
      /\ j < i => hs[j].id < hs[i].id
  BY DEF EntriesOK
<1> QED
  BY <1>1, <1>2, <1>3

\* The entry with an id is the one that handlerStackFindById answers.
LEMMA IndexOfEntry ==
    ASSUME NEW hs, NEW next, EntriesOK(hs, next), NEW i \in 1 .. Len(hs)
    PROVE  IndexOf(hs, hs[i].id) = i
<1>1. DOMAIN hs = 1 .. Len(hs)
  BY SeqFacts DEF EntriesOK
<1>2. \A j \in 1 .. Len(hs) : hs[j].id = hs[i].id => j = i
  BY EntryOrder
<1> QED
  BY <1>1, <1>2 DEF IndexOf

\* handlerStackFindMatch answers an enabled entry.
LEMMA FindMatchFacts ==
    ASSUME NEW hs, NEW next, EntriesOK(hs, next), NEW exc, NEW below
    PROVE  LET i == HandlerStackFindMatch(hs, exc, below)
           IN  i = 0 \/ (i \in 1 .. Len(hs) /\ hs[i].on)
<1> DEFINE start == IF \E h \in ToSet(hs) : h.id = below THEN IndexOf(hs, below) ELSE Len(hs) + 1
           found == {i \in 1 .. start - 1 : hs[i].on /\ Matches(exc, hs[i].guard)}
<1>1. Len(hs) \in Nat /\ DOMAIN hs = 1 .. Len(hs)
  BY SeqFacts DEF EntriesOK
<1>2. start - 1 \in 0 .. Len(hs)
  <2>1. CASE \E h \in ToSet(hs) : h.id = below
    <3>1. PICK j \in 1 .. Len(hs) : hs[j].id = below
      BY <1>1, <2>1 DEF ToSet
    <3>2. IndexOf(hs, below) = j
      BY <3>1, IndexOfEntry
    <3> QED
      BY <1>1, <2>1, <3>2
  <2>2. CASE ~ \E h \in ToSet(hs) : h.id = below
    BY <1>1, <2>2
  <2> QED
    BY <2>1, <2>2
<1>3. HandlerStackFindMatch(hs, exc, below) =
          IF found = {} THEN 0 ELSE CHOOSE i \in found : \A j \in found : j <= i
  BY Zenon DEF HandlerStackFindMatch
<1> HIDE DEF start
<1>4. found \subseteq 1 .. Len(hs) /\ \A i \in found : hs[i].on
  BY <1>1, <1>2
<1> HIDE DEF found
<1>5. ASSUME found # {}
      PROVE  (CHOOSE i \in found : \A j \in found : j <= i) \in found
  <2>1. \E i \in found : \A j \in found : j <= i
    BY <1>1, <1>4, <1>5, LargestIndex
  <2> QED
    BY <2>1
<1> QED
  BY <1>3, <1>4, <1>5

\* A handler starts to run: it and the handlers inside it are disabled.
LEMMA PushSignal ==
    ASSUME NEW stk, NEW hs, NEW act, NEW next, StacksOK(stk, hs, act, next),
           NEW i \in 1 .. Len(hs), hs[i].on, NEW e, NEW a,
           e.k = "signal", e.id = hs[i].id, e.off = FlippedFrom(hs, i), a.id = hs[i].id
    PROVE  StacksOK(Append(stk, e), HandlerStackDisable(hs, FlippedFrom(hs, i)), Append(act, a),
                    next)
<1> DEFINE t == Append(stk, e)
           n == Len(stk) + 1
<1>1. StackOK(stk) /\ HandlersOK(stk, hs, next) /\ ActiveOK(stk, act)
  BY DEF StacksOK
<1>2. EntriesOK(hs, next) /\ Len(hs) \in Nat
  BY <1>1, SeqFacts DEF HandlersOK, EntriesOK
<1>3. Hidden(hs, e, e.off) /\ Hider(e)
  <2> SUFFICES ASSUME NEW m \in 1 .. Len(hs)
               PROVE  hs[m].id \in FlippedFrom(hs, i) <=> hs[m].on /\ hs[i].id <= hs[m].id
    BY DEF Hidden, HidesId, Hider
  <2>1. ASSUME hs[m].id \in FlippedFrom(hs, i) PROVE hs[m].on /\ hs[i].id <= hs[m].id
    <3>1. PICK j \in i .. Len(hs) : hs[j].on /\ hs[m].id = hs[j].id
      BY <2>1 DEF FlippedFrom
    <3>2. j \in 1 .. Len(hs) /\ i <= j
      BY <1>2
    <3>3. j = m
      BY <1>2, <3>1, <3>2, EntryOrder
    <3> QED
      BY <1>2, <3>1, <3>2, <3>3, EntryOrder
  <2>2. ASSUME hs[m].on, hs[i].id <= hs[m].id PROVE hs[m].id \in FlippedFrom(hs, i)
    <3>1. i <= m
      BY <1>2, <2>2, EntryOrder
    <3>2. m \in i .. Len(hs)
      BY <1>2, <3>1
    <3> QED
      BY <2>2, <3>2 DEF FlippedFrom
  <2> QED
    BY <2>1, <2>2
<1>4. /\ Len(stk) \in Nat
      /\ t[n] = e
      /\ \A j \in 1 .. Len(stk) : t[j] = stk[j]
  BY <1>1, AppendFacts DEF StackOK
<1>5. HandlersOK(t, HandlerStackDisable(hs, FlippedFrom(hs, i)), next)
  BY <1>1, <1>3, PushHiderHandlers
<1>6. OffOK(t, n)
  BY <1>1, <1>3, PushHiderOff
<1> HIDE DEF t
<1>7. SignalOK(t, n)
  <2>1. PICK p \in 1 .. Len(stk) : IsProtect(stk, p, hs[i].id)
    BY <1>1 DEF HandlersOK
  <2>2. Clear(stk, p + 1, Len(stk), hs[i].id)
    BY <1>1, <2>1 DEF HandlersOK
  <2>3. n - 1 = Len(stk) /\ \A j \in p + 1 .. Len(stk) : t[j] = stk[j]
    BY <1>4
  <2>4. IsProtect(t, p, e.id) /\ Clear(t, p + 1, n - 1, e.id) /\ p \in 1 .. n - 1
    BY <1>4, <2>1, <2>2, <2>3 DEF IsProtect, Clear
  <2> QED
    BY <1>4, <2>4 DEF SignalOK
<1>8. PositionOK(t, n)
  BY <1>4, <1>6, <1>7 DEF PositionOK, ElementOK, IdsOK, ExitOK
<1>9. StackOK(t)
  BY <1>1, <1>8, PushStack DEF t
<1>10. ActiveOK(t, Append(act, a))
  <2>1. a.id = e.id
    OBVIOUS
  <2> QED
    BY <1>1, <1>9, <2>1, PushSignalActive DEF t
<1> QED
  BY <1>5, <1>9, <1>10 DEF StacksOK, t

-----------------------------------------------------------------------------
(* The pieces of steps.                                                    *)

\* invokeBlock leaves the stacks in order, whether or not there is an engine left.
LEMMA InvokeBlockOK ==
    ASSUME NEW stk, NEW hs, NEW act, NEW next, StacksOK(stk, hs, act, next), NEW home,
           InvokeBlock(stk, home)
    PROVE  StacksOK(stack', hs, act, next) /\ FlightOK(flight', stack')
<1>1. CASE /\ stack' = Append(stk, Engine(<<[id |-> nextFrame, home |-> home]>>))
           /\ flight' = None
  <2>1. StacksOK(stack', hs, act, next)
    BY <1>1, PushEngine
  <2>2. stack' # <<>>
    <3>1. Len(stack') = Len(stk) + 1 /\ Len(stk) \in Nat
      BY <1>1, AppendFacts DEF StacksOK, StackOK
    <3> QED
      BY <3>1
  <2> QED
    BY <1>1, <2>1, <2>2 DEF FlightOK, Target, None
<1>2. CASE stack' = stk /\ flight' = Native
  BY <1>2, NoTarget DEF Native
<1> QED
  BY <1>1, <1>2 DEF InvokeBlock

\* A turn of the loop of signalInstance leaves the stacks in order.
LEMMA SignalInstanceOK ==
    ASSUME NEW stk, NEW hs, NEW act, NEW next, StacksOK(stk, hs, act, next),
           NEW exc, NEW below, NEW first, NEW original,
           first # 0 => \E i \in 1 .. Len(hs) : hs[i].id = first /\ hs[i].on,
           SignalInstance(stk, hs, act, exc, below, first, original)
    PROVE  StacksOK(stack', handlers', active', next) /\ FlightOK(flight', stack')
<1> DEFINE i == IF first # 0 THEN IndexOf(hs, first) ELSE HandlerStackFindMatch(hs, exc, below)
<1>1. EntriesOK(hs, next)
  BY DEF StacksOK, HandlersOK
<1>2. i = 0 \/ (i \in 1 .. Len(hs) /\ hs[i].on)
  <2>1. CASE first # 0
    <3>1. PICK j \in 1 .. Len(hs) : hs[j].id = first /\ hs[j].on
      BY <2>1
    <3>2. i = j
      BY <1>1, <2>1, <3>1, IndexOfEntry
    <3> QED
      BY <3>1, <3>2
  <2>2. CASE first = 0
    BY <1>1, <2>2, FindMatchFacts
  <2> QED
    BY <2>1, <2>2
<1> HIDE DEF i
<1>3. CASE DefaultAction(stk, exc, original) /\ handlers' = hs /\ active' = act
  <2>1. stack' = stk /\ flight' \in {Unhandled(exc, original), Value}
    BY <1>3 DEF DefaultAction, Leave
  <2>2. FlightOK(flight', stack')
    BY <2>1, NoTarget DEF Unhandled, Value
  <2> QED
    BY <1>3, <2>1, <2>2
<1>4. CASE RaiseNestingLimitError(stk, hs, below) /\ handlers' = hs /\ active' = act
  <2>1. stack' = stk /\ flight'.k \in {"unhandled", "limit"}
    BY <1>4 DEF RaiseNestingLimitError, Leave, Unhandled, Thrown
  <2>2. FlightOK(flight', stack')
    BY <2>1, NoTarget
  <2> QED
    BY <1>4, <2>1, <2>2
<1>5. CASE i # 0 /\ RunHandler(stk, hs, act, i, exc, original)
  <2>1. i \in 1 .. Len(hs) /\ hs[i].on
    BY <1>2, <1>5
  <2> DEFINE e == [k |-> "signal", exc |-> exc, id |-> hs[i].id, off |-> FlippedFrom(hs, i),
                   original |-> original]
             a == [exc |-> exc, id |-> hs[i].id]
  <2>2. /\ e.k = "signal" /\ e.id = hs[i].id /\ e.off = FlippedFrom(hs, i)
        /\ a.id = hs[i].id
    OBVIOUS
  <2>3. /\ handlers' = HandlerStackDisable(hs, FlippedFrom(hs, i))
        /\ active' = Append(act, a)
        /\ InvokeBlock(Append(stk, e), hs[i].home)
    BY <1>5 DEF RunHandler
  <2> HIDE DEF e, a
  <2>4. StacksOK(Append(stk, e), handlers', active', next)
    BY <2>1, <2>2, <2>3, PushSignal
  <2> QED
    BY <2>3, <2>4, InvokeBlockOK
<1> QED
  BY <1>3, <1>4, <1>5, Zenon DEF SignalInstance, i

-----------------------------------------------------------------------------
(* Every step keeps the invariant.                                         *)

\* The running engine is on top of the stack.
LEMMA RunningFacts ==
    ASSUME ExceptionsInv, Running
    PROVE  stack # <<>> /\ Last(stack).k = "engine"
BY DEF ExceptionsInv, FlightOK, Running, Top

\* A step that changes the frames of the running engine.
LEMMA SetTopFramesOK ==
    ASSUME ExceptionsInv, stack # <<>>, Last(stack).k = "engine", NEW frames,
           SetTopFrames(frames), UNCHANGED <<handlers, active, nextHandler>>, flight' = None
    PROVE  ExceptionsInv'
<1>1. StacksOK(stack, handlers, active, nextHandler)
  BY DEF ExceptionsInv
<1>2. StacksOK(Front(stack), handlers, active, nextHandler)
  BY <1>1, PopNeutral
<1>3. stack' = Append(Front(stack), Engine(frames))
  BY DEF SetTopFrames, Under
<1>4. StacksOK(stack', handlers, active, nextHandler)
  BY <1>2, <1>3, PushEngine
<1>5. stack' # <<>>
  <2>1. Len(stack') = Len(Front(stack)) + 1 /\ Len(Front(stack)) \in Nat
    BY <1>2, <1>3, AppendFacts DEF StacksOK, StackOK
  <2> QED
    BY <2>1
<1>6. FlightOK(flight', stack')
  BY <1>5 DEF FlightOK, Target, None
<1> QED
  BY <1>4, <1>6 DEF ExceptionsInv

\* The running engine returns to a frame below, or is left with a value.
LEMMA ReturnToOK ==
    ASSUME ExceptionsInv, stack # <<>>, Last(stack).k = "engine", NEW i, ReturnTo(i),
           UNCHANGED <<handlers, active, nextHandler>>
    PROVE  ExceptionsInv'
<1>1. CASE stack' = Under /\ flight' = Value
  <2>1. StacksOK(Front(stack), handlers, active, nextHandler)
    BY PopNeutral DEF ExceptionsInv
  <2>2. FlightOK(flight', stack')
    BY <1>1, NoTarget DEF Value
  <2> QED
    BY <1>1, <2>1, <2>2 DEF ExceptionsInv, Under
<1>2. CASE SetTopFrames(SubSeq(Top.frames, 1, i - 1)) /\ flight' = None
  BY <1>2, SetTopFramesOK
<1> QED
  BY <1>1, <1>2 DEF ReturnTo

\* A frame is pushed on the running engine.
LEMMA CallStep ==
    ASSUME ExceptionsInv, CallMethod \/ EvalBlock
    PROVE  ExceptionsInv'
<1>1. Running /\ flight = None
  BY DEF CallMethod, EvalBlock, Step, Running
<1>2. UNCHANGED <<handlers, active, nextHandler>> /\ flight' = None
  BY <1>1 DEF CallMethod, EvalBlock
<1>3. \E frames : SetTopFrames(frames)
  BY DEF CallMethod, EvalBlock
<1> QED
  BY <1>1, <1>2, <1>3, RunningFacts, SetTopFramesOK

\* An on:do: starts.
LEMMA OnDoStep ==
    ASSUME ExceptionsInv, NEW guards \in Seq(Guards), OnDo(guards)
    PROVE  ExceptionsInv'
<1> DEFINE e == [k |-> "protect", guards |-> guards, home |-> Home,
                 ids |-> nextHandler .. nextHandler + Len(guards) - 1, limit |-> 0]
<1>1. /\ InvokeBlock(Append(stack, e), Home)
      /\ handlers' = HandlerStackPush(handlers, guards, Home)
      /\ nextHandler' = nextHandler + Len(guards)
      /\ active' = active
  BY DEF OnDo
<1>2. StacksOK(stack, handlers, active, nextHandler)
  BY DEF ExceptionsInv
<1>3. e = [k |-> "protect", guards |-> guards, home |-> Home,
           ids |-> nextHandler .. nextHandler + Len(guards) - 1, limit |-> 0]
  OBVIOUS
<1> HIDE DEF e
<1>4. StacksOK(Append(stack, e), handlers', active', nextHandler')
  BY <1>1, <1>2, <1>3, EnterProtect
<1> QED
  BY <1>1, <1>4, InvokeBlockOK DEF ExceptionsInv

\* An ensure: or ifCurtailed: starts.
LEMMA EnsureStep ==
    ASSUME ExceptionsInv, NEW always, Ensure(always)
    PROVE  ExceptionsInv'
<1> DEFINE e == [k |-> "ensure", always |-> always, home |-> Home,
                 phase |-> "body", started |-> 0, exit |-> None]
<1>1. /\ InvokeBlock(Append(stack, e), Home)
      /\ UNCHANGED <<handlers, active, nextHandler>>
  BY DEF Ensure
<1>2. StacksOK(stack, handlers, active, nextHandler)
  BY DEF ExceptionsInv
<1>3. e.k = "ensure" /\ ElementOK(e) /\ Target(e.exit, stack, Len(stack))
  BY DEF ElementOK, Target, None
<1> HIDE DEF e
<1>4. StacksOK(Append(stack, e), handlers, active, nextHandler)
  BY <1>2, <1>3, PushEnsure
<1> QED
  BY <1>1, <1>4, InvokeBlockOK DEF ExceptionsInv

\* A program signals.
LEMMA SignalStep ==
    ASSUME ExceptionsInv, NEW class, Signal(class)
    PROVE  ExceptionsInv'
BY SignalInstanceOK DEF Signal, ExceptionsInv

\* A message of another actor or another runtime starts.
LEMMA HelpStep ==
    ASSUME ExceptionsInv, Help \/ ForeignSend
    PROVE  ExceptionsInv'
<1>1. StacksOK(stack, handlers, active, nextHandler)
  BY DEF ExceptionsInv
<1>2. PICK kind \in {"help", "foreign"} :
          InvokeBlock(Append(stack, [k |-> kind, off |-> EnabledIds(handlers)]), nextFrame)
  BY DEF Help, ForeignSend
<1>3. /\ handlers' = HandlerStackDisable(handlers, EnabledIds(handlers))
      /\ UNCHANGED <<active, nextHandler>>
  BY DEF Help, ForeignSend
<1>4. StacksOK(Append(stack, [k |-> kind, off |-> EnabledIds(handlers)]), handlers', active,
               nextHandler)
  BY <1>1, <1>3, PushHelp
<1> QED
  BY <1>2, <1>3, <1>4, InvokeBlockOK DEF ExceptionsInv

\* A primitive throws, or a loop sees an interrupt.
LEMMA FailStep ==
    ASSUME ExceptionsInv, PrimitiveFails \/ Interrupted
    PROVE  ExceptionsInv'
<1>1. Running /\ UNCHANGED <<handlers, active, nextHandler>>
  BY DEF PrimitiveFails, Interrupted, Step
<1>2. flight'.k \in {"native", "raised", "interrupt"} /\ stack' \in {stack, Front(stack)}
  BY DEF PrimitiveFails, Interrupted, Leave, Native, Raised, Interrupt, Under
<1>3. StacksOK(Front(stack), handlers, active, nextHandler)
  BY <1>1, RunningFacts, PopNeutral DEF ExceptionsInv
<1>4. FlightOK(flight', stack')
  BY <1>2, NoTarget
<1> QED
  BY <1>1, <1>2, <1>3, <1>4 DEF ExceptionsInv

\* The active signal of an exception is one of the native stack.
LEMMA FindActiveSignalFacts ==
    ASSUME ExceptionsInv, NEW exc \in {a.exc : a \in ToSet(active)}
    PROVE  \E j \in 1 .. Len(stack) : IsSignal(stack, j, FindActiveSignal(exc).id)
<1>1. ActiveOK(stack, active) /\ Len(active) \in Nat /\ DOMAIN active = 1 .. Len(active)
  BY SeqFacts DEF ExceptionsInv, StacksOK, ActiveOK
<1> DEFINE S == {i \in 1 .. Len(active) : active[i].exc = exc}
<1>2. S # {}
  BY <1>1 DEF ToSet
<1>3. PICK i \in S : \A j \in S : j <= i
  BY <1>1, <1>2, LargestIndex
<1>4. \A j \in i + 1 .. Len(active) : active[j].exc # exc
  BY <1>1, <1>3
<1> DEFINE m == CHOOSE n \in DOMAIN active :
                   /\ active[n].exc = exc
                   /\ \A j \in n + 1 .. Len(active) : active[j].exc # exc
<1>5. m \in DOMAIN active
  <2>1. i \in DOMAIN active /\ active[i].exc = exc
    BY <1>1, <1>3
  <2> HIDE DEF S
  <2> QED
    BY <1>4, <2>1, Zenon
<1>6. FindActiveSignal(exc) = active[m]
  BY Zenon DEF FindActiveSignal
<1> HIDE DEF m, S
<1> QED
  BY <1>1, <1>5, <1>6 DEF ActiveOK, ActiveAreSignals

\* return:, resume:, retry and pass unwind to the signal that is found, or to its on:do:.
LEMMA HandlerActionStep ==
    ASSUME ExceptionsInv, HandlerAction
    PROVE  ExceptionsInv'
<1>1. PICK exc \in {a.exc : a \in ToSet(active)}, action \in {"unwind", "resume", "retry", "pass"} :
          Leave(stack, IF action = "resume" /\ ~IsResumable(exc)
                       THEN Native
                       ELSE Thrown(action, FindActiveSignal(exc).id))
  BY DEF HandlerAction
<1>2. UNCHANGED <<handlers, active, nextHandler>>
  BY DEF HandlerAction
<1> DEFINE id == FindActiveSignal(exc).id
<1>3. PICK j \in 1 .. Len(stack) : IsSignal(stack, j, id)
  BY FindActiveSignalFacts
<1>4. stack' = stack /\ (flight' = Native \/ flight' = Thrown(action, id))
  BY <1>1 DEF Leave
<1> HIDE DEF id
<1>5. StackOK(stack)
  BY DEF ExceptionsInv, StacksOK
<1>6. \E p \in 1 .. Len(stack) : IsProtect(stack, p, id)
  <2>1. stack[j].k = "signal" /\ stack[j].id = id
    BY <1>3 DEF IsSignal
  <2>2. PICK p \in 1 .. j - 1 : IsProtect(stack, p, id)
    BY <1>5, <2>1, SignalHasProtect
  <2>3. p \in 1 .. Len(stack)
    BY <1>5, SeqFacts DEF StackOK
  <2> QED
    BY <2>2, <2>3
<1>7. FlightOK(flight', stack)
  <2>1. CASE flight' = Native
    BY <2>1, NoTarget DEF Native
  <2>2. CASE flight' = Thrown(action, id)
    <3>1. flight'.k = action /\ flight'.id = id
      BY <2>2 DEF Thrown
    <3>2. Target(flight', stack, Len(stack))
      BY <1>3, <1>6, <3>1 DEF Target
    <3>3. flight' # None
      BY <3>1 DEF None
    <3> QED
      BY <3>2, <3>3 DEF FlightOK
  <2> QED
    BY <1>4, <2>1, <2>2
<1> QED
  BY <1>2, <1>4, <1>7 DEF ExceptionsInv

\* A return from a block: its home is in this engine, in one below, or in none.
LEMMA NonLocalReturnStep ==
    ASSUME ExceptionsInv, NonLocalReturn
    PROVE  ExceptionsInv'
<1>1. Running /\ nextHandler' = nextHandler
  BY DEF NonLocalReturn, Step
<1>2. stack # <<>> /\ Last(stack).k = "engine"
  BY <1>1, RunningFacts
<1>3. StacksOK(stack, handlers, active, nextHandler)
  BY DEF ExceptionsInv
<1>4. CASE \E i \in HomeIn(Top.frames, Home) : ReturnTo(i) /\ UNCHANGED <<handlers, active>>
  BY <1>1, <1>2, <1>4, ReturnToOK
<1>5. CASE /\ HomeIn(Top.frames, Home) = {}
           /\ Home \in Homes
           /\ Leave(Under, Thrown("nlr", Home)) /\ UNCHANGED <<handlers, active>>
  <2> DEFINE f == Thrown("nlr", Home)
  <2>1. stack' = Front(stack) /\ flight' = f
    BY <1>5 DEF Leave, Under
  <2>2. f.k = "nlr" /\ f.id = Home
    BY DEF Thrown
  <2> HIDE DEF f
  <2>3. StackOK(stack) /\ Len(stack) \in Nat /\ DOMAIN stack = 1 .. Len(stack)
    BY <1>3, SeqFacts DEF StacksOK, StackOK
  <2>4. Target(f, stack, Len(stack))
    <3>1. PICK j \in DOMAIN stack : /\ stack[j].k = "engine"
                                    /\ \E g \in ToSet(stack[j].frames) :
                                          g.id = g.home /\ g.id = Home
      BY <1>5 DEF Homes
    <3> QED
      BY <2>2, <2>3, <3>1 DEF Target
  <2>5. ~IsTarget(f, Last(stack))
    BY <1>5, <2>2 DEF IsTarget, Top
  <2>6. Target(f, stack', Len(stack'))
    BY <1>2, <2>1, <2>3, <2>4, <2>5, TargetPop
  <2>7. FlightOK(flight', stack')
    BY <2>1, <2>2, <2>6 DEF FlightOK, None
  <2>8. StacksOK(Front(stack), handlers, active, nextHandler)
    BY <1>2, <1>3, PopNeutral
  <2> QED
    BY <1>1, <1>5, <2>1, <2>7, <2>8 DEF ExceptionsInv
<1>6. CASE SignalInstance(stack, handlers, active, FreshError, 0, 0, FALSE)
  BY <1>1, <1>3, <1>6, SignalInstanceOK DEF ExceptionsInv
<1> QED
  BY <1>4, <1>5, <1>6 DEF NonLocalReturn

\* A frame ends.
LEMMA EndFrameStep ==
    ASSUME ExceptionsInv, EndFrame
    PROVE  ExceptionsInv'
BY RunningFacts, ReturnToOK DEF EndFrame

\* Whatever the program does.
LEMMA ProgramStep ==
    ASSUME ExceptionsInv, Program
    PROVE  ExceptionsInv'
<1>1. ASSUME NEW g \in Guards, OnDo(<<g>>)
      PROVE  ExceptionsInv'
  <2>1. <<g>> \in Seq(Guards)
    OBVIOUS
  <2> QED
    BY <1>1, <2>1, OnDoStep
<1>2. ASSUME NEW g \in Guards, NEW h \in Guards, OnDo(<<g, h>>)
      PROVE  ExceptionsInv'
  <2>1. <<g, h>> \in Seq(Guards)
    OBVIOUS
  <2> QED
    BY <1>2, <2>1, OnDoStep
<1> QED
  BY <1>1, <1>2, CallStep, FailStep, HandlerActionStep, HelpStep, NonLocalReturnStep,
     EndFrameStep, EnsureStep, SignalStep DEF Program

\* The construct on top, when something leaves the one above it.
LEMMA ArrivingFacts ==
    ASSUME NEW kind, Arriving(kind), ExceptionsInv
    PROVE  /\ stack # <<>> /\ Last(stack).k = kind
           /\ flight # None
           /\ Target(flight, stack, Len(stack))
           /\ StacksOK(stack, handlers, active, nextHandler)
           /\ StackOK(stack)
BY DEF Arriving, Top, ExceptionsInv, FlightOK, StacksOK

\* What an element passes on has its target below it.
LEMMA GoesThrough ==
    ASSUME NEW kind, Arriving(kind), ExceptionsInv, ~IsTarget(flight, Last(stack)),
           stack' = Front(stack), flight' = flight
    PROVE  FlightOK(flight', stack')
<1>1. Target(flight, Front(stack), Len(Front(stack)))
  BY ArrivingFacts, TargetPop
<1> QED
  BY <1>1, ArrivingFacts DEF FlightOK

\* The engine under a primitive.
LEMMA EngineExitStep ==
    ASSUME ExceptionsInv, EngineExit
    PROVE  ExceptionsInv'
<1>1. Arriving("engine") /\ nextHandler' = nextHandler
  BY DEF EngineExit
<1>2. /\ stack # <<>> /\ Last(stack).k = "engine"
      /\ StacksOK(stack, handlers, active, nextHandler)
  BY <1>1, ArrivingFacts
<1>3. CASE Leave(stack, None) /\ UNCHANGED <<handlers, active>>
  BY <1>1, <1>2, <1>3 DEF Leave, ExceptionsInv, FlightOK, Target, None
<1>4. CASE SignalInstance(stack, handlers, active, FreshError, 0, 0, FALSE)
  BY <1>1, <1>2, <1>4, SignalInstanceOK DEF ExceptionsInv
<1>5. CASE SignalInstance(stack, handlers, active, flight.exc, 0, 0, flight.exc.class = "Foreign")
  BY <1>1, <1>2, <1>5, SignalInstanceOK DEF ExceptionsInv
<1>6. CASE /\ \E i \in HomeIn(Top.frames, flight.id) : ReturnTo(i)
           /\ UNCHANGED <<handlers, active>>
  BY <1>1, <1>2, <1>6, ReturnToOK
<1>7. CASE /\ flight.k = "nlr" => HomeIn(Top.frames, flight.id) = {}
           /\ Leave(Under, flight) /\ UNCHANGED <<handlers, active>>
  <2>1. ~IsTarget(flight, Last(stack))
    BY <1>2, <1>7 DEF IsTarget, Top
  <2>2. stack' = Front(stack) /\ flight' = flight
    BY <1>7 DEF Leave, Under
  <2>3. FlightOK(flight', stack')
    BY <1>1, <2>1, <2>2, GoesThrough
  <2>4. StacksOK(Front(stack), handlers, active, nextHandler)
    BY <1>2, PopNeutral
  <2> QED
    BY <1>1, <1>7, <2>2, <2>3, <2>4 DEF ExceptionsInv
<1> QED
  BY <1>3, <1>4, <1>5, <1>6, <1>7 DEF EngineExit

\* runProtected: what is thrown to it, tried again, or on its way through.
LEMMA ProtectExitStep ==
    ASSUME ExceptionsInv, ProtectExit
    PROVE  ExceptionsInv'
<1> DEFINE ours   == flight.k \in {"unwind", "retry", "limit"} /\ flight.id \in Top.ids
           popped == HandlerStackPop(handlers, Top.ids)
           fresh  == [Top EXCEPT !.ids = nextHandler .. nextHandler + Len(Top.guards) - 1,
                                 !.limit = 0]
<1>1. Arriving("protect")
  BY DEF ProtectExit
<1>2. /\ stack # <<>> /\ Last(stack).k = "protect"
      /\ StacksOK(stack, handlers, active, nextHandler)
      /\ StackOK(stack)
  BY <1>1, ArrivingFacts
<1>3. StacksOK(Front(stack), popped, active, nextHandler)
  BY <1>2, LeaveProtect DEF Top
<1>4. ElementOK(Top)
  <2>1. Len(stack) \in 1 .. Len(stack) /\ Last(stack) = stack[Len(stack)]
    BY <1>2, FrontFacts DEF StackOK
  <2> QED
    BY <1>2, <2>1 DEF StackOK, PositionOK, Top
<1>5. CASE /\ handlers' = popped
           /\ Leave(Under, Value) /\ UNCHANGED <<active, nextHandler>>
  <2>1. FlightOK(flight', stack')
    BY <1>5, NoTarget DEF Leave, Value
  <2> QED
    BY <1>3, <1>5, <2>1 DEF ExceptionsInv, Leave, Under
<1>6. CASE /\ handlers' = HandlerStackPush(popped, Top.guards, Top.home)
           /\ nextHandler' = nextHandler + Len(Top.guards)
           /\ InvokeBlock(Append(Under, fresh), Top.home) /\ UNCHANGED active
  <2>1. /\ Top.guards \in Seq(Guards)
        /\ fresh = [k |-> "protect", guards |-> Top.guards, home |-> Top.home,
                    ids |-> nextHandler .. nextHandler + Len(Top.guards) - 1, limit |-> 0]
    <3>1. /\ Top = [k |-> "protect", guards |-> Top.guards, home |-> Top.home,
                    ids |-> Top.ids, limit |-> Top.limit]
          /\ Top.guards \in Seq(Guards)
      BY <1>2, <1>4 DEF ElementOK, Top
    <3>2. /\ DOMAIN fresh = {"k", "guards", "home", "ids", "limit"}
          /\ fresh.k = "protect" /\ fresh.guards = Top.guards /\ fresh.home = Top.home
          /\ fresh.ids = nextHandler .. nextHandler + Len(Top.guards) - 1 /\ fresh.limit = 0
      BY <3>1
    <3>3. fresh = [x \in DOMAIN fresh |-> fresh[x]]
      OBVIOUS
    <3> HIDE DEF fresh
    <3> QED
      BY <3>1, <3>2, <3>3
  <2> HIDE DEF fresh, popped
  <2>2. StacksOK(Append(Under, fresh), handlers', active', nextHandler')
    BY <1>3, <1>6, <2>1, EnterProtect DEF Under
  <2> QED
    BY <1>6, <2>2, InvokeBlockOK DEF ExceptionsInv
<1>7. CASE /\ ours
           /\ SignalInstance(Append(Under, [Top EXCEPT !.limit = flight.id]), handlers, active,
                             FreshError, 0, flight.id, FALSE)
           /\ UNCHANGED nextHandler
  <2> DEFINE t == Append(Under, [Top EXCEPT !.limit = flight.id])
  <2>1. /\ StacksOK(t, handlers, active, nextHandler)
        /\ Len(t) = Len(stack)
        /\ \A h : IsProtect(t, Len(t), h) <=> h \in Top.ids
    BY <1>2, SetLimit DEF Under, Top
  <2>2. Len(t) \in Nat /\ Len(t) \in 1 .. Len(t)
    BY <1>2, <2>1, FrontFacts DEF StackOK
  <2> HIDE DEF t
  <2>3. IsProtect(t, Len(t), flight.id)
    BY <1>7, <2>1
  <2>4. PICK i \in 1 .. Len(handlers) : handlers[i].id = flight.id
    BY <2>1, <2>2, <2>3 DEF StacksOK, HandlersOK, IsProtect
  <2>5. Clear(t, Len(t) + 1, Len(t), flight.id)
    BY <2>2 DEF Clear
  <2>6. handlers[i].on
    BY <2>1, <2>2, <2>3, <2>4, <2>5 DEF StacksOK, HandlersOK
  <2>7. SignalInstance(t, handlers, active, FreshError, 0, flight.id, FALSE)
    BY <1>7 DEF t
  <2>8. StacksOK(stack', handlers', active', nextHandler) /\ FlightOK(flight', stack')
    BY <2>1, <2>4, <2>6, <2>7, SignalInstanceOK
  <2> QED
    BY <1>7, <2>8 DEF ExceptionsInv
<1>8. CASE /\ ~ours \/ (flight.k = "limit" /\ Top.limit # 0)
           /\ handlers' = popped
           /\ Leave(Under, flight) /\ UNCHANGED <<active, nextHandler>>
  <2>1. ~IsTarget(flight, Last(stack))
    BY <1>2, <1>8 DEF IsTarget, Top
  <2>2. stack' = Front(stack) /\ flight' = flight
    BY <1>8 DEF Leave, Under
  <2>3. FlightOK(flight', stack')
    BY <1>1, <2>1, <2>2, GoesThrough
  <2> QED
    BY <1>3, <1>8, <2>2, <2>3 DEF ExceptionsInv
<1> QED
  BY <1>5, <1>6, <1>7, <1>8, Zenon DEF ProtectExit

\* An ensure: goes on to its cleanup, which will go on with `exit'.
LEMMA RunCleanupOK ==
    ASSUME ExceptionsInv, Arriving("ensure"), NEW phase, NEW exit,
           phase = "after" => exit # None,
           Target(exit, Front(stack), Len(Front(stack))),
           RunCleanup(phase, exit), UNCHANGED <<handlers, active, nextHandler>>
    PROVE  ExceptionsInv'
<1> DEFINE e == [Top EXCEPT !.phase = phase, !.exit = exit, !.started = @ + 1]
<1>1. /\ stack # <<>> /\ Last(stack).k = "ensure"
      /\ StacksOK(stack, handlers, active, nextHandler)
      /\ StackOK(stack)
  BY ArrivingFacts
<1>2. ElementOK(Top)
  <2>1. Len(stack) \in 1 .. Len(stack) /\ Last(stack) = stack[Len(stack)]
    BY <1>1, FrontFacts DEF StackOK
  <2> QED
    BY <1>1, <2>1 DEF StackOK, PositionOK, Top
<1>3. /\ Top = [k |-> "ensure", always |-> Top.always, home |-> Top.home, phase |-> Top.phase,
                started |-> Top.started, exit |-> Top.exit]
      /\ Top.started \in Nat
  BY <1>1, <1>2 DEF ElementOK, Top
<1>4. e = [k |-> "ensure", always |-> Top.always, home |-> Top.home, phase |-> phase,
           started |-> Top.started + 1, exit |-> exit]
  <2>1. /\ DOMAIN e = {"k", "always", "home", "phase", "started", "exit"}
        /\ e.k = "ensure" /\ e.always = Top.always /\ e.home = Top.home
        /\ e.phase = phase /\ e.started = Top.started + 1 /\ e.exit = exit
    BY <1>3
  <2>2. e = [x \in DOMAIN e |-> e[x]]
    OBVIOUS
  <2> HIDE DEF e
  <2> QED
    BY <2>1, <2>2
<1>5. InvokeBlock(Append(Front(stack), e), Top.home)
  BY DEF RunCleanup, Under
<1> HIDE DEF e
<1>6. e.k = "ensure" /\ e.exit = exit /\ ElementOK(e)
  <2>1. Top.started + 1 \in Nat /\ Top.started + 1 > 0
    BY <1>3
  <2> QED
    BY <1>4, <2>1 DEF ElementOK
<1>7. StacksOK(Front(stack), handlers, active, nextHandler)
  BY <1>1, PopNeutral
<1>8. StacksOK(Append(Front(stack), e), handlers, active, nextHandler)
  BY <1>6, <1>7, PushEnsure
<1> QED
  BY <1>5, <1>8, InvokeBlockOK DEF ExceptionsInv

\* ensure: and ifCurtailed: in their three phases.
LEMMA EnsureExitStep ==
    ASSUME ExceptionsInv, EnsureExit
    PROVE  ExceptionsInv'
<1>1. Arriving("ensure") /\ UNCHANGED <<handlers, active, nextHandler>>
  BY DEF EnsureExit
<1>2. /\ stack # <<>> /\ Last(stack).k = "ensure"
      /\ flight # None
      /\ Target(flight, stack, Len(stack))
      /\ StacksOK(stack, handlers, active, nextHandler)
      /\ StackOK(stack)
  BY <1>1, ArrivingFacts
<1>3. StacksOK(Front(stack), handlers, active, nextHandler)
  BY <1>2, PopNeutral
<1>4. ~IsTarget(flight, Last(stack))
  BY <1>2 DEF IsTarget
<1>5. CASE RunCleanup("normal", None)
  BY <1>1, <1>5, RunCleanupOK DEF Target, None
<1>6. CASE Leave(Under, Value)
  <2>1. FlightOK(flight', stack')
    BY <1>6, NoTarget DEF Leave, Value
  <2> QED
    BY <1>1, <1>3, <1>6, <2>1 DEF ExceptionsInv, Leave, Under
<1>7. CASE RunCleanup("after", flight)
  <2>1. Target(flight, Front(stack), Len(Front(stack)))
    BY <1>2, <1>4, TargetPop
  <2> QED
    BY <1>1, <1>2, <1>7, <2>1, RunCleanupOK
<1>8. CASE Top.phase = "after" /\ Leave(Under, Top.exit)
  <2>1. Len(stack) \in 1 .. Len(stack) /\ Top = stack[Len(stack)]
    BY <1>2, FrontFacts DEF StackOK, Top
  <2>2. ElementOK(Top) /\ ExitOK(stack, Len(stack)) /\ Top.k = "ensure"
    BY <1>2, <2>1 DEF StackOK, PositionOK, Top
  <2>3. Target(Top.exit, stack, Len(stack) - 1) /\ Top.exit # None
    BY <1>8, <2>1, <2>2 DEF ElementOK, ExitOK
  <2>4. Target(Top.exit, Front(stack), Len(Front(stack)))
    BY <1>2, <2>3, TargetBelow
  <2>5. stack' = Front(stack) /\ flight' = Top.exit
    BY <1>8 DEF Leave, Under
  <2>6. FlightOK(flight', stack')
    BY <2>3, <2>4, <2>5 DEF FlightOK
  <2> QED
    BY <1>1, <1>3, <2>5, <2>6 DEF ExceptionsInv
<1>9. CASE Leave(Under, flight)
  <2>1. stack' = Front(stack) /\ flight' = flight
    BY <1>9 DEF Leave, Under
  <2>2. FlightOK(flight', stack')
    BY <1>1, <1>4, <2>1, GoesThrough
  <2> QED
    BY <1>1, <1>3, <2>1, <2>2 DEF ExceptionsInv
<1> QED
  BY <1>5, <1>6, <1>7, <1>8, <1>9 DEF EnsureExit

\* signalInstance, when its handler has ended or is left.
LEMMA SignalExitStep ==
    ASSUME ExceptionsInv, SignalExit
    PROVE  ExceptionsInv'
<1> DEFINE mine     == flight.k \in {"resume", "pass"} /\ flight.id = Top.id
           restored == HandlerStackRestore(handlers, Top.off)
<1>1. Arriving("signal") /\ nextHandler' = nextHandler
  BY DEF SignalExit
<1>2. /\ stack # <<>> /\ Last(stack).k = "signal"
      /\ flight # None
      /\ StacksOK(stack, handlers, active, nextHandler)
      /\ StackOK(stack)
  BY <1>1, ArrivingFacts
<1>3. StacksOK(Front(stack), restored, Front(active), nextHandler)
  BY <1>2, PopSignal DEF Top
<1>4. CASE SignalInstance(Under, restored, Front(active), Top.exc, Top.id, 0, Top.original)
  <2> HIDE DEF restored
  <2> QED
    BY <1>1, <1>3, <1>4, SignalInstanceOK DEF ExceptionsInv, Under
<1>5. CASE /\ handlers' = restored
           /\ active' = Front(active)
           /\ Leave(Under, IF mine THEN Value
                           ELSE IF flight = Value THEN Thrown("unwind", Top.id) ELSE flight)
  <2>1. stack' = Front(stack)
    BY <1>5 DEF Leave, Under
  <2>2. FlightOK(flight', stack')
    <3>1. CASE mine
      BY <1>5, <3>1, NoTarget DEF Leave, Value
    <3>2. CASE ~mine /\ flight = Value
      <4> DEFINE n == Len(stack)
      <4>1. n \in 1 .. n /\ Top = stack[n] /\ Top.k = "signal"
        BY <1>2, FrontFacts DEF StackOK, Top
      <4>2. \E p \in 1 .. n - 1 : IsProtect(stack, p, Top.id)
        BY <1>2, <4>1, SignalHasProtect
      <4>3. flight'.k = "unwind" /\ flight'.id = Top.id
        BY <1>5, <3>2 DEF Leave, Thrown
      <4>4. Target(flight', stack, n - 1)
        BY <4>2, <4>3 DEF Target
      <4>5. Target(flight', stack', Len(stack'))
        BY <1>2, <2>1, <4>4, TargetBelow
      <4> QED
        BY <4>3, <4>5 DEF FlightOK, None
    <3>3. CASE ~mine /\ flight # Value
      <4>1. flight' = flight
        BY <1>5, <3>3 DEF Leave
      <4>2. ~IsTarget(flight, Last(stack))
        BY <1>2, <3>3 DEF IsTarget, Top
      <4> QED
        BY <1>1, <2>1, <4>1, <4>2, GoesThrough
    <3> QED
      BY <3>1, <3>2, <3>3
  <2> QED
    BY <1>1, <1>3, <1>5, <2>1, <2>2 DEF ExceptionsInv
<1> QED
  BY <1>4, <1>5, Zenon DEF SignalExit

\* A helped message or a foreign send ends; the native error of a foreign send is
\* signalled first.
LEMMA HelpExitStep ==
    ASSUME ExceptionsInv, HelpExit \/ ForeignExit
    PROVE  ExceptionsInv'
<1>1. nextHandler' = nextHandler
  BY DEF HelpExit, ForeignExit
<1>2. PICK kind \in {"help", "foreign"} : Arriving(kind)
  BY DEF HelpExit, ForeignExit
<1>3. /\ stack # <<>> /\ Last(stack).k \in {"help", "foreign"}
      /\ flight # None
      /\ StacksOK(stack, handlers, active, nextHandler)
  BY <1>2, ArrivingFacts
<1>4. StacksOK(Front(stack), HandlerStackRestore(handlers, Top.off), active, nextHandler)
  BY <1>3, PopHelp DEF Top
<1>5. CASE SignalInstance(stack, handlers, active, FreshError, 0, 0, FALSE)
  BY <1>1, <1>3, <1>5, SignalInstanceOK DEF ExceptionsInv
<1>6. CASE /\ handlers' = HandlerStackRestore(handlers, Top.off)
           /\ active' = active
           /\ Leave(Under, Value) \/ Leave(Under, Crossing(flight, Top.off # {}))
  <2>1. stack' = Front(stack)
    BY <1>6 DEF Leave, Under
  <2>2. FlightOK(flight', stack')
    <3>1. CASE flight' = Value
      BY <3>1, NoTarget DEF Value
    <3>2. CASE flight' = Crossing(flight, Top.off # {})
      <4>1. CASE flight'.k \in {"raised", "native"}
        BY <4>1, NoTarget
      <4>2. CASE flight' = flight /\ flight.k \notin {"unwind", "retry", "resume", "pass",
                                                     "limit", "nlr"}
        BY <1>3, <4>2 DEF FlightOK, Target
      <4>3. \/ flight' = Raised(flight.exc)
            \/ flight' = Native
            \/ flight' = flight /\ flight.k \notin {"unwind", "retry", "resume", "pass",
                                                    "limit", "nlr"}
        BY <3>2 DEF Crossing
      <4> QED
        BY <4>1, <4>2, <4>3 DEF Raised, Native
    <3> QED
      BY <1>6, <3>1, <3>2 DEF Leave
  <2> QED
    BY <1>1, <1>4, <1>6, <2>1, <2>2 DEF ExceptionsInv
<1> QED
  BY <1>5, <1>6 DEF HelpExit, ForeignExit

\* The invariant is inductive.
LEMMA ExceptionsStep ==
    ASSUME ExceptionsInv, [Next]_vars
    PROVE  ExceptionsInv'
<1>1. CASE Program
  BY <1>1, ProgramStep
<1>2. CASE TopLevelExit \/ Ended \/ UNCHANGED vars
  <2>1. UNCHANGED <<stack, handlers, active, flight, nextHandler>>
    BY <1>2 DEF TopLevelExit, Ended, vars
  <2> QED
    BY <2>1 DEF ExceptionsInv
<1>3. CASE EngineExit \/ ProtectExit \/ EnsureExit \/ SignalExit \/ HelpExit \/ ForeignExit
  BY <1>3, EngineExitStep, ProtectExitStep, EnsureExitStep, SignalExitStep, HelpExitStep
<1> QED
  BY <1>1, <1>2, <1>3 DEF Next, Exit

-----------------------------------------------------------------------------
(* The properties.                                                         *)

\* The main program starts with one frame and no handlers.
LEMMA ExceptionsInit == Init => ExceptionsInv
<1> SUFFICES ASSUME Init PROVE ExceptionsInv
  OBVIOUS
<1>1. /\ IsSeq(stack) /\ Len(stack) = 1
      /\ stack[1].k = "engine" /\ stack # <<>>
  BY DEF Init, Engine, IsSeq, ToSet
<1>2. IsSeq(handlers) /\ Len(handlers) = 0 /\ IsSeq(active) /\ Len(active) = 0
  BY DEF Init, IsSeq, ToSet
<1>3. \A j \in 1 .. 1 : PositionOK(stack, j)
  BY <1>1 DEF PositionOK, ElementOK, IdsOK, SignalOK, OffOK, ExitOK
<1>4. StackOK(stack)
  BY <1>1, <1>3 DEF StackOK
<1>5. HandlersOK(stack, handlers, nextHandler)
  BY <1>1, <1>2 DEF HandlersOK, EntriesOK, IsProtect, Init
<1>6. ActiveOK(stack, active)
  BY <1>1, <1>2 DEF ActiveOK, ActiveAreSignals, SignalsAreActive, ActiveInOrder
<1>7. FlightOK(flight, stack)
  BY <1>1 DEF FlightOK, Target, None, Init
<1> QED
  BY <1>4, <1>5, <1>6, <1>7 DEF ExceptionsInv, StacksOK

\* The invariant holds throughout.
LEMMA ExceptionsInvariant == Spec => []ExceptionsInv
BY ExceptionsInit, ExceptionsStep, PTL DEF Spec

\* The on:do: of an id is the one position that has it.
LEMMA PositionFacts ==
    ASSUME StackOK(stack), NEW p \in 1 .. Len(stack), NEW h, IsProtect(stack, p, h)
    PROVE  Position(h) = p
<1>1. DOMAIN stack = 1 .. Len(stack)
  BY SeqFacts DEF StackOK
<1>2. \A q \in 1 .. Len(stack) : stack[q].k = "protect" /\ h \in stack[q].ids => q = p
  BY ProtectUnique DEF IsProtect
<1> QED
  BY <1>1, <1>2 DEF Position, IsProtect

\* To hide the handler at an index is to hide the one with its id.
LEMMA HidesFacts ==
    ASSUME ExceptionsInv, NEW j \in 1 .. Len(stack), NEW i \in 1 .. Len(handlers)
    PROVE  Hides(j, i) <=> HidesId(stack[j], handlers[i].id)
<1>1. StackOK(stack) /\ HandlersOK(stack, handlers, nextHandler) /\ EntriesOK(handlers, nextHandler)
  BY DEF ExceptionsInv, StacksOK, HandlersOK
<1>2. CASE stack[j].k = "signal"
  <2>1. PICK p \in 1 .. j - 1 : IsProtect(stack, p, stack[j].id)
    BY <1>1, <1>2, SignalHasProtect
  <2>2. p \in 1 .. Len(stack)
    BY <1>1, SeqFacts DEF StackOK
  <2>3. PICK n \in 1 .. Len(handlers) : handlers[n].id = stack[j].id
    BY <1>1, <2>1, <2>2 DEF HandlersOK, IsProtect
  <2>4. IndexOf(handlers, stack[j].id) = n
    BY <1>1, <2>3, IndexOfEntry
  <2>5. handlers[n].id <= handlers[i].id <=> n <= i
    BY <1>1, EntryOrder
  <2> QED
    BY <1>2, <2>3, <2>4, <2>5 DEF Hides, HidesId
<1>3. CASE stack[j].k # "signal"
  BY <1>3 DEF Hides, HidesId
<1> QED
  BY <1>2, <1>3

\* The handler stack follows from the native stack: its entries are those of the on:do:
\* constructs that are being evaluated, in their order, and one is disabled exactly while
\* a handler at or outside it runs, or a message of another actor or runtime does.
THEOREM HandlerStackExact == Spec => []HandlerStackIsExact
<1>1. ExceptionsInv => HandlerStackIsExact
  <2> SUFFICES ASSUME ExceptionsInv PROVE HandlerStackIsExact
    OBVIOUS
  <2>1. /\ StackOK(stack) /\ HandlersOK(stack, handlers, nextHandler)
        /\ EntriesOK(handlers, nextHandler)
    BY DEF ExceptionsInv, StacksOK, HandlersOK
  <2>2. /\ Len(stack) \in Nat /\ DOMAIN stack = 1 .. Len(stack)
        /\ Len(handlers) \in Nat /\ DOMAIN handlers = 1 .. Len(handlers)
    BY <2>1, SeqFacts DEF StackOK, EntriesOK
  <2>3. \A i \in DOMAIN handlers : \E j \in DOMAIN stack :
            stack[j].k = "protect" /\ handlers[i].id \in stack[j].ids
    BY <2>1, <2>2 DEF HandlersOK, IsProtect
  <2>4. \A j \in DOMAIN stack : stack[j].k = "protect" =>
            stack[j].ids \subseteq {h.id : h \in ToSet(handlers)}
    <3> SUFFICES ASSUME NEW j \in DOMAIN stack, stack[j].k = "protect", NEW h \in stack[j].ids
                 PROVE  \E g \in ToSet(handlers) : g.id = h
      OBVIOUS
    <3>1. PICK i \in 1 .. Len(handlers) : handlers[i].id = h
      BY <2>1, <2>2 DEF HandlersOK
    <3> QED
      BY <2>2, <3>1 DEF ToSet
  <2>5. ASSUME NEW i \in 1 .. Len(handlers)
        PROVE  LET p == Position(handlers[i].id)
               IN  /\ i > 1 => Position(handlers[i - 1].id) <= p
                   /\ handlers[i].on <=> \A j \in p + 1 .. Len(stack) : ~Hides(j, i)
    <3>1. PICK p \in 1 .. Len(stack) : IsProtect(stack, p, handlers[i].id)
      BY <2>1 DEF HandlersOK
    <3>2. Position(handlers[i].id) = p
      BY <2>1, <3>1, PositionFacts
    <3>3. ASSUME i > 1 PROVE Position(handlers[i - 1].id) <= p
      <4>1. i - 1 \in 1 .. Len(handlers) /\ i - 1 < i
        BY <2>2, <3>3
      <4>2. PICK q \in 1 .. Len(stack) : IsProtect(stack, q, handlers[i - 1].id)
        BY <2>1, <4>1 DEF HandlersOK
      <4>3. Position(handlers[i - 1].id) = q
        BY <2>1, <4>2, PositionFacts
      <4>4. handlers[i - 1].id < handlers[i].id
        BY <2>1, <4>1 DEF EntriesOK
      <4>5. handlers[i - 1].id \in Nat /\ handlers[i].id \in Nat
        BY <2>1, <4>1, EntryOrder
      <4>6. ~ (p < q)
        <5> SUFFICES ASSUME p < q PROVE FALSE
          OBVIOUS
        <5>1. IdsOK(stack, q) /\ p \in 1 .. q - 1
          BY <2>1, <2>2 DEF StackOK, PositionOK
        <5>2. handlers[i].id < handlers[i - 1].id
          BY <3>1, <4>2, <5>1 DEF IdsOK, IsProtect
        <5> QED
          BY <4>4, <4>5, <5>2
      <4> QED
        BY <2>2, <4>3, <4>6
    <3>4. handlers[i].on <=> \A j \in p + 1 .. Len(stack) : ~Hides(j, i)
      <4>1. handlers[i].on <=> \A j \in p + 1 .. Len(stack) : ~HidesId(stack[j], handlers[i].id)
        BY <2>1, <3>1 DEF HandlersOK, Clear
      <4>2. \A j \in p + 1 .. Len(stack) : j \in 1 .. Len(stack)
        BY <2>2
      <4>3. \A j \in p + 1 .. Len(stack) : Hides(j, i) <=> HidesId(stack[j], handlers[i].id)
        BY <4>2, HidesFacts
      <4> QED
        BY <4>1, <4>3, Zenon
    <3> QED
      BY <3>2, <3>3, <3>4
  <2> QED
    BY <2>2, <2>3, <2>4, <2>5, Zenon DEF HandlerStackIsExact
<1> QED
  BY <1>1, ExceptionsInvariant, PTL

\* No handler runs while something between its on:do: and the signal hides it: a signal
\* inside a handler is never caught by that handler, nor by one behind a message of
\* another actor, at the nesting limit either.
THEOREM HandlersAreVisible == Spec => []HandlerIsVisible
<1>1. ExceptionsInv => HandlerIsVisible
  <2> SUFFICES ASSUME ExceptionsInv, NEW j \in DOMAIN stack, stack[j].k = "signal",
                      NEW i \in Position(stack[j].id) + 1 .. j - 1
               PROVE  ~Hides(i, IndexOf(handlers, stack[j].id))
    BY DEF HandlerIsVisible
  <2>1. /\ StackOK(stack) /\ HandlersOK(stack, handlers, nextHandler)
        /\ EntriesOK(handlers, nextHandler)
    BY DEF ExceptionsInv, StacksOK, HandlersOK
  <2>2. Len(stack) \in Nat /\ j \in 1 .. Len(stack)
    BY <2>1, SeqFacts DEF StackOK
  <2>3. PICK p \in 1 .. j - 1 : IsProtect(stack, p, stack[j].id)
    BY <2>1, <2>2, SignalHasProtect
  <2>4. p \in 1 .. Len(stack)
    BY <2>2
  <2>5. Position(stack[j].id) = p
    BY <2>1, <2>3, <2>4, PositionFacts
  <2>6. Clear(stack, p + 1, j - 1, stack[j].id)
    BY <2>1, <2>2, <2>3, <2>4, SignalHasProtect
  <2>7. ~HidesId(stack[i], stack[j].id) /\ i \in 1 .. Len(stack)
    BY <2>2, <2>5, <2>6 DEF Clear
  <2>8. PICK n \in 1 .. Len(handlers) : handlers[n].id = stack[j].id
    BY <2>1, <2>3, <2>4 DEF HandlersOK, IsProtect
  <2>9. IndexOf(handlers, stack[j].id) = n
    BY <2>1, <2>8, IndexOfEntry
  <2> QED
    BY <2>7, <2>8, <2>9, HidesFacts
<1> QED
  BY <1>1, ExceptionsInvariant, PTL

\* What unwinds has its target on the stack, in flight and while a cleanup holds it, so
\* it never reaches runTopLevel.
THEOREM UnwindsAreCaught == Spec => []UnwindsHaveTargets
<1>1. ExceptionsInv => UnwindsHaveTargets
  <2> SUFFICES ASSUME ExceptionsInv PROVE UnwindsHaveTargets
    OBVIOUS
  <2>1. Target(flight, stack, Len(stack)) /\ DOMAIN stack = 1 .. Len(stack)
    BY SeqFacts DEF ExceptionsInv, FlightOK, StacksOK, StackOK
  <2>2. CASE flight.k \in {"unwind", "retry"}
    BY <2>1, <2>2 DEF UnwindsHaveTargets, Target, IsProtect
  <2>3. CASE flight.k \in {"resume", "pass"}
    BY <2>1, <2>3 DEF UnwindsHaveTargets, Target, IsSignal
  <2>4. CASE flight.k = "nlr"
    <3>1. PICK j \in DOMAIN stack : /\ stack[j].k = "engine"
                                    /\ \E g \in ToSet(stack[j].frames) :
                                          g.id = flight.id /\ g.home = flight.id
      BY <2>1, <2>4 DEF Target
    <3>2. flight.id \in Homes
      BY <3>1 DEF Homes
    <3> QED
      BY <2>4, <3>2 DEF UnwindsHaveTargets
  <2>5. CASE flight.k \notin {"unwind", "retry", "resume", "pass", "nlr"}
    BY <2>5 DEF UnwindsHaveTargets
  <2> QED
    BY <2>2, <2>3, <2>4, <2>5
<1> QED
  BY <1>1, ExceptionsInvariant, PTL

\* ensure: and ifCurtailed: are left only by EnsureExit, and there only in the phases in
\* which the cleanup has been started, or when ifCurtailed: has a value.
LEMMA CleanupStep ==
    ASSUME ExceptionsInv, [Next]_vars, stack # <<>>, Top.k = "ensure", Len(stack') < Len(stack)
    PROVE  Top.started > 0 \/ (~Top.always /\ flight = Value)
<1>1. /\ Len(stack) \in Nat \ {0} /\ Len(stack) \in 1 .. Len(stack)
      /\ Top = stack[Len(stack)] /\ Len(Front(stack)) = Len(stack) - 1
      /\ IsSeq(Front(stack))
  BY FrontFacts DEF ExceptionsInv, StacksOK, StackOK, Top
<1>2. ElementOK(Top)
  BY <1>1 DEF ExceptionsInv, StacksOK, StackOK, PositionOK
<1>3. stack' # stack
  BY <1>1
<1>4. ~Program
  BY DEF Program, CallMethod, EvalBlock, PrimitiveFails, Interrupted, HandlerAction, Help,
     ForeignSend, NonLocalReturn, EndFrame, OnDo, Ensure, Signal, Step, Running
<1>5. EnsureExit
  <2>1. ~EngineExit /\ ~ProtectExit /\ ~SignalExit /\ ~HelpExit /\ ~ForeignExit
    BY DEF EngineExit, ProtectExit, SignalExit, HelpExit, ForeignExit, Arriving
  <2>2. ~TopLevelExit /\ ~Ended /\ ~UNCHANGED vars
    BY <1>3 DEF TopLevelExit, Ended, vars
  <2> QED
    BY <1>4, <2>1, <2>2 DEF Next, Exit
<1>6. \A phase, exit : ~RunCleanup(phase, exit)
  <2> SUFFICES ASSUME NEW phase, NEW exit, RunCleanup(phase, exit) PROVE FALSE
    OBVIOUS
  <2>1. PICK e : InvokeBlock(Append(Front(stack), e), Top.home)
    BY DEF RunCleanup, Under
  <2> DEFINE t == Append(Front(stack), e)
  <2>2. IsSeq(t) /\ Len(t) = Len(stack)
    BY <1>1, AppendFacts
  <2>3. InvokeBlock(t, Top.home)
    BY <2>1
  <2> HIDE DEF t
  <2>4. stack' = t \/ \E x : stack' = Append(t, x)
    BY <2>3 DEF InvokeBlock
  <2>5. Len(stack') = Len(stack) \/ Len(stack') = Len(stack) + 1
    BY <2>2, <2>4, AppendFacts
  <2> QED
    BY <1>1, <2>5
<1>7. \/ Top.phase = "body" /\ flight = Value /\ ~Top.always
      \/ Top.phase \in {"normal", "after"}
  BY <1>5, <1>6, Zenon DEF EnsureExit
<1>8. Top.phase # "body" => Top.started > 0
  BY <1>2 DEF ElementOK
<1> QED
  BY <1>7, <1>8

\* Nothing that leaves the block of an ensure:, by value, unwind, non-local return,
\* error or interrupt, leaves the ensure: before its cleanup has been started.
THEOREM CleanupsAreNotSkipped == Spec => CleanupIsNotSkipped
<1>1. ASSUME ExceptionsInv, [Next]_vars
      PROVE  [ (stack # <<>> /\ Top.k = "ensure" /\ Len(stack') < Len(stack)) =>
                 \/ Top.started > 0
                 \/ ~Top.always /\ flight = Value ]_vars
  BY <1>1, CleanupStep, Zenon
<1> QED
  BY <1>1, ExceptionsInvariant, PTL DEF Spec, CleanupIsNotSkipped

=============================================================================
