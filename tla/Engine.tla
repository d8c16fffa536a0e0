------------------------------- MODULE Engine -------------------------------
(***************************************************************************)
(* The bytecode engine (src/runtime/ExecutionEngine.cpp) with the object   *)
(* primitives the compiler's code calls (src/primitives/object_prims.cpp,  *)
(* block_prims.cpp, bool_prims.cpp), running one compiled program:         *)
(*   unit      the compiled program, fixed at the start                    *)
(*   engines   the engines live on the thread, each a stack of frames and  *)
(*             the native caller (native) that waits for its result        *)
(*   heap      objects: parents in lookup order, own attributes (methods   *)
(*             <<"m", selector>>, variables <<"iv", name>>) and what a     *)
(*             closure carries: bytecode, captured dict, home, self        *)
(*   defining  the class each method's bytecode was last installed on      *)
(*   parked    the frames of an actor's turn that waits for a future       *)
(*   versions  what the written object's variables were after each write   *)
(*             another thread could see                                    *)
(* A program is a module run as a script or a REPL line, and then, if turn *)
(* is a selector, one turn of the actor that wraps the module's value.     *)
(* No program here has handlers, so an error ends it (Exceptions has them).*)
(* Value attributes, call-form sends to primitives, actor sends and slot   *)
(* exhaustion are left out.                                                *)
(***************************************************************************)
EXTENDS Compiler

CONSTANTS
  Programs,    \* sequence of [mod, repl, turn, layouts]
  SmallMax,    \* the largest SmallInteger
  Answer       \* what the future resolves with

ASSUME EngineAssumption == SmallMax \in Nat /\ Answer \in Nat

VARIABLES prog, unit, engines, heap, globals, defining, nextId, parked, outcome, attached, versions

vars == <<prog, unit, engines, heap, globals, defining, nextId, parked, outcome, attached, versions>>

----------------------------------------------------------------------------
\* Values, objects and lookup.

None == <<"nil", 0>>
Bool(b) == <<IF b THEN "true" ELSE "false", 0>>
Number(n) == <<"int", n>>
Obj(id) == <<"obj", id>>

IsInt(v) == v[1] = "int"
IsObj(v) == v[1] = "obj"
IsSmall(v) == IsInt(v) /\ v[2] \in (-SmallMax)..SmallMax

NoAttributes == [k \in {} |-> None]

Object(parents) ==
  [parents |-> parents, own |-> NoAttributes, bc |-> 0, cap |-> 0, home |-> 0,
   self |-> None, side |-> FALSE, named |-> FALSE]

\* The prototypes, by their index in the heap.
ObjectProto == 1
BlockProto == 4

Prims(sels) == [k \in {<<"m", s>> : s \in sels} |-> <<"prim", k[2]>>]

Prototype(sels) == [Object(<<ObjectProto>>) EXCEPT !.own = Prims(sels)]

Bootstrap ==
  <<[Object(<<>>) EXCEPT !.named = TRUE, !.own = Prims({"new", "==", "=", "__subclassNamed:",
        "__setClassName:", "__setInstVarNames:", "__initClassVars:", "__installMethod:as:",
        "__installClassMethod:as:", "subclass:uses:", "subclass:instanceVariableNames:uses:"})],
    Prototype({"+", "-", "<", "<=", ">", ">=", "=", "to:do:"}),
    Prototype({"ifTrue:", "ifFalse:", "ifTrue:ifFalse:", "ifFalse:ifTrue:"}),
    Prototype({"whileTrue:", "whileFalse:"}),
    Prototype({"size", "at:"}),
    Prototype({"wait"})>>

\* Where a send to v looks for its method.
MethodHolder(v) ==
  CASE IsObj(v) -> v[2]
    [] IsInt(v) -> 2
    [] v[1] \in {"true", "false"} -> 3
    [] v[1] = "list" -> 5
    [] v[1] = "fut" -> 6
    [] OTHER -> ObjectProto

RECURSIVE Ancestors(_, _)
Ancestors(h, id) ==
  <<id>> \o FlattenSeq([k \in DOMAIN h[id].parents |-> Ancestors(h, h[id].parents[k])])

RECURSIVE FirstParents(_, _)
FirstParents(h, id) ==
  IF h[id].parents = <<>> THEN <<id>> ELSE <<id>> \o FirstParents(h, h[id].parents[1])

Owners(chain, key) == SelectSeq(chain, LAMBDA o : key \in DOMAIN heap[o].own)

ValueAt(owners, key) == IF owners = <<>> THEN None ELSE heap[owners[1]].own[key]

GetAttribute(id, key) == ValueAt(Owners(Ancestors(heap, id), key), key)

SetAttribute(h, id, key, v) == [h EXCEPT ![id].own = (key :> v) @@ @]

----------------------------------------------------------------------------
\* Frames.

ModuleAt(m) == unit.mods[m]

NoGroup == [on |-> FALSE, pending |-> 0, base |-> 0, first |-> 0]

\* The instruction at pc: an EXTEND before it carries higher bits of its argument.
Decode(code, pc) ==
  LET n == CHOOSE k \in 0..2 : /\ code[pc + 1 + k].op # "EXTEND"
                               /\ \A j \in 0..(k - 1) : code[pc + 1 + j].op = "EXTEND"
      Shift(acc, j) == acc * ByteSize + code[pc + 1 + j].arg
  IN [op |-> code[pc + 1 + n].op, arg |-> FoldLeft(Shift, 0, [j \in 1..(n + 1) |-> j - 1]),
      next |-> pc + n + 1]

\* Where the instructions of a module start.
Starts(code) == {pc \in 0..(Len(code) - 1) : pc = 0 \/ code[pc].op # "EXTEND"}

Decoded(code) == [pc \in Starts(code) |-> Decode(code, pc)]

\* A frame is sized once, from the highest slot its code names.
CachedLocalCount(ins) ==
  Innermost({0} \cup {ins[pc].arg + 1 : pc \in {q \in DOMAIN ins : ins[q].op \in {"PUSH_LOCAL", "STORE_LOCAL"}}})

FastOps == {FastOp[s] : s \in FastSelectors}

SendArgCount(op, sel) ==
  CASE op = "SEND_UNARY" -> 0
    [] op \in {"SEND_BINARY"} \cup FastOps -> 1
    [] op = "SEND_SUPER" /\ sel \in BinarySelectors -> 1
    [] OTHER -> Colons(sel)

\* The operand stack is sized from the deepest point of the code: one pass,
\* in which a jump carries its depth to its target.
PushOps == {"PUSH_CONST", "PUSH_LOCAL", "DUP", "PUSH_SELF", "PUSH_NIL", "PUSH_TRUE", "PUSH_FALSE",
            "PUSH_BLOCK", "PUSH_CAPTURED", "PUSH_GLOBAL", "PUSH_INSTVAR", "PUSH_OWN_INSTVAR"}
PopOps == {"STORE_LOCAL", "POP", "STORE_CAPTURED", "STORE_GLOBAL", "STORE_INSTVAR", "STORE_CLASSVAR",
           "DEFINE_CAPTURED", "JUMP_IF_TRUE", "JUMP_IF_FALSE"} \cup FastOps

GroupEndEffect(count) == 1 - count

StackEffect(m, i) ==
  CASE i.op \in PushOps -> 1
    [] i.op \in PopOps -> -1
    [] i.op \in {"SEND_UNARY", "SEND_BINARY", "SEND_KEYWORD", "SEND_SUPER"} ->
         -SendArgCount(i.op, m.consts[i.arg + 1][2])
    [] i.op = "SEND_CALL" -> -(m.consts[i.arg + 1][3] + Len(m.consts[i.arg + 1][4]))
    [] i.op = "MAKE_ARRAY" -> 1 - i.arg
    [] i.op = "IVAR_GROUP_END" -> GroupEndEffect(m.groups[i.arg + 1].count)
    [] OTHER -> 0

Higher(a, b) == IF a >= b THEN a ELSE b

DeepestIsLast(d, depth) == depth

Deepest(d, depth) == Higher(d.max, depth)

\* The depth after the instruction i; d: the depth before it, whether it is
\* reached, the depths at the targets of the jumps so far, the highest.
AfterDepth(d, i, depth) ==
  LET t == i.next + i.arg
  IN [depth |-> depth, max |-> Deepest(d, depth),
      reachable |-> d.reachable /\ i.op \notin {"JUMP", "JUMP_BACK", "RETURN", "RETURN_TOP"},
      at |-> IF i.op \in {"JUMP", "JUMP_IF_TRUE", "JUMP_IF_FALSE"}
             THEN (t :> Higher(depth, IF t \in DOMAIN d.at THEN d.at[t] ELSE 0)) @@ d.at
             ELSE d.at]

AtTarget(d, here) ==
  [d EXCEPT !.depth = IF d.reachable THEN Higher(@, here) ELSE here, !.reachable = TRUE]

RECURSIVE DepthFrom(_, _, _)
DepthFrom(m, pc, d) ==
  IF pc >= Len(m.code) THEN d.max
  ELSE IF pc \in DOMAIN d.at /\ d # AtTarget(d, d.at[pc]) THEN DepthFrom(m, pc, AtTarget(d, d.at[pc]))
  ELSE DepthFrom(m, m.ins[pc].next,
                 AfterDepth(d, m.ins[pc], Higher(0, d.depth + StackEffect(m, m.ins[pc]))))

ComputeMaxOperandDepth(m) ==
  DepthFrom(m, 0, [depth |-> 0, max |-> 0, reachable |-> TRUE, at |-> [t \in {} |-> 0]])

NewFrame(m, self, cap, args, id, home) ==
  [m |-> m, pc |-> 0, stack |-> <<>>, self |-> self, cap |-> cap, id |-> id,
   home |-> IF home = 0 THEN id ELSE home, group |-> NoGroup,
   locals |-> [i \in 1..Higher(ModuleAt(m).locals, Len(args)) |->
                 IF i <= Len(args) THEN args[i] ELSE None]]

TopEngine == engines[Len(engines)]
TopFrame == Last(TopEngine.frames)
Running == engines # <<>>

Ins == ModuleAt(TopFrame.m).ins[TopFrame.pc]

\* The running frame, past the instruction it executes.
Cur == [TopFrame EXCEPT !.pc = Ins.next]

Constant == ModuleAt(TopFrame.m).consts[Ins.arg + 1]
NameArg == Constant[2]

Push(f, v) == [f EXCEPT !.stack = Append(@, v)]
Drop(f, n) == [f EXCEPT !.stack = SubSeq(@, 1, Len(@) - n)]
Peek(f) == Last(f.stack)

WithTop1(es, f) == [es EXCEPT ![Len(es)].frames = Append(Front(@), f)]

Goes(f) == engines' = WithTop1(engines, f)

Pushes(v) == Goes(Push(Cur, v))

\* The frame that runs a block or method, above the running one.
Enters(f, m, self, cap, args, home) ==
  /\ engines' = [WithTop1(engines, f) EXCEPT
       ![Len(engines)].frames = Append(@, NewFrame(m, self, cap, args, nextId, home))]
  /\ nextId' = nextId + 1

\* The whole program ends.
Fails(why) == engines' = <<>> /\ outcome' = <<"error", why>>

Untouched == UNCHANGED <<prog, unit, globals, defining, parked, attached>>
OnlyFrames == Untouched /\ UNCHANGED <<heap, nextId, outcome, versions>>

----------------------------------------------------------------------------
\* Pushes, stores and jumps.

PushSimple ==
  /\ Ins.op \in {"PUSH_NIL", "PUSH_TRUE", "PUSH_FALSE", "PUSH_SELF", "DUP", "PUSH_CONST"}
  /\ Pushes(CASE Ins.op = "PUSH_NIL" -> None
              [] Ins.op = "PUSH_TRUE" -> Bool(TRUE)
              [] Ins.op = "PUSH_FALSE" -> Bool(FALSE)
              [] Ins.op = "PUSH_SELF" -> TopFrame.self
              [] Ins.op = "DUP" -> Peek(TopFrame)
              [] OTHER -> Constant)
  /\ OnlyFrames

Pop == Ins.op = "POP" /\ Goes(Drop(Cur, 1)) /\ OnlyFrames

PushLocal ==
  /\ Ins.op = "PUSH_LOCAL"
  /\ Pushes(TopFrame.locals[Ins.arg + 1])
  /\ OnlyFrames

StoreLocalSlot ==
  /\ Ins.op = "STORE_LOCAL"
  /\ Goes([Drop(Cur, 1) EXCEPT !.locals[Ins.arg + 1] = Peek(TopFrame)])
  /\ OnlyFrames

Jumps ==
  /\ Ins.op \in {"JUMP", "JUMP_BACK", "JUMP_IF_TRUE", "JUMP_IF_FALSE"}
  /\ LET taken == CASE Ins.op = "JUMP_IF_TRUE" -> Peek(TopFrame) = Bool(TRUE)
                    [] Ins.op = "JUMP_IF_FALSE" -> Peek(TopFrame) = Bool(FALSE)
                    [] OTHER -> TRUE
         f == IF Ins.op \in {"JUMP", "JUMP_BACK"} THEN Cur ELSE Drop(Cur, 1)
     IN Goes([f EXCEPT !.pc = IF ~taken THEN @
                              ELSE IF Ins.op = "JUMP_BACK" THEN @ - Ins.arg ELSE @ + Ins.arg])
  /\ OnlyFrames

PushGlobal ==
  /\ Ins.op = "PUSH_GLOBAL"
  /\ IF NameArg \in DOMAIN globals /\ globals[NameArg] # None
     THEN Pushes(globals[NameArg]) /\ UNCHANGED outcome
     ELSE Fails("undefined global")
  /\ Untouched /\ UNCHANGED <<heap, nextId, versions>>

StoreGlobal ==
  /\ Ins.op = "STORE_GLOBAL"
  /\ globals' = (NameArg :> Peek(TopFrame)) @@ globals
  /\ Goes(Drop(Cur, 1))
  /\ UNCHANGED <<prog, unit, heap, defining, nextId, parked, outcome, attached, versions>>

MakeArray ==
  /\ Ins.op = "MAKE_ARRAY"
  /\ Goes(Push(Drop(Cur, Ins.arg),
               <<"list", SubSeq(TopFrame.stack, Len(TopFrame.stack) - Ins.arg + 1, Len(TopFrame.stack))>>))
  /\ OnlyFrames

----------------------------------------------------------------------------
\* Captured variables: a dict per activation, its parent the enclosing one's.

MakeCaptured ==
  /\ Ins.op = "MAKE_CAPTURED"
  /\ LET parent == IF Ins.arg = 1 /\ TopFrame.cap # 0 THEN TopFrame.cap ELSE ObjectProto
     IN heap' = Append(heap, Object(<<parent>>))
  /\ Goes([Cur EXCEPT !.cap = Len(heap) + 1])
  /\ Untouched /\ UNCHANGED <<nextId, outcome, versions>>

PushCaptured ==
  /\ Ins.op = "PUSH_CAPTURED"
  /\ Pushes(IF TopFrame.cap = 0 THEN None ELSE GetAttribute(TopFrame.cap, <<"iv", NameArg>>))
  /\ OnlyFrames

\* The innermost dict that binds the name, or else this activation's.
StoreCaptured ==
  /\ Ins.op \in {"STORE_CAPTURED", "DEFINE_CAPTURED"}
  /\ IF TopFrame.cap = 0 THEN Fails("internal") /\ UNCHANGED heap
     ELSE LET key == <<"iv", NameArg>>
              owners == Owners(FirstParents(heap, TopFrame.cap), key)
              owner == IF Ins.op = "DEFINE_CAPTURED" \/ owners = <<>> THEN TopFrame.cap ELSE owners[1]
          IN heap' = SetAttribute(heap, owner, key, Peek(TopFrame)) /\ Goes(Drop(Cur, 1)) /\ UNCHANGED outcome
  /\ Untouched /\ UNCHANGED <<nextId, versions>>

PushBlock ==
  /\ Ins.op = "PUSH_BLOCK"
  /\ heap' = Append(heap, [Object(<<BlockProto>>) EXCEPT
                !.bc = ModuleAt(TopFrame.m).blocks[Ins.arg + 1], !.cap = TopFrame.cap,
                !.home = TopFrame.home, !.self = TopFrame.self])
  /\ Pushes(Obj(Len(heap) + 1))
  /\ Untouched /\ UNCHANGED <<nextId, outcome, versions>>

----------------------------------------------------------------------------
\* Instance and class variables.

\* What another thread sees of the object after it is written.
VariablesOf(h, id) ==
  [n \in {k[2] : k \in {j \in DOMAIN h[id].own : j[1] = "iv"}} |-> h[id].own[<<"iv", n>>]]

Writes(h, id) == heap' = h /\ versions' = Append(versions, VariablesOf(h, id))

PushInstVar ==
  /\ Ins.op \in {"PUSH_INSTVAR", "PUSH_OWN_INSTVAR"}
  /\ LET key == <<"iv", NameArg>>
     IN Pushes(IF ~IsObj(TopFrame.self) THEN None
               ELSE IF Ins.op = "PUSH_INSTVAR" THEN GetAttribute(TopFrame.self[2], key)
               ELSE IF key \in DOMAIN heap[TopFrame.self[2]].own THEN heap[TopFrame.self[2]].own[key] ELSE None)
  /\ OnlyFrames

StoreInstVar ==
  /\ Ins.op = "STORE_INSTVAR"
  /\ IF TopFrame.self = None THEN Fails("internal") /\ UNCHANGED <<heap, versions>>
     ELSE /\ Writes(SetAttribute(heap, TopFrame.self[2], <<"iv", NameArg>>, Peek(TopFrame)), TopFrame.self[2])
          /\ Goes(Drop(Cur, 1)) /\ UNCHANGED outcome
  /\ Untouched /\ UNCHANGED nextId

\* The walk from self goes through first parents only.
ClassVarOwner(self, key) ==
  LET owners == Owners(FirstParents(heap, self), key)
  IN IF owners = <<>> THEN self ELSE owners[1]

StoreClassVar ==
  /\ Ins.op = "STORE_CLASSVAR"
  /\ LET key == <<"iv", NameArg>>
     IN heap' = SetAttribute(heap, ClassVarOwner(TopFrame.self[2], key), key, Peek(TopFrame))
  /\ Goes(Drop(Cur, 1))
  /\ Untouched /\ UNCHANGED <<nextId, outcome, versions>>

GroupEntry(f, i) == ModuleAt(f.m).groups[i + 1]

\* The key of the k-th write of the run whose first entry is first.
GroupKey(f, first, k) == <<"iv", ModuleAt(f.m).consts[GroupEntry(f, first + k).sym][2]>>

StartsGroupAlways == TopFrame.self # None

\* The first write decides whether the run is grouped: not for an observer of
\* single writes.
StartsGroup == TopFrame.self # None /\ ~attached

\* A grouped write stays on the operand stack.
IvarGroup ==
  /\ Ins.op = "IVAR_GROUP"
  /\ LET e == GroupEntry(TopFrame, Ins.arg)
         g == IF e.k # 0 THEN TopFrame.group
              ELSE [on |-> StartsGroup, pending |-> 0,
                    base |-> Len(TopFrame.stack) - 1, first |-> Ins.arg]
     IN IF g.on
        THEN Goes([Cur EXCEPT !.group = [g EXCEPT !.pending = @ + 1]]) /\ UNCHANGED <<heap, versions>>
        ELSE /\ Goes([Cur EXCEPT !.group = g])
             /\ Writes(SetAttribute(heap, TopFrame.self[2], GroupKey(TopFrame, Ins.arg, 0), Peek(TopFrame)), TopFrame.self[2])
  /\ Untouched /\ UNCHANGED <<nextId, outcome>>

\* The whole run is published as one version.
IvarGroupEnd ==
  /\ Ins.op = "IVAR_GROUP_END"
  /\ LET e == GroupEntry(TopFrame, Ins.arg)
         depth == Len(TopFrame.stack)
         Put(h, k) == SetAttribute(h, TopFrame.self[2], GroupKey(TopFrame, Ins.arg - e.k, k),
                                   TopFrame.stack[depth - (e.count - 1 - k)])
     IN /\ Writes(IF TopFrame.group.on THEN FoldLeft(Put, heap, [k \in 1..e.count |-> k - 1])
                  ELSE SetAttribute(heap, TopFrame.self[2], GroupKey(TopFrame, Ins.arg, 0), Peek(TopFrame)),
                  TopFrame.self[2])
        /\ Goes([Push(Drop(Cur, e.count), Peek(TopFrame)) EXCEPT !.group = [@ EXCEPT !.on = FALSE, !.pending = 0]])
  /\ Untouched /\ UNCHANGED <<nextId, outcome>>

----------------------------------------------------------------------------
\* Integer fast paths.

Compare(sel, a, b) ==
  CASE sel = "<" -> a < b [] sel = "<=" -> a <= b [] sel = ">" -> a > b
    [] sel = ">=" -> a >= b [] OTHER -> a = b

IntResult(sel, a, b) ==
  CASE sel = "+" -> Number(a + b) [] sel = "-" -> Number(a - b) [] OTHER -> Bool(Compare(sel, a, b))

Operand(k) == TopFrame.stack[Len(TopFrame.stack) - 1 + k]

FastResult == IntResult(NameArg, Operand(0)[2], Operand(1)[2])

FastHit ==
  /\ IsSmall(Operand(0)) /\ IsSmall(Operand(1))
  /\ IsInt(FastResult) => IsSmall(FastResult)

BinaryFast ==
  /\ Ins.op \in FastOps /\ FastHit
  /\ Goes(Push(Drop(Cur, 2), FastResult))
  /\ OnlyFrames

\* A miss sends its message; the pending writes of a run are made one by one
\* before it, and the rest of the run is not grouped.
FlushInstVarGroup ==
  /\ Ins.op \in FastOps /\ ~FastHit /\ TopFrame.group.on
  /\ LET g == TopFrame.group
         self == TopFrame.self[2]
         Put(h, k) == SetAttribute(h, self, GroupKey(TopFrame, g.first, k), TopFrame.stack[g.base + 1 + k])
         After(k) == FoldLeft(Put, heap, [j \in 1..k |-> j - 1])
     IN /\ heap' = After(g.pending)
        /\ versions' = versions \o [k \in 1..g.pending |-> VariablesOf(After(k), self)]
        /\ Goes([TopFrame EXCEPT !.group = [g EXCEPT !.on = FALSE, !.pending = 0]])
  /\ Untouched /\ UNCHANGED <<nextId, outcome>>

----------------------------------------------------------------------------
\* Sends.

IsSuper == Ins.op = "SEND_SUPER"

IsSend == \/ Ins.op \in {"SEND_UNARY", "SEND_BINARY", "SEND_KEYWORD", "SEND_SUPER"}
          \/ (Ins.op \in FastOps /\ ~FastHit /\ ~TopFrame.group.on)

ArgcOf(op, k) == IF op = "SEND_CALL" THEN k[3] + Len(k[4]) ELSE SendArgCount(op, k[2])
Argc == ArgcOf(Ins.op, Constant)
Args == SubSeq(TopFrame.stack, Len(TopFrame.stack) - Argc + 1, Len(TopFrame.stack))
Recv == TopFrame.stack[Len(TopFrame.stack) - Argc]
Caller == Drop(Cur, Argc + 1)

\* A block value runs in this engine.
ValueSelectors == <<"value", "value:", "value:value:">>

IsBlockValue ==
  /\ IsObj(Recv) /\ heap[Recv[2]].bc # 0
  /\ Ins.op \in {"SEND_UNARY", "SEND_KEYWORD"} /\ NameArg = ValueSelectors[Argc + 1]

SendBlock ==
  /\ IsSend /\ IsBlockValue
  /\ LET b == heap[Recv[2]]
     IN IF ModuleAt(b.bc).argc # Argc THEN Fails("arguments") /\ UNCHANGED nextId
        ELSE Enters(Caller, b.bc, b.self, b.cap, Args, b.home) /\ UNCHANGED outcome
  /\ Untouched /\ UNCHANGED <<heap, versions>>

\* A super send starts above the class the method was installed on, found
\* among the receiver's ancestors, or else under the class's name.
DefiningClass ==
  IF defining[TopFrame.m] \in NamesOf(Ancestors(heap, MethodHolder(Recv))) THEN defining[TopFrame.m]
  ELSE globals[ModuleAt(TopFrame.m).class][2]

FirstFound(ids, key) ==
  LET hits == SelectSeq(ids, LAMBDA p : GetAttribute(p, key) # None)
  IN IF hits = <<>> THEN None ELSE GetAttribute(hits[1], key)

SuperAttribute(key) == FirstFound(heap[DefiningClass].parents, key)

\* A class-side method is there for a class only.
IsHidden(found) ==
  /\ IsObj(found) /\ heap[found[2]].side /\ Ins.op # "SEND_CALL"
  /\ ~(IsObj(Recv) /\ heap[Recv[2]].named)

VisibleOnly(found) == IF IsHidden(found) THEN None ELSE found

\* What the selector means to the receiver.
Attribute == VisibleOnly(IF IsSuper THEN SuperAttribute(<<"m", NameArg>>)
                         ELSE GetAttribute(MethodHolder(Recv), <<"m", NameArg>>))

IsPlainSend == IsSend /\ ~IsBlockValue

SendOutsideMethod ==
  /\ IsPlainSend /\ IsSuper /\ ModuleAt(TopFrame.m).class = ""
  /\ Fails("super")
  /\ Untouched /\ UNCHANGED <<heap, nextId, versions>>

Resolves == IsPlainSend /\ ~(IsSuper /\ ModuleAt(TopFrame.m).class = "")

RunMethod(w) ==
  IF ModuleAt(w.bc).argc # Argc + 1 THEN Fails("arguments") /\ UNCHANGED nextId
  ELSE Enters(Caller, w.bc, Recv, w.cap, <<Recv>> \o Args, 0) /\ UNCHANGED outcome

SendMethod ==
  /\ Resolves /\ IsObj(Attribute)
  /\ RunMethod(heap[Attribute[2]])
  /\ Untouched /\ UNCHANGED <<heap, versions>>

\* A primitive that evaluates a block does it in an engine of its own; native
\* says what it does with the result.  (Another receiver stands for a block if
\* it understands value; none of the prototypes here does.)
Native(kind, v, more) == [kind |-> kind, v |-> v, more |-> more]

InvokeBlock(es, native, v, args) ==
  IF ~IsObj(v) \/ heap[v[2]].bc = 0 THEN Fails("not a block") /\ UNCHANGED nextId
  ELSE LET b == heap[v[2]]
       IN IF ModuleAt(b.bc).argc # Len(args) THEN Fails("arguments") /\ UNCHANGED nextId
          ELSE /\ engines' = Append(es, [frames |-> <<NewFrame(b.bc, b.self, b.cap, args, nextId, b.home)>>,
                                         native |-> native])
               /\ nextId' = nextId + 1 /\ UNCHANGED outcome

NestedUntouched == Untouched /\ UNCHANGED <<heap, versions>>

\* A class may answer what it does not understand itself.
Handler == GetAttribute(MethodHolder(Recv), <<"m", "doesNotUnderstand:">>)

DoesNotUnderstand ==
  IF IsObj(Handler)
  THEN /\ engines' = Append(WithTop1(engines, Caller),
            [frames |-> <<NewFrame(heap[Handler[2]].bc, Recv, heap[Handler[2]].cap,
                                   <<Recv, <<"msg", 0>>>>, nextId, 0)>>,
             native |-> Native("once", None, <<>>)])
       /\ nextId' = nextId + 1 /\ UNCHANGED outcome
  ELSE Fails("doesNotUnderstand") /\ UNCHANGED nextId

SendUnknown ==
  /\ Resolves /\ Attribute = None
  /\ DoesNotUnderstand
  /\ NestedUntouched

\* The operand stands in for the receiver, without arguments.
AssertBool ==
  /\ Ins.op = "ASSERT_BOOL_OR_DNU"
  /\ IF Peek(TopFrame) \in {Bool(TRUE), Bool(FALSE)} THEN Goes(Cur) /\ UNCHANGED <<nextId, outcome>>
     ELSE LET h == GetAttribute(MethodHolder(Peek(TopFrame)), <<"m", "doesNotUnderstand:">>)
          IN IF ~IsObj(h) THEN Fails("doesNotUnderstand") /\ UNCHANGED nextId
             ELSE /\ engines' = Append(WithTop1(engines, Drop(Cur, 1)),
                       [frames |-> <<NewFrame(heap[h[2]].bc, Peek(TopFrame), heap[h[2]].cap,
                                              <<Peek(TopFrame), <<"msg", 0>>>>, nextId, 0)>>,
                        native |-> Native("once", None, <<>>)])
                  /\ nextId' = nextId + 1 /\ UNCHANGED outcome
  /\ NestedUntouched

\* The keys of a call-form send, in sorted order on both sides; a key that is
\* left out gets the unset marker.
CallArgs(m, keys) ==
  LET At(x) == CHOOSE i \in DOMAIN keys : keys[i] = x
  IN SubSeq(Args, 1, m.npos) \o
     [i \in DOMAIN m.keys |-> IF m.keys[i] \in NamesOf(keys)
                              THEN Args[m.npos + At(m.keys[i])] ELSE <<"unset", 0>>]

RunCallMethod(w, m) ==
  IF ~m.call \/ m.npos # Constant[3] \/ ~(NamesOf(Constant[4]) \subseteq NamesOf(m.keys))
  THEN Fails("arguments") /\ UNCHANGED nextId
  ELSE Enters(Caller, w.bc, Recv, w.cap, <<Recv>> \o CallArgs(m, Constant[4]), 0) /\ UNCHANGED outcome

SendCall ==
  /\ Ins.op = "SEND_CALL"
  /\ IF Attribute = None THEN DoesNotUnderstand
     ELSE \E w \in {heap[Attribute[2]]} : RunCallMethod(w, ModuleAt(w.bc))
  /\ NestedUntouched

----------------------------------------------------------------------------
\* Primitives.

Primitive(names) == Resolves /\ Attribute \in {<<"prim", s>> : s \in names}

PrimArithmetic ==
  /\ Primitive({"+", "-", "<", "<=", ">", ">="} \cup (IF IsInt(Recv) THEN {"="} ELSE {}))
  /\ IF IsInt(Args[1]) THEN Goes(Push(Caller, IntResult(NameArg, Recv[2], Args[1][2]))) /\ UNCHANGED outcome
     ELSE IF NameArg = "=" THEN Goes(Push(Caller, Bool(FALSE))) /\ UNCHANGED outcome
     ELSE Fails("not a number")
  /\ Untouched /\ UNCHANGED <<heap, nextId, versions>>

PrimIdentity ==
  /\ Primitive({"=="} \cup (IF IsInt(Recv) THEN {} ELSE {"="}))
  /\ Goes(Push(Caller, Bool(Recv = Args[1])))
  /\ OnlyFrames

PrimArray ==
  /\ Primitive({"size", "at:"})
  /\ IF NameArg = "at:" /\ (~IsInt(Args[1]) \/ Args[1][2] \notin DOMAIN Recv[2])
     THEN Fails("bounds")
     ELSE /\ Goes(Push(Caller, IF NameArg = "size" THEN Number(Len(Recv[2])) ELSE Recv[2][Args[1][2]]))
          /\ UNCHANGED outcome
  /\ Untouched /\ UNCHANGED <<heap, nextId, versions>>

PrimNew ==
  /\ Primitive({"new"})
  /\ heap' = Append(heap, Object(<<MethodHolder(Recv)>>))
  /\ Goes(Push(Caller, Obj(Len(heap) + 1)))
  /\ Untouched /\ UNCHANGED <<nextId, outcome, versions>>

PrimSubclass ==
  /\ Primitive({"__subclassNamed:"})
  /\ heap' = Append(heap, Object(<<MethodHolder(Recv)>>))
  /\ Goes(Push(Caller, Obj(Len(heap) + 1)))
  /\ Untouched /\ UNCHANGED <<nextId, outcome, versions>>

PrimSetNames ==
  /\ Primitive({"__setClassName:", "__setInstVarNames:"})
  /\ heap' = IF NameArg = "__setClassName:" THEN [heap EXCEPT ![Recv[2]].named = TRUE] ELSE heap
  /\ Goes(Push(Caller, Recv))
  /\ Untouched /\ UNCHANGED <<nextId, outcome, versions>>

\* The class's parent is a shape whose parents are the superclass, then the
\* mixins; the class is named and bound at once.
PrimSubclassUses ==
  /\ Primitive({"subclass:uses:", "subclass:instanceVariableNames:uses:"})
  /\ LET mixins == Last(Args)[2]
         shape == Object(<<Recv[2]>> \o [i \in DOMAIN mixins |-> mixins[i][2]] \o <<ObjectProto>>)
     IN heap' = heap \o <<shape, [Object(<<Len(heap) + 1>>) EXCEPT !.named = TRUE]>>
  /\ globals' = (Args[1][2] :> Obj(Len(heap) + 2)) @@ globals
  /\ Goes(Push(Caller, Obj(Len(heap) + 2)))
  /\ UNCHANGED <<prog, unit, defining, nextId, parked, outcome, attached, versions>>

PrimInitClassVars ==
  /\ Primitive({"__initClassVars:"})
  /\ LET fresh == {<<"iv", x>> : x \in NamesOf(Args[1][2])}
     IN heap' = [heap EXCEPT ![Recv[2]].own = @ @@ [k \in fresh |-> None]]
  /\ Goes(Push(Caller, Recv))
  /\ Untouched /\ UNCHANGED <<nextId, outcome, versions>>

\* The bytecode, and the blocks in it, remember the class.
RECURSIVE WithBlocks(_, _)
WithBlocks(mods, m) == {m} \cup UNION {WithBlocks(mods, b) : b \in NamesOf(mods[m].blocks)}

PrimInstall ==
  /\ Primitive({"__installMethod:as:", "__installClassMethod:as:"})
  /\ LET w == Args[1][2]
         marked == IF NameArg = "__installClassMethod:as:" THEN [heap EXCEPT ![w].side = TRUE] ELSE heap
         stamped == WithBlocks(unit.mods, heap[w].bc)
     IN /\ heap' = SetAttribute(marked, Recv[2], <<"m", Args[2][2]>>, Args[1])
        /\ defining' = [m \in DOMAIN defining |-> IF m \in stamped THEN Recv[2] ELSE defining[m]]
  /\ Goes(Push(Caller, Recv))
  /\ UNCHANGED <<prog, unit, globals, nextId, parked, outcome, attached, versions>>

PrimConditional ==
  /\ Primitive({"ifTrue:", "ifFalse:", "ifTrue:ifFalse:", "ifFalse:ifTrue:"})
  /\ LET chosen == CASE NameArg = "ifTrue:" -> IF Recv[1] = "true" THEN 1 ELSE 0
                     [] NameArg = "ifFalse:" -> IF Recv[1] = "true" THEN 0 ELSE 1
                     [] NameArg = "ifTrue:ifFalse:" -> IF Recv[1] = "true" THEN 1 ELSE 2
                     [] OTHER -> IF Recv[1] = "true" THEN 2 ELSE 1
     IN IF chosen = 0 THEN Goes(Push(Caller, None)) /\ UNCHANGED <<nextId, outcome>>
        ELSE InvokeBlock(WithTop1(engines, Caller), Native("once", None, <<>>), Args[chosen], <<>>)
  /\ NestedUntouched

PrimWhile ==
  /\ Primitive({"whileTrue:", "whileFalse:"})
  /\ InvokeBlock(WithTop1(engines, Caller),
                 Native("test", Bool(NameArg = "whileTrue:"), <<Recv, Args[1]>>), Recv, <<>>)
  /\ NestedUntouched

PrimToDo ==
  /\ Primitive({"to:do:"})
  /\ IF ~IsInt(Args[1]) THEN Fails("not a number") /\ UNCHANGED nextId
     ELSE IF Recv[2] > Args[1][2] THEN Goes(Push(Caller, Recv)) /\ UNCHANGED <<nextId, outcome>>
     ELSE InvokeBlock(WithTop1(engines, Caller),
                      Native("count", Recv, <<Args[1], Args[2], Recv>>), Args[2], <<Recv>>)
  /\ NestedUntouched

\* A turn that waits in its outermost engine gives its thread back; below a
\* native call, and on the program's own thread, wait answers in place.
IsTurn == engines[1].native.kind = "turn"

PrimWait ==
  /\ Primitive({"wait"})
  /\ IF IsTurn /\ Len(engines) = 1
     THEN /\ parked' = [WithTop1(engines, Caller)[1] EXCEPT
                          !.frames = [i \in DOMAIN @ |-> [@[i] EXCEPT !.group = NoGroup]]]
          /\ engines' = <<>>
     ELSE Goes(Push(Caller, Number(Answer))) /\ UNCHANGED parked
  /\ UNCHANGED <<prog, unit, heap, globals, defining, nextId, outcome, attached, versions>>

NotParked == [frames |-> <<>>, native |-> Native("none", None, <<>>)]

ResumeWith ==
  /\ parked # NotParked
  /\ engines' = WithTop1(<<parked>>, Push(Last(parked.frames), Number(Answer)))
  /\ parked' = NotParked
  /\ UNCHANGED <<prog, unit, heap, globals, defining, nextId, outcome, attached, versions>>

----------------------------------------------------------------------------
\* Returns.

\* The engine's last frame is gone: its native caller takes the result.
Delivers(es, r) ==
  LET n == Last(es).native
      below == Front(es)
      Back(v) == /\ engines' = WithTop1(below, Push(Last(Last(below).frames), v))
                 /\ UNCHANGED <<nextId, outcome>>
  IN CASE n.kind \in {"script", "turn"} ->
            /\ engines' = <<>> /\ UNCHANGED nextId
            /\ outcome' = <<IF n.kind = "script" /\ Programs[prog].turn # "" THEN "ready" ELSE "value", r>>
       [] n.kind = "once" -> Back(r)
       [] n.kind = "test" ->
            IF (r = Bool(TRUE)) = (n.v = Bool(TRUE))
            THEN InvokeBlock(below, [n EXCEPT !.kind = "body"], n.more[2], <<>>) ELSE Back(None)
       [] n.kind = "body" -> InvokeBlock(below, [n EXCEPT !.kind = "test"], n.more[1], <<>>)
       [] OTHER ->
            IF n.v[2] < n.more[1][2]
            THEN InvokeBlock(below, [n EXCEPT !.v = Number(n.v[2] + 1)], n.more[2], <<Number(n.v[2] + 1)>>)
            ELSE Back(n.more[3])

\* The frames from the k-th of the e-th engine up are popped, and the result
\* is handed to the frame under them.
Unwinds(e, k, r) ==
  LET es == [SubSeq(engines, 1, e) EXCEPT ![e].frames = SubSeq(@, 1, k - 1)]
  IN IF k > 1 THEN engines' = WithTop1(es, Push(Last(es[e].frames), r)) /\ UNCHANGED <<nextId, outcome>>
     ELSE Delivers(es, r)

Result == IF TopFrame.stack = <<>> THEN None ELSE Peek(TopFrame)

LocalReturn ==
  /\ Ins.op = "RETURN_TOP" \/ (Ins.op = "RETURN" /\ TopFrame.home = TopFrame.id)
  /\ Unwinds(Len(engines), Len(TopEngine.frames), Result)
  /\ NestedUntouched

\* The activations of the home method still on this thread's engines.
HomeAt(e) == {k \in DOMAIN engines[e].frames : engines[e].frames[k].id = TopFrame.home}

NonLocalReturn ==
  /\ Ins.op = "RETURN" /\ TopFrame.home # TopFrame.id
  /\ LET homes == {e \in DOMAIN engines : HomeAt(e) # {}}
     IN IF homes = {} THEN Fails("cannotReturn") /\ UNCHANGED nextId
        ELSE Unwinds(Innermost(homes), Innermost(HomeAt(Innermost(homes))), Result)
  /\ NestedUntouched

----------------------------------------------------------------------------
\* Programs.

NoOutcome == <<"running", 0>>

\* The compiled program, with the operand depth of each of its modules.
Sized(m) == m @@ [locals |-> CachedLocalCount(m.ins), depth |-> ComputeMaxOperandDepth(m)]

Prepared(m) == Sized(m @@ [ins |-> Decoded(m.code)])

Loaded(c) == [mods |-> [m \in DOMAIN c.mods |-> Prepared(c.mods[m])], bad |-> c.bad, broken |-> c.broken]

Reader == INSTANCE Parser
Written == INSTANCE Source

\* A program is read from its text; one with parse errors is not compiled.
Read(p) == Reader!ParseModule(Written!SourceOf(Programs[p].mod, CHOOSE layout \in Programs[p].layouts : TRUE))

Compiled(r, repl) == IF r.bad THEN [mods |-> <<>>, bad |-> TRUE, broken |-> FALSE] ELSE CompileModule(r.mod, repl)

Build(p) == Loaded(Compiled(Read(p), Programs[p].repl))

\* The module's frame has a captured dict of its own and no self.
Init ==
  /\ prog \in DOMAIN Programs
  /\ unit = Build(prog)
  /\ engines = IF unit.bad \/ unit.broken THEN <<>>
               ELSE <<[frames |-> <<NewFrame(Len(unit.mods), None, Len(Bootstrap) + 1, <<>>, 1, 0)>>,
                       native |-> Native("script", None, <<>>)]>>
  /\ outcome = IF unit.broken THEN <<"error", "internal">>
               ELSE IF unit.bad THEN <<"error", "compile">> ELSE NoOutcome
  /\ heap = Append(Bootstrap, Object(<<ObjectProto>>))
  /\ globals = ("Object" :> Obj(ObjectProto)) @@ ("Future" :> <<"fut", 0>>)
  /\ defining = [m \in DOMAIN unit.mods |-> 0]
  /\ nextId = 2 /\ parked = NotParked /\ versions = <<>>
  /\ attached \in IF \E m \in NamesOf(unit.mods) : m.groups # <<>> THEN BOOLEAN ELSE {FALSE}

\* The actor that wraps the script's value runs its message.
StartTurn ==
  /\ outcome[1] = "ready"
  /\ LET method == GetAttribute(outcome[2][2], <<"m", Programs[prog].turn>>)
         w == heap[method[2]]
     IN engines' = <<[frames |-> <<NewFrame(w.bc, outcome[2], w.cap, <<outcome[2]>>, nextId, 0)>>,
                      native |-> Native("turn", None, <<>>)]>>
  /\ nextId' = nextId + 1 /\ outcome' = NoOutcome
  /\ UNCHANGED <<prog, unit, heap, globals, defining, parked, attached, versions>>

Ended == outcome[1] \in {"value", "error"} /\ UNCHANGED vars

Execute ==
  \/ PushSimple \/ Pop \/ PushLocal \/ StoreLocalSlot \/ Jumps \/ PushGlobal \/ StoreGlobal
  \/ MakeArray \/ MakeCaptured \/ PushCaptured \/ StoreCaptured \/ PushBlock
  \/ PushInstVar \/ StoreInstVar \/ StoreClassVar \/ IvarGroup \/ IvarGroupEnd
  \/ BinaryFast \/ FlushInstVarGroup
  \/ SendBlock \/ SendOutsideMethod \/ SendMethod \/ SendUnknown \/ AssertBool \/ SendCall
  \/ PrimArithmetic \/ PrimIdentity \/ PrimArray \/ PrimNew \/ PrimSubclass \/ PrimSetNames
  \/ PrimSubclassUses \/ PrimInitClassVars \/ PrimInstall
  \/ PrimConditional \/ PrimWhile \/ PrimToDo \/ PrimWait
  \/ LocalReturn \/ NonLocalReturn

Next == (Running /\ Execute) \/ ResumeWith \/ StartTurn \/ Ended

Spec == Init /\ [][Next]_vars
=============================================================================
