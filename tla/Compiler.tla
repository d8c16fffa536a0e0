----------------------------- MODULE Compiler -----------------------------
(***************************************************************************)
(* The compiler (src/frontend/Compiler.cpp) and the module it writes into  *)
(* (src/runtime/BytecodeModule.cpp): closure analysis, name resolution,    *)
(* emission with EXTEND prefixes and jump widening.  The compiler is a     *)
(* function of the tree; its state c is threaded through the emission:     *)
(*   m       the bytecode module being written, outer the ones around it   *)
(*   mods    the finished modules of the program                           *)
(*   scopes  the open scopes, outermost first                              *)
(*   env     the method whose body is being emitted                        *)
(*   open    the loops and forward jumps being emitted, innermost last     *)
(*   bad     a compile error was reported; broken: an internal one         *)
(* The code records sets in the analysis under the node's address and      *)
(* reads them back at emission; here they are computed where they are      *)
(* used, from the same tree and the same visible instance variables.       *)
(* Line tables, names for the debugger and the process-wide registry of    *)
(* classes of other modules are left out.                                  *)
(***************************************************************************)
EXTENDS Ast, Integers, FiniteSets, SequencesExt, TLC

CONSTANTS
  ByteSize,          \* values of an operand byte: 256 in the code
  MaxInstVarGroup    \* writes in one group: kMaxInstVarGroup, 16 in the code

ASSUME CompilerAssumption == /\ ByteSize \in Nat \ {0, 1}
                             /\ MaxInstVarGroup \in Nat

----------------------------------------------------------------------------
\* The bytecode module.

EmptyModule == [code |-> <<>>, consts |-> <<>>, groups |-> <<>>, blocks |-> <<>>,
                argc |-> 0, call |-> FALSE, npos |-> 0, keys |-> <<>>, class |-> ""]

Pos(c) == Len(c.m.code)

Emit(c, op, arg) == [c EXCEPT !.m.code = Append(@, [op |-> op, arg |-> arg])]

ExtendPrefixesFor(arg) ==
  IF arg >= ByteSize * ByteSize THEN 2 ELSE IF arg >= ByteSize THEN 1 ELSE 0

EmitWide(c, op, arg) ==
  LET p == ExtendPrefixesFor(arg)
  IN [c EXCEPT !.m.code = @ \o
        [i \in 1..(p + 1) |->
           [op  |-> IF i = p + 1 THEN op ELSE "EXTEND",
            arg |-> (arg \div ByteSize ^ (p + 1 - i)) % ByteSize]]]

\* Symbols are interned per module; the other constants are appended.
InternSymbol(c, v) ==
  IF v \in NamesOf(c.m.consts) THEN c ELSE [c EXCEPT !.m.consts = Append(@, v)]

EmitSymbolic(c, op, v) ==
  LET d == InternSymbol(c, v)
  IN EmitWide(d, op, (CHOOSE i \in DOMAIN d.m.consts : d.m.consts[i] = v) - 1)

EmitNamed(c, op, name) == EmitSymbolic(c, op, <<"sym", name>>)

EmitConst(c, v) ==
  EmitWide([c EXCEPT !.m.consts = Append(@, v)], "PUSH_CONST", Len(c.m.consts))

\* Positions are words, counted from 0; the code counts bytes, two to a word.
InsertExtendPrefixes(c, pos, count) ==
  [c EXCEPT !.m.code = SubSeq(@, 1, pos)
                       \o [i \in 1..count |-> [op |-> "EXTEND", arg |-> 0]]
                       \o SubSeq(@, pos + 1, Len(@))]

PatchWideArg(c, pos, prefixes, arg) ==
  [c EXCEPT !.broken = @ \/ ExtendPrefixesFor(arg) > prefixes,
            !.m.code = [i \in DOMAIN @ |->
              IF i - 1 \in pos..(pos + prefixes)
              THEN [@[i] EXCEPT !.arg = (arg \div ByteSize ^ (pos + prefixes - (i - 1))) % ByteSize]
              ELSE @[i]]]

\* A sub-module is written on its own, then filed with the enclosing one.
OpenModule(c) == [c EXCEPT !.outer = Append(@, c.m), !.m = EmptyModule]

AddBlockModule(c) ==
  [c EXCEPT !.mods = Append(@, c.m),
            !.m = [Last(c.outer) EXCEPT !.blocks = Append(@, Len(c.mods) + 1)],
            !.outer = Front(@)]

LastBlock(c) == Len(c.m.blocks) - 1

----------------------------------------------------------------------------
\* Jumps.

\* A loop that is open: where it starts, and the scope it was entered with.
OpenLoop(c) == [c EXCEPT !.open = Append(@, [pos |-> Pos(c), target |-> 0, scope |-> Last(c.scopes)])]

EmitForwardJump(c, op) ==
  [Emit(c, op, 0) EXCEPT !.open = Append(@, [pos |-> Pos(c), target |-> 0, scope |-> Last(c.scopes)])]

\* The k-th last open jump goes to the next word.
Land(c, k) == [c EXCEPT !.open[Len(c.open) + 1 - k].target = Pos(c)]

\* The last open jump is widened and closed; the one before it may go past
\* it.
ResolveForwardJump(c) ==
  LET j == Last(c.open)
      offset == j.target - (j.pos + 1)
      p == ExtendPrefixesFor(offset)
      widened == [InsertExtendPrefixes(c, j.pos, p) EXCEPT
                    !.open = [i \in 1..(Len(@) - 1) |->
                                [@[i] EXCEPT !.target = IF @ > j.pos THEN @ + p ELSE @]]]
  IN PatchWideArg(widened, j.pos, p, offset)

\* The operand of a JUMP_BACK over span words counts its own prefixes too.
RECURSIVE BackFrom(_, _)
BackFrom(span, back) ==
  LET next == span + 1 + ExtendPrefixesFor(back)
  IN IF back = next THEN back ELSE BackFrom(span, next)

\* The exit jump, the last one open, is widened first, for the widest
\* JUMP_BACK; the loop is the one open before it.
CloseLoop(c) ==
  LET exitPos == Last(c.open).pos
      prefixes == ExtendPrefixesFor(Pos(c) - (exitPos + 1) + 3)
      d == InsertExtendPrefixes(c, exitPos, prefixes)
      span == Pos(d) - Last(Front(c.open)).pos
      e == EmitWide(d, "JUMP_BACK", BackFrom(span, span + 1))
  IN [PatchWideArg(e, exitPos, prefixes, Pos(e) - (exitPos + prefixes + 1))
        EXCEPT !.open = Front(Front(@))]

----------------------------------------------------------------------------
\* Classes declared in the module, by name.

ClassInfo(cd, civs) ==
  [super  |-> cd.names[1],
   ivs    |-> SubSeq(cd.names, 2, 1 + cd.int),
   cvs    |-> NamesOf(SubSeq(cd.names, 2 + cd.int, Len(cd.names))),
   civs   |-> civs,
   mixins |-> IF cd.kids = <<>> THEN {} ELSE {e.text : e \in NamesOf(cd.kids[1].kids)}]

\* Name class instanceVariableNames: 'a b'
IsClassInstVarDecl(n, name) ==
  /\ n.kind = "KeywordSend" /\ n.text = "instanceVariableNames:"
  /\ n.kids[1].kind = "UnarySend" /\ n.kids[1].text = "class"
  /\ n.kids[1].kids[1] = Id(name) /\ n.kids[2].kind = "StringLit"

CollectClasses(mod) ==
  LET forms == NamesOf(mod.kids)
      decls == {f \in forms : f.kind = "ClassDecl"}
  IN [name \in {d.text : d \in decls} |->
        ClassInfo(CHOOSE d \in decls : d.text = name,
                  UNION {NamesOf(f.kids[2].names) : f \in {g \in forms : IsClassInstVarDecl(g, name)}})]

RECURSIVE SuperChain(_, _, _)
SuperChain(classes, name, seen) ==
  IF name \notin DOMAIN classes \/ name \in seen THEN seen
  ELSE SuperChain(classes, classes[name].super, seen \cup {name})

\* Own, inherited and mixed in.
RECURSIVE InstVarsThroughChain(_, _, _)
InstVarsThroughChain(classes, name, side) ==
  UNION {(IF side THEN classes[k].civs ELSE NamesOf(classes[k].ivs))
         \cup UNION {InstVarsThroughChain(classes, x, side) : x \in classes[k].mixins \ {name}}
           : k \in SuperChain(classes, name, {})}

ResolveClassVarsFor(classes, name) ==
  UNION {classes[k].cvs : k \in SuperChain(classes, name, {})}

\* Errors collectClasses reports: a variable declared twice in a class, or
\* again in a subclass.
BadClasses(classes) ==
  \E k \in DOMAIN classes :
     \/ Cardinality(NamesOf(classes[k].ivs)) # Len(classes[k].ivs)
     \/ \E s \in SuperChain(classes, classes[k].super, {}) :
           NamesOf(classes[s].ivs) \cap NamesOf(classes[k].ivs) # {}

----------------------------------------------------------------------------
\* Control sends whose literal blocks are inlined.

IsSuperReceiver(n) == n.kids # <<>> /\ n.kids[1].kind = "Super"

IsInlineableBlock(b) == b.kind = "Block" /\ b.names = <<>>

InlineShapeOf(n) ==
  CASE n.kind # "KeywordSend" \/ IsSuperReceiver(n) -> "None"
    [] n.text \in {"ifTrue:", "ifFalse:"} /\ IsInlineableBlock(n.kids[2]) -> "IfTrue"
    [] n.text \in {"ifTrue:ifFalse:", "ifFalse:ifTrue:"}
         /\ IsInlineableBlock(n.kids[2]) /\ IsInlineableBlock(n.kids[3]) -> "IfTrueIfFalse"
    [] n.text = "to:do:" /\ n.kids[3].kind = "Block"
         /\ n.kids[3].int = 1 /\ Len(n.kids[3].names) = 1 -> "ToDo"
    [] n.text \in {"whileTrue:", "whileFalse:"}
         /\ IsInlineableBlock(n.kids[1]) /\ IsInlineableBlock(n.kids[2]) -> "WhileTrue"
    [] OTHER -> "None"

----------------------------------------------------------------------------
\* Closure analysis: the names a scope declares, the ones its own statements
\* use, and the ones the blocks nested in it need from outside.  vis is the
\* set of instance and class variables no enclosing scope hides.

UsesRec(decl, direct, inner) == [decl |-> decl, direct |-> direct, inner |-> inner]

JoinUses(S) == UsesRec(UNION {u.decl : u \in S}, UNION {u.direct : u \in S},
                       UNION {u.inner : u \in S})

RECURSIVE WalkNode(_, _, _)

WalkAll(nodes, inBlock, vis) == JoinUses({WalkNode(k, inBlock, vis) : k \in NamesOf(nodes)})

\* A block as a scope of its own: what it needs from outside, split into
\* what its body uses itself and what blocks nested in it need, and the
\* names it declares that those blocks capture.
WalkBlockScope(b, vis) ==
  LET decl == NamesOf(b.names)
      seen == vis \ decl
      u == WalkAll(b.kids, TRUE, seen)
  IN [direct |-> (u.direct \ decl) \ seen, inner |-> (u.inner \ decl) \ seen,
      captured |-> decl \cap u.inner]

FreeVarsOf(b, vis) == LET w == WalkBlockScope(b, vis) IN w.direct \cup w.inner

IsInlinedAlways(n, vis) == InlineShapeOf(n) # "None"

\* A to:do: whose argument a block captures keeps its real block.
IsInlined(n, vis) ==
  LET shape == InlineShapeOf(n)
  IN /\ shape # "None"
     /\ shape = "ToDo" => n.kids[3].names[1] \notin WalkBlockScope(n.kids[3], vis).captured

WalkInlinedSend(n, inBlock, vis) ==
  LET blocks == {k \in NamesOf(n.kids) : k.kind = "Block"}
      scopes == {WalkBlockScope(b, vis) : b \in blocks}
      direct == UNION {w.direct : w \in scopes}
      inner == UNION {w.inner : w \in scopes}
  IN JoinUses({WalkNode(k, inBlock, vis) : k \in NamesOf(n.kids) \ blocks}
              \cup {IF IsInlined(n, vis) THEN UsesRec({}, direct, inner)
                                         ELSE UsesRec({}, {}, direct \cup inner)})

\* An assignment declares its name at module and method level, and refers to
\* an enclosing scope's in a block.
WalkAssignment(n, inBlock, vis) ==
  JoinUses({IF inBlock THEN UsesRec({}, {n.text}, {}) ELSE UsesRec({n.text}, {}, {}),
            WalkNode(n.kids[1], inBlock, vis)})

WalkCascade(n, inBlock, vis) ==
  JoinUses({WalkNode(n.kids[1], inBlock, vis)}
           \cup {WalkAll(n.kids[i].kids, inBlock, vis) : i \in 2..Len(n.kids)})

WalkNode(n, inBlock, vis) ==
  CASE n.kind = "Identifier" -> UsesRec({}, {n.text}, {})
    [] n.kind = "Assignment" -> WalkAssignment(n, inBlock, vis)
    [] n.kind = "Block"      -> UsesRec({}, {}, FreeVarsOf(n, vis))
    [] n.kind = "Cascade"    -> WalkCascade(n, inBlock, vis)
    [] n.kind \in {"MethodDecl", "CallMethodDecl"} -> UsesRec({}, {}, {})
    [] InlineShapeOf(n) # "None" -> WalkInlinedSend(n, inBlock, vis)
    [] OTHER -> WalkAll(n.kids, inBlock, vis)

\* What the blocks of a method body capture from it, and which variables of
\* its class they see through self.  A call-form method looks only at the
\* class variables its own class declares.
MethodNames(n) == NamesOf(Tail(n.names))

MethodVisible(classes, n) ==
  IF n.text \notin DOMAIN classes THEN {}
  ELSE (InstVarsThroughChain(classes, n.text, n.flag) \cup ResolveClassVarsFor(classes, n.text))
       \ MethodNames(n)

CallMethodVisible(classes, n) ==
  IF n.text \notin DOMAIN classes THEN {}
  ELSE (InstVarsThroughChain(classes, n.text, n.flag) \cup classes[n.text].cvs)
       \ MethodNames(n)

MethodCaptured(n, vis) ==
  LET u == WalkAll(n.kids, FALSE, vis) IN (MethodNames(n) \cup u.decl) \cap u.inner

\* In the REPL a top-level assignment binds a global and declares nothing.
AnalyseClosures(mod, repl) ==
  LET u == WalkAll(mod.kids, repl, {}) IN u.decl \cap u.inner

----------------------------------------------------------------------------
\* Scopes and name resolution.  A scope has the slots of its names, the
\* names captured from it, its arguments (loops: the arguments of the to:do:
\* loops being inlined in it) and whether it is a method's.

EmptySlots == [x \in {} |-> 0]

NewScope(captured, isMethod, vis) ==
  [slots |-> EmptySlots, next |-> 0, cap |-> captured, args |-> {},
   loops |-> {}, isMethod |-> isMethod, vis |-> vis]

PushScope(c, s) == [c EXCEPT !.scopes = Append(@, s)]
PopScope(c)     == [c EXCEPT !.scopes = Front(@)]
TopScope(c)     == Last(c.scopes)

WithTop(c, s) == [c EXCEPT !.scopes = [@ EXCEPT ![Len(@)] = s]]

NextSlot(c) == TopScope(c).next

DeclareLocal(c, x) ==
  LET s == TopScope(c)
  IN IF x \in DOMAIN s.slots THEN c
     ELSE WithTop(c, [s EXCEPT !.slots = (x :> s.next) @@ @, !.next = @ + 1])

\* A slot under a name no program can use.
DeclareTemps(c, n) == WithTop(c, [TopScope(c) EXCEPT !.next = @ + n])

DeclareAll(c, xs) == FoldLeft(DeclareLocal, c, xs)

\* The scopes a name lookup visits: it stops at the innermost method's.
IsReached(c, i) == \A j \in (i + 1)..Len(c.scopes) : ~c.scopes[j].isMethod

Innermost(S) == CHOOSE i \in S : \A j \in S : j <= i

BindingScopes(c, x) == {i \in DOMAIN c.scopes : IsReached(c, i) /\ x \in DOMAIN c.scopes[i].slots}

ResolveLocal(c, x) ==
  LET B == BindingScopes(c, x)
  IN IF B = {} THEN -1 ELSE c.scopes[Innermost(B)].slots[x]

\* In each scope the captured names come before the slots.
IsCaptured(c, x) ==
  LET B == BindingScopes(c, x)
           \cup {i \in DOMAIN c.scopes : IsReached(c, i) /\ x \in c.scopes[i].cap}
  IN B # {} /\ x \in c.scopes[Innermost(B)].cap

IsArgument(c, x) ==
  LET B == BindingScopes(c, x)
      s == c.scopes[Innermost(B)]
  IN B # {} /\ x \in s.args \cup s.loops

InMethod(c) == c.env.class # ""

AtModuleScope(c) == Len(c.scopes) = 1

AssignsReplGlobalInBlock(c, x) ==
  /\ c.repl /\ ~AtModuleScope(c)
  /\ \A i \in DOMAIN c.scopes : ~c.scopes[i].isMethod
  /\ ResolveLocal(c, x) < 0

IsUndeclaredInMethod(c, x) == InMethod(c) /\ ResolveLocal(c, x) < 0

Error(c) == [c EXCEPT !.bad = TRUE]

ReportDuplicateNames(c, names) ==
  [c EXCEPT !.bad = @ \/ Cardinality(NamesOf(names)) # Len(names)]

----------------------------------------------------------------------------
\* Emission.  Each emit function of the code is the sequence of the steps it
\* takes; Run takes them in order.  A step that stands for a function of the
\* code is looked at in the state the steps before it leave.

Op(op)           == <<"emit", op>>
Wide(op, arg)    == <<"wide", op, arg>>
Named(op, x)     == <<"symbolic", op, <<"sym", x>>>>
Const(v)         == <<"const", v>>
Jump(op)         == <<"jump", op>>
LandJump(k)      == <<"land", k>>
Resolve          == <<"resolve">>
Expr(n)          == <<"expr", n>>
Exprs(ns)        == [i \in DOMAIN ns |-> Expr(ns[i])]
Stmt(n)          == <<"stmt", n>>
Stmts(ns)        == <<"stmts", ns>>
Rejected         == <<<<"error">>, Op("PUSH_NIL")>>

\* The names a scope declares and a block captures get a binding in the
\* dict of each activation: an argument's value, or nil.  names are the
\* arguments (argc of them) and the temporaries.
EmitCaptureProlog(c, names, argc) ==
  LET s == TopScope(c)
      declared == SelectSeq(names, LAMBDA x : x \in s.cap)
      args == NamesOf(SubSeq(names, 1, argc))
      Bind(x) == <<IF x \in args THEN Wide("PUSH_LOCAL", ResolveLocal(c, x)) ELSE Op("PUSH_NIL"),
                   Named("DEFINE_CAPTURED", x)>>
  IN IF s.cap = {} \/ (~s.isMethod /\ declared = <<>>) THEN <<>>
     ELSE <<Wide("MAKE_CAPTURED", IF s.isMethod THEN 0 ELSE 1)>>
          \o FlattenSeq([i \in DOMAIN declared |-> Bind(declared[i])])

----------------------------------------------------------------------------
\* Expressions.

EmitIdentifier(c, x) ==
  CASE IsCaptured(c, x) -> <<Named("PUSH_CAPTURED", x)>>
    [] ~IsCaptured(c, x) /\ ResolveLocal(c, x) >= 0 -> <<Wide("PUSH_LOCAL", ResolveLocal(c, x))>>
    [] OTHER ->
         IF x \in c.env.ivs THEN <<Named(IF c.env.side THEN "PUSH_OWN_INSTVAR" ELSE "PUSH_INSTVAR", x)>>
         ELSE IF x \in c.env.cvs THEN <<Named("PUSH_INSTVAR", x)>>
         ELSE IF ~c.repl /\ InMethod(c) /\ IsLower(x) THEN Rejected
         ELSE <<Named("PUSH_GLOBAL", x)>>

Store(n, store) == <<Expr(n.kids[1]), Op("DUP"), store>>

\* The name is resolved in a fixed order; one nothing binds is declared
\* before its value is emitted.
EmitAssignment(c, n) ==
  LET x == n.text
  IN CASE IsArgument(c, x) -> Rejected
       [] ~IsArgument(c, x) /\ IsCaptured(c, x) ->
            IF IsUndeclaredInMethod(c, x) THEN Rejected
            ELSE Store(n, Named("STORE_CAPTURED", x))
       [] ~IsArgument(c, x) /\ ~IsCaptured(c, x) /\ ResolveLocal(c, x) >= 0 ->
            Store(n, Wide("STORE_LOCAL", ResolveLocal(c, x)))
       [] OTHER ->
            IF x \in c.env.ivs THEN Store(n, Named("STORE_INSTVAR", x))
            ELSE IF x \in c.env.cvs THEN Store(n, Named("STORE_CLASSVAR", x))
            ELSE IF (c.repl /\ AtModuleScope(c)) \/ AssignsReplGlobalInBlock(c, x)
                 THEN Store(n, Named("STORE_GLOBAL", x))
            ELSE IF InMethod(c) THEN Rejected
            ELSE <<<<"declare", x>>>> \o Store(n, Wide("STORE_LOCAL", NextSlot(c)))

SendOp(n, op) == IF IsSuperReceiver(n) THEN "SEND_SUPER" ELSE op

EmitUnary(n) == <<Expr(n.kids[1]), Named(SendOp(n, "SEND_UNARY"), n.text)>>

FastSelectors == {"+", "-", "<=", "<", ">=", ">", "="}

FastOp == [s \in FastSelectors |->
             CASE s = "+" -> "BIN_INT_ADD" [] s = "-" -> "BIN_INT_SUB"
               [] s = "<=" -> "BIN_INT_LE" [] s = "<" -> "BIN_INT_LT"
               [] s = ">=" -> "BIN_INT_GE" [] s = ">" -> "BIN_INT_GT"
               [] s = "=" -> "BIN_INT_EQ"]

EmitBinary(n) ==
  Exprs(n.kids)
  \o <<Named(SendOp(n, IF n.text \in FastSelectors THEN FastOp[n.text] ELSE "SEND_BINARY"), n.text)>>

\* SEND_CALL has no super form.
EmitCallSend(n) ==
  IF IsSuperReceiver(n) THEN Rejected
  ELSE Exprs(n.kids) \o <<<<"symbolic", "SEND_CALL", <<"call", n.text, n.int, n.names>>>>>>

CascadeOp == ("UnarySend" :> "SEND_UNARY") @@ ("BinarySend" :> "SEND_BINARY")
             @@ ("KeywordSend" :> "SEND_KEYWORD")

\* Each message is sent to a copy of the receiver; the last result is kept
\* in a slot while the receiver is dropped.
EmitCascadeMessages(c, n) ==
  LET Send(msg) ==
        <<Op("DUP")>>
        \o IF msg.kind \in DOMAIN CascadeOp
           THEN Exprs(msg.kids)
                \o <<Named(IF IsSuperReceiver(n) THEN "SEND_SUPER" ELSE CascadeOp[msg.kind], msg.text)>>
           ELSE <<<<"error">>>>
      sends == [i \in 2..Len(n.kids) |-> Send(n.kids[i])]
  IN <<<<"temps", 1>>>>
     \o FlattenSeq([i \in 1..(Len(n.kids) - 2) |-> sends[i + 1] \o <<Op("POP")>>])
     \o sends[Len(n.kids)]
     \o <<Wide("STORE_LOCAL", NextSlot(c)), Op("POP"), Wide("PUSH_LOCAL", NextSlot(c))>>

EmitCascade(n) == <<Expr(n.kids[1]), <<"messages", n>>>>

EmitArray(n) == Exprs(n.kids) \o <<Wide("MAKE_ARRAY", Len(n.kids))>>

----------------------------------------------------------------------------
\* Statements and instance-variable write groups.

IsInstVarAssignment(c, n) ==
  /\ n.kind = "Assignment"
  /\ ~IsCaptured(c, n.text) /\ ResolveLocal(c, n.text) < 0
  /\ n.text \in c.env.ivs

RECURSIVE IsInertGroupValue(_, _, _)
IsInertGroupValue(c, e, written) ==
  CASE e.kind \in {"IntegerLit", "SymbolLit", "StringLit", "TrueLit", "FalseLit",
                   "NilLit", "Self"} -> TRUE
    [] e.kind = "Identifier" ->
         \/ IsCaptured(c, e.text) \/ ResolveLocal(c, e.text) >= 0
         \/ (e.text \in c.env.ivs \cup c.env.cvs /\ e.text \notin written)
    [] e.kind = "BinarySend" ->
         /\ e.text \in FastSelectors
         /\ IsInertGroupValue(c, e.kids[1], written) /\ IsInertGroupValue(c, e.kids[2], written)
    [] OTHER -> FALSE

\* The length of the run of writes at the head of stmts: the values after the
\* first may run no code and read nothing the run has written.
GroupLength(c, stmts) ==
  LET Written(k) == {stmts[i].text : i \in 1..k}
      InGroup(k) == /\ IsInstVarAssignment(c, stmts[k])
                    /\ k > 1 => IsInertGroupValue(c, stmts[k].kids[1], Written(k - 1))
      runs == {k \in 0..Len(stmts) : k <= MaxInstVarGroup /\ \A i \in 1..k : InGroup(i)}
  IN Innermost(runs)

\* The k-th of n writes, to the variable x; its value has been emitted.
EmitGroupWrite(c, x, k, n) ==
  LET e == InternSymbol(c, <<"sym", x>>)
      entry == [sym |-> (CHOOSE i \in DOMAIN e.m.consts : e.m.consts[i] = <<"sym", x>>),
                k |-> k - 1, count |-> n]
  IN EmitWide([e EXCEPT !.m.groups = Append(@, entry)],
              IF k < n THEN "IVAR_GROUP" ELSE "IVAR_GROUP_END", Len(e.m.groups))

EmitInstVarGroup(stmts, n) ==
  FlattenSeq([k \in 1..n |-> <<Expr(stmts[k].kids[1]), <<"write", stmts[k].text, k, n>>>>])

\* Statements leave one value: the last one's.
EmitStatements(c, stmts) ==
  LET n == GroupLength(c, stmts)
      taken == IF n >= 2 THEN n ELSE 1
  IN IF stmts = <<>> THEN <<>>
     ELSE (IF n >= 2 THEN EmitInstVarGroup(stmts, n) ELSE <<Stmt(stmts[1])>>)
          \o IF taken = Len(stmts) THEN <<>>
             ELSE <<Op("POP"), Stmts(SubSeq(stmts, taken + 1, Len(stmts)))>>

EmitInlinedBlockBody(b) == IF b.kids = <<>> THEN Op("PUSH_NIL") ELSE Stmts(b.kids)

----------------------------------------------------------------------------
\* Inlined control.

\* cond ifTrue: [..], cond ifFalse: [..]
EmitInlinedIf(n) ==
  <<Expr(n.kids[1]), Named("ASSERT_BOOL_OR_DNU", n.text),
    Jump(IF n.text = "ifFalse:" THEN "JUMP_IF_TRUE" ELSE "JUMP_IF_FALSE"),
    EmitInlinedBlockBody(n.kids[2]), Jump("JUMP"),
    LandJump(2), Op("PUSH_NIL"), LandJump(1), Resolve, Resolve>>

\* cond ifTrue: [..] ifFalse: [..], in either order
EmitInlinedIfElse(n) ==
  LET first == IF n.text = "ifFalse:ifTrue:" THEN 3 ELSE 2
  IN <<Expr(n.kids[1]), Named("ASSERT_BOOL_OR_DNU", n.text), Jump("JUMP_IF_FALSE"),
       EmitInlinedBlockBody(n.kids[first]), Jump("JUMP"),
       LandJump(2), EmitInlinedBlockBody(n.kids[5 - first]), LandJump(1), Resolve, Resolve>>

\* start to: end do: [:i | ..]: in the body the argument's name means the
\* counter's slot, whatever the scope bound it to; the receiver stays under
\* the loop as its value.
EnterToDo(c, arg, slot) ==
  LET s == TopScope(c)
  IN WithTop(OpenLoop(c), [s EXCEPT !.slots = (arg :> slot) @@ @, !.cap = @ \ {arg},
                                    !.loops = @ \cup {arg}, !.vis = @ \ {arg}])

LeaveToDo(c, arg) ==
  LET outer == Last(Front(c.open)).scope
      s == TopScope(c)
  IN WithTop(CloseLoop(c), [s EXCEPT
       !.slots = [x \in (DOMAIN @ \ {arg}) \cup (DOMAIN outer.slots \cap {arg}) |->
                    IF x = arg THEN outer.slots[arg] ELSE @[x]],
       !.cap = @ \cup (outer.cap \cap {arg}), !.loops = outer.loops, !.vis = outer.vis])

EmitInlinedToDo(c, n) ==
  LET arg == n.kids[3].names[1]
      i == NextSlot(c)
  IN <<<<"temps", 2>>, Expr(n.kids[1]), Op("DUP"), Wide("STORE_LOCAL", i),
       Expr(n.kids[2]), Wide("STORE_LOCAL", i + 1), <<"enter", arg, i>>,
       Wide("PUSH_LOCAL", i), Wide("PUSH_LOCAL", i + 1), Named("BIN_INT_LE", "<="),
       Jump("JUMP_IF_FALSE"), EmitInlinedBlockBody(n.kids[3]), Op("POP"),
       Wide("PUSH_LOCAL", i), Const(<<"int", 1>>), Named("BIN_INT_ADD", "+"),
       Wide("STORE_LOCAL", i), <<"leave", arg>>>>

\* [cond] whileTrue: [..], [cond] whileFalse: [..]
EmitInlinedWhile(n) ==
  <<<<"loop">>, EmitInlinedBlockBody(n.kids[1]), Named("ASSERT_BOOL_OR_DNU", n.text),
    Jump(IF n.text = "whileFalse:" THEN "JUMP_IF_TRUE" ELSE "JUMP_IF_FALSE"),
    EmitInlinedBlockBody(n.kids[2]), Op("POP"), <<"close">>, Op("PUSH_NIL")>>

\* recv doYielding: [:each | ..]: a loop over size and at:, so that the block
\* runs in the same engine.
IsDoYielding(n) ==
  /\ n.text = "doYielding:" /\ ~IsSuperReceiver(n)
  /\ n.kids[2].kind = "Block" /\ n.kids[2].int = 1

EmitDoYieldingLoop(c, n) ==
  LET Get(k) == Wide("PUSH_LOCAL", NextSlot(c) + k)
      Put(k) == Wide("STORE_LOCAL", NextSlot(c) + k)
      one == Wide("PUSH_CONST", Len(c.m.consts))
  IN <<<<"temps", 4>>, <<"constant", <<"int", 1>>>>,
       Expr(n.kids[1]), Put(0), Expr(n.kids[2]), Put(1),
       Get(0), Named("SEND_UNARY", "size"), Put(2), one, Put(3),
       <<"loop">>, Get(3), Get(2), Named("SEND_BINARY", "<="), Jump("JUMP_IF_FALSE"),
       Get(1), Get(0), Get(3), Named("SEND_KEYWORD", "at:"), Named("SEND_KEYWORD", "value:"), Op("POP"),
       Get(3), one, Named("SEND_BINARY", "+"), Put(3), <<"close">>, Get(0)>>

EmitKeyword(c, n) ==
  CASE IsDoYielding(n) -> EmitDoYieldingLoop(c, n)
    [] ~IsDoYielding(n) /\ ~IsInlined(n, TopScope(c).vis) ->
         Exprs(n.kids) \o <<Named(SendOp(n, "SEND_KEYWORD"), n.text)>>
    [] OTHER -> CASE InlineShapeOf(n) = "IfTrue" -> EmitInlinedIf(n)
                  [] InlineShapeOf(n) = "IfTrueIfFalse" -> EmitInlinedIfElse(n)
                  [] InlineShapeOf(n) = "ToDo" -> EmitInlinedToDo(c, n)
                  [] OTHER -> EmitInlinedWhile(n)

----------------------------------------------------------------------------
\* Blocks, methods and classes.

OpenBlock(c, n) ==
  LET vis == TopScope(c).vis
      s == [NewScope(WalkBlockScope(n, vis).captured, FALSE, vis \ NamesOf(n.names))
              EXCEPT !.args = NamesOf(SubSeq(n.names, 1, n.int))]
  IN [ReportDuplicateNames(DeclareAll(PushScope(OpenModule(c), s), n.names), n.names)
        EXCEPT !.m.argc = n.int, !.m.class = c.env.class]

EmitBlock(n) ==
  <<<<"open", n>>, <<"prolog", n.names, n.int>>, EmitInlinedBlockBody(n), Op("RETURN_TOP"),
    <<"file">>, <<"pushBlock">>>>

NoMethod == [class |-> "", side |-> FALSE, ivs |-> {}, cvs |-> {}]

\* The scope of a method body: slot 0 is self, then the arguments, then the
\* temporaries; a name may not be an instance variable's too.
OpenMethod(c, n) ==
  LET known == n.text \in DOMAIN c.classes
      isCall == n.kind = "CallMethodDecl"
      env == [class |-> n.text, side |-> n.flag,
              ivs |-> IF known THEN InstVarsThroughChain(c.classes, n.text, n.flag) ELSE {},
              cvs |-> IF known THEN ResolveClassVarsFor(c.classes, n.text) ELSE {}]
      names == Tail(n.names)
      vis == IF isCall THEN CallMethodVisible(c.classes, n) ELSE MethodVisible(c.classes, n)
      argc == n.int + n.int2
      s == [NewScope(MethodCaptured(n, vis), TRUE, vis) EXCEPT !.args = NamesOf(SubSeq(names, 1, argc))]
  IN [ReportDuplicateNames(DeclareAll(PushScope(OpenModule(c), s), <<"self">> \o names), names) EXCEPT
        !.env = env, !.m.argc = argc + 1, !.m.class = n.text, !.m.call = isCall,
        !.m.npos = IF isCall THEN n.int ELSE 0,
        !.m.keys = SubSeq(n.names, 2 + n.int, 1 + argc),
        !.bad = @ \/ NamesOf(names) \cap env.ivs # {}]

\* The body answers self unless it ends with a return.
EmitMethodBody(body) ==
  IF body = <<>> THEN <<Op("PUSH_NIL"), Wide("PUSH_LOCAL", 0), Op("RETURN")>>
  ELSE <<Stmts(body)>> \o IF Last(body).kind = "Return" THEN <<>>
                          ELSE <<Op("POP"), Wide("PUSH_LOCAL", 0), Op("RETURN")>>

\* The method is filed and installed on its class by a send.
InstallMethod(n) ==
  <<<<"fileMethod">>, Named("PUSH_GLOBAL", n.text), <<"pushBlock">>, Named("PUSH_CONST", n.names[1]),
    Named("SEND_KEYWORD", IF n.flag THEN "__installClassMethod:as:" ELSE "__installMethod:as:")>>

EmitMethodDecl(n) ==
  <<<<"openMethod", n>>, <<"prolog", Tail(n.names), n.int>>>> \o EmitMethodBody(n.kids) \o InstallMethod(n)

\* A key's slot that still holds the unset marker gets its default.
EmitDefault(slot, default) ==
  <<Wide("PUSH_LOCAL", slot), Const(<<"unset", 0>>), Named("SEND_BINARY", "=="), Jump("JUMP_IF_FALSE"),
    Expr(default), Wide("STORE_LOCAL", slot), LandJump(1), Resolve>>

EmitCallMethodDecl(n) ==
  <<<<"openMethod", n>>, <<"prolog", Tail(n.names), n.int + n.int2>>>>
  \o FlattenSeq([i \in 1..n.int2 |-> EmitDefault(n.int + i, n.kids[i])])
  \o EmitMethodBody(SubSeq(n.kids, n.int2 + 1, Len(n.kids))) \o InstallMethod(n)

EmitSetInstVarNames(n) ==
  IF n.int = 0 THEN <<>>
  ELSE <<Const(<<"names", SubSeq(n.names, 2, 1 + n.int)>>), Named("SEND_KEYWORD", "__setInstVarNames:")>>

\* The superclass makes the class, with its mixins if it has any; the class
\* gets its names and its class variables, and is bound under its name.
EmitClassDecl(n) ==
  LET ivs == SubSeq(n.names, 2, 1 + n.int)
      cvs == SubSeq(n.names, 2 + n.int, Len(n.names))
      plain == <<Const(<<"str", n.text>>), Named("SEND_KEYWORD", "__subclassNamed:"),
                 Const(<<"str", n.text>>), Named("SEND_KEYWORD", "__setClassName:")>>
      mixed == IF ivs = <<>>
               THEN <<Named("PUSH_CONST", n.text), Expr(n.kids[1]), Named("SEND_KEYWORD", "subclass:uses:")>>
               ELSE <<Named("PUSH_CONST", n.text), Const(<<"names", ivs>>), Expr(n.kids[1]),
                      Named("SEND_KEYWORD", "subclass:instanceVariableNames:uses:")>>
      vars == IF cvs = <<>> THEN <<>>
              ELSE <<Const(<<"names", cvs>>), Named("SEND_KEYWORD", "__initClassVars:")>>
  IN <<Named("PUSH_GLOBAL", n.names[1])>> \o (IF n.kids = <<>> THEN plain ELSE mixed)
     \o EmitSetInstVarNames(n) \o vars \o <<Op("DUP"), Named("STORE_GLOBAL", n.text)>>

EmitExpr(c, n) ==
  CASE n.kind = "IntegerLit" -> <<Const(<<"int", n.int>>)>>
    [] n.kind = "StringLit"  -> <<Const(<<"names", n.names>>)>>
    [] n.kind = "SymbolLit"  -> <<Named("PUSH_CONST", n.text)>>
    [] n.kind = "TrueLit"    -> <<Op("PUSH_TRUE")>>
    [] n.kind = "FalseLit"   -> <<Op("PUSH_FALSE")>>
    [] n.kind = "NilLit"     -> <<Op("PUSH_NIL")>>
    [] n.kind \in {"Self", "Super"} -> <<Op("PUSH_SELF")>>
    [] n.kind = "Identifier" -> EmitIdentifier(c, n.text)
    [] n.kind = "Assignment" -> EmitAssignment(c, n)
    [] n.kind = "UnarySend"  -> EmitUnary(n)
    [] n.kind = "BinarySend" -> EmitBinary(n)
    [] n.kind = "KeywordSend" -> EmitKeyword(c, n)
    [] n.kind = "CallSend"   -> EmitCallSend(n)
    [] n.kind = "Cascade"    -> EmitCascade(n)
    [] n.kind \in {"ArrayLit", "DynArrayLit"} -> EmitArray(n)
    [] n.kind = "Block"      -> EmitBlock(n)
    [] OTHER -> Rejected

EmitReturn(n) == <<Expr(n.kids[1]), Op("RETURN")>>

EmitStatement(n) ==
  CASE n.kind = "Return"     -> EmitReturn(n)
    [] n.kind = "ClassDecl"  -> EmitClassDecl(n)
    [] n.kind = "MethodDecl" -> EmitMethodDecl(n)
    [] n.kind = "CallMethodDecl" -> EmitCallMethodDecl(n)
    [] OTHER -> <<Expr(n)>>

----------------------------------------------------------------------------
\* Running the steps.

StepsOf(c, s) ==
  CASE s[1] = "expr"     -> EmitExpr(c, s[2])
    [] s[1] = "stmt"     -> EmitStatement(s[2])
    [] s[1] = "stmts"    -> EmitStatements(c, s[2])
    [] s[1] = "messages" -> EmitCascadeMessages(c, s[2])
    [] s[1] = "prolog"   -> EmitCaptureProlog(c, s[2], s[3])

Perform(c, s) ==
  CASE s[1] = "emit"     -> Emit(c, s[2], 0)
    [] s[1] = "wide"     -> EmitWide(c, s[2], s[3])
    [] s[1] = "symbolic" -> EmitSymbolic(c, s[2], s[3])
    [] s[1] = "const"    -> EmitConst(c, s[2])
    [] s[1] = "constant" -> [c EXCEPT !.m.consts = Append(@, s[2])]
    [] s[1] = "jump"     -> EmitForwardJump(c, s[2])
    [] s[1] = "land"     -> Land(c, s[2])
    [] s[1] = "resolve"  -> ResolveForwardJump(c)
    [] s[1] = "loop"     -> OpenLoop(c)
    [] s[1] = "close"    -> CloseLoop(c)
    [] s[1] = "enter"    -> EnterToDo(c, s[2], s[3])
    [] s[1] = "leave"    -> LeaveToDo(c, s[2])
    [] s[1] = "write"    -> EmitGroupWrite(c, s[2], s[3], s[4])
    [] s[1] = "declare"  -> DeclareLocal(c, s[2])
    [] s[1] = "temps"    -> DeclareTemps(c, s[2])
    [] s[1] = "open"     -> OpenBlock(c, s[2])
    [] s[1] = "openMethod" -> OpenMethod(c, s[2])
    [] s[1] = "file"     -> AddBlockModule(PopScope(c))
    [] s[1] = "fileMethod" -> [AddBlockModule(PopScope(c)) EXCEPT !.env = NoMethod]
    [] s[1] = "pushBlock" -> EmitWide(c, "PUSH_BLOCK", LastBlock(c))
    [] s[1] = "error"    -> Error(c)

\* Nothing is written after an operand that did not fit.
RECURSIVE Run(_, _)
Run(c, steps) ==
  IF c.broken \/ steps = <<>> THEN c
  ELSE Run(IF steps[1][1] \in {"expr", "stmt", "stmts", "messages", "prolog"}
           THEN Run(c, StepsOf(c, steps[1])) ELSE Perform(c, steps[1]),
           Tail(steps))

\* The module's top level; its statements are never grouped.
EmitForms(forms) ==
  IF forms = <<>> THEN <<Op("PUSH_NIL"), Op("RETURN_TOP")>>
  ELSE FlattenSeq([i \in DOMAIN forms |->
         <<Stmt(forms[i]), Op(IF i < Len(forms) THEN "POP" ELSE "RETURN_TOP")>>])

\* The result is the module last, with the modules of its blocks and methods
\* before it.
Finished(c) == [mods |-> Append(c.mods, c.m), bad |-> c.bad, broken |-> c.broken]

Start(mod, classes, repl) ==
  [m |-> EmptyModule, outer |-> <<>>, mods |-> <<>>, classes |-> classes,
   scopes |-> <<NewScope(AnalyseClosures(mod, repl), FALSE, {})>>, env |-> NoMethod,
   open |-> <<>>, repl |-> repl, bad |-> BadClasses(classes), broken |-> FALSE]

CompileModule(mod, repl) == Finished(Run(Start(mod, CollectClasses(mod), repl), EmitForms(mod.kids)))
=============================================================================
