------------------------------ MODULE Meaning ------------------------------
(***************************************************************************)
(* What a program means, read directly off its tree: the reference the     *)
(* compiled program is compared with.  Variables are cells, blocks are     *)
(* closures over an environment, every write to an instance variable is    *)
(* made on its own.  Nothing here knows of bytecode, slots, captured dicts *)
(* or inlining.                                                            *)
(*                                                                         *)
(* st: cells, objects (class and variables), closures, classes, globals,   *)
(* the live method activations and the versions of the objects written.    *)
(* An evaluation yields st, a value and how it ended: ok, err, or ret to a *)
(* method activation.                                                      *)
(***************************************************************************)
EXTENDS Ast, Integers, FiniteSets, SequencesExt, TLC

NilVal == <<"nil", 0>>
BoolVal(b) == <<IF b THEN "true" ELSE "false", 0>>

Ok(st, v) == [st |-> st, v |-> v, ctl |-> <<"ok", 0>>]
Err(st, why) == [st |-> st, v |-> NilVal, ctl |-> <<"err", why>>]
IsOk(r) == r.ctl[1] = "ok"

----------------------------------------------------------------------------
\* Classes: each is looked through before its superclass, and that before
\* its mixins.

RECURSIVE LookupOrder(_, _)
LookupOrder(classes, k) ==
  IF k \notin DOMAIN classes THEN <<>>
  ELSE <<k>> \o LookupOrder(classes, classes[k].super)
             \o FlattenSeq([i \in DOMAIN classes[k].mixins |-> LookupOrder(classes, classes[k].mixins[i])])

NoMethodFound == [class |-> "", node |-> Nil]

\* An instance sees instance-side methods only.
FindIn(classes, order, sel, side) ==
  LET Has(k) == sel \in DOMAIN classes[k].methods \/ (side /\ sel \in DOMAIN classes[k].sideMethods)
      hits == SelectSeq(order, Has)
  IN IF hits = <<>> THEN NoMethodFound
     ELSE LET k == hits[1] IN
          [class |-> k, node |-> IF side /\ sel \in DOMAIN classes[k].sideMethods
                                 THEN classes[k].sideMethods[sel] ELSE classes[k].methods[sel]]

ClassOf(st, v) == IF v[1] = "class" THEN v[2] ELSE IF v[1] = "obj" THEN st.objs[v[2]].class ELSE ""

VarsOf(classes, k, side) ==
  LET Own(j) == IF side THEN classes[j].sideIvs ELSE classes[j].ivs
  IN UNION {Own(j) : j \in NamesOf(LookupOrder(classes, k))}

\* The class that declares the class variable x, or "".
ClassVarHome(classes, k, x) ==
  LET hits == SelectSeq(LookupOrder(classes, k), LAMBDA j : x \in classes[j].cvs)
  IN IF hits = <<>> THEN "" ELSE hits[1]

----------------------------------------------------------------------------
\* Variables.

\* An object's variables; a class's own ones are kept with the class.
SlotsOf(st, v) == IF v[1] = "obj" THEN st.objs[v[2]].ivs ELSE st.classes[v[2]].slots

WithSlot(st, v, x, new) ==
  LET w == IF v[1] = "obj" THEN [st EXCEPT !.objs[v[2]].ivs = (x :> new) @@ @]
           ELSE [st EXCEPT !.classes[v[2]].slots = (x :> new) @@ @]
  IN [w EXCEPT !.versions = Append(@, SlotsOf(w, v))]

IsInstVar(st, env, x) == env.class # "" /\ x \in VarsOf(st.classes, env.class, env.side)

ReadVar(st, env, x) ==
  IF x \in DOMAIN env.vars THEN Ok(st, st.cells[env.vars[x]])
  ELSE IF IsInstVar(st, env, x)
       THEN Ok(st, IF x \in DOMAIN SlotsOf(st, env.self) THEN SlotsOf(st, env.self)[x] ELSE NilVal)
  ELSE LET k == IF env.class = "" THEN "" ELSE ClassVarHome(st.classes, env.class, x)
       IN IF k # "" THEN Ok(st, st.classes[k].cvals[x])
          ELSE IF x \in DOMAIN st.globals /\ st.globals[x] # NilVal THEN Ok(st, st.globals[x])
          ELSE Err(st, "undefined global")

WriteVar(st, env, x, v) ==
  IF x \in DOMAIN env.vars THEN [st EXCEPT !.cells[env.vars[x]] = v]
  ELSE IF IsInstVar(st, env, x) THEN WithSlot(st, env.self, x, v)
  ELSE LET k == IF env.class = "" THEN "" ELSE ClassVarHome(st.classes, env.class, x)
       IN IF k # "" THEN [st EXCEPT !.classes[k].cvals[x] = v]
          ELSE [st EXCEPT !.globals = (x :> v) @@ @]

\* New cells for names, the first of them holding vs.
Bind(st, env, names, vs) ==
  LET n == Len(st.cells)
  IN [st  |-> [st EXCEPT !.cells = @ \o [i \in DOMAIN names |-> IF i <= Len(vs) THEN vs[i] ELSE NilVal]],
      env |-> [env EXCEPT !.vars = [x \in NamesOf(names) |-> n + (CHOOSE i \in DOMAIN names : names[i] = x)] @@ @]]

----------------------------------------------------------------------------
\* Evaluation.

\* Evaluate(st, what) evaluates what from st; these are what it can be asked.
RECURSIVE Evaluate(_, _)

Eval(n, env, st) == Evaluate(st, <<"node", n, env>>)
EvalEach(nodes, env, st, vs) == Evaluate(st, <<"each", nodes, env, vs>>)
EvalBody(stmts, env, st, v) == Evaluate(st, <<"body", stmts, env, v>>)
SendTo(st, v, sel, args) == Evaluate(st, <<"send", v, sel, args>>)
Loop(st, kind, i, more) == Evaluate(st, <<"loop", kind, i, more>>)
CascadeFrom(msgs, recv, env, st, isSuper) == Evaluate(st, <<"cascade", msgs, recv, env, isSuper>>)

DoEach(nodes, env, st, vs) ==
  IF nodes = <<>> THEN [st |-> st, vs |-> vs, ctl |-> <<"ok", 0>>]
  ELSE LET r == Eval(nodes[1], env, st)
       IN IF ~IsOk(r) THEN [st |-> r.st, vs |-> vs, ctl |-> r.ctl]
          ELSE EvalEach(Tail(nodes), env, r.st, Append(vs, r.v))

DoBody(stmts, env, st, v) ==
  IF stmts = <<>> THEN Ok(st, v)
  ELSE LET r == Eval(stmts[1], env, st)
       IN IF IsOk(r) THEN EvalBody(Tail(stmts), env, r.st, r.v) ELSE r

CallClosure(st, c, args) ==
  LET node == st.closures[c].node
      b == Bind(st, st.closures[c].env, node.names, args)
  IN IF node.int # Len(args) THEN Err(st, "arguments") ELSE EvalBody(node.kids, b.env, b.st, NilVal)

IsClosure(v) == v[1] = "closure"

CallValue(st, v, args) == IF IsClosure(v) THEN CallClosure(st, v[2], args) ELSE Err(st, "not a block")

\* A method activation: a return to it ends here, and afterwards nothing can
\* return to it.
Activate(st, self, m, args, defaults, body) ==
  LET home == st.nextHome
      env == [vars |-> [x \in {} |-> 0], self |-> self, home |-> home, class |-> m.class,
              side |-> m.node.flag]
      b == Bind([st EXCEPT !.nextHome = @ + 1, !.live = @ \cup {home}], env, Tail(m.node.names), args)
      r == LET d == EvalBody(defaults, b.env, b.st, NilVal)
           IN IF IsOk(d) THEN EvalBody(body, b.env, d.st, NilVal) ELSE d
      done == [r.st EXCEPT !.live = @ \ {home}]
  IN IF r.ctl = <<"ret", home>> THEN Ok(done, r.v)
     ELSE IF IsOk(r) THEN Ok(done, self) ELSE [r EXCEPT !.st = done]

CallMethod(st, self, m, args) ==
  IF m.node.kind = "CallMethodDecl" THEN Err(st, "arguments")
  ELSE IF m.node.int # Len(args) THEN Err(st, "arguments")
  ELSE Activate(st, self, m, args, <<>>, m.node.kids)

\* name(p, k = v): an omitted key has the value of its default, computed in
\* the method once the keys before it have theirs.
CallForm(st, self, m, n, args) ==
  LET d == m.node
      declared == SubSeq(d.names, 2 + d.int, 1 + d.int + d.int2)
      At(x) == CHOOSE i \in DOMAIN n.names : n.names[i] = x
      given == [i \in DOMAIN declared |-> IF declared[i] \in NamesOf(n.names)
                                          THEN args[n.int + At(declared[i])] ELSE NilVal]
      omitted == SelectSeq([i \in DOMAIN declared |-> i], LAMBDA i : declared[i] \notin NamesOf(n.names))
      defaults == [j \in DOMAIN omitted |-> Assign(declared[omitted[j]], d.kids[omitted[j]])]
  IN IF d.kind # "CallMethodDecl" \/ d.int # n.int \/ ~(NamesOf(n.names) \subseteq NamesOf(declared))
     THEN Err(st, "arguments")
     ELSE Activate(st, self, m, SubSeq(args, 1, n.int) \o given, defaults,
                   SubSeq(d.kids, d.int2 + 1, Len(d.kids)))

NotUnderstood(st, v) ==
  LET h == FindIn(st.classes, LookupOrder(st.classes, ClassOf(st, v)), "doesNotUnderstand:", v[1] = "class")
  IN IF h = NoMethodFound THEN Err(st, "doesNotUnderstand") ELSE CallMethod(st, v, h, <<<<"msg", 0>>>>)

CompareInts(sel, a, b) ==
  CASE sel = "<" -> a < b [] sel = "<=" -> a <= b [] sel = ">" -> a > b
    [] sel = ">=" -> a >= b [] OTHER -> a = b

SendInt(st, v, sel, args) ==
  IF sel \in {"+", "-", "<", "<=", ">", ">=", "="}
  THEN IF args[1][1] # "int" THEN IF sel = "=" THEN Ok(st, BoolVal(FALSE)) ELSE Err(st, "not a number")
       ELSE Ok(st, CASE sel = "+" -> <<"int", v[2] + args[1][2]>>
                     [] sel = "-" -> <<"int", v[2] - args[1][2]>>
                     [] OTHER -> BoolVal(CompareInts(sel, v[2], args[1][2])))
  ELSE IF sel = "to:do:" THEN Loop(st, "count", v, <<v, args[1], args[2]>>)
  ELSE NotUnderstood(st, v)

SendBool(st, v, sel, args) ==
  LET yes == v[1] = "true"
  IN CASE sel = "ifTrue:"  -> IF yes THEN CallValue(st, args[1], <<>>) ELSE Ok(st, NilVal)
       [] sel = "ifFalse:" -> IF yes THEN Ok(st, NilVal) ELSE CallValue(st, args[1], <<>>)
       [] sel = "ifTrue:ifFalse:" -> CallValue(st, args[IF yes THEN 1 ELSE 2], <<>>)
       [] sel = "ifFalse:ifTrue:" -> CallValue(st, args[IF yes THEN 2 ELSE 1], <<>>)
       [] OTHER -> NotUnderstood(st, v)

SendList(st, v, sel, args) ==
  CASE sel = "size" -> Ok(st, <<"int", Len(v[2])>>)
    [] sel = "at:" -> IF args[1][1] = "int" /\ args[1][2] \in DOMAIN v[2] THEN Ok(st, v[2][args[1][2]])
                      ELSE Err(st, "bounds")
    [] sel = "doYielding:" -> Loop(st, "each", <<"int", 1>>, <<v, args[1]>>)
    [] OTHER -> NotUnderstood(st, v)

SendClosure(st, v, sel, args) ==
  CASE sel \in {"value", "value:", "value:value:"} -> CallClosure(st, v[2], args)
    [] sel \in {"whileTrue:", "whileFalse:"} -> Loop(st, sel, NilVal, <<v, args[1]>>)
    [] OTHER -> NotUnderstood(st, v)

SendPlain(st, v, sel, args) ==
  IF sel \in {"=", "=="} THEN Ok(st, BoolVal(v = args[1]))
  ELSE IF sel = "new" /\ v[1] = "class"
  THEN Ok([st EXCEPT !.objs = Append(@, [class |-> v[2], ivs |-> [x \in {} |-> NilVal]])],
          <<"obj", Len(st.objs) + 1>>)
  ELSE NotUnderstood(st, v)

DoSend(st, v, sel, args) ==
  LET m == FindIn(st.classes, LookupOrder(st.classes, ClassOf(st, v)), sel, v[1] = "class")
  IN IF m # NoMethodFound THEN CallMethod(st, v, m, args)
     ELSE IF sel = "==" THEN SendPlain(st, v, sel, args)
     ELSE CASE v[1] = "int" -> SendInt(st, v, sel, args)
            [] v[1] \in {"true", "false"} -> SendBool(st, v, sel, args)
            [] v[1] = "list" -> SendList(st, v, sel, args)
            [] IsClosure(v) -> SendClosure(st, v, sel, args)
            [] v[1] = "fut" -> Ok(st, <<"int", st.answer>>)
            [] OTHER -> SendPlain(st, v, sel, args)

\* The loops; i is the counter, more what they were started with.
DoLoop(st, kind, i, more) ==
  CASE kind = "count" ->
         IF more[2][1] # "int" THEN Err(st, "not a number")
         ELSE IF i[2] > more[2][2] THEN Ok(st, more[1])
         ELSE LET r == CallValue(st, more[3], <<i>>)
              IN IF IsOk(r) THEN Loop(r.st, kind, <<"int", i[2] + 1>>, more) ELSE r
    [] kind = "each" ->
         IF i[2] > Len(more[1][2]) THEN Ok(st, more[1])
         ELSE LET r == CallValue(st, more[2], <<more[1][2][i[2]]>>)
              IN IF IsOk(r) THEN Loop(r.st, kind, <<"int", i[2] + 1>>, more) ELSE r
    [] OTHER ->
         LET c == CallValue(st, more[1], <<>>)
         IN IF ~IsOk(c) THEN c
            ELSE IF c.v[1] \notin {"true", "false"} THEN NotUnderstood(c.st, c.v)
            ELSE IF c.v # BoolVal(kind = "whileTrue:") THEN Ok(c.st, NilVal)
            ELSE LET r == CallValue(c.st, more[2], <<>>)
                 IN IF IsOk(r) THEN Loop(r.st, kind, i, more) ELSE r

SuperSend(st, env, sel, args) ==
  LET order == Tail(LookupOrder(st.classes, env.class))
      m == FindIn(st.classes, order, sel, env.self[1] = "class")
  IN IF m # NoMethodFound THEN CallMethod(st, env.self, m, args) ELSE SendPlain(st, env.self, sel, args)

SendNode(n, env, st) ==
  LET r == EvalEach(n.kids, env, st, <<>>)
  IN IF r.ctl[1] # "ok" THEN [st |-> r.st, v |-> NilVal, ctl |-> r.ctl]
     ELSE IF n.kids[1].kind = "Super"
          THEN IF env.class = "" THEN Err(r.st, "super") ELSE SuperSend(r.st, env, n.text, Tail(r.vs))
     ELSE IF n.kind = "CallSend"
     THEN LET m == FindIn(r.st.classes, LookupOrder(r.st.classes, ClassOf(r.st, r.vs[1])), n.text, TRUE)
          IN IF m = NoMethodFound THEN NotUnderstood(r.st, r.vs[1])
             ELSE CallForm(r.st, r.vs[1], m, n, Tail(r.vs))
     ELSE SendTo(r.st, r.vs[1], n.text, Tail(r.vs))

DoCascade(msgs, recv, env, st, isSuper) ==
  LET a == EvalEach(msgs[1].kids, env, st, <<>>)
      r == IF a.ctl[1] # "ok" THEN [st |-> a.st, v |-> NilVal, ctl |-> a.ctl]
           ELSE IF isSuper THEN SuperSend(a.st, env, msgs[1].text, a.vs)
           ELSE SendTo(a.st, recv, msgs[1].text, a.vs)
  IN IF ~IsOk(r) \/ Len(msgs) = 1 THEN r ELSE CascadeFrom(Tail(msgs), recv, env, r.st, isSuper)

----------------------------------------------------------------------------
\* Declarations.

DeclareClass(st, n) ==
  [super |-> n.names[1], ivs |-> NamesOf(SubSeq(n.names, 2, 1 + n.int)), sideIvs |-> {},
   cvs |-> NamesOf(SubSeq(n.names, 2 + n.int, Len(n.names))),
   cvals |-> [x \in NamesOf(SubSeq(n.names, 2 + n.int, Len(n.names))) |-> NilVal],
   mixins |-> IF n.kids = <<>> THEN <<>> ELSE [i \in DOMAIN n.kids[1].kids |-> n.kids[1].kids[i].text],
   slots |-> [x \in {} |-> NilVal], methods |-> [x \in {} |-> Nil], sideMethods |-> [x \in {} |-> Nil]]

DeclareMethod(st, n) ==
  IF n.flag THEN [st EXCEPT !.classes[n.text].sideMethods = (n.names[1] :> n) @@ @]
  ELSE [st EXCEPT !.classes[n.text].methods = (n.names[1] :> n) @@ @]

DoNode(n, env, st) ==
  CASE n.kind = "IntegerLit" -> Ok(st, <<"int", n.int>>)
    [] n.kind = "SymbolLit" -> Ok(st, <<"sym", n.text>>)
    [] n.kind = "TrueLit" -> Ok(st, BoolVal(TRUE))
    [] n.kind = "FalseLit" -> Ok(st, BoolVal(FALSE))
    [] n.kind = "NilLit" -> Ok(st, NilVal)
    [] n.kind \in {"Self", "Super"} -> Ok(st, env.self)
    [] n.kind = "Identifier" -> ReadVar(st, env, n.text)
    [] n.kind = "Assignment" ->
         LET r == Eval(n.kids[1], env, st)
         IN IF IsOk(r) THEN Ok(WriteVar(r.st, env, n.text, r.v), r.v) ELSE r
    [] n.kind = "Return" ->
         LET r == Eval(n.kids[1], env, st)
         IN IF ~IsOk(r) THEN r
            ELSE IF env.home \in r.st.live THEN [r EXCEPT !.ctl = <<"ret", env.home>>]
            ELSE Err(r.st, "cannotReturn")
    [] n.kind = "Block" -> Ok([st EXCEPT !.closures = Append(@, [node |-> n, env |-> env])],
                              <<"closure", Len(st.closures) + 1>>)
    [] n.kind = "DynArrayLit" ->
         LET r == EvalEach(n.kids, env, st, <<>>)
         IN [st |-> r.st, v |-> <<"list", r.vs>>, ctl |-> r.ctl]
    [] n.kind = "Cascade" ->
         LET r == Eval(n.kids[1], env, st)
         IN IF IsOk(r) THEN CascadeFrom(Tail(n.kids), r.v, env, r.st, n.kids[1].kind = "Super") ELSE r
    [] n.kind = "ClassDecl" ->
         Ok([st EXCEPT !.classes = (n.text :> DeclareClass(st, n)) @@ @,
                       !.globals = (n.text :> <<"class", n.text>>) @@ @], <<"class", n.text>>)
    [] n.kind \in {"MethodDecl", "CallMethodDecl"} -> Ok(DeclareMethod(st, n), <<"class", n.text>>)
    [] OTHER -> SendNode(n, env, st)

Evaluate(st, w) ==
  CASE w[1] = "node" -> DoNode(w[2], w[3], st)
    [] w[1] = "each" -> DoEach(w[2], w[3], st, w[4])
    [] w[1] = "body" -> DoBody(w[2], w[3], st, w[4])
    [] w[1] = "send" -> DoSend(st, w[2], w[3], w[4])
    [] w[1] = "loop" -> DoLoop(st, w[2], w[3], w[4])
    [] w[1] = "cascade" -> DoCascade(w[2], w[3], w[4], st, w[5])

----------------------------------------------------------------------------
\* Programs a compiler has to reject.

RECURSIVE AssignedHere(_)
AssignedHere(n) ==
  IF n.kind \in {"Block", "MethodDecl", "CallMethodDecl"} THEN {}
  ELSE (IF n.kind = "Assignment" THEN {n.text} ELSE {}) \cup UNION {AssignedHere(k) : k \in NamesOf(n.kids)}

\* scopes: the names of each enclosing scope and which are its arguments,
\* innermost first; known: the variables of the class.
RECURSIVE IsRejected(_, _, _)
IsRejected(n, scopes, known) ==
  LET Binder(x) == SelectSeq(scopes, LAMBDA s : x \in s.names)
      Opened(names, argc, more) ==
        <<[names |-> NamesOf(names) \cup more, args |-> NamesOf(SubSeq(names, 1, argc))]>>
      AnyOf(kids, ss) == \E k \in NamesOf(kids) : IsRejected(k, ss, known)
  IN CASE n.kind = "Assignment" ->
            \/ AnyOf(n.kids, scopes)
            \/ Binder(n.text) # <<>> /\ n.text \in Binder(n.text)[1].args
            \/ Binder(n.text) = <<>> /\ known.inMethod /\ n.text \notin known.vars
       [] n.kind = "Identifier" ->
            known.inMethod /\ IsLower(n.text) /\ Binder(n.text) = <<>> /\ n.text \notin known.vars
       [] n.kind = "Block" ->
            \/ Cardinality(NamesOf(n.names)) # Len(n.names)
            \/ AnyOf(n.kids, Opened(n.names, n.int, {}) \o scopes)
       [] OTHER -> AnyOf(n.kids, scopes)

\* A static table of the classes, for the variables a method may name.
StaticClasses(mod) ==
  LET decls == {f \in NamesOf(mod.kids) : f.kind = "ClassDecl"}
  IN [k \in {d.text : d \in decls} |->
        DeclareClass(<<>>, CHOOSE d \in decls : d.text = k)]

MethodRejected(classes, n) ==
  LET vars == VarsOf(classes, n.text, FALSE)
              \cup {x \in UNION {classes[k].cvs : k \in DOMAIN classes} : ClassVarHome(classes, n.text, x) # ""}
      argc == n.int + n.int2
      own == Tail(n.names)
      scope == [names |-> NamesOf(own), args |-> NamesOf(SubSeq(own, 1, argc))]
  IN \/ Cardinality(NamesOf(own)) # Len(own)
     \/ NamesOf(own) \cap VarsOf(classes, n.text, FALSE) # {}
     \/ \E k \in NamesOf(n.kids) : IsRejected(k, <<scope>>, [inMethod |-> TRUE, vars |-> vars])

ModuleRejected(mod, repl) ==
  LET classes == StaticClasses(mod)
      top == [names |-> IF repl THEN {} ELSE UNION {AssignedHere(f) : f \in NamesOf(mod.kids)}, args |-> {}]
  IN \E f \in NamesOf(mod.kids) :
       IF f.kind \in {"MethodDecl", "CallMethodDecl"} THEN MethodRejected(classes, f)
       ELSE IsRejected(f, <<top>>, [inMethod |-> FALSE, vars |-> {}])

----------------------------------------------------------------------------
\* The meaning of a program: its value or its error, and the versions of the
\* objects it wrote, one for each write.

NoClosures == <<>>

StartState(answer) ==
  [cells |-> <<>>, objs |-> <<>>, closures |-> NoClosures, classes |-> [x \in {} |-> Nil],
   globals |-> ("Object" :> <<"class", "Object">>) @@ ("Future" :> <<"fut", 0>>),
   live |-> {1}, nextHome |-> 2, versions |-> <<>>, answer |-> answer]

Plain(r) == IF r.ctl[1] = "err" THEN <<"error", r.ctl[2]>> ELSE <<"value", r.v>>

\* A script's variables are the names its top level assigns; a REPL's are
\* globals.
TopNames(mod, repl) ==
  IF repl THEN <<>> ELSE SetToSeq(UNION {AssignedHere(f) : f \in NamesOf(mod.kids)})

RunScript(mod, b) == EvalBody(mod.kids, b.env, b.st, NilVal)

RunTurn(r, turn) ==
  IF turn = "" \/ r.ctl[1] = "err" THEN r ELSE SendTo([r.st EXCEPT !.live = {}], r.v, turn, <<>>)

EndOf(r) == [end |-> Plain(r), versions |-> r.st.versions]

TopEnv == [vars |-> [x \in {} |-> 0], self |-> NilVal, home |-> 1, class |-> "", side |-> FALSE]

MeaningOf(mod, repl, turn, answer) ==
  IF ModuleRejected(mod, repl) THEN [end |-> <<"error", "compile">>, versions |-> <<>>]
  ELSE EndOf(RunTurn(RunScript(mod, Bind(StartState(answer), TopEnv, TopNames(mod, repl), <<>>)), turn))
=============================================================================
