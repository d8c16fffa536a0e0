----------------------------- MODULE MCProgram -----------------------------
(***************************************************************************)
(* The programs the run compiles and runs: every pair of statements of a   *)
(* family in every place a variable can live, every run of three writes to *)
(* an object, and one program for each remaining rule of the language.     *)
(***************************************************************************)
EXTENDS Program

X == Id("x")
Do(stmts) == Block(<<>>, <<>>, stmts)
Plus(a, b) == Binary(a, "+", b)
Less(a, b) == Binary(a, "<", b)
Value(b) == Unary(b, "value")
If(c, yes) == Keyword(c, "ifTrue:", <<yes>>)
ToDo(from, to, b) == Keyword(Num(from), "to:do:", <<Num(to), b>>)
SetX(e) == Assign("x", e)
SetB(e) == Assign("b", e)

\* Statements about a variable x and a block b.
Closures == <<
  SetX(Plus(X, Num(1))),
  SetB(Do(<<X>>)),
  SetB(Do(<<SetX(Plus(X, Num(1)))>>)),
  Assign("y", Value(Id("b"))),
  ToDo(1, 2, Block(<<"i">>, <<>>, <<SetX(Plus(X, Id("i")))>>)),
  ToDo(1, 2, Block(<<"i">>, <<>>, <<SetB(Do(<<Plus(Id("i"), X)>>))>>)),
  Keyword(Do(<<Less(X, Num(3))>>), "whileTrue:", <<Do(<<SetB(Do(<<X>>)), SetX(Plus(X, Num(1)))>>)>>),
  Keyword(Less(X, Num(2)), "ifTrue:ifFalse:", <<Do(<<SetX(Num(3))>>), Do(<<SetB(Do(<<X>>))>>)>>),
  Assign("y", Keyword(Less(Num(2), X), "ifFalse:", <<Id("b")>>)),
  Assign("y", Value(Block(<<>>, <<"t">>, <<Assign("t", X), SetB(Do(<<Assign("t", Plus(Id("t"), Num(1)))>>)),
                                           Value(Id("b")), Plus(Id("t"), X)>>))),
  SetB(Keyword(Block(<<"k">>, <<>>, <<Do(<<SetX(Plus(X, Id("k")))>>)>>), "value:", <<X>>)),
  Value(Do(<<If(Less(Num(2), X), Do(<<Return(X)>>))>>))
>>

Summary == DynArray(<<X, Id("y"), Value(Id("b"))>>)
StartB == <<Assign("y", Num(0)), SetB(Do(<<Num(0)>>))>>

Layouts == Written!Layouts
Script(forms) == [mod |-> Module(forms), repl |-> FALSE, turn |-> "", layouts |-> Layouts]
Line(forms) == [Script(forms) EXCEPT !.repl = TRUE]
Turn(forms) == [Script(forms) EXCEPT !.turn = "m"]

\* The programs of a family are written in one layout each, in turn.
InTurn(ps) == [n \in DOMAIN ps |-> [ps[n] EXCEPT !.layouts = {<<"plain", "airy", "dense">>[1 + (n % 3)]}]]

New(k) == Unary(Id(k), "new")
Class(ivs, cvs) == ClassDecl("A", "Object", ivs, cvs, <<>>)
Method(sel, args, temps, body) == MethodDecl("A", FALSE, sel, args, temps, body)

\* The places x can live: a script's variable, a global of the REPL, a
\* block's temporary, a method's temporary, an instance variable, a class
\* variable.
InPlace(place, ss) ==
  LET all == <<SetX(Num(1))>> \o StartB \o ss
  IN CASE place = "script" -> Script(all \o <<Summary>>)
       [] place = "repl" -> Line(all \o <<Summary>>)
       [] place = "block" -> Script(<<Value(Block(<<>>, <<"x", "y", "b">>, all \o <<Summary>>))>>)
       [] place = "temp" -> Script(<<Class(<<>>, <<>>), Method("m", <<>>, <<"x", "y", "b">>, all \o <<Return(Summary)>>),
                                    Unary(New("A"), "m")>>)
       [] place = "iv" -> Script(<<Class(<<"x">>, <<>>), Method("m", <<>>, <<"y", "b">>, all \o <<Return(Summary)>>),
                                  Unary(New("A"), "m")>>)
       [] OTHER -> Script(<<Class(<<>>, <<"x">>), Method("m", <<>>, <<"y", "b">>, all \o <<Return(Summary)>>),
                           Unary(New("A"), "m")>>)

Places == <<"script", "repl", "block", "temp", "iv", "cv">>

\* The d-th digit of n, in base b.
Digit(n, b, d) == 1 + ((n \div (b ^ d)) % b)

ClosurePrograms ==
  InTurn([n \in 1..(Len(Places) * Len(Closures) ^ 2) |->
            InPlace(Places[(n - 1) \div Len(Closures) ^ 2 + 1],
                    [d \in 1..2 |-> Closures[Digit(n - 1, Len(Closures), d - 1)]])])

\* Writes of an object: u and v instance variables, w a class variable, t a
\* temporary, k an object whose + looks at the writer.
Group == <<
  Assign("u", Num(1)),
  Assign("v", Plus(Id("t"), Num(3))),
  Assign("u", Plus(Id("v"), Num(1))),
  Assign("v", Plus(Id("k"), Num(1))),
  Assign("u", Unary(Id("Future"), "wait")),
  Assign("w", Num(3))
>>

GroupClasses(body) == <<
  ClassDecl("A", "Object", <<"u", "v">>, <<"w">>, <<>>),
  ClassDecl("B", "Object", <<"h">>, <<>>, <<>>),
  MethodDecl("B", FALSE, "on:", <<"a">>, <<>>, <<Assign("h", Id("a"))>>),
  MethodDecl("B", FALSE, "+", <<"a">>, <<>>, <<Return(Unary(Id("h"), "get"))>>),
  MethodDecl("A", FALSE, "get", <<>>, <<>>, <<Return(Id("u"))>>),
  MethodDecl("A", FALSE, "m", <<>>, <<"t", "k">>,
             <<Assign("t", Num(1)), Assign("k", Keyword(New("B"), "on:", <<Self>>))>>
             \o body \o <<Return(DynArray(<<Id("u"), Id("v"), Id("w")>>))>>),
  New("A")>>

GroupPrograms ==
  InTurn([n \in 1..(Len(Group) ^ 3) |->
            Turn(GroupClasses([d \in 1..3 |-> Group[Digit(n - 1, Len(Group), d - 1)]]))])

\* One program for each rule: classes, super, mixins, class side, call form,
\* cascades, loops over collections, returns through native calls, names.
Ret(e) == <<Return(e)>>
Get == MethodDecl("A", FALSE, "get", <<>>, <<>>, Ret(Id("u")))
Inits(class, sel, n) == MethodDecl(class, FALSE, sel, <<>>, <<>>, Ret(Num(n)))
Sub(ivs, cvs) == ClassDecl("B", "A", ivs, cvs, <<>>)
Mixed(ivs) == ClassDecl("B", "A", ivs, <<>>, <<DynArray(<<Id("M")>>)>>)
M == ClassDecl("M", "Object", <<"q">>, <<>>, <<>>)
Of(class, sel, body) == MethodDecl(class, FALSE, sel, <<>>, <<>>, body)
Side(class, sel, body) == MethodDecl(class, TRUE, sel, <<>>, <<>>, body)
SuperM == Unary(Super, "m")
Call(class, ps, keys, defaults, body) == CallMethodDecl(class, FALSE, "f", ps, keys, <<>>, defaults, body)
Calls(keys, vs) == CallSend(New("A"), "f", <<Num(1)>>, keys, vs)
Sum(a, b, c) == Plus(Plus(Id(a), Id(b)), Id(c))

Classes == <<
  \* super from an overriding method, from a block in it, and in a cascade
  <<Class(<<>>, <<>>), Inits("A", "m", 1), Sub(<<>>, <<>>), Of("B", "m", Ret(Plus(SuperM, Num(1)))), Unary(New("B"), "m")>>,
  <<Class(<<>>, <<>>), Inits("A", "m", 1), Sub(<<>>, <<>>), Of("B", "m", Ret(Value(Do(<<Plus(SuperM, Num(1))>>)))), Unary(New("B"), "m")>>,
  <<Class(<<>>, <<>>), Inits("A", "m", 1), Inits("A", "n", 2), Sub(<<>>, <<>>),
    Of("B", "n", Ret(Cascade(Super, <<Node("UnarySend", "m", <<>>), Node("UnarySend", "n", <<>>)>>))), Unary(New("B"), "n")>>,
  <<Class(<<>>, <<>>), MethodDecl("A", FALSE, "+", <<"a">>, <<>>, Ret(Id("a"))), Sub(<<>>, <<>>),
    MethodDecl("B", FALSE, "+", <<"a">>, <<>>, Ret(Binary(Super, "+", Plus(Id("a"), Num(1))))), Plus(New("B"), Num(1))>>,
  <<SuperM>>,
  \* super in a mixin's method: above the mixin, not above the user's class
  <<Class(<<>>, <<>>), Inits("A", "m", 1), M, Of("M", "run", Ret(SuperM)), Mixed(<<>>), Unary(New("B"), "run")>>,
  \* the superclass before the mixin
  <<Class(<<>>, <<>>), Inits("A", "m", 1), M, Inits("M", "m", 2), Inits("M", "n", 3), Mixed(<<"v">>),
    Plus(Unary(New("B"), "m"), Unary(New("B"), "n"))>>,
  <<Class(<<>>, <<>>), M, Of("M", "m", <<Assign("q", Num(2)), Assign("q", Plus(Id("q"), Num(1))), Return(Id("q"))>>), Mixed(<<>>),
    Of("B", "run", <<Unary(Self, "m"), Return(Id("q"))>>), Unary(New("B"), "run")>>,
  \* class variables: shared with subclasses, seen in blocks
  <<Class(<<>>, <<"w">>), Of("A", "m", <<Assign("w", Num(1)), Value(Do(<<Assign("w", Plus(Id("w"), Num(1)))>>))>>),
    Sub(<<>>, <<>>), Of("B", "run", <<Assign("w", Num(5)), Unary(Self, "m"), Return(Id("w"))>>),
    Unary(New("B"), "run"), Of("A", "get", Ret(Id("w"))), Unary(New("A"), "get")>>,
  \* class side: a method, and class-side instance variables, one for each class
  <<Class(<<"u">>, <<>>), MethodDecl("A", FALSE, "on:", <<"a">>, <<>>, <<Assign("u", Id("a"))>>), Get,
    Side("A", "run", Ret(Keyword(Unary(Self, "new"), "on:", <<Num(4)>>))), Unary(Unary(Id("A"), "run"), "get")>>,
  <<Class(<<>>, <<>>), Side("A", "run", Ret(Num(1))), Unary(New("A"), "run")>>,
  <<Class(<<>>, <<>>), Side("A", "run", Ret(Num(1))), Sub(<<>>, <<>>), Side("B", "run", Ret(Plus(Unary(Super, "run"), Num(1)))),
    Unary(Id("B"), "run")>>,
  \* call form: keys in any subset, defaults that use what comes before
  <<Class(<<>>, <<>>), Call("A", <<"p">>, <<"j", "k">>, <<Num(2), Plus(Id("p"), Num(2))>>, Ret(Sum("p", "j", "k"))),
    DynArray(<<Calls(<<>>, <<>>), Calls(<<"k">>, <<Num(5)>>), Calls(<<"j">>, <<Num(5)>>), Calls(<<"j", "k">>, <<Num(0), Num(0)>>)>>)>>,
  <<Class(<<>>, <<>>), Call("A", <<"p">>, <<"j">>, <<Num(2)>>, Ret(Id("j"))), Calls(<<"i">>, <<Num(5)>>)>>,
  <<Class(<<>>, <<>>), Call("A", <<>>, <<"j">>, <<Num(2)>>, Ret(Id("j"))), Calls(<<>>, <<>>)>>,
  <<Class(<<>>, <<>>), Call("A", <<"p">>, <<>>, <<>>, Ret(Value(Do(<<Id("p")>>)))), Calls(<<>>, <<>>)>>,
  <<Class(<<>>, <<>>), Calls(<<>>, <<>>)>>,
  <<Class(<<>>, <<>>), Call("A", <<"p">>, <<"j">>, <<Num(2)>>, Ret(Id("j"))), Calls(<<"j">>, <<Binary(Num(1), "=", Num(2))>>)>>,
  <<Class(<<>>, <<>>), Call("A", <<"p">>, <<>>, <<>>, Ret(Id("p"))), Of("A", "m", Ret(CallSend(Self, "f", <<Num(3)>>, <<>>, <<>>))),
    Plus(Unary(New("A"), "m"), Num(1))>>,
  \* doesNotUnderstand:
  <<Class(<<>>, <<>>), MethodDecl("A", FALSE, "doesNotUnderstand:", <<"a">>, <<>>, Ret(Num(5))), Plus(Unary(New("A"), "m"), Calls(<<>>, <<>>))>>,
  <<Class(<<>>, <<>>), If(New("A"), Do(<<Num(1)>>))>>,
  <<If(Num(1), Do(<<Num(1)>>))>>,
  \* the wrong number of arguments
  <<Value(Block(<<"a">>, <<>>, <<Num(1)>>))>>,
  <<Class(<<>>, <<>>), Call("A", <<"p">>, <<>>, <<>>, Ret(Id("p"))), Unary(New("A"), "f")>>
>>

Loops == <<
  \* the conditions and bodies are not literal blocks
  <<SetX(Num(1)), SetB(Do(<<Less(X, Num(4))>>)), Keyword(Id("b"), "whileTrue:", <<Do(<<SetX(Plus(X, Num(1)))>>)>>), X>>,
  <<SetX(Num(1)), SetB(Do(<<Binary(X, ">=", Num(4))>>)), Keyword(Id("b"), "whileFalse:", <<Do(<<SetX(Plus(X, Num(1)))>>)>>), X>>,
  <<SetX(Num(0)), SetB(Block(<<"i">>, <<>>, <<SetX(Plus(X, Id("i")))>>)), Plus(ToDo(2, 4, Id("b")), X)>>,
  <<SetX(Num(0)), SetB(Do(<<Num(2)>>)), Keyword(Less(X, Num(1)), "ifTrue:ifFalse:", <<Id("b"), Id("x")>>)>>,
  <<SetX(Num(0)), SetB(Do(<<Num(2)>>)), Keyword(Less(X, Num(1)), "ifFalse:ifTrue:", <<Id("x"), Id("b")>>)>>,
  <<SetX(Num(0)), SetB(Do(<<Num(2)>>)), Keyword(Less(Num(1), X), "ifTrue:", <<Id("b")>>)>>,
  <<SetX(Num(0)), Keyword(Less(X, Num(1)), "ifTrue:", <<X>>)>>,
  \* nested loops, a loop in a loop's limit, an empty loop
  <<SetX(Num(0)), ToDo(1, 2, Block(<<"i">>, <<>>, <<ToDo(1, 2, Block(<<"i">>, <<>>, <<SetX(Plus(X, Id("i")))>>)), SetX(Plus(X, Id("i")))>>)), X>>,
  <<SetX(Num(0)), ToDo(2, 1, Block(<<"i">>, <<>>, <<SetX(Num(9))>>)), X>>,
  <<SetX(Num(0)), Keyword(Num(1), "to:do:", <<True, Block(<<"i">>, <<>>, <<>>)>>)>>,
  <<SetX(Num(0)), Keyword(Do(<<Less(Num(3), X)>>), "whileFalse:", <<Do(<<SetX(Plus(X, Num(2)))>>)>>), X>>,
  \* a collection, and one whose block returns
  <<SetX(Num(0)), Keyword(DynArray(<<Num(1), Num(2)>>), "doYielding:", <<Block(<<"i">>, <<>>, <<SetX(Plus(X, Id("i")))>>)>>), X>>,
  <<SetX(Num(0)), Keyword(DynArray(<<Num(1), Num(2)>>), "doYielding:", <<Block(<<"i">>, <<>>, <<Return(Id("i"))>>)>>), X>>,
  <<Keyword(DynArray(<<Num(3)>>), "at:", <<Num(2)>>)>>,
  <<SetB(Block(<<"i">>, <<>>, <<Num(1)>>)), DynArray(<<ToDo(3, 2, Id("b")), Binary(Num(1), "=", Nil)>>), Keyword(Num(1), "to:do:", <<Nil, Id("b")>>)>>,
  <<SetB(Do(<<Num(1)>>)), ToDo(1, 2, Id("b"))>>,
  <<SetB(Do(<<Less(Num(1), Num(2))>>)), Keyword(Id("b"), "whileTrue:", <<Num(1)>>)>>,
  \* cascades
  <<Class(<<"u">>, <<>>), MethodDecl("A", FALSE, "on:", <<"a">>, <<>>, <<Assign("u", Plus(Id("a"), Num(1)))>>), Get,
    Cascade(New("A"), <<Node("KeywordSend", "on:", <<Num(1)>>), Node("UnarySend", "get", <<>>)>>)>>,
  <<SetX(Num(1)), Cascade(Plus(X, Num(1)), <<Node("BinarySend", "+", <<Num(4)>>), Node("BinarySend", "=", <<Num(2)>>)>>)>>
>>

Returns == <<
  \* through a block, a native loop, a native conditional, and to a method that has ended
  <<Class(<<>>, <<>>), Of("A", "m", <<Value(Do(<<Return(Num(1))>>)), Return(Num(2))>>), Unary(New("A"), "m")>>,
  <<Class(<<>>, <<>>), MethodDecl("A", FALSE, "m", <<>>, <<"b">>,
      <<SetB(Block(<<"i">>, <<>>, <<If(Less(Num(1), Id("i")), Do(<<Return(Id("i"))>>))>>)), ToDo(1, 3, Id("b")), Return(Num(9))>>),
    Plus(Unary(New("A"), "m"), Num(1))>>,
  <<Class(<<>>, <<>>), Of("A", "m", Ret(Do(<<Return(Num(1))>>))), Value(Unary(New("A"), "m"))>>,
  <<Class(<<>>, <<>>), MethodDecl("A", FALSE, "m", <<>>, <<"b">>, <<SetB(Do(<<Value(Do(<<Return(Num(3))>>))>>)),
      Keyword(True, "ifTrue:", <<Id("b")>>), Return(Num(9))>>), Unary(New("A"), "m")>>,
  <<Class(<<>>, <<>>), MethodDecl("A", FALSE, "on:", <<"b">>, <<>>, <<Keyword(True, "ifTrue:", <<Id("b")>>), Return(Num(8))>>),
    Of("A", "m", <<Keyword(Self, "on:", <<Do(<<Return(Num(1))>>)>>), Return(Num(2))>>), Unary(New("A"), "m")>>,
  <<Class(<<>>, <<>>), Of("A", "m", <<>>), Binary(New("A"), "==", Unary(New("A"), "m"))>>,
  <<SetX(Num(1)), Value(Do(<<Return(X)>>)), Num(2)>>,
  \* assignments are expressions
  <<SetX(Nil), Assign("y", SetX(Num(2))), DynArray(<<X, Plus(SetX(Num(1)), Id("y")), Binary(X, "-", Binary(Num(1), "-", X))>>)>>
>>

\* Programs the compiler refuses, and their neighbours it takes.
Names == <<
  <<Class(<<>>, <<>>), MethodDecl("A", FALSE, "on:", <<"a">>, <<>>, <<Assign("a", Num(1))>>)>>,
  <<Class(<<>>, <<>>), MethodDecl("A", FALSE, "on:", <<"a">>, <<>>, <<Do(<<Assign("a", Num(1))>>)>>)>>,
  <<Class(<<>>, <<>>), Of("A", "m", <<Assign("z", Num(1))>>)>>,
  <<Class(<<>>, <<>>), Of("A", "m", <<Do(<<Assign("z", Num(1))>>)>>)>>,
  <<Class(<<>>, <<>>), Of("A", "m", Ret(Id("z")))>>,
  <<Class(<<"u">>, <<>>), MethodDecl("A", FALSE, "m", <<>>, <<"u">>, <<>>)>>,
  <<Class(<<"u">>, <<>>), Of("A", "m", Ret(Keyword(Block(<<"u">>, <<>>, <<Do(<<Id("u")>>)>>), "value:", <<Num(1)>>))),
    Value(Unary(New("A"), "m"))>>,
  <<Value(Block(<<>>, <<"x", "x">>, <<X>>))>>,
  <<ToDo(1, 2, Block(<<"i">>, <<>>, <<Assign("i", Num(1))>>))>>,
  <<Id("y")>>
>>

\* Waits below a native loop, in an actor's turn and in the script.
Waits(body) ==
  <<Class(<<"u", "v">>, <<>>), MethodDecl("A", FALSE, "m", <<>>, <<"b">>,
     <<SetB(Block(<<"i">>, <<>>, <<Assign("u", Unary(Id("Future"), "wait")), Assign("v", Id("i"))>>))>> \o body), New("A")>>

Turns == <<
  Turn(Waits(<<ToDo(1, 2, Id("b")), Return(Plus(Id("u"), Id("v")))>>)),
  Turn(Waits(<<Keyword(Id("b"), "value:", <<Num(2)>>), Return(Plus(Id("u"), Id("v")))>>)),
  Script(<<SetX(Plus(Unary(Id("Future"), "wait"), Num(1))), X>>)
>>

\* A body's first statement need not be indented; Classes has call-form methods
\* with named parameters, of which that is not true.
Ruled(rules, layouts) == [n \in DOMAIN rules |-> [Script(rules[n]) EXCEPT !.layouts = layouts]]
Others == Ruled(Classes, Layouts) \o Ruled(Loops \o Returns \o Names, Layouts \cup {"flush"})

MCPrograms == Others \o Turns \o GroupPrograms \o ClosurePrograms

\* Programs the guides describe and the engine runs otherwise.
Contested == <<
  \* a default that a block reads
  <<Class(<<>>, <<>>), Call("A", <<"p">>, <<"k">>, <<Num(2)>>, Ret(Value(Do(<<Id("k")>>)))), Calls(<<>>, <<>>)>>,
  \* a mixin's class variable
  <<Class(<<>>, <<>>), ClassDecl("M", "Object", <<>>, <<"w">>, <<>>), Of("M", "m", <<Assign("w", Num(1))>>), Mixed(<<>>),
    Of("M", "get", Ret(Id("w"))), Unary(New("B"), "m"), Unary(New("B"), "get")>>
>>

ContestedPrograms == [n \in DOMAIN Contested |-> Script(Contested[n])]
=============================================================================
