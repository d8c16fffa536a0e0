-------------------------------- MODULE Ast --------------------------------
(***************************************************************************)
(* The abstract syntax the parser builds and the compiler reads: one       *)
(* uniform node (ast::Node), whose fields mean what its kind says.  Names, *)
(* selectors and literals are small strings and integers; float, string    *)
(* and character literals behave as the integer and symbol literals do and *)
(* are left out.  A StringLit only ever lists variable names here, so it   *)
(* carries them as the sequence its text splits into.                      *)
(***************************************************************************)
EXTENDS Naturals, Sequences

Node(kind, text, kids) ==
  [kind |-> kind, text |-> text, kids |-> kids,
   names |-> <<>>, int |-> 0, int2 |-> 0, flag |-> FALSE]

Num(i)      == [Node("IntegerLit", "", <<>>) EXCEPT !.int = i]
Symbol(s)   == Node("SymbolLit", s, <<>>)
Words(ws)   == [Node("StringLit", "", <<>>) EXCEPT !.names = ws]
True        == Node("TrueLit", "", <<>>)
False       == Node("FalseLit", "", <<>>)
Nil         == Node("NilLit", "", <<>>)
Self        == Node("Self", "", <<>>)
Super       == Node("Super", "", <<>>)
Id(x)       == Node("Identifier", x, <<>>)
Assign(x, e) == Node("Assignment", x, <<e>>)
Return(e)   == Node("Return", "", <<e>>)
DynArray(es) == Node("DynArrayLit", "", es)

\* A send's kids are the receiver and the arguments; a cascade's are the
\* receiver and messages that have only their arguments as kids.
Unary(r, sel)       == Node("UnarySend", sel, <<r>>)
Binary(r, sel, a)   == Node("BinarySend", sel, <<r, a>>)
Keyword(r, sel, as) == Node("KeywordSend", sel, <<r>> \o as)
Cascade(r, msgs)    == Node("Cascade", "", <<r>> \o msgs)

\* recv name(p1, .., k1 = v1, ..), the keys in sorted order.
CallSend(r, name, ps, keys, vs) ==
  [Node("CallSend", name, <<r>> \o ps \o vs) EXCEPT
     !.int = Len(ps), !.int2 = Len(keys), !.names = keys]

\* names: the arguments (int of them), then the temporaries.
Block(args, temps, body) ==
  [Node("Block", "", body) EXCEPT !.int = Len(args), !.names = args \o temps]

\* names: the selector, the arguments, the temporaries.
MethodDecl(class, side, sel, args, temps, body) ==
  [Node("MethodDecl", class, body) EXCEPT
     !.int = Len(args), !.names = <<sel>> \o args \o temps, !.flag = side]

\* kids: one default for each key, then the body.
CallMethodDecl(class, side, name, ps, keys, temps, defaults, body) ==
  [Node("CallMethodDecl", class, defaults \o body) EXCEPT
     !.int = Len(ps), !.int2 = Len(keys), !.flag = side,
     !.names = <<name>> \o ps \o keys \o temps]

\* names: the superclass, the instance variables (int of them), the class
\* variables; kids: the mixin expression, if there is one.
ClassDecl(class, super, ivs, cvs, mixins) ==
  [Node("ClassDecl", class, mixins) EXCEPT
     !.int = Len(ivs), !.names = <<super>> \o ivs \o cvs]

Module(forms) == Node("Module", "", forms)

NamesOf(seq) == {seq[i] : i \in DOMAIN seq}

\* The number of colons of a selector, read off its characters in the code.
Colons(sel) ==
  CASE sel \in {"new", "value", "size", "wait", "class", "m", "run", "get", "n"} -> 0
    [] sel \in {"to:do:", "ifTrue:ifFalse:", "ifFalse:ifTrue:", "__installMethod:as:",
                "__installClassMethod:as:", "subclass:uses:", "value:value:"} -> 2
    [] sel = "subclass:instanceVariableNames:uses:" -> 3
    [] OTHER -> 1

BinarySelectors == {"+", "-", "<", "<=", ">", ">=", "=", "=="}

\* Class names are capitalised, variables are not: what the compiler asks of
\* a name's first character.
IsLower(name) == name \notin {"Object", "A", "B", "M", "Future"}
=============================================================================
