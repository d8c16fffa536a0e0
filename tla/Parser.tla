------------------------------- MODULE Parser -------------------------------
(***************************************************************************)
(* The parser (src/frontend/Parser.cpp): a recursive descent over tokens.  *)
(* A token has its kind and text (val: the number of an Integer, the words *)
(* of a String), its line, and of its column only what the parser asks:    *)
(*   first  it is in column 1                                              *)
(*   glued  it touches the token before it                                 *)
(* and blank, a blank line before it.                                      *)
(* e is what the parser keeps while it descends: the tokens ts, stop       *)
(* (stopAtBlankLine_) and header (methodHeaderLine_).  r is where it       *)
(* stands: the current token at, the node n it has just made, and whether  *)
(* an error was reported (bad); the errors' wording is left out.  Literal  *)
(* arrays, thisContext and the clauses of a class declaration without a    *)
(* meaning (package:, category:, ...) are left out.                        *)
(***************************************************************************)
EXTENDS Ast, SequencesExt

NoNode == Node("none", "", <<>>)

\* The children that were parsed: a failed one is null and is not added.
Present(ns) == SelectSeq(ns, LAMBDA n : n # NoNode)

Ahead(e, r, k) == e.ts[IF r.at + k <= Len(e.ts) THEN r.at + k ELSE Len(e.ts)]

Current(e, r) == e.ts[r.at]

Is(e, r, kind) == Current(e, r).kind = kind

Advance(e, r) == [r EXCEPT !.at = IF @ < Len(e.ts) THEN @ + 1 ELSE @]

With(r, n) == [r EXCEPT !.n = n]

\* Reports an error if the condition holds.
ErrorIf(cond, r) == [r EXCEPT !.bad = @ \/ cond]

Consume(e, r, kind) == IF Is(e, r, kind) THEN Advance(e, r) ELSE ErrorIf(TRUE, r)

\* A blank line, or an unindented line below a method's header, ends a
\* statement that is complete.
AtBlankLineBoundary(e, r) ==
  /\ e.stop
  /\ \/ Current(e, r).blank
     \/ e.header > 0 /\ Current(e, r).first /\ Current(e, r).line > e.header

NestedKeeps(e) == e

\* Parentheses, blocks and braces may span such lines.
Nested(e) == [e EXCEPT !.stop = FALSE]

\* name( is a call only if the parenthesis touches the name.
CallParenFollows(e, r) == Ahead(e, r, 1).kind = "LParen" /\ Ahead(e, r, 1).glued

\* Name >> and Name class >> begin a method declaration.
AtDeclarationStart(e, r) ==
  /\ Is(e, r, "Identifier")
  /\ \/ Ahead(e, r, 1).kind = "GtGt"
     \/ /\ Ahead(e, r, 1).kind = "Identifier" /\ Ahead(e, r, 1).text = "class"
        /\ Ahead(e, r, 2).kind = "GtGt"

AtClassDeclaration(e, r) ==
  /\ Is(e, r, "Identifier")
  /\ Ahead(e, r, 1).kind = "Keyword" /\ Ahead(e, r, 1).text = "subclass:"

\* How many tokens of a kind follow each other from at.
RunOf(e, at, kind) ==
  CHOOSE k \in 0..Len(e.ts) : /\ \A i \in at..(at + k - 1) : e.ts[i].kind = kind
                              /\ e.ts[at + k].kind # kind

\* How many pairs of a token of the kind and a name follow each other.
PairsOf(e, at, kind) ==
  LET IsPair(i) == e.ts[i].kind = kind /\ e.ts[i + 1].kind = "Identifier"
  IN CHOOSE k \in 0..Len(e.ts) : (\A i \in 0..(k - 1) : IsPair(at + 2 * i)) /\ ~IsPair(at + 2 * k)

\* The pairs, their names added to the node; a token of the kind that no
\* name follows is passed and reported.
TakePairs(e, r, kind) ==
  LET k == PairsOf(e, r.at, kind)
      past == [r EXCEPT !.at = @ + 2 * k, !.n.int = k,
                        !.n.names = @ \o [i \in 1..k |-> e.ts[r.at + 2 * i - 1].text]]
  IN IF Is(e, past, kind) THEN ErrorIf(TRUE, Advance(e, past)) ELSE past

\* | a b |, if there is one here.
Temporaries(e, r) ==
  IF ~Is(e, r, "Pipe") THEN r
  ELSE LET k == RunOf(e, r.at + 1, "Identifier")
       IN Consume(e, [r EXCEPT !.at = @ + 1 + k, !.n.names = @ \o [i \in 1..k |-> e.ts[r.at + i].text]], "Pipe")

----------------------------------------------------------------------------
\* Expressions.  What contains itself goes through Parse, with the name of what
\* is expected.

SendKinds == {"UnarySend", "BinarySend", "KeywordSend", "CallSend"}
PseudoVariables == {"self", "super", "thisContext", "true", "false", "nil"}

RECURSIVE Parse(_, _, _)

\* The statements up to a bracket, separated by periods.
RECURSIVE ParseSequence(_, _, _, _)
ParseSequence(e, r, n, close) ==
  IF Current(e, r).kind \in {close, "EndOfFile"} THEN With(Consume(e, r, close), n)
  ELSE LET s == Parse(IF close = "RBrace" THEN "expression" ELSE "statement", e, r)
           longer == [n EXCEPT !.kids = @ \o Present(<<s.n>>)]
       IN IF Is(e, s, "Period") THEN ParseSequence(e, Advance(e, s), longer, close)
          ELSE With(Consume(e, s, close), longer)

BlockBody(e, r) == ParseSequence(e, r, r.n, "RBracket")

PastBlockArguments(e, r) == IF r.n.int > 0 THEN Consume(e, r, "Pipe") ELSE r

ParseBlock(e, r) ==
  BlockBody(e, Temporaries(e, PastBlockArguments(e, TakePairs(e, With(r, Node("Block", "", <<>>)), "Colon"))))

IsComma(e, r) == Is(e, r, "BinaryOp") /\ Current(e, r).text = ","
IsEquals(t) == t.kind = "BinaryOp" /\ t.text = "="

\* The arguments of a call: c.ps the positional ones, c.keys and c.vs the
\* named ones, in the order they are written.
RECURSIVE CallArguments(_, _, _)
CallArguments(e, r, c) ==
  LET key == Current(e, r).text
      isNamed == Is(e, r, "Identifier") /\ IsEquals(Ahead(e, r, 1))
      v == Parse("argument", e, IF isNamed THEN Advance(e, Advance(e, r)) ELSE r)
      more == IF isNamed THEN [c EXCEPT !.keys = Append(@, key), !.vs = Append(@, v.n)]
              ELSE [c EXCEPT !.ps = @ \o Present(<<v.n>>)]
      wrong == IF isNamed THEN key \in NamesOf(c.keys) ELSE c.keys # <<>>
  IN IF IsComma(e, v) THEN CallArguments(e, ErrorIf(wrong, Advance(e, v)), more)
     ELSE [at |-> ErrorIf(wrong, v), call |-> more]

NoArguments == [ps |-> <<>>, keys |-> <<>>, vs |-> <<>>]

\* The keys, in alphabetical order.
KeyOrder == <<"i", "j", "k">>
Rank(key) == CHOOSE i \in DOMAIN KeyOrder : KeyOrder[i] = key

\* The named ones are kept in the order of their keys.
SortedKeys(c) ==
  LET order == SortSeq([i \in DOMAIN c.keys |-> i], LAMBDA i, j : Rank(c.keys[i]) < Rank(c.keys[j]))
  IN [c EXCEPT !.keys = [i \in DOMAIN order |-> c.keys[order[i]]],
               !.vs = [i \in DOMAIN order |-> c.vs[order[i]]]]

\* A cascade cannot follow.
ClosesCall(e, r, n) == With(ErrorIf(Is(e, r, "Semicolon"), r), n)

CallOf(receiver, name, c) == CallSend(receiver, name, c.ps, c.keys, c.vs)

CallEnds(e, got, name, receiver) ==
  ClosesCall(e, Consume(e, got.at, "RParen"), CallOf(receiver, name, SortedKeys(got.call)))

ParseCallSend(e, r, name, receiver) ==
  CallEnds(e, IF Is(e, r, "RParen") THEN [at |-> r, call |-> NoArguments] ELSE CallArguments(e, r, NoArguments),
           name, receiver)

Literal(t) ==
  CASE t.kind = "Integer" -> Num(t.val)
    [] t.kind = "Symbol" -> Symbol(t.text)
    [] t.kind = "String" -> Words(t.val)
    [] t.kind = "True" -> True
    [] t.kind = "False" -> False
    [] OTHER -> Nil

Named(name) == IF name = "self" THEN Self ELSE IF name = "super" THEN Super ELSE Id(name)

ParsePrimary(e, r) ==
  LET t == Current(e, r)
      past == Advance(e, r)
  IN CASE t.kind \in {"Integer", "Symbol", "String", "True", "False", "Nil"} -> With(past, Literal(t))
       [] t.kind = "Identifier" ->
            IF t.text \notin {"self", "super"} /\ CallParenFollows(e, r)
            THEN ParseCallSend(Nested(e), Advance(e, past), t.text, Self)
            ELSE With(past, Named(t.text))
       [] t.kind = "LParen" -> Consume(e, Parse("expression", Nested(e), past), "RParen")
       [] t.kind = "LBracket" -> ParseBlock(Nested(e), past)
       [] t.kind = "LBrace" -> ParseSequence(Nested(e), past, Node("DynArrayLit", "", <<>>), "RBrace")
       [] OTHER -> ErrorIf(TRUE, With(past, NoNode))

RECURSIVE UnaryTail(_, _)
UnaryTail(e, r) ==
  IF r.n = NoNode \/ ~Is(e, r, "Identifier") \/ AtBlankLineBoundary(e, r) \/ AtDeclarationStart(e, r) THEN r
  ELSE UnaryTail(e, IF CallParenFollows(e, r)
                    THEN ParseCallSend(Nested(e), Advance(e, Advance(e, r)), Current(e, r).text, r.n)
                    ELSE With(Advance(e, r), Unary(r.n, Current(e, r).text)))

ParseUnarySend(e, r) == UnaryTail(e, ParsePrimary(e, r))

BinaryOf(left, op, right) == With(right, Node("BinarySend", op, Present(<<left, right.n>>)))

\* stops: the operators that end it, as the separators of a call's arguments
\* do.
RECURSIVE BinaryTail(_, _, _)
BinaryTail(e, r, stops) ==
  IF \/ r.n = NoNode \/ ~(Current(e, r).kind \in {"BinaryOp", "Pipe"})
     \/ AtBlankLineBoundary(e, r) \/ Current(e, r).text \in stops
  THEN r
  ELSE BinaryTail(e, BinaryOf(r.n, Current(e, r).text, Parse("operand", e, Advance(e, r))), stops)

ParseCallArgExpr(e, r) == BinaryTail(e, Parse("operand", e, r), {",", "="})

ParseBinarySend(e, r) == BinaryTail(e, Parse("operand", e, r), {})

\* The keywords and arguments of the message n; a cascade's does not look
\* for the end of a statement.
RECURSIVE KeywordParts(_, _, _, _)
KeywordParts(e, r, n, inCascade) ==
  IF ~Is(e, r, "Keyword") \/ (~inCascade /\ AtBlankLineBoundary(e, r)) THEN With(r, n)
  ELSE LET arg == Parse("binary", e, Advance(e, r))
       IN KeywordParts(e, arg, [n EXCEPT !.text = @ \o Current(e, r).text, !.kids = @ \o Present(<<arg.n>>)], inCascade)

KeywordTail(e, r) ==
  IF r.n # NoNode /\ Is(e, r, "Keyword") /\ ~AtBlankLineBoundary(e, r)
  THEN KeywordParts(e, r, Node("KeywordSend", "", <<r.n>>), FALSE) ELSE r

ParseKeywordSend(e, r) == KeywordTail(e, Parse("binary", e, r))

\* Unary messages of a cascade, each sent to the one before it.
RECURSIVE CascadeChain(_, _)
CascadeChain(e, r) ==
  IF Is(e, r, "Identifier") /\ ~AtBlankLineBoundary(e, r)
  THEN CascadeChain(e, With(Advance(e, r), Unary(r.n, Current(e, r).text))) ELSE r

\* One message after a semicolon.
CascadeMessage(e, r) ==
  LET t == Current(e, r)
  IN CASE t.kind = "Identifier" -> CascadeChain(e, With(Advance(e, r), Node("UnarySend", t.text, <<>>)))
       [] t.kind \in {"BinaryOp", "Pipe"} ->
            LET right == Parse("operand", e, Advance(e, r))
            IN With(right, Node("BinarySend", t.text, Present(<<right.n>>)))
       [] t.kind = "Keyword" -> KeywordParts(e, r, Node("KeywordSend", "", <<>>), TRUE)
       [] OTHER -> ErrorIf(TRUE, With(r, NoNode))

RECURSIVE CascadeTail(_, _, _)
CascadeTail(e, r, n) ==
  IF AtBlankLineBoundary(e, r) \/ ~Is(e, r, "Semicolon") THEN With(r, n)
  ELSE LET m == CascadeMessage(e, Advance(e, r))
       IN IF m.n = NoNode THEN With(m, n) ELSE CascadeTail(e, m, [n EXCEPT !.kids = Append(@, m.n)])

\* A cascade takes the receiver out of its first message.
CascadeFrom(e, r) ==
  IF ~Is(e, r, "Semicolon") \/ AtBlankLineBoundary(e, r) \/ r.n.kind \notin SendKinds THEN r
  ELSE CascadeTail(e, r, Node("Cascade", "", <<r.n.kids[1], [r.n EXCEPT !.kids = Tail(@)]>>))

AssignmentOf(name, v) == ErrorIf(name \in PseudoVariables, With(v, Node("Assignment", name, Present(<<v.n>>))))

ParseExpression(e, r) ==
  IF Is(e, r, "Identifier") /\ Ahead(e, r, 1).kind = "Assign"
  THEN AssignmentOf(Current(e, r).text, Parse("expression", e, Advance(e, Advance(e, r))))
  ELSE CascadeFrom(e, ParseKeywordSend(e, r))

ReturnOf(v) == With(v, Node("Return", "", Present(<<v.n>>)))

ParseStatement(e, r) ==
  IF Is(e, r, "Caret") THEN ReturnOf(Parse("expression", e, Advance(e, r))) ELSE Parse("expression", e, r)

Parse(what, e, r) ==
  CASE what = "operand" -> ParseUnarySend(e, r)
    [] what = "binary" -> ParseBinarySend(e, r)
    [] what = "argument" -> ParseCallArgExpr(e, r)
    [] what = "expression" -> ParseExpression(e, r)
    [] OTHER -> ParseStatement(e, r)

----------------------------------------------------------------------------
\* Declarations and the module.

\* The statements of the method n, whose header is on e.header.
RECURSIVE MethodBody(_, _, _)

\* After a statement: on the line of a ^ the next form begins.
BodyGoesOn(e, s, n) ==
  IF ~Is(e, s, "Period") THEN With(s, n)
  ELSE IF s.n.kind = "Return" /\ Ahead(e, s, 1).line = Current(e, s).line THEN With(Advance(e, s), n)
  ELSE MethodBody(e, Advance(e, s), n)

AddStatement(e, s, n) == BodyGoesOn(e, s, [n EXCEPT !.kids = @ \o Present(<<s.n>>)])

\* An indented statement after a blank line would run outside the method.
CheckBlankLineContinuation(e, r) == ErrorIf(~Current(e, r).first, r)

MethodBody(e, r, n) ==
  LET t == Current(e, r)
  IN IF t.kind = "EndOfFile" THEN With(r, n)
     ELSE IF t.blank THEN With(CheckBlankLineContinuation(e, r), n)
     ELSE IF t.first /\ t.line > e.header /\ n.kids # <<>> THEN ErrorIf(t.kind = "Caret", With(r, n))
     ELSE IF AtDeclarationStart(e, r) \/ AtClassDeclaration(e, r) THEN With(r, n)
     ELSE AddStatement(e, Parse("statement", e, r), n)

BodyOf(e, r, line) == MethodBody([e EXCEPT !.header = line], r, r.n)

\* The parameters of a call-form method, a default for each named one: p is
\* where the parameter ends.
RECURSIVE CallParameters(_, _, _)

AddParameter(e, p, name, isNamed, c) ==
  LET more == IF isNamed THEN [c EXCEPT !.keys = Append(@, name), !.vs = Append(@, p.n)]
              ELSE [c EXCEPT !.ps = Append(@, name)]
      wrong == IF isNamed THEN name \in NamesOf(c.keys) ELSE c.keys # <<>> \/ name \in NamesOf(c.ps)
  IN IF IsComma(e, p) THEN CallParameters(e, ErrorIf(wrong, Advance(e, p)), more)
     ELSE [at |-> ErrorIf(wrong, p), call |-> more]

CallParameters(e, r, c) ==
  LET isNamed == IsEquals(Ahead(e, r, 1))
  IN IF ~Is(e, r, "Identifier") THEN [at |-> ErrorIf(TRUE, r), call |-> c]
     ELSE AddParameter(e, IF isNamed THEN Parse("argument", e, Advance(e, Advance(e, r))) ELSE Advance(e, r),
                       Current(e, r).text, isNamed, c)

CallDeclOf(class, side, name, c) == CallMethodDecl(class, side, name, c.ps, c.keys, <<>>, c.vs, <<>>)

CallHeaderEnds(e, got, class, side, name) ==
  With(Consume(e, got.at, "RParen"), CallDeclOf(class, side, name, SortedKeys(got.call)))

ParseCallMethodDecl(e, r, class, side, name) ==
  CallHeaderEnds(e, IF Is(e, r, "RParen") THEN [at |-> r, call |-> NoArguments] ELSE CallParameters(e, r, NoArguments),
                 class, side, name)

JoinedKeywords(e, at, k) == FoldLeft(LAMBDA acc, i : acc \o e.ts[at + 2 * i - 2].text, "", [i \in 1..k |-> i])

\* The selector pattern: its argument names are added to the node.
ParsePattern(e, r) ==
  LET t == Current(e, r)
      one == Advance(e, r)
      Selector(x, sel) == [x EXCEPT !.n.names = <<sel>> \o @]
  IN CASE t.kind = "Identifier" -> Selector(one, t.text)
       [] t.kind \in {"BinaryOp", "Pipe"} ->
            Selector(IF Is(e, one, "Identifier")
                     THEN [Advance(e, one) EXCEPT !.n.names = <<Current(e, one).text>>, !.n.int = 1]
                     ELSE ErrorIf(TRUE, one), t.text)
       [] t.kind = "Keyword" -> Selector(TakePairs(e, r, "Keyword"), JoinedKeywords(e, r.at, PairsOf(e, r.at, "Keyword")))
       [] OTHER -> ErrorIf(TRUE, Selector(r, ""))

\* The header, the temporaries, the body.
ParseMethodDecl(e, r, class, side, line) ==
  BodyOf(e, Temporaries(e,
    IF Is(e, r, "Identifier") /\ CallParenFollows(e, r)
    THEN ParseCallMethodDecl(e, Advance(e, Advance(e, r)), class, side, Current(e, r).text)
    ELSE ParsePattern(e, With(r, [Node("MethodDecl", class, <<>>) EXCEPT !.flag = side]))), line)

RECURSIVE Synchronize(_, _)
Synchronize(e, r) ==
  IF Is(e, r, "EndOfFile") THEN r ELSE IF Is(e, r, "Period") THEN Advance(e, r) ELSE Synchronize(e, Advance(e, r))

\* The clauses of a class declaration, in any order; d: the variables so far
\* and the mixin expression.
RECURSIVE ClassClauses(_, _, _)

AddMixins(e, m, d) == ClassClauses(e, ErrorIf(m.n = NoNode, m), [d EXCEPT !.mixins = @ \o Present(<<m.n>>)])

ClassClauses(e, r, d) ==
  LET clause == Current(e, r).text
      past == Advance(e, r)
      words == IF Is(e, past, "String") THEN Current(e, past).val ELSE <<>>
      named == Consume(e, past, "String")
  IN IF ~Is(e, r, "Keyword") THEN [at |-> r, decl |-> d]
     ELSE CASE clause = "instanceVariableNames:" -> ClassClauses(e, named, [d EXCEPT !.ivs = @ \o words])
            [] clause = "classVariableNames:" -> ClassClauses(e, named, [d EXCEPT !.cvs = @ \o words])
            [] clause = "uses:" -> AddMixins(e, Parse("binary", e, past), d)
            [] OTHER -> [at |-> ErrorIf(TRUE, r), decl |-> d]

\* A period after it may be left out.
ClassEnds(e, got, class, super) ==
  With(IF Is(e, got.at, "Period") THEN Advance(e, got.at) ELSE got.at,
       ClassDecl(class, super, got.decl.ivs, got.decl.cvs, got.decl.mixins))

NoClauses == [ivs |-> <<>>, cvs |-> <<>>, mixins |-> <<>>]

ParseClassDecl(e, r, super) ==
  IF Is(e, r, "Symbol") THEN ClassEnds(e, ClassClauses(e, Advance(e, r), NoClauses), Current(e, r).text, super)
  ELSE ErrorIf(TRUE, With(Synchronize(e, r), ClassDecl("", super, <<>>, <<>>, <<>>)))

StatementEnds(e, s) == IF Is(e, s, "Period") THEN Advance(e, s) ELSE ErrorIf(~Is(e, s, "EndOfFile"), s)

ParseTopForm(e, r) ==
  LET class == Current(e, r).text
      isSide == Ahead(e, r, 1).kind # "GtGt"
  IN IF AtDeclarationStart(e, r)
     THEN ParseMethodDecl(e, [r EXCEPT !.at = @ + (IF isSide THEN 3 ELSE 2)], class, isSide, Current(e, r).line)
     ELSE IF AtClassDeclaration(e, r) THEN ParseClassDecl(e, Advance(e, Advance(e, r)), class)
     ELSE StatementEnds(e, Parse("statement", e, r))

RECURSIVE TopForms(_, _, _)

\* | a b | at top level binds each name to nil.
ParseTopTemporaries(e, t, forms) ==
  TopForms(e, t, forms \o [i \in DOMAIN t.n.names |-> Assign(t.n.names[i], Nil)])

AddTopForm(e, f, forms) ==
  IF f.n = NoNode THEN TopForms(e, Synchronize(e, f), forms) ELSE TopForms(e, f, Append(forms, f.n))

TopForms(e, r, forms) ==
  IF Is(e, r, "EndOfFile") THEN [mod |-> Module(forms), bad |-> r.bad]
  ELSE IF Is(e, r, "Pipe") THEN ParseTopTemporaries(e, Temporaries(e, With(r, NoNode)), forms)
  ELSE AddTopForm(e, ParseTopForm(e, r), forms)

ParseModule(ts) ==
  TopForms([ts |-> ts, stop |-> TRUE, header |-> 0], [at |-> 1, n |-> NoNode, bad |-> FALSE], <<>>)
=============================================================================
