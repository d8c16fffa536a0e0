------------------------------- MODULE Source -------------------------------
(***************************************************************************)
(* The text of a program, as the language guide (docs/LANGUAGE.md, 3.3 to  *)
(* 3.6) says it is written: a tree and a layout give the tokens a lexer    *)
(* makes of the text.  This is the reference the parser is held against;   *)
(* no code of the system prints programs.                                  *)
(*                                                                         *)
(* Layouts:                                                                *)
(*   plain  a form on each line, method bodies indented, no last period    *)
(*   airy   a blank line between forms, and a blank and unindented line    *)
(*          wherever a statement still needs its next part: in brackets,   *)
(*          after an operator, a keyword, := or ^                          *)
(*   dense  one line, as far as the rules allow                            *)
(*   flush  as plain, but the first statement of a body is not indented    *)
(***************************************************************************)
EXTENDS Ast, SequencesExt

Layouts == {"plain", "airy", "dense"}

\* A token before it has a place; free: a blank line may precede it; break:
\* what does.
Raw(kind, text, val) ==
  [kind |-> kind, text |-> text, val |-> val, glued |-> FALSE, free |-> FALSE, break |-> "none"]

Mark(kind) == <<Raw(kind, "", 0)>>
Word(x) == <<Raw("Identifier", x, 0)>>
Operator(x) == <<Raw("BinaryOp", x, 0)>>
KeywordPart(x) == <<Raw("Keyword", x, 0)>>
Pipe == <<Raw("Pipe", "|", 0)>>

Freed(t) == [t EXCEPT !.free = ~t.glued]
Free(ts) == [i \in DOMAIN ts |-> Freed(ts[i])]
FreeFirst(ts) == <<Freed(ts[1])>> \o Tail(ts)
Glued(ts) == <<[ts[1] EXCEPT !.glued = TRUE]>> \o Tail(ts)
Broken(ts, b) == <<[ts[1] EXCEPT !.break = b]>> \o Tail(ts)

Within(open, ts, close) == Mark(open) \o Free(ts \o Mark(close))

RECURSIVE Separated(_, _)
Separated(parts, sep) ==
  IF parts = <<>> THEN <<>> ELSE IF Len(parts) = 1 THEN parts[1] ELSE parts[1] \o sep \o Separated(Tail(parts), sep)

Declared(names) == IF names = <<>> THEN <<>> ELSE Pipe \o FlattenSeq([i \in DOMAIN names |-> Word(names[i])]) \o Pipe

\* The keywords of a selector.
PartsOf(sel) ==
  CASE sel = "to:do:" -> <<"to:", "do:">>
    [] sel = "ifTrue:ifFalse:" -> <<"ifTrue:", "ifFalse:">>
    [] sel = "ifFalse:ifTrue:" -> <<"ifFalse:", "ifTrue:">>
    [] OTHER -> <<sel>>

\* How loosely a tree binds: unary, binary and keyword sends, and the rest.
Binding(n) ==
  CASE n.kind \in {"UnarySend", "CallSend"} -> 1
    [] n.kind = "BinarySend" -> 2
    [] n.kind = "KeywordSend" -> 3
    [] n.kind \in {"Cascade", "Assignment"} -> 4
    [] OTHER -> 0

\* An argument of a call may not show an = of its own.
RECURSIVE ShowsEquals(_)
ShowsEquals(n) == n.kind = "BinarySend" /\ (n.text = "=" \/ ShowsEquals(n.kids[1]))

RECURSIVE Text(_)

\* The tree in a place that takes what binds as loosely as most.
Operand(n, most) == IF Binding(n) > most THEN Within("LParen", Text(n), "RParen") ELSE Text(n)

CallOperand(n) == IF ShowsEquals(n) THEN Within("LParen", Text(n), "RParen") ELSE Operand(n, 2)

KeywordText(sel, args) ==
  LET parts == PartsOf(sel)
  IN FlattenSeq([i \in DOMAIN parts |-> KeywordPart(parts[i]) \o FreeFirst(Operand(args[i], 2))])

\* A message with the arguments args.
MessageText(kind, sel, args) ==
  CASE kind = "UnarySend" -> Word(sel)
    [] kind = "BinarySend" -> Operator(sel) \o FreeFirst(Operand(args[1], 1))
    [] OTHER -> KeywordText(sel, args)

\* What the receiver of a message may be.
ReceiverOf(kind) == IF kind \in {"UnarySend", "CallSend"} THEN 1 ELSE 2

\* Keys may come in any order: here the last comes first.
CallText(n) ==
  LET args == [i \in 1..n.int |-> CallOperand(n.kids[i + 1])]
      keyed == [i \in 1..n.int2 |-> Word(n.names[i]) \o Operator("=") \o CallOperand(n.kids[n.int + i + 1])]
  IN Word(n.text) \o Glued(Mark("LParen")) \o Free(Separated(args \o Reverse(keyed), Operator(",")) \o Mark("RParen"))

BlockText(n) ==
  LET args == FlattenSeq([i \in 1..n.int |-> Mark("Colon") \o Word(n.names[i])])
      body == [i \in DOMAIN n.kids |-> Text(n.kids[i])]
  IN Within("LBracket", args \o (IF n.int > 0 THEN Pipe ELSE <<>>) \o
                        Declared(SubSeq(n.names, n.int + 1, Len(n.names))) \o Separated(body, Mark("Period")), "RBracket")

Text(n) ==
  CASE n.kind = "IntegerLit" -> <<Raw("Integer", "", n.int)>>
    [] n.kind = "SymbolLit" -> <<Raw("Symbol", n.text, 0)>>
    [] n.kind = "TrueLit" -> Mark("True")
    [] n.kind = "FalseLit" -> Mark("False")
    [] n.kind = "NilLit" -> Mark("Nil")
    [] n.kind = "Self" -> Word("self")
    [] n.kind = "Super" -> Word("super")
    [] n.kind = "Identifier" -> Word(n.text)
    [] n.kind = "Assignment" -> Word(n.text) \o Mark("Assign") \o FreeFirst(Text(n.kids[1]))
    [] n.kind = "Return" -> Mark("Caret") \o FreeFirst(Text(n.kids[1]))
    [] n.kind = "Block" -> BlockText(n)
    [] n.kind = "DynArrayLit" ->
         Within("LBrace", Separated([i \in DOMAIN n.kids |-> Text(n.kids[i])], Mark("Period")), "RBrace")
    [] n.kind = "Cascade" ->
         LET msgs == [i \in 1..(Len(n.kids) - 1) |-> MessageText(n.kids[i + 1].kind, n.kids[i + 1].text, n.kids[i + 1].kids)]
         IN Operand(n.kids[1], ReceiverOf(n.kids[2].kind)) \o Separated(msgs, Mark("Semicolon"))
    [] n.kind = "CallSend" /\ n.kids[1] = Self -> CallText(n)
    [] n.kind = "CallSend" -> Operand(n.kids[1], 1) \o CallText(n)
    [] OTHER -> Operand(n.kids[1], ReceiverOf(n.kind)) \o MessageText(n.kind, n.text, Tail(n.kids))

----------------------------------------------------------------------------
\* Forms and their places.

BodyOfDecl(n) == IF n.kind = "CallMethodDecl" THEN SubSeq(n.kids, n.int2 + 1, Len(n.kids)) ELSE n.kids

\* How a body's i-th statement begins.
StatementBreak(layout, i) ==
  CASE layout = "dense" -> "none" [] layout = "flush" /\ i = 1 -> "unindented" [] OTHER -> "indented"

BodyText(body, layout) ==
  Separated([i \in DOMAIN body |-> Broken(Text(body[i]), StatementBreak(layout, i))], Mark("Period"))
  \o IF layout \in {"airy", "dense"} /\ body # <<>> THEN Mark("Period") ELSE <<>>

PatternText(n) ==
  LET parts == PartsOf(n.names[1])
      argNames == SubSeq(n.names, 2, n.int + 1)
  IN IF n.int = 0 THEN Word(n.names[1])
     ELSE IF n.names[1] \in BinarySelectors THEN Operator(n.names[1]) \o Word(argNames[1])
     ELSE FlattenSeq([i \in 1..n.int |-> KeywordPart(parts[i]) \o Word(argNames[i])])

ParameterText(n) ==
  LET ps == [i \in 1..n.int |-> Word(n.names[i + 1])]
      keyed == [i \in 1..n.int2 |-> Word(n.names[n.int + i + 1]) \o Operator("=") \o CallOperand(n.kids[i])]
  IN Word(n.names[1]) \o Glued(Mark("LParen")) \o Separated(ps \o Reverse(keyed), Operator(",")) \o Mark("RParen")

MethodText(n, layout) ==
  LET arity == IF n.kind = "CallMethodDecl" THEN n.int + n.int2 ELSE n.int
  IN Word(n.text) \o (IF n.flag THEN Word("class") ELSE <<>>) \o Mark("GtGt")
     \o (IF n.kind = "CallMethodDecl" THEN ParameterText(n) ELSE PatternText(n))
     \o Declared(SubSeq(n.names, arity + 2, Len(n.names)))
     \o BodyText(BodyOfDecl(n), layout)

\* The variables of a clause, one string; the clauses in either order.
Clause(keyword, names) == IF names = <<>> THEN <<>> ELSE KeywordPart(keyword) \o <<Raw("String", "", names)>>

ClassText(n, layout) ==
  LET ivs == Clause("instanceVariableNames:", SubSeq(n.names, 2, n.int + 1))
      cvs == Clause("classVariableNames:", SubSeq(n.names, n.int + 2, Len(n.names)))
  IN Word(n.names[1]) \o KeywordPart("subclass:") \o <<Raw("Symbol", n.text, 0)>>
     \o (IF layout = "airy" THEN cvs \o ivs ELSE ivs \o cvs)
     \o (IF n.kids = <<>> THEN <<>> ELSE KeywordPart("uses:") \o Operand(n.kids[1], 2)) \o Mark("Period")

IsMethod(n) == n.kind \in {"MethodDecl", "CallMethodDecl"}

\* A variable set to nil at top level may be written as a declaration.
FormText(n, layout) ==
  CASE IsMethod(n) -> MethodText(n, layout)
    [] n.kind = "ClassDecl" -> ClassText(n, layout)
    [] layout = "dense" /\ n.kind = "Assignment" /\ n.kids[1] = Nil -> Declared(<<n.text>>)
    [] OTHER -> Text(n) \o Mark("Period")

\* What comes before a form: a method's body ends at a blank line, at the next
\* declaration, at an unindented line after a statement, and after a ^ on its
\* line.
FormBreak(before, n, layout) ==
  IF IsMethod(before) /\ BodyOfDecl(before) = <<>> /\ ~IsMethod(n) THEN "blank"
  ELSE IF layout = "airy" THEN "blank"
  ELSE IF layout # "dense" THEN "unindented"
  ELSE IF IsMethod(before) /\ Last(<<Nil>> \o BodyOfDecl(before)).kind # "Return" /\ ~IsMethod(n) THEN "unindented"
  ELSE "none"

Breaks(t, layout) == IF layout = "airy" /\ t.free THEN "blank" ELSE t.break

\* The tokens with their lines.
Placed(ts, layout) ==
  LET LinesOf(b) == CASE b = "none" -> 0 [] b = "blank" -> 2 [] OTHER -> 1
      Put(acc, t) ==
        LET b == Breaks(t, layout)
            line == LinesOf(b) + IF acc = <<>> THEN 1 ELSE Last(acc).line
        IN Append(acc, [kind |-> t.kind, text |-> t.text, val |-> t.val, line |-> line, glued |-> t.glued,
                        first |-> acc = <<>> \/ b \in {"unindented", "blank"}, blank |-> b = "blank"])
  IN FoldLeft(Put, <<>>, ts)

\* The tokens of the module's text, its end included.
SourceOf(mod, layout) ==
  LET forms == mod.kids
      texts == [i \in DOMAIN forms |->
                  IF i = 1 THEN FormText(forms[1], layout)
                  ELSE Broken(FormText(forms[i], layout), FormBreak(forms[i - 1], forms[i], layout))]
  IN Placed(FlattenSeq(texts) \o Broken(Mark("EndOfFile"), "unindented"), layout)
=============================================================================
