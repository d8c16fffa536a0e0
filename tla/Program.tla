------------------------------ MODULE Program ------------------------------
(***************************************************************************)
(* A program from its text to its value: what the engine makes of the      *)
(* compiled tree against what the tree means.                              *)
(***************************************************************************)
EXTENDS Engine, Meaning

MeaningHere == MeaningOf(Programs[prog].mod, Programs[prog].repl, Programs[prog].turn, Answer)

\* Values as both sides show them: an object is only an object.
RECURSIVE Shown(_)
Shown(v) ==
  CASE v[1] = "list" -> <<"list", [i \in DOMAIN v[2] |-> Shown(v[2][i])]>>
    [] v[1] \in {"obj", "class", "closure"} -> <<"object", 0>>
    [] OTHER -> v

ShownEnd(e) == IF e[1] = "value" THEN <<"value", Shown(e[2])>> ELSE e

ShownVersion(w) == [x \in DOMAIN w |-> Shown(w[x])]

ShownVersions(ws) == [i \in DOMAIN ws |-> ShownVersion(ws[i])]

IsOver == outcome[1] \in {"value", "error"}

\* A program ends with the value, or the error, its tree means: closures,
\* inlined control, slots, captured dicts, jumps of every width, groups and
\* returns through native calls included.
RunsAsWritten == IsOver => ShownEnd(outcome) = ShownEnd(MeaningHere.end)

\* In each layout it is written in, the text of a program parses, without an
\* error, as the tree it was written from: precedence, cascades, call form,
\* where a statement ends, where a method's body ends and where it does not.
ParsesAsWritten ==
  IsOver => \A layout \in Programs[prog].layouts :
    Reader!ParseModule(Written!SourceOf(Programs[prog].mod, layout)) = [mod |-> Programs[prog].mod, bad |-> FALSE]

\* No frame's operand stack outgrows what the depth pass reserved for it
\* (push: "frames are sized from the deepest point of their module").
StackIsEnough ==
  \A e \in NamesOf(engines) : \A f \in NamesOf(e.frames) :
     Len(f.stack) <= unit.mods[f.m].depth

RECURSIVE IsSubsequence(_, _)
IsSubsequence(s, t) ==
  IF s = <<>> THEN TRUE
  ELSE IF Len(s) > Len(t) THEN FALSE
  ELSE IsSubsequence(IF s[1] = t[1] THEN Tail(s) ELSE s, Tail(t))

\* Another thread sees an object only as it is after some write of the
\* program, in their order, and at the end as it is after the last; with a
\* debugger attached it sees every write.
VersionsAreReal ==
  IsOver =>
    \A real \in {ShownVersions(MeaningHere.versions)}, seen \in {ShownVersions(versions)} :
       /\ IsSubsequence(seen, real)
       /\ real # <<>> => seen # <<>> /\ Last(seen) = Last(real)
       /\ attached => seen = real
=============================================================================
