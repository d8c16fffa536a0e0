------------------------------ MODULE Exceptions ------------------------------
(***************************************************************************)
(* Exceptions, cleanup blocks and non-local return on one thread.          *)
(*                                                                         *)
(* `stack' is the thread's native stack, innermost last: execution engines *)
(* (one for each block that a primitive evaluates, with the frames it runs) *)
(* and the primitives that evaluate blocks.  A primitive sits on the       *)
(* engine that called it, and the call is a native boundary.               *)
(* `handlers' is g_handlerStack, `active' is g_activeSignals.              *)
(*                                                                         *)
(* `flight' is what is leaving the top of the stack: the value of a block  *)
(* or primitive that ended, or a C++ exception.  Every construct says in   *)
(* its ...Exit action what it does with each of them.                      *)
(***************************************************************************)
EXTENDS Integers, Sequences, FiniteSets, SequencesExt

CONSTANTS
    Classes,      \* classes of the exceptions a program signals
    Guards,       \* guards of on:do:, as sets of classes (an ExceptionSet)
    MaxEngines,   \* kMaxNestedEngines
    MaxSteps      \* bound: what the program does besides ending its blocks

ASSUME ClassesAssumption == Classes \subseteq {"Error", "Warning", "MNU", "Foreign"}
ASSUME BoundsAssumption  == MaxEngines \in Nat \ {0} /\ MaxSteps \in Nat

VARIABLES stack, handlers, active, flight, nextHandler, nextFrame, steps, outcome

vars == <<stack, handlers, active, flight, nextHandler, nextFrame, steps, outcome>>

-----------------------------------------------------------------------------
(* Exceptions *)

\* The class and what it inherits from.  A foreign value is no protoST exception:
\* only `on: Exception do:' (catchAllGuard) takes it.
Ancestors(class) ==
    CASE class = "Foreign" -> {"Exception"}
      [] class = "MNU"     -> {"MNU", "Error", "Exception"}
      [] OTHER             -> {class, "Exception"}

Matches(exc, guard) == Ancestors(exc.class) \cap guard # {}

IsResumable(exc) == exc.class \in {"Warning", "MNU"}

\* An unhandled Error or foreign value ends the activation, any other exception
\* resumes with nil.
Aborts(exc) == exc.class \in {"Error", "MNU", "Foreign"}

\* A fresh Error made by the runtime; no program variable holds it.
FreshError == [class |-> "Error", id |-> nextFrame]
Held(class) == [class |-> class, id |-> -1]

None == [k |-> "none"]
Value == [k |-> "value"]
Native == [k |-> "native"]                    \* a std::exception
Thrown(k, id) == [k |-> k, id |-> id]         \* unwind, retry, resume, pass, limit, nlr
Raised(exc) == [k |-> "raised", exc |-> exc]  \* a ProtoException with a value
Unhandled(exc, original) == [k |-> "unhandled", exc |-> exc, original |-> original]
Interrupt == [k |-> "interrupt"]

-----------------------------------------------------------------------------
(* The stacks *)

Top == Last(stack)
Under == Front(stack)
Engine(frames) == [k |-> "engine", frames |-> frames]
Engines(stk) == Cardinality({i \in DOMAIN stk : stk[i].k = "engine"})

\* The home of a block that the running frame creates.
Home == Last(Top.frames).home

EnabledIds(hs) == {h.id : h \in {g \in ToSet(hs) : g.on}}

IndexOf(hs, id) == CHOOSE i \in DOMAIN hs : hs[i].id = id

HandlerStackPush(hs, guards, home) ==
    hs \o [i \in DOMAIN guards |->
             [id |-> nextHandler + i - 1, guard |-> guards[i], home |-> home, on |-> TRUE]]

\* The entries with these ids go, wherever they are; the others keep their order.
HandlerStackPop(hs, ids) ==
    LET kept == {i \in DOMAIN hs : hs[i].id \notin ids}
    IN  [n \in 1 .. Cardinality(kept) |->
           hs[CHOOSE i \in kept : Cardinality({j \in kept : j <= i}) = n]]

\* The search for a nested handler looks at disabled entries too.
FindMatchDisabled(hs, exc, below) ==
    LET start == IF \E h \in ToSet(hs) : h.id = below THEN IndexOf(hs, below) ELSE Len(hs) + 1
        found == {i \in 1 .. start - 1 : Matches(exc, hs[i].guard)}
    IN  IF found = {} THEN 0 ELSE CHOOSE i \in found : \A j \in found : j <= i

\* The innermost enabled entry that matches, strictly outer to `below' when it is on
\* the stack; 0 when there is none.
HandlerStackFindMatch(hs, exc, below) ==
    LET start == IF \E h \in ToSet(hs) : h.id = below THEN IndexOf(hs, below) ELSE Len(hs) + 1
        found == {i \in 1 .. start - 1 : hs[i].on /\ Matches(exc, hs[i].guard)}
    IN  IF found = {} THEN 0 ELSE CHOOSE i \in found : \A j \in found : j <= i

\* Reports the entries that were already disabled as flipped.
FlippedFromAll(hs, i) == {hs[j].id : j \in i .. Len(hs)}

\* What handlerStackDisableFrom answers: the entries it flips.
FlippedFrom(hs, i) == {hs[j].id : j \in {n \in i .. Len(hs) : hs[n].on}}

HandlerStackDisable(hs, ids) ==
    [i \in DOMAIN hs |-> IF hs[i].id \in ids THEN [hs[i] EXCEPT !.on = FALSE] ELSE hs[i]]

HandlerStackRestore(hs, ids) ==
    [i \in DOMAIN hs |-> IF hs[i].id \in ids THEN [hs[i] EXCEPT !.on = TRUE] ELSE hs[i]]

-----------------------------------------------------------------------------
(* Pieces of steps.  Each sets stack, flight and nextFrame. *)

\* invokeBlock: a new engine on top of stk, or the nesting limit's error in the
\* primitive that wanted one.
InvokeBlock(stk, home) ==
    IF Engines(stk) < MaxEngines
    THEN /\ stack' = Append(stk, Engine(<<[id |-> nextFrame, home |-> home]>>))
         /\ flight' = None
         /\ nextFrame' = nextFrame + 1
    ELSE /\ stack' = stk
         /\ flight' = Native
         /\ UNCHANGED nextFrame

Leave(stk, f) ==
    /\ stack' = stk
    /\ flight' = f
    /\ UNCHANGED nextFrame

\* raiseNestingLimitError: no engine is left for the handler that was found.
RaiseNestingLimitError(stk, hs, below) ==
    LET i == HandlerStackFindMatch(hs, FreshError, below)
    IN  Leave(stk, IF i = 0 THEN Unhandled(FreshError, FALSE) ELSE Thrown("limit", hs[i].id))

\* defaultAction, foreignDefaultAction
DefaultAction(stk, exc, original) ==
    Leave(stk, IF Aborts(exc) THEN Unhandled(exc, original) ELSE Value)

RunHandler(stk, hs, act, i, exc, original) ==
    LET off == FlippedFrom(hs, i)
    IN  /\ handlers' = HandlerStackDisable(hs, off)
        /\ active' = Append(act, [exc |-> exc, id |-> hs[i].id])
        /\ InvokeBlock(Append(stk, [k |-> "signal", exc |-> exc, id |-> hs[i].id,
                                    off |-> off, original |-> original]),
                       hs[i].home)

\* One turn of the loop of signalInstance.  `first' is the handler to run when the
\* on:do: has been unwound to, 0 otherwise.
SignalInstance(stk, hs, act, exc, below, first, original) ==
    LET i == IF first # 0 THEN IndexOf(hs, first) ELSE HandlerStackFindMatch(hs, exc, below)
    IN  \/ /\ i = 0
           /\ DefaultAction(stk, exc, original)
           /\ handlers' = hs
           /\ active' = act
        \/ /\ i # 0
           /\ Engines(stk) >= MaxEngines
           /\ RaiseNestingLimitError(stk, hs, below)
           /\ handlers' = hs
           /\ active' = act
        \/ /\ i # 0
           /\ Engines(stk) < MaxEngines
           /\ RunHandler(stk, hs, act, i, exc, original)

-----------------------------------------------------------------------------
(* What the program does, in the running frame *)

Running == flight = None /\ outcome = "none" /\ Top.k = "engine"

Step ==
    /\ Running
    /\ steps < MaxSteps
    /\ steps' = steps + 1
    /\ UNCHANGED outcome

SetTopFrames(frames) == stack' = Append(Under, Engine(frames))

\* A send that finds a method: a frame that is its own home.
CallMethod ==
    /\ Step
    /\ SetTopFrames(Append(Top.frames, [id |-> nextFrame, home |-> nextFrame]))
    /\ nextFrame' = nextFrame + 1
    /\ UNCHANGED <<handlers, active, flight, nextHandler>>

\* `value' sent to a block: a frame in the same engine, with the home the block was
\* given when it was created.  The home may be running anywhere on this thread, or
\* have ended (0).
Homes == UNION {{f.id : f \in {g \in ToSet(stack[i].frames) : g.id = g.home}} :
                   i \in {n \in DOMAIN stack : stack[n].k = "engine"}}

EvalBlock ==
    /\ Step
    /\ \E h \in Homes \cup {0} :
          SetTopFrames(Append(Top.frames, [id |-> nextFrame, home |-> h]))
    /\ nextFrame' = nextFrame + 1
    /\ UNCHANGED <<handlers, active, flight, nextHandler>>

\* on:do: and on:do:on:do: (runProtected)
OnDo(guards) ==
    /\ Step
    /\ handlers' = HandlerStackPush(handlers, guards, Home)
    /\ nextHandler' = nextHandler + Len(guards)
    /\ InvokeBlock(Append(stack, [k |-> "protect", guards |-> guards, home |-> Home,
                                  ids |-> nextHandler .. nextHandler + Len(guards) - 1,
                                  limit |-> 0]),
                   Home)
    /\ UNCHANGED active

\* ensure: (always) and ifCurtailed:
Ensure(always) ==
    /\ Step
    /\ InvokeBlock(Append(stack, [k |-> "ensure", always |-> always, home |-> Home,
                                  phase |-> "body", started |-> 0, exit |-> None]),
                   Home)
    /\ UNCHANGED <<handlers, active, nextHandler>>

\* signal: the exception is one the program holds, and may be signalled again while
\* it is handled.
Signal(class) ==
    /\ Step
    /\ SignalInstance(stack, handlers, active, Held(class), 0, 0, FALSE)
    /\ UNCHANGED nextHandler

\* A primitive that throws: an error of C++, or a value raised by a module.
PrimitiveFails ==
    /\ Step
    /\ flight' \in {Native, Raised(Held("Foreign"))}
    /\ UNCHANGED <<stack, handlers, active, nextHandler, nextFrame>>

\* Ctrl-C, seen by the poll of a loop.
Interrupted ==
    /\ Step
    /\ Leave(Under, Interrupt)
    /\ UNCHANGED <<handlers, active, nextHandler>>

\* return:, resume:, retry and pass sent to an exception.  The handler is found by
\* the exception's identity; without one the primitive fails (PrimitiveFails).
FindActiveSignal(exc) == active[CHOOSE i \in DOMAIN active :
                                   /\ active[i].exc = exc
                                   /\ \A j \in i + 1 .. Len(active) : active[j].exc # exc]

HandlerAction ==
    /\ Step
    /\ \E exc \in {a.exc : a \in ToSet(active)}, action \in {"unwind", "resume", "retry", "pass"} :
          Leave(stack, IF action = "resume" /\ ~IsResumable(exc)
                       THEN Native
                       ELSE Thrown(action, FindActiveSignal(exc).id))
    /\ UNCHANGED <<handlers, active, nextHandler>>

\* waitHelping: a message of another actor on top, with every handler hidden.
Help ==
    /\ Step
    /\ handlers' = HandlerStackDisable(handlers, EnabledIds(handlers))
    /\ InvokeBlock(Append(stack, [k |-> "help", off |-> EnabledIds(handlers)]), nextFrame)
    /\ UNCHANGED <<active, nextHandler>>

\* A primitive of another runtime sends a message here (foreignSendEntry).
ForeignSend ==
    /\ Step
    /\ handlers' = HandlerStackDisable(handlers, EnabledIds(handlers))
    /\ InvokeBlock(Append(stack, [k |-> "foreign", off |-> EnabledIds(handlers)]), nextFrame)
    /\ UNCHANGED <<active, nextHandler>>

\* The frames from i up are gone; a value goes to the frame below, or leaves the engine.
ReturnTo(i) ==
    /\ IF i = 1
       THEN stack' = Under /\ flight' = Value
       ELSE SetTopFrames(SubSeq(Top.frames, 1, i - 1)) /\ flight' = None
    /\ UNCHANGED nextFrame

\* RETURN_TOP, and RETURN in a frame that is its own home
EndFrame ==
    /\ Running
    /\ ReturnTo(Len(Top.frames))
    /\ UNCHANGED <<handlers, active, nextHandler, steps, outcome>>

\* RETURN in a block frame: to a home in this engine, to one in an outer engine, or,
\* when no engine of this thread has it, an Error.
HomeIn(frames, home) == {i \in DOMAIN frames : frames[i].id = home}

NonLocalReturn ==
    /\ Step
    /\ Last(Top.frames).home # Last(Top.frames).id
    /\ \/ \E i \in HomeIn(Top.frames, Home) :
             ReturnTo(i) /\ UNCHANGED <<handlers, active>>
       \/ /\ HomeIn(Top.frames, Home) = {}
          /\ Home \in Homes
          /\ Leave(Under, Thrown("nlr", Home)) /\ UNCHANGED <<handlers, active>>
       \/ /\ Home \notin Homes
          /\ SignalInstance(stack, handlers, active, FreshError, 0, 0, FALSE)
    /\ UNCHANGED nextHandler

-----------------------------------------------------------------------------
(* What each construct does with what leaves the one above it *)

Arriving(k) ==
    /\ flight # None
    /\ outcome = "none"
    /\ stack # <<>>
    /\ Top.k = k
    /\ UNCHANGED <<steps, outcome>>

\* The engine under a primitive.  The boundary translates errors of C++ and values
\* that no handler has seen (translateNativeException); the loop of the engine takes
\* a non-local return to one of its frames (runLoop); anything else goes through.
EngineExit ==
    /\ Arriving("engine")
    /\ UNCHANGED nextHandler
    /\ \/ /\ flight = Value
          /\ Leave(stack, None) /\ UNCHANGED <<handlers, active>>
       \/ /\ flight = Native
          /\ SignalInstance(stack, handlers, active, FreshError, 0, 0, FALSE)
       \/ /\ flight.k = "raised"
          /\ SignalInstance(stack, handlers, active, flight.exc, 0, 0, flight.exc.class = "Foreign")
       \/ /\ flight.k = "nlr"
          /\ \E i \in HomeIn(Top.frames, flight.id) : ReturnTo(i)
          /\ UNCHANGED <<handlers, active>>
       \/ /\ flight.k \in {"unwind", "retry", "resume", "pass", "limit", "unhandled", "interrupt", "nlr"}
          /\ flight.k = "nlr" => HomeIn(Top.frames, flight.id) = {}
          /\ Leave(Under, flight) /\ UNCHANGED <<handlers, active>>

\* runProtectedSingle, runProtected
ProtectExit ==
    LET ours   == flight.k \in {"unwind", "retry", "limit"} /\ flight.id \in Top.ids
        popped == HandlerStackPop(handlers, Top.ids)
        fresh  == [Top EXCEPT !.ids = nextHandler .. nextHandler + Len(Top.guards) - 1, !.limit = 0]
    IN  /\ Arriving("protect")
        /\ \/ /\ ours /\ flight.k = "unwind"
              /\ handlers' = popped
              /\ Leave(Under, Value) /\ UNCHANGED <<active, nextHandler>>
           \/ /\ ours /\ flight.k = "retry"
              /\ handlers' = HandlerStackPush(popped, Top.guards, Top.home)
              /\ nextHandler' = nextHandler + Len(Top.guards)
              /\ InvokeBlock(Append(Under, fresh), Top.home) /\ UNCHANGED active
           \/ /\ ours /\ flight.k = "limit" /\ Top.limit = 0
              /\ SignalInstance(Append(Under, [Top EXCEPT !.limit = flight.id]), handlers, active,
                                FreshError, 0, flight.id, FALSE)
              /\ UNCHANGED nextHandler
           \/ /\ ~ours \/ (flight.k = "limit" /\ Top.limit # 0)
              /\ handlers' = popped
              /\ Leave(Under, flight) /\ UNCHANGED <<active, nextHandler>>

\* prim_Block_ensure, prim_Block_ifCurtailed.  Phases: "body" and "normal" (the cleanup
\* of a normal exit) are inside the try; "after" is the cleanup after the catch clause.
RunCleanup(phase, exit) ==
    InvokeBlock(Append(Under, [Top EXCEPT !.phase = phase, !.exit = exit, !.started = @ + 1]),
                Top.home)

\* A non-local return is taken for a suspension and goes through without cleanup.
EnsureExitSkips ==
    /\ Arriving("ensure")
    /\ UNCHANGED <<handlers, active, nextHandler>>
    /\ \/ Top.phase = "body" /\ flight = Value /\ Top.always /\ RunCleanup("normal", None)
       \/ Top.phase = "body" /\ flight = Value /\ ~Top.always /\ Leave(Under, Value)
       \/ Top.phase = "normal" /\ flight = Value /\ Leave(Under, Value)
       \/ Top.phase \in {"body", "normal"} /\ flight # Value /\ flight.k # "nlr" /\ RunCleanup("after", flight)
       \/ Top.phase \in {"body", "normal"} /\ flight.k = "nlr" /\ Leave(Under, flight)
       \/ Top.phase = "after" /\ flight = Value /\ Leave(Under, Top.exit)
       \/ Top.phase = "after" /\ flight # Value /\ Leave(Under, flight)

\* The cleanup runs inside the catch of a loop: one that cannot start is tried again.
EnsureExitLoops ==
    /\ Arriving("ensure")
    /\ UNCHANGED <<handlers, active, nextHandler>>
    /\ \/ Top.phase = "body" /\ flight = Value /\ Top.always /\ RunCleanup("normal", None)
       \/ Top.phase = "body" /\ flight = Value /\ ~Top.always /\ Leave(Under, Value)
       \/ Top.phase = "normal" /\ flight = Value /\ Leave(Under, Value)
       \/ flight # Value /\ InvokeBlock(Append(Under, [Top EXCEPT !.phase = "after", !.exit = flight, !.started = 1]),
                                       Top.home)
       \/ Top.phase = "after" /\ flight = Value /\ Leave(Under, Top.exit)

EnsureExit ==
    /\ Arriving("ensure")
    /\ UNCHANGED <<handlers, active, nextHandler>>
    /\ \/ Top.phase = "body" /\ flight = Value /\ Top.always /\ RunCleanup("normal", None)
       \/ Top.phase = "body" /\ flight = Value /\ ~Top.always /\ Leave(Under, Value)
       \/ Top.phase = "normal" /\ flight = Value /\ Leave(Under, Value)
       \/ Top.phase \in {"body", "normal"} /\ flight # Value /\ RunCleanup("after", flight)
       \/ Top.phase = "after" /\ flight = Value /\ Leave(Under, Top.exit)
       \/ Top.phase = "after" /\ flight # Value /\ Leave(Under, flight)

\* The active signal stays when its handler is left by an exception.
SignalExitStale ==
    LET mine     == flight.k \in {"resume", "pass"} /\ flight.id = Top.id
        restored == HandlerStackRestore(handlers, Top.off)
    IN  /\ Arriving("signal")
        /\ UNCHANGED nextHandler
        /\ \/ /\ mine /\ flight.k = "pass"
              /\ SignalInstance(Under, restored, Front(active), Top.exc, Top.id, 0, Top.original)
           \/ /\ ~mine \/ flight.k = "resume"
              /\ handlers' = restored
              /\ active' = IF mine THEN Front(active) ELSE active
              /\ Leave(Under, IF mine THEN Value
                              ELSE IF flight = Value THEN Thrown("unwind", Top.id) ELSE flight)

\* signalInstance, after its handler block
SignalExit ==
    LET mine     == flight.k \in {"resume", "pass"} /\ flight.id = Top.id
        restored == HandlerStackRestore(handlers, Top.off)
    IN  /\ Arriving("signal")
        /\ UNCHANGED nextHandler
        /\ \/ /\ mine /\ flight.k = "pass"
              /\ SignalInstance(Under, restored, Front(active), Top.exc, Top.id, 0, Top.original)
           \/ /\ ~mine \/ flight.k = "resume"
              /\ handlers' = restored
              /\ active' = Front(active)
              /\ Leave(Under, IF mine THEN Value
                              ELSE IF flight = Value THEN Thrown("unwind", Top.id) ELSE flight)

\* drainOne ends the helped message whatever left it: the future is settled.
HelpExit ==
    /\ Arriving("help")
    /\ handlers' = HandlerStackRestore(handlers, Top.off)
    /\ Leave(Under, Value)
    /\ UNCHANGED <<active, nextHandler>>

\* What leaves foreignSendEntry, through the boundary to the caller's runtime.
Crossing(f, hid) ==
    CASE f.k = "unhandled" /\ (f.original \/ hid)               -> Raised(f.exc)
      [] f.k \in {"unwind", "retry", "resume", "pass", "limit", "nlr"} -> Native
      [] OTHER                                                  -> f

ForeignExit ==
    /\ Arriving("foreign")
    /\ \/ /\ flight = Native
          /\ SignalInstance(stack, handlers, active, FreshError, 0, 0, FALSE)
       \/ /\ flight # Native
          /\ handlers' = HandlerStackRestore(handlers, Top.off)
          /\ Leave(Under, Crossing(flight, Top.off # {}))
          /\ UNCHANGED active
    /\ UNCHANGED nextHandler

\* runTopLevel
TopLevelExit ==
    /\ flight # None /\ outcome = "none" /\ stack = <<>>
    /\ outcome' = flight.k
    /\ UNCHANGED <<stack, handlers, active, flight, nextHandler, nextFrame, steps>>

-----------------------------------------------------------------------------
Init ==
    /\ stack = <<Engine(<<[id |-> 1, home |-> 1]>>)>>
    /\ handlers = <<>>
    /\ active = <<>>
    /\ flight = None
    /\ nextHandler = 1
    /\ nextFrame = 2
    /\ steps = 0
    /\ outcome = "none"

Program ==
    \/ CallMethod \/ EvalBlock \/ PrimitiveFails \/ Interrupted \/ HandlerAction
    \/ Help \/ ForeignSend \/ NonLocalReturn \/ EndFrame
    \/ \E g \in Guards : OnDo(<<g>>)
    \/ \E g, h \in Guards : OnDo(<<g, h>>)
    \/ \E always \in BOOLEAN : Ensure(always)
    \/ \E class \in Classes : Signal(class)

Exit ==
    \/ EngineExit \/ ProtectExit \/ EnsureExit \/ SignalExit
    \/ HelpExit \/ ForeignExit \/ TopLevelExit

Ended == outcome # "none" /\ UNCHANGED vars

Next == Program \/ Exit \/ Ended

Spec == Init /\ [][Next]_vars /\ WF_vars(Exit) /\ WF_vars(EndFrame)

-----------------------------------------------------------------------------
(* Properties *)

Position(id) == CHOOSE i \in DOMAIN stack : stack[i].k = "protect" /\ id \in stack[i].ids

\* Does the element at position j keep the handler at index i from being found?
Hides(j, i) ==
    \/ stack[j].k \in {"help", "foreign"}
    \/ stack[j].k = "signal" /\ IndexOf(handlers, stack[j].id) <= i

\* The handler stack is exact: its entries are those of the on:do: constructs on the
\* native stack, in their order, and an entry is disabled exactly while a handler at
\* or outside it runs, or a message of another actor or runtime does.  An exit
\* path that does not pop, or a restore that enables too much, breaks it.
HandlerStackIsExact ==
    /\ \A i \in DOMAIN handlers : \E j \in DOMAIN stack :
          stack[j].k = "protect" /\ handlers[i].id \in stack[j].ids
    /\ \A j \in DOMAIN stack : stack[j].k = "protect" =>
          stack[j].ids \subseteq {h.id : h \in ToSet(handlers)}
    /\ \A i \in DOMAIN handlers :
          LET p == Position(handlers[i].id)
          IN  /\ i > 1 => Position(handlers[i - 1].id) <= p
              /\ handlers[i].on <=> \A j \in p + 1 .. Len(stack) : ~Hides(j, i)

\* "a signal inside a handler is caught by an outer handler, never by itself"
\* (LANGUAGE.md 8.3), nor by anything hidden behind a message of another actor: no
\* handler runs while something between it and the signal hides it.  This includes a
\* handler that the nesting limit has unwound to.
HandlerIsVisible ==
    \A j \in DOMAIN stack : stack[j].k = "signal" =>
        \A i \in Position(stack[j].id) + 1 .. j - 1 :
            ~Hides(i, IndexOf(handlers, stack[j].id))

\* An unwind, a retry, a resumption, a pass or a non-local return in flight has its
\* target on the stack, so none of them ever reaches runTopLevel ("reaching here is a
\* bug").
UnwindsHaveTargets ==
    CASE flight.k \in {"unwind", "retry"} ->
            \E j \in DOMAIN stack : stack[j].k = "protect" /\ flight.id \in stack[j].ids
      [] flight.k \in {"resume", "pass"} ->
            \E j \in DOMAIN stack : stack[j].k = "signal" /\ flight.id = stack[j].id
      [] flight.k = "nlr" -> flight.id \in Homes
      [] OTHER -> TRUE

\* "A balanced on:do: always catches its own id" (NestingLimitUnwind.h): the unwind
\* that delivers the nesting limit's Error has its on:do: on the stack.
LimitUnwindsHaveTargets ==
    flight.k = "limit" =>
        \E j \in DOMAIN stack : stack[j].k = "protect" /\ flight.id \in stack[j].ids

\* ensure: is left only after its cleanup has been started, and ifCurtailed: too
\* unless its block ended normally, whatever leaves the block.
CleanupIsNotSkipped ==
    [][ (stack # <<>> /\ Top.k = "ensure" /\ Len(stack') < Len(stack)) =>
          \/ Top.started > 0
          \/ ~Top.always /\ flight = Value ]_vars

\* Whatever a program does, at the nesting limit too, it ends when its blocks end.
Ends == <>(outcome # "none")

=============================================================================
