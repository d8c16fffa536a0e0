-------------------------------- MODULE Repl --------------------------------
(***************************************************************************)
(* The interactive session (Repl.cpp) and its Ctrl-C handling              *)
(* (Interrupt.cpp): the REPL's thread, the SIGINT handler, which may run at *)
(* any moment, and the workers that run messages the session's inputs have *)
(* sent.  The terminal is POSIX's, with the self-pipe.                     *)
(***************************************************************************)
EXTENDS Naturals, FiniteSets

CONSTANTS
    MaxLines,    \* bound: lines that the user types
    MaxPresses,  \* bound: Ctrl-C
    MaxSends     \* bound: messages sent to actors

ASSUME ReplBoundsAssumption == {MaxLines, MaxPresses, MaxSends} \subseteq Nat

VARIABLES
    phase,      \* what the REPL's thread does
    key,        \* poll has seen a key
    multiline,  \* inMultiline
    blocked,    \* the evaluation waits and reaches no safepoint
    pending,    \* g_pending
    wake,       \* a byte is in the self-pipe
    handlers,   \* handlers that have set the flag and not yet written to the pipe
    armedThread,  \* g_armedThread
    thread,     \* the thread of the session's runtime
    retained,   \* Session::retained, the modules that have been evaluated
    modules,    \* how many there have been
    queued,     \* modules whose methods queued messages run
    working,    \* the module whose code a worker runs, 0 when it is idle
    pressedIn,  \* the evaluation (0: none yet) in which the pending Ctrl-C came
    lines, presses, sends

replVars == <<phase, key, multiline, blocked, pending, wake, handlers, armedThread, thread,
              retained, modules, queued, working, pressedIn, lines, presses, sends>>

interruptVars == <<pending, wake, handlers, armedThread, pressedIn, presses>>
runtimeVars   == <<thread, retained, modules>>
workVars      == <<queued, working, sends>>

Over == phase \in {"done", "killed"}

-----------------------------------------------------------------------------
(* Ctrl-C *)

\* onSigint: the flag, and the default action for a second one.
OnSigint ==
    /\ ~Over
    /\ presses < MaxPresses
    /\ presses' = presses + 1
    /\ \/ /\ pending
          /\ phase' = "killed"
          /\ UNCHANGED <<pending, handlers, pressedIn>>
       \/ /\ ~pending
          /\ pending' = TRUE
          /\ handlers' = handlers + 1
          /\ pressedIn' = modules
          /\ UNCHANGED phase
    /\ UNCHANGED <<key, multiline, blocked, wake, armedThread, lines, runtimeVars, workVars>>

\* Mutant: the pipe is written only while a line is read.
WakeWhileReading ==
    /\ ~Over
    /\ handlers > 0
    /\ handlers' = handlers - 1
    /\ wake' = (wake \/ phase = "poll")
    /\ UNCHANGED <<phase, key, multiline, blocked, pending, armedThread, pressedIn, presses, lines, runtimeVars, workVars>>

\* wake
Wake ==
    /\ ~Over
    /\ handlers > 0
    /\ handlers' = handlers - 1
    /\ wake' = TRUE
    /\ UNCHANGED <<phase, key, multiline, blocked, pending, armedThread, pressedIn, presses, lines, runtimeVars, workVars>>

-----------------------------------------------------------------------------
(* readTerminalLine *)

PollReturns ==
    /\ phase = "poll"
    /\ \E k \in BOOLEAN :
          /\ k => lines < MaxLines
          /\ k \/ wake
          /\ key' = k
    /\ phase' = "drain"
    /\ UNCHANGED <<multiline, blocked, lines, interruptVars, runtimeVars, workVars>>

\* takePendingInterrupt, first half: the wake-up is consumed.
Drain ==
    /\ phase = "drain"
    /\ phase' = "take"
    /\ wake' = FALSE
    /\ UNCHANGED <<key, multiline, blocked, pending, handlers, armedThread, pressedIn, presses, lines, runtimeVars, workVars>>

\* The second half, and what readTerminalLine does with it: the line and a multi-line
\* form are dropped (Cancelled), a key is read, or the wait goes on.
Take ==
    /\ phase = "take"
    /\ pending' = FALSE
    /\ multiline' = (multiline /\ ~pending)
    /\ phase' \in IF pending \/ ~key THEN {"poll"} ELSE {"poll", "line", "exit"}
    /\ lines' = IF key THEN lines + 1 ELSE lines
    /\ UNCHANGED <<key, blocked, wake, handlers, armedThread, pressedIn, presses, runtimeVars, workVars>>

-----------------------------------------------------------------------------
(* runRepl: what is done with a line *)

\* :quit, :reset, a command that evaluates (:load, :time), any other command
Meta ==
    /\ phase = "line"
    /\ ~multiline
    /\ phase' \in {"exit", "reset", "evaluate", "poll"}
    /\ UNCHANGED <<key, multiline, blocked, lines, interruptVars, runtimeVars, workVars>>

\* Incomplete input goes on at the continuation prompt; complete or wrong input, and a
\* blank line there, is evaluated.
Classify ==
    /\ phase = "line"
    /\ \/ phase' = "poll" /\ multiline' = TRUE
       \/ phase' = "evaluate" /\ multiline' = FALSE
    /\ UNCHANGED <<key, blocked, lines, interruptVars, runtimeVars, workVars>>

\* Mutant: a Ctrl-C that came while no evaluation ran is not discarded.
EvaluateKeeps ==
    /\ phase = "evaluate"
    /\ phase' = "run"
    /\ modules' = modules + 1
    /\ retained' = retained \cup {modules'}
    /\ UNCHANGED <<key, multiline, blocked, pending, wake, handlers, armedThread, thread, pressedIn, presses, lines, workVars>>

\* evaluate: input that does not parse or compile is reported; a module is retained,
\* a Ctrl-C that came before is discarded, and it runs.
Evaluate ==
    /\ phase = "evaluate"
    /\ \/ /\ phase' = "poll"
          /\ UNCHANGED <<retained, modules, pending>>
       \/ /\ phase' = "run"
          /\ modules' = modules + 1
          /\ retained' = retained \cup {modules'}
          /\ pending' = FALSE
    /\ UNCHANGED <<key, multiline, blocked, wake, handlers, armedThread, thread, pressedIn, presses, lines, workVars>>

-----------------------------------------------------------------------------
(* The evaluation *)

SendToActor ==
    /\ phase = "run"
    /\ ~blocked
    /\ sends < MaxSends
    /\ sends' = sends + 1
    /\ \E m \in retained : queued' = queued \cup {m}
    /\ UNCHANGED <<phase, key, multiline, blocked, lines, working, interruptVars, runtimeVars>>

\* The evaluation begins or ends a wait.
Block ==
    /\ phase = "run"
    /\ blocked' = ~blocked
    /\ UNCHANGED <<phase, key, multiline, lines, interruptVars, runtimeVars, workVars>>

\* pollInterrupt: the look at the flag and the thread, and then the store.
PollSees ==
    /\ phase = "run"
    /\ ~blocked
    /\ pending
    /\ armedThread = thread
    /\ phase' = "polled"
    /\ UNCHANGED <<key, multiline, blocked, lines, interruptVars, runtimeVars, workVars>>

PollTakes ==
    /\ phase = "polled"
    /\ pending' = FALSE
    /\ phase' = "poll"
    /\ UNCHANGED <<key, multiline, blocked, wake, handlers, armedThread, pressedIn, presses, lines, runtimeVars, workVars>>

EvaluationEnds ==
    /\ phase = "run"
    /\ ~blocked
    /\ phase' = "poll"
    /\ UNCHANGED <<key, multiline, blocked, lines, interruptVars, runtimeVars, workVars>>

-----------------------------------------------------------------------------
(* Workers *)

WorkerTakes ==
    /\ ~Over
    /\ working = 0
    /\ \E m \in queued : working' = m /\ queued' = queued \ {m}
    /\ UNCHANGED <<phase, key, multiline, blocked, lines, sends, interruptVars, runtimeVars>>

WorkerFinishes ==
    /\ ~Over
    /\ working # 0
    /\ working' = 0
    /\ UNCHANGED <<phase, key, multiline, blocked, lines, queued, sends, interruptVars, runtimeVars>>

-----------------------------------------------------------------------------
(* Session::rebuild and ~Session: the modules are freed first, then the runtime ends,
   once its workers have run what is queued. *)

FreeModules ==
    /\ phase \in {"reset", "exit"}
    /\ retained' = {}
    /\ phase' = IF phase = "reset" THEN "rebuild" ELSE "leave"
    /\ UNCHANGED <<key, multiline, blocked, lines, thread, modules, interruptVars, workVars>>

\* A new runtime has a thread of its own.
RebuildRuntime ==
    /\ phase = "rebuild"
    /\ queued = {} /\ working = 0
    /\ thread' = thread + 1
    /\ phase' = "poll"
    /\ UNCHANGED <<key, multiline, blocked, lines, retained, modules, interruptVars, workVars>>

Leave ==
    /\ phase = "leave"
    /\ queued = {} /\ working = 0
    /\ phase' = "done"
    /\ UNCHANGED <<key, multiline, blocked, lines, interruptVars, runtimeVars, workVars>>

-----------------------------------------------------------------------------
ReplInit ==
    /\ phase = "poll" /\ key = FALSE /\ multiline = FALSE /\ blocked = FALSE
    /\ pending = FALSE /\ wake = FALSE /\ handlers = 0 /\ pressedIn = 0
    /\ armedThread = 1 /\ thread = 1
    /\ retained = {} /\ modules = 0
    /\ queued = {} /\ working = 0
    /\ lines = 0 /\ presses = 0 /\ sends = 0

ReplStep ==
    \/ PollReturns \/ Drain \/ Take \/ Meta \/ Classify \/ Evaluate \/ PollTakes
    \/ FreeModules \/ RebuildRuntime \/ Leave

\* The user may leave the REPL at its prompt for ever.
Rest == (Over \/ (phase = "poll" /\ lines = MaxLines)) /\ UNCHANGED replVars

ReplNext ==
    \/ OnSigint \/ Wake \/ ReplStep \/ SendToActor \/ Block \/ PollSees \/ EvaluationEnds
    \/ WorkerTakes \/ WorkerFinishes \/ Rest

\* Every thread goes on, and an evaluation that does not wait reaches a safepoint; it
\* need not end.
ReplFairness ==
    /\ WF_replVars(Wake) /\ WF_replVars(ReplStep) /\ WF_replVars(PollSees)
    /\ WF_replVars(WorkerTakes) /\ WF_replVars(WorkerFinishes)

ReplSpec == ReplInit /\ [][ReplNext]_replVars /\ ReplFairness

-----------------------------------------------------------------------------
(* Properties *)

\* A Ctrl-C interrupts the evaluation it was pressed in, never a later one.
InterruptIsForThisEvaluation == phase = "polled" => pressedIn = modules

\* A Ctrl-C at the prompt, or in an evaluation that does not wait, is taken, in the
\* runtime that was armed: the line is cancelled or the evaluation interrupted.
CtrlCIsTaken ==
    (pending /\ armedThread = thread) ~> (~pending \/ blocked \/ Over)

\* "Ctrl-C ... interrupts the evaluation" (LANGUAGE.md), in every runtime of the session.
CtrlCIsTakenAlways == pending ~> (~pending \/ blocked \/ Over)

\* "Retains the module so installed method/class bytecode pointers stay valid for the
\* rest of the session" (Repl.cpp): no worker runs the code of a module that is freed.
WorkersRunLiveModules == working # 0 => working \in retained

=============================================================================
