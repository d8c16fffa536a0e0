---------------------------- MODULE DebugSession ----------------------------
(***************************************************************************)
(* A debug session over the Debug Adapter Protocol: the adapter's message  *)
(* loop (DapServer), the debugger (DebuggerRuntime, BreakpointTable) and   *)
(* the threads that run the script, Main and the workers of the pool.      *)
(*                                                                         *)
(* A thread stops alone.  It parks in onStopped until a request of the     *)
(* client resumes it, and meanwhile runs the inspections that the adapter  *)
(* queues to it.  Every action is one critical section of sessionMu_,      *)
(* bpMu_ or ownersMu, or one step outside of them.                         *)
(***************************************************************************)
EXTENDS Naturals, Sequences, FiniteSets, SequencesExt, Functions

CONSTANTS
    Main,           \* the debuggee thread
    Workers,        \* the workers of the pool
    Endless,        \* threads whose script code may never end
    Program, Files, \* the program's source file, and all source files
    MaxStops,       \* bound: stops of all threads
    MaxInspections, \* bound: variables and evaluate requests
    MaxRequests     \* bound: requests that set breakpoints or pause

Threads == Workers \cup {Main}

ASSUME ThreadsAssumption == Main \notin Workers /\ Endless \subseteq Threads /\ Program \in Files
ASSUME BoundsAssumption  == {MaxStops, MaxInspections, MaxRequests} \subseteq Nat

VARIABLES
    stage,        \* where each script thread is
    mode,         \* its stepping mode
    pauses,       \* threads with pauseRequested
    registered,   \* threads_ of the debugger
    attached,     \* attached_
    frontend,     \* frontend_ is the server
    alive,        \* the debugger exists
    recs,         \* threads_ of the server
    stopped, resumeReady, cmd, tasks, running,  \* its ThreadRecs; the task a thread runs
    stops,        \* how often each thread has stopped
    frames,       \* frameTable_: the stop that each handle is of
    configDone, shuttingDown, debuggeeDone,
    requested, loaded, armed, known,  \* breakpoints: asked for, loaded files, table, verified for the client
    filters,      \* exceptionFilters() # 0
    adapter,      \* what the adapter's thread does
    inspections, requests

threadVars  == <<stage, mode, pauses, registered>>
serverVars  == <<recs, stopped, resumeReady, cmd, tasks, running, stops, frames>>
sessionVars == <<configDone, shuttingDown, debuggeeDone>>
debugVars   == <<attached, frontend, alive>>
breakVars   == <<requested, loaded, armed, known, filters, requests>>
vars == <<threadVars, serverVars, sessionVars, debugVars, breakVars, adapter, inspections>>

-----------------------------------------------------------------------------
(* Script threads *)

Goes(t, from, to) == stage[t] = from /\ stage' = [stage EXCEPT ![t] = to]

\* registerThread, with the started event that onThreadEvent records.
Register(t) ==
    /\ registered' = registered \cup {t}
    /\ recs' = IF frontend /\ t \notin registered THEN recs \cup {t} ELSE recs

\* debuggeeMain, up to the configurationDone gate
DebuggeeStarts ==
    /\ Goes(Main, "start", "gate")
    /\ Register(Main)
    /\ UNCHANGED <<mode, pauses, stopped, resumeReady, cmd, tasks, running, stops, frames>>
    /\ UNCHANGED <<sessionVars, debugVars, breakVars, adapter, inspections>>

\* The gate opens; stopOnEntry stops before the first instruction.
PassGate ==
    /\ stage[Main] = "gate"
    /\ configDone \/ shuttingDown
    /\ \E next \in {"run", "stopping"} :
          /\ next = "stopping" => attached
          /\ stage' = [stage EXCEPT ![Main] = IF shuttingDown THEN "exiting" ELSE next]
    /\ debuggeeDone' = shuttingDown
    /\ UNCHANGED <<mode, pauses, registered, configDone, shuttingDown>>
    /\ UNCHANGED <<serverVars, debugVars, breakVars, adapter, inspections>>

\* A worker gets its first message from the script.
WorkerRuns(w) ==
    /\ stage[Main] = "run"
    /\ Goes(w, "start", "run")
    /\ UNCHANGED <<mode, pauses, registered>>
    /\ UNCHANGED <<serverVars, sessionVars, debugVars, breakVars, adapter, inspections>>

\* The first instruction of a thread while a debugger is attached.
RegisterThread(t) ==
    /\ attached
    /\ stage[t] = "run"
    /\ t \notin registered
    /\ Register(t)
    /\ UNCHANGED <<stage, mode, pauses, stopped, resumeReady, cmd, tasks, running, stops, frames>>
    /\ UNCHANGED <<sessionVars, debugVars, breakVars, adapter, inspections>>

\* onInstruction or onException: the thread decides to stop, for a breakpoint, a
\* pause, a step or an exception that a filter selects.
DecideToStop(t) ==
    /\ attached
    /\ FoldFunction(+, 0, stops) < MaxStops
    /\ t \in registered
    /\ t \in pauses \/ mode[t] # "Free" \/ armed # {} \/ filters
    /\ Goes(t, "run", "stopping")
    /\ pauses' = pauses \ {t}
    /\ UNCHANGED <<mode, registered>>
    /\ UNCHANGED <<serverVars, sessionVars, debugVars, breakVars, adapter, inspections>>

\* enterSession: with no frontend the prompt reads an empty input and returns.
EnterSession(t) ==
    /\ Goes(t, "stopping", IF frontend THEN "arriving" ELSE "run")
    /\ UNCHANGED <<mode, pauses, registered>>
    /\ UNCHANGED <<serverVars, sessionVars, debugVars, breakVars, adapter, inspections>>

\* Mutant: the shutdown is not looked at.
OnStoppedLate(t) ==
    /\ Goes(t, "arriving", "announce")
    /\ recs' = recs \cup {t}
    /\ stopped' = stopped \cup {t}
    /\ resumeReady' = resumeReady \ {t}
    /\ stops' = [stops EXCEPT ![t] = @ + 1]
    /\ UNCHANGED <<mode, pauses, registered, cmd, tasks, running, frames>>
    /\ UNCHANGED <<sessionVars, debugVars, breakVars, adapter, inspections>>

\* onStopped, its first critical section
OnStopped(t) ==
    /\ \/ /\ shuttingDown
          /\ Goes(t, "arriving", "run")
          /\ mode' = [mode EXCEPT ![t] = "Free"]
          /\ UNCHANGED serverVars
       \/ /\ ~shuttingDown
          /\ Goes(t, "arriving", "announce")
          /\ recs' = recs \cup {t}
          /\ stopped' = stopped \cup {t}
          /\ resumeReady' = resumeReady \ {t}
          /\ stops' = [stops EXCEPT ![t] = @ + 1]
          /\ UNCHANGED <<mode, cmd, tasks, running, frames>>
    /\ UNCHANGED <<pauses, registered>>
    /\ UNCHANGED <<sessionVars, debugVars, breakVars, adapter, inspections>>

\* The stopped event is on its way to the client.
Announce(t) ==
    /\ Goes(t, "announce", "parked")
    /\ UNCHANGED <<mode, pauses, registered>>
    /\ UNCHANGED <<serverVars, sessionVars, debugVars, breakVars, adapter, inspections>>

\* The loop of onStopped: an inspection, on this thread's own context.
StartTask(t) ==
    /\ t \notin resumeReady
    /\ tasks[t] # <<>>
    /\ Goes(t, "parked", "task")
    /\ running' = [running EXCEPT ![t] = Head(tasks[t])]
    /\ tasks' = [tasks EXCEPT ![t] = Tail(@)]
    /\ UNCHANGED <<mode, pauses, registered, recs, stopped, resumeReady, cmd, stops, frames>>
    /\ UNCHANGED <<sessionVars, debugVars, breakVars, adapter, inspections>>

\* What is dead until the next stop or task (running, cmd, resumeReady) is reset.
NoTask == [id |-> 0, stop |-> 0]

EndTask(t) ==
    /\ Goes(t, "task", "parked")
    /\ adapter' = IF adapter.pc = "wait" /\ adapter.task = running[t].id
                  THEN [adapter EXCEPT !.pc = "answered"] ELSE adapter
    /\ running' = [running EXCEPT ![t] = NoTask]
    /\ UNCHANGED <<mode, pauses, registered, recs, stopped, resumeReady, cmd, tasks, stops, frames>>
    /\ UNCHANGED <<sessionVars, debugVars, breakVars, inspections>>

\* Mutant: the handles of a thread stay when it resumes.
DropHandlesOfNone(t) == frames

DropHandlesOf(t) == {f \in frames : f.thread # t}

ApplyCommand(command) == IF command = "Continue" THEN "Free" ELSE "Step"

\* The end of onStopped; enterSession then applies the command.
Resume(t) ==
    /\ t \in resumeReady
    /\ Goes(t, "parked", "run")
    /\ mode' = [mode EXCEPT ![t] = ApplyCommand(cmd[t])]
    /\ stopped' = stopped \ {t}
    /\ tasks' = [tasks EXCEPT ![t] = <<>>]
    /\ frames' = DropHandlesOf(t)
    /\ resumeReady' = resumeReady \ {t}
    /\ cmd' = [cmd EXCEPT ![t] = "Continue"]
    /\ UNCHANGED <<pauses, registered, recs, running, stops>>
    /\ UNCHANGED <<sessionVars, debugVars, breakVars, adapter, inspections>>

\* Mutant: breakpoints that were set before their module was known stay off.
RearmPartly(req, mods) == IF mods = {Program} THEN req \cap mods ELSE req \cap mods \cap (armed \cup {Program})

\* rearmLocked: the breakpoints that resolve in a loaded module.
Rearm(req, mods) == req \cap mods

\* A script thread imports a file (onModuleLoaded).  The breakpoint events are sent
\* after the critical section; one that comes late names an id that the client has
\* replaced, and has no effect, so they are part of it here.
LoadModule(t, file) ==
    /\ stage[t] = "run"
    /\ file \in Files \ (loaded \cup {Program})
    /\ loaded' = loaded \cup {file}
    /\ armed' = IF frontend THEN Rearm(requested, loaded') ELSE armed
    /\ known' = IF frontend THEN known \cup (armed' \ armed) ELSE known
    /\ UNCHANGED <<requested, filters, requests>>
    /\ UNCHANGED <<threadVars, serverVars, sessionVars, debugVars, adapter, inspections>>

\* The script ends: terminated and exited are sent.
DebuggeeEnds ==
    /\ Goes(Main, "run", "exiting")
    /\ debuggeeDone' = TRUE
    /\ UNCHANGED <<mode, pauses, registered, configDone, shuttingDown>>
    /\ UNCHANGED <<serverVars, debugVars, breakVars, adapter, inspections>>

\* ~STRuntime ends the workers that are idle.
WorkerEnds(w) ==
    /\ adapter.pc = "reset"
    /\ stage[w] \in {"start", "run"}
    /\ stage' = [stage EXCEPT ![w] = "exiting"]
    /\ UNCHANGED <<mode, pauses, registered>>
    /\ UNCHANGED <<serverVars, sessionVars, debugVars, breakVars, adapter, inspections>>

\* ~ThreadStates, threadExited, onThreadEvent
ThreadExits(t) ==
    /\ Goes(t, "exiting", "ended")
    /\ registered' = registered \ {t}
    /\ recs' = IF frontend /\ t \in registered \ stopped THEN recs \ {t} ELSE recs
    /\ UNCHANGED <<mode, pauses, stopped, resumeReady, cmd, tasks, running, stops, frames>>
    /\ UNCHANGED <<sessionVars, debugVars, breakVars, adapter, inspections>>

-----------------------------------------------------------------------------
(* The adapter's thread: requests, in any order that a client may send them *)

Idle(pc) == [pc |-> pc, thread |-> Main, stop |-> 0, task |-> 0, force |-> FALSE]

Launched == stage[Main] # "unborn"

Launch ==
    /\ adapter.pc = "read"
    /\ ~Launched
    /\ stage' = [t \in Threads |-> "start"]
    /\ attached' = TRUE
    /\ frontend' = TRUE
    /\ alive' = TRUE
    /\ loaded' = {Program}
    /\ armed' = Rearm(requested, loaded')
    /\ UNCHANGED <<requested, known, filters, requests>>
    /\ UNCHANGED <<mode, pauses, registered>>
    /\ UNCHANGED <<serverVars, sessionVars, adapter, inspections>>

\* setBreakpoints replaces the breakpoints of one file.  Before the launch there is no
\* table.
SetBreakpoints(file, on) ==
    /\ adapter.pc = "read"
    /\ requests < MaxRequests
    /\ requests' = requests + 1
    /\ requested' = IF on THEN requested \cup {file} ELSE requested \ {file}
    /\ armed' = IF Launched THEN Rearm(requested', loaded) ELSE armed
    /\ known' = (known \ {file}) \cup (Rearm(requested', loaded) \cap {file})
    /\ UNCHANGED <<loaded, filters>>
    /\ UNCHANGED <<threadVars, serverVars, sessionVars, debugVars, adapter, inspections>>

SetExceptionBreakpoints ==
    /\ adapter.pc = "read"
    /\ requests < MaxRequests
    /\ requests' = requests + 1
    /\ filters' = ~filters
    /\ UNCHANGED <<requested, loaded, armed, known>>
    /\ UNCHANGED <<threadVars, serverVars, sessionVars, debugVars, adapter, inspections>>

ConfigurationDone ==
    /\ adapter.pc = "read"
    /\ ~configDone
    /\ configDone' = TRUE
    /\ UNCHANGED <<shuttingDown, debuggeeDone>>
    /\ UNCHANGED <<threadVars, serverVars, debugVars, breakVars, adapter, inspections>>

\* continue, next, stepIn, stepOut (handleResume)
HandleResume(t, command) ==
    /\ adapter.pc = "read"
    /\ t \in recs \cap stopped
    /\ cmd' = [cmd EXCEPT ![t] = command]
    /\ resumeReady' = resumeReady \cup {t}
    /\ UNCHANGED <<recs, stopped, tasks, running, stops, frames>>
    /\ UNCHANGED <<threadVars, sessionVars, debugVars, breakVars, adapter, inspections>>

HandlePause(t) ==
    /\ adapter.pc = "read"
    /\ requests < MaxRequests
    /\ requests' = requests + 1
    /\ t \in registered
    /\ pauses' = pauses \cup {t}
    /\ UNCHANGED <<stage, mode, registered, requested, loaded, armed, known, filters>>
    /\ UNCHANGED <<serverVars, sessionVars, debugVars, adapter, inspections>>

\* stackTrace and scopes hand out handles of the stop.
HandleStackTrace(t) ==
    /\ adapter.pc = "read"
    /\ t \in recs \cap stopped
    /\ frames' = frames \cup {[thread |-> t, stop |-> stops[t]]}
    /\ UNCHANGED <<recs, stopped, resumeReady, cmd, tasks, running, stops>>
    /\ UNCHANGED <<threadVars, sessionVars, debugVars, breakVars, adapter, inspections>>

\* variables and evaluate, first half: the frame of a handle, or of a stopped thread,
\* is copied under the lock.
HandleInspect ==
    /\ adapter.pc = "read"
    /\ inspections < MaxInspections
    /\ inspections' = inspections + 1
    /\ \E f \in frames \cup {[thread |-> t, stop |-> stops[t]] : t \in stopped} :
          adapter' = [Idle("queue") EXCEPT !.thread = f.thread, !.stop = f.stop]
    /\ UNCHANGED <<threadVars, serverVars, sessionVars, debugVars, breakVars>>

\* runOnStoppedThread
RunOnStoppedThread ==
    LET t == adapter.thread
    IN  /\ adapter.pc = "queue"
        /\ \/ /\ t \in recs \cap stopped
              /\ t \notin resumeReady
              /\ tasks' = [tasks EXCEPT ![t] = Append(@, [id |-> inspections, stop |-> adapter.stop])]
              /\ adapter' = [adapter EXCEPT !.pc = "wait", !.task = inspections]
           \/ /\ t \notin recs \cap stopped \/ t \in resumeReady
              /\ UNCHANGED tasks
              /\ adapter' = Idle("read")
        /\ UNCHANGED <<recs, stopped, resumeReady, cmd, running, stops, frames>>
        /\ UNCHANGED <<threadVars, sessionVars, debugVars, breakVars, inspections>>

\* The answer, or the timeout of 30 seconds: the task then still runs.
InspectAnswered ==
    /\ adapter.pc \in {"answered", "wait"}
    /\ adapter' = Idle("read")
    /\ UNCHANGED <<threadVars, serverVars, sessionVars, debugVars, breakVars, inspections>>

-----------------------------------------------------------------------------
(* shutdownDebuggee and ~DapServer *)

AdapterGoes(from, to) == adapter.pc = from /\ adapter' = [adapter EXCEPT !.pc = to]

\* disconnect (force: a program that is stuck is ended), or the end of the input
Disconnect(force) ==
    /\ adapter.pc = "read"
    /\ adapter' = [Idle(IF Launched THEN "front" ELSE "release") EXCEPT !.force = force]
    /\ attached' = FALSE
    /\ UNCHANGED <<frontend, alive>>
    /\ UNCHANGED <<threadVars, serverVars, sessionVars, breakVars, inspections>>

SetFrontendNull ==
    /\ AdapterGoes("front", "release")
    /\ frontend' = FALSE
    /\ UNCHANGED <<attached, alive>>
    /\ UNCHANGED <<threadVars, serverVars, sessionVars, breakVars, inspections>>

Release ==
    /\ AdapterGoes("release", "drain")
    /\ shuttingDown' = TRUE
    /\ configDone' = TRUE
    /\ resumeReady' = resumeReady \cup recs
    /\ cmd' = [t \in Threads |-> IF t \in recs THEN "Continue" ELSE cmd[t]]
    /\ UNCHANGED <<recs, stopped, tasks, running, stops, frames, debuggeeDone>>
    /\ UNCHANGED <<threadVars, debugVars, breakVars, inspections>>

\* Waits for the threads in onStopped, at most ten seconds.
DrainStops ==
    /\ AdapterGoes("drain", IF adapter.force /\ Launched THEN "stuck" ELSE "join")
    /\ UNCHANGED <<threadVars, serverVars, sessionVars, debugVars, breakVars, inspections>>

\* Mutant: a program that is stuck is joined like any other.
EndStuckProgramJoins ==
    /\ AdapterGoes("stuck", "join")
    /\ UNCHANGED <<threadVars, serverVars, sessionVars, debugVars, breakVars, inspections>>

\* Waits for the script, at most three seconds; _Exit ends a program that is stuck.
EndStuckProgram ==
    /\ \/ debuggeeDone /\ AdapterGoes("stuck", "join") /\ UNCHANGED stage
       \/ ~debuggeeDone /\ AdapterGoes("stuck", "killed") /\ stage' = [t \in Threads |-> "ended"]
    /\ UNCHANGED <<mode, pauses, registered>>
    /\ UNCHANGED <<serverVars, sessionVars, debugVars, breakVars, inspections>>

JoinDebuggee ==
    /\ stage[Main] \in {"ended", "unborn"}
    /\ AdapterGoes("join", IF Launched THEN "reset" ELSE "gone")
    /\ UNCHANGED <<threadVars, serverVars, sessionVars, debugVars, breakVars, inspections>>

\* runtime_.reset() joins the workers; ~DebuggerRuntime orphans the states that it knows.
ResetRuntime ==
    /\ \A w \in Workers : stage[w] = "ended"
    /\ AdapterGoes("reset", "gone")
    /\ alive' = FALSE
    /\ registered' = {}
    /\ UNCHANGED <<stage, mode, pauses, attached, frontend>>
    /\ UNCHANGED <<serverVars, sessionVars, breakVars, inspections>>

-----------------------------------------------------------------------------
Init ==
    /\ stage = [t \in Threads |-> "unborn"]
    /\ mode = [t \in Threads |-> "Free"]
    /\ cmd = [t \in Threads |-> "Continue"]
    /\ tasks = [t \in Threads |-> <<>>]
    /\ running = [t \in Threads |-> NoTask]
    /\ stops = [t \in Threads |-> 0]
    /\ pauses = {} /\ registered = {} /\ recs = {}
    /\ stopped = {} /\ resumeReady = {} /\ frames = {}
    /\ requested = {} /\ loaded = {} /\ armed = {} /\ known = {}
    /\ attached = FALSE /\ frontend = FALSE /\ alive = FALSE /\ filters = FALSE
    /\ configDone = FALSE /\ shuttingDown = FALSE /\ debuggeeDone = FALSE
    /\ adapter = Idle("read")
    /\ inspections = 0
    /\ requests = 0

ThreadStep(t) ==
    \/ RegisterThread(t) \/ DecideToStop(t) \/ EnterSession(t) \/ OnStopped(t) \/ Announce(t)
    \/ StartTask(t) \/ EndTask(t) \/ Resume(t) \/ ThreadExits(t)
    \/ \E file \in Files : LoadModule(t, file)

Request ==
    \/ Launch \/ ConfigurationDone \/ SetExceptionBreakpoints \/ HandleInspect
    \/ \E file \in Files, on \in BOOLEAN : SetBreakpoints(file, on)
    \/ \E t \in Threads : HandlePause(t) \/ HandleStackTrace(t)
    \/ \E t \in Threads, command \in {"Continue", "Step"} : HandleResume(t, command)
    \/ \E force \in BOOLEAN : Disconnect(force)

Shutdown ==
    SetFrontendNull \/ Release \/ DrainStops \/ EndStuckProgram \/ JoinDebuggee \/ ResetRuntime

Ended == adapter.pc \in {"gone", "killed"} /\ UNCHANGED vars

Next ==
    \/ Request \/ RunOnStoppedThread \/ InspectAnswered \/ Shutdown
    \/ DebuggeeStarts \/ PassGate \/ DebuggeeEnds
    \/ \E t \in Threads : ThreadStep(t)
    \/ \E w \in Workers : WorkerRuns(w) \/ WorkerEnds(w)
    \/ Ended

\* The adapter's thread goes on with what it has begun, and a thread of the script
\* leaves a stop and ends, unless its code never ends.
Fairness ==
    /\ WF_vars(RunOnStoppedThread) /\ WF_vars(InspectAnswered) /\ WF_vars(Shutdown)
    /\ WF_vars(DebuggeeStarts) /\ WF_vars(PassGate)
    /\ Main \notin Endless => WF_vars(DebuggeeEnds)
    /\ \A w \in Workers \ Endless : WF_vars(WorkerEnds(w))
    /\ \A t \in Threads : /\ WF_vars(EnterSession(t)) /\ WF_vars(OnStopped(t)) /\ WF_vars(Announce(t))
                          /\ WF_vars(Resume(t)) /\ WF_vars(ThreadExits(t))
                          /\ t \notin Endless => WF_vars(EndTask(t))

Spec == Init /\ [][Next]_vars /\ Fairness

-----------------------------------------------------------------------------
(* Properties *)

\* Once the session shuts down no thread waits for a client that is gone: a thread
\* parked in onStopped has been released, also one that stopped while the shutdown was
\* on its way.
NobodyWaitsForTheClient ==
    shuttingDown => \A t \in Threads : stage[t] \in {"announce", "parked", "task"} => t \in resumeReady

\* "A thread's handles are dropped when it resumes": every frame handle is of the
\* present stop of a thread that is stopped.
HandlesAreCurrent ==
    \A f \in frames : f.thread \in stopped /\ f.stop = stops[f.thread]

\* The table that the script threads look into holds exactly the requested breakpoints
\* of the loaded files, whichever came first, and the client takes no other breakpoint
\* for verified.
BreakpointsAreCurrent ==
    frontend => armed = requested \cap loaded /\ known \subseteq armed

\* An inspection looks at the frame of the stop that its thread is in: "a stale handle
\* resolves to nothing and yields an empty response".
TasksAreCurrent ==
    \A t \in Threads : stage[t] = "task" => running[t].stop = stops[t]

\* A disconnect ends the adapter's process, whatever the script does on its own thread.
DisconnectEnds == (adapter.pc = "release" /\ adapter.force) ~> (adapter.pc \in {"gone", "killed"})

=============================================================================
