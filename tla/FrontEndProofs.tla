--------------------------- MODULE FrontEndProofs ---------------------------
(***************************************************************************)
(* Proofs about the two front ends, the debug adapter and the REPL.        *)
(*                                                                         *)
(* A debug session, for any numbers of threads and of source files and     *)
(* however many stops, inspections and requests: nobody waits for a client *)
(* that is gone, handles are dropped in time, and the table of breakpoints *)
(* is current.                                                             *)
(*                                                                         *)
(* The REPL, for any numbers of lines, presses and messages: a Ctrl-C that *)
(* interrupts an evaluation was pressed in that evaluation.                *)
(***************************************************************************)
EXTENDS DebugSession, Repl, TLAPS

-----------------------------------------------------------------------------
(* The inductive invariant.                                                *)

\* The stages in which a thread is inside onStopped.
AtStop == {"announce", "parked", "task"}

StageOK ==
    /\ stage \in [Threads -> AtStop \cup {"unborn", "start", "gate", "run", "stopping", "arriving",
                                          "exiting", "ended"}]
    /\ stops \in [Threads -> Nat]

\* No thread of the script exists before the launch, and no frontend.
BeforeLaunch ==
    ~Launched => /\ \A t \in Threads : stage[t] = "unborn"
                 /\ ~frontend
                 /\ loaded = {} /\ known = {}

\* A thread inside onStopped has a record that says so, which is what Release goes
\* through; a record that says so is of such a thread, or of one that _Exit has ended.
RecordsOK ==
    \A t \in Threads : /\ stage[t] \in AtStop => t \in recs \cap stopped
                       /\ t \in stopped => stage[t] \in AtStop \cup {"ended"}

FramesOK == \A f \in frames : f.thread \in Threads

SessionInv ==
    /\ StageOK /\ BeforeLaunch /\ RecordsOK /\ FramesOK
    /\ NobodyWaitsForTheClient /\ HandlesAreCurrent /\ BreakpointsAreCurrent

-----------------------------------------------------------------------------
(* Steps.                                                                  *)

\* Every action moves threads between the stages it names.
LEMMA StageStep ==
    ASSUME StageOK, [Next]_vars
    PROVE  StageOK'
<1> USE DEF StageOK, AtStop, Threads, Goes
<1>1. CASE Request
    BY <1>1 DEF Request, Launch, ConfigurationDone, SetExceptionBreakpoints, HandleInspect,
       SetBreakpoints, HandlePause, HandleStackTrace, HandleResume, Disconnect, threadVars,
       serverVars
<1>2. CASE RunOnStoppedThread \/ InspectAnswered
    BY <1>2 DEF RunOnStoppedThread, InspectAnswered, threadVars, serverVars
<1>3. CASE Shutdown
    BY <1>3 DEF Shutdown, SetFrontendNull, Release, DrainStops, EndStuckProgram, JoinDebuggee,
       ResetRuntime, threadVars, serverVars
<1>4. CASE DebuggeeStarts \/ PassGate \/ DebuggeeEnds
    BY <1>4 DEF DebuggeeStarts, PassGate, DebuggeeEnds, serverVars
<1>5. ASSUME NEW t \in Threads, ThreadStep(t) PROVE StageOK'
    <2>1. CASE RegisterThread(t) \/ DecideToStop(t) \/ EnterSession(t)
        BY <2>1 DEF RegisterThread, DecideToStop, EnterSession, serverVars
    <2>2. CASE OnStopped(t)
        BY <2>2 DEF OnStopped, serverVars
    <2>3. CASE Announce(t) \/ StartTask(t) \/ EndTask(t) \/ Resume(t) \/ ThreadExits(t)
        BY <2>3 DEF Announce, StartTask, EndTask, Resume, ThreadExits, serverVars
    <2>4. CASE \E file \in Files : LoadModule(t, file)
        BY <2>4 DEF LoadModule, threadVars, serverVars
    <2> QED
        BY <1>5, <2>1, <2>2, <2>3, <2>4 DEF ThreadStep
<1>6. ASSUME NEW w \in Workers, WorkerRuns(w) \/ WorkerEnds(w) PROVE StageOK'
    BY <1>6 DEF WorkerRuns, WorkerEnds, serverVars
<1>7. CASE Ended \/ UNCHANGED vars
    BY <1>7 DEF Ended, vars, threadVars, serverVars
<1> QED
    BY <1>1, <1>2, <1>3, <1>4, <1>5, <1>6, <1>7 DEF Next

\* The table of breakpoints follows what the client asks for and what the script loads.
LEMMA BreakpointStep ==
    ASSUME StageOK, BeforeLaunch, BreakpointsAreCurrent, [Next]_vars
    PROVE  BeforeLaunch' /\ BreakpointsAreCurrent'
<1>0. Main \in Threads
    BY DEF Threads
<1> USE <1>0 DEF StageOK, BeforeLaunch, BreakpointsAreCurrent, Launched
<1> DEFINE Current == BeforeLaunch' /\ BreakpointsAreCurrent'
<1>1. ASSUME UNCHANGED <<breakVars, frontend>>, ~Launched => stage' = stage, Launched => Launched'
      PROVE  Current
    BY <1>1 DEF breakVars
<1>2. CASE Launch
    BY <1>2 DEF Launch, Rearm
<1>3. ASSUME NEW file \in Files, NEW on \in BOOLEAN, SetBreakpoints(file, on) PROVE Current
    BY <1>3 DEF SetBreakpoints, Rearm, threadVars, debugVars
<1>4. CASE SetExceptionBreakpoints
    BY <1>4 DEF SetExceptionBreakpoints, threadVars, debugVars
<1>5. CASE ConfigurationDone \/ HandleInspect \/ RunOnStoppedThread \/ InspectAnswered
    BY <1>1, <1>5 DEF ConfigurationDone, HandleInspect, RunOnStoppedThread, InspectAnswered,
       threadVars, debugVars
<1>6. ASSUME NEW t \in Threads, HandlePause(t) PROVE Current
    BY <1>6 DEF HandlePause, debugVars
<1>7. ASSUME NEW t \in Threads, HandleStackTrace(t) \/ \E command \in {"Continue", "Step"} : HandleResume(t, command)
      PROVE  Current
    BY <1>1, <1>7 DEF HandleStackTrace, HandleResume, threadVars, debugVars
<1>8. ASSUME NEW force \in BOOLEAN, Disconnect(force) PROVE Current
    BY <1>1, <1>8 DEF Disconnect, threadVars
<1>9. CASE SetFrontendNull
    BY <1>9 DEF SetFrontendNull, threadVars, breakVars
<1>10. CASE Release \/ DrainStops \/ JoinDebuggee \/ ResetRuntime
    BY <1>1, <1>10 DEF Release, DrainStops, JoinDebuggee, ResetRuntime, threadVars, debugVars
<1>11. CASE EndStuckProgram
    BY <1>1, <1>11 DEF EndStuckProgram, debugVars
<1>12. CASE DebuggeeStarts \/ PassGate \/ DebuggeeEnds
    BY <1>1, <1>12 DEF DebuggeeStarts, PassGate, DebuggeeEnds, Goes, debugVars
<1>13. ASSUME NEW t \in Threads, \E file \in Files : LoadModule(t, file) PROVE Current
    BY <1>13 DEF LoadModule, Rearm, threadVars, debugVars
<1>14. ASSUME NEW t \in Threads,
              \/ RegisterThread(t) \/ DecideToStop(t) \/ EnterSession(t) \/ OnStopped(t) \/ Announce(t)
              \/ StartTask(t) \/ EndTask(t) \/ Resume(t) \/ ThreadExits(t)
       PROVE  Current
    <2>1. frontend' = frontend /\ UNCHANGED breakVars
        BY <1>14 DEF RegisterThread, DecideToStop, EnterSession, OnStopped, Announce, StartTask,
           EndTask, Resume, ThreadExits, debugVars
    <2>2. CASE RegisterThread(t)
        BY <1>1, <2>1, <2>2 DEF RegisterThread
    <2>3. CASE ~RegisterThread(t)
        <3>1. stage[t] # "unborn" /\ \E to : to # "unborn" /\ stage' = [stage EXCEPT ![t] = to]
            BY <1>14, <2>3 DEF DecideToStop, EnterSession, OnStopped, Announce, StartTask,
               EndTask, Resume, ThreadExits, Goes
        <3> QED
            BY <1>1, <2>1, <3>1
    <2> QED
        BY <2>2, <2>3
<1>15. ASSUME NEW w \in Workers, WorkerRuns(w) PROVE Current
    BY <1>1, <1>15, ThreadsAssumption DEF WorkerRuns, Goes, Threads, debugVars
<1>16. ASSUME NEW w \in Workers, WorkerEnds(w) PROVE Current
    BY <1>1, <1>16, ThreadsAssumption DEF WorkerEnds, Threads, debugVars
<1>17. CASE Ended \/ UNCHANGED vars
    BY <1>1, <1>17 DEF Ended, vars, threadVars, debugVars
<1> QED
    BY <1>2, <1>3, <1>4, <1>5, <1>6, <1>7, <1>8, <1>9, <1>10, <1>11, <1>12, <1>13, <1>14,
       <1>15, <1>16, <1>17
    DEF Next, Request, Shutdown, ThreadStep

\* What the records and the handles have to agree on.
StopsOK == RecordsOK /\ FramesOK /\ NobodyWaitsForTheClient /\ HandlesAreCurrent

\* Steps that leave the records and the handles alone, and move no thread into or out of
\* onStopped.
LEMMA OutsideOfStops ==
    ASSUME StopsOK,
           UNCHANGED <<stopped, stops, frames, resumeReady, shuttingDown>>,
           recs \subseteq recs',
           \A t \in Threads : \/ stage'[t] = stage[t]
                              \/ stage[t] \in AtStop /\ stage'[t] \in AtStop
                              \/ stage[t] \notin AtStop \cup {"ended"} /\ stage'[t] \notin AtStop
    PROVE  StopsOK'
<1>1. RecordsOK'
    BY DEF StopsOK, RecordsOK
<1>2. NobodyWaitsForTheClient'
    BY DEF StopsOK, NobodyWaitsForTheClient, AtStop
<1>3. FramesOK' /\ HandlesAreCurrent'
    BY DEF StopsOK, FramesOK, HandlesAreCurrent
<1> QED
    BY <1>1, <1>2, <1>3 DEF StopsOK

\* A thread enters onStopped, unless the session shuts down: its earlier handles are
\* gone, because it was not stopped.
LEMMA ArriveStep ==
    ASSUME StageOK, StopsOK, NEW t \in Threads, OnStopped(t)
    PROVE  StopsOK'
<1>1. CASE shuttingDown
    BY <1>1, OutsideOfStops DEF OnStopped, Goes, StageOK, AtStop, serverVars, sessionVars
<1>2. CASE ~shuttingDown
    <2>1. /\ stage[t] = "arriving" /\ stage' = [stage EXCEPT ![t] = "announce"]
          /\ recs' = recs \cup {t} /\ stopped' = stopped \cup {t} /\ frames' = frames
          /\ stops' = [stops EXCEPT ![t] = @ + 1]
          /\ ~shuttingDown'
        BY <1>2 DEF OnStopped, Goes, sessionVars
    <2>2. t \notin stopped
        BY <2>1 DEF StopsOK, RecordsOK, AtStop
    <2>3. RecordsOK'
        BY <2>1 DEF StopsOK, RecordsOK, StageOK, AtStop
    <2>4. FramesOK' /\ HandlesAreCurrent'
        BY <2>1, <2>2 DEF StopsOK, FramesOK, HandlesAreCurrent, StageOK
    <2> QED
        BY <2>1, <2>3, <2>4 DEF StopsOK, NobodyWaitsForTheClient
<1> QED
    BY <1>1, <1>2

\* A thread leaves onStopped with its handles.
LEMMA LeaveStep ==
    ASSUME StageOK, StopsOK, NEW t \in Threads, Resume(t)
    PROVE  StopsOK'
<1>1. /\ stage[t] = "parked" /\ stage' = [stage EXCEPT ![t] = "run"]
      /\ recs' = recs /\ stopped' = stopped \ {t} /\ stops' = stops
      /\ frames' = {f \in frames : f.thread # t}
      /\ resumeReady' = resumeReady \ {t} /\ shuttingDown' = shuttingDown
    BY DEF Resume, Goes, DropHandlesOf, sessionVars
<1>2. RecordsOK'
    BY <1>1 DEF StopsOK, RecordsOK, StageOK, AtStop
<1>3. FramesOK' /\ HandlesAreCurrent'
    BY <1>1 DEF StopsOK, FramesOK, HandlesAreCurrent
<1>4. NobodyWaitsForTheClient'
    BY <1>1 DEF StopsOK, NobodyWaitsForTheClient, StageOK
<1> QED
    BY <1>2, <1>3, <1>4 DEF StopsOK

\* Every step keeps the records and the handles.
LEMMA StopStep ==
    ASSUME StageOK, BeforeLaunch, StopsOK, [Next]_vars
    PROVE  StopsOK'
<1>0. Main \in Threads /\ Workers \subseteq Threads
    BY DEF Threads
<1> USE <1>0 DEF StageOK, AtStop, Goes
<1>1. CASE Launch
    BY <1>1, OutsideOfStops DEF Launch, BeforeLaunch, serverVars, sessionVars
<1>2. ASSUME NEW file \in Files, NEW on \in BOOLEAN, SetBreakpoints(file, on) PROVE StopsOK'
    BY <1>2, OutsideOfStops DEF SetBreakpoints, threadVars, serverVars, sessionVars
<1>3. CASE \/ SetExceptionBreakpoints \/ ConfigurationDone \/ HandleInspect
           \/ RunOnStoppedThread \/ InspectAnswered
    BY <1>3, OutsideOfStops DEF SetExceptionBreakpoints, ConfigurationDone, HandleInspect,
       RunOnStoppedThread, InspectAnswered, threadVars, serverVars, sessionVars
<1>4. ASSUME NEW t \in Threads, HandlePause(t) PROVE StopsOK'
    BY <1>4, OutsideOfStops DEF HandlePause, serverVars, sessionVars
<1>5. ASSUME NEW t \in Threads, HandleStackTrace(t) PROVE StopsOK'
    <2>1. /\ t \in stopped /\ frames' = frames \cup {[thread |-> t, stop |-> stops[t]]}
          /\ UNCHANGED <<stage, recs, stopped, stops, resumeReady, shuttingDown>>
        BY <1>5 DEF HandleStackTrace, threadVars, sessionVars
    <2> QED
        BY <2>1 DEF StopsOK, RecordsOK, FramesOK, NobodyWaitsForTheClient, HandlesAreCurrent
<1>6. ASSUME NEW t \in Threads, NEW command \in {"Continue", "Step"}, HandleResume(t, command)
      PROVE  StopsOK'
    BY <1>6 DEF HandleResume, threadVars, sessionVars, StopsOK, RecordsOK, FramesOK,
       NobodyWaitsForTheClient, HandlesAreCurrent
<1>7. ASSUME NEW force \in BOOLEAN, Disconnect(force) PROVE StopsOK'
    BY <1>7, OutsideOfStops DEF Disconnect, threadVars, serverVars, sessionVars
<1>8. CASE Release
    <2>1. /\ shuttingDown' /\ resumeReady' = resumeReady \cup recs
          /\ UNCHANGED <<stage, recs, stopped, stops, frames>>
        BY <1>8 DEF Release, threadVars
    <2>2. RecordsOK' /\ FramesOK' /\ HandlesAreCurrent'
        BY <2>1 DEF StopsOK, RecordsOK, FramesOK, HandlesAreCurrent
    <2>3. NobodyWaitsForTheClient'
        BY <2>1 DEF StopsOK, RecordsOK, NobodyWaitsForTheClient
    <2> QED
        BY <2>2, <2>3 DEF StopsOK
<1>9. CASE SetFrontendNull \/ DrainStops \/ JoinDebuggee \/ ResetRuntime
    BY <1>9, OutsideOfStops DEF SetFrontendNull, DrainStops, JoinDebuggee, ResetRuntime,
       threadVars, serverVars, sessionVars
<1>10. CASE EndStuckProgram
    <2>1. /\ stage' = stage \/ stage' = [t \in Threads |-> "ended"]
          /\ UNCHANGED <<recs, stopped, stops, frames, resumeReady, shuttingDown>>
        BY <1>10 DEF EndStuckProgram, serverVars, sessionVars
    <2> QED
        BY <2>1 DEF StopsOK, RecordsOK, FramesOK, NobodyWaitsForTheClient, HandlesAreCurrent
<1>11. CASE DebuggeeStarts \/ PassGate \/ DebuggeeEnds
    BY <1>11, OutsideOfStops DEF DebuggeeStarts, PassGate, DebuggeeEnds, Register, serverVars,
       sessionVars
<1>12. ASSUME NEW t \in Threads, RegisterThread(t) \/ DecideToStop(t) \/ EnterSession(t) PROVE StopsOK'
    BY <1>12, OutsideOfStops DEF RegisterThread, DecideToStop, EnterSession, Register,
       serverVars, sessionVars
<1>13. ASSUME NEW t \in Threads, OnStopped(t) PROVE StopsOK'
    BY <1>13, ArriveStep
<1>14. ASSUME NEW t \in Threads, Announce(t) \/ StartTask(t) \/ EndTask(t) PROVE StopsOK'
    BY <1>14, OutsideOfStops DEF Announce, StartTask, EndTask, serverVars, sessionVars
<1>15. ASSUME NEW t \in Threads, Resume(t) PROVE StopsOK'
    BY <1>15, LeaveStep
<1>16. ASSUME NEW t \in Threads, ThreadExits(t) PROVE StopsOK'
    <2>1. /\ stage[t] = "exiting" /\ stage' = [stage EXCEPT ![t] = "ended"]
          /\ recs' = recs \/ recs' = recs \ {t}
          /\ UNCHANGED <<stopped, stops, frames, resumeReady, shuttingDown>>
        BY <1>16 DEF ThreadExits, sessionVars
    <2> QED
        BY <2>1 DEF StopsOK, RecordsOK, FramesOK, NobodyWaitsForTheClient, HandlesAreCurrent
<1>17. ASSUME NEW t \in Threads, \E file \in Files : LoadModule(t, file) PROVE StopsOK'
    BY <1>17, OutsideOfStops DEF LoadModule, threadVars, serverVars, sessionVars
<1>18. ASSUME NEW w \in Workers, WorkerRuns(w) \/ WorkerEnds(w) PROVE StopsOK'
    BY <1>18, OutsideOfStops DEF WorkerRuns, WorkerEnds, serverVars, sessionVars
<1>19. CASE Ended \/ UNCHANGED vars
    BY <1>19, OutsideOfStops DEF Ended, vars, threadVars, serverVars, sessionVars
<1> QED
    BY <1>1, <1>2, <1>3, <1>4, <1>5, <1>6, <1>7, <1>8, <1>9, <1>10, <1>11, <1>12, <1>13, <1>14,
       <1>15, <1>16,
       <1>17, <1>18, <1>19 DEF Next, Request, Shutdown, ThreadStep

-----------------------------------------------------------------------------
(* The theorems.                                                           *)

\* The invariant holds in every state the adapter and its threads reach.
LEMMA SessionInvariance == Spec => []SessionInv
<1>1. Init => SessionInv
    <2> SUFFICES ASSUME Init PROVE SessionInv
        OBVIOUS
    <2>1. StageOK /\ BeforeLaunch
        BY DEF Init, StageOK, BeforeLaunch
    <2>2. RecordsOK /\ FramesOK
        BY DEF Init, RecordsOK, FramesOK, AtStop
    <2>3. NobodyWaitsForTheClient /\ HandlesAreCurrent /\ BreakpointsAreCurrent
        BY DEF Init, NobodyWaitsForTheClient, HandlesAreCurrent, BreakpointsAreCurrent
    <2> QED
        BY <2>1, <2>2, <2>3 DEF SessionInv
<1>2. SessionInv /\ [Next]_vars => SessionInv'
    BY StageStep, BreakpointStep, StopStep DEF SessionInv, StopsOK
<1> QED
    BY <1>1, <1>2, PTL DEF Spec

\* After the disconnect every thread inside onStopped has been told to go on, the one
\* that stopped while shutdownDebuggee was on its way too: the join that follows waits
\* for no thread that waits for the client.
THEOREM ShutdownReleasesEverybody == Spec => []NobodyWaitsForTheClient
<1>1. SessionInv => NobodyWaitsForTheClient
    BY DEF SessionInv
<1> QED
    BY <1>1, SessionInvariance, PTL

\* A frame handle never outlives the stop it was handed out for, however often its
\* thread stops again.
THEOREM HandlesDoNotOutliveTheirStop == Spec => []HandlesAreCurrent
<1>1. SessionInv => HandlesAreCurrent
    BY DEF SessionInv
<1> QED
    BY <1>1, SessionInvariance, PTL

\* Requests that set breakpoints, the launch and the imports of the script may come in
\* any order: the table the script threads look into has the requested breakpoints of
\* the loaded files, and the client has been told of no other.
THEOREM BreakpointTableIsCurrent == Spec => []BreakpointsAreCurrent
<1>1. SessionInv => BreakpointsAreCurrent
    BY DEF SessionInv
<1> QED
    BY <1>1, SessionInvariance, PTL

-----------------------------------------------------------------------------
(* The REPL.                                                               *)

\* The flag that a safepoint has seen is still set when the safepoint takes it: nobody
\* else clears it while an evaluation runs.
SeenIsPending == phase = "polled" => pending

\* A Ctrl-C that is pending while a module runs was pressed in the run of that module,
\* because evaluate has discarded the earlier ones.
PendingIsForThisEvaluation == phase \in {"run", "polled"} /\ pending => pressedIn = modules

InterruptInv == SeenIsPending /\ PendingIsForThisEvaluation

-----------------------------------------------------------------------------
\* Every step of the REPL, of the handler and of the workers keeps the invariant.
LEMMA InterruptStep ==
    ASSUME InterruptInv, [ReplNext]_replVars
    PROVE  InterruptInv'
<1> USE DEF InterruptInv, SeenIsPending, PendingIsForThisEvaluation
<1>1. CASE OnSigint
  BY <1>1 DEF OnSigint, runtimeVars, workVars
<1>2. CASE Wake
  BY <1>2 DEF Wake, runtimeVars, workVars
<1>3. CASE ReplStep
  <2>1. CASE Evaluate
    BY <2>1 DEF Evaluate, workVars
  <2>2. CASE Drain \/ Take \/ PollTakes
    BY <2>2 DEF Drain, Take, PollTakes, runtimeVars, workVars
  <2>3. CASE PollReturns \/ Meta \/ Classify
    BY <2>3 DEF PollReturns, Meta, Classify, interruptVars, runtimeVars, workVars
  <2>4. CASE FreeModules \/ RebuildRuntime \/ Leave
    BY <2>4 DEF FreeModules, RebuildRuntime, Leave, interruptVars, runtimeVars, workVars
  <2> QED
    BY <1>3, <2>1, <2>2, <2>3, <2>4 DEF ReplStep
<1>4. CASE PollSees
  BY <1>4 DEF PollSees, interruptVars, runtimeVars, workVars
<1>5. CASE SendToActor \/ Block \/ EvaluationEnds
  BY <1>5 DEF SendToActor, Block, EvaluationEnds, interruptVars, runtimeVars, workVars
<1>6. CASE WorkerTakes \/ WorkerFinishes
  BY <1>6 DEF WorkerTakes, WorkerFinishes, interruptVars, runtimeVars
<1>7. CASE Rest \/ UNCHANGED replVars
  BY <1>7 DEF Rest, replVars
<1> QED
  BY <1>1, <1>2, <1>3, <1>4, <1>5, <1>6, <1>7 DEF ReplNext

\* pollInterrupt throws in the evaluation that runs, and the Ctrl-C it takes was pressed
\* while that evaluation ran: never one that was meant for an earlier line.
THEOREM InterruptsAreForThisEvaluation == ReplSpec => []InterruptIsForThisEvaluation
<1>1. ReplInit => InterruptInv
  BY DEF ReplInit, InterruptInv, SeenIsPending, PendingIsForThisEvaluation
<1>2. InterruptInv => InterruptIsForThisEvaluation
  BY DEF InterruptInv, SeenIsPending, PendingIsForThisEvaluation, InterruptIsForThisEvaluation
<1> QED
  BY <1>1, <1>2, InterruptStep, PTL DEF ReplSpec

=============================================================================
