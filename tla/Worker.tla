------------------------------- MODULE Worker -------------------------------
(***************************************************************************)
(* The worker processes: SimulationWorkerHandler with the BullMQ consumers *)
(* that call it, TickingSimulationEngine, and the end of a process by      *)
(* SIGTERM, by a crash or by an unhandled rejection.  Every process that   *)
(* hosts the handler is a worker, the orchestrator's included.  Inside a   *)
(* process the code between two awaited calls runs without interleaving.   *)
(***************************************************************************)
EXTENDS Services

CONSTANTS
    Workers,      \* processes that host a SimulationWorkerHandler
    ProfileOf,    \* SIMULATION_PROFILE of each process
    Runs,         \* bound: names for the engine runs alive at once
    NoRun,        \* no entry in the inFlight map
    NoSim,        \* no RUN command being handled
    FixedLength,  \* profiles whose dynamics yield exactly GoalCount goals
    GoalCount     \* GOAL_COUNT; bound: the others yield at most as many

ASSUME WorkerAssumption ==
    /\ ProfileOf \in [Workers -> Profiles]
    /\ NoRun \notin Runs
    /\ NoSim \notin Sims
    /\ FixedLength \subseteq Profiles
    /\ GoalCount \in Nat

VARIABLES
    phase,         \* life cycle of each process
    runHandler,    \* the RUN command each worker is handling
    abortHandler,  \* the ABORT command each worker is handling, and how far
    runs,          \* the engine.run() promises that have not settled
    inFlight       \* each worker's map from simulation id to run

workerVars == <<phase, runHandler, abortHandler, runs, inFlight>>

Resting == [pc |-> "idle"]

Draining == [pc: {"draining"}, sim: Sims, finishedAt: Nat, run: Runs]

Finding == [pc: {"find"}, sim: Sims, finishedAt: Nat]

Finishing == [pc: {"save", "publish"}, sim: Sims, finishedAt: Nat, copy: Aggregate]

AbortHandler == {Resting} \cup Draining \cup Finding \cup Finishing

Free == [pc |-> "free"]

Run == [pc: {"sleep", "save", "publish"}, worker: Workers, sim: Sims,
        copy: Aggregate, tick: Nat, aborted: BOOLEAN]

WorkerTypeOK ==
    /\ phase \in [Workers -> {"up", "closingRuns", "closingAborts", "draining", "down"}]
    /\ runHandler \in [Workers -> Sims \cup {NoSim}]
    /\ abortHandler \in [Workers -> AbortHandler]
    /\ runs \in [Runs -> {Free} \cup Run]
    /\ inFlight \in [Workers -> [Sims -> Runs \cup {NoRun}]]

WorkerInit ==
    /\ phase = [w \in Workers |-> "up"]
    /\ runHandler = [w \in Workers |-> NoSim]
    /\ abortHandler = [w \in Workers |-> Resting]
    /\ runs = [r \in Runs |-> Free]
    /\ inFlight = [w \in Workers |-> [s \in Sims |-> NoRun]]

Live(r) == runs[r] # Free

(* Whether dynamics.nextStep may yield another goal, or none.  A dynamics  *)
(* of random length ends whenever its own clock is used up.                *)
NoMoreGoals(w, tick) == ProfileOf[w] \notin FixedLength \/ tick >= GoalCount

(* Mutant: off by one. *)
MoreGoalsOffByOne(w, tick) == tick <= GoalCount

MoreGoals(w, tick) == tick < GoalCount

-----------------------------------------------------------------------------
(* The engine run's promise settles.                                       *)

(* The handler that awaits the run goes on. *)
Resumed(handler, r) ==
    IF handler.pc = "draining" /\ handler.run = r
    THEN [pc |-> "find", sim |-> handler.sim, finishedAt |-> handler.finishedAt]
    ELSE handler

(* Mutant: the entry of the map is not deleted. *)
ExitLeavingEntry(r) ==
    /\ runs' = [runs EXCEPT ![r] = Free]
    /\ abortHandler' = [abortHandler EXCEPT ![runs[r].worker] = Resumed(@, r)]
    /\ UNCHANGED <<phase, runHandler, inFlight>>

(* Mutant: the handler that awaits the run is not resumed. *)
ExitUnnoticed(r) ==
    /\ runs' = [runs EXCEPT ![r] = Free]
    /\ inFlight' = [inFlight EXCEPT ![runs[r].worker][runs[r].sim] = NoRun]
    /\ UNCHANGED <<phase, runHandler, abortHandler>>

(* finally: the entry of the simulation goes, whichever run it names. *)
Exit(r) ==
    /\ runs' = [runs EXCEPT ![r] = Free]
    /\ inFlight' = [inFlight EXCEPT ![runs[r].worker][runs[r].sim] = NoRun]
    /\ abortHandler' = [abortHandler EXCEPT ![runs[r].worker] = Resumed(@, r)]
    /\ UNCHANGED <<phase, runHandler>>

(* The process is gone with all it held in memory.  The ABORT command it   *)
(* was handling and the RUN command `job' stall and return to the head of  *)
(* their queues; bound: a second stall, which BullMQ fails, is not modelled*)
Dies(w, job) ==
    /\ phase' = [phase EXCEPT ![w] = "down"]
    /\ runHandler' = [runHandler EXCEPT ![w] = NoSim]
    /\ abortHandler' = [abortHandler EXCEPT ![w] = Resting]
    /\ runs' = [r \in Runs |-> IF Live(r) /\ runs[r].worker = w THEN Free ELSE runs[r]]
    /\ inFlight' = [inFlight EXCEPT ![w] = [s \in Sims |-> NoRun]]
    /\ runQueue' = IF job = NoSim THEN runQueue
                   ELSE [runQueue EXCEPT ![ProfileOf[w]] = <<job>> \o @]
    /\ abortQueue' =
         IF abortHandler[w] = Resting THEN abortQueue
         ELSE <<[sim |-> abortHandler[w].sim, finishedAt |-> abortHandler[w].finishedAt]>>
              \o abortQueue

(* handleAbort() and shutdown(), which abort a run, are the only places    *)
(* that attach a catch to its promise.                                     *)
Awaited(r) == runs[r].aborted

-----------------------------------------------------------------------------
(* handleRun *)

TakeRun(w) ==
    LET queue == runQueue[ProfileOf[w]] IN
    /\ phase[w] = "up"
    /\ runHandler[w] = NoSim
    /\ queue # << >>
    /\ runHandler' = [runHandler EXCEPT ![w] = Head(queue)]
    /\ runQueue' = [runQueue EXCEPT ![ProfileOf[w]] = Tail(queue)]
    /\ UNCHANGED <<now, rows, abortQueue, feed, faults, phase, abortHandler, runs, inFlight>>

(* A run starts on its own copy of the row; it is registered under the     *)
(* simulation's id, over an entry that is already there.                   *)
Launch(w, s, r, run) ==
    /\ runs' = [runs EXCEPT ![r] = run]
    /\ inFlight' = [inFlight EXCEPT ![w][s] = r]
    /\ runHandler' = [runHandler EXCEPT ![w] = NoSim]
    /\ UNCHANGED <<now, rows, runQueue, abortQueue, feed, faults, phase, abortHandler>>

NewRun(w, s, pc, copy) ==
    [pc |-> pc, worker |-> w, sim |-> s, copy |-> copy, tick |-> 0, aborted |-> FALSE]

(* findById answers; without a row the command is used up, otherwise       *)
(* engine.run() goes to its first sleep.                                   *)
BeginRun(w) ==
    LET s == runHandler[w] IN
    /\ s # NoSim
    /\ IF rows[s] = NoRow
       THEN /\ runHandler' = [runHandler EXCEPT ![w] = NoSim]
            /\ UNCHANGED <<serviceVars, phase, abortHandler, runs, inFlight>>
       ELSE /\ MoreGoals(w, 0)
            /\ \E r \in Runs :
                /\ ~Live(r)
                /\ Launch(w, s, r, NewRun(w, s, "sleep", rows[s]))

(* The dynamics has no step at all: the run finishes at once. *)
BeginEmptyRun(w) ==
    LET s == runHandler[w] IN
    /\ s # NoSim
    /\ rows[s] # NoRow
    /\ rows[s].state = "RUNNING"
    /\ NoMoreGoals(w, 0)
    /\ \E r \in Runs :
        /\ ~Live(r)
        /\ Launch(w, s, r, NewRun(w, s, "save", Finish(rows[s], now)))

(* ... and finish() throws on a row that is not RUNNING.  The job may or   *)
(* may not have been acknowledged when the process ends.                   *)
BeginThrows(w) ==
    LET s == runHandler[w] IN
    /\ s # NoSim
    /\ rows[s] # NoRow
    /\ rows[s].state = "FINISHED"
    /\ NoMoreGoals(w, 0)
    /\ \E job \in {s, NoSim} : Dies(w, job)
    /\ UNCHANGED <<now, rows, feed, faults>>

-----------------------------------------------------------------------------
(* TickingSimulationEngine.run: sleep, applyGoal, emit = save then publish *)

(* The timer fires; the goal is applied to the run's own copy. *)
Wake(r) ==
    /\ runs[r].pc = "sleep"
    /\ runs[r].copy.state = "RUNNING"
    /\ runs' = [runs EXCEPT ![r].copy = ApplyGoal(@), ![r].tick = @ + 1, ![r].pc = "save"]
    /\ UNCHANGED <<serviceVars, phase, runHandler, abortHandler, inFlight>>

(* applyGoal() throws InvalidStateError and nobody catches it: node ends   *)
(* the process on the unhandled rejection.                                 *)
WakeThrows(r) ==
    /\ runs[r].pc = "sleep"
    /\ runs[r].copy.state = "FINISHED"
    /\ Dies(runs[r].worker, runHandler[runs[r].worker])
    /\ UNCHANGED <<now, rows, feed, faults>>

(* Mutant: emit publishes without saving. *)
SkipSave(r) ==
    /\ runs[r].pc = "save"
    /\ runs' = [runs EXCEPT ![r].pc = "publish"]
    /\ UNCHANGED <<serviceVars, phase, runHandler, abortHandler, inFlight>>

SaveRun(r) ==
    /\ runs[r].pc = "save"
    /\ Save(runs[r].sim, runs[r].copy)
    /\ runs' = [runs EXCEPT ![r].pc = "publish"]
    /\ UNCHANGED <<now, runQueue, abortQueue, feed, faults, phase, runHandler, abortHandler, inFlight>>

(* The event of the change that was just saved. *)
RunEvent(r) ==
    IF runs[r].copy.state = "RUNNING"
    THEN GoalScored(runs[r].copy)
    ELSE SimulationFinished("auto", runs[r].copy)

(* The event is out: the finished or aborted run returns ... *)
PublishAndExit(r) ==
    /\ runs[r].pc = "publish"
    /\ runs[r].copy.state = "FINISHED" \/ runs[r].aborted
    /\ Publish(runs[r].sim, RunEvent(r))
    /\ Exit(r)
    /\ UNCHANGED <<now, rows, runQueue, abortQueue, faults>>

(* Mutant: the loop does not look at the signal. *)
PublishAndIgnoreAbort(r) ==
    /\ runs[r].pc = "publish"
    /\ runs[r].copy.state = "RUNNING"
    /\ Publish(runs[r].sim, RunEvent(r))

PublishAndGoOn(r) ==
    /\ runs[r].pc = "publish"
    /\ runs[r].copy.state = "RUNNING"
    /\ ~runs[r].aborted
    /\ Publish(runs[r].sim, RunEvent(r))

(* ... any other sleeps until the next goal ... *)
PublishAndSleep(r) ==
    /\ PublishAndGoOn(r)
    /\ MoreGoals(runs[r].worker, runs[r].tick)
    /\ runs' = [runs EXCEPT ![r].pc = "sleep"]
    /\ UNCHANGED <<now, rows, runQueue, abortQueue, faults, phase, runHandler, abortHandler, inFlight>>

(* Mutant: the loop ends without finish(). *)
PublishAndForget(r) ==
    /\ PublishAndGoOn(r)
    /\ NoMoreGoals(runs[r].worker, runs[r].tick)
    /\ Exit(r)
    /\ UNCHANGED <<now, rows, runQueue, abortQueue, faults>>

(* ... or finishes the simulation. *)
PublishAndFinish(r) ==
    /\ PublishAndGoOn(r)
    /\ NoMoreGoals(runs[r].worker, runs[r].tick)
    /\ runs' = [runs EXCEPT ![r].copy = Finish(@, now), ![r].pc = "save"]
    /\ UNCHANGED <<now, rows, runQueue, abortQueue, faults, phase, runHandler, abortHandler, inFlight>>

-----------------------------------------------------------------------------
(* handleAbort *)

CanTakeAbort(w) ==
    /\ phase[w] \in {"up", "closingRuns"}
    /\ abortHandler[w] = Resting
    /\ abortQueue # << >>

(* The run the next ABORT command names, as w's map has it. *)
Target(w) == inFlight[w][Head(abortQueue).sim]

(* Mutant: the row is finished although the worker does not have the run.  *)
AbortWithoutRun(w) ==
    /\ CanTakeAbort(w)
    /\ Target(w) = NoRun
    /\ abortHandler' = [abortHandler EXCEPT ![w] =
         [pc |-> "find", sim |-> Head(abortQueue).sim,
          finishedAt |-> Head(abortQueue).finishedAt]]
    /\ abortQueue' = Tail(abortQueue)
    /\ UNCHANGED <<now, rows, runQueue, feed, faults, phase, runHandler, runs, inFlight>>

(* The worker does not have the run: the command is used up. *)
DropAbort(w) ==
    /\ CanTakeAbort(w)
    /\ Target(w) = NoRun
    /\ abortQueue' = Tail(abortQueue)
    /\ UNCHANGED <<now, rows, runQueue, feed, faults, workerVars>>

(* Mutant: sleep ignores the signal. *)
TakeAbortUnheard(w) ==
    /\ CanTakeAbort(w)
    /\ Target(w) # NoRun
    /\ runs' = [runs EXCEPT ![Target(w)].aborted = TRUE]
    /\ abortHandler' = [abortHandler EXCEPT ![w] =
         [pc |-> "draining", sim |-> Head(abortQueue).sim,
          finishedAt |-> Head(abortQueue).finishedAt, run |-> Target(w)]]
    /\ abortQueue' = Tail(abortQueue)
    /\ UNCHANGED <<now, rows, runQueue, feed, faults, phase, runHandler, inFlight>>

(* Mutant: the handler does not await the run. *)
TakeAbortWithoutDraining(w) ==
    /\ CanTakeAbort(w)
    /\ Target(w) # NoRun
    /\ IF runs[Target(w)].pc = "sleep"
       THEN /\ runs' = [runs EXCEPT ![Target(w)] = Free]
            /\ inFlight' = [inFlight EXCEPT ![w][Head(abortQueue).sim] = NoRun]
       ELSE /\ runs' = [runs EXCEPT ![Target(w)].aborted = TRUE]
            /\ UNCHANGED inFlight
    /\ abortHandler' = [abortHandler EXCEPT ![w] =
         [pc |-> "find", sim |-> Head(abortQueue).sim,
          finishedAt |-> Head(abortQueue).finishedAt]]
    /\ abortQueue' = Tail(abortQueue)
    /\ UNCHANGED <<now, rows, runQueue, feed, faults, phase, runHandler>>

(* abort(): a sleeping run returns at once, and the handler goes on to     *)
(* findById; any other run is told, and the handler waits for it.          *)
TakeAbort(w) ==
    /\ CanTakeAbort(w)
    /\ Target(w) # NoRun
    /\ IF runs[Target(w)].pc = "sleep"
       THEN /\ runs' = [runs EXCEPT ![Target(w)] = Free]
            /\ inFlight' = [inFlight EXCEPT ![w][Head(abortQueue).sim] = NoRun]
            /\ abortHandler' = [abortHandler EXCEPT ![w] =
                 [pc |-> "find", sim |-> Head(abortQueue).sim,
                  finishedAt |-> Head(abortQueue).finishedAt]]
       ELSE /\ runs' = [runs EXCEPT ![Target(w)].aborted = TRUE]
            /\ abortHandler' = [abortHandler EXCEPT ![w] =
                 [pc |-> "draining", sim |-> Head(abortQueue).sim,
                  finishedAt |-> Head(abortQueue).finishedAt, run |-> Target(w)]]
            /\ UNCHANGED inFlight
    /\ abortQueue' = Tail(abortQueue)
    /\ UNCHANGED <<now, rows, runQueue, feed, faults, phase, runHandler>>

(* Mutant: the state is not looked at. *)
AbortFindAnyState(w) ==
    LET h == abortHandler[w] IN
    /\ h.pc = "find"
    /\ abortHandler' = [abortHandler EXCEPT ![w] =
         [pc |-> "save", sim |-> h.sim, finishedAt |-> h.finishedAt,
          copy |-> Finish(rows[h.sim], h.finishedAt)]]
    /\ UNCHANGED <<serviceVars, phase, runHandler, runs, inFlight>>

(* findById answers; a row that is gone or FINISHED is left alone. *)
AbortFind(w) ==
    LET h == abortHandler[w] IN
    /\ h.pc = "find"
    /\ abortHandler' = [abortHandler EXCEPT ![w] =
         IF rows[h.sim] # NoRow /\ rows[h.sim].state = "RUNNING"
         THEN [pc |-> "save", sim |-> h.sim, finishedAt |-> h.finishedAt,
               copy |-> Finish(rows[h.sim], h.finishedAt)]
         ELSE Resting]
    /\ UNCHANGED <<serviceVars, phase, runHandler, runs, inFlight>>

AbortSave(w) ==
    /\ abortHandler[w].pc = "save"
    /\ Save(abortHandler[w].sim, abortHandler[w].copy)
    /\ abortHandler' = [abortHandler EXCEPT ![w].pc = "publish"]
    /\ UNCHANGED <<now, runQueue, abortQueue, feed, faults, phase, runHandler, runs, inFlight>>

(* Mutant: the finish requested by the owner is not published. *)
AbortWithoutPublishing(w) ==
    /\ abortHandler[w].pc = "publish"
    /\ abortHandler' = [abortHandler EXCEPT ![w] = Resting]
    /\ UNCHANGED <<serviceVars, phase, runHandler, runs, inFlight>>

AbortPublish(w) ==
    /\ abortHandler[w].pc = "publish"
    /\ Publish(abortHandler[w].sim, SimulationFinished("manual", abortHandler[w].copy))
    /\ abortHandler' = [abortHandler EXCEPT ![w] = Resting]
    /\ UNCHANGED <<now, rows, runQueue, abortQueue, faults, phase, runHandler, runs, inFlight>>

-----------------------------------------------------------------------------
(* onModuleDestroy and the end of the process *)

(* SIGTERM: shutdown() closes the RUN consumer and waits for its handler. *)
Shutdown(w) ==
    /\ Fault("shutdown")
    /\ phase[w] = "up"
    /\ phase' = [phase EXCEPT ![w] = "closingRuns"]
    /\ UNCHANGED <<now, rows, runQueue, abortQueue, feed, runHandler, abortHandler, runs, inFlight>>

(* Then the ABORT consumer. *)
CloseAborts(w) ==
    /\ phase[w] = "closingRuns"
    /\ runHandler[w] = NoSim
    /\ phase' = [phase EXCEPT ![w] = "closingAborts"]
    /\ UNCHANGED <<serviceVars, runHandler, abortHandler, runs, inFlight>>

(* Then every registered run is aborted; those asleep return at once. *)
AbortInFlight(w) ==
    LET registered == {inFlight[w][s] : s \in Sims} \ {NoRun}
        asleep == {r \in registered : runs[r].pc = "sleep"}
    IN
    /\ phase[w] = "closingAborts"
    /\ abortHandler[w] = Resting
    /\ phase' = [phase EXCEPT ![w] = "draining"]
    /\ runs' = [r \in Runs |-> IF r \in asleep THEN Free
                               ELSE IF r \in registered THEN [runs[r] EXCEPT !.aborted = TRUE]
                               ELSE runs[r]]
    /\ inFlight' = [inFlight EXCEPT ![w] =
         [s \in Sims |-> IF inFlight[w][s] \in asleep THEN NoRun ELSE inFlight[w][s]]]
    /\ UNCHANGED <<serviceVars, runHandler, abortHandler>>

(* drainInFlight() is through and the process exits. *)
Drained(w) ==
    /\ phase[w] = "draining"
    /\ \A r \in Runs : Live(r) /\ runs[r].worker = w => ~runs[r].aborted
    /\ Dies(w, NoSim)
    /\ UNCHANGED <<now, rows, feed, faults>>

(* restart: unless-stopped *)
Boot(w) ==
    /\ phase[w] = "down"
    /\ phase' = [phase EXCEPT ![w] = "up"]
    /\ UNCHANGED <<serviceVars, runHandler, abortHandler, runs, inFlight>>

Crash(w) ==
    /\ Fault("crash")
    /\ phase[w] # "down"
    /\ Dies(w, runHandler[w])
    /\ UNCHANGED <<now, rows, feed>>

(* The save or the publish of a run rejects while somebody awaits the run. *)
AwaitedRunFails(r) ==
    /\ Fault("call")
    /\ runs[r].pc \in {"save", "publish"}
    /\ Awaited(r)
    /\ Exit(r)
    /\ UNCHANGED <<now, rows, runQueue, abortQueue, feed>>

(* Mutant: a rejected publish is swallowed and the run goes on. *)
FailureSwallowed(r) ==
    /\ Fault("call")
    /\ runs[r].pc = "publish"
    /\ runs[r].copy.state = "RUNNING"
    /\ ~Awaited(r)
    /\ MoreGoals(runs[r].worker, runs[r].tick)
    /\ runs' = [runs EXCEPT ![r].pc = "sleep"]
    /\ UNCHANGED <<now, rows, runQueue, abortQueue, feed, phase, runHandler, abortHandler, inFlight>>

(* Nobody does: the rejection is unhandled and node ends the process. *)
UnawaitedRunFails(r) ==
    /\ Fault("call")
    /\ runs[r].pc \in {"save", "publish"}
    /\ ~Awaited(r)
    /\ Dies(runs[r].worker, runHandler[runs[r].worker])
    /\ UNCHANGED <<now, rows, feed>>

(* A handler's awaited call rejects: the job fails and is not tried again. *)
RunHandlerFails(w) ==
    /\ Fault("call")
    /\ runHandler[w] # NoSim
    /\ runHandler' = [runHandler EXCEPT ![w] = NoSim]
    /\ UNCHANGED <<now, rows, runQueue, abortQueue, feed, phase, abortHandler, runs, inFlight>>

AbortHandlerFails(w) ==
    /\ Fault("call")
    /\ abortHandler[w].pc \in {"find", "save", "publish"}
    /\ abortHandler' = [abortHandler EXCEPT ![w] = Resting]
    /\ UNCHANGED <<now, rows, runQueue, abortQueue, feed, phase, runHandler, runs, inFlight>>

=============================================================================
