----------------------- MODULE SimulationSystemProofs -----------------------
(***************************************************************************)
(* Theorems about SimulationSystem, for every value of its constants.      *)
(***************************************************************************)
EXTENDS SimulationSystem, TLAPS

USE NullAssumption, RowAssumption, BoundAssumption, ClientAssumption, WorkerAssumption

-----------------------------------------------------------------------------
(* What the operators of the aggregate return. *)

LEMMA ApplyGoalType == \A sim \in Aggregate : ApplyGoal(sim) \in Aggregate
BY DEF Aggregate, ApplyGoal

LEMMA AggregateOperators ==
    ASSUME NEW sim \in Aggregate, NEW t \in Nat
    PROVE  /\ Finish(sim, t) \in Aggregate
           /\ Restart(sim, t) \in Aggregate
<1>1. Finish(sim, t) \in Aggregate
  BY DEF Aggregate, Finish
<1>2. Restart(sim, t) \in Aggregate
  BY DEF Aggregate, Restart
<1> QED
  BY <1>1, <1>2

LEMMA CreateType ==
    ASSUME NEW u \in Users, NEW p \in Profiles, NEW t \in Nat
    PROVE  Create(u, p, t) \in Aggregate
BY DEF Aggregate, Create

LEMMA EventTypes ==
    ASSUME NEW sim \in Aggregate, NEW reason \in {"manual", "auto"}
    PROVE  /\ GoalScored(sim) \in Event
           /\ SimulationFinished(reason, sim) \in Event
BY DEF Aggregate, GoalScored, SimulationFinished, Event

LEMMA IgnitionEvents == Ignitions \subseteq Event
BY DEF Event

(* A record of a union of record sets is told from the others by its pc.   *)
LEMMA RequestShape ==
    ASSUME OrchestratorTypeOK, NEW c \in Clients
    PROVE  /\ Igniting(c) => req[c] \in Ignition
           /\ req[c].pc = "abort" => req[c] \in Abortion
           /\ req[c].pc \in {"idle", "query", "save", "publish", "dispatch", "abort"}
BY DEF OrchestratorTypeOK, Idle, Ignition, Abortion, Igniting

LEMMA HandlerShape ==
    ASSUME NEW h \in AbortHandler
    PROVE  /\ h.pc = "draining" => h \in Draining
           /\ h.pc = "find" => h \in Finding
           /\ h.pc \in {"save", "publish"} => h \in Finishing
           /\ h # Resting => h.sim \in Sims /\ h.finishedAt \in Nat
BY DEF AbortHandler, Resting, Draining, Finding, Finishing

LEMMA RunShape ==
    ASSUME WorkerTypeOK, NEW r \in Runs
    PROVE  /\ Live(r) => runs[r] \in Run
           /\ runs[r].pc \in {"sleep", "save", "publish"} => Live(r)
BY DEF WorkerTypeOK, Live, Free, Run

-----------------------------------------------------------------------------
(* Type correctness. *)

LEMMA SaveType ==
    ASSUME ServicesTypeOK, NEW s \in Sims, NEW sim \in Aggregate, Save(s, sim)
    PROVE  rows' \in [Sims -> Aggregate \cup {NoRow}]
BY DEF ServicesTypeOK, Save

LEMMA PublishType ==
    ASSUME ServicesTypeOK, NEW s \in Sims, NEW event \in Event, Publish(s, event)
    PROVE  feed' \in [Sims -> Seq(Event)]
BY DEF ServicesTypeOK, Publish, Forward

LEMMA ExitTypes ==
    ASSUME WorkerTypeOK, NEW r \in Runs, Live(r), Exit(r)
    PROVE  WorkerTypeOK'
<1>1. runs[r] \in Run
  BY RunShape
<1>2. runs' \in [Runs -> {Free} \cup Run]
  BY DEF WorkerTypeOK, Exit
<1>3. inFlight' \in [Workers -> [Sims -> Runs \cup {NoRun}]]
  BY <1>1 DEF WorkerTypeOK, Exit, Run
<1>4. ASSUME NEW h \in AbortHandler PROVE Resumed(h, r) \in AbortHandler
  BY <1>4, HandlerShape DEF Resumed, AbortHandler, Draining, Finding
<1>5. abortHandler' \in [Workers -> AbortHandler]
  BY <1>1, <1>4 DEF WorkerTypeOK, Exit, Run
<1> QED
  BY <1>2, <1>3, <1>5 DEF WorkerTypeOK, Exit

LEMMA DeathTypes ==
    ASSUME ServicesTypeOK, WorkerTypeOK, NEW w \in Workers, NEW job \in Sims \cup {NoSim},
           Dies(w, job)
    PROVE  /\ runQueue' \in [Profiles -> Seq(Sims)]
           /\ abortQueue' \in Seq(AbortCommand)
           /\ WorkerTypeOK'
<1>1. runQueue' \in [Profiles -> Seq(Sims)]
  <2>1. CASE job = NoSim
    BY <2>1 DEF Dies, ServicesTypeOK
  <2>2. CASE job # NoSim
    BY <2>2 DEF Dies, ServicesTypeOK
  <2> QED
    BY <2>1, <2>2
<1>2. abortQueue' \in Seq(AbortCommand)
  <2>1. CASE abortHandler[w] = Resting
    BY <2>1 DEF Dies, ServicesTypeOK
  <2>2. CASE abortHandler[w] # Resting
    <3> DEFINE cmd == [sim |-> abortHandler[w].sim, finishedAt |-> abortHandler[w].finishedAt]
    <3>1. cmd \in AbortCommand
      BY <2>2, HandlerShape DEF WorkerTypeOK, AbortCommand
    <3>2. abortQueue' = <<cmd>> \o abortQueue
      BY <2>2 DEF Dies
    <3> HIDE DEF cmd
    <3> QED
      BY <3>1, <3>2 DEF ServicesTypeOK
  <2> QED
    BY <2>1, <2>2
<1>3. WorkerTypeOK'
  <2>1. phase' \in [Workers -> {"up", "closingRuns", "closingAborts", "draining", "down"}]
    BY DEF Dies, WorkerTypeOK
  <2>2. runHandler' \in [Workers -> Sims \cup {NoSim}]
    BY DEF Dies, WorkerTypeOK
  <2>3. abortHandler' \in [Workers -> AbortHandler]
    BY DEF Dies, WorkerTypeOK, AbortHandler
  <2>4. runs' \in [Runs -> {Free} \cup Run]
    BY DEF Dies, WorkerTypeOK
  <2>5. inFlight' \in [Workers -> [Sims -> Runs \cup {NoRun}]]
    BY DEF Dies, WorkerTypeOK
  <2> QED
    BY <2>1, <2>2, <2>3, <2>4, <2>5 DEF WorkerTypeOK
<1> QED
  BY <1>1, <1>2, <1>3

LEMMA OrchestratorTypes ==
    ASSUME TypeOK, OrchestratorNext
    PROVE  TypeOK'
<1> USE DEF TypeOK
<1>1. WorkerTypeOK'
  BY DEF OrchestratorNext, workerVars, WorkerTypeOK
<1>2. PICK c \in Clients :
        \/ StartRequest(c) \/ ClientRestarts(c) \/ FinishRequest(c) \/ Serve(c) \/ RequestFails(c)
  BY DEF OrchestratorNext
<1>3. CASE StartRequest(c)
  <2>1. PICK s \in Sims, p \in Profiles :
          req' = [req EXCEPT ![c] = [pc |-> "query", sim |-> s,
                    copy |-> Create(UserOf[c], p, now), event |-> SimulationStarted]]
    BY <1>3 DEF StartRequest
  <2>2. Create(UserOf[c], p, now) \in Aggregate
    BY CreateType DEF ServicesTypeOK
  <2>3. OrchestratorTypeOK'
    BY <2>1, <2>2 DEF OrchestratorTypeOK, Ignition, Ignitions
  <2> QED
    BY <1>1, <1>3, <2>3 DEF StartRequest, serviceVars, ServicesTypeOK
<1>4. CASE ClientRestarts(c)
  <2> RestartRequest(c)
    BY <1>4 DEF ClientRestarts
  <2>1. PICK s \in Sims :
          /\ rows[s] # NoRow
          /\ req' = [req EXCEPT ![c] = [pc |-> "query", sim |-> s,
                    copy |-> Restart(rows[s], now), event |-> SimulationRestarted]]
    BY DEF RestartRequest
  <2>2. Restart(rows[s], now) \in Aggregate
    BY <2>1, AggregateOperators DEF ServicesTypeOK
  <2>3. OrchestratorTypeOK'
    BY <2>1, <2>2 DEF OrchestratorTypeOK, Ignition, Ignitions
  <2> QED
    BY <1>1, <2>3 DEF RestartRequest, serviceVars, ServicesTypeOK
<1>5. CASE FinishRequest(c)
  <2>1. OrchestratorTypeOK'
    BY <1>5 DEF FinishRequest, OrchestratorTypeOK, Abortion, ServicesTypeOK
  <2> QED
    BY <1>1, <1>5, <2>1 DEF FinishRequest, serviceVars, ServicesTypeOK
<1>6. CASE Serve(c)
  <2>1. CASE EnsureCanIgnite(c)
    <3>1. req[c] \in Ignition
      BY <2>1, RequestShape DEF EnsureCanIgnite, Igniting
    <3>2. OrchestratorTypeOK'
      BY <2>1, <3>1 DEF EnsureCanIgnite, Goto, OrchestratorTypeOK, Ignition
    <3> QED
      BY <1>1, <2>1, <3>2 DEF EnsureCanIgnite, serviceVars, ServicesTypeOK
  <2>2. CASE SaveIgnition(c)
    <3>1. req[c] \in Ignition
      BY <2>2, RequestShape DEF SaveIgnition, Igniting
    <3>2. OrchestratorTypeOK'
      BY <2>2, <3>1 DEF SaveIgnition, Goto, OrchestratorTypeOK, Ignition
    <3>3. rows' \in [Sims -> Aggregate \cup {NoRow}]
      BY <2>2, <3>1, SaveType DEF SaveIgnition, Ignition
    <3> QED
      BY <1>1, <2>2, <3>2, <3>3 DEF SaveIgnition, ServicesTypeOK
  <2>3. CASE PublishIgnition(c)
    <3>1. req[c] \in Ignition
      BY <2>3, RequestShape DEF PublishIgnition, Igniting
    <3>2. OrchestratorTypeOK'
      BY <2>3, <3>1 DEF PublishIgnition, Goto, OrchestratorTypeOK, Ignition
    <3>3. feed' \in [Sims -> Seq(Event)]
      BY <2>3, <3>1, IgnitionEvents, PublishType DEF PublishIgnition, Ignition
    <3> QED
      BY <1>1, <2>3, <3>2, <3>3 DEF PublishIgnition, ServicesTypeOK
  <2>4. CASE DispatchIgnition(c)
    <3>1. req[c] \in Ignition
      BY <2>4, RequestShape DEF DispatchIgnition, Igniting
    <3>2. OrchestratorTypeOK'
      BY <2>4 DEF DispatchIgnition, OrchestratorTypeOK
    <3>3. runQueue' \in [Profiles -> Seq(Sims)]
      BY <2>4, <3>1 DEF DispatchIgnition, DispatchRun, ServicesTypeOK, Ignition, Aggregate
    <3> QED
      BY <1>1, <2>4, <3>2, <3>3 DEF DispatchIgnition, ServicesTypeOK
  <2>5. CASE DispatchFinish(c)
    <3>1. req[c] \in Abortion
      BY <2>5, RequestShape DEF DispatchFinish
    <3>2. OrchestratorTypeOK'
      BY <2>5 DEF DispatchFinish, OrchestratorTypeOK
    <3>3. abortQueue' \in Seq(AbortCommand)
      BY <2>5, <3>1 DEF DispatchFinish, DispatchAbort, ServicesTypeOK, Abortion, AbortCommand
    <3> QED
      BY <1>1, <2>5, <3>2, <3>3 DEF DispatchFinish, ServicesTypeOK
  <2> QED
    BY <1>6, <2>1, <2>2, <2>3, <2>4, <2>5 DEF Serve
<1>7. CASE RequestFails(c)
  BY <1>1, <1>7 DEF RequestFails, Fault, OrchestratorTypeOK, ServicesTypeOK
<1> QED
  BY <1>2, <1>3, <1>4, <1>5, <1>6, <1>7

LEMMA RunHandlingTypes ==
    ASSUME TypeOK, NEW w \in Workers, TakeRun(w) \/ HandleRun(w)
    PROVE  ServicesTypeOK' /\ WorkerTypeOK'
<1> USE DEF TypeOK
<1>1. CASE TakeRun(w)
  <2>1. Head(runQueue[ProfileOf[w]]) \in Sims
    BY <1>1 DEF TakeRun, ServicesTypeOK
  <2>2. runQueue' \in [Profiles -> Seq(Sims)]
    BY <1>1 DEF TakeRun, ServicesTypeOK
  <2>3. runHandler' \in [Workers -> Sims \cup {NoSim}]
    BY <1>1, <2>1 DEF TakeRun, WorkerTypeOK
  <2> QED
    BY <1>1, <2>2, <2>3 DEF TakeRun, ServicesTypeOK, WorkerTypeOK
<1>2. ASSUME NEW s \in Sims, NEW r \in Runs, NEW pc \in {"sleep", "save"},
             NEW copy \in Aggregate, Launch(w, s, r, NewRun(w, s, pc, copy))
      PROVE  ServicesTypeOK' /\ WorkerTypeOK'
  <2>1. NewRun(w, s, pc, copy) \in Run
    BY DEF NewRun, Run
  <2>2. runs' \in [Runs -> {Free} \cup Run]
    BY <1>2, <2>1 DEF Launch, WorkerTypeOK
  <2>3. inFlight' \in [Workers -> [Sims -> Runs \cup {NoRun}]]
    BY <1>2 DEF Launch, WorkerTypeOK
  <2> QED
    BY <1>2, <2>2, <2>3 DEF Launch, ServicesTypeOK, WorkerTypeOK
<1>3. CASE BeginRun(w)
  <2>1. runHandler[w] \in Sims
    BY <1>3 DEF BeginRun, WorkerTypeOK
  <2>2. CASE rows[runHandler[w]] = NoRow
    BY <1>3, <2>2 DEF BeginRun, serviceVars, ServicesTypeOK, WorkerTypeOK
  <2>3. CASE rows[runHandler[w]] # NoRow
    <3>1. PICK r \in Runs :
            Launch(w, runHandler[w], r, NewRun(w, runHandler[w], "sleep", rows[runHandler[w]]))
      BY <1>3, <2>3 DEF BeginRun
    <3>2. rows[runHandler[w]] \in Aggregate
      BY <2>1, <2>3 DEF ServicesTypeOK
    <3> QED
      BY <1>2, <2>1, <3>1, <3>2
  <2> QED
    BY <2>2, <2>3
<1>4. CASE BeginEmptyRun(w)
  <2>1. runHandler[w] \in Sims /\ rows[runHandler[w]] \in Aggregate
    BY <1>4 DEF BeginEmptyRun, ServicesTypeOK, WorkerTypeOK
  <2>2. PICK r \in Runs :
          Launch(w, runHandler[w], r,
                 NewRun(w, runHandler[w], "save", Finish(rows[runHandler[w]], now)))
    BY <1>4 DEF BeginEmptyRun
  <2>3. Finish(rows[runHandler[w]], now) \in Aggregate
    BY <2>1, AggregateOperators DEF ServicesTypeOK
  <2> QED
    BY <1>2, <2>1, <2>2, <2>3
<1>5. CASE BeginThrows(w)
  <2>1. PICK job \in {runHandler[w], NoSim} : Dies(w, job)
    BY <1>5 DEF BeginThrows
  <2>2. job \in Sims \cup {NoSim}
    BY <2>1 DEF WorkerTypeOK
  <2> QED
    BY <1>5, <2>1, <2>2, DeathTypes DEF BeginThrows, ServicesTypeOK
<1> QED
  BY <1>1, <1>3, <1>4, <1>5 DEF HandleRun

LEMMA EngineTypes ==
    ASSUME TypeOK, NEW r \in Runs, Engine(r)
    PROVE  ServicesTypeOK' /\ WorkerTypeOK'
<1> USE DEF TypeOK
<1>1. /\ Live(r)
      /\ runs[r] \in Run
      /\ runs[r].worker \in Workers
      /\ runs[r].sim \in Sims
      /\ runs[r].copy \in Aggregate
  <2>1. Live(r)
    BY RunShape DEF Engine, Wake, WakeThrows, SaveRun, PublishAndExit, PublishAndSleep,
                    PublishAndFinish, PublishAndGoOn
  <2> QED
    BY <2>1, RunShape DEF Run
<1>2. RunEvent(r) \in Event
  BY <1>1, EventTypes DEF RunEvent
<1>3. CASE Wake(r)
  <2>1. [runs[r] EXCEPT !.copy = ApplyGoal(@), !.tick = @ + 1, !.pc = "save"] \in Run
    <3> DEFINE copy == ApplyGoal(runs[r].copy)
               tick == runs[r].tick + 1
    <3>1. copy \in Aggregate /\ tick \in Nat
      BY <1>1, ApplyGoalType DEF Run
    <3> HIDE DEF copy, tick
    <3>2. [runs[r] EXCEPT !.copy = copy, !.tick = tick, !.pc = "save"] \in Run
      BY <1>1, <3>1 DEF Run
    <3> QED
      BY <3>2 DEF copy, tick
  <2>2. WorkerTypeOK'
    BY <1>3, <2>1 DEF Wake, WorkerTypeOK
  <2> QED
    BY <1>3, <2>2 DEF Wake, serviceVars, ServicesTypeOK
<1>4. CASE WakeThrows(r)
  <2>1. runHandler[runs[r].worker] \in Sims \cup {NoSim}
    BY <1>1 DEF WorkerTypeOK
  <2> QED
    BY <1>1, <1>4, <2>1, DeathTypes DEF WakeThrows, ServicesTypeOK
<1>5. CASE SaveRun(r)
  <2>1. rows' \in [Sims -> Aggregate \cup {NoRow}]
    BY <1>1, <1>5, SaveType DEF SaveRun
  <2>2. WorkerTypeOK'
    BY <1>1, <1>5 DEF SaveRun, WorkerTypeOK, Run
  <2> QED
    BY <1>5, <2>1, <2>2 DEF SaveRun, ServicesTypeOK
<1>6. CASE PublishAndExit(r)
  BY <1>1, <1>2, <1>6, PublishType, ExitTypes DEF PublishAndExit, ServicesTypeOK
<1>7. CASE PublishAndSleep(r)
  <2>1. feed' \in [Sims -> Seq(Event)]
    BY <1>1, <1>2, <1>7, PublishType DEF PublishAndSleep, PublishAndGoOn
  <2>2. WorkerTypeOK'
    BY <1>1, <1>7 DEF PublishAndSleep, WorkerTypeOK, Run
  <2> QED
    BY <1>7, <2>1, <2>2 DEF PublishAndSleep, ServicesTypeOK
<1>8. CASE PublishAndFinish(r)
  <2>1. feed' \in [Sims -> Seq(Event)]
    BY <1>1, <1>2, <1>8, PublishType DEF PublishAndFinish, PublishAndGoOn
  <2>2. [runs[r] EXCEPT !.copy = Finish(@, now), !.pc = "save"] \in Run
    BY <1>1, AggregateOperators DEF Run, ServicesTypeOK
  <2>3. WorkerTypeOK'
    BY <1>8, <2>2 DEF PublishAndFinish, WorkerTypeOK
  <2> QED
    BY <1>8, <2>1, <2>3 DEF PublishAndFinish, ServicesTypeOK
<1> QED
  BY <1>3, <1>4, <1>5, <1>6, <1>7, <1>8 DEF Engine

(* abort() on a run that has settled changes nothing. *)
LEMMA AbortedRunType ==
    ASSUME WorkerTypeOK, NEW r \in Runs
    PROVE  [runs[r] EXCEPT !.aborted = TRUE] \in {Free} \cup Run
<1>1. CASE Live(r)
  BY <1>1, RunShape DEF Run
<1>2. CASE ~Live(r)
  BY <1>2 DEF Live, Free
<1> QED
  BY <1>1, <1>2

LEMMA AbortHandlingTypes ==
    ASSUME TypeOK, NEW w \in Workers, DropAbort(w) \/ TakeAbort(w) \/ HandleAbort(w)
    PROVE  ServicesTypeOK' /\ WorkerTypeOK'
<1> USE DEF TypeOK
<1>1. CASE DropAbort(w)
  BY <1>1 DEF DropAbort, CanTakeAbort, workerVars, ServicesTypeOK, WorkerTypeOK
<1>2. CASE TakeAbort(w)
  <2> DEFINE s == Head(abortQueue).sim
             t == Head(abortQueue).finishedAt
  <2>1. /\ s \in Sims
        /\ t \in Nat
        /\ Target(w) \in Runs
        /\ abortQueue' \in Seq(AbortCommand)
    <3>1. Head(abortQueue) \in AbortCommand
      BY <1>2 DEF TakeAbort, CanTakeAbort, ServicesTypeOK
    <3>2. s \in Sims /\ t \in Nat
      BY <3>1 DEF AbortCommand
    <3>3. Target(w) \in Runs
      BY <1>2, <3>2 DEF TakeAbort, Target, WorkerTypeOK
    <3>4. abortQueue' \in Seq(AbortCommand)
      BY <1>2 DEF TakeAbort, CanTakeAbort, ServicesTypeOK
    <3> QED
      BY <3>2, <3>3, <3>4
  <2>2. /\ [pc |-> "find", sim |-> s, finishedAt |-> t] \in AbortHandler
        /\ [pc |-> "draining", sim |-> s, finishedAt |-> t, run |-> Target(w)] \in AbortHandler
    BY <2>1 DEF AbortHandler, Draining, Finding
  <2>3. abortHandler' \in [Workers -> AbortHandler]
    BY <1>2, <2>2 DEF TakeAbort, WorkerTypeOK
  <2>4. /\ inFlight' \in [Workers -> [Sims -> Runs \cup {NoRun}]]
        /\ runs' \in [Runs -> {Free} \cup Run]
    <3>1. CASE runs[Target(w)].pc = "sleep"
      <4>1. /\ inFlight' = [inFlight EXCEPT ![w][s] = NoRun]
            /\ runs' = [runs EXCEPT ![Target(w)] = Free]
        BY <1>2, <3>1 DEF TakeAbort
      <4> QED
        BY <2>1, <4>1 DEF WorkerTypeOK
    <3>2. CASE runs[Target(w)].pc # "sleep"
      <4>1. /\ inFlight' = inFlight
            /\ runs' = [runs EXCEPT ![Target(w)].aborted = TRUE]
        BY <1>2, <3>2 DEF TakeAbort
      <4>2. [runs[Target(w)] EXCEPT !.aborted = TRUE] \in {Free} \cup Run
        BY <2>1, AbortedRunType
      <4> QED
        BY <2>1, <4>1, <4>2 DEF WorkerTypeOK
    <3> QED
      BY <3>1, <3>2
  <2> QED
    BY <1>2, <2>1, <2>3, <2>4 DEF TakeAbort, ServicesTypeOK, WorkerTypeOK
<1>3. CASE AbortFind(w)
  <2> DEFINE h == abortHandler[w]
             copy == Finish(rows[h.sim], h.finishedAt)
  <2>1. h \in Finding
    BY <1>3, HandlerShape DEF AbortFind, WorkerTypeOK
  <2>2. ASSUME rows[h.sim] # NoRow
        PROVE  [pc |-> "save", sim |-> h.sim, finishedAt |-> h.finishedAt, copy |-> copy]
                 \in AbortHandler
    <3>1. copy \in Aggregate
      BY <2>1, <2>2, AggregateOperators DEF Finding, ServicesTypeOK
    <3> QED
      BY <2>1, <3>1 DEF Finding, Finishing, AbortHandler
  <2>3. abortHandler' \in [Workers -> AbortHandler]
    BY <1>3, <2>2 DEF AbortFind, WorkerTypeOK, AbortHandler
  <2> QED
    BY <1>3, <2>3 DEF AbortFind, serviceVars, ServicesTypeOK, WorkerTypeOK
<1>4. CASE AbortSave(w)
  <2>1. abortHandler[w] \in Finishing
    BY <1>4, HandlerShape DEF AbortSave, WorkerTypeOK
  <2>2. rows' \in [Sims -> Aggregate \cup {NoRow}]
    BY <1>4, <2>1, SaveType DEF AbortSave, Finishing
  <2>3. abortHandler' \in [Workers -> AbortHandler]
    BY <1>4, <2>1 DEF AbortSave, WorkerTypeOK, AbortHandler, Finishing
  <2> QED
    BY <1>4, <2>2, <2>3 DEF AbortSave, ServicesTypeOK, WorkerTypeOK
<1>5. CASE AbortPublish(w)
  <2>1. abortHandler[w] \in Finishing
    BY <1>5, HandlerShape DEF AbortPublish, WorkerTypeOK
  <2>2. SimulationFinished("manual", abortHandler[w].copy) \in Event
    BY <2>1, EventTypes DEF Finishing
  <2>3. feed' \in [Sims -> Seq(Event)]
    BY <1>5, <2>1, <2>2, PublishType DEF AbortPublish, Finishing
  <2> QED
    BY <1>5, <2>3 DEF AbortPublish, ServicesTypeOK, WorkerTypeOK, AbortHandler
<1> QED
  BY <1>1, <1>2, <1>3, <1>4, <1>5 DEF HandleAbort

LEMMA ProcessTypes ==
    ASSUME TypeOK, NEW w \in Workers,
           \/ Shutdown(w) \/ Stop(w) \/ Boot(w) \/ Crash(w)
           \/ RunHandlerFails(w) \/ AbortHandlerFails(w)
    PROVE  ServicesTypeOK' /\ WorkerTypeOK'
<1> USE DEF TypeOK
<1>1. CASE Shutdown(w)
  BY <1>1 DEF Shutdown, Fault, ServicesTypeOK, WorkerTypeOK
<1>2. CASE CloseAborts(w)
  BY <1>2 DEF CloseAborts, serviceVars, ServicesTypeOK, WorkerTypeOK
<1>3. CASE AbortInFlight(w)
  <2>1. runs' \in [Runs -> {Free} \cup Run]
    BY <1>3, AbortedRunType DEF AbortInFlight, WorkerTypeOK
  <2>2. inFlight' \in [Workers -> [Sims -> Runs \cup {NoRun}]]
    BY <1>3 DEF AbortInFlight, WorkerTypeOK
  <2> QED
    BY <1>3, <2>1, <2>2 DEF AbortInFlight, serviceVars, ServicesTypeOK, WorkerTypeOK
<1>4. CASE Drained(w)
  BY <1>4, DeathTypes DEF Drained, ServicesTypeOK
<1>5. CASE Boot(w)
  BY <1>5 DEF Boot, serviceVars, ServicesTypeOK, WorkerTypeOK
<1>6. CASE Crash(w)
  <2>1. runHandler[w] \in Sims \cup {NoSim}
    BY DEF WorkerTypeOK
  <2> QED
    BY <1>6, <2>1, DeathTypes DEF Crash, Fault, ServicesTypeOK
<1>7. CASE RunHandlerFails(w)
  BY <1>7 DEF RunHandlerFails, Fault, ServicesTypeOK, WorkerTypeOK
<1>8. CASE AbortHandlerFails(w)
  BY <1>8 DEF AbortHandlerFails, Fault, ServicesTypeOK, WorkerTypeOK, AbortHandler
<1> QED
  BY <1>1, <1>2, <1>3, <1>4, <1>5, <1>6, <1>7, <1>8 DEF Stop

LEMMA FailedRunTypes ==
    ASSUME TypeOK, NEW r \in Runs, AwaitedRunFails(r) \/ UnawaitedRunFails(r)
    PROVE  ServicesTypeOK' /\ WorkerTypeOK'
<1> USE DEF TypeOK
<1>1. Live(r) /\ runs[r].worker \in Workers
  BY RunShape DEF AwaitedRunFails, UnawaitedRunFails, Run
<1>2. CASE AwaitedRunFails(r)
  BY <1>1, <1>2, ExitTypes DEF AwaitedRunFails, Fault, ServicesTypeOK
<1>3. CASE UnawaitedRunFails(r)
  <2>1. runHandler[runs[r].worker] \in Sims \cup {NoSim}
    BY <1>1 DEF WorkerTypeOK
  <2> QED
    BY <1>1, <1>3, <2>1, DeathTypes DEF UnawaitedRunFails, Fault, ServicesTypeOK
<1> QED
  BY <1>2, <1>3

(* TypeOK is an invariant of the system. *)
THEOREM TypeCorrect == Spec => []TypeOK
<1>1. Init => TypeOK
  BY DEF Init, TypeOK, ServicesInit, ServicesTypeOK, OrchestratorInit, OrchestratorTypeOK,
         WorkerInit, WorkerTypeOK, AbortHandler
<1>2. TypeOK /\ [Next]_vars => TypeOK'
  <2> SUFFICES ASSUME TypeOK, [Next]_vars PROVE TypeOK'
    OBVIOUS
  <2>1. CASE Tick /\ UNCHANGED <<req, workerVars>>
    BY <2>1 DEF Tick, workerVars, TypeOK, ServicesTypeOK, OrchestratorTypeOK, WorkerTypeOK
  <2>2. CASE OrchestratorNext
    BY <2>2, OrchestratorTypes
  <2>3. CASE WorkerNext
    <3>1. OrchestratorTypeOK'
      BY <2>3 DEF WorkerNext, TypeOK, OrchestratorTypeOK
    <3>2. ServicesTypeOK' /\ WorkerTypeOK'
      BY <2>3, RunHandlingTypes, AbortHandlingTypes, EngineTypes, ProcessTypes, FailedRunTypes
         DEF WorkerNext
    <3> QED
      BY <3>1, <3>2 DEF TypeOK
  <2>4. CASE UNCHANGED vars
    BY <2>4 DEF vars, serviceVars, workerVars, TypeOK, ServicesTypeOK, OrchestratorTypeOK,
                WorkerTypeOK
  <2> QED
    BY <2>1, <2>2, <2>3, <2>4 DEF Next
<1> QED
  BY <1>1, <1>2, PTL DEF Spec

=============================================================================
