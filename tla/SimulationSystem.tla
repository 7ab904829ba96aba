-------------------------- MODULE SimulationSystem --------------------------
(***************************************************************************)
(* The deployment: the orchestrator's requests, the workers and what they  *)
(* share.  Patient selects what the clients may do:                        *)
(*   FALSE  anything the API accepts;                                      *)
(*   TRUE   a simulation is restarted only after its room was told that it *)
(*          finished, and while no finish request for it is under way.     *)
(***************************************************************************)
EXTENDS Orchestrator, Worker, FiniteSets

CONSTANT Patient

ASSUME PatientAssumption == Patient \in BOOLEAN

vars == <<serviceVars, req, workerVars>>

Init ==
    /\ ServicesInit
    /\ OrchestratorInit
    /\ WorkerInit

(* A finish request for s is under way. *)
FinishPending(s) ==
    \/ \E c \in Clients : req[c].pc = "abort" /\ req[c].sim = s
    \/ \E i \in DOMAIN abortQueue : abortQueue[i].sim = s
    \/ \E w \in Workers : abortHandler[w] # Resting /\ abortHandler[w].sim = s

SeenFinished(s) ==
    /\ feed[s] # << >>
    /\ feed[s][Len(feed[s])].type = "SimulationFinished"

ClientRestarts(c) ==
    /\ RestartRequest(c)
    /\ Patient => /\ SeenFinished(req'[c].sim)
                  /\ ~FinishPending(req'[c].sim)

(* The calls of a request that is already open. *)
Serve(c) ==
    \/ EnsureCanIgnite(c)
    \/ SaveIgnition(c)
    \/ PublishIgnition(c)
    \/ DispatchIgnition(c)
    \/ DispatchFinish(c)

OrchestratorNext ==
    /\ \E c \in Clients :
        \/ StartRequest(c)
        \/ ClientRestarts(c)
        \/ FinishRequest(c)
        \/ Serve(c)
        \/ RequestFails(c)
    /\ UNCHANGED workerVars

HandleRun(w) ==
    \/ BeginRun(w)
    \/ BeginEmptyRun(w)
    \/ BeginThrows(w)

HandleAbort(w) ==
    \/ AbortFind(w)
    \/ AbortSave(w)
    \/ AbortPublish(w)

Engine(r) ==
    \/ Wake(r)
    \/ WakeThrows(r)
    \/ SaveRun(r)
    \/ PublishAndExit(r)
    \/ PublishAndSleep(r)
    \/ PublishAndFinish(r)

Stop(w) ==
    \/ CloseAborts(w)
    \/ AbortInFlight(w)
    \/ Drained(w)

WorkerNext ==
    /\ \/ \E w \in Workers :
            \/ TakeRun(w)
            \/ HandleRun(w)
            \/ DropAbort(w)
            \/ TakeAbort(w)
            \/ HandleAbort(w)
            \/ Shutdown(w)
            \/ Stop(w)
            \/ Boot(w)
            \/ Crash(w)
            \/ RunHandlerFails(w)
            \/ AbortHandlerFails(w)
       \/ \E r \in Runs :
            \/ Engine(r)
            \/ AwaitedRunFails(r)
            \/ UnawaitedRunFails(r)
    /\ UNCHANGED req

Next ==
    \/ Tick /\ UNCHANGED <<req, workerVars>>
    \/ OrchestratorNext
    \/ WorkerNext

Spec == Init /\ [][Next]_vars

(* Every process that is up is scheduled, every awaited call of a request  *)
(* or a handler is answered, every timer fires, every queue with a free    *)
(* consumer is served, a process that ended is started again.  Clients     *)
(* need do nothing, and the clock need not advance.                        *)
Fairness ==
    /\ \A c \in Clients : WF_vars(Serve(c) /\ UNCHANGED workerVars)
    /\ \A w \in Workers :
        /\ WF_vars(TakeRun(w) /\ UNCHANGED req)
        /\ WF_vars(HandleRun(w) /\ UNCHANGED req)
        /\ WF_vars((DropAbort(w) \/ TakeAbort(w)) /\ UNCHANGED req)
        /\ WF_vars(HandleAbort(w) /\ UNCHANGED req)
        /\ WF_vars(Stop(w) /\ UNCHANGED req)
        /\ WF_vars(Boot(w) /\ UNCHANGED req)
    /\ \A r \in Runs : WF_vars(Engine(r) /\ UNCHANGED req)

FairSpec == Spec /\ Fairness

-----------------------------------------------------------------------------
(* Properties of every deployment, whatever the clients and the faults do. *)

(* The variables hold values of their types. *)
TypeOK ==
    /\ ServicesTypeOK
    /\ OrchestratorTypeOK
    /\ WorkerTypeOK

(* save comes before dispatch: whatever a queue, a handler or a run names  *)
(* has a row, so the handlers never drop a command for want of one.        *)
CommandsHaveRows ==
    /\ \A p \in Profiles : \A i \in DOMAIN runQueue[p] : rows[runQueue[p][i]] # NoRow
    /\ \A i \in DOMAIN abortQueue : rows[abortQueue[i].sim] # NoRow
    /\ \A w \in Workers :
        /\ runHandler[w] # NoSim => rows[runHandler[w]] # NoRow
        /\ abortHandler[w] # Resting => rows[abortHandler[w].sim] # NoRow
    /\ \A r \in Runs : Live(r) => rows[runs[r].sim] # NoRow

(* Every save writes all the columns, and many actors save copies they     *)
(* read long ago.  None of them holds a copy of another simulation's       *)
(* owner or profile, and no RUN command reaches a worker of another        *)
(* profile.                                                                *)
SameIdentity(copy, s) ==
    rows[s] # NoRow => copy.owner = rows[s].owner /\ copy.profile = rows[s].profile

CopiesKeepIdentity ==
    /\ \A c \in Clients : Igniting(c) => SameIdentity(req[c].copy, req[c].sim)
    /\ \A w \in Workers : abortHandler[w].pc \in {"save", "publish"} =>
          SameIdentity(abortHandler[w].copy, abortHandler[w].sim)
    /\ \A r \in Runs : Live(r) =>
          /\ SameIdentity(runs[r].copy, runs[r].sim)
          /\ runs[r].copy.profile = ProfileOf[runs[r].worker]

(* The inFlight map has no dead entries: what handleAbort, shutdown and    *)
(* drainInFlight find there is a live run of that worker and simulation.   *)
InFlightIsLive ==
    \A w \in Workers, s \in Sims :
        inFlight[w][s] # NoRun =>
            /\ Live(inFlight[w][s])
            /\ runs[inFlight[w][s]].worker = w
            /\ runs[inFlight[w][s]].sim = s

(* No lost wake-up: an aborted run is not asleep, it has at most a save    *)
(* and a publish left to do; and the run a handler of ABORT waits for is   *)
(* alive, in the handler's process, and aborted.                           *)
DrainIsPrompt ==
    /\ \A r \in Runs : Live(r) /\ runs[r].aborted => runs[r].pc # "sleep"
    /\ \A w \in Workers : abortHandler[w].pc = "draining" =>
          LET r == abortHandler[w].run IN
          Live(r) /\ runs[r].worker = w /\ runs[r].aborted

(* A row is never deleted, and its owner and profile never change.         *)
IdentityIsStable ==
    [][\A s \in Sims : rows[s] # NoRow =>
          /\ rows'[s] # NoRow
          /\ rows'[s].owner = rows[s].owner
          /\ rows'[s].profile = rows[s].profile]_vars

(* An aborted run scores no goal and finishes nothing any more: it keeps   *)
(* its copy until it returns.                                              *)
AbortedRunsAreOver ==
    [][\A r \in Runs : Live(r) /\ runs[r].aborted =>
          \/ runs'[r] = Free
          \/ runs'[r].aborted /\ runs'[r].copy = runs[r].copy]_vars

(* A handler of ABORT is not stuck behind a run.                           *)
AbortsReturn ==
    \A w \in Workers : abortHandler[w] # Resting ~> abortHandler[w] = Resting

-----------------------------------------------------------------------------
(* The throttle. *)

(* SaveIgnition of s is the step taken. *)
Ignites(s) ==
    \E c \in Clients :
        req[c].pc = "save" /\ req'[c].pc = "publish" /\ req[c].sim = s

(* Two ignitions of one owner are a cooldown apart.  It takes an owner who *)
(* sends one request at a time: the check and the save are two calls.      *)
IgnitionsAreApart ==
    [][\A s, t \in Sims :
          Ignites(s) /\ rows[t] # NoRow /\ rows'[s].owner = rows[t].owner =>
              rows'[s].startedAt - rows[t].startedAt >= Cooldown]_vars

-----------------------------------------------------------------------------
(* Properties of patient clients, each owner sending one request at a time.*)

(* Whatever may still change the row of s: a request about to dispatch, a  *)
(* RUN command, its handler, a run with something left to save, a handler  *)
(* of ABORT that is to finish the simulation.                              *)
Drivers(s) ==
    ({"request"} \X {c \in Clients : req[c].pc \in {"publish", "dispatch"} /\ req[c].sim = s})
    \cup (UNION {{<<"command", p, i>> : i \in {j \in DOMAIN runQueue[p] : runQueue[p][j] = s}}
                 : p \in Profiles})
    \cup ({"runHandler"} \X {w \in Workers : runHandler[w] = s})
    \cup ({"run"} \X {r \in Runs :
            /\ Live(r)
            /\ runs[r].sim = s
            /\ runs[r].pc = "publish" => runs[r].copy.state = "RUNNING"})
    \cup ({"abortHandler"} \X {w \in Workers :
            /\ abortHandler[w].pc \in {"find", "save"}
            /\ abortHandler[w].sim = s
            /\ abortHandler[w].pc = "find" => rows[s].state = "RUNNING"})

(* Nobody writes behind another's back: a RUNNING simulation has at most   *)
(* one driver, a FINISHED one has none.                                    *)
AtMostOneDriver ==
    \A s \in Sims : rows[s] # NoRow =>
        Cardinality(Drivers(s)) <= (IF rows[s].state = "RUNNING" THEN 1 ELSE 0)

(* A RUNNING simulation is driven: nothing but its driver will finish it,  *)
(* and while it is RUNNING it cannot be restarted.                         *)
RunningIsDriven ==
    \A s \in Sims : rows[s] # NoRow /\ rows[s].state = "RUNNING" => Drivers(s) # {}

(* What a room is told: the ignition, then goals 1, 2, ..., then at most   *)
(* once the end, with the number of goals told; a run of fixed length that *)
(* ends by itself had all its goals.                                       *)
FeedInOrder ==
    \A s \in Sims : LET f == feed[s] IN
        \A i \in DOMAIN f :
            CASE i = 1 -> f[i] \in Ignitions
              [] i > 1 /\ f[i].type = "GoalScored" -> f[i].totalGoals = i - 1
              [] i > 1 /\ f[i].type = "SimulationFinished" ->
                   /\ i = Len(f)
                   /\ f[i].totalGoals = i - 2
                   /\ f[i].reason = "auto" /\ rows[s].profile \in FixedLength =>
                        f[i].totalGoals = GoalCount
              [] OTHER -> FALSE

(* What a row looks like when event is told. *)
Agrees(event, row) ==
    CASE event \in Ignitions -> row.state = "RUNNING" /\ row.totalGoals = 0
      [] event.type = "GoalScored" ->
           row.state = "RUNNING" /\ row.totalGoals = event.totalGoals
      [] event.type = "SimulationFinished" ->
           row.state = "FINISHED" /\ row.totalGoals = event.totalGoals

(* save comes before publish: at the moment an event is told, GET answers  *)
(* with the state the event reports.                                       *)
ToldIsStored ==
    [][\A s \in Sims : feed'[s] # feed[s] => Agrees(feed'[s][Len(feed'[s])], rows[s])]_vars

(* The goals the room of s was told of since the last ignition it heard.   *)
ToldGoals(s) ==
    IF feed[s] = << >> \/ feed[s][Len(feed[s])] \in Ignitions
    THEN 0
    ELSE feed[s][Len(feed[s])].totalGoals

(* A publish may reject after its save (simulation-worker.handler.ts:83)   *)
(* and is not tried again, but then the run goes no further: whatever      *)
(* failed, a room never lacks more than one of the goals of its row.       *)
RoomsAreClose ==
    \A s \in Sims : rows[s] # NoRow => rows[s].totalGoals <= ToldGoals(s) + 1

(* A simulation that loses its driver while it is RUNNING, by a rejected   *)
(* dispatch, a failed handler of ABORT, a crash or SIGTERM, has lost it    *)
(* for good: nothing that is under way, no command given back, no request  *)
(* to finish or to restart it writes its row again or gives it another     *)
(* driver.                                                                 *)
StrandedStays ==
    [][\A s \in Sims :
          rows[s] # NoRow /\ rows[s].state = "RUNNING" /\ Drivers(s) = {} =>
              rows'[s] = rows[s] /\ Drivers(s)' = {}]_vars

(* No run ever reaches applyGoal or finish with a FINISHED copy, which     *)
(* would end the process and every other run in it.                        *)
WorkersSurvive == \A w \in Workers : phase[w] # "down"

(* The rows, as a reader of GET /simulations sees them. *)
LifeOf(s) ==
    CASE rows[s] = NoRow -> NoRow
      [] rows[s] # NoRow /\ rows[s].state = "RUNNING" ->
           [state |-> "RUNNING", goals |-> rows[s].totalGoals, startedAt |-> rows[s].startedAt]
      [] rows[s] # NoRow /\ rows[s].state = "FINISHED" ->
           [state |-> "FINISHED", goals |-> rows[s].totalGoals,
            startedAt |-> rows[s].startedAt, finishedAt |-> rows[s].finishedAt]

Lifecycle == INSTANCE SimulationLifecycle WITH
    life <- [s \in Sims |-> LifeOf(s)],
    Absent <- NoRow,
    MaxGoals <- GoalCount

(* What findById returns for an unknown id is not the life of a row.       *)
ASSUME LifeAssumption == NoRow \notin Lifecycle!Lives

(* The table implements the life cycle; under fairness every simulation    *)
(* that is RUNNING makes progress and ends.                                *)
LifecycleSteps == Lifecycle!Init /\ [][Lifecycle!Next]_(Lifecycle!vars)

LifecycleSpec == Lifecycle!Spec

-----------------------------------------------------------------------------
(* What the documents say and the code does not do. *)

(* The state diagram has one way back to RUNNING, restart(): a simulation  *)
(* that is FINISHED becomes RUNNING only when a restart is saved.          *)
OnlyRestartRevives ==
    [][\A s \in Sims :
          /\ rows[s] # NoRow /\ rows[s].state = "FINISHED"
          /\ rows'[s].state = "RUNNING"
          => Ignites(s)]_vars

(* "simulation.abort = broadcast": an ABORT command reaches the run it is  *)
(* meant for, on whichever worker it is.                                   *)
AbortReachesTheRun ==
    [][\A r \in Runs :
          /\ abortQueue # << >>
          /\ abortQueue' = Tail(abortQueue)
          /\ Live(r)
          /\ runs[r].sim = Head(abortQueue).sim
          => runs'[r] = Free \/ runs'[r].aborted]_vars

=============================================================================
