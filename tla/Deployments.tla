----------------------------- MODULE Deployments -----------------------------
(***************************************************************************)
(* How the environment variables wire the processes of a deployment: which *)
(* module a process runs, which queues and which table it shares with      *)
(* which others.  Every combination is possible and none is refused.       *)
(* Starts and restarts advance one awaited call at a time; the handlers    *)
(* and the runs of SimulationSystem are one step each here.  Patient       *)
(* selects what the clients may do:                                        *)
(*   FALSE  anything the API accepts;                                      *)
(*   TRUE   a simulation is restarted only while no other start or restart *)
(*          of it is being answered.                                       *)
(***************************************************************************)
EXTENDS Naturals, Sequences, FiniteSets

CONSTANTS
    Processes,
    Clients,     \* HTTP clients
    Sims,        \* simulation ids (UUIDs)
    Profiles,
    Environments,  \* the environment variables each process may be given
    NoRow,       \* what findById returns for an unknown id
    Silence,     \* the room was told nothing yet
    Patient,     \* TRUE if no two ignitions of a simulation overlap
    MaxWaiting,  \* bound: requests that enqueue wait for queues that long
    MaxCrashes   \* bound: how often a process dies, in a behaviour

(* ConfigSchema, as far as it decides on the wiring. *)
Config ==
    [APP_MODE: {"orchestrator", "worker"},
     TRANSPORT_MODE: {"inmemory", "bullmq"},
     PERSISTENCE_MODE: {"inmemory", "postgres"},
     SIMULATION_PROFILE: Profiles]

ASSUME DeploymentAssumption ==
    /\ Environments \in [Processes -> SUBSET Config]
    /\ {"redis", "postgres"} \cap Processes = {}
    /\ NoRow \notin [profile: Profiles, state: {"RUNNING", "FINISHED"}]
    /\ NoRow \notin {"RUNNING", "FINISHED"}
    /\ Patient \in BOOLEAN
    /\ MaxWaiting \in Nat
    /\ MaxCrashes \in Nat

VARIABLES
    config,   \* the environment variables of each process
    req,      \* the start or restart each client has open
    rows,     \* each table of simulations
    jobs,     \* topics simulation.run.<profile> in Redis
    aborts,   \* topic simulation.abort in Redis
    news,     \* queue simulation.events in Redis
    driving,  \* inFlight of each process
    told,     \* what the room of each simulation at each orchestrator was told last
    crashes   \* crashes so far

vars == <<config, req, rows, jobs, aborts, news, driving, told, crashes>>

Row == [profile: Profiles, state: {"RUNNING", "FINISHED"}]

Stores == Processes \cup {"postgres"}

Idle == [pc |-> "idle"]

(* pc names the call that is next; at is the process that serves it. *)
Ignition ==
    [pc: {"save", "publish", "dispatch"}, at: Processes, sim: Sims, profile: Profiles,
     event: {"started", "restarted"}]

(* SimulationModule runs in the processes started by main.ts. *)
Orchestrators == {p \in Processes : config[p].APP_MODE = "orchestrator"}

(* Whose queues a process uses: WorkerModule takes BullMQ without asking.  *)
Bus(p) ==
    IF p \in Orchestrators /\ config[p].TRANSPORT_MODE = "inmemory" THEN p ELSE "redis"

(* createSimulationRepository *)
Store(p) == IF config[p].PERSISTENCE_MODE = "postgres" THEN "postgres" ELSE p

Init ==
    /\ config \in [Processes -> Config]
    /\ \A p \in Processes : config[p] \in Environments[p]
    /\ req = [c \in Clients |-> Idle]
    /\ rows = [t \in Stores |-> [s \in Sims |-> NoRow]]
    /\ jobs = [f \in Profiles |-> << >>]
    /\ aborts = << >>
    /\ news = << >>
    /\ driving = [p \in Processes |-> {}]
    /\ told = [p \in Processes |-> [s \in Sims |-> Silence]]
    /\ crashes = 0

-----------------------------------------------------------------------------

State(t, s) == IF rows[t][s] = NoRow THEN NoRow ELSE rows[t][s].state

Save(p, s, row) == rows' = [rows EXCEPT ![Store(p)][s] = row]

(* Mutant: the worker's publisher is wired to an in-memory bus. *)
PublishInProcess(p, s, event) == told' = [told EXCEPT ![p][s] = event] /\ UNCHANGED news

(* Redis takes the event for one of the orchestrators, the in-memory bus   *)
(* calls the forwarder of its own process.                                 *)
Publish(p, s, event) ==
    IF Bus(p) = "redis"
    THEN news' = Append(news, [sim |-> s, event |-> event]) /\ UNCHANGED told
    ELSE told' = [told EXCEPT ![p][s] = event] /\ UNCHANGED news

(* Mutant: the topic of the profile the process itself serves. *)
DispatchToOwnProfile(o, s, f) ==
    IF Bus(o) = "redis"
    THEN /\ jobs' = [jobs EXCEPT ![config[o].SIMULATION_PROFILE] = Append(@, s)]
         /\ UNCHANGED driving
    ELSE driving' = [driving EXCEPT ![o] = @ \cup {s}] /\ UNCHANGED jobs

(* RUN: the topic of the profile in Redis, or inline the handler of the    *)
(* process if that is the profile it serves.                               *)
DispatchRun(o, s, f) ==
    IF Bus(o) = "redis"
    THEN jobs' = [jobs EXCEPT ![f] = Append(@, s)] /\ UNCHANGED driving
    ELSE /\ driving' = IF f = config[o].SIMULATION_PROFILE
                       THEN [driving EXCEPT ![o] = @ \cup {s}] ELSE driving
         /\ UNCHANGED jobs

(* The clients whose start or restart of s is being answered. *)
Igniting(s) == {c \in Clients : req[c] # Idle /\ req[c].sim = s}

(* randomUUID(): an id nobody has heard of. *)
Fresh(s) ==
    /\ \A t \in Stores : rows[t][s] = NoRow
    /\ Igniting(s) = {}
    /\ \A f \in Profiles : \A i \in DOMAIN jobs[f] : jobs[f][i] # s
    /\ \A i \in DOMAIN aborts : aborts[i] # s
    /\ \A i \in DOMAIN news : news[i].sim # s
    /\ \A p \in Processes : told[p][s] = Silence

(* POST /simulations, to any orchestrator and for any profile, up to its   *)
(* save: before, nobody can know the id.                                   *)
Start(c, o, s, f) ==
    /\ Len(news) < MaxWaiting
    /\ req[c] = Idle
    /\ Fresh(s)
    /\ Save(o, s, [profile |-> f, state |-> "RUNNING"])
    /\ req' = [req EXCEPT ![c] =
         [pc |-> "publish", at |-> o, sim |-> s, profile |-> f, event |-> "started"]]
    /\ UNCHANGED <<config, jobs, aborts, news, driving, told, crashes>>

(* POST /simulations/:id/restart: the row is read and found FINISHED. *)
RestartRequest(c, o, s) ==
    /\ Len(news) < MaxWaiting
    /\ req[c] = Idle
    /\ State(Store(o), s) = "FINISHED"
    /\ Patient => Igniting(s) = {}
    /\ req' = [req EXCEPT ![c] =
         [pc |-> "save", at |-> o, sim |-> s, profile |-> rows[Store(o)][s].profile,
          event |-> "restarted"]]
    /\ UNCHANGED <<config, rows, jobs, aborts, news, driving, told, crashes>>

(* The copy that was read is saved, whatever the row says by now. *)
SaveIgnition(c) ==
    /\ req[c].pc = "save"
    /\ Save(req[c].at, req[c].sim, [profile |-> req[c].profile, state |-> "RUNNING"])
    /\ req' = [req EXCEPT ![c].pc = "publish"]
    /\ UNCHANGED <<config, jobs, aborts, news, driving, told, crashes>>

PublishIgnition(c) ==
    /\ req[c].pc = "publish"
    /\ Publish(req[c].at, req[c].sim, req[c].event)
    /\ req' = [req EXCEPT ![c].pc = "dispatch"]
    /\ UNCHANGED <<config, rows, jobs, aborts, driving, crashes>>

DispatchIgnition(c) ==
    /\ req[c].pc = "dispatch"
    /\ DispatchRun(req[c].at, req[c].sim, req[c].profile)
    /\ req' = [req EXCEPT ![c] = Idle]
    /\ UNCHANGED <<config, rows, aborts, news, told, crashes>>

(* Mutant: the reason is published as the type of the event. *)
EndsMisnamed(p, s) ==
    /\ driving' = [driving EXCEPT ![p] = @ \ {s}]
    /\ Save(p, s, [rows[Store(p)][s] EXCEPT !.state = "FINISHED"])
    /\ Publish(p, s, "auto")

(* The run of s at p is over, by its last goal or by an abort. *)
Ends(p, s) ==
    /\ driving' = [driving EXCEPT ![p] = @ \ {s}]
    /\ Save(p, s, [rows[Store(p)][s] EXCEPT !.state = "FINISHED"])
    /\ Publish(p, s, "finished")

(* Mutant: the run is aborted and the row left alone. *)
AbortWithoutFinish(p, s) ==
    /\ driving' = [driving EXCEPT ![p] = @ \ {s}]
    /\ UNCHANGED <<rows, news, told>>

(* Mutant: the row is finished although the process has no run. *)
FinishWithoutRun(p, s) ==
    IF State(Store(p), s) = "RUNNING" THEN Ends(p, s) ELSE UNCHANGED <<rows, driving, news, told>>

(* handleAbort: who does not have the run does nothing. *)
HandleAbort(p, s) ==
    IF s \in driving[p] THEN Ends(p, s) ELSE UNCHANGED <<rows, driving, news, told>>

(* POST /simulations/:id/finish *)
Finish(o, s) ==
    /\ rows[Store(o)][s] # NoRow
    /\ IF Bus(o) = "redis"
       THEN /\ Len(aborts) < MaxWaiting
            /\ aborts' = Append(aborts, s)
            /\ UNCHANGED <<rows, driving, news, told>>
       ELSE HandleAbort(o, s) /\ UNCHANGED aborts
    /\ UNCHANGED <<config, req, jobs, crashes>>

(* The ABORT consumer of p. *)
TakeAbort(p) ==
    /\ Bus(p) = "redis"
    /\ aborts # << >>
    /\ aborts' = Tail(aborts)
    /\ HandleAbort(p, Head(aborts))
    /\ UNCHANGED <<config, req, jobs, crashes>>

(* Mutant: the run is started although the row was not found. *)
TakeRunWithoutRow(p) ==
    LET f == config[p].SIMULATION_PROFILE IN
    /\ Bus(p) = "redis"
    /\ jobs[f] # << >>
    /\ jobs' = [jobs EXCEPT ![f] = Tail(@)]
    /\ driving' = [driving EXCEPT ![p] = @ \cup {Head(jobs[f])}]
    /\ UNCHANGED <<config, req, rows, aborts, news, told, crashes>>

(* The RUN consumer of p: without a row in the table of p the command is   *)
(* used up.                                                                *)
TakeRun(p) ==
    LET f == config[p].SIMULATION_PROFILE
        s == Head(jobs[f])
    IN
    /\ Bus(p) = "redis"
    /\ jobs[f] # << >>
    /\ jobs' = [jobs EXCEPT ![f] = Tail(@)]
    /\ driving' = IF rows[Store(p)][s] = NoRow THEN driving
                  ELSE [driving EXCEPT ![p] = @ \cup {s}]
    /\ UNCHANGED <<config, req, rows, aborts, news, told, crashes>>

(* The engine finishes the simulation. *)
AutoFinish(p, s) ==
    /\ s \in driving[p]
    /\ Ends(p, s)
    /\ UNCHANGED <<config, req, jobs, aborts, crashes>>

(* The forwarder of one of the orchestrators takes the next event.         *)
Forward(o) ==
    /\ Bus(o) = "redis"
    /\ news # << >>
    /\ told' = [told EXCEPT ![o][Head(news).sim] = Head(news).event]
    /\ news' = Tail(news)
    /\ UNCHANGED <<config, req, rows, jobs, aborts, driving, crashes>>

(* A process dies between two steps and is started again: Redis and        *)
(* PostgreSQL keep what they have, its memory is gone and the requests it  *)
(* was answering fail.                                                     *)
Crash(p) ==
    /\ crashes < MaxCrashes
    /\ crashes' = crashes + 1
    /\ req' = [c \in Clients |-> IF req[c] # Idle /\ req[c].at = p THEN Idle ELSE req[c]]
    /\ rows' = [rows EXCEPT ![p] = [s \in Sims |-> NoRow]]
    /\ driving' = [driving EXCEPT ![p] = {}]
    /\ told' = [told EXCEPT ![p] = [s \in Sims |-> Silence]]
    /\ UNCHANGED <<config, jobs, aborts, news>>

(* What AppModule adds to a worker's part. *)
Api(o) ==
    \/ \E s \in Sims :
        \/ Finish(o, s)
        \/ \E c \in Clients : RestartRequest(c, o, s) \/ \E f \in Profiles : Start(c, o, s, f)
    \/ Forward(o)

(* The calls of a request that is already open. *)
Serve(c) == SaveIgnition(c) \/ PublishIgnition(c) \/ DispatchIgnition(c)

(* SimulationWorkerHandler, which orchestrators host as well as workers.   *)
Handler(p) == TakeRun(p) \/ TakeAbort(p) \/ \E s \in Sims : AutoFinish(p, s)

Next ==
    \/ \E o \in Orchestrators : Api(o)
    \/ \E c \in Clients : Serve(c)
    \/ \E p \in Processes : Handler(p) \/ Crash(p)

Spec == Init /\ [][Next]_vars

(* The calls of an open request are answered, consumers are served and     *)
(* runs come to their end.                                                 *)
Fairness ==
    /\ \A c \in Clients : WF_vars(Serve(c))
    /\ \A p \in Processes :
        /\ WF_vars(TakeRun(p))
        /\ WF_vars(TakeAbort(p))
        /\ WF_vars(p \in Orchestrators /\ Forward(p))
        /\ \A s \in Sims : WF_vars(AutoFinish(p, s))

FairSpec == Spec /\ Fairness

-----------------------------------------------------------------------------

(* The variables hold values of their types. *)
TypeOK ==
    /\ config \in [Processes -> Config]
    /\ req \in [Clients -> {Idle} \cup Ignition]
    /\ rows \in [Stores -> [Sims -> Row \cup {NoRow}]]
    /\ jobs \in [Profiles -> Seq(Sims)]
    /\ aborts \in Seq(Sims)
    /\ news \in Seq([sim: Sims, event: {"started", "restarted", "finished"}])
    /\ driving \in [Processes -> SUBSET Sims]
    /\ told \in [Processes -> [Sims -> {"started", "restarted", "finished", Silence}]]
    /\ crashes \in Nat

(* The deployments that work: processes share queues exactly if they share *)
(* a table.  docker-compose.yml is one, and so is a single process of any  *)
(* configuration; a worker without PostgreSQL beside others is none.       *)
Coherent == \A p, q \in Processes : Bus(p) = Bus(q) <=> Store(p) = Store(q)

(* What is in Redis outlives the processes, and so must the rows be.       *)
Durable == \A p \in Processes : Bus(p) = "redis" => Store(p) = "postgres"

Drivers(s) == {p \in Processes : s \in driving[p]}

Commands(s) ==
    UNION {{<<f, i>> : i \in {j \in DOMAIN jobs[f] : jobs[f][j] = s}} : f \in Profiles}

(* The wiring never runs a simulation twice: as long as no two restarts of *)
(* it overlap (Patient; what happens when they do shows the run revival),  *)
(* it is ignited by one request, or waits once, or is run by one process,  *)
(* whatever crashes between two calls of the request and whichever of its  *)
(* consumers gets the command; and who runs it has it RUNNING in his own   *)
(* table.                                                                  *)
OneDriver ==
    \A s \in Sims :
        /\ Cardinality(Igniting(s)) + Cardinality(Drivers(s)) + Cardinality(Commands(s)) <= 1
        /\ \A p \in Drivers(s) : State(Store(p), s) = "RUNNING"

(* handleRun returns silently when it finds no row                         *)
(* (simulation-worker.handler.ts:72).  It never has to, if all consumers   *)
(* share the table of who dispatches, and no table is lost or all survive: *)
(* the command finds its row, and finds it RUNNING as long as no two       *)
(* restarts overlap.                                                       *)
CommandsFindRows ==
    Coherent /\ (Durable \/ crashes = 0) =>
        \A f \in Profiles : \A i \in DOMAIN jobs[f] : \A p \in Processes :
            Bus(p) = "redis" => State(Store(p), jobs[f][i]) = "RUNNING"

(* Some process serves the simulations of profile f in table t. *)
Serves(t, f) ==
    \E p \in Processes : Store(p) = t /\ config[p].SIMULATION_PROFILE = f

(* A RUNNING simulation of a served profile has somebody who runs it, or   *)
(* will: its command waits or is about to be sent, and none got lost       *)
(* between buses and tables that do not fit.                               *)
NothingStranded ==
    Coherent /\ crashes = 0 =>
        \A t \in Stores, s \in Sims :
            State(t, s) = "RUNNING" /\ Serves(t, rows[t][s].profile) =>
                \/ Igniting(s) # {}
                \/ \E i \in DOMAIN jobs[rows[t][s].profile] : jobs[rows[t][s].profile][i] = s
                \/ \E p \in Drivers(s) :
                    /\ Store(p) = t
                    /\ config[p].SIMULATION_PROFILE = rows[t][s].profile

(* And it ends. *)
RunsEnd ==
    \A s \in Sims :
        (Coherent /\ \E t \in Stores : State(t, s) = "RUNNING" /\ Serves(t, rows[t][s].profile))
            ~> (crashes > 0 \/ \E t \in Stores : State(t, s) = "FINISHED")

(* An event in Redis reaches one orchestrator only                         *)
(* (bullmq-event-bus.ts:24).  With one orchestrator per table, its rooms   *)
(* know what its table says as soon as the queue is empty and no ignition  *)
(* that was saved is still to be published.                                *)
RoomsAreTold ==
    LET alone(o) == \A p \in Orchestrators : Store(p) = Store(o) => p = o
    IN Coherent /\ crashes = 0 =>
        \A o \in Orchestrators, s \in Sims :
            /\ alone(o)
            /\ \A i \in DOMAIN news : news[i].sim # s
            /\ \A c \in Igniting(s) : req[c].pc # "publish"
            =>
                CASE State(Store(o), s) = "RUNNING" -> told[o][s] \in {"started", "restarted"}
                  [] State(Store(o), s) = "FINISHED" -> told[o][s] = "finished"
                  [] OTHER -> told[o][s] = Silence

=============================================================================
