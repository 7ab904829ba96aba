# SportRadar simulation: a TLA+ model

A user starts a football simulation over HTTP, watches its goals over a
WebSocket, may finish it early and restart it. The orchestrator keeps the
simulation in PostgreSQL and sends commands over BullMQ; worker processes run
the simulations and publish events. This directory models that distributed
deployment (`docker-compose.yml`: one orchestrator, several workers) with the
observers behind the gateway, the single-process one that runs without any
service (everything in memory), the wiring of every other combination of
environment variables, and registration and login; checks them with TLC and
proves part of them with TLAPS.

## The system

| Component | State | Operations | Module |
|---|---|---|---|
| `Simulation` aggregate | owner, profile, RUNNING/FINISHED, goals, dates | create, applyGoal, finish, restart | `Simulation` |
| `SimulationOrchestrator` | none; each open request holds a copy of a row | start, finish, restart, list, get | `Orchestrator` |
| `SimulationWorkerHandler` | the `inFlight` map, subscriptions | handleRun, handleAbort, shutdown, drainInFlight | `Worker` |
| `TickingSimulationEngine` | tick and private copy of each run | run | `Worker` |
| `PostgresSimulationRepository` | the table `simulations` | save (upsert of all columns), findById, findLastStartedAtByOwner | `Services` |
| `BullMQCommandBus` | a queue per profile, one for aborts | dispatch, subscribe | `Services`, `Worker` |
| `BullMQEventBus`, `WsEventForwarder` | the event queue | publish, forward to the room | `Services`, `Observers` |
| `SimulationGateway` and its WebSocket clients | rooms | subscribe, unsubscribe, disconnect | `Observers` |
| configuration, `main.ts`, `worker.main.ts`, `SimulationModule`, `WorkerModule`, `createSimulationRepository` | the environment variables | which queues, table, profile and handlers a process has | `Deployments` |
| `FiveSecondCooldownPolicy` | none | canIgnite | `Services` |
| processes | up, closing, down | SIGTERM, crash, restart | `Worker` |
| `MatchDynamics` (uniform, Poisson, Markov) | per-simulation entries of the last two | nextStep, onAbort | `Dynamics`; in `Worker` only whether a goal may follow |
| `ScoreBoard` | a score per match | increment, reset, snapshot, fromSnapshot | `ScoreBoard` |
| in-memory repository and buses | the aggregates themselves; subscribed handlers | save, find; dispatch, publish | `SingleProcess` |
| `RegisterUseCase`, `LoginUseCase`, `GetCurrentUserUseCase`, user repositories | users, unique by e-mail in PostgreSQL only | register, login, me | `Registration` |
| `RetentionPolicy`, HTTP errors and DTOs, Bull Board, random providers | | | not modelled |

What makes each of them correct:

- Orchestrator: a command never precedes its row (`CommandsHaveRows`); ignitions of a
  user are a cooldown apart (`IgnitionsAreApart`, `OwnersIgniteApart`); owner and
  profile never change, whoever saves (`IdentityIsStable`, `CopiesKeepIdentity`).
- Worker and engine: one driver per RUNNING simulation and none after its end
  (`AtMostOneDriver`, `RunningIsDriven`); the map names live runs only
  (`InFlightIsLive`); an aborted run scores no more (`AbortedRunsAreOver`), and
  waiting for it ends (`DrainIsPrompt`). What lost its driver while RUNNING is left
  alone by everything still under way (`StrandedStays`).
- Repository: the row goes through the life cycle of `SimulationLifecycle`.
- Event bus and forwarder: events in the order of what happened (`FeedInOrder`), each
  after what it tells is stored (`ToldIsStored`); whatever fails, a room lacks one
  goal of the row at most (`RoomsAreClose`).
- Gateway: who joins late hears an end of the stream without gaps (`NothingMissed`),
  can put it together with what GET answers (`CaughtUp`) and hears the end
  (`EndIsHeard`).
- Wiring: no combination adds a second run to a simulation whose restarts do not
  overlap (`OneDriver`; `revival` is what overlapping ones do); where queues and
  tables fit together commands find their rows (`CommandsFindRows`), nothing is
  stranded (`NothingStranded`, `RunsEnd`) and rooms are told (`RoomsAreTold`).
- Dynamics: entries belong to the run that sleeps (`EntriesAreOwned`) and goals fall
  within the match (`KeepsTime`).
- Score board: agrees with the total and with the events (`ReplayAgrees`), survives
  its column (`SnapshotsRestore`, which is proved and needs no run).
- Auth: acknowledged accounts work (`AccountsWork`), logins and tokens name stored users
  (`LoginsAreOwn`, `TokensNameUsers`).

How they interact: a request saves the row, publishes the ignition event and
dispatches a RUN command to the queue of the simulation's profile. One of the
workers of that profile takes the command, reads the row, starts a run on its
own copy and acknowledges the command at once. The run saves that copy and
publishes an event after every goal. A finish request dispatches an ABORT
command; whichever worker takes it looks the simulation up in its own map,
aborts the run, waits for it, reads the row, finishes it and saves it.

What is hard: the row is written by requests, runs and abort handlers, each
holding a copy it read earlier, without locks or versions; commands carry a
simulation and no run; the abort queue is shared by all workers; a promise
without a catch ends the process; every awaited call may reject; processes
crash or are stopped at any point. PROJECT.json lists the hazards at their lines.

## Modules

- `Simulation`: the aggregate's operations and its events, as operators.
- `Services`: the shared variables `now`, `rows`, `runQueue`, `abortQueue`,
  `feed` and one operator per remote call. `feed[s]` is what was published about
  `s` since the last ignition event; a room whose members have been there all
  the time and whose queue is empty was told just that.
- `Orchestrator`: `req[c]`, the request client `c` has open. One action per
  awaited call: `StartRequest`/`RestartRequest`, `EnsureCanIgnite`,
  `SaveIgnition`, `PublishIgnition`, `DispatchIgnition`; `FinishRequest`,
  `DispatchFinish`; `RequestFails`.
- `Worker`: `phase`, `runHandler`, `abortHandler`, `runs`, `inFlight`. `runs` are
  the `engine.run()` promises that have not settled. Actions follow the awaited
  calls of `handleRun`, of the engine's loop and of `handleAbort`, and the steps
  of `shutdown`. `Dies` is the end of a process, whatever its cause.
- `SimulationSystem`: composes the two, states fairness and all properties.
- `Observers`: on top of `SimulationSystem`, the queue `simulation.events` between a
  publication and the room (`events`), the members of each room (`room`), what each
  was told since it joined (`heard`) and what GET answered it since (`answer`).
  `SystemStep` is any step of the system with its publication; `ForwardEvent` is the
  forwarder's handler; `Subscribe`, `Unsubscribe`, `Disconnect` and `Get` are the
  observer's calls.
- `Deployments`: `config[p]`, the environment variables of each process, chosen
  freely at the start; one table per process that keeps rows in memory and one in
  PostgreSQL (`rows`); the queues in Redis (`jobs`, `aborts`, `news`); what each process
  runs (`driving`) and what its rooms were told last (`told`). `Bus` and `Store`
  say whose queues and whose table a process uses. `req[c]` is the start or restart
  client `c` has open; it advances one awaited call at a time (`Start` or
  `RestartRequest`, `SaveIgnition`, `PublishIgnition`, `DispatchIgnition`), so that a
  crash or another request may come between. Finish requests, handlers and runs,
  which `SimulationSystem` takes apart, are one step each; owners and the throttle
  are left out. An orchestrator hosts a `SimulationWorkerHandler` of its own
  (`simulation.module.ts:186`), so `Handler` belongs to every process, and in
  `SimulationSystem` the orchestrator's handler is one of `Workers`.
- `SimulationLifecycle`: the abstract specification, what a reader of the table
  may rely on. `SimulationSystem` instantiates it with `LifeOf` as refinement
  mapping and has it as property (`LifecycleSpec`, `LifecycleSteps`).
- `ScoreBoard`, `Dynamics`: pure operators. A random draw is a choice: `NextStep` is
  the set of what `nextStep` may return, with the entry it leaves behind. The
  Poisson dynamics draws its gaps from `Gaps`; the Markov walk is a recursive
  function of the states it may be in after n goalless steps.
- `SingleProcess`: the in-memory deployment on top of `Simulation`, `ScoreBoard` and
  `Dynamics`, with the same abstract specification (`LifecycleSteps`).
- `Registration`: `users`, and `calls[c]`, the request caller `c` has open:
  `RegisterRequest`, `SaveUser`, `AnswerRegistration`; `LoginRequest`, `AnswerLogin`;
  `Me`; `Crash`. `accounts` records the registrations answered 201.
- `MCSimulationSystem`, `MCObservers`, `MCSingleProcess`, `MCDeployments`,
  `MCRegistration` and the `.cfg` files: the instances.
- `SimulationSystemProofs`, `InFlightProofs`, `RowProofs`, `DriverProofs`,
  `ObserversProofs`, `RegistrationProofs`, `SingleProcessProofs`, `DeploymentProofs`:
  the theorems.

Definitions commented `Mutant:` are deliberately wrong variants of the definition
that follows them. Nothing uses them: replacing the definition by its variant
shows that the properties notice.

### How code becomes steps

A step is one awaited call together with the synchronous code up to the next
one; its effect on the database or on Redis and its continuation are one step.
Between two calls anything else may happen, in the same process too. Merged
into one step are: the id of a new simulation and the start of its request (the
id is visible to nobody before the save); `findById`, the checks and `restart()`
on the copy up to the throttle's query; the publication of an event and the
engine's synchronous code after it. An event is told to the room in the order
of publication: the forwarder is the only consumer of the event queue and
handles one event at a time. In `Observers` it waits in the queue until then;
elsewhere publishing and telling are one step, except in `Deployments`, whose queue
may have several consumers. A sleep may end at any time after it began. The
dynamics yields exactly `GoalCount` goals for a profile in `FixedLength` (the
uniform one) and any number up to `GoalCount` for the others.

A run that is aborted while asleep returns in the same step; any other run sees
the signal after its pending save and publish. `Exit` deletes the map's entry of
the simulation, whichever run it names, as `finally` does. A run whose save or
publish rejects ends quietly if somebody awaits it (which only `handleAbort` and
`shutdown` do, having aborted it) and takes its process down otherwise: nothing
in the code handles an unhandled rejection. When a process dies, the jobs its
consumers were handling return to the head of their queues. A run that was
already acknowledged is gone.

In the single process rows are shared objects and everything awaited is a
microtask, except timers and sockets: the in-memory repository returns the
aggregate it holds, so an engine, a request and an abort handler change one
object; the buses call the handlers inline. A request or a timer therefore runs
to completion with all it sets off, and an action of `SingleProcess` is a whole
request. The one exception is the engine's next step, `Ask`, which `turn` forces
before anything else. Worker and API agree on one `SIMULATION_PROFILE`; a
simulation of another profile is saved as RUNNING, its command finds no handler
and is dropped, and it can be neither finished nor restarted.

In `Registration` the pauses that matter are the ones for argon2, which runs in
a thread pool: between the lookup of the e-mail and the INSERT of the user, and
between the lookup and the answer of a login. `EmailOf` is what `Email.create`
makes of an address. A hash verifies against the one password it was made of and
the dummy hash of an unknown e-mail against none. A refused INSERT is a 500.

## Runs

`Patient` clients restart a simulation only after its room was told that it
finished and while no finish request for it is under way. That is how a user
interface behaves, and it is the weakest assumption found under which the
life cycle holds: with impatient clients the runs below refute it. `Patient`
is an assumption on clients, nothing in the code enforces it. `FALSE` allows all
the API accepts. `Patient` in `Deployments` is weaker: a simulation is restarted only
while no other start or restart of it is being answered. Without it two
restarts both read FINISHED before either saves and dispatch two commands
(`simulation-orchestrator.ts:100-119`), in any deployment; `revival` shows it.

| Run | Instance | What it shows |
|---|---|---|
| `contract` | one patient client, two replicas, 2 goals, one observer, no faults, fairness | the table implements `SimulationLifecycle` with its liveness; a RUNNING simulation always has somebody who drives it or will (`RunningIsDriven`); ignition, goals 1, 2, ..., end are published in this order (`FeedInOrder`); no process dies of an exception; abort handlers return; an observer that joins at any time, behind a queue that lags, misses nothing after it joined, knows the row as soon as nothing is on its way, and hears the end |
| `faults` | the same without the observer, with random goals and two faults of any kind | at most one driver (`AtMostOneDriver`), the life cycle's steps, events told after they are stored; a room lags its row by one goal at most (`RoomsAreClose`); who lost its driver while RUNNING is left alone by commands given back and handlers that go on (`StrandedStays`) |
| `two_sims` | two owners with a client each, two simulations, two profiles | rows keep owner and profile whoever saves them, commands reach workers of the right profile, the throttle is per owner |
| `concurrent` | two impatient clients of one user, one simulation, two runs in one process | types, rows before commands, no dead entry in the map, no abort handler waiting for a sleeping run, no goal after an abort |
| `throttle_race` | two clients of one user | violation: two ignitions within the cooldown |
| `abort_broadcast` | two replicas | violation: the ABORT command is consumed by the wrong replica |
| `revival` | two impatient clients | violation: a FINISHED row becomes RUNNING without a restart |
| `graceful_shutdown` | one worker, SIGTERM | violation: the row stays RUNNING and nobody drives it |
| `single_process` | one owner, two simulations, two matches, each profile served in turn | with any client the in-memory deployment implements the life cycle's steps and keeps the throttle; a served simulation is RUNNING exactly while it is driven, and ends; board, total and events told agree (`ReplayAgrees`); the dynamics hold entries only for sleeping runs and keep within the match's time |
| `deployments` | three processes, every combination of environment variables, two profiles, one client, a crash between any two calls of a request | no wiring adds a second run, or a run beside its row; where processes share queues exactly if they share a table, no command is lost, no simulation of a served profile is stranded and every one ends, and the rooms of an orchestrator that is alone with its table are told what it says |
| `registration` | PostgreSQL, two callers, two spellings of one e-mail and another e-mail, two passwords, a crash | whoever was answered 201 can log in, logins are answered with the caller's own user, every token names a stored user |
| `registration_race` | in memory, two callers | violation: two registrations of one e-mail are both answered 201 |

Deadlock is checked in every run but `single_process` and `deployments`: clients can
always ask for something or a process can go on. In `single_process` all simulations
may be finished, the clock at its bound and the cooldown not over, so that
nothing is left to do. In `deployments` the only id may belong to a simulation that
is stranded for good.

### Bounds

- `MaxTime` (1 to 3) stops the clock. With `Cooldown = 1` time 1 is enough for
  two ignitions a cooldown apart, and 0 and 1 for ignitions too close; 2, in
  `contract`, lets a simulation be restarted more than once.
- `GoalCount` 1 or 2: 2 separates the first goal from the next and from the end.
- `MaxAborts` 1 or 2 finish requests waiting at once: with 1 one may be handled while
  another is queued for the same simulation, with 2 two are queued.
- `MaxLag` 2 events wait for the forwarder: an end and the next ignition, or the last
  goal and the end, together. One observer (`Sockets`): observers do not interact.
- `Runs` names the runs alive at once; a settled run's name is reused. One
  simulation needs one unless clients are impatient.
- `MaxFaults` 2: one fault while the consequences of another are still there.
- `single_process`: two simulations of one owner are what the throttle is about, and
  one of them may have a profile nobody serves; `Cooldown` 1 and `MaxTime` 2 allow
  restarts; two matches tell home from away and one entry from another. `Duration`
  7 with `Gaps` {3, 8} gives Poisson matches of 0 to 2 goals; with `Step` 1 a Markov
  goal takes at least three steps first and four after that, so there are 0 to 2,
  the second exactly at the end. `GoalCount` 2, `FirstGoalOffset` 2, `GoalInterval` 5:
  the last uniform goal also falls on the end of the match.
- `deployments`: three processes are two that fit together and a third that does
  not, or two workers and an orchestrator, or two orchestrators and a worker.
  `Everything` leaves out what differs by names only: `p1` is an orchestrator of
  the first profile. One simulation, since nothing in these steps relates two,
  and one client, since under `Patient` only one start or restart of it is open at
  a time; the theorems are about any number of both.
  `MaxWaiting` 1 stops requests while an event or an abort waits; workers still
  publish behind it. `MaxCrashes` 1: rows and commands part at the first.
- `registration`: three `Ids` let both callers race for one e-mail and one register
  the other; `MaxCrashes` 1 can hit between INSERT and answer.
- Symmetry: over names of runs, and over replicas, clients of one user, or
  simulations, or callers, UUIDs
  and passwords; never in a run that checks liveness.

### Fairness

`FairSpec` assumes weak fairness of each request's next call, each handler's next
call, each run's next step, each queue with a free consumer, the steps of a
shutdown and the restart of a process (`restart: unless-stopped`). This is node's
event loop, PostgreSQL and Redis that answer, timers that fire and BullMQ's
polling. Clients are not fair, faults are not, and the clock need not advance.
Consumption of the ABORT queue is fair per worker for taking or dropping the
head, and so is a run's progress; `Goal \/ Finish` of the abstract specification
follows.

`FairObserversSpec` adds the forwarder, a consumer like the workers; observers need
do nothing. In `Deployments` the calls of an open request, the consumers of each
process and its engine are fair; nobody has to send a request, and crashes are
not fair.

In `SingleProcess`, `Wake` and `Ask` are weakly fair: a timer that was set fires and
the event loop runs its microtasks. Nobody has to finish a simulation, and the
clock need not advance.

### Documents the code disagrees with

PROJECT.json quotes the lines. In short: the throttle is check-then-act; ABORT
commands are a queue and no broadcast, so with two replicas about every other
finish request is lost; two restarts at once give two
runs, and the slower one revives the finished row (or finds its copy FINISHED,
which ends the process); phase 2 of the design announces a shutdown that completes
what is in flight, while the repository's README lists graceful shutdown as
planned: the shutdown that is there aborts the runs and leaves their rows RUNNING,
where they can be neither restarted nor finished;
without an index a second registration of an e-mail is accepted while the
first one is hashing.

One more needs no run: `docs/superpowers/specs/2026-04-18-sportradar-simulation-design.md:169`
wants 409 for the finish of a simulation that is not RUNNING, but `finishSimulation`
asks for its existence and owner only; `FinishRequest` has the code's guard.

`Coherent` and `Durable` in `Deployments` name what the code needs of its
configuration and does not ask for: without the first, commands are dropped by
processes that do not have the row; without the second a crash loses the rows of
commands that survive. `RoomsAreTold` needs one orchestrator per table, the limit
that `bullmq-event-bus.ts:22` states.

`FeedInOrder` and `RunningIsDriven` do not hold under faults: a lost publish
leaves a gap, and a crash, a failed save or a failed dispatch leaves a RUNNING row
without a driver. The first is inherent in publishing without an outbox; the
second is the finding of `graceful_shutdown`, reached by other faults as well.
`RoomsAreClose` and `StrandedStays` say what is left of them under every fault: the gap
is one goal, and a row that was left behind is not revived by what is under way.

## Proofs

For every number of clients, users, simulations, profiles, workers, runs and
observers, any cooldown, number of goals and faults. The hypotheses are named
below the table; where there is none the theorem holds whatever `Patient` is.

| Theorem | Module | Hypotheses | Statement |
|---|---|---|---|
| `TypeCorrect` | `SimulationSystemProofs` | | `Spec => []TypeOK` |
| `MapCorrect` | `InFlightProofs` | | `Spec => []InFlightIsLive` |
| `DrainCorrect` | `InFlightProofs` | | `Spec => []DrainIsPrompt` |
| `AbortIsFinal` | `InFlightProofs` | | `Spec => AbortedRunsAreOver` |
| `CommandsFindRows` | `RowProofs` | | `Spec => []CommandsHaveRows` |
| `CopiesAgree` | `RowProofs` | | `Spec => []CopiesKeepIdentity` |
| `OwnersKeepTheirs` | `RowProofs` | | `Spec => IdentityIsStable` |
| `NobodyWritesBehind` | `DriverProofs` | P | `Spec => []AtMostOneDriver` |
| `TellingFollowsStoring` | `DriverProofs` | P | `Spec => ToldIsStored` |
| `ThrottleKeepsApart` | `DriverProofs` | P | `Spec => IgnitionsAreApart` |
| `TableKeepsPromise` | `DriverProofs` | P | `Spec => LifecycleSteps`: the refinement |
| `RunsNeverThrow` | `DriverProofs` | P | `Spec => []NothingThrows` |
| `RoomsHearInOrder` | `DriverProofs` | P, no call fails | `Spec => []FeedInOrder` |
| `NoWorkerEnds` | `DriverProofs` | P, only requests fail | `Spec => []WorkersSurvive` |
| `RunningHasDriver` | `DriverProofs` | P, nothing fails | `Spec => []RunningIsDriven` |
| `NobodyReturns` | `DriverProofs` | P | `Spec => StrandedStays` |
| `RoomsLagOneGoal` | `DriverProofs` | P | `Spec => []RoomsAreClose` |
| `ObserversTypes` | `ObserversProofs` | | `ObserversSpec => []ObserversTypeOK` |
| `NobodyMissesAnything` | `ObserversProofs` | | `ObserversSpec => []NothingMissed` |
| `ObserversCatchUp` | `ObserversProofs` | P, nothing fails | `ObserversSpec => []CaughtUp` |
| `RegistrationTypes` | `RegistrationProofs` | | `Spec => []TypeOK` |
| `AcknowledgedAccounts`, `LoginsCorrect`, `TokensCorrect` | `RegistrationProofs` | in PostgreSQL | `Spec => [](AccountsWork /\ LoginsAreOwn /\ TokensNameUsers)` |
| `SingleProcessTypes` | `SingleProcessProofs` | | `Spec => []TypeOK` |
| `ThrottleHolds` | `SingleProcessProofs` | | `Spec => []OwnersIgniteApart` |
| `RowsAndRunsAgree` | `SingleProcessProofs` | | `Spec => []DrivenIfServed` |
| `BoardsComeBack` | `SingleProcessProofs` | | `Spec => []SnapshotsRestore` |
| `CountingReplays` | `SingleProcessProofs` | | `Spec => []ReplayAgrees` |
| `NothingLeaks` | `SingleProcessProofs` | | `Spec => []EntriesAreOwned` |
| `GoalsFallWithinTheMatch` | `SingleProcessProofs` | | `Spec => []KeepsTime` |
| `PromiseIsKept` | `SingleProcessProofs` | | `Spec => LifecycleSteps`: the refinement |
| `DeploymentTypes` | `DeploymentProofs` | N | `Spec => []TypeOK` |
| `OneDriverEverywhere` | `DeploymentProofs` | N | `Spec => []OneDriver` |
| `NoCommandWithoutRow` | `DeploymentProofs` | N | `Spec => []CommandsFindRows` |
| `NobodyIsStranded` | `DeploymentProofs` | N | `Spec => []NothingStranded` |
| `RoomsLearnTheRow` | `DeploymentProofs` | N | `Spec => []RoomsAreTold` |

P is `Patient` and `OneClientEach`: clients restart what they saw finish, and a
user sends one request at a time. Neither can be dropped: impatient clients refute
the life cycle (`revival`), and two clients of one user get past the throttle
together (`throttle_race`) and may ignite one simulation twice. What may fail is
a hypothesis on `FaultKinds`, the faults the model allows: "no call fails" leaves
out the rejected call of a worker but not crashes, stops and rejected requests; "only
requests fail" is `FaultKinds \subseteq {"request"}`. They are needed too: a lost
publish leaves a gap, a rejected save of an unawaited run ends its process,
a crash leaves a RUNNING row undriven (`graceful_shutdown`). The instances of
`contract`, `faults` and `two_sims` satisfy P.

N is `Patient` of `Deployments`: no two starts or restarts of one simulation overlap.
Without it the second of two overlapping restarts reads FINISHED while the first
has yet to save, and both dispatch.

They rest on the named assumptions of the modules only: the sentinels `Null`,
`NoRow`, `NoRun`, `NoSim` differ from the values they stand beside, clients have a
user, workers a profile, the bounds are naturals, matches have distinct ids, and the
dynamics' delays and steps are positive and uniform matches end in time, as in
the profiles (`AbsenceAssumption`, `LifeAssumption`: the sentinel for a missing row is no state of
a simulation's life). TLC evaluates them in every run.

- `TypeCorrect`: `TypeOK` is inductive; one lemma per group of actions, resting on
  lemmas about what the aggregate's operators and `Save`, `Publish`, `Exit` and
  `Dies` return.
- `MapInv == InFlightIsLive /\ DrainIsPrompt` is inductive with `TypeOK`, and neither
  half is alone. That no other entry names a run that ends needs
  `InFlightIsLive` to tie an entry to its run's worker and simulation; that
  `TakeAbort` may free a sleeping run needs `DrainIsPrompt` (nobody awaits a
  sleeping run); that the awaited run goes on to return needs that an aborted run
  never goes to sleep. `AbortIsFinal` follows: the only steps that change a run's
  copy need it asleep or not aborted.
- `RowsInv` splits `CommandsHaveRows` into one part per variable and adds that a
  request past its save names a row; with the lemma that no step deletes a row
  it is inductive. The added part is needed for `DispatchIgnition`.
- `IdInv` is the invariant behind `CopiesAgree`. A save writes every column, so a row
  keeps its owner and profile only if each copy about to be saved has them; that
  a run gets a copy of its worker's profile needs the queues (`QueuesKnow`) and the
  handlers of RUN (`RunHandlersKnow`) to have simulations of their profile, and that
  the first save of a new simulation meets no other needs that an id without a
  row is known to one request (`IdsAreFresh`). `OwnersKeepTheirs` then looks at each
  save once.
- `AcknowledgedAccounts` holds for any addresses, passwords, callers and crashes. It
  is about PostgreSQL, the only persistence whose users survive a crash and whose
  index keeps e-mails apart. The invariant adds that stored users differ in
  their e-mails, which only the guard of `SaveUser` preserves, that whatever an open
  request is about to answer with is stored already (`StoredFirst`), and that a
  login verifies the hash of the user it was asked for (`VerifiesAsked`).

- The theorems of `SingleProcessProofs` hold for any owners, simulations and matches,
  any cooldown and any parameters of the dynamics, and share one invariant,
  `IInv`. Its centre is `Timely`, what holds of a run that asked the dynamics for n
  goals: the virtual time it waits for, tied to the entry the dynamics hold
  (Poisson: the time of the last event, before the next; Markov: at most the time
  walked so far). `KeepsTime` alone is not inductive, since it does not see the
  entry the next goal is computed from. `DrivenIfServed` and `EntriesAreOwned` need
  each other: a restart finds no entry of the previous run. The bound of
  `SimulationLifecycle` on goals follows from `Timely` too: goals are at least a unit
  of time apart, so there are at most `Duration` of them.
- The theorems of `DeploymentProofs` hold for any number of processes, clients,
  simulations, profiles and crashes and any environment variables, and share one
  invariant, `IInv`: `TypeOK` and, for each simulation, `SimInv`. Open requests, commands
  and runs are counted together, since each hands over to the next; the sum is
  not inductive: that a restart finds nobody running the simulation
  needs that its row is in one table only (`OneRow`) and that whoever runs it or
  waits to has it RUNNING there (`DriversHaveRows`, `WaitingIsRunning`). What a restart
  read is still so when it saves, because no other request for the simulation is open;
  a crash in between ends the request with the process that served it. The type of
  the tables needs this too, since the end of a run writes to a row it takes for
  granted. `NothingStranded` needs `CommandsFindRows` when a command is taken, and
  `Coherent` when it is dispatched in memory. A step leaves all simulations but one
  untouched (`UntouchedStep`); `Enqueue` and `Dequeue` say what it does to queues.

- The theorems of `DriverProofs` share the invariant `FullInv`: types, rows, identity
  and map from the modules before, and `PInv`. Its centre is `SimInv(s)`, one simulation
  at a time. Counting drivers is not inductive, since whoever hands over must be the
  only one who could: `Sole` says that request, command, handler of RUN, run and
  handler of ABORT of `s` are at most one, and `WriteInv`, `Ready`, `DriveInv` and
  `EndInv` what each of them knows of the row, so that what it saves next follows
  from the row that is there (`Progress`). That a restart finds nobody needs patience
  in the form that a room that was told of the end is told when nobody acts any more
  (`Untold` of whoever acts) and that no finish request is left (`FinishAsked`); that the
  throttle's answer is still true at the save needs `Throttled`, and that the
  dates are in order needs the instants finish requests carry (`Dated`). A step
  is `Calm` for all simulations but one, and for that one the actor is known.
  The refinement, `ToldIsStored` and the throttle then look at each save and each
  publish once. `Heard` adds how many events the room has heard, one goal less
  while one is saved and not yet published (`Pending`); `TellInv` is `FeedInOrder` with
  the type of the end. `RunningIsDriven` needs further that an aborted run is awaited
  (`AbortedIsAwaited`) by a process that is up (`AllUp`): otherwise the end of a run would
  leave its row to nobody.
- `NothingMissed` is proved of the queue and the rooms alone, by induction over the
  queue. It speaks of positions: after each event that waits, exactly that many
  events of its simulation follow in what was published, unless an ignition is
  between. `QueueFits` says so of the queue, `MemberFits` of what a member heard, and
  `At`, `After` and `Rest` are what forwarding and publishing do to the events of one
  simulation in a queue of all.
- `CaughtUp` needs every change of a row to be told. `NewsInv` is proved of the system
  first: a step of a simulation is quiet, saves something that has somebody about
  to publish it, or publishes what the row says (`Quiet`, `Saves`, `Tells`).
  `KnowInv` then is about a member that was answered and told nothing since; `NothingMissed`
  does the rest.
- `RoomsAreTold` is inductive once it is said of the newest event wherever it is: with
  the request that is about to publish it, in the queue, or told (`RoomsHear`).
- `NobodyReturns`: a simulation that is RUNNING and has no driver is `Deserted`, no request,
  command, handler or run acts on it: whoever acts is a driver in itself or, by
  `FullInv`, has the row FINISHED. Every action that could write the row or begin to act
  needs one of these, so nobody comes (`NobodyComes`).
- `RoomsLagOneGoal`: `CloseInv` ties the goals told to the row for every run by its place
  in the loop. A run that has its next goal or its end before it was told all its row
  has; a save goes one goal ahead, and the run goes on by its publish only, while a
  publish that rejects ends it.
- `ReplayAgrees`: the total of a board is a recursive function. That it is defined,
  that it is 0 on an empty board and that a goal adds 1 is proved by the least
  index at which it would not (`NatMin`), as the library's induction takes an
  operator. A team plays in one match, so a goal changes one entry of the board
  (`MatchesAssumption`, `matches-preset.ts`); events are counted by `Cardinality`.

Only model-checked: the liveness of `LifecycleSpec`, `AbortsReturn`, `EndIsHeard`,
`RunsEnd` and `ServedRunsEnd` (liveness and ENABLED are out of the prover's reach),
and the violations. Every safety property of a passing run is a theorem.

## Not modelled

- Expiry of tokens and what sockets send to prove who they are (nothing is asked
  of them; `demo.mjs` still sends an `x-simulation-token` that the API ignores).
- The details of finish requests, handlers and runs in mixed deployments:
  `Deployments` has them as one step each. The throttle and the owners are not in it.
- A job that stalls twice (BullMQ fails it), redelivery of an event to the
  forwarder, loss of Redis data, an operator's interventions through Bull Board.
- Names, DTO validation, HTTP formatting and error codes; ports, URLs and secrets.
- Retention: configured, but no code calls it.
- The `delete` and `findByOwner` of the repository: no caller.
- `FakeClock` and `SeededRandomProvider`: test doubles; the random providers' results
  are choices of the model.

## Plan

Done in this order: the core (`Simulation`, `Services`, `Orchestrator`, `Worker`,
`SimulationSystem`), the abstract specification, the runs, type correctness, the
map's and the rows' invariants; `Registration` and its proofs; `ScoreBoard`,
`Dynamics` and `SingleProcess`; `Observers`; `Deployments` and its proofs; the proofs of
`SingleProcess` and of the rows' identity; what patient clients can rely on
(`DriverProofs`), the observers' proofs, `RoomsAreTold` and `ReplayAgrees`; the calls of
a request in `Deployments`, `StrandedStays` and `RoomsAreClose`. Next:

1. That `SimulationSystem` implements the steps of `Deployments` for the wiring of
   `docker-compose.yml`, and that `Dynamics` implements `MoreGoals`/`NoMoreGoals`.
2. Lemmas on the walk of the Markov dynamics: which delays it can return.
