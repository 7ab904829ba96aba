--------------------------- MODULE SingleProcess ---------------------------
(***************************************************************************)
(* The default deployment (PERSISTENCE_MODE and TRANSPORT_MODE inmemory):  *)
(* API and worker in one process, one worker, which serves one profile.    *)
(* The repository keeps the aggregates themselves, so a stored row and the *)
(* copy an engine drives are one object, and the buses call the handlers   *)
(* inline.  Everything awaited is then a microtask: once a request or a    *)
(* timer has been taken from the event loop, all it sets off runs before   *)
(* the next one.  "turn" says whose engine has to go on first.             *)
(***************************************************************************)
EXTENDS Simulation, ScoreBoard, Dynamics, FiniteSets, Sequences

CONSTANTS
    Sims,      \* simulation ids (UUIDs)
    NoRow,     \* what findById returns for an unknown id
    NoRun,     \* inFlight has no run of the simulation
    Nobody,    \* nothing is left to do before the next request or timer
    Cooldown,  \* START_COOLDOWN_MS
    MaxTime    \* bound: the clock stops here

(* An aggregate with its board, as the repository keeps it. *)
Row ==
    [owner: Users, profile: Profiles, state: {"RUNNING", "FINISHED"}, totalGoals: Nat,
     startedAt: Nat, finishedAt: Nat \cup {Null}, score: Boards]

ASSUME SingleProcessAssumption ==
    /\ Profiles = Profile
    /\ {Cooldown, MaxTime} \subseteq Nat
    /\ NoRow \notin Row
    /\ NoRun \notin [tick: Nat, until: Nat]
    /\ NoEntry \notin Entry
    /\ Nobody \notin Sims

VARIABLES
    served,   \* SIMULATION_PROFILE of the process
    now,      \* Clock.now()
    rows,     \* the in-memory repository
    runs,     \* inFlight: the tick and the virtual time of the goal waited for
    entries,  \* what the dynamics hold for each simulation
    feed,     \* per room: the events sent since the last ignition
    turn      \* the simulation whose engine asks for its next step

vars == <<served, now, rows, runs, entries, feed, turn>>

GoalOf(sim, team) ==
    [type |-> "GoalScored", totalGoals |-> sim.totalGoals,
     team |-> team, score |-> Snapshot(sim.score)]

EndOf(sim, reason) ==
    [type |-> "SimulationFinished", reason |-> reason, totalGoals |-> sim.totalGoals,
     score |-> Snapshot(sim.score)]

(* Types; one process drives one simulation at a time to its next sleep. *)
TypeOK ==
    /\ served \in Profile
    /\ now \in 0 .. MaxTime
    /\ rows \in [Sims -> Row \cup {NoRow}]
    /\ runs \in [Sims -> [tick: Nat, until: 0 .. Duration] \cup {NoRun}]
    /\ entries \in [Sims -> Entry \cup {NoEntry}]
    /\ turn \in Sims \cup {Nobody}

Init ==
    /\ served \in Profile
    /\ now = 0
    /\ rows = [s \in Sims |-> NoRow]
    /\ runs = [s \in Sims |-> NoRun]
    /\ entries = [s \in Sims |-> NoEntry]
    /\ feed = [s \in Sims |-> << >>]
    /\ turn = Nobody

-----------------------------------------------------------------------------

OwnedBy(owner) == {s \in Sims : rows[s] # NoRow /\ rows[s].owner = owner}

(* Mutant: running simulations do not count. *)
CanIgniteAlone(owner) ==
    \A s \in OwnedBy(owner) : rows[s].state = "FINISHED" => now - rows[s].startedAt >= Cooldown

CanIgnite(owner) == \A s \in OwnedBy(owner) : now - rows[s].startedAt >= Cooldown

(* Create, with the board. *)
CreateWithBoard(owner, profile) ==
    [owner |-> owner, profile |-> profile, state |-> "RUNNING", totalGoals |-> 0,
     startedAt |-> now, finishedAt |-> Null, score |-> FromMatches]

(* Mutant: the run is started whatever profile the process serves. *)
DispatchToAnyone(s, profile) ==
    /\ runs' = [runs EXCEPT ![s] = [tick |-> 0, until |-> 0]]
    /\ turn' = s

(* The RUN topic of another profile has no handler: the command is gone. *)
DispatchRun(s, profile) ==
    IF profile = served
    THEN /\ runs' = [runs EXCEPT ![s] = [tick |-> 0, until |-> 0]]
         /\ turn' = s
    ELSE UNCHANGED <<runs, turn>>

(* POST /simulations, not refused by the throttle. *)
PostSimulation(s, owner, profile) ==
    /\ turn = Nobody
    /\ rows[s] = NoRow
    /\ CanIgnite(owner)
    /\ rows' = [rows EXCEPT ![s] = CreateWithBoard(owner, profile)]
    /\ feed' = [feed EXCEPT ![s] = <<SimulationStarted>>]
    /\ DispatchRun(s, profile)
    /\ UNCHANGED <<served, now, entries>>

RestartWithBoard(sim) == Restart([sim EXCEPT !.score = Reset(@)], now)

(* POST /simulations/:id/restart by its owner, not refused. *)
PostRestart(s) ==
    /\ turn = Nobody
    /\ rows[s] # NoRow
    /\ rows[s].state = "FINISHED"
    /\ CanIgnite(rows[s].owner)
    /\ rows' = [rows EXCEPT ![s] = RestartWithBoard(@)]
    /\ feed' = [feed EXCEPT ![s] = <<SimulationRestarted>>]
    /\ DispatchRun(s, rows[s].profile)
    /\ UNCHANGED <<served, now, entries>>

(* POST /simulations/:id/finish by its owner.  Without a run in flight the *)
(* handler returns and nothing happens.                                    *)
PostFinish(s) ==
    /\ turn = Nobody
    /\ runs[s] # NoRun
    /\ entries' = [entries EXCEPT ![s] = OnAbort(@)]
    /\ runs' = [runs EXCEPT ![s] = NoRun]
    /\ rows' = [rows EXCEPT ![s] = Finish(@, now)]
    /\ feed' = [feed EXCEPT ![s] = Append(@, EndOf(rows'[s], "manual"))]
    /\ UNCHANGED <<served, now, turn>>

ApplyGoalWithBoard(sim, team) == ApplyGoal([sim EXCEPT !.score = Increment(@, team)])

(* A timer fires: the goal is applied, saved and published, and the engine *)
(* goes on with the next tick.                                             *)
Wake(s) ==
    /\ turn = Nobody
    /\ runs[s] # NoRun
    /\ \E team \in Teams :
        /\ rows' = [rows EXCEPT ![s] = ApplyGoalWithBoard(@, team)]
        /\ feed' = [feed EXCEPT ![s] = Append(@, GoalOf(rows'[s], team))]
    /\ runs' = [runs EXCEPT ![s].tick = @ + 1]
    /\ turn' = s
    /\ UNCHANGED <<served, now, entries>>

(* Mutant: the loop is left without finish('auto'). *)
LeaveUnfinished(s) ==
    /\ runs' = [runs EXCEPT ![s] = NoRun]
    /\ entries' = [entries EXCEPT ![s] = NoEntry]
    /\ UNCHANGED <<rows, feed>>

(* nextStep returned undefined. *)
AutoFinish(s) ==
    /\ runs' = [runs EXCEPT ![s] = NoRun]
    /\ entries' = [entries EXCEPT ![s] = NoEntry]
    /\ rows' = [rows EXCEPT ![s] = Finish(@, now)]
    /\ feed' = [feed EXCEPT ![s] = Append(@, EndOf(rows'[s], "auto"))]

(* The engine asks for its next step and goes to sleep, or is through. *)
Ask(s) ==
    /\ turn = s
    /\ turn' = Nobody
    /\ \E step \in NextStep(served, entries[s], runs[s].tick) :
        \/ /\ step = NoStep
           /\ AutoFinish(s)
        \/ /\ step # NoStep
           /\ entries' = [entries EXCEPT ![s] = step.entry]
           /\ runs' = [runs EXCEPT ![s].until = @ + step.delay]
           /\ UNCHANGED <<rows, feed>>
    /\ UNCHANGED <<served, now>>

Tick ==
    /\ turn = Nobody
    /\ now < MaxTime
    /\ now' = now + 1
    /\ UNCHANGED <<served, rows, runs, entries, feed, turn>>

Next ==
    \/ \E s \in Sims, owner \in Users, profile \in Profile : PostSimulation(s, owner, profile)
    \/ \E s \in Sims : PostRestart(s) \/ PostFinish(s) \/ Wake(s) \/ Ask(s)
    \/ Tick

(* Timers fire and microtasks run. *)
Spec == Init /\ [][Next]_vars /\ \A s \in Sims : WF_vars(Wake(s)) /\ WF_vars(Ask(s))

-----------------------------------------------------------------------------

Life(s) ==
    IF rows[s] = NoRow THEN NoRow
    ELSE IF rows[s].state = "RUNNING"
    THEN [state |-> "RUNNING", goals |-> rows[s].totalGoals, startedAt |-> rows[s].startedAt]
    ELSE [state |-> "FINISHED", goals |-> rows[s].totalGoals, startedAt |-> rows[s].startedAt,
          finishedAt |-> rows[s].finishedAt]

Promised == INSTANCE SimulationLifecycle WITH
    life <- [s \in Sims |-> Life(s)], Absent <- NoRow, MaxGoals <- Duration

ASSUME AbsenceAssumption == NoRow \notin Promised!Lives

(* One process keeps the promise of SimulationLifecycle with no assumption *)
(* on how patient its owners are: unlike the workers of the distributed    *)
(* deployment, the engine, the handlers and the requests share one object  *)
(* and cannot overwrite each other's saves.                                *)
LifecycleSteps == Promised!Init /\ [][Promised!Next]_Promised!vars

(* Two simulations of one owner are ignited at least the cooldown apart:   *)
(* between the lookup of the last start and the save no other request runs *)
(* (simulation-orchestrator.ts:131), as two may in the other deployment.   *)
OwnersIgniteApart ==
    \A s, t \in Sims :
        (s # t /\ rows[s] # NoRow /\ rows[t] # NoRow /\ rows[s].owner = rows[t].owner) =>
            \/ rows[s].startedAt - rows[t].startedAt >= Cooldown
            \/ rows[t].startedAt - rows[s].startedAt >= Cooldown

(* A simulation of the served profile is RUNNING exactly when a run of it  *)
(* is in flight: no save of a finished row meets a run that goes on, and   *)
(* no running row is left without a driver, so it can always be finished.  *)
(* One of another profile never has a run (in-memory-command-bus.ts:9).    *)
DrivenIfServed ==
    \A s \in Sims :
        runs[s] # NoRun <=>
            /\ rows[s] # NoRow
            /\ rows[s].state = "RUNNING"
            /\ rows[s].profile = served

(* Goals of a team among the events told. *)
GoalsOf(told, team) ==
    Cardinality({i \in DOMAIN told : told[i].type = "GoalScored" /\ told[i].team = team})

Shows(score, told) ==
    \A i \in DOMAIN Matches :
        /\ score[i].matchId = Matches[i].id
        /\ score[i].home = GoalsOf(told, Matches[i].home)
        /\ score[i].away = GoalsOf(told, Matches[i].away)

(* An observer who counts the goals told since the last ignition gets the  *)
(* score of every event, of the row that GET returns, and the totals: the  *)
(* board and the counter, which are kept apart (simulation.ts:86), agree,  *)
(* whatever was finished and restarted in between.                         *)
ReplayAgrees ==
    \A s \in Sims :
        rows[s] # NoRow =>
            /\ Shows(Snapshot(rows[s].score), feed[s])
            /\ rows[s].totalGoals = TotalGoals(rows[s].score)
            /\ \A n \in DOMAIN feed[s] :
                feed[s][n] \notin Ignitions => Shows(feed[s][n].score, SubSeq(feed[s], 1, n))

(* A board written to the score column and read back is the same board.    *)
SnapshotsRestore ==
    \A s \in Sims : rows[s] # NoRow => FromSnapshot(Snapshot(rows[s].score)) = rows[s].score

(* The stateful dynamics hold an entry for a simulation exactly while its  *)
(* run sleeps: nothing leaks when runs end or are aborted, and no run      *)
(* inherits the entry of an earlier one (fast-markov-dynamics.ts:61).      *)
EntriesAreOwned ==
    \A s \in Sims :
        turn # s => (entries[s] # NoEntry <=> (runs[s] # NoRun /\ served \in Stateful))

(* The sleeps of a run add up to the virtual time of the goal it waits     *)
(* for, so every goal falls within the match: of a Poisson run exactly, of *)
(* a Markov run at most, since its delays leave the goalless steps out.    *)
KeepsTime ==
    \A s \in Sims :
        (runs[s] # NoRun /\ turn # s) =>
            /\ runs[s].until <= Duration
            /\ served = "poisson-accelerated" => runs[s].until = entries[s].lastEventAt
            /\ served = "fast-markov" =>
                runs[s].until <= entries[s].elapsedMs /\ entries[s].elapsedMs <= Duration

(* A simulation of the served profile that runs is finished, by its owner  *)
(* or by the end of its match, and does not wait for anyone.               *)
ServedRunsEnd ==
    \A s \in Sims :
        (rows[s] # NoRow /\ rows[s].profile = served /\ rows[s].state = "RUNNING")
            ~> (rows[s] # NoRow /\ rows[s].state = "FINISHED")

=============================================================================
