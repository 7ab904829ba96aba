------------------------------ MODULE Services ------------------------------
(***************************************************************************)
(* What the orchestrator and the workers share: the simulations table, the *)
(* BullMQ queues (one RUN queue per profile, one ABORT queue, one event    *)
(* queue) and the clock.  Each operator below is one remote call; it takes *)
(* effect atomically, when the awaited promise of its caller resolves.     *)
(***************************************************************************)
EXTENDS Simulation, Sequences

CONSTANTS
    Sims,       \* simulation ids (UUIDs)
    NoRow,      \* what findById returns for an unknown id
    Cooldown,   \* START_COOLDOWN_MS
    MaxTime,    \* bound: the clock stops here
    MaxAborts,  \* bound: finish requests and ABORT commands waiting at once
    FaultKinds, \* what may go wrong: some of AllFaultKinds
    MaxFaults   \* bound: how often, in a behaviour

ASSUME RowAssumption == NoRow \notin Aggregate

(* A request's awaited call, a worker's awaited call, a process that is    *)
(* killed, one that is asked to stop.                                      *)
AllFaultKinds == {"request", "call", "crash", "shutdown"}

ASSUME BoundAssumption ==
    /\ FaultKinds \subseteq AllFaultKinds
    /\ Cooldown \in Nat
    /\ MaxTime \in Nat
    /\ MaxAborts \in Nat
    /\ MaxFaults \in Nat

VARIABLES
    now,         \* Clock.now() of every process
    rows,        \* the simulations table
    runQueue,    \* topic simulation.run.<profile>, oldest command first
    abortQueue,  \* topic simulation.abort, oldest command first
    feed,        \* per room: what observers received since the last ignition event
    faults       \* faults so far

serviceVars == <<now, rows, runQueue, abortQueue, feed, faults>>

AbortCommand == [sim: Sims, finishedAt: Nat]

ServicesTypeOK ==
    /\ now \in Nat
    /\ rows \in [Sims -> Aggregate \cup {NoRow}]
    /\ runQueue \in [Profiles -> Seq(Sims)]
    /\ abortQueue \in Seq(AbortCommand)
    /\ feed \in [Sims -> Seq(Event)]
    /\ faults \in Nat

ServicesInit ==
    /\ now = 0
    /\ rows = [s \in Sims |-> NoRow]
    /\ runQueue = [p \in Profiles |-> << >>]
    /\ abortQueue = << >>
    /\ feed = [s \in Sims |-> << >>]
    /\ faults = 0

(* save: an upsert of every column, whatever the row holds by now. *)
Save(s, sim) == rows' = [rows EXCEPT ![s] = sim]

(* Mutant: off by one. *)
CanIgniteTooEarly(owner, t) ==
    \A s \in Sims :
        (rows[s] # NoRow /\ rows[s].owner = owner) => t - rows[s].startedAt >= Cooldown - 1

(* findLastStartedAtByOwner, then canIgnite: the newest startedAt of the   *)
(* owner is at least Cooldown old at t; an owner without rows may ignite.  *)
CanIgnite(owner, t) ==
    \A s \in Sims :
        (rows[s] # NoRow /\ rows[s].owner = owner) => t - rows[s].startedAt >= Cooldown

(* Mutant: every RUN command goes to one topic, whatever the profile. *)
DispatchRunToDefault(s, profile) ==
    runQueue' = [runQueue EXCEPT ![CHOOSE p \in Profiles : TRUE] = Append(@, s)]

DispatchRun(s, profile) ==
    runQueue' = [runQueue EXCEPT ![profile] = Append(@, s)]

DispatchAbort(s, t) == abortQueue' = Append(abortQueue, [sim |-> s, finishedAt |-> t])

(* The forwarder hands the events over to the room one by one, in queue    *)
(* order.  An ignition event opens a new feed.                             *)
Forward(told, event) ==
    IF event \in Ignitions THEN <<event>> ELSE Append(told, event)

Publish(s, event) == feed' = [feed EXCEPT ![s] = Forward(@, event)]

Fault(kind) ==
    /\ kind \in FaultKinds
    /\ faults < MaxFaults
    /\ faults' = faults + 1

Tick ==
    /\ now < MaxTime
    /\ now' = now + 1
    /\ UNCHANGED <<rows, runQueue, abortQueue, feed, faults>>

=============================================================================
