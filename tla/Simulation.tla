----------------------------- MODULE Simulation -----------------------------
(***************************************************************************)
(* The Simulation aggregate (src/simulation/domain/aggregates) and the     *)
(* domain events it raises.  The score board is reduced to totalGoals: it  *)
(* is incremented, reset and saved together with that counter.  The        *)
(* matches, the name and the id's format never change and are left out.    *)
(***************************************************************************)
EXTENDS Integers

CONSTANTS
    Users,      \* owners, the subject of the JWT
    Profiles,   \* simulation profiles; each has its own RUN topic
    Null        \* an absent date

ASSUME NullAssumption == Null \notin Nat

(* One row of the store, or one in-memory copy of it. *)
Aggregate ==
    [owner: Users, profile: Profiles, state: {"RUNNING", "FINISHED"},
     totalGoals: Nat, startedAt: Nat, finishedAt: Nat \cup {Null}]

Create(owner, profile, now) ==
    [owner |-> owner, profile |-> profile, state |-> "RUNNING",
     totalGoals |-> 0, startedAt |-> now, finishedAt |-> Null]

(* The code throws InvalidStateError when sim is not RUNNING: every use is *)
(* guarded by the state, and what happens on the throw is modelled there.  *)
ApplyGoal(sim) == [sim EXCEPT !.totalGoals = @ + 1]

(* Mutant: dated a tick before the clock. *)
FinishBackdated(sim, now) == [sim EXCEPT !.state = "FINISHED", !.finishedAt = now - 1]

Finish(sim, now) == [sim EXCEPT !.state = "FINISHED", !.finishedAt = now]

(* Mutant: the counter is not reset. *)
RestartKeepingGoals(sim, now) ==
    [sim EXCEPT !.state = "RUNNING", !.startedAt = now, !.finishedAt = Null]

Restart(sim, now) ==
    [sim EXCEPT !.state = "RUNNING", !.totalGoals = 0,
                !.startedAt = now, !.finishedAt = Null]

-----------------------------------------------------------------------------

SimulationStarted == [type |-> "SimulationStarted"]

SimulationRestarted == [type |-> "SimulationRestarted"]

GoalScored(sim) == [type |-> "GoalScored", totalGoals |-> sim.totalGoals]

SimulationFinished(reason, sim) ==
    [type |-> "SimulationFinished", reason |-> reason, totalGoals |-> sim.totalGoals]

Ignitions == {SimulationStarted, SimulationRestarted}

Event ==
    Ignitions
    \cup [type: {"GoalScored"}, totalGoals: Nat]
    \cup [type: {"SimulationFinished"}, reason: {"manual", "auto"}, totalGoals: Nat]

=============================================================================
