------------------------ MODULE SimulationLifecycle ------------------------
(***************************************************************************)
(* What a simulation promises to whoever reads it: it is created RUNNING   *)
(* with no goals, goals are counted one by one, it finishes once and stays *)
(* as it finished until its owner restarts it, which opens a new run no    *)
(* sooner than the cooldown after the last one.  And it does finish.       *)
(***************************************************************************)
EXTENDS Integers

CONSTANTS
    Sims,      \* simulation ids
    Absent,    \* an id nobody uses yet
    Cooldown,  \* least time between two runs of a simulation
    MaxGoals   \* most goals of one run

VARIABLES
    life,   \* the state of each simulation
    now     \* the clock

vars == <<life, now>>

Lives ==
    [state: {"RUNNING"}, goals: Nat, startedAt: Nat]
    \cup [state: {"FINISHED"}, goals: Nat, startedAt: Nat, finishedAt: Nat]

Running(t) == [state |-> "RUNNING", goals |-> 0, startedAt |-> t]

Is(s, state) == life[s] # Absent /\ life[s].state = state

Init ==
    /\ life = [s \in Sims |-> Absent]
    /\ now = 0

(* The start is dated when it was asked for. *)
Start(s) ==
    /\ life[s] = Absent
    /\ \E t \in 0 .. now : life' = [life EXCEPT ![s] = Running(t)]
    /\ UNCHANGED now

Goal(s) ==
    /\ Is(s, "RUNNING")
    /\ life[s].goals < MaxGoals
    /\ life' = [life EXCEPT ![s].goals = @ + 1]
    /\ UNCHANGED now

Finish(s) ==
    /\ Is(s, "RUNNING")
    /\ \E t \in life[s].startedAt .. now :
        life' = [life EXCEPT ![s] =
          [state |-> "FINISHED", goals |-> @.goals, startedAt |-> @.startedAt, finishedAt |-> t]]
    /\ UNCHANGED now

Restart(s) ==
    /\ Is(s, "FINISHED")
    /\ \E t \in life[s].finishedAt .. now :
        /\ t - life[s].startedAt >= Cooldown
        /\ life' = [life EXCEPT ![s] = Running(t)]
    /\ UNCHANGED now

Tick ==
    /\ now' = now + 1
    /\ UNCHANGED life

Next == Tick \/ \E s \in Sims : Start(s) \/ Goal(s) \/ Finish(s) \/ Restart(s)

Spec ==
    /\ Init
    /\ [][Next]_vars
    /\ \A s \in Sims : WF_vars(Goal(s) \/ Finish(s))

=============================================================================
