------------------------------ MODULE Dynamics ------------------------------
(***************************************************************************)
(* The three match dynamics (src/simulation/infrastructure/dynamics) and   *)
(* the profile that selects each: when the next goal comes, or that the    *)
(* match is over.  Random draws are choices: NextStep is the set of what   *)
(* nextStep may return, with the entry it leaves for the simulation.       *)
(***************************************************************************)
EXTENDS Integers

CONSTANTS
    NoEntry,          \* the dynamics hold nothing for the simulation
    NoStep,           \* nextStep returned undefined
    Duration,         \* durationMs
    GoalCount,        \* uniform: goals of a match
    FirstGoalOffset,  \* uniform: delay of the first goal
    GoalInterval,     \* uniform: delay of the others
    Gaps,             \* Poisson: what sampleExp may return, rounded up
    Step              \* Markov: stepMs

ASSUME DynamicsAssumption ==
    /\ {Duration, GoalCount} \subseteq Nat
    /\ {FirstGoalOffset, GoalInterval, Step} \subseteq Nat \ {0}
    /\ Gaps \subseteq Nat \ {0}
    /\ FirstGoalOffset + (GoalCount - 1) * GoalInterval <= Duration

Profile == {"uniform-realtime", "poisson-accelerated", "fast-markov"}

Stateful == {"poisson-accelerated", "fast-markov"}

UniformSteps(tick) ==
    IF tick >= GoalCount
    THEN {NoStep}
    ELSE {[delay |-> IF tick = 0 THEN FirstGoalOffset ELSE GoalInterval, entry |-> NoEntry]}

-----------------------------------------------------------------------------

PoissonEntries == [nextAt: Nat, lastEventAt: Nat]

(* The entry of a run is drawn at its first tick, or when it was lost. *)
PoissonEntry(entry, tick) ==
    IF tick = 0 \/ entry = NoEntry
    THEN {[nextAt |-> gap, lastEventAt |-> 0] : gap \in Gaps}
    ELSE {entry}

(* Mutant: the time of the goal is not remembered. *)
PoissonFiresForgetful(st) ==
    {[delay |-> st.nextAt - st.lastEventAt,
      entry |-> [nextAt |-> st.nextAt + gap, lastEventAt |-> st.lastEventAt]] : gap \in Gaps}

PoissonFires(st) ==
    {[delay |-> st.nextAt - st.lastEventAt,
      entry |-> [nextAt |-> st.nextAt + gap, lastEventAt |-> st.nextAt]] : gap \in Gaps}

PoissonSteps(entry, tick) ==
    UNION {IF st.nextAt > Duration THEN {NoStep} ELSE PoissonFires(st) :
           st \in PoissonEntry(entry, tick)}

-----------------------------------------------------------------------------

MatchState ==
    {"MIDFIELD", "OFFENSIVE_ATTACK", "SHOT", "GOAL", "COUNTER", "DEFENSIVE_BLOCK"}

Transitions ==
    [MIDFIELD         |-> {"OFFENSIVE_ATTACK", "COUNTER", "DEFENSIVE_BLOCK"},
     OFFENSIVE_ATTACK |-> {"SHOT", "MIDFIELD"},
     SHOT             |-> {"GOAL", "DEFENSIVE_BLOCK", "COUNTER"},
     GOAL             |-> {"MIDFIELD"},
     COUNTER          |-> {"SHOT", "MIDFIELD"},
     DEFENSIVE_BLOCK  |-> {"MIDFIELD", "COUNTER"}]

MarkovEntries == [current: MatchState, elapsedMs: Nat]

MarkovEntry(entry, tick) ==
    IF tick = 0 \/ entry = NoEntry THEN [current |-> "MIDFIELD", elapsedMs |-> 0] ELSE entry

(* The walk goes on until GOAL or until no step fits into the match.  Only *)
(* the goal is told: its delay is one step, however long the walk was.     *)
MarkovSteps(entry, tick) ==
    LET st == MarkovEntry(entry, tick)
        left == (Duration - st.elapsedMs) \div Step
        In[n \in 0 .. left] ==  \* where the walk may be after n steps, no goal before
            IF n = 0 THEN {st.current}
            ELSE UNION {Transitions[q] : q \in In[n - 1] \ (IF n = 1 THEN {} ELSE {"GOAL"})}
        goals == {n \in 1 .. left : "GOAL" \in In[n]}
    IN  {[delay |-> Step,
          entry |-> [current |-> "GOAL", elapsedMs |-> st.elapsedMs + n * Step]] : n \in goals}
        \cup (IF left = 0 \/ In[left] # {"GOAL"} THEN {NoStep} ELSE {})

-----------------------------------------------------------------------------

Entry == PoissonEntries \cup MarkovEntries

NextStep(profile, entry, tick) ==
    CASE profile = "uniform-realtime" -> UniformSteps(tick)
      [] profile = "poisson-accelerated" -> PoissonSteps(entry, tick)
      [] profile = "fast-markov" -> MarkovSteps(entry, tick)

(* Mutant: the hook is missing, the entry of an aborted run stays. *)
KeepsEntry(entry) == entry

(* The dynamics drop what they hold for an aborted run. *)
OnAbort(entry) == NoEntry

=============================================================================
