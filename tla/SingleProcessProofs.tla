------------------------ MODULE SingleProcessProofs ------------------------
(***************************************************************************)
(* The default deployment.  What a request or a timer sets off is not      *)
(* interleaved with another one, so a row, the run that drives it and what *)
(* the dynamics hold for it always belong together.  From that follow the  *)
(* throttle, the length of a match and the promise of SimulationLifecycle; *)
(* and, goal by goal, that board, counter and events told agree.           *)
(***************************************************************************)
EXTENDS SingleProcess, FiniteSetTheorems, SequenceTheorems, WellFoundedInduction, TLAPS

-----------------------------------------------------------------------------
(* The boards. *)

(* Entry i is about match i: what fromSnapshot restores. *)
Aligned(board) == board \in Boards /\ \A i \in DOMAIN Matches : board[i].match = Matches[i]

LEMMA NewBoard == Aligned(FromMatches)
BY MatchesAssumption DEF Aligned, FromMatches, Boards, ToSet

LEMMA CountedBoard ==
    ASSUME NEW board, Aligned(board), NEW team
    PROVE  Aligned(Increment(board, team))
BY DEF Aligned, Boards, Increment

LEMMA ResetBoard ==
    ASSUME NEW board, Aligned(board)
    PROVE  Aligned(Reset(board))
BY DEF Aligned, Boards, Reset

LEMMA RestoredBoard ==
    ASSUME NEW board, Aligned(board)
    PROVE  FromSnapshot(Snapshot(board)) = board
<1>1. /\ DOMAIN board = DOMAIN Matches
      /\ \A i \in DOMAIN Matches :
             /\ board[i] \in [match: ToSet(Matches), home: Nat, away: Nat]
             /\ board[i].match = Matches[i]
             /\ Matches[i] \in ToSet(Matches)
  BY DEF Aligned, Boards, ToSet
<1>2. ASSUME NEW i \in DOMAIN Matches
      PROVE  (CHOOSE m \in ToSet(Matches) : m.id = Matches[i].id) = Matches[i]
  <2>1. \A m \in ToSet(Matches) : m.id = Matches[i].id => m = Matches[i]
    BY MatchesAssumption DEF ToSet
  <2> QED
    BY <1>1, <2>1
<1>3. \A i \in DOMAIN Matches :
         board[i] = [match |-> Matches[i], home |-> board[i].home, away |-> board[i].away]
  BY <1>1
<1>4. board \in [DOMAIN Matches -> [match: ToSet(Matches), home: Nat, away: Nat]]
  BY DEF Aligned, Boards
<1> QED
  BY <1>1, <1>2, <1>3, <1>4 DEF FromSnapshot, Snapshot

-----------------------------------------------------------------------------
(* The dynamics. *)

(* The virtual time of goal n of a uniform match. *)
GoalTime(n) == IF n = 0 THEN 0 ELSE FirstGoalOffset + (n - 1) * GoalInterval

(* What holds of a run that asked for n goals: the virtual time of the one *)
(* it waits for, and the entry the dynamics hold.                          *)
Timely(profile, n, until, entry) ==
    /\ n <= until /\ until <= Duration
    /\ n = 0 => until = 0
    /\ profile = "uniform-realtime" =>
         n <= GoalCount /\ until = GoalTime(n) /\ entry = NoEntry
    /\ profile = "poisson-accelerated" /\ n > 0 =>
         /\ entry \in PoissonEntries
         /\ until = entry.lastEventAt
         /\ entry.lastEventAt < entry.nextAt
    /\ profile = "fast-markov" /\ n > 0 =>
         /\ entry \in MarkovEntries
         /\ until <= entry.elapsedMs
         /\ entry.elapsedMs <= Duration

LEMMA Numbers ==
    /\ Duration \in Nat /\ GoalCount \in Nat
    /\ FirstGoalOffset \in Nat /\ FirstGoalOffset >= 1
    /\ GoalInterval \in Nat /\ GoalInterval >= 1
    /\ Step \in Nat /\ Step >= 1
    /\ \A gap \in Gaps : gap \in Nat /\ gap >= 1
    /\ FirstGoalOffset + (GoalCount - 1) * GoalInterval <= Duration
BY DynamicsAssumption

LEMMA Monotone ==
    ASSUME NEW a \in Nat, NEW b \in Nat, a <= b, NEW c \in Nat
    PROVE  a * c <= b * c
OBVIOUS

(* A walk of j steps of m from e ends within d. *)
LEMMA WalkFits ==
    ASSUME NEW e \in Nat, NEW d \in Nat, e <= d, NEW m \in Nat, m >= 1,
           NEW j \in 1 .. ((d - e) \div m)
    PROVE  j \in Nat /\ m <= j * m /\ e + j * m <= d /\ j * m \in Nat
<1>1. j \in Nat /\ 1 <= j /\ j <= (d - e) \div m
  OBVIOUS
<1>2. m <= j * m /\ j * m \in Nat
  BY <1>1
<1>3. j * m <= d - e
  BY <1>1
<1> QED
  BY <1>1, <1>2, <1>3

LEMMA UniformIsTimely ==
    ASSUME NEW n \in Nat, NEW until \in Nat, NEW entry,
           Timely("uniform-realtime", n, until, entry),
           NEW step \in UniformSteps(n), step # NoStep
    PROVE  /\ step.delay \in Nat
           /\ Timely("uniform-realtime", n + 1, until + step.delay, step.entry)
<1>1. /\ n < GoalCount /\ step.entry = NoEntry
      /\ step.delay = IF n = 0 THEN FirstGoalOffset ELSE GoalInterval
  BY Numbers DEF UniformSteps
<1>2. GoalTime(n + 1) = FirstGoalOffset + n * GoalInterval
  BY <1>1, Numbers DEF GoalTime
<1>3. until + step.delay = GoalTime(n + 1)
  <2>1. CASE n = 0
    BY <1>1, <1>2, <2>1, Numbers DEF Timely
  <2>2. CASE n # 0
    <3>1. until = FirstGoalOffset + (n - 1) * GoalInterval
      BY <2>2 DEF Timely, GoalTime
    <3>2. ASSUME NEW k \in Nat
          PROVE  (n - 1) * k + k = n * k /\ (n - 1) * k \in Int /\ n * k \in Int
      OBVIOUS
    <3>3. /\ (n - 1) * GoalInterval + GoalInterval = n * GoalInterval
          /\ (n - 1) * GoalInterval \in Int /\ n * GoalInterval \in Int
      BY <3>2, Numbers
    <3> QED
      BY <1>1, <1>2, <2>2, <3>1, <3>3, Numbers
  <2> QED
    BY <2>1, <2>2
<1>4. GoalTime(n + 1) <= Duration
  <2>1. n * GoalInterval <= (GoalCount - 1) * GoalInterval
    <3>1. n <= GoalCount - 1 /\ GoalCount - 1 \in Nat /\ GoalInterval \in Nat
      BY <1>1, Numbers
    <3> QED
      BY <3>1, Monotone
  <2>2. n * GoalInterval \in Int /\ (GoalCount - 1) * GoalInterval \in Int
    BY Numbers
  <2> QED
    BY <1>2, <2>1, <2>2, Numbers
<1>5. step.delay \in Nat /\ step.delay >= 1
  BY <1>1, Numbers
<1> QED
  BY <1>1, <1>3, <1>4, <1>5, Numbers DEF Timely

LEMMA PoissonIsTimely ==
    ASSUME NEW n \in Nat, NEW until \in Nat, NEW entry,
           Timely("poisson-accelerated", n, until, entry),
           NEW step \in PoissonSteps(entry, n), step # NoStep
    PROVE  /\ step.delay \in Nat
           /\ step.entry \in PoissonEntries
           /\ Timely("poisson-accelerated", n + 1, until + step.delay, step.entry)
<1>1. PICK st \in PoissonEntry(entry, n) : ~(st.nextAt > Duration) /\ step \in PoissonFires(st)
  BY DEF PoissonSteps
<1>2. /\ st \in PoissonEntries /\ st.lastEventAt < st.nextAt
      /\ n = 0 => st.lastEventAt = 0
      /\ n > 0 => st = entry
  <2>1. CASE n = 0
    BY <2>1, <1>1, Numbers DEF PoissonEntry, PoissonEntries
  <2>2. CASE n # 0
    <3>1. entry # NoEntry /\ entry \in PoissonEntries /\ entry.lastEventAt < entry.nextAt
      BY <2>2, SingleProcessAssumption DEF Timely, Entry
    <3> QED
      BY <1>1, <2>2, <3>1 DEF PoissonEntry
  <2> QED
    BY <2>1, <2>2
<1>3. st.nextAt \in Nat /\ st.lastEventAt \in Nat /\ st.nextAt <= Duration
  BY <1>1, <1>2, Numbers DEF PoissonEntries
<1>4. until = st.lastEventAt
  BY <1>2 DEF Timely
<1>5. PICK gap \in Gaps : step = [delay |-> st.nextAt - st.lastEventAt,
                                 entry |-> [nextAt |-> st.nextAt + gap, lastEventAt |-> st.nextAt]]
  BY <1>1 DEF PoissonFires
<1>6. /\ step.delay = st.nextAt - st.lastEventAt
      /\ step.entry = [nextAt |-> st.nextAt + gap, lastEventAt |-> st.nextAt]
      /\ step.entry \in PoissonEntries
  BY <1>3, <1>5, Numbers DEF PoissonEntries
<1>7. step.delay \in Nat /\ step.delay >= 1 /\ until + step.delay = st.nextAt
  BY <1>2, <1>3, <1>4, <1>6
<1>8. n + 1 <= until + step.delay
  BY <1>3, <1>4, <1>7 DEF Timely
<1> QED
  BY <1>3, <1>6, <1>7, <1>8, Numbers DEF Timely

LEMMA MarkovIsTimely ==
    ASSUME NEW n \in Nat, NEW until \in Nat, NEW entry,
           Timely("fast-markov", n, until, entry),
           NEW step \in MarkovSteps(entry, n), step # NoStep
    PROVE  /\ step.delay \in Nat
           /\ step.entry \in MarkovEntries
           /\ Timely("fast-markov", n + 1, until + step.delay, step.entry)
<1> DEFINE st == MarkovEntry(entry, n)
           left == (Duration - st.elapsedMs) \div Step
<1>1. PICK k \in 1 .. left :
        step = [delay |-> Step, entry |-> [current |-> "GOAL", elapsedMs |-> st.elapsedMs + k * Step]]
  BY DEF MarkovSteps
<1>2. /\ st \in MarkovEntries /\ st.elapsedMs <= Duration
      /\ until <= st.elapsedMs
  <2>1. CASE n = 0
    BY <2>1, Numbers DEF MarkovEntry, MarkovEntries, MatchState, Timely
  <2>2. CASE n # 0
    <3>1. /\ entry # NoEntry /\ entry \in MarkovEntries
          /\ until <= entry.elapsedMs /\ entry.elapsedMs <= Duration
      BY <2>2, SingleProcessAssumption DEF Timely, Entry
    <3> QED
      BY <2>2, <3>1 DEF MarkovEntry
  <2> QED
    BY <2>1, <2>2
<1> HIDE DEF st
<1>3. st.elapsedMs \in Nat
  BY <1>2 DEF MarkovEntries
<1>4. k \in Nat /\ Step <= k * Step /\ st.elapsedMs + k * Step <= Duration /\ k * Step \in Nat
  BY <1>2, <1>3, WalkFits, Numbers
<1>5. /\ step.delay = Step
      /\ step.entry = [current |-> "GOAL", elapsedMs |-> st.elapsedMs + k * Step]
      /\ step.entry \in MarkovEntries
  BY <1>1, <1>3, <1>4, Numbers DEF MarkovEntries, MatchState
<1>6. n + 1 <= until + step.delay /\ until + step.delay <= st.elapsedMs + k * Step
  BY <1>2, <1>3, <1>4, <1>5, Numbers DEF Timely
<1>7. until + step.delay <= Duration /\ step.delay \in Nat
  BY <1>3, <1>4, <1>5, <1>6, Numbers
<1> QED
  BY <1>4, <1>5, <1>6, <1>7, Numbers DEF Timely

LEMMA StepIsTimely ==
    ASSUME NEW profile \in Profile, NEW n \in Nat, NEW until \in Nat, NEW entry,
           Timely(profile, n, until, entry),
           NEW step \in NextStep(profile, entry, n), step # NoStep
    PROVE  /\ step.delay \in Nat
           /\ step.entry \in Entry \cup {NoEntry}
           /\ Timely(profile, n + 1, until + step.delay, step.entry)
<1>1. CASE profile = "uniform-realtime"
  <2>1. step \in UniformSteps(n)
    BY <1>1 DEF NextStep
  <2>2. step.entry = NoEntry
    BY <2>1 DEF UniformSteps
  <2> QED
    BY <1>1, <2>1, <2>2, UniformIsTimely
<1>2. CASE profile = "poisson-accelerated"
  <2>1. step \in PoissonSteps(entry, n)
    BY <1>2 DEF NextStep
  <2> QED
    BY <1>2, <2>1, PoissonIsTimely DEF Entry
<1>3. CASE profile = "fast-markov"
  <2>1. step \in MarkovSteps(entry, n)
    BY <1>3 DEF NextStep
  <2> QED
    BY <1>3, <2>1, MarkovIsTimely DEF Entry
<1> QED
  BY <1>1, <1>2, <1>3 DEF Profile

-----------------------------------------------------------------------------
(* The invariant. *)

(* How many goals the run of s has asked the dynamics for. *)
Asked(s) == IF turn = s THEN runs[s].tick ELSE runs[s].tick + 1

(* The run, the row it drives and the entry it sleeps on. *)
RunInv(s) ==
    /\ runs[s] = NoRun => entries[s] = NoEntry
    /\ runs[s] # NoRun =>
         /\ Timely(served, Asked(s), runs[s].until, entries[s])
         /\ rows[s].totalGoals = runs[s].tick

RowInv(s) ==
    rows[s] # NoRow =>
        /\ Aligned(rows[s].score)
        /\ rows[s].startedAt <= now
        /\ rows[s].state = "FINISHED" => rows[s].finishedAt \in 0 .. now

Driven(s) ==
    runs[s] # NoRun <=> rows[s] # NoRow /\ rows[s].state = "RUNNING" /\ rows[s].profile = served

SimInv(s) == RunInv(s) /\ RowInv(s) /\ Driven(s)

(* Nobody's engine goes on but a run's. *)
TurnInv == turn # Nobody => runs[turn] # NoRun

IInv ==
    /\ TypeOK
    /\ TurnInv
    /\ OwnersIgniteApart
    /\ \A s \in Sims : SimInv(s)

(* Nothing of s is touched. *)
Still(s) ==
    /\ rows'[s] = rows[s] /\ runs'[s] = runs[s] /\ entries'[s] = entries[s]
    /\ turn' = s <=> turn = s

LEMMA StillSim ==
    ASSUME TypeOK, NEW s \in Sims, SimInv(s), Still(s),
           served' = served, now' \in Nat, now <= now'
    PROVE  SimInv(s)'
<1>1. RunInv(s)'
  BY DEF SimInv, RunInv, Asked, Still, Timely
<1>2. RowInv(s)'
  <2>1. rows[s] # NoRow => rows[s].startedAt \in Nat
    BY DEF TypeOK, Row
  <2>2. now \in Nat
    BY SingleProcessAssumption DEF TypeOK
  <2> QED
    BY <2>1, <2>2 DEF SimInv, RowInv, Still, Aligned
<1>3. Driven(s)'
  BY DEF SimInv, Driven, Still
<1> QED
  BY <1>1, <1>2, <1>3 DEF SimInv

(* No start is dated anew. *)
LEMMA StartsStay ==
    ASSUME OwnersIgniteApart,
           \A s \in Sims : rows'[s] # NoRow =>
               /\ rows[s] # NoRow
               /\ rows'[s].owner = rows[s].owner
               /\ rows'[s].startedAt = rows[s].startedAt
    PROVE  OwnersIgniteApart'
BY DEF OwnersIgniteApart

(* The throttle let the owner of s through. *)
LEMMA StartIsApart ==
    ASSUME TypeOK, OwnersIgniteApart, NEW s \in Sims, NEW row \in Row,
           CanIgnite(row.owner), row.startedAt = now,
           rows' = [rows EXCEPT ![s] = row]
    PROVE  OwnersIgniteApart'
<1>1. /\ rows'[s] = row
      /\ \A t \in Sims \ {s} : rows'[t] = rows[t]
  BY DEF TypeOK
<1>2. \A t \in Sims \ {s} : rows[t] # NoRow /\ rows[t].owner = row.owner =>
         now - rows[t].startedAt >= Cooldown
  BY DEF CanIgnite, OwnedBy
<1> QED
  BY <1>1, <1>2 DEF OwnersIgniteApart

LEMMA InitEstablishes == Init => IInv
<1> SUFFICES ASSUME Init PROVE IInv
  OBVIOUS
<1>1. TypeOK
  BY SingleProcessAssumption DEF Init, TypeOK
<1>2. TurnInv /\ OwnersIgniteApart
  BY DEF Init, TurnInv, OwnersIgniteApart
<1>3. \A s \in Sims : SimInv(s)
  BY DEF Init, SimInv, RunInv, RowInv, Driven
<1> QED
  BY <1>1, <1>2, <1>3 DEF IInv

-----------------------------------------------------------------------------
(* The steps. *)

(* The row of s is saved RUNNING and its RUN command dispatched. *)
LEMMA Ignition ==
    ASSUME IInv, NEW s \in Sims, NEW row \in Row,
           turn = Nobody, runs[s] = NoRun, CanIgnite(row.owner),
           row.state = "RUNNING", row.totalGoals = 0, row.startedAt = now, Aligned(row.score),
           rows' = [rows EXCEPT ![s] = row],
           DispatchRun(s, row.profile),
           UNCHANGED <<served, now, entries>>
    PROVE  IInv'
<1> DEFINE run == [tick |-> 0, until |-> 0]
<1>1. TypeOK /\ SimInv(s) /\ Nobody \notin Sims /\ now \in Nat
  BY SingleProcessAssumption DEF IInv, TypeOK
<1>2. run \in [tick: Nat, until: 0 .. Duration] /\ run # NoRun
  BY Numbers, SingleProcessAssumption
<1>3. row # NoRow
  BY SingleProcessAssumption
<1>4. CASE row.profile = served
  <2>1. runs' = [runs EXCEPT ![s] = run] /\ turn' = s
    BY <1>4 DEF DispatchRun
  <2>2. TypeOK'
    BY <1>1, <1>2, <2>1 DEF TypeOK
  <2>3. rows'[s] = row /\ runs'[s] = run /\ entries'[s] = NoEntry
    BY <1>1, <2>1 DEF TypeOK, SimInv, RunInv
  <2>4. Timely(served, 0, 0, NoEntry)
    BY Numbers DEF Timely, GoalTime
  <2>5. RunInv(s)'
    BY <1>2, <2>1, <2>3, <2>4 DEF RunInv, Asked, Timely
  <2>6. RowInv(s)' /\ Driven(s)'
    BY <1>1, <1>2, <1>3, <1>4, <2>3 DEF RowInv, Driven, Aligned
  <2>7. \A t \in Sims \ {s} : Still(t)
    BY <1>1, <2>1 DEF TypeOK, Still
  <2>8. \A t \in Sims : SimInv(t)'
    BY <1>1, <2>5, <2>6, <2>7, StillSim DEF SimInv, IInv
  <2>9. TurnInv'
    BY <1>2, <2>1, <2>3 DEF TurnInv
  <2> QED
    BY <1>1, <2>2, <2>8, <2>9, StartIsApart DEF IInv
<1>5. CASE row.profile # served
  <2>1. UNCHANGED <<runs, turn>>
    BY <1>5 DEF DispatchRun
  <2>2. TypeOK'
    BY <1>1, <2>1 DEF TypeOK
  <2>3. rows'[s] = row /\ runs'[s] = NoRun /\ entries'[s] = NoEntry
    BY <1>1, <2>1 DEF TypeOK, SimInv, RunInv
  <2>4. SimInv(s)'
    BY <1>1, <1>5, <2>3 DEF SimInv, RunInv, RowInv, Driven, Aligned
  <2>5. \A t \in Sims \ {s} : Still(t)
    BY <1>1, <2>1 DEF TypeOK, Still
  <2>6. \A t \in Sims : SimInv(t)'
    BY <1>1, <2>4, <2>5, StillSim DEF IInv
  <2>7. TurnInv'
    BY <1>1, <2>1 DEF TurnInv
  <2> QED
    BY <1>1, <2>2, <2>6, <2>7, StartIsApart DEF IInv
<1> QED
  BY <1>4, <1>5

LEMMA PostSimulationStep ==
    ASSUME IInv, NEW s \in Sims, NEW owner \in Users, NEW profile \in Profile,
           PostSimulation(s, owner, profile)
    PROVE  IInv'
<1> DEFINE row == CreateWithBoard(owner, profile)
<1>1. now \in Nat
  BY SingleProcessAssumption DEF IInv, TypeOK
<1>2. row \in Row
  BY <1>1, NewBoard, SingleProcessAssumption DEF CreateWithBoard, Row, Aligned
<1>3. /\ row.owner = owner /\ row.profile = profile /\ row.state = "RUNNING"
      /\ row.totalGoals = 0 /\ row.startedAt = now /\ Aligned(row.score)
  BY NewBoard DEF CreateWithBoard
<1>4. runs[s] = NoRun
  BY DEF PostSimulation, IInv, SimInv, Driven
<1> HIDE DEF row
<1>5. /\ turn = Nobody /\ CanIgnite(row.owner) /\ DispatchRun(s, row.profile)
      /\ rows' = [rows EXCEPT ![s] = row]
      /\ UNCHANGED <<served, now, entries>>
  BY <1>3 DEF PostSimulation, row
<1> QED
  BY <1>2, <1>3, <1>4, <1>5, Ignition

LEMMA PostRestartStep ==
    ASSUME IInv, NEW s \in Sims, PostRestart(s)
    PROVE  IInv'
<1> DEFINE row == RestartWithBoard(rows[s])
<1>1. now \in Nat /\ rows[s] \in Row /\ Aligned(rows[s].score)
  BY SingleProcessAssumption DEF IInv, TypeOK, PostRestart, SimInv, RowInv
<1>2. Aligned(Reset(rows[s].score))
  BY <1>1, ResetBoard
<1>3. /\ row \in Row
      /\ row.owner = rows[s].owner /\ row.profile = rows[s].profile /\ row.state = "RUNNING"
      /\ row.totalGoals = 0 /\ row.startedAt = now /\ row.score = Reset(rows[s].score)
  BY <1>1, <1>2 DEF RestartWithBoard, Restart, Row, Aligned
<1>4. runs[s] = NoRun
  BY DEF PostRestart, IInv, SimInv, Driven
<1>5. rows' = [rows EXCEPT ![s] = row]
  BY DEF PostRestart
<1> HIDE DEF row
<1>6. /\ turn = Nobody /\ CanIgnite(row.owner) /\ DispatchRun(s, row.profile)
      /\ UNCHANGED <<served, now, entries>>
  BY <1>3 DEF PostRestart
<1> QED
  BY <1>2, <1>3, <1>4, <1>5, <1>6, Ignition

(* The run of s is over and its row FINISHED. *)
LEMMA Ending ==
    ASSUME IInv, NEW s \in Sims, runs[s] # NoRun, turn \in {s, Nobody}, turn' = Nobody,
           rows' = [rows EXCEPT ![s] = Finish(@, now)],
           runs' = [runs EXCEPT ![s] = NoRun],
           entries' = [entries EXCEPT ![s] = NoEntry],
           UNCHANGED <<served, now>>
    PROVE  IInv'
<1> DEFINE row == Finish(rows[s], now)
<1>1. TypeOK /\ SimInv(s) /\ Nobody \notin Sims /\ now \in Nat
  BY SingleProcessAssumption DEF IInv, TypeOK
<1>2. rows[s] # NoRow /\ rows[s] \in Row
  BY <1>1 DEF SimInv, Driven, TypeOK
<1>3. /\ row \in Row /\ row # NoRow
      /\ row.owner = rows[s].owner /\ row.startedAt = rows[s].startedAt
      /\ row.score = rows[s].score /\ row.state = "FINISHED" /\ row.finishedAt = now
  BY <1>1, <1>2, SingleProcessAssumption DEF Finish, Row
<1> HIDE DEF row
<1>4. rows' = [rows EXCEPT ![s] = row]
  BY DEF row
<1>5. /\ rows'[s] = row /\ runs'[s] = NoRun /\ entries'[s] = NoEntry
      /\ \A t \in Sims \ {s} : Still(t)
  BY <1>1, <1>4 DEF TypeOK, Still
<1>6. TypeOK'
  BY <1>1, <1>3, <1>4 DEF TypeOK
<1>7. SimInv(s)'
  BY <1>1, <1>2, <1>3, <1>5 DEF SimInv, RunInv, RowInv, Driven, Aligned
<1>8. \A t \in Sims : SimInv(t)'
  BY <1>1, <1>5, <1>7, StillSim DEF IInv
<1>9. OwnersIgniteApart'
  <2>1. \A t \in Sims : rows'[t] # NoRow =>
           /\ rows[t] # NoRow
           /\ rows'[t].owner = rows[t].owner /\ rows'[t].startedAt = rows[t].startedAt
    BY <1>2, <1>3, <1>5 DEF Still
  <2> QED
    BY <2>1, StartsStay DEF IInv
<1> QED
  BY <1>6, <1>8, <1>9 DEF IInv, TurnInv

LEMMA PostFinishStep ==
    ASSUME IInv, NEW s \in Sims, PostFinish(s)
    PROVE  IInv'
BY Ending DEF PostFinish, OnAbort

LEMMA CountedRow ==
    ASSUME NEW sim \in Row, Aligned(sim.score), NEW team
    PROVE  LET row == ApplyGoalWithBoard(sim, team) IN
           /\ row \in Row /\ row # NoRow
           /\ row.owner = sim.owner /\ row.startedAt = sim.startedAt
           /\ row.profile = sim.profile /\ row.state = sim.state
           /\ Aligned(row.score) /\ row.totalGoals = sim.totalGoals + 1
<1> DEFINE goals == sim.totalGoals + 1
           board == Increment(sim.score, team)
<1>1. ApplyGoalWithBoard(sim, team) = [sim EXCEPT !.score = board, !.totalGoals = goals]
  BY DEF ApplyGoalWithBoard, ApplyGoal, Row
<1>2. goals \in Nat /\ board \in Boards /\ Aligned(board)
  BY CountedBoard DEF Row, Aligned
<1> HIDE DEF goals, board
<1>3. [sim EXCEPT !.score = board, !.totalGoals = goals] \in Row
  BY <1>2 DEF Row
<1> QED
  BY <1>1, <1>2, <1>3, SingleProcessAssumption DEF Row, goals

LEMMA WakeStep ==
    ASSUME IInv, NEW s \in Sims, Wake(s)
    PROVE  IInv'
<1>1. PICK team \in Teams :
        rows' = [rows EXCEPT ![s] = ApplyGoalWithBoard(@, team)]
  BY DEF Wake
<1> DEFINE row == ApplyGoalWithBoard(rows[s], team)
           run == [runs[s] EXCEPT !.tick = @ + 1]
<1>2. /\ TypeOK /\ SimInv(s) /\ Nobody \notin Sims /\ now \in Nat
      /\ turn = Nobody /\ turn' = s /\ runs[s] # NoRun
      /\ UNCHANGED <<served, now, entries>>
  BY SingleProcessAssumption DEF IInv, TypeOK, Wake
<1>3. rows[s] # NoRow /\ rows[s] \in Row /\ rows[s].state = "RUNNING"
      /\ rows[s].profile = served /\ Aligned(rows[s].score)
  BY <1>2 DEF SimInv, Driven, RowInv, TypeOK
<1>4. /\ row \in Row /\ row # NoRow
      /\ row.owner = rows[s].owner /\ row.startedAt = rows[s].startedAt
      /\ row.profile = served /\ row.state = "RUNNING"
      /\ Aligned(row.score) /\ row.totalGoals = rows[s].totalGoals + 1
  BY <1>3, CountedRow
<1>5. runs[s] \in [tick: Nat, until: 0 .. Duration]
  BY <1>2 DEF TypeOK
<1>6. /\ run \in [tick: Nat, until: 0 .. Duration] /\ run # NoRun
      /\ run.tick = runs[s].tick + 1 /\ run.until = runs[s].until
  BY <1>5, Numbers, SingleProcessAssumption
<1>7. rows' = [rows EXCEPT ![s] = row] /\ runs' = [runs EXCEPT ![s] = run]
  <2>1. rows' = [rows EXCEPT ![s] = row]
    BY <1>1
  <2>2. runs' = [runs EXCEPT ![s] = run]
    BY DEF Wake
  <2> QED
    BY <2>1, <2>2
<1> HIDE DEF row, run
<1>8. /\ rows'[s] = row /\ runs'[s] = run
      /\ \A t \in Sims \ {s} : Still(t)
  BY <1>2, <1>7 DEF TypeOK, Still
<1>9. TypeOK'
  BY <1>2, <1>4, <1>6, <1>7 DEF TypeOK
<1>10. RunInv(s)'
  BY <1>2, <1>4, <1>6, <1>8 DEF SimInv, RunInv, Asked, Timely
<1>11. RowInv(s)' /\ Driven(s)'
  BY <1>2, <1>3, <1>4, <1>6, <1>8 DEF SimInv, RowInv, Driven, Aligned
<1>12. \A t \in Sims : SimInv(t)'
  BY <1>2, <1>8, <1>10, <1>11, StillSim DEF IInv, SimInv
<1>13. OwnersIgniteApart'
  <2>1. \A t \in Sims : rows'[t] # NoRow =>
           /\ rows[t] # NoRow
           /\ rows'[t].owner = rows[t].owner /\ rows'[t].startedAt = rows[t].startedAt
    BY <1>3, <1>4, <1>8 DEF Still
  <2> QED
    BY <2>1, StartsStay DEF IInv
<1> QED
  BY <1>2, <1>6, <1>8, <1>9, <1>12, <1>13 DEF IInv, TurnInv

(* The engine of s goes to sleep until the goal of step. *)
LEMMA Sleep ==
    ASSUME IInv, NEW s \in Sims, turn = s, turn' = Nobody,
           NEW step \in NextStep(served, entries[s], runs[s].tick), step # NoStep,
           entries' = [entries EXCEPT ![s] = step.entry],
           runs' = [runs EXCEPT ![s].until = @ + step.delay],
           UNCHANGED <<served, now, rows>>
    PROVE  IInv'
<1> DEFINE run == [runs[s] EXCEPT !.until = @ + step.delay]
<1>1. /\ TypeOK /\ SimInv(s) /\ Nobody \notin Sims /\ now \in Nat /\ runs[s] # NoRun
      /\ served \in Profile
  BY SingleProcessAssumption DEF IInv, TypeOK, TurnInv
<1>2. runs[s] \in [tick: Nat, until: 0 .. Duration] /\ runs[s].until \in Nat
  BY <1>1, Numbers DEF TypeOK
<1>3. Timely(served, runs[s].tick, runs[s].until, entries[s])
  BY <1>1 DEF SimInv, RunInv, Asked
<1>4. /\ step.delay \in Nat
      /\ step.entry \in Entry \cup {NoEntry}
      /\ Timely(served, runs[s].tick + 1, runs[s].until + step.delay, step.entry)
  BY <1>1, <1>2, <1>3, StepIsTimely
<1>5. /\ run.tick = runs[s].tick /\ run.until = runs[s].until + step.delay
      /\ run \in [tick: Nat, until: 0 .. Duration] /\ run # NoRun
  BY <1>2, <1>4, Numbers, SingleProcessAssumption DEF Timely
<1>6. runs' = [runs EXCEPT ![s] = run]
  OBVIOUS
<1> HIDE DEF run
<1>7. /\ runs'[s] = run /\ entries'[s] = step.entry
      /\ \A t \in Sims \ {s} : Still(t)
  BY <1>1, <1>6 DEF TypeOK, Still
<1>8. TypeOK'
  BY <1>1, <1>4, <1>5, <1>6 DEF TypeOK
<1>9. RunInv(s)'
  <2>1. Asked(s)' = runs[s].tick + 1
    BY <1>1, <1>5, <1>7 DEF Asked
  <2>2. Timely(served, Asked(s), runs[s].until, entries[s])'
    BY <1>4, <1>5, <1>7, <2>1 DEF Timely
  <2> QED
    BY <1>1, <1>5, <1>7, <2>2 DEF SimInv, RunInv
<1>10. RowInv(s)' /\ Driven(s)'
  BY <1>1, <1>5, <1>7 DEF SimInv, RowInv, Driven, Aligned
<1>11. \A t \in Sims : SimInv(t)'
  BY <1>1, <1>7, <1>9, <1>10, StillSim DEF IInv, SimInv
<1>12. OwnersIgniteApart'
  BY DEF IInv, OwnersIgniteApart
<1> QED
  BY <1>8, <1>11, <1>12 DEF IInv, TurnInv

LEMMA AskStep ==
    ASSUME IInv, NEW s \in Sims, Ask(s)
    PROVE  IInv'
<1>1. /\ turn = s /\ turn' = Nobody /\ runs[s] # NoRun
      /\ UNCHANGED <<served, now>>
  BY SingleProcessAssumption DEF Ask, IInv, TurnInv
<1>2. PICK step \in NextStep(served, entries[s], runs[s].tick) :
        \/ step = NoStep /\ AutoFinish(s)
        \/ /\ step # NoStep
           /\ entries' = [entries EXCEPT ![s] = step.entry]
           /\ runs' = [runs EXCEPT ![s].until = @ + step.delay]
           /\ UNCHANGED <<rows, feed>>
  BY DEF Ask
<1>3. CASE AutoFinish(s)
  BY <1>1, <1>3, Ending DEF AutoFinish
<1>4. CASE step # NoStep /\ ~AutoFinish(s)
  BY <1>1, <1>2, <1>4, Sleep
<1> QED
  BY <1>2, <1>3, <1>4

LEMMA TickStep ==
    ASSUME IInv, Tick
    PROVE  IInv'
<1>1. now' \in Nat /\ now <= now'
  BY SingleProcessAssumption DEF IInv, TypeOK, Tick
<1>2. TypeOK'
  BY SingleProcessAssumption DEF IInv, TypeOK, Tick
<1>3. \A s \in Sims : SimInv(s)'
  BY <1>1, StillSim DEF IInv, Tick, Still
<1> QED
  BY <1>2, <1>3 DEF IInv, Tick, TurnInv, OwnersIgniteApart

LEMMA NextPreserves == IInv /\ [Next]_vars => IInv'
<1> SUFFICES ASSUME IInv, [Next]_vars PROVE IInv'
  OBVIOUS
<1>1. CASE UNCHANGED vars
  <2>1. TypeOK' /\ TurnInv' /\ OwnersIgniteApart'
    BY <1>1 DEF vars, IInv, TypeOK, TurnInv, OwnersIgniteApart
  <2>2. now' \in Nat /\ now <= now'
    BY <1>1, SingleProcessAssumption DEF vars, IInv, TypeOK
  <2>3. \A s \in Sims : SimInv(s)'
    BY <1>1, <2>2, StillSim DEF vars, IInv, Still
  <2> QED
    BY <2>1, <2>3 DEF IInv
<1>2. CASE Next
  BY <1>2, PostSimulationStep, PostRestartStep, PostFinishStep, WakeStep, AskStep, TickStep DEF Next
<1> QED
  BY <1>1, <1>2

LEMMA Invariance == Spec => []IInv
BY InitEstablishes, NextPreserves, PTL DEF Spec

-----------------------------------------------------------------------------
(* What follows. *)

(* Rows, runs and entries have their types; a run never waits for a goal   *)
(* after the match (ticking-simulation-engine.ts:36).                      *)
THEOREM SingleProcessTypes == Spec => []TypeOK
<1>1. IInv => TypeOK
  BY DEF IInv
<1> QED
  BY <1>1, Invariance, PTL

(* The throttle of one process cannot be raced: two simulations of an      *)
(* owner are ignited a cooldown apart, whatever he sends                   *)
(* (simulation-orchestrator.ts:131).                                       *)
THEOREM ThrottleHolds == Spec => []OwnersIgniteApart
<1>1. IInv => OwnersIgniteApart
  BY DEF IInv
<1> QED
  BY <1>1, Invariance, PTL

(* A simulation of the served profile is RUNNING exactly while a run of it *)
(* is in flight (simulation-worker.handler.ts:71).                         *)
THEOREM RowsAndRunsAgree == Spec => []DrivenIfServed
<1>1. IInv => DrivenIfServed
  BY DEF IInv, SimInv, Driven, DrivenIfServed
<1> QED
  BY <1>1, Invariance, PTL

(* A board read back from the score column is the board that was written   *)
(* (score-board.ts:33): every entry finds the match it was written for.    *)
THEOREM BoardsComeBack == Spec => []SnapshotsRestore
<1>1. IInv => SnapshotsRestore
  BY RestoredBoard DEF IInv, SimInv, RowInv, SnapshotsRestore
<1> QED
  BY <1>1, Invariance, PTL

(* The dynamics hold an entry exactly for the runs that sleep, of the      *)
(* profiles that need one (fast-markov-dynamics.ts:103).                   *)
THEOREM NothingLeaks == Spec => []EntriesAreOwned
<1>1. ASSUME IInv, NEW s \in Sims, turn # s, runs[s] # NoRun
      PROVE  entries[s] # NoEntry <=> served \in Stateful
  <2>1. runs[s].tick \in Nat /\ served \in Profile
    BY <1>1 DEF IInv, TypeOK
  <2>2. Timely(served, runs[s].tick + 1, runs[s].until, entries[s])
    BY <1>1 DEF IInv, SimInv, RunInv, Asked
  <2>3. NoEntry \notin PoissonEntries /\ NoEntry \notin MarkovEntries
    BY SingleProcessAssumption DEF Entry
  <2> QED
    BY <2>1, <2>2, <2>3 DEF Timely, Stateful, Profile
<1>2. IInv => EntriesAreOwned
  BY <1>1 DEF IInv, SimInv, RunInv, EntriesAreOwned
<1> QED
  BY <1>2, Invariance, PTL

(* Every goal of every run falls within the match, for any draws of the    *)
(* random providers (poisson-goal-dynamics.ts:56,                          *)
(* fast-markov-dynamics.ts:87).                                            *)
THEOREM GoalsFallWithinTheMatch == Spec => []KeepsTime
<1>1. ASSUME IInv, NEW s \in Sims, turn # s, runs[s] # NoRun
      PROVE  /\ runs[s].until <= Duration
             /\ served = "poisson-accelerated" => runs[s].until = entries[s].lastEventAt
             /\ served = "fast-markov" =>
                  runs[s].until <= entries[s].elapsedMs /\ entries[s].elapsedMs <= Duration
  <2>1. runs[s].tick \in Nat
    BY <1>1 DEF IInv, TypeOK
  <2>2. Timely(served, runs[s].tick + 1, runs[s].until, entries[s])
    BY <1>1 DEF IInv, SimInv, RunInv, Asked
  <2> QED
    BY <2>1, <2>2 DEF Timely
<1>2. IInv => KeepsTime
  BY <1>1 DEF KeepsTime
<1> QED
  BY <1>2, Invariance, PTL

-----------------------------------------------------------------------------
(* The promise of SimulationLifecycle. *)

lives == [s \in Sims |-> Life(s)]

RunningLife(goals, startedAt) ==
    [state |-> "RUNNING", goals |-> goals, startedAt |-> startedAt]

FinishedLife(goals, startedAt, finishedAt) ==
    [state |-> "FINISHED", goals |-> goals, startedAt |-> startedAt, finishedAt |-> finishedAt]

LEMMA LivesArePresent ==
    ASSUME NEW goals \in Nat, NEW startedAt \in Nat, NEW finishedAt \in Nat
    PROVE  /\ RunningLife(goals, startedAt) # NoRow
           /\ FinishedLife(goals, startedAt, finishedAt) # NoRow
BY AbsenceAssumption DEF Promised!Lives, RunningLife, FinishedLife

(* What a reader sees of the row of s. *)
LEMMA LifeOfRow ==
    ASSUME IInv, NEW s \in Sims
    PROVE  /\ rows[s] = NoRow => Life(s) = NoRow
           /\ rows[s] # NoRow =>
                /\ rows[s] \in Row
                /\ Life(s) # NoRow
                /\ Life(s).goals = rows[s].totalGoals
                /\ Life(s).startedAt = rows[s].startedAt
                /\ Life(s).state = rows[s].state
                /\ rows[s].state = "FINISHED" => Life(s).finishedAt = rows[s].finishedAt
<1> SUFFICES ASSUME rows[s] # NoRow
             PROVE  /\ rows[s] \in Row
                    /\ Life(s) # NoRow
                    /\ Life(s).goals = rows[s].totalGoals
                    /\ Life(s).startedAt = rows[s].startedAt
                    /\ Life(s).state = rows[s].state
                    /\ rows[s].state = "FINISHED" => Life(s).finishedAt = rows[s].finishedAt
  BY DEF Life
<1>1. rows[s] \in Row /\ now \in Nat
  BY SingleProcessAssumption DEF IInv, TypeOK
<1>2. rows[s].totalGoals \in Nat /\ rows[s].startedAt \in Nat
      /\ rows[s].state \in {"RUNNING", "FINISHED"}
  BY <1>1 DEF Row
<1>3. CASE rows[s].state = "RUNNING"
  <2>1. Life(s) = RunningLife(rows[s].totalGoals, rows[s].startedAt)
    BY <1>3 DEF Life, RunningLife
  <2> QED
    BY <1>1, <1>2, <1>3, <2>1, LivesArePresent DEF RunningLife
<1>4. CASE rows[s].state = "FINISHED"
  <2>1. Life(s) = FinishedLife(rows[s].totalGoals, rows[s].startedAt, rows[s].finishedAt)
    BY <1>4 DEF Life, FinishedLife
  <2>2. rows[s].finishedAt \in Nat
    BY <1>1, <1>4 DEF IInv, SimInv, RowInv
  <2> QED
    BY <1>1, <1>2, <1>4, <2>1, <2>2, LivesArePresent DEF FinishedLife
<1> QED
  BY <1>2, <1>3, <1>4

(* One row is saved. *)
LEMMA OneLife ==
    ASSUME TypeOK, NEW s \in Sims, NEW row, row # NoRow, rows' = [rows EXCEPT ![s] = row]
    PROVE  /\ row.state = "RUNNING" =>
                lives' = [lives EXCEPT ![s] = RunningLife(row.totalGoals, row.startedAt)]
           /\ row.state = "FINISHED" =>
                lives' = [lives EXCEPT ![s] =
                            FinishedLife(row.totalGoals, row.startedAt, row.finishedAt)]
<1>1. /\ rows'[s] = row
      /\ \A t \in Sims \ {s} : rows'[t] = rows[t]
  BY DEF TypeOK
<1>2. \A t \in Sims \ {s} : Life(t)' = Life(t)
  BY <1>1 DEF Life
<1>3. row.state = "RUNNING" => Life(s)' = RunningLife(row.totalGoals, row.startedAt)
  BY <1>1 DEF Life, RunningLife
<1>4. row.state = "FINISHED" =>
        Life(s)' = FinishedLife(row.totalGoals, row.startedAt, row.finishedAt)
  BY <1>1 DEF Life, FinishedLife
<1> QED
  BY <1>2, <1>3, <1>4 DEF lives

LEMMA IgnitionStarts ==
    ASSUME IInv, NEW s \in Sims, NEW owner \in Users, NEW profile \in Profile,
           PostSimulation(s, owner, profile)
    PROVE  Promised!Start(s)
<1> DEFINE row == CreateWithBoard(owner, profile)
<1>1. /\ now \in Nat /\ TypeOK /\ rows[s] = NoRow /\ now' = now
      /\ rows' = [rows EXCEPT ![s] = row]
  BY SingleProcessAssumption DEF IInv, TypeOK, PostSimulation
<1>2. row \in Row
  BY <1>1, NewBoard, SingleProcessAssumption DEF CreateWithBoard, Row, Aligned
<1>3. row # NoRow /\ row.state = "RUNNING" /\ row.totalGoals = 0 /\ row.startedAt = now
  BY <1>2, SingleProcessAssumption DEF CreateWithBoard
<1> HIDE DEF row
<1>4. lives' = [lives EXCEPT ![s] = RunningLife(0, now)]
  BY <1>1, <1>3, OneLife
<1>5. lives[s] = NoRow /\ now \in 0 .. now
  BY <1>1 DEF lives, Life
<1> QED
  BY <1>1, <1>4, <1>5 DEF Promised!Start, Promised!Running, RunningLife, lives

LEMMA RestartRestarts ==
    ASSUME IInv, NEW s \in Sims, PostRestart(s)
    PROVE  Promised!Restart(s)
<1> DEFINE row == RestartWithBoard(rows[s])
<1>1. /\ now \in Nat /\ TypeOK /\ rows[s] # NoRow /\ now' = now
      /\ rows[s].state = "FINISHED" /\ CanIgnite(rows[s].owner)
      /\ rows' = [rows EXCEPT ![s] = row]
  BY SingleProcessAssumption DEF IInv, TypeOK, PostRestart
<1>2. /\ rows[s] \in Row /\ lives[s] # NoRow /\ lives[s].state = "FINISHED"
      /\ lives[s].startedAt = rows[s].startedAt /\ lives[s].finishedAt = rows[s].finishedAt
  BY <1>1, LifeOfRow DEF lives
<1>3. row.state = "RUNNING" /\ row.totalGoals = 0 /\ row.startedAt = now
  BY <1>2 DEF RestartWithBoard, Restart, Row
<1>4. row # NoRow
  <2>1. Aligned(Reset(rows[s].score))
    BY <1>1, ResetBoard DEF IInv, SimInv, RowInv
  <2>2. row \in Row
    BY <1>1, <1>2, <2>1 DEF RestartWithBoard, Restart, Row, Aligned
  <2> QED
    BY <2>2, SingleProcessAssumption
<1> HIDE DEF row
<1>5. lives' = [lives EXCEPT ![s] = RunningLife(0, now)]
  BY <1>1, <1>3, <1>4, OneLife
<1>6. rows[s].finishedAt \in 0 .. now
  BY <1>1 DEF IInv, SimInv, RowInv
<1>7. now \in lives[s].finishedAt .. now /\ now - lives[s].startedAt >= Cooldown
  BY <1>1, <1>2, <1>6 DEF CanIgnite, OwnedBy
<1> QED
  BY <1>1, <1>2, <1>5, <1>7
     DEF Promised!Restart, Promised!Is, Promised!Running, RunningLife, lives

(* The run of s is over. *)
LEMMA EndingFinishes ==
    ASSUME IInv, NEW s \in Sims, runs[s] # NoRun, now' = now,
           rows' = [rows EXCEPT ![s] = Finish(@, now)]
    PROVE  Promised!Finish(s)
<1> DEFINE row == Finish(rows[s], now)
<1>1. /\ now \in Nat /\ TypeOK /\ rows[s] # NoRow /\ rows[s].state = "RUNNING"
      /\ rows[s].startedAt <= now
  BY SingleProcessAssumption DEF IInv, TypeOK, SimInv, Driven, RowInv
<1>2. /\ rows[s] \in Row /\ lives[s] # NoRow /\ lives[s].state = "RUNNING"
      /\ lives[s].startedAt = rows[s].startedAt /\ lives[s].goals = rows[s].totalGoals
  BY <1>1, LifeOfRow DEF lives
<1>3. /\ row.state = "FINISHED" /\ row.totalGoals = rows[s].totalGoals
      /\ row.startedAt = rows[s].startedAt /\ row.finishedAt = now
  BY <1>2 DEF Finish, Row
<1>4. row # NoRow
  BY <1>1, <1>2, SingleProcessAssumption DEF Finish, Row
<1>5. rows' = [rows EXCEPT ![s] = row]
  OBVIOUS
<1> HIDE DEF row
<1>6. lives' = [lives EXCEPT ![s] = FinishedLife(lives[s].goals, lives[s].startedAt, now)]
  <2>1. lives' = [lives EXCEPT ![s] =
                    FinishedLife(row.totalGoals, row.startedAt, row.finishedAt)]
    BY <1>1, <1>3, <1>4, <1>5, OneLife
  <2> QED
    BY <1>2, <1>3, <2>1
<1>7. now \in lives[s].startedAt .. now
  BY <1>1, <1>2 DEF Row
<1> QED
  BY <1>2, <1>6, <1>7 DEF Promised!Finish, Promised!Is, FinishedLife, lives

LEMMA WakeScores ==
    ASSUME IInv, NEW s \in Sims, Wake(s)
    PROVE  Promised!Goal(s)
<1>1. PICK team \in Teams :
        rows' = [rows EXCEPT ![s] = ApplyGoalWithBoard(@, team)]
  BY DEF Wake
<1> DEFINE row == ApplyGoalWithBoard(rows[s], team)
<1>2. /\ TypeOK /\ rows[s] # NoRow /\ rows[s].state = "RUNNING" /\ Aligned(rows[s].score)
      /\ now' = now
  BY DEF Wake, IInv, SimInv, Driven, RowInv
<1>3. /\ rows[s] \in Row /\ lives[s] # NoRow /\ lives[s].state = "RUNNING"
      /\ lives[s].startedAt = rows[s].startedAt /\ lives[s].goals = rows[s].totalGoals
  BY <1>2, LifeOfRow DEF lives
<1>4. /\ row # NoRow /\ row.state = "RUNNING"
      /\ row.totalGoals = rows[s].totalGoals + 1 /\ row.startedAt = rows[s].startedAt
  BY <1>2, <1>3, CountedRow
<1>5. rows' = [rows EXCEPT ![s] = row]
  BY <1>1
<1> HIDE DEF row
<1>6. lives' = [lives EXCEPT ![s] = RunningLife(lives[s].goals + 1, lives[s].startedAt)]
  <2>1. lives' = [lives EXCEPT ![s] = RunningLife(row.totalGoals, row.startedAt)]
    BY <1>2, <1>4, <1>5, OneLife
  <2> QED
    BY <1>3, <1>4, <2>1
<1>7. rows[s].totalGoals < Duration
  <2>1. runs[s] # NoRun /\ turn # s
    BY SingleProcessAssumption DEF Wake
  <2>2. runs[s].tick \in Nat /\ runs[s].until \in Nat
    BY <1>2, <2>1, Numbers DEF TypeOK
  <2>3. rows[s].totalGoals = runs[s].tick
    BY <2>1 DEF IInv, SimInv, RunInv
  <2>4. runs[s].tick + 1 <= runs[s].until /\ runs[s].until <= Duration
    BY <2>1 DEF IInv, SimInv, RunInv, Asked, Timely
  <2> QED
    BY <2>2, <2>3, <2>4, Numbers
<1>8. [lives EXCEPT ![s].goals = @ + 1] =
        [lives EXCEPT ![s] = RunningLife(lives[s].goals + 1, lives[s].startedAt)]
  <2>1. lives[s] = RunningLife(lives[s].goals, lives[s].startedAt)
    BY <1>2 DEF lives, Life, RunningLife
  <2>2. [lives[s] EXCEPT !.goals = @ + 1] = RunningLife(lives[s].goals + 1, lives[s].startedAt)
    BY <2>1 DEF RunningLife
  <2> QED
    BY <2>2
<1> QED
  BY <1>2, <1>3, <1>6, <1>7, <1>8 DEF Promised!Goal, Promised!Is, lives

LEMMA AskFinishesOrStutters ==
    ASSUME IInv, NEW s \in Sims, Ask(s)
    PROVE  Promised!Finish(s) \/ UNCHANGED <<lives, now>>
<1>1. runs[s] # NoRun /\ now' = now
  BY SingleProcessAssumption DEF Ask, IInv, TurnInv
<1>2. rows' = [rows EXCEPT ![s] = Finish(@, now)] \/ UNCHANGED rows
  BY DEF Ask, AutoFinish
<1>3. CASE rows' = [rows EXCEPT ![s] = Finish(@, now)]
  BY <1>1, <1>3, EndingFinishes
<1>4. CASE UNCHANGED rows
  BY <1>1, <1>4 DEF lives, Life
<1> QED
  BY <1>2, <1>3, <1>4

LEMMA StepKeepsPromise ==
    ASSUME IInv, [Next]_vars
    PROVE  [Promised!Next]_(Promised!vars)
<1>1. CASE UNCHANGED vars
  BY <1>1 DEF vars, Promised!vars, Life
<1>2. CASE \E s \in Sims, owner \in Users, profile \in Profile : PostSimulation(s, owner, profile)
  BY <1>2, IgnitionStarts DEF Promised!Next
<1>3. CASE \E s \in Sims : PostRestart(s)
  BY <1>3, RestartRestarts DEF Promised!Next
<1>4. CASE \E s \in Sims : PostFinish(s)
  BY <1>4, EndingFinishes DEF PostFinish, Promised!Next
<1>5. CASE \E s \in Sims : Wake(s)
  BY <1>5, WakeScores DEF Promised!Next
<1>6. CASE \E s \in Sims : Ask(s)
  BY <1>6, AskFinishesOrStutters DEF Promised!Next, Promised!vars, lives
<1>7. CASE Tick
  <2>1. UNCHANGED lives
    BY <1>7 DEF Tick, lives, Life
  <2> QED
    BY <1>7, <2>1 DEF Tick, Promised!Next, Promised!Tick, lives
<1> QED
  BY <1>1, <1>2, <1>3, <1>4, <1>5, <1>6, <1>7 DEF Next

(* The default deployment implements SimulationLifecycle: what GET reports *)
(* is created, counted, finished and restarted as promised, for any number *)
(* of owners, simulations and matches, and whatever the dynamics draw.     *)
THEOREM PromiseIsKept == Spec => LifecycleSteps
<1>1. Init => Promised!Init
  BY DEF Init, Promised!Init, Life
<1> QED
  BY <1>1, StepKeepsPromise, Invariance, PTL DEF Spec, LifecycleSteps

-----------------------------------------------------------------------------
(* Sums over the matches.  The total is a recursive function; that it is   *)
(* defined, and what a goal adds to it, follows from the least index at    *)
(* which it would not.                                                     *)

(* A set of naturals has a least element. *)
LEMMA NatMin ==
    ASSUME NEW T, T \subseteq Nat, T # {}
    PROVE  \E m \in T : \A n \in T : m <= n
<1>1. PICK m \in T : \A n \in T : <<n, m>> \notin OpToRel(<, Nat)
  BY NatLessThanWellFounded, WFMin
<1>2. \A n \in Nat : n < m => <<n, m>> \in OpToRel(<, Nat)
  BY <1>1 DEF OpToRel
<1>3. ASSUME NEW n \in T
      PROVE  m <= n
  <2>1. n \in Nat /\ m \in Nat /\ ~(n < m)
    BY <1>1, <1>2
  <2> QED
    BY <2>1
<1> QED
  BY <1>3

(* f adds up g, up to k. *)
Adds(f, g, k) ==
    /\ f \in [0 .. k -> Nat]
    /\ f[0] = 0
    /\ \A n \in 1 .. k : f[n] = f[n - 1] + g[n]

(* Sums of naturals are defined. *)
LEMMA SumExists ==
    ASSUME NEW N \in Nat, NEW g \in [1 .. N -> Nat]
    PROVE  \E f : Adds(f, g, N)
<1> DEFINE T == {k \in 0 .. N : ~ \E f : Adds(f, g, k)}
<1>1. SUFFICES ASSUME N \in T PROVE FALSE
  OBVIOUS
<1>2. PICK m \in T : \A n \in T : m <= n
  <2>1. T \subseteq Nat /\ T # {}
    BY <1>1
  <2> HIDE DEF T
  <2> QED
    BY <2>1, NatMin
<1>3. m \in 0 .. N /\ ~ \E f : Adds(f, g, m)
  OBVIOUS
<1>4. \A k \in 0 .. N : k < m => \E f : Adds(f, g, k)
  BY <1>2
<1> HIDE DEF T
<1>5. CASE m = 0
  <2>1. Adds([n \in 0 .. 0 |-> 0], g, 0)
    BY DEF Adds
  <2> QED
    BY <1>3, <1>5, <2>1
<1>6. CASE m # 0
  <2>1. m - 1 \in 0 .. N /\ m - 1 < m /\ m \in 1 .. N /\ g[m] \in Nat
    BY <1>3, <1>6
  <2>2. PICK f : Adds(f, g, m - 1)
    BY <1>4, <2>1
  <2> DEFINE h == [n \in 0 .. m |-> IF n < m THEN f[n] ELSE f[m - 1] + g[m]]
  <2>3. /\ \A n \in 0 .. m - 1 : f[n] \in Nat
        /\ f[0] = 0
        /\ \A n \in 1 .. m - 1 : f[n] = f[n - 1] + g[n]
    BY <2>2 DEF Adds
  <2>4. h \in [0 .. m -> Nat]
    BY <2>1, <2>3
  <2>5. h[0] = 0
    BY <2>1, <2>3
  <2>6. ASSUME NEW n \in 1 .. m
        PROVE  h[n] = h[n - 1] + g[n]
    <3>1. CASE n = m
      BY <2>1, <3>1
    <3>2. CASE n # m
      <4>1. n \in 1 .. m - 1 /\ n < m /\ n - 1 < m /\ n \in 0 .. m /\ n - 1 \in 0 .. m
        BY <2>1, <3>2
      <4>2. h[n] = f[n] /\ h[n - 1] = f[n - 1]
        BY <4>1
      <4> QED
        BY <2>3, <4>1, <4>2
    <3> QED
      BY <3>1, <3>2
  <2>7. Adds(h, g, m)
    BY <2>4, <2>5, <2>6 DEF Adds
  <2> QED
    BY <1>3, <2>7
<1> QED
  BY <1>5, <1>6

(* The goals of match i. *)
Both(board) == [i \in DOMAIN Matches |-> board[i].home + board[i].away]

LEMMA MatchCount == \E N \in Nat : N = Len(Matches) /\ DOMAIN Matches = 1 .. N
<1>1. PICK S : Matches \in Seq(S)
  BY MatchesAssumption
<1> QED
  BY <1>1, LenProperties

LEMMA BothAreNats ==
    ASSUME NEW board, Aligned(board)
    PROVE  Both(board) \in [DOMAIN Matches -> Nat]
BY DEF Both, Aligned, Boards

LEMMA BoardLen ==
    ASSUME NEW board, Aligned(board)
    PROVE  Len(board) = Len(Matches)
<1>1. PICK N \in Nat : N = Len(Matches) /\ DOMAIN Matches = 1 .. N
  BY MatchCount
<1>2. board \in [1 .. N -> [match: ToSet(Matches), home: Nat, away: Nat]]
  BY <1>1 DEF Aligned, Boards
<1>3. Len(board) = N
  BY <1>1, <1>2
<1> QED
  BY <1>1, <1>3

(* What score-board.ts adds up. *)
LEMMA TotalAdds ==
    ASSUME NEW board, Aligned(board)
    PROVE  \E f : Adds(f, Both(board), Len(Matches)) /\ TotalGoals(board) = f[Len(Matches)]
<1>1. PICK N \in Nat : N = Len(Matches) /\ DOMAIN Matches = 1 .. N
  BY MatchCount
<1> DEFINE Is(f) == f = [n \in 0 .. N |->
                           IF n = 0 THEN 0 ELSE f[n - 1] + board[n].home + board[n].away]
           g == Both(board)
<1>2. g \in [1 .. N -> Nat]
  BY <1>1, BothAreNats
<1>3. \A n \in 1 .. N : g[n] = board[n].home + board[n].away
                        /\ board[n].home \in Nat /\ board[n].away \in Nat
  BY <1>1 DEF Both, Aligned, Boards
<1> HIDE DEF g
<1>4. ASSUME NEW f, Adds(f, g, N)
      PROVE  Is(f)
  BY <1>3, <1>4 DEF Adds
<1>5. PICK f : Adds(f, g, N)
  BY <1>2, SumExists
<1> DEFINE c == CHOOSE h : Is(h)
<1>6. Is(c)
  BY <1>4, <1>5
<1>7. TotalGoals(board) = c[N]
  <2>1. Len(board) = N
    BY <1>1, BoardLen
  <2> QED
    BY <2>1 DEF TotalGoals
<1>8. \A n \in 0 .. N : c[n] = IF n = 0 THEN 0 ELSE c[n - 1] + board[n].home + board[n].away
  <2> HIDE DEF c
  <2> QED
    BY <1>6
<1> HIDE DEF c, Is
<1>9. c[N] = f[N]
  <2> DEFINE T == {n \in 0 .. N : c[n] # f[n]}
  <2>1. SUFFICES ASSUME T # {} PROVE FALSE
    OBVIOUS
  <2>2. PICK m \in T : \A n \in T : m <= n
    <3>1. T \subseteq Nat
      OBVIOUS
    <3> HIDE DEF T
    <3> QED
      BY <2>1, <3>1, NatMin
  <2>3. m \in 0 .. N /\ c[m] # f[m] /\ \A n \in 0 .. N : n < m => c[n] = f[n]
    BY <2>2
  <2> HIDE DEF T
  <2>4. m # 0
    BY <1>5, <1>8, <2>3 DEF Adds
  <2>5. m \in 1 .. N /\ m - 1 \in 0 .. N /\ m - 1 < m
    BY <2>3, <2>4
  <2>6. f[m] = f[m - 1] + g[m] /\ f[m - 1] \in Nat
    BY <1>5, <2>5 DEF Adds
  <2>7. c[m] = c[m - 1] + board[m].home + board[m].away
    BY <1>8, <2>3, <2>4
  <2> QED
    BY <1>3, <2>3, <2>5, <2>6, <2>7
<1> QED
  BY <1>1, <1>5, <1>7, <1>9 DEF g

(* Two sums that differ by d from match k on. *)
LEMMA SumsDiffer ==
    ASSUME NEW N \in Nat, NEW f, NEW g, NEW ff, NEW gg, Adds(f, g, N), Adds(ff, gg, N),
           NEW k \in 1 .. N, NEW d \in Nat,
           g \in [1 .. N -> Nat], gg[k] = g[k] + d, \A n \in 1 .. N \ {k} : gg[n] = g[n]
    PROVE  ff[N] = f[N] + d
<1> DEFINE e(n) == IF n < k THEN 0 ELSE d
           T == {n \in 0 .. N : ff[n] # f[n] + e(n)}
<1>1. SUFFICES ASSUME T # {} PROVE FALSE
  <2>1. e(N) = d
    OBVIOUS
  <2>2. N \in 0 .. N
    OBVIOUS
  <2> QED
    BY <2>1, <2>2
<1>2. PICK m \in T : \A n \in T : m <= n
  <2>1. T \subseteq Nat
    OBVIOUS
  <2> HIDE DEF T
  <2> QED
    BY <1>1, <2>1, NatMin
<1>3. m \in 0 .. N /\ ff[m] # f[m] + e(m) /\ \A n \in 0 .. N : n < m => ff[n] = f[n] + e(n)
  BY <1>2
<1> HIDE DEF T
<1>4. m # 0
  BY <1>3 DEF Adds
<1>5. m \in 1 .. N /\ m - 1 \in 0 .. N /\ m - 1 < m
  BY <1>3, <1>4
<1>6. /\ f[m] = f[m - 1] + g[m] /\ f[m - 1] \in Nat /\ g[m] \in Nat
      /\ ff[m] = ff[m - 1] + gg[m]
  BY <1>5 DEF Adds
<1>7. ff[m - 1] = f[m - 1] + e(m - 1)
  BY <1>3, <1>5
<1>8. CASE m = k
  BY <1>3, <1>5, <1>6, <1>7, <1>8
<1>9. CASE m # k
  <2>1. gg[m] = g[m] /\ e(m) = e(m - 1) /\ e(m) \in Nat
    BY <1>5, <1>9
  <2> HIDE DEF e
  <2> QED
    BY <1>3, <1>6, <1>7, <2>1
<1> QED
  BY <1>8, <1>9

LEMMA EmptyTotal ==
    ASSUME NEW board, Aligned(board),
           \A i \in DOMAIN Matches : board[i].home = 0 /\ board[i].away = 0
    PROVE  TotalGoals(board) = 0
<1>1. PICK N \in Nat : N = Len(Matches) /\ DOMAIN Matches = 1 .. N
  BY MatchCount
<1>2. PICK f : Adds(f, Both(board), N) /\ TotalGoals(board) = f[N]
  BY <1>1, TotalAdds
<1>3. \A n \in 1 .. N : Both(board)[n] = 0
  BY <1>1 DEF Both
<1> DEFINE T == {n \in 0 .. N : f[n] # 0}
<1>4. SUFFICES ASSUME T # {} PROVE FALSE
  <2>1. N \in 0 .. N
    OBVIOUS
  <2> QED
    BY <1>2, <2>1
<1>5. PICK m \in T : \A n \in T : m <= n
  <2>1. T \subseteq Nat
    OBVIOUS
  <2> HIDE DEF T
  <2> QED
    BY <1>4, <2>1, NatMin
<1>6. m \in 0 .. N /\ f[m] # 0 /\ \A n \in 0 .. N : n < m => f[n] = 0
  BY <1>5
<1> HIDE DEF T
<1>7. m # 0
  BY <1>2, <1>6 DEF Adds
<1>8. m \in 1 .. N /\ m - 1 \in 0 .. N /\ m - 1 < m
  BY <1>6, <1>7
<1>9. f[m] = f[m - 1] + Both(board)[m]
  BY <1>2, <1>8 DEF Adds
<1> QED
  BY <1>3, <1>6, <1>8, <1>9

(* One goal more for the team that scored. *)
One(team, x) == IF x = team THEN 1 ELSE 0

LEMMA Credited ==
    ASSUME NEW board, Aligned(board), NEW team, NEW i \in DOMAIN Matches
    PROVE  /\ Increment(board, team)[i].match = Matches[i]
           /\ Increment(board, team)[i].home = board[i].home + One(team, Matches[i].home)
           /\ Increment(board, team)[i].away = board[i].away + One(team, Matches[i].away)
<1>1. /\ board[i] \in [match: ToSet(Matches), home: Nat, away: Nat]
      /\ board[i].match = Matches[i] /\ i \in DOMAIN board
  BY DEF Aligned, Boards
<1>2. Matches[i].home # Matches[i].away
  BY MatchesAssumption
<1> DEFINE entry == board[i]
<1>3. Increment(board, team)[i] =
        CASE entry.match.home = team -> [entry EXCEPT !.home = @ + 1]
          [] entry.match.away = team -> [entry EXCEPT !.away = @ + 1]
          [] OTHER -> entry
  BY <1>1 DEF Increment
<1> HIDE DEF entry
<1>4. /\ entry \in [match: ToSet(Matches), home: Nat, away: Nat]
      /\ entry.match = Matches[i] /\ entry.home \in Nat /\ entry.away \in Nat
  BY <1>1 DEF entry
<1>5. CASE Matches[i].home = team
  BY <1>2, <1>3, <1>4, <1>5 DEF One, entry
<1>6. CASE Matches[i].away = team
  BY <1>2, <1>3, <1>4, <1>6 DEF One, entry
<1>7. CASE Matches[i].home # team /\ Matches[i].away # team
  BY <1>2, <1>3, <1>4, <1>7 DEF One, entry
<1> QED
  BY <1>5, <1>6, <1>7

LEMMA GoalIsAdded ==
    ASSUME NEW board, Aligned(board), NEW team \in Teams
    PROVE  TotalGoals(Increment(board, team)) = TotalGoals(board) + 1
<1>1. PICK N \in Nat : N = Len(Matches) /\ DOMAIN Matches = 1 .. N
  BY MatchCount
<1>2. PICK k \in DOMAIN Matches : Matches[k].home = team \/ Matches[k].away = team
  BY DEF Teams, ToSet
<1> DEFINE more == Increment(board, team)
<1>3. Aligned(more)
  BY CountedBoard
<1>4. /\ One(team, Matches[k].home) + One(team, Matches[k].away) = 1
      /\ One(team, Matches[k].home) \in Nat /\ One(team, Matches[k].away) \in Nat
      /\ \A i \in DOMAIN Matches \ {k} :
             One(team, Matches[i].home) = 0 /\ One(team, Matches[i].away) = 0
  BY <1>2, MatchesAssumption DEF One
<1>5. \A i \in DOMAIN Matches :
         /\ board[i].home \in Nat /\ board[i].away \in Nat
         /\ more[i].home = board[i].home + One(team, Matches[i].home)
         /\ more[i].away = board[i].away + One(team, Matches[i].away)
  BY Credited DEF Aligned, Boards
<1> HIDE DEF more
<1>6. Both(more)[k] = Both(board)[k] + 1
  <2>1. /\ Both(more)[k] = more[k].home + more[k].away
        /\ Both(board)[k] = board[k].home + board[k].away
    BY DEF Both
  <2> QED
    BY <1>4, <1>5, <2>1
<1>7. \A i \in 1 .. N \ {k} : Both(more)[i] = Both(board)[i]
  BY <1>1, <1>4, <1>5 DEF Both
<1>8. PICK f : Adds(f, Both(board), N) /\ TotalGoals(board) = f[N]
  BY <1>1, TotalAdds
<1>9. PICK h : Adds(h, Both(more), N) /\ TotalGoals(more) = h[N]
  BY <1>1, <1>3, TotalAdds
<1>10. Both(board) \in [1 .. N -> Nat] /\ k \in 1 .. N /\ 1 \in Nat
  BY <1>1, BothAreNats
<1>11. h[N] = f[N] + 1
  BY <1>6, <1>7, <1>8, <1>9, <1>10, SumsDiffer
<1> QED
  BY <1>8, <1>9, <1>11 DEF more

-----------------------------------------------------------------------------
(* Goals among the events told. *)

(* What a room is told. *)
Word ==
    Ignitions
    \cup {GoalOf(sim, team) : sim \in Row, team \in Teams}
    \cup {EndOf(sim, reason) : sim \in Row, reason \in {"auto", "manual"}}

IsGoal(e, x) == e.type = "GoalScored" /\ e.team = x

GoalsAt(told, x) == {i \in DOMAIN told : told[i].type = "GoalScored" /\ told[i].team = x}

LEMMA GoalsAreFinite ==
    ASSUME NEW told \in Seq(Word), NEW x
    PROVE  IsFiniteSet(GoalsAt(told, x)) /\ GoalsAt(told, x) \subseteq 1 .. Len(told)
<1>1. GoalsAt(told, x) \subseteq 1 .. Len(told) /\ Len(told) \in Nat
  BY LenProperties DEF GoalsAt
<1>2. IsFiniteSet(1 .. Len(told))
  BY <1>1, FS_Interval
<1> QED
  BY <1>1, <1>2, FS_Subset

LEMMA GoalsAreCounted ==
    ASSUME NEW told \in Seq(Word), NEW e \in Word, NEW x
    PROVE  /\ GoalsOf(told, x) \in Nat
           /\ GoalsOf(Append(told, e), x) = GoalsOf(told, x) + (IF IsGoal(e, x) THEN 1 ELSE 0)
<1> PICK more : more = Append(told, e)
  OBVIOUS
<1> PICK n \in Nat : n = Len(told)
  BY LenProperties
<1>1. /\ more \in Seq(Word) /\ Len(more) = n + 1
      /\ \A i \in 1 .. n : more[i] = told[i]
      /\ more[n + 1] = e
  BY AppendProperties
<1>2. DOMAIN told = 1 .. n /\ DOMAIN more = 1 .. n + 1
  BY <1>1, LenProperties
<1>3. GoalsAt(more, x) = GoalsAt(told, x) \cup (IF IsGoal(e, x) THEN {n + 1} ELSE {})
  <2>1. ASSUME NEW i
        PROVE  i \in GoalsAt(more, x) <=>
                 i \in GoalsAt(told, x) \cup (IF IsGoal(e, x) THEN {n + 1} ELSE {})
    <3>1. i \in 1 .. n + 1 <=> i \in 1 .. n \/ i = n + 1
      OBVIOUS
    <3>2. n + 1 \notin 1 .. n
      OBVIOUS
    <3> QED
      BY <1>1, <1>2, <3>1, <3>2 DEF GoalsAt, IsGoal
  <2> QED
    BY <2>1
<1>4. IsFiniteSet(GoalsAt(told, x)) /\ n + 1 \notin GoalsAt(told, x)
  BY GoalsAreFinite
<1>5. /\ GoalsOf(more, x) = Cardinality(GoalsAt(more, x))
      /\ GoalsOf(told, x) = Cardinality(GoalsAt(told, x))
  BY DEF GoalsOf, GoalsAt
<1>6. Cardinality(GoalsAt(told, x)) \in Nat
  BY <1>4, FS_CardinalityType
<1>7. CASE IsGoal(e, x)
  <2>1. Cardinality(GoalsAt(told, x) \cup {n + 1}) = Cardinality(GoalsAt(told, x)) + 1
    BY <1>4, FS_AddElement
  <2> QED
    BY <1>3, <1>5, <1>6, <1>7, <2>1
<1>8. CASE ~IsGoal(e, x)
  BY <1>3, <1>5, <1>6, <1>8
<1> QED
  BY <1>5, <1>6, <1>7, <1>8

LEMMA NoGoalsYet ==
    ASSUME NEW e \in Ignitions, NEW x
    PROVE  GoalsOf(<<e>>, x) = 0
<1>1. GoalsAt(<<e>>, x) = {}
  BY DEF GoalsAt, Ignitions, SimulationStarted, SimulationRestarted
<1> QED
  BY <1>1, FS_EmptySet DEF GoalsOf, GoalsAt

(* The score i of a snapshot. *)
LEMMA Shown ==
    ASSUME NEW board, Aligned(board), NEW i \in DOMAIN Matches
    PROVE  /\ Snapshot(board)[i].matchId = Matches[i].id
           /\ Snapshot(board)[i].home = board[i].home
           /\ Snapshot(board)[i].away = board[i].away
BY DEF Aligned, Boards, Snapshot

LEMMA GoalIsShown ==
    ASSUME NEW board, Aligned(board), NEW team \in Teams, NEW sim \in Row,
           NEW told \in Seq(Word), Shows(Snapshot(board), told)
    PROVE  Shows(Snapshot(Increment(board, team)), Append(told, GoalOf(sim, team)))
<1> PICK e : e = GoalOf(sim, team)
  OBVIOUS
<1>1. e \in Word /\ \A x : IsGoal(e, x) <=> x = team
  BY DEF Word, GoalOf, IsGoal
<1>2. \A x : GoalsOf(Append(told, e), x) = GoalsOf(told, x) + One(team, x)
  BY <1>1, GoalsAreCounted DEF One
<1> PICK more : more = Increment(board, team)
  OBVIOUS
<1>3. Aligned(more)
  BY CountedBoard
<1>4. \A i \in DOMAIN Matches :
         /\ more[i].home = board[i].home + One(team, Matches[i].home)
         /\ more[i].away = board[i].away + One(team, Matches[i].away)
  BY Credited
<1>5. \A i \in DOMAIN Matches :
         /\ board[i].home = GoalsOf(told, Matches[i].home)
         /\ board[i].away = GoalsOf(told, Matches[i].away)
  BY Shown DEF Shows
<1>6. Shows(Snapshot(more), Append(told, e))
  BY <1>2, <1>3, <1>4, <1>5, Shown DEF Shows
<1> QED
  BY <1>6

LEMMA OthersShowTheSame ==
    ASSUME NEW score, NEW told \in Seq(Word), NEW e \in Word, e.type # "GoalScored",
           Shows(score, told)
    PROVE  Shows(score, Append(told, e))
<1>1. \A x : GoalsOf(told, x) \in Nat /\ GoalsOf(Append(told, e), x) = GoalsOf(told, x) + 0
  BY GoalsAreCounted DEF IsGoal
<1>2. \A x : GoalsOf(Append(told, e), x) = GoalsOf(told, x)
  BY <1>1
<1> QED
  BY <1>2 DEF Shows

(* The scores told agree with the goals told before them. *)
Replays(told) ==
    \A n \in DOMAIN told : told[n] \notin Ignitions => Shows(told[n].score, SubSeq(told, 1, n))

LEMMA OneMoreReplays ==
    ASSUME NEW told \in Seq(Word), NEW e \in Word, Replays(told), Shows(e.score, Append(told, e))
    PROVE  Replays(Append(told, e))
<1> PICK more : more = Append(told, e)
  OBVIOUS
<1> PICK k \in Nat : k = Len(told)
  BY LenProperties
<1>1. /\ more \in Seq(Word) /\ Len(more) = k + 1
      /\ \A i \in 1 .. k : more[i] = told[i]
      /\ more[k + 1] = e
  BY AppendProperties
<1>2. DOMAIN told = 1 .. k /\ DOMAIN more = 1 .. k + 1
  BY <1>1, LenProperties
<1>3. SubSeq(more, 1, k + 1) = more
  BY <1>1, SubSeqFull
<1>4. ASSUME NEW n \in 1 .. k
      PROVE  SubSeq(more, 1, n) = SubSeq(told, 1, n)
  <2>1. more = told \o <<e>> /\ <<e>> \in Seq(Word)
    BY AppendIsConcat
  <2> QED
    BY <2>1, SubSeqOfConcat1
<1>5. ASSUME NEW n \in DOMAIN more, more[n] \notin Ignitions
      PROVE  Shows(more[n].score, SubSeq(more, 1, n))
  <2>1. CASE n = k + 1
    BY <1>1, <1>3, <2>1
  <2>2. CASE n # k + 1
    <3>1. n \in 1 .. k
      BY <1>2, <2>2
    <3> QED
      BY <1>1, <1>2, <1>4, <1>5, <3>1 DEF Replays
  <2> QED
    BY <2>1, <2>2
<1> QED
  BY <1>5 DEF Replays

LEMMA FirstReplays ==
    ASSUME NEW e \in Ignitions
    PROVE  Replays(<<e>>)
BY DEF Replays

-----------------------------------------------------------------------------
(* Board, counter and events together, from one step to the next. *)

(* Board, counter and events of s. *)
ReplayInv(s) ==
    rows[s] # NoRow =>
        /\ Shows(Snapshot(rows[s].score), feed[s])
        /\ rows[s].totalGoals = TotalGoals(rows[s].score)
        /\ Replays(feed[s])

FeedInv ==
    /\ feed \in [Sims -> Seq(Word)]
    /\ \A s \in Sims : ReplayInv(s)

(* Only s is told of something and saved. *)
LEMMA OneIsSaved ==
    ASSUME IInv, FeedInv, NEW s \in Sims, NEW row \in Row, NEW told \in Seq(Word),
           rows' = [rows EXCEPT ![s] = row], feed' = [feed EXCEPT ![s] = told],
           Shows(Snapshot(row.score), told), row.totalGoals = TotalGoals(row.score), Replays(told)
    PROVE  FeedInv'
<1>1. /\ rows'[s] = row /\ feed'[s] = told
      /\ \A t \in Sims \ {s} : rows'[t] = rows[t] /\ feed'[t] = feed[t]
      /\ feed' \in [Sims -> Seq(Word)]
  BY DEF IInv, TypeOK, FeedInv
<1>2. ReplayInv(s)'
  BY <1>1 DEF ReplayInv
<1>3. \A t \in Sims \ {s} : ReplayInv(t)'
  BY <1>1 DEF ReplayInv, FeedInv
<1> QED
  BY <1>1, <1>2, <1>3 DEF FeedInv

(* The row of s starts from an empty board. *)
LEMMA IgnitionReplays ==
    ASSUME IInv, FeedInv, NEW s \in Sims, NEW row \in Row, NEW e \in Ignitions,
           rows' = [rows EXCEPT ![s] = row], feed' = [feed EXCEPT ![s] = <<e>>],
           row.totalGoals = 0, Aligned(row.score),
           \A i \in DOMAIN Matches : row.score[i].home = 0 /\ row.score[i].away = 0
    PROVE  FeedInv'
<1>1. <<e>> \in Seq(Word)
  BY DEF Word
<1>2. Replays(<<e>>)
  BY FirstReplays
<1>3. TotalGoals(row.score) = 0
  BY EmptyTotal
<1>4. Shows(Snapshot(row.score), <<e>>)
  BY Shown, NoGoalsYet DEF Shows
<1> QED
  BY <1>1, <1>2, <1>3, <1>4, OneIsSaved

LEMMA PostSimulationReplays ==
    ASSUME IInv, FeedInv, NEW s \in Sims, NEW owner \in Users, NEW profile \in Profile,
           PostSimulation(s, owner, profile)
    PROVE  FeedInv'
<1> DEFINE row == CreateWithBoard(owner, profile)
<1>1. now \in Nat
  BY SingleProcessAssumption DEF IInv, TypeOK
<1>2. row \in Row /\ row.totalGoals = 0 /\ row.score = FromMatches
  BY <1>1, NewBoard, SingleProcessAssumption DEF CreateWithBoard, Row, Aligned
<1>3. /\ Aligned(FromMatches)
      /\ \A i \in DOMAIN Matches : FromMatches[i].home = 0 /\ FromMatches[i].away = 0
  BY NewBoard DEF FromMatches
<1>4. rows' = [rows EXCEPT ![s] = row] /\ feed' = [feed EXCEPT ![s] = <<SimulationStarted>>]
  BY DEF PostSimulation
<1>5. SimulationStarted \in Ignitions
  BY DEF Ignitions
<1> HIDE DEF row
<1> QED
  BY <1>2, <1>3, <1>4, <1>5, IgnitionReplays

LEMMA PostRestartReplays ==
    ASSUME IInv, FeedInv, NEW s \in Sims, PostRestart(s)
    PROVE  FeedInv'
<1> DEFINE row == RestartWithBoard(rows[s])
<1>1. now \in Nat /\ rows[s] \in Row /\ Aligned(rows[s].score)
  BY SingleProcessAssumption DEF IInv, TypeOK, PostRestart, SimInv, RowInv
<1>2. /\ Aligned(Reset(rows[s].score))
      /\ \A i \in DOMAIN Matches :
             Reset(rows[s].score)[i].home = 0 /\ Reset(rows[s].score)[i].away = 0
  <2>1. ASSUME NEW i \in DOMAIN Matches
        PROVE  Reset(rows[s].score)[i].home = 0 /\ Reset(rows[s].score)[i].away = 0
    <3>1. /\ i \in DOMAIN rows[s].score
          /\ rows[s].score[i] \in [match: ToSet(Matches), home: Nat, away: Nat]
      BY <1>1 DEF Aligned, Boards
    <3> QED
      BY <3>1 DEF Reset
  <2> QED
    BY <1>1, <2>1, ResetBoard
<1>3. row \in Row /\ row.totalGoals = 0 /\ row.score = Reset(rows[s].score)
  BY <1>1, <1>2 DEF RestartWithBoard, Restart, Row, Aligned
<1>4. rows' = [rows EXCEPT ![s] = row] /\ feed' = [feed EXCEPT ![s] = <<SimulationRestarted>>]
  BY DEF PostRestart
<1>5. SimulationRestarted \in Ignitions
  BY DEF Ignitions
<1> HIDE DEF row
<1> QED
  BY <1>2, <1>3, <1>4, <1>5, IgnitionReplays

LEMMA WakeReplays ==
    ASSUME IInv, FeedInv, NEW s \in Sims, Wake(s)
    PROVE  FeedInv'
<1>1. rows[s] \in Row /\ rows[s] # NoRow /\ Aligned(rows[s].score)
  BY DEF IInv, TypeOK, Wake, SimInv, Driven, RowInv
<1>2. PICK team \in Teams :
        /\ rows' = [rows EXCEPT ![s] = ApplyGoalWithBoard(@, team)]
        /\ feed' = [feed EXCEPT ![s] = Append(@, GoalOf(rows'[s], team))]
  BY DEF Wake
<1> DEFINE row == ApplyGoalWithBoard(rows[s], team)
<1>3. /\ row \in Row /\ row.totalGoals = rows[s].totalGoals + 1
      /\ row.score = Increment(rows[s].score, team)
  <2>1. row \in Row /\ row.totalGoals = rows[s].totalGoals + 1
    BY <1>1, CountedRow
  <2>2. row.score = Increment(rows[s].score, team)
    BY <1>1 DEF ApplyGoalWithBoard, ApplyGoal, Row
  <2> QED
    BY <2>1, <2>2
<1>4. rows' = [rows EXCEPT ![s] = row]
  BY <1>2
<1> HIDE DEF row
<1>5. rows'[s] = row
  BY <1>4 DEF IInv, TypeOK
<1> PICK told \in Seq(Word) : told = feed[s]
  BY DEF FeedInv
<1> PICK e : e = GoalOf(row, team)
  OBVIOUS
<1>6. e \in Word /\ e.score = Snapshot(row.score)
  BY <1>3 DEF Word, GoalOf
<1>7. feed' = [feed EXCEPT ![s] = Append(told, e)]
  BY <1>2, <1>5
<1>8. /\ Shows(Snapshot(rows[s].score), told)
      /\ rows[s].totalGoals = TotalGoals(rows[s].score)
      /\ Replays(told)
  BY <1>1 DEF FeedInv, ReplayInv
<1>9. Shows(Snapshot(row.score), Append(told, e))
  BY <1>1, <1>3, <1>8, GoalIsShown
<1>10. row.totalGoals = TotalGoals(row.score)
  BY <1>1, <1>3, <1>8, GoalIsAdded
<1>11. Replays(Append(told, e)) /\ Append(told, e) \in Seq(Word)
  BY <1>6, <1>8, <1>9, OneMoreReplays, AppendProperties
<1> QED
  BY <1>3, <1>4, <1>7, <1>9, <1>10, <1>11, OneIsSaved

LEMMA EndReplays ==
    ASSUME IInv, FeedInv, NEW s \in Sims, runs[s] # NoRun, NEW reason \in {"auto", "manual"},
           rows' = [rows EXCEPT ![s] = Finish(@, now)],
           feed' = [feed EXCEPT ![s] = Append(@, EndOf(rows'[s], reason))]
    PROVE  FeedInv'
<1>1. rows[s] \in Row /\ rows[s] # NoRow /\ now \in Nat
  BY SingleProcessAssumption DEF IInv, TypeOK, SimInv, Driven
<1> DEFINE row == Finish(rows[s], now)
<1>2. row \in Row /\ row.totalGoals = rows[s].totalGoals /\ row.score = rows[s].score
  BY <1>1 DEF Finish, Row
<1>3. rows' = [rows EXCEPT ![s] = row]
  OBVIOUS
<1> HIDE DEF row
<1>4. rows'[s] = row
  BY <1>3 DEF IInv, TypeOK
<1> PICK told \in Seq(Word) : told = feed[s]
  BY DEF FeedInv
<1> PICK e : e = EndOf(row, reason)
  OBVIOUS
<1>5. e \in Word /\ e.score = Snapshot(row.score) /\ e.type # "GoalScored"
  <2>1. e \in Word
    BY <1>2 DEF Word
  <2> QED
    BY <2>1 DEF EndOf
<1>6. feed' = [feed EXCEPT ![s] = Append(told, e)]
  BY <1>4
<1>7. /\ Shows(Snapshot(row.score), told)
      /\ row.totalGoals = TotalGoals(row.score)
      /\ Replays(told)
  BY <1>1, <1>2 DEF FeedInv, ReplayInv
<1>8. Shows(Snapshot(row.score), Append(told, e))
  BY <1>5, <1>7, OthersShowTheSame
<1>9. Replays(Append(told, e)) /\ Append(told, e) \in Seq(Word)
  BY <1>5, <1>7, <1>8, OneMoreReplays, AppendProperties
<1> QED
  BY <1>2, <1>3, <1>6, <1>7, <1>8, <1>9, OneIsSaved

LEMMA NothingTold ==
    ASSUME FeedInv, UNCHANGED <<rows, feed>>
    PROVE  FeedInv'
<1>1. rows' = rows /\ feed' = feed
  OBVIOUS
<1> QED
  BY <1>1 DEF FeedInv, ReplayInv, Shows

LEMMA AskReplays ==
    ASSUME IInv, FeedInv, NEW s \in Sims, Ask(s)
    PROVE  FeedInv'
<1>1. runs[s] # NoRun
  BY SingleProcessAssumption DEF IInv, TurnInv, Ask
<1>2. AutoFinish(s) \/ UNCHANGED <<rows, feed>>
  BY DEF Ask
<1>3. CASE AutoFinish(s)
  BY <1>1, <1>3, EndReplays DEF AutoFinish
<1> QED
  BY <1>2, <1>3, NothingTold

LEMMA FeedInvariance == Spec => []FeedInv
<1>1. Init => FeedInv
  BY DEF Init, FeedInv, ReplayInv
<1>2. IInv /\ FeedInv /\ [Next]_vars => FeedInv'
  <2> SUFFICES ASSUME IInv, FeedInv, [Next]_vars PROVE FeedInv'
    OBVIOUS
  <2>1. ASSUME NEW s \in Sims, PostFinish(s)
        PROVE  FeedInv'
    BY <2>1, EndReplays DEF PostFinish
  <2>2. CASE Tick \/ UNCHANGED vars
    BY <2>2, NothingTold DEF Tick, vars
  <2> QED
    BY <2>1, <2>2, PostSimulationReplays, PostRestartReplays, WakeReplays, AskReplays DEF Next
<1> QED
  BY <1>1, <1>2, Invariance, PTL DEF Spec

(* An observer that counts the goals it is told gets the score of every    *)
(* event and of the row, and the counter, which simulation.ts:86 keeps     *)
(* apart from the board, is the board's total (score-board.ts:55).         *)
THEOREM CountingReplays == Spec => []ReplayAgrees
<1>1. FeedInv => ReplayAgrees
  BY DEF FeedInv, ReplayInv, Replays, ReplayAgrees
<1> QED
  BY <1>1, FeedInvariance, PTL

=============================================================================
