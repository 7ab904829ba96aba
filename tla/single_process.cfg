SPECIFICATION Spec
CONSTANTS
    gp = gp
    bm = bm
    germany = germany
    poland = poland
    brazil = brazil
    mexico = mexico
    Matches <- MCMatches
    Users = {ann}
    Profiles = {"uniform-realtime", "poisson-accelerated", "fast-markov"}
    Null = Null
    NoEntry = NoEntry
    NoStep = NoStep
    NoRow = NoRow
    NoRun = NoRun
    Nobody = Nobody
    Sims = {s1, s2}
    Cooldown = 1
    MaxTime = 2
    Duration = 7
    GoalCount = 2
    FirstGoalOffset = 2
    GoalInterval = 5
    Gaps = {3, 8}
    Step = 1
INVARIANTS
    TypeOK
    OwnersIgniteApart
    DrivenIfServed
    ReplayAgrees
    EntriesAreOwned
    KeepsTime
PROPERTIES
    LifecycleSteps
    ServedRunsEnd
CHECK_DEADLOCK FALSE
