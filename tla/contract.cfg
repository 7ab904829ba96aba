\* A patient client and an observer that comes and goes at any time, two replicas, no faults.
SPECIFICATION FairObserversSpec
CONSTANTS
  alice = alice
  c1 = c1
  uniform = uniform
  s1 = s1
  w1 = w1  w2 = w2
  r1 = r1
  o1 = o1
  Null = Null  NoRow = NoRow  NoRun = NoRun  NoSim = NoSim  Unasked = Unasked
  Users = {alice}
  Clients = {c1}
  UserOf <- OneUser
  Profiles = {uniform}
  Workers = {w1, w2}
  ProfileOf <- AllUniform
  FixedLength = {uniform}
  GoalCount = 2
  Sims = {s1}
  Runs = {r1}
  Cooldown = 1
  MaxTime = 2
  MaxAborts = 1
  FaultKinds = {}
  MaxFaults = 0
  Patient = TRUE
  Sockets = {o1}
  MaxLag = 2
INVARIANTS
  RunningIsDriven
  FeedInOrder
  WorkersSurvive
  ObserversTypeOK
  NothingMissed
  CaughtUp
PROPERTIES
  LifecycleSpec
  AbortsReturn
  EndIsHeard
