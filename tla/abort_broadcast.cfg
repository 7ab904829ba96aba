\* Two replicas of one profile share the ABORT queue.
SPECIFICATION Spec
CONSTANTS
  alice = alice  bob = bob  c1 = c1  c2 = c2  uniform = uniform  poisson = poisson
  s1 = s1  s2 = s2  w1 = w1  w2 = w2  r1 = r1  r2 = r2
  Null = Null  NoRow = NoRow  NoRun = NoRun  NoSim = NoSim
  Users = {alice}
  Clients = {c1}
  UserOf <- OneUser
  Profiles = {uniform}
  Workers = {w1, w2}
  ProfileOf <- AllUniform
  FixedLength = {uniform}
  GoalCount = 1
  Sims = {s1}
  Runs = {r1}
  Cooldown = 1
  MaxTime = 1
  MaxAborts = 1
  FaultKinds = {}
  MaxFaults = 0
  Patient = TRUE
PROPERTIES
  AbortReachesTheRun
