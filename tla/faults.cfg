\* Patient clients, two faults of any kind, goals of random number.
SPECIFICATION Spec
CONSTANTS
  alice = alice  bob = bob  c1 = c1  c2 = c2  uniform = uniform  poisson = poisson
  s1 = s1  s2 = s2  w1 = w1  w2 = w2  r1 = r1  r2 = r2
  Null = Null  NoRow = NoRow  NoRun = NoRun  NoSim = NoSim
  Users = {alice}
  Clients = {c1}
  UserOf <- OneUser
  Profiles = {poisson}
  Workers = {w1, w2}
  ProfileOf <- AllPoisson
  FixedLength = {}
  GoalCount = 2
  Sims = {s1}
  Runs = {r1}
  Cooldown = 1
  MaxTime = 2
  MaxAborts = 1
  FaultKinds = {"request", "call", "crash", "shutdown"}
  MaxFaults = 2
  Patient = TRUE
SYMMETRY SymmetryOfReplicas
INVARIANTS
  AtMostOneDriver
  RoomsAreClose
PROPERTIES
  ToldIsStored
  LifecycleSteps
  StrandedStays
