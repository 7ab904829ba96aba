\* Two impatient clients of one user race each other on one simulation.
SPECIFICATION Spec
CONSTANTS
  alice = alice  bob = bob  c1 = c1  c2 = c2  uniform = uniform  poisson = poisson
  s1 = s1  s2 = s2  w1 = w1  w2 = w2  r1 = r1  r2 = r2
  Null = Null  NoRow = NoRow  NoRun = NoRun  NoSim = NoSim
  Users = {alice}
  Clients = {c1, c2}
  UserOf <- OneUser
  Profiles = {poisson}
  Workers = {w1}
  ProfileOf <- AllPoisson
  FixedLength = {}
  GoalCount = 1
  Sims = {s1}
  Runs = {r1, r2}
  Cooldown = 1
  MaxTime = 1
  MaxAborts = 1
  FaultKinds = {}
  MaxFaults = 0
  Patient = FALSE
SYMMETRY SymmetryOfClients
INVARIANTS
  TypeOK
  CommandsHaveRows
  InFlightIsLive
  DrainIsPrompt
PROPERTIES
  AbortedRunsAreOver
