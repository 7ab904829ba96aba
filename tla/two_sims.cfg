\* Two owners, two simulations, two profiles.
SPECIFICATION Spec
CONSTANTS
  alice = alice  bob = bob  c1 = c1  c2 = c2  uniform = uniform  poisson = poisson
  s1 = s1  s2 = s2  w1 = w1  w2 = w2  r1 = r1  r2 = r2
  Null = Null  NoRow = NoRow  NoRun = NoRun  NoSim = NoSim
  Users = {alice, bob}
  Clients = {c1, c2}
  UserOf <- EachTheirOwn
  Profiles = {uniform, poisson}
  Workers = {w1, w2}
  ProfileOf <- OneOfEach
  FixedLength = {uniform}
  GoalCount = 1
  Sims = {s1, s2}
  Runs = {r1, r2}
  Cooldown = 1
  MaxTime = 1
  MaxAborts = 1
  FaultKinds = {}
  MaxFaults = 0
  Patient = TRUE
SYMMETRY SymmetryOfSims
INVARIANTS
  CopiesKeepIdentity
PROPERTIES
  IdentityIsStable
  IgnitionsAreApart
