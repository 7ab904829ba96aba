\* Three processes, every combination of their environment variables.
SPECIFICATION FairSpec
CONSTANTS
  p1 = p1  p2 = p2  p3 = p3
  c1 = c1
  s1 = s1
  uniform = uniform  poisson = poisson
  NoRow = NoRow  Silence = Silence
  Processes = {p1, p2, p3}
  Clients = {c1}
  Environments <- Everything
  Sims = {s1}
  Profiles = {uniform, poisson}
  Patient = TRUE
  MaxWaiting = 1
  MaxCrashes = 1
INVARIANTS
  TypeOK
  
  
  NothingStranded
  
PROPERTIES
  RunsEnd
CHECK_DEADLOCK FALSE
