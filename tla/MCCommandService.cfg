CONSTANTS
  m1 = m1  i1 = i1  i2 = i2  lo = lo  a1 = a1  a2 = a2  c1 = c1  c2 = c2  c3 = c3  None = None
  Monitors = {m1}
  Inputs = {i1, i2}
  Levels = {lo}
  Agents = {a1, a2}
  Ids = {c1, c2, c3}
  Kinds = {"input", "brightness"}
  ControlPaths <- SharedPaths
  Claims <- ClaimLegacy
  TargetsOf <- OneForAll
  MaxRetained = 2
  MaxIssues = 3
SPECIFICATION FairSpec
INVARIANTS TypeOK NoStrayTimer DesiredNamesInFlight OneInFlightPerTarget InFlightIsTimed
           WaitsForPresentAgent
PROPERTIES BeliefMovesWithIntent KeepsLifecycle CommandsConclude
