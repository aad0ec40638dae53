\* Two calls at a time, and one change nobody asked for.
SPECIFICATION FairSpec
CONSTANTS
  here = here  there = there  lo = lo  hi = hi  None = None
  Observers = {1}
  Callers = {2}
  Ids = {1}
  Inputs = {here, there}
  Ours = here
  Levels = {lo, hi}
  Wanted <- EveryKind
  ExtraReadEvery = 2
  MaxIssues = 1
  MaxTouches = 1
  Setups <- Buses
INVARIANTS TypeOK CodecIsExact
PROPERTIES SuccessIsEarned ReadingsSettle CallsEnd
