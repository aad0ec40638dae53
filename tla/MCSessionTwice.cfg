\* One connection, on which a command may be delivered again while it is carried out.
SPECIFICATION Spec
CONSTANTS
  Agent = agent
  None = None
  Conns = {c1}
  Ids = {1}
  MaxWork = 2
  MaxDriven = 2
  MaxFrames = 1
  SlowDiscovery = FALSE
INVARIANT PerformedOnce
CHECK_DEADLOCK FALSE
