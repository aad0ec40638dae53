\* Two connections, and two calls of the agent that wait for its hardware; a discovery ends before the reconnect delay.
SPECIFICATION FairSpec
CONSTANTS
  Agent = agent
  None = None
  Conns = {c1, c2}
  Ids = {1}
  MaxWork = 2
  MaxDriven = 2
  MaxFrames = 1
  SlowDiscovery = FALSE
INVARIANTS TypeOK OneSession OnlyOverlapsRepeat
PROPERTIES KeepsPresence BrokenIsNoticed Reconnects
CHECK_DEADLOCK FALSE
