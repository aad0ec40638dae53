\* Reconnecting, when a discovery may outlast the reconnect delay.
SPECIFICATION FairSpec
CONSTANTS
  Agent = agent
  None = None
  Conns = {c1, c2}
  Ids = {1}
  MaxWork = 1
  MaxDriven = 0
  MaxFrames = 1
  SlowDiscovery = TRUE
PROPERTY Reconnects
CHECK_DEADLOCK FALSE
