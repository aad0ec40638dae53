\* A panel that only answers on its active input, with DDC providers, and one happening.
SPECIFICATION FairSpec
CONSTANTS
  pc = pc  mac = mac  console = console  dp = dp  hdmi = hdmi  None = None
  Computers = {pc, mac}
  Others = {console}
  Inputs = {dp, hdmi}
  Ports <- TwoPorts
  Cable <- OwnCables
  Ids = {1, 2}
  MaxFrames = 1
  MaxEvents = 1
  Setups <- RealDesk
PROPERTIES LiveInputIsRouted
CHECK_DEADLOCK FALSE
