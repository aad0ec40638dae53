\* Two agents, two switches or happenings.
SPECIFICATION FairSpec
CONSTANTS
  pc = pc  mac = mac  console = console  dp = dp  hdmi = hdmi  None = None
  Computers = {pc, mac}
  Others = {console}
  Inputs = {dp, hdmi}
  Ports <- TwoPorts
  Cable <- OwnCables
  Ids = {1, 2}
  MaxFrames = 1
  MaxEvents = 2
  Setups <- Desks
INVARIANTS TypeOK MovedOnce BeliefIsTrue DomainIsSound
PROPERTIES DeskIsSeen
