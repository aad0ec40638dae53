\* Every kind of switch: simulated, one cycling button, a button per port.
SPECIFICATION FairSpec
CONSTANTS
  c1 = c1  c2 = c2  c3 = c3  None = None
  Ids = {c1, c2, c3}
  NPorts = 3
  MaxIssues = 3
  Setups <- AllSetups
INVARIANTS
  TypeOK SucceededMeansThere ReportIsCurrent DesiredNamesInFlight 
  PressesLeftReachPort
PROPERTIES PeripheralCommandsConclude
