\* A file that is not JSON.
SPECIFICATION FairSpec
CONSTANTS
  left = left  right = right  pc = pc  console = console
  work = work  work2 = work2  one = one  two = two  other = other
  x = x  page = page  Keep = Keep  Absent = Absent  Asked = Asked  Done = Done  None = None
  Monitors = {left, right}
  Computers = {pc}
  Declared = {console}
  Names = {work, work2}
  IdsOf <- IdsOfWork
  Labels = {x}
  Patches <- SomePatches
  Reports <- OneOrBoth
  Spots = {0, 1}
  Wirings <- SomeWirings
  Files <- Garbled
  MaxSaves = 2
  Viewers = {page}
  Watchings <- Nobody
  MaxEvents <- Budget
  MaxFrames = 1
PROPERTIES InvalidIsSetAside
CHECK_DEADLOCK FALSE
