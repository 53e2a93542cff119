SPECIFICATION FairSpec
CONSTANTS
  p = p
  q = q
  Package = {p}
  Latest = {}
  Targets = {"install", "erase", "keep"}
  Flavours = {"zypper", "yum"}
  MaxOrders = 1
  MaxFaults = 2
INVARIANTS
  TypeOK
  OneAtATime
  NoStall
  RecordedState
PROPERTIES
  Settles
CHECK_DEADLOCK FALSE
