SPECIFICATION FairSpec
CONSTANTS
  build = build
  resize = resize
  Proc = {build, resize}
  Worker = {build}
  Target = {resize}
  Priority <- Priorities
  MaxJobs = 3
  MaxFaults = 2
INVARIANTS
  TypeOK
  CountExact
  LeavesNone
PROPERTIES
  OrderedDelivery
  ShutdownCompletes
CHECK_DEADLOCK FALSE
