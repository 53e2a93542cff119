SPECIFICATION Spec
CONSTANTS
  StartGrace = 1
  ReducedTime = 1
  MinStateTime = 2
  StableInterval = 4
  LockTimeout = 3
  DisableAge = 3
  Window = 12
  Rows = 10
  CheckEvery = 3
  StepEvery = 1
  WaitTime = 1
  Fate = {"ok", "dead"}
  MaxEvents = 1
INVARIANTS
  TypeOK
  StartsBounded
  OneTransition
PROPERTY
  FlappingIsSlow
