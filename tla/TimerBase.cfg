SPECIFICATION Spec
CONSTANTS
  Profiles = {"meta", "hostmon", "mother"}
  MaxTimers = 4
INVARIANTS
  TypeOK
  TimerKept
  TimersExact
