SPECIFICATION Spec
CONSTANTS
  memcached = memcached
  logging = logging
  hostmon = hostmon
  Service = {memcached, logging}
  Simple = {memcached}
  Needed <- OnMemcached
  LongWait = {}
  SlowStart = {logging}
  Throttle = {}
  EnvState <- Licensed
  Happen = {"crash", "command", "signal", "hup", "kill", "boot", "instance"}
  MaxEvents = 2
INVARIANTS
  TypeOK
  CacheCoherent
  TimerArmed
  OneTransition
PROPERTY
  HealthySurvives
  OrdersKept
CHECK_DEADLOCK FALSE
