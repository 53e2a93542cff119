SPECIFICATION FairSpec
CONSTANTS
  memcached = memcached
  logging = logging
  hostmon = hostmon
  Service = {hostmon}
  Simple = {}
  Needed <- Alone
  LongWait = {hostmon}
  SlowStart = {}
  Throttle = {}
  EnvState <- Configurable
  Happen = {"crash", "command", "conf", "signal", "hup", "restart"}
  MaxEvents = 3
PROPERTY
  Converges
  ShutdownCompletes
CHECK_DEADLOCK FALSE
