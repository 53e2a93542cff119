SPECIFICATION FairSpec
CONSTANTS
  memcached = memcached
  logging = logging
  hostmon = hostmon
  Service = {memcached, logging}
  Simple = {memcached}
  Needed <- OnMemcached
  LongWait = {}
  SlowStart = {}
  Throttle = {memcached}
  EnvState <- Licensed
  Happen = {"kill", "boot", "crash"}
  MaxEvents = 2
PROPERTY Converges
CHECK_DEADLOCK FALSE
