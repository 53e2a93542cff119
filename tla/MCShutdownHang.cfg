SPECIFICATION FairSpec
CONSTANTS
  memcached = memcached
  logging = logging
  hostmon = hostmon
  Service = {memcached, logging}
  Simple = {memcached}
  Needed <- OnMemcached
  LongWait = {}
  SlowStart = {}
  Throttle = {}
  EnvState <- Licensed
  Happen = {"signal"}
  MaxEvents = 1
PROPERTY ShutdownCompletes
CHECK_DEADLOCK FALSE
