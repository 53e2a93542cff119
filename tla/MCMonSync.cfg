SPECIFICATION FairSpec
CONSTANTS
  main = main
  host = host
  File = {main, host}
  Optional = {host}
  Large = {host}
  Modes = {"all"}
  MaxBuilds = 2
  MaxFaults = 1
CHECK_DEADLOCK FALSE
INVARIANTS TypeOK DistOkSound Delivered Acknowledged DirectoryWhole
PROPERTIES SyncEnds
