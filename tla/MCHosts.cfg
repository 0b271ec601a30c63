SPECIFICATION Spec
CONSTANTS
  Inodes = {1, 2, 3}
  MaxSpaces = 4
  MaxMisses = 2
  MaxRequests = 2
  MaxDials = 2
  Containers = {"c", "d"}
  SnapshotEvery = 2
  SnapshotsMax = 2
  MaxChanges = 4
  MaxPolls = 4
  MaxFailures = 1
  Terminals = {"s", "t"}
  Configs <- MCConfigs
  Verbs = {"up", "stop", "delete", "recreate", "firewall"}
  MaxVerbs = 2
  MaxMishaps = 1
INVARIANTS
  
  UpOnlyOnTheRecorded
  SenderIsNamed
  HostFirstGetsNoFin
  NotAnothers
PROPERTIES
  CrossingsOpen
  
CHECK_DEADLOCK FALSE
