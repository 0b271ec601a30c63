\* One operator, a supervisor that stays up: does the box end up with what the store says?
SPECIFICATION FairSpec
CONSTANTS
  o1 = o1
  h1 = h1
  Operators <- OneOperator
  Launchers <- OneOperator
  Supervisor = sv
  Hosts <- OneHost
  None = None
  Kinds <- AllKinds
  Levels = {"once", "session", "permanent"}
  Scopes = {"runtime", "build"}
  TTLs <- OneTTL
  WindowTTLs = {1}
  SeedEnforce = TRUE
  MaxTime = 2
  MaxCalls = 2
  OperatorKills = 0
  SupervisorKills = 0
  Terminals = {"up1", "up2"}
  Copiers = {"hand"}
  MaxWrites = 2
  MaxCommands = 3
  MaxFaults = 1
INVARIANT NoLineLost
PROPERTIES EffectiveConverges WallReturns ArchiveCatchesUp
CHECK_DEADLOCK FALSE
