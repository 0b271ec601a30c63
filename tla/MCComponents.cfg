SPECIFICATION FairSpec
CONSTANTS
  Askers = {q1, q2}
  Lifetime = 2
  Memory = 1
  MaxTime = 2
  MaxMints = 3
  Targets = {"api", "pypi", "ssh"}
  Https = {"api", "pypi"}
  Local = {"ssh"}
  Credentials <- MCCredentials
  HostOf <- MCHost
  ScopeOf <- MCScope
  PlaceOf <- MCPlace
  PushPath = "/push"
  Lives <- LiveFiles
  Allows <- AllowFiles
  Requests <- MCRequests
  Clients = {c1}
  MaxChanges = 3
  MaxRequests = 2
  Names = {"a"}
  Main = "main"
  Sessions = {"s", "t"}
  MaxItems = 2
  MaxCommands = 3
  MaxFaults = 1
  Words = {"fy", "gh", "bot", "web", "-", "_"}
  StackPrefix <- MCPrefix
  WorktreePaths <- MCPaths
  ServiceWords <- MCServices
  BuildOf <- OneBuild
  ContextContents = {1, 2}
  MaxImageBuilds = 3
  MaxImageEvents = 2
  Definitions = {"d1", "d2"}
  BaseDefinition = "d1"
  PackageSets <- MCPackages
  EnvKeys = {"key", "claude"}
  EnvValues = {1}
  AgentKey = "claude"
  ImageEnv <- MCImageEnv
  Versions = {"1", "2"}
  BoxUps = {u1}
  MaxBoxUps = 3
  MaxEdits = 2
  BoxSession = "b"
  GitPaths = {"p", "q"}
  GitContents = {0, 1}
  GitSubs = {"add", "commit", "soft", "mixed", "force"}
  GitTries = 2
  MaxGitCommits = 3
  MaxGitEvents = 4
  StackServices = {"db", "api", "worker", "emu"}
  StackManaged = {"emu"}
  StackDeps <- MCDeps
  StackProfile <- MCProfile
  StackModes = {"off", "on", "edit"}
  StackEnabled <- MCEnabled
  StackShaped <- MCShaped
  StackProviders = {"podman", "docker"}
  StackCallers = {"p"}
  MaxVerbs = 2
  MaxMishaps = 2
INVARIANTS
  ReissuedWithAnother
  TunnelsFollowPolicy
  MasksOrSaid
  NothingLostUnasked
  NoSilentRevert
  VerbsAsAsked
  
  
PROPERTIES
  EveryRequestAnswered
  
  HealKeepsStaged
CHECK_DEADLOCK FALSE
