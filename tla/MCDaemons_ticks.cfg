SPECIFICATION FairSpec
CONSTANTS
  proxy = proxy
  proxyW = proxyW
  main = main
  w = w
  d1 = d1
  d2 = d2
  d3 = d3
  d4 = d4
  d5 = d5
  None = None
  Main = main
  Names <- MCNames
  Home <- MCHome
  Proxies <- MCNames
  Postures <- MCPostures
  Pids <- MCPids
  MaxEvents = 1
  MaxMishaps = 1
  NoEntry = NoEntry
  Empty = Empty
  Garbage = Garbage
  NoMirror = NoMirror
  Down = Down
  Terminals = {"b1", "b2"}
  Answering = {"b1"}
  Wants <- MCWants
  MaxAttempts = 2
  MaxBuilds = 2
  MaxEdits = 2
  Probed = {"gcp", "claude"}
  Minted = {"gcp"}
  Recreated = {"gcp", "claude"}
  Awaited = "claude"
  MaxLapses = 4
INVARIANTS
  NoneLeftBehind
  RecoveryRecreates
  SecretsOfTheRunning
  OnlyTheOperatorsLines
PROPERTIES
  PostureServed
  
CHECK_DEADLOCK FALSE
