SPECIFICATION StackSpec
CONSTANTS
  Axes <- MCAxes
  Rungs <- MCRungs
  Levels <- MCLevels
  Default <- MCDefault
  Emergency <- NoEmergency
  Rank <- MCRank
  Requires = {}
  Overlaps = {}
  Operators = {tui}
  Supervisor = sup
  NoEntry = NoEntry
  Empty = Empty
  Garbage = Garbage
  NoMirror = NoMirror
  TTLs = {1}
  MaxTTL = 1
  MaxReal = 0
  MaxSkew = 0
  MaxCalls = 2
  MaxMishaps = 1
  MaxEvents = 2
  MaxAtOnce = 1
  StackAxes = {"gcp"}
  Tuis = {tui}
  Services <- MCServices
  Down = Down
  MaxUps = 1
  MaxFailures = 1
PROPERTIES
  NoServiceOutlivesItsLevel
