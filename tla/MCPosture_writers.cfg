SPECIFICATION FairSpec
CONSTANTS
  Axes <- MCAxes
  Rungs <- MCRungs
  Levels <- MCLevels
  Default <- MCDefault
  Emergency <- MCEmergency
  Rank <- MCRank
  Requires <- MCRequires
  Overlaps = {}
  Operators = {op1, op2}
  Supervisor = sup
  NoEntry = NoEntry
  Empty = Empty
  Garbage = Garbage
  NoMirror = NoMirror
  TTLs = {1, 2}
  MaxTTL = 2
  MaxReal = 1
  MaxSkew = 1
  MaxCalls = 2
  MaxMishaps = 1
  MaxEvents = 2
  MaxAtOnce = 1
  Launchers = {l1, l2}
  Supers = {s1, s2}
  None = None
INVARIANTS
  NoLeaseBeyondAGrant
  UnracedExpiryWorks
PROPERTY LaunchServes
CHECK_DEADLOCK FALSE
