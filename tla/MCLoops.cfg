SPECIFICATION LoopSpec
CONSTANTS
  Axes <- MCAxes
  Rungs <- MCRungs
  Levels <- MCLevels
  Default <- MCDefault
  Emergency <- MCEmergency
  Rank <- MCRank
  Requires = {}
  Overlaps = {}
  RowSets <- MCRowSets
  NumNames = 3
  MaxSlot = 3
  None = None
  Recordings <- MCRecordings
  Pinnings <- MCPinnings
  Hashes <- MCHashes
  Commanders = {o1, o2}
  launcher = o1
  sv = sv
  Grantable = {h1}
  GrantLevels = {"session", "permanent"}
  GrantScopes = {"runtime"}
  Lifetimes = {1}
  Openings = {1}
  EnforceSeed = TRUE
  MaxTime = 2
  MaxCalls = 2
  MaxDeaths = 1
  Runs = {r1, r2}
  Torn = Torn
  NoFile = NoFile
  MaxChanges = 3
  MaxAsks = 3
  MaxRepins = 1
  MaxKills = 1
SYMMETRY RunSymmetry
INVARIANTS
  SettlesToWorking
  UnracedNoPortTwice
  AnswersReachTheBox
CHECK_DEADLOCK FALSE
