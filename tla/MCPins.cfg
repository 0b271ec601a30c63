CONSTANTS
  main = main
  feat = feat
  toml = toml
  overlay = overlay
  shipped = shipped
  amended = amended
  s1 = s1
  s2 = s2
  s3 = s3
  Checkouts = {main, feat}
  Main = main
  Files <- MCFiles
  FileOrder <- MCFileOrder
  Shared = toml
  Contents = {shipped, amended}
  Absent = Absent
  Nothing = Nothing
  Trees <- MCTrees
  Sessions = {s1, s2}
  Agendas <- MCAgendas
  MaxEdits = 1
  MaxKills = 1
  Names = {"n"}
  Operators = {"p", "q"}
  MaxIds = 3
  MaxCommands = 3
  MaxEvents = 1
  HookFiles = {"f", "g"}
  BATCH_MAX = 2
  ROUND_BATCHES = 2
  MaxSettled = 3
  MaxAsked = 3
  MaxFaults = 2
SPECIFICATION PinsSpec
SYMMETRY Interchangeable
INVARIANTS RunsWhatWasShown CheckIsRight SessionsContinue
PROPERTY PinSwitchesWhole
CHECK_DEADLOCK FALSE
