\* Two launches at once, an upgrade and a hanging tick.
SPECIFICATION Spec
CONSTANTS
  Launchers = {l1, l2}
  Supers = {s1, s2}
  Verbs <- AllVerbs
  None = None
  Empty = Empty
  MaxCode = 2
  MaxKills = 1
  MaxWedges = 1
  MaxMishaps = 1
SYMMETRY RunSymmetry
INVARIANTS OneSupervisor 
CHECK_DEADLOCK FALSE
