\* One terminal of the box, and a computer that goes back on a commit.
SPECIFICATION Spec
CONSTANTS
  Sessions = {b}
  Paths = {p}
  Contents = {0, 1}
  Subs = {"add", "commit"}
  Tries = 1
  MaxCommits = 4
  MaxEvents = 6
INVARIANT StampSaysWhoMoved
CHECK_DEADLOCK FALSE
