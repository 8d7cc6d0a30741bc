CONSTANTS
  None = None
  Pids = {p1, p2}
  Readers = 1
  MaxRunning = 1
  MaxRetained = 1
  PidsRecycle = FALSE
  Callers = {c1}
  Helpers = {}
  Escaped = {}
  WaitMayFail = TRUE
SPECIFICATION Spec
INVARIANTS
  PollFindsTheEntry
  OrderIsExact
PROPERTIES
  EvictsOnlyReaped
SYMMETRY Symmetry
