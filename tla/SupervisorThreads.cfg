CONSTANTS
  None = None
  Pids = {p1, p2, p3}
  Readers = 1
  MaxRunning = 1
  MaxRetained = 1
  PidsRecycle = FALSE
  Callers = {c1, c2}
  Helpers = {}
  Escaped = {}
  WaitMayFail = TRUE
SPECIFICATION Spec
CONSTRAINT
  OneChildOrLaunches
INVARIANTS
  TableTracksReap
  TerminalIsOrdered
  RunningBound
SYMMETRY Symmetry
